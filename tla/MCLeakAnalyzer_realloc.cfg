\* Every call, the report.
SPECIFICATION Spec
CONSTANTS
    Thread = {t1, t2, t3}
    Addr = {a1, a2, a3}
    Stack = {s1, s2}
    NULL = NULL
    Calls = {"alloc", "realloc", "free"}
    Request <- OneByte
    CountMax = 1
    FinalAction = "PrintStackAndExit"
    SizeModulus = 4
    RecoveryModulus = 4
    MaxHolders = 4
SYMMETRY Symmetry
INVARIANTS
    TypeOK
    LedgerConsistent
    LockDiscipline
    RecordedBlocksAreLive
    AssertFailsOnlyInReallocWindow
    LimitStopsAnalysis
    OneOwner
PROPERTIES
    NoFalseReport
    ImplementsLedger

\* TryFixLeak with blocks that are released after all: both limits.
SPECIFICATION HistorySpec
CONSTANTS
    Thread = {t1, t2}
    Addr = {a1, a2, a3, a4, a5, a6}
    Stack = {s1}
    NULL = NULL
    Calls = {"alloc", "free"}
    Request <- OneByte
    CountMax = 4
    FinalAction = "TryFixLeak"
    SizeModulus = 4
    RecoveryModulus = 4
    MaxHolders = 2
SYMMETRY Symmetry
INVARIANTS
    RecoveryHysteresis
    LeakIsContained
PROPERTY
    ImplementsLedger

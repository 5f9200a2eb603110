\* The report reads a stack item that another thread frees.
SPECIFICATION Spec
CONSTANTS
    Thread = {t1, t2, t3}
    Addr = {a1, a2, a3, a4}
    Stack = {s1}
    NULL = NULL
    Calls = {"alloc", "realloc", "free"}
    Request <- OneByte
    CountMax = 1
    FinalAction = "PrintStackAndExit"
    SizeModulus = 4
    RecoveryModulus = 4
    MaxHolders = 4
SYMMETRY Symmetry
INVARIANTS
    ReportedStackStaysValid

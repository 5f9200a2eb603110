\* A failed realloc drops a live block from the tables.
SPECIFICATION Spec
CONSTANTS
    Thread = {t1}
    Addr = {a1, a2}
    Stack = {s1}
    NULL = NULL
    Calls = {"alloc", "realloc", "free"}
    Request <- OneByte
    CountMax = 1
    FinalAction = "PrintStackAndExit"
    SizeModulus = 4
    RecoveryModulus = 4
    MaxHolders = 4
INVARIANTS
    HeldBlocksAreRecorded

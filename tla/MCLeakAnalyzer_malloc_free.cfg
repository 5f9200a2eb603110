\* malloc, calloc and free only: safety and progress.
SPECIFICATION FairSpec
CONSTANTS
    Thread = {t1, t2, t3}
    Addr = {a1, a2, a3}
    Stack = {s1, s2}
    NULL = NULL
    Calls = {"alloc", "free"}
    Request <- OneByte
    CountMax = 1
    FinalAction = "PrintStackAndExit"
    SizeModulus = 4
    RecoveryModulus = 4
    MaxHolders = 2
INVARIANTS
    AssertHolds
    HeldBlocksAreRecorded
    ReportedStackStaysValid
PROPERTIES
    CallReturnsWhenAlone
    ReportEndsProcess

\* TryFixLeak in a program whose leaks are leaks: safety and progress.
SPECIFICATION FairSpec
CONSTANTS
    Thread = {t1, t2}
    Addr = {a1, a2, a3}
    Stack = {s1, s2}
    NULL = NULL
    Calls = {"alloc"}
    Request <- MixedSizes
    CountMax = 1
    FinalAction = "TryFixLeak"
    SizeModulus = 4
    RecoveryModulus = 4
    MaxHolders = 3
INVARIANTS
    RecoveredBlockIsUsable
PROPERTIES
    MutexComesBack
CHECK_DEADLOCK FALSE

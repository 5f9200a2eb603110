\* From the start of the program to its exit, under fairness.
SPECIFICATION FairLifeSpec
CONSTANTS
    t1 = t1
    t2 = t2
    Thread = {t1, t2}
    Main = t1
    Addr = {a1, a2}
    Stack = {s1}
    NULL = NULL
    Calls = {"alloc", "realloc", "free"}
    Request <- OneByte
    CountMax = 1
    FinalAction = "PrintStackAndExit"
    SizeModulus = 4
    RecoveryModulus = 4
    MaxHolders = 4
INVARIANTS
    LifeTypeOK
    InstalledMeansUsable
    OnlyCallsInFlightMisuse
    RecordsAreTrue
    FailedStartReleasesAll
PROPERTIES
    ExitCompletes

\* Two threads that write, initialize, set callbacks and exit.
SPECIFICATION Spec
CONSTANTS
    Thread = {t1, t2}
    NULL = NULL
    Prevent = {TRUE, FALSE}
    KeyFails = TRUE
    MaxDepth = 3
SYMMETRY Symmetry
INVARIANTS
    TypeOK
    FlagMarksCallback
    FirstInitializationDecides
    CrashesOnlyInARace

SPECIFICATION Spec
CONSTANTS
    Thread = {t1}
    Id = {b1, b2}
    NULL = NULL
    Request <- Ordinary
    Settable = {}
    EarlyGet = FALSE
    InitMemSize = 16384
    HeaderSize = 16
    SizeModulus = 65536
INVARIANTS
    LiveBlocksAreDisjoint

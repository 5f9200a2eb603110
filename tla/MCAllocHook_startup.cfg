SPECIFICATION Spec
CONSTANTS
    Thread = {t1}
    Id = {b1, b2, b3}
    NULL = NULL
    Request <- Boundary
    Settable <- FreeHook
    EarlyGet = TRUE
    InitMemSize = 16384
    HeaderSize = 16
    SizeModulus = 65536
SYMMETRY Symmetry
INVARIANTS
    TypeOK
    OnlyEarlyGetGoesWrong
    BufferBlocksFit
PROPERTIES
    HookStaysSet

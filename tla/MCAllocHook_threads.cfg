SPECIFICATION FairSpec
CONSTANTS
    Thread = {t1, t2}
    Id = {b1, b2}
    NULL = NULL
    Request <- Ordinary
    Settable <- FreeHook
    EarlyGet = FALSE
    InitMemSize = 16384
    HeaderSize = 16
    SizeModulus = 65536
PROPERTIES
    OnlyEarlyCallsGoWrong
    BufferIsForEarlyCalls
    CallsReturn

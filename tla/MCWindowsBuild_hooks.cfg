\* Two threads, the program, a module that it loads and one that comes along.
SPECIFICATION Spec
CONSTANTS
    Thread <- TwoThreads
    Main = "main"
    Module = {"exe", "dll", "dep"}
    Self = "exe"
    Plugin = {"dll"}
    Needs <- PluginNeeds
    AllocName = {"malloc"}
    LoadName = {"LoadLibraryA"}
    StdName = {"__stdio_common_vfprintf", "fwrite"}
    NULL = NULL
    Setter = {"other"}
    MaxInitializations = 2
    BufferSize = 1
    TextLength = {0, 1}
    Writer = {"other"}
    MaxNested = 2
INVARIANTS
    TypeOK
    ImportsFollowLoads
    CrashesOnlyAfterMisuse
    CallbackIsCalledOnce

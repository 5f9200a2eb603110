------------------------------ MODULE ImportHook ------------------------------
(***************************************************************************)
(* The allocation hooks of the Windows build                               *)
(* (src/src/core/alloc_free_hook/programs_investigator_core_alloc_free_hook_windows.c). *)
(*                                                                         *)
(* The imports of malloc, calloc, realloc and free of every module are     *)
(* replaced by functions that call g_malloc ... g_free, and those of       *)
(* LoadLibrary by functions that replace the four in the module they       *)
(* loaded.  An exit handler puts everything back.                          *)
(***************************************************************************)
EXTENDS ImportTable

CONSTANTS
    Setter,             \* bound: the threads that call setters
    MaxInitializations  \* bound: how often the initialization begins

ASSUME HookAssumption ==
    /\ Setter \subseteq Thread /\ MaxInitializations \in Nat
    /\ NULL \notin {"function", "hook"}

VARIABLES
    begun,        \* how often it has
    s_c_lib,      \* s_malloc_c_lib ... s_free_c_lib
    s_loadlib,    \* s_loadlibA_st_lib ... s_loadlibExW_st_lib
    g,            \* g_malloc ... g_free
    s_nIsInited,
    setting,      \* the function that a setter is about to store
    saved,        \* what the program passes to a setter: what a getter returned
    origin,       \* history: how each module came to be loaded
    disorder      \* history: a NULL put back, what came together or too late

hook  == <<begun, s_c_lib, s_loadlib, g, s_nIsInited, setting, saved, origin, disorder>>

\* A pointer: any function that can be called, of the C library, the system or the
\* program; one of the functions below, which call through the pointer themselves.
Value == {"function", "hook", NULL}

\* A function of the C library or of the system, as Self imports it: its own
\* import may have been replaced already.
Imported(names) == IF names \cap replaced[Self] = {} THEN "function" ELSE "hook"

NoSetting == [name |-> NULL, value |-> NULL]

HookInit ==
    /\ begun = 0
    /\ s_c_lib = NULL
    /\ s_loadlib = NULL
    /\ g = [n \in AllocName |-> NULL]
    /\ s_nIsInited = FALSE
    /\ setting = [t \in Thread |-> NoSetting]
    /\ saved = "function"
    /\ origin = [m \in Module |-> IF m = Self THEN "start" ELSE "absent"]
    /\ disorder = {}

-----------------------------------------------------------------------------
(* alloc_free_hook_initialize_inline.                                      *)

\* Mutant: what the replaced functions call is set at the end.
AssignsLate ==
    s_c_lib' = Imported(AllocName) /\ s_loadlib' = Imported(LoadName) /\ UNCHANGED g

Assigns ==
    /\ s_c_lib' = Imported(AllocName)
    /\ s_loadlib' = Imported(LoadName)
    /\ g' = [n \in AllocName |-> Imported(AllocName)]

Initializing == {"walk_alloc", "walk_load", "register"}

\* if(!s_nIsInited), for the initializer and for a setter.
Initializes(t) ==
    /\ ~s_nIsInited
    /\ begun < MaxInitializations /\ begun' = begun + 1
    /\ Assigns
    /\ disorder' = IF \E u \in Thread : pc[u] \in Initializing
                 THEN disorder \cup {"overlap"} ELSE disorder
    /\ Walk(t, "walk_alloc")

RunsInitializer(t) ==
    /\ BeginsInitializer(t, "hook")
    /\ \/ /\ Initializes(t)
       \/ /\ s_nIsInited
          /\ UNCHANGED <<begun, s_c_lib, s_loadlib, g, disorder, thread>>
    /\ UNCHANGED <<imports, exiting, s_nIsInited, setting, saved, origin>>

\* The four imports of one more module; then LoadLibrary, in the modules that
\* are loaded by now.  An import is only replaced if it names the function that
\* s_malloc_c_lib names.
ReplacesAlloc(t) ==
    /\ At(t, "walk_alloc")
    /\ \/ /\ Visit(t, IF s_c_lib = "function" THEN AllocName ELSE {}, TRUE)
       \/ /\ todo[t] = {}
          /\ Walk(t, "walk_load")
          /\ UNCHANGED imports
    /\ UNCHANGED <<program, hook>>

ReplacesLoad(t) ==
    /\ At(t, "walk_load")
    /\ \/ /\ Visit(t, IF s_loadlib = "function" THEN LoadName ELSE {}, TRUE)
       \/ /\ todo[t] = {}
          /\ Goto(t, "register")
          /\ UNCHANGED imports
    /\ UNCHANGED <<program, hook>>

\* The assignment of a setter.
Stores(n, v) ==
    /\ g' = [g EXCEPT ![n] = v]
    /\ disorder' = IF v = NULL THEN disorder \cup {"null"} ELSE disorder

\* _onexit, s_nIsInited = 1, and the assignment of the setter that called.
EndsInitialize(t) ==
    /\ At(t, "register")
    /\ handlers' = Append(handlers, "hook")
    /\ s_nIsInited' = TRUE
    /\ \/ setting[t] = NoSetting /\ UNCHANGED <<g, disorder>>
       \/ setting[t] # NoSetting /\ Stores(setting[t].name, setting[t].value)
    /\ setting' = [setting EXCEPT ![t] = NoSetting]
    /\ Goto(t, "idle")
    /\ UNCHANGED <<imports, pending, exiting, process, begun, s_c_lib, s_loadlib, saved,
                   origin>>

-----------------------------------------------------------------------------
(* The program's calls.                                                    *)

\* AllocFreeHookSet*Fnc: a function of the program, or what it got before; also
\* from the program's own exit handlers.
Sets(t) ==
    /\ t \in Setter /\ At(t, "idle")
    /\ \E n \in AllocName, v \in {"function", saved} :
          \/ /\ s_nIsInited
             /\ Stores(n, v)
             /\ UNCHANGED <<thread, begun, s_c_lib, s_loadlib, setting>>
          \/ /\ Initializes(t)
             /\ setting' = [setting EXCEPT ![t] = [name |-> n, value |-> v]]
    /\ UNCHANGED <<imports, program, s_nIsInited, saved, origin>>

\* AllocFreeHookGet*Fnc: it does not initialize.
Gets(t) ==
    /\ Acting(t)
    /\ \E n \in AllocName : saved' = g[n]
    /\ UNCHANGED <<imports, program, thread, begun, s_c_lib, s_loadlib, g, s_nIsInited,
                   setting, origin, disorder>>

\* AllocFreeHookCLib*, and malloc ... free through an import that is replaced:
\* a call through NULL, or a function of this library that calls itself.
GoesWrong(t) ==
    /\ Acting(t)
    /\ \/ s_c_lib \in {NULL, "hook"}
       \/ \E m \in loaded, n \in AllocName : n \in replaced[m] /\ g[n] \in {NULL, "hook"}
    /\ Crashes
    /\ UNCHANGED <<imports, thread, hook>>

\* The loader: the module and what it needs are there, and their initializers
\* have run, with the imports that they have on disk.
Loader(m, kind) ==
    /\ loaded' = loaded \cup {m} \cup Needs[m]
    /\ origin' = [d \in Module |->
                    IF d = m /\ kind = "direct" /\ origin[d] # "start" THEN "direct"
                    ELSE IF d \in loaded' \ loaded
                    THEN IF s_c_lib = NULL THEN "start" ELSE "other"
                    ELSE origin[d]]
    /\ UNCHANGED replaced

\* LoadLibrary through an import that is not replaced.
LoadsPlainly(t) ==
    /\ Acting(t)
    /\ \E m \in Plugin, from \in loaded :
          /\ LoadName \cap replaced[from] = {}
          /\ Loader(m, "plain")
    /\ UNCHANGED <<thread, program, begun, s_c_lib, s_loadlib, g, s_nIsInited, setting, saved,
                   disorder>>

\* CinternalLoadLibrary*: the original first ...
LoadsHooked(t) ==
    /\ Acting(t)
    /\ \E m \in Plugin, from \in loaded :
          /\ LoadName \cap replaced[from] # {}
          /\ \/ /\ s_loadlib = "function"
                /\ Loader(m, "direct")
                /\ pc' = [pc EXCEPT ![t] = "loaded"]
                /\ todo' = [todo EXCEPT ![t] = {m}]
                /\ UNCHANGED program
             \/ /\ s_loadlib # "function"
                /\ Crashes
                /\ UNCHANGED <<imports, thread, origin>>
    /\ UNCHANGED <<begun, s_c_lib, s_loadlib, g, s_nIsInited, setting, saved, disorder>>

\* Mutant: the module's own imports are left alone.
LeavesLoaded(t) ==
    /\ At(t, "loaded")
    /\ pc' = [pc EXCEPT ![t] = "idle"]
    /\ todo' = [todo EXCEPT ![t] = {}]
    /\ UNCHANGED <<imports, program, hook>>

\* ... and then the four imports of the module that was asked for; not those of
\* the modules that came with it, and not its LoadLibrary.
ReplacesLoaded(t) ==
    /\ At(t, "loaded")
    /\ pc' = [pc EXCEPT ![t] = "idle"]
    /\ todo' = [todo EXCEPT ![t] = {}]
    /\ replaced' = [m \in Module |->
                      IF m \in todo[t] /\ s_c_lib = "function"
                      THEN replaced[m] \cup AllocName ELSE replaced[m]]
    /\ disorder' = IF exiting THEN disorder \cup {"exit"} ELSE disorder
    /\ UNCHANGED <<loaded, program, begun, s_c_lib, s_loadlib, g, s_nIsInited, setting, saved,
                   origin>>

-----------------------------------------------------------------------------
(* alloc_free_hook_cleanup.                                                *)

Cleanup(t) ==
    \/ /\ s_nIsInited
       /\ RunsHandler(t, "hook", "unwalk_load")
       /\ UNCHANGED hook
    \/ /\ ~s_nIsInited
       /\ At(t, "idle") /\ t = Main /\ exiting
       /\ handlers # << >> /\ Last(handlers) = "hook"
       /\ handlers' = Front(handlers)
       /\ UNCHANGED <<imports, thread, pending, exiting, process, hook>>

RestoresLoad(t) ==
    /\ At(t, "unwalk_load")
    /\ \/ /\ Visit(t, IF s_loadlib = "function" THEN LoadName ELSE {}, FALSE)
       \/ /\ todo[t] = {}
          /\ Walk(t, "unwalk_alloc")
          /\ UNCHANGED imports
    /\ UNCHANGED <<program, hook>>

RestoresAlloc(t) ==
    /\ At(t, "unwalk_alloc")
    /\ \/ /\ Visit(t, IF s_c_lib = "function" THEN AllocName ELSE {}, FALSE)
          /\ UNCHANGED s_nIsInited
       \/ /\ todo[t] = {}
          /\ s_nIsInited' = FALSE
          /\ Goto(t, "idle")
          /\ UNCHANGED imports
    /\ UNCHANGED <<program, begun, s_c_lib, s_loadlib, g, setting, saved, origin, disorder>>

HookNext ==
    \E t \in Thread :
        \/ RunsInitializer(t) \/ ReplacesAlloc(t) \/ ReplacesLoad(t) \/ EndsInitialize(t)
        \/ Sets(t) \/ Gets(t) \/ GoesWrong(t)
        \/ LoadsPlainly(t) \/ LoadsHooked(t) \/ ReplacesLoaded(t)
        \/ Cleanup(t) \/ RestoresLoad(t) \/ RestoresAlloc(t)
=============================================================================

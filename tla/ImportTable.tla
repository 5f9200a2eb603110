----------------------------- MODULE ImportTable -----------------------------
(***************************************************************************)
(* The loaded modules of a Windows process, the functions they import, and *)
(* the replacement of imports by CInternalReplaceFunctionsAllModules and   *)
(* CInternalReplaceFunctionsForModule of the submodule cinternal, as the   *)
(* two Windows files of the library use them.  A call of the first one     *)
(* takes the modules that are loaded when it begins and visits them one by *)
(* one, while other threads load modules and call through their imports.   *)
(***************************************************************************)
EXTENDS Integers, FiniteSets, Sequences, SequencesExt

CONSTANTS
    Thread,
    Main,       \* runs the initializers, main and the exit handlers
    Module,     \* what can be loaded
    Self,       \* the program, which this library is linked to
    Plugin,     \* bound: the modules that the program loads by name
    Needs,      \* the modules that come along when a module is loaded
    AllocName,  \* malloc, calloc, realloc, free
    LoadName,   \* LoadLibraryA, LoadLibraryW, LoadLibraryExA, LoadLibraryExW
    StdName,    \* __stdio_common_vfprintf, fwrite
    NULL

ASSUME ImportAssumption ==
    /\ Main \in Thread /\ Self \in Module /\ Plugin \subseteq Module \ {Self}
    /\ Needs \in [Module -> SUBSET Module]
    /\ AllocName \cap LoadName = {} /\ StdName \cap (AllocName \cup LoadName) = {}

VARIABLES
    loaded,    \* the modules in the process
    replaced,  \* the imports of each module that name a function of this library
    pc,        \* what each thread is doing
    todo,      \* the modules that a replacement has yet to visit
    pending,   \* initializers that have not begun
    handlers,  \* what _onexit has registered
    exiting,   \* Main has called exit
    process    \* whether the program runs

imports == <<loaded, replaced>>
thread  == <<pc, todo>>
program == <<pending, handlers, exiting, process>>

Name == AllocName \cup LoadName \cup StdName

At(t, loc) == process = "running" /\ pc[t] = loc

Goto(t, loc) == pc' = [pc EXCEPT ![t] = loc] /\ UNCHANGED todo

\* Main is idle also between two initializers and between two exit handlers;
\* what the program itself calls, it calls before exit or on other threads.
Acting(t) == At(t, "idle") /\ (t = Main => ~exiting)

ImportInit ==
    /\ loaded = {Self}
    /\ replaced = [m \in Module |-> {}]
    /\ pc = [t \in Thread |-> "idle"]
    /\ todo = [t \in Thread |-> {}]
    /\ pending = {"hook", "stdout"}
    /\ handlers = << >>
    /\ exiting = FALSE
    /\ process = "running"

\* A replacement in all modules begins: those that are loaded now.
Walk(t, loc) ==
    /\ pc' = [pc EXCEPT ![t] = loc]
    /\ todo' = [todo EXCEPT ![t] = loaded]

\* The next module, in some fixed order, gets other functions where its imports
\* are the ones to replace.
Visit(t, names, present) ==
    LET m == CHOOSE d \in todo[t] : TRUE IN
    /\ todo[t] # {}
    /\ todo' = [todo EXCEPT ![t] = @ \ {m}]
    /\ replaced' = [replaced EXCEPT ![m] = IF present THEN @ \cup names ELSE @ \ names]
    /\ UNCHANGED <<loaded, pc>>

Crashes == process' = "crashed" /\ UNCHANGED <<pending, handlers, exiting>>

\* exit, and a return from main once every initializer has run.
ExitCall ==
    /\ Acting(Main) /\ pending = {}
    /\ exiting' = TRUE
    /\ UNCHANGED <<imports, thread, pending, handlers, process>>

\* The handlers run, the last one registered first; then the process ends.
Ends ==
    /\ At(Main, "idle") /\ exiting /\ handlers = << >>
    /\ process' = "exited"
    /\ UNCHANGED <<imports, thread, pending, handlers, exiting>>

RunsHandler(t, handler, loc) ==
    /\ At(t, "idle") /\ t = Main /\ exiting
    /\ handlers # << >> /\ Last(handlers) = handler
    /\ handlers' = Front(handlers)
    /\ Walk(t, loc)
    /\ UNCHANGED <<imports, pending, exiting, process>>

BeginsInitializer(t, initializer) ==
    /\ Acting(t) /\ t = Main
    /\ initializer \in pending
    /\ pending' = pending \ {initializer}
    /\ UNCHANGED <<handlers, process>>

ImportTypeOK ==
    /\ loaded \subseteq Module
    /\ replaced \in [Module -> SUBSET Name]
    /\ todo \in [Thread -> SUBSET Module]
    /\ pending \subseteq {"hook", "stdout"}
    /\ handlers \in Seq({"hook", "stdout"})
    /\ exiting \in BOOLEAN
    /\ process \in {"running", "exited", "crashed", "aborted"}
=============================================================================

----------------------------- MODULE WindowsBuild -----------------------------
(***************************************************************************)
(* The Windows build: the allocation hooks and the stdout investigation in *)
(* one process.  They share the import tables, the initializers, which run *)
(* in an order that the linker chooses, and the exit handlers.             *)
(***************************************************************************)
EXTENDS ImportHook, StdoutInvestWindows

vars == <<imports, thread, program, hook, stdout>>

Init == ImportInit /\ HookInit /\ StdoutInit

Halted == process # "running" /\ UNCHANGED vars

Next ==
    \/ HookNext /\ UNCHANGED stdout
    \/ StdoutNext /\ UNCHANGED hook
    \/ (ExitCall \/ Ends) /\ UNCHANGED <<hook, stdout>>
    \/ Halted

Spec == Init /\ [][Next]_vars

-----------------------------------------------------------------------------
(* Properties.                                                             *)

\* The type of every variable.
TypeOK ==
    /\ ImportTypeOK
    /\ StdoutTypeOK
    /\ begun \in 0 .. MaxInitializations
    /\ s_c_lib \in Value /\ s_loadlib \in Value
    /\ g \in [AllocName -> Value]
    /\ s_nIsInited \in BOOLEAN
    /\ \A t \in Thread : setting[t] = NoSetting
                         \/ setting[t] \in [name: AllocName, value: Value]
    /\ saved \in Value
    /\ origin \in [Module -> {"absent", "start", "direct", "other"}]
    /\ disorder \subseteq {"null", "overlap", "exit"}

\* Nobody is replacing or restoring imports or has loaded a module to visit.
Quiet == \A t \in Thread : pc[t] = "idle"

\* Once the hooks are there, a module's calls reach them if it was loaded before
\* or is asked for through a hooked LoadLibrary; those of a module that only came
\* along, or was loaded by such a one, do not.  After exit no import is left
\* replaced, unless another thread loaded a module or initialized meanwhile.
ImportsFollowLoads ==
    /\ s_nIsInited /\ ~exiting /\ Quiet /\ "overlap" \notin disorder =>
          \A m \in loaded :
              /\ origin[m] = "start" => AllocName \cup LoadName \subseteq replaced[m]
              /\ origin[m] = "direct" => AllocName \subseteq replaced[m]
              /\ origin[m] = "other" => AllocName \cap replaced[m] = {}
    /\ process = "exited" /\ Quiet /\ disorder \cap {"overlap", "exit"} = {} =>
          \A m \in loaded : replaced[m] = {}

\* A call through NULL, or one that comes back to itself, needs a use of the library
\* before its initializer has begun, a NULL (what a getter returned before it) that a
\* setter has stored, or two initializations at a time: never a hooked function that
\* is called before what it calls is set, and never a getter alone, or what happens
\* during exit.
CrashesOnlyAfterMisuse ==
    process = "crashed" => s_c_lib = NULL \/ disorder \cap {"null", "overlap"} # {}

\* The callback is not called again for what it writes, the flag is down when it
\* is done, and it gets every text but one that does not fit into the buffer.
CallbackIsCalledOnce ==
    \A t \in Thread :
        /\ Len(clbk[t]) = IF flag[t] THEN 1 ELSE 0
        /\ \A i \in DOMAIN clbk[t] :
              clbk[t][i].size < clbk[t][i].length => ~Fits(clbk[t][i].length)
=============================================================================

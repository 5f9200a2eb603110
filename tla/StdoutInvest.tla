---------------------------- MODULE StdoutInvest ----------------------------
(***************************************************************************)
(* The replaced puts and fwrite of the Unix build                          *)
(* (src/src/core/stdout_invest/programs_investigator_core_stdout_invest_unix.c) *)
(*                                                                         *)
(* A write goes to a callback; a thread-specific flag sends what the       *)
(* callback itself writes straight to the C library.  Before the           *)
(* initialization, and after the exit handler, writes go to the C library. *)
(*                                                                         *)
(* Grain.  Every read or assignment of a shared pointer is a step of its   *)
(* own, except that a pointer is read and dereferenced in one step.  The   *)
(* calls of a thread are a stack of frames: the callback may write.        *)
(***************************************************************************)
EXTENDS Integers, FiniteSets, Sequences, SequencesExt

CONSTANTS
    Thread,       \* the threads of the program
    NULL,         \* the null pointer
    Prevent,      \* the values of a_preventRecursion the program passes
    KeyFails,     \* whether the thread-specific key can fail to be created
    MaxDepth      \* bound: the calls a thread nests

ASSUME StdoutAssumption ==
    /\ NULL \notin Thread \cup {"initial", "final", "clib", "key", "original", "user"}
    /\ Prevent \subseteq BOOLEAN
    /\ KeyFails \in BOOLEAN
    /\ MaxDepth \in Nat

VARIABLES
    fnc,               \* s_puts and s_fwrite
    c_lib,             \* s_puts_c_lib and s_fwrite_c_lib
    s_userClbk,        \* the callback
    s_pThreadLocalKey, \* whether the key exists
    flag,              \* the thread-specific value
    snPtrsInitStarted, \* InitializeCLibPointersInline has begun
    snStartedInitLibrary, \* InitializeStdoutInvestInline has begun
    snInited,          \* ... and is over, the exit handler registered
    stack,             \* the calls of each thread
    process,           \* whether the program runs
    results,           \* history: what the initializations have returned
    overlaps           \* history: what two threads began at the same time

vars == <<fnc, c_lib, s_userClbk, s_pThreadLocalKey, flag, snPtrsInitStarted,
          snStartedInitLibrary, snInited, stack, process, results, overlaps>>

Writer == {"puts", "fwrite"}

Location == {"ptrs_check", "ptrs_start", "ptrs_puts", "ptrs_fwrite",  \* C library's
             "init_check", "init_start", "key_create",                \* initialization
             "install_puts", "install_fwrite", "init_done",
             "initial", "write",                                      \* PutsInitial
             "key", "get", "set", "call", "callback", "clbk_write",   \* PutsFinal
             "unset_check", "unset",
             "exit_puts", "exit_fwrite", "exit_key", "ending"}        \* exit

\* A call: a write, an initialization and its argument, a new callback.
Frame == [op: Writer \cup {"init", "set", "get", "exit"}, loc: Location,
          prevent: BOOLEAN, clbk: {"original", "user", NULL}]

Call(op, loc) == [op |-> op, loc |-> loc, prevent |-> TRUE, clbk |-> NULL]

Init ==
    /\ fnc = [w \in Writer |-> "initial"]
    /\ c_lib = [w \in Writer |-> NULL]
    /\ s_userClbk = "original"
    /\ s_pThreadLocalKey = NULL
    /\ flag = [t \in Thread |-> FALSE]
    /\ snPtrsInitStarted = FALSE
    /\ snStartedInitLibrary = FALSE
    /\ snInited = FALSE
    /\ stack = [t \in Thread |-> << >>]
    /\ process = "running"
    /\ results = {}
    /\ overlaps = {}

-----------------------------------------------------------------------------
(* The stack of a thread.                                                  *)

Top(t) == Last(stack[t])

At(t, loc) == process = "running" /\ stack[t] # << >> /\ Top(t).loc = loc

\* Between two calls, or in a callback of the program.
Acting(t) == process = "running" /\ (stack[t] # << >> => Top(t).loc = "callback")

Push(t, f)    == stack' = [stack EXCEPT ![t] = Append(@, f)]
Replace(t, f) == stack' = [stack EXCEPT ![t] = Append(Front(@), f)]
Pop(t)        == stack' = [stack EXCEPT ![t] = Front(@)]
Goto(t, loc)  == Replace(t, [Top(t) EXCEPT !.loc = loc])

pointers == <<fnc, c_lib, s_userClbk, s_pThreadLocalKey>>
started  == <<snPtrsInitStarted, snStartedInitLibrary, snInited, results, overlaps>>

\* A call through NULL or the use of a key that is gone.
Crashes == process' = "crashed" /\ UNCHANGED <<pointers, started, flag, stack>>

-----------------------------------------------------------------------------
(* What the program calls.                                                 *)

\* puts and fwrite: whatever function the pointer names.
Writes(t) ==
    /\ Acting(t) /\ Len(stack[t]) < MaxDepth
    /\ \E w \in Writer :
          \/ /\ fnc[w] = NULL
             /\ Crashes
          \/ /\ fnc[w] # NULL
             /\ Push(t, Call(w, CASE fnc[w] = "initial" -> "ptrs_check"
                                  [] fnc[w] = "final"   -> "key"
                                  [] fnc[w] = "clib"    -> "write"))
             /\ UNCHANGED process
    /\ UNCHANGED <<pointers, started, flag>>

\* ProgInvestStdoutInvestInitialize.
Initializes(t) ==
    /\ Acting(t) /\ Len(stack[t]) < MaxDepth
    /\ \E p \in Prevent : Push(t, [Call("init", "init_check") EXCEPT !.prevent = p])
    /\ UNCHANGED <<pointers, started, flag, process>>

\* ProgInvestSetStdoutInvestClbkAndGetOld, with the initialization first.
SetsClbk(t) ==
    /\ Acting(t) /\ Len(stack[t]) < MaxDepth
    /\ \E c \in {"original", "user"} :
          Push(t, [Call("set", "init_check") EXCEPT !.clbk = c])
    /\ UNCHANGED <<pointers, started, flag, process>>

\* ProgInvestGetStdoutInvestClbkCurrent and ...Original.
GetsClbk(t) ==
    /\ Acting(t) /\ Len(stack[t]) < MaxDepth
    /\ Push(t, Call("get", "ptrs_check"))
    /\ UNCHANGED <<pointers, started, flag, process>>

\* exit, also from inside the callback, with the handler that the initialization
\* registered.
ExitCall(t) ==
    /\ Acting(t)
    /\ Push(t, Call("exit", IF snInited THEN "exit_puts" ELSE "ending"))
    /\ UNCHANGED <<pointers, started, flag, process>>

-----------------------------------------------------------------------------
(* InitializeCLibPointersInline.                                           *)

\* Where the function goes on that called it.
AfterPtrs(f) == CASE f.op \in Writer -> "initial"
                  [] f.op \in {"init", "set"} -> "install_puts"
                  [] OTHER -> "init_done"

PtrsCheck(t) ==
    /\ At(t, "ptrs_check")
    /\ Goto(t, IF snPtrsInitStarted THEN AfterPtrs(Top(t)) ELSE "ptrs_start")
    /\ overlaps' = IF snPtrsInitStarted /\ \E w \in Writer : c_lib[w] = NULL
                   THEN overlaps \cup {"lookup"} ELSE overlaps
    /\ UNCHANGED <<pointers, snPtrsInitStarted, snStartedInitLibrary, snInited, results,
                   flag, process>>

PtrsStart(t) ==
    /\ At(t, "ptrs_start")
    /\ snPtrsInitStarted' = TRUE
    /\ overlaps' = IF snPtrsInitStarted THEN overlaps \cup {"lookup"} ELSE overlaps
    /\ Goto(t, "ptrs_puts")
    /\ UNCHANGED <<pointers, snStartedInitLibrary, snInited, results, flag, process>>

\* Mutant: the pointer that is there is kept for the C library's.
PtrsFoundWrong(t) ==
    /\ \E w \in Writer :
          /\ At(t, IF w = "puts" THEN "ptrs_puts" ELSE "ptrs_fwrite")
          /\ fnc' = [fnc EXCEPT ![w] = "clib"]
          /\ c_lib' = [c_lib EXCEPT ![w] = fnc[w]]
          /\ Goto(t, IF w = "puts" THEN "ptrs_fwrite" ELSE AfterPtrs(Top(t)))
    /\ UNCHANGED <<s_userClbk, s_pThreadLocalKey, started, flag, process>>

\* s_puts = s_puts_c_lib = dlsym(...), and the same for fwrite.
PtrsFound(t) ==
    /\ \E w \in Writer :
          /\ At(t, IF w = "puts" THEN "ptrs_puts" ELSE "ptrs_fwrite")
          /\ fnc' = [fnc EXCEPT ![w] = "clib"]
          /\ c_lib' = [c_lib EXCEPT ![w] = "clib"]
          /\ Goto(t, IF w = "puts" THEN "ptrs_fwrite" ELSE AfterPtrs(Top(t)))
    /\ UNCHANGED <<s_userClbk, s_pThreadLocalKey, started, flag, process>>

-----------------------------------------------------------------------------
(* InitializeStdoutInvestInline.                                           *)

InitCheck(t) ==
    /\ At(t, "init_check")
    /\ Goto(t, IF snStartedInitLibrary THEN "init_done" ELSE "init_start")
    /\ UNCHANGED <<pointers, started, flag, process>>

InitStart(t) ==
    /\ At(t, "init_start")
    /\ snStartedInitLibrary' = TRUE
    /\ Goto(t, IF snInited THEN "init_done"
               ELSE IF Top(t).prevent THEN "key_create" ELSE "ptrs_check")
    /\ overlaps' = IF snStartedInitLibrary THEN overlaps \cup {"init"} ELSE overlaps
    /\ UNCHANGED <<pointers, snPtrsInitStarted, snInited, results, flag, process>>

KeyCreate(t) ==
    /\ At(t, "key_create")
    /\ s_pThreadLocalKey' = "key"
    /\ Goto(t, "ptrs_check")
    /\ UNCHANGED <<fnc, c_lib, s_userClbk, started, flag, process>>

\* What the function does with the result: Initialize returns it, and
\* SetStdoutInvestClbkAndGetOld goes on with the callback.
Finish(t, r) ==
    /\ results' = IF Top(t).op = "get" THEN results ELSE results \cup {r}
    /\ s_userClbk' = IF Top(t).op = "set" THEN Top(t).clbk ELSE s_userClbk
    /\ Pop(t)
    /\ UNCHANGED <<fnc, c_lib, s_pThreadLocalKey, snPtrsInitStarted,
                   snStartedInitLibrary, snInited, overlaps, flag, process>>

\* Mutant: the failure is not reported.
KeyFailureHidden(t) ==
    /\ At(t, "key_create") /\ KeyFails
    /\ Finish(t, "succeeded")

\* No memory or no key: 1, and the initialization counts as begun.
KeyCreateFails(t) ==
    /\ At(t, "key_create") /\ KeyFails
    /\ Finish(t, "failed")

InitDone(t) ==
    /\ At(t, "init_done")
    /\ Finish(t, "succeeded")

\* The second assignment, snInited = 1 and the registration of the exit handler
\* are one step.
Installs(t) ==
    /\ \E w \in Writer :
          /\ At(t, IF w = "puts" THEN "install_puts" ELSE "install_fwrite")
          /\ fnc' = [fnc EXCEPT ![w] = "final"]
          /\ snInited' = (snInited \/ w = "fwrite")
          /\ Goto(t, IF w = "puts" THEN "install_fwrite" ELSE "init_done")
    /\ UNCHANGED <<c_lib, s_userClbk, s_pThreadLocalKey, snPtrsInitStarted,
                   snStartedInitLibrary, results, overlaps, flag, process>>

-----------------------------------------------------------------------------
(* PutsInitial, FwriteInitial, PutsFinal and FwriteFinal.                  *)

\* The C library's function, through its pointer.
ToCLib(t, w, loc) ==
    \/ /\ c_lib[w] = NULL
       /\ Crashes
    \/ /\ c_lib[w] # NULL
       /\ Goto(t, loc)
       /\ UNCHANGED process

Initial(t) ==
    /\ At(t, "initial")
    /\ ToCLib(t, Top(t).op, "write")
    /\ UNCHANGED <<pointers, started, flag>>

WriteReturns(t) ==
    /\ \/ At(t, "write") /\ Pop(t)
       \/ At(t, "clbk_write") /\ Goto(t, "unset_check")
    /\ UNCHANGED <<pointers, started, flag, process>>

\* Mutant: the key is used without being there.
KeyTestForgotten(t) ==
    /\ \/ At(t, "key") /\ Goto(t, "get")
       \/ At(t, "unset_check") /\ Goto(t, "unset")
    /\ UNCHANGED <<pointers, started, flag, process>>

\* if(s_pThreadLocalKey), before the callback and after it.
KeyTest(t) ==
    /\ \/ At(t, "key") /\ Goto(t, IF s_pThreadLocalKey = NULL THEN "call" ELSE "get")
       \/ /\ At(t, "unset_check")
          /\ IF s_pThreadLocalKey = NULL THEN Pop(t) ELSE Goto(t, "unset")
    /\ UNCHANGED <<pointers, started, flag, process>>

\* pthread_getspecific: a nested write goes to the C library.
KeyGet(t) ==
    /\ At(t, "get")
    /\ \/ /\ s_pThreadLocalKey = NULL
          /\ Crashes
       \/ /\ s_pThreadLocalKey # NULL /\ flag[t]
          /\ ToCLib(t, Top(t).op, "write")
       \/ /\ s_pThreadLocalKey # NULL /\ ~flag[t]
          /\ Goto(t, "set")
          /\ UNCHANGED process
    /\ UNCHANGED <<pointers, started, flag>>

\* Mutant: the flag is not cleared.
KeySetForever(t) ==
    /\ At(t, "set") \/ At(t, "unset")
    /\ \/ /\ s_pThreadLocalKey = NULL
          /\ Crashes
       \/ /\ s_pThreadLocalKey # NULL
          /\ flag' = [flag EXCEPT ![t] = TRUE]
          /\ IF At(t, "set") THEN Goto(t, "call") ELSE Pop(t)
          /\ UNCHANGED process
    /\ UNCHANGED <<pointers, started>>

\* pthread_setspecific, before the callback and after it.
KeySet(t) ==
    /\ At(t, "set") \/ At(t, "unset")
    /\ \/ /\ s_pThreadLocalKey = NULL
          /\ Crashes
       \/ /\ s_pThreadLocalKey # NULL
          /\ flag' = [flag EXCEPT ![t] = At(t, "set")]
          /\ IF At(t, "set") THEN Goto(t, "call") ELSE Pop(t)
          /\ UNCHANGED process
    /\ UNCHANGED <<pointers, started>>

\* The callback: PrInvStdoutInvClbkOriginal writes with the C library's fwrite.
CallsClbk(t) ==
    /\ At(t, "call")
    /\ \/ /\ s_userClbk = "original"
          /\ ToCLib(t, "fwrite", "clbk_write")
       \/ /\ s_userClbk = "user"
          /\ Goto(t, "callback")
          /\ UNCHANGED process
    /\ UNCHANGED <<pointers, started, flag>>

ClbkReturns(t) ==
    /\ At(t, "callback")
    /\ Goto(t, "unset_check")
    /\ UNCHANGED <<pointers, started, flag, process>>

-----------------------------------------------------------------------------
(* PrgInvestStackInvestCleanup.                                            *)

ExitRestores(t) ==
    /\ \E w \in Writer :
          /\ At(t, IF w = "puts" THEN "exit_puts" ELSE "exit_fwrite")
          /\ fnc' = [fnc EXCEPT ![w] = c_lib[w]]
          /\ Goto(t, IF w = "puts" THEN "exit_fwrite" ELSE "exit_key")
    /\ UNCHANGED <<c_lib, s_userClbk, s_pThreadLocalKey, started, flag, process>>

ExitDeletes(t) ==
    /\ At(t, "exit_key")
    /\ s_pThreadLocalKey' = NULL
    /\ Goto(t, "ending")
    /\ UNCHANGED <<fnc, c_lib, s_userClbk, started, flag, process>>

Exits(t) ==
    /\ At(t, "ending")
    /\ process' = "exited"
    /\ UNCHANGED <<pointers, started, flag, stack>>

Halted == process # "running" /\ UNCHANGED vars

Begin(t) ==
    Writes(t) \/ Initializes(t) \/ SetsClbk(t) \/ GetsClbk(t) \/ ExitCall(t)

Continue(t) ==
    \/ PtrsCheck(t) \/ PtrsStart(t) \/ PtrsFound(t)
    \/ InitCheck(t) \/ InitStart(t) \/ KeyCreate(t) \/ KeyCreateFails(t)
    \/ InitDone(t) \/ Installs(t)
    \/ Initial(t) \/ WriteReturns(t) \/ KeyTest(t) \/ KeyGet(t) \/ KeySet(t)
    \/ CallsClbk(t) \/ ClbkReturns(t)
    \/ ExitRestores(t) \/ ExitDeletes(t) \/ Exits(t)

Next == Halted \/ \E t \in Thread : Begin(t) \/ Continue(t)

Spec == Init /\ [][Next]_vars

-----------------------------------------------------------------------------
(* Properties.                                                             *)

\* The type of every variable.
TypeOK ==
    /\ fnc \in [Writer -> {"initial", "final", "clib", NULL}]
    /\ c_lib \in [Writer -> {"clib", NULL}]
    /\ s_userClbk \in {"original", "user"}
    /\ s_pThreadLocalKey \in {"key", NULL}
    /\ flag \in [Thread -> BOOLEAN]
    /\ snPtrsInitStarted \in BOOLEAN /\ snStartedInitLibrary \in BOOLEAN
    /\ snInited \in BOOLEAN
    /\ stack \in [Thread -> Seq(Frame)]
    /\ results \subseteq {"succeeded", "failed"}
    /\ overlaps \subseteq {"lookup", "init"}
    /\ process \in {"running", "exited", "crashed"}

\* The calls of t that are in the callback or on their way in or out of it.
InClbk(t) ==
    {i \in DOMAIN stack[t] :
        stack[t][i].loc \in {"call", "callback", "clbk_write", "unset_check", "unset"}}

\* Asked to prevent recursion: the thread-specific flag is up exactly while the
\* thread is in the callback, and a callback that writes, initializes or sets
\* another callback is not called again for what it writes.  Not so if two threads
\* began the initialization together and only one of them asked for it.
FlagMarksCallback ==
    s_pThreadLocalKey # NULL /\ "init" \notin overlaps =>
        \A t \in Thread : Cardinality(InClbk(t)) = IF flag[t] THEN 1 ELSE 0

Idle == \A t \in Thread : stack[t] = << >>

\* The first initialization decides: if it succeeded both functions are installed
\* until exit, and if its key could not be created none ever is, whatever the later
\* ones return.  Not so if two threads initialize together, or look the C library's
\* functions up together: the slower one may take the installed functions back.
FirstInitializationDecides ==
    process = "running" /\ Idle /\ results # {} /\ overlaps = {} =>
        \A w \in Writer : fnc[w] = "final" <=> "failed" \notin results

\* A call through a NULL pointer or with a key that is gone: only while another
\* thread is looking the C library's functions up or exits; so never with one
\* thread, in whatever order and from inside the callback.
CrashesOnlyInARace ==
    process = "crashed" =>
        \E t \in Thread :
            /\ stack[t] # << >>
            /\ Top(t).op = "exit" \/ Top(t).loc \in {"ptrs_puts", "ptrs_fwrite"}
=============================================================================

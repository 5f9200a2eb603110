-------------------------- MODULE StdoutInvestWindows --------------------------
(***************************************************************************)
(* The replaced __stdio_common_vfprintf and fwrite of the Windows build    *)
(* (src/src/core/stdout_invest/programs_investigator_core_stdout_invest_windows.c). *)
(*                                                                         *)
(* Formatted text is put into a buffer of the stack and, as what fwrite    *)
(* writes, passed to a callback; a thread-local flag sends what the        *)
(* callback itself writes to the original functions.  The flag is only its *)
(* own thread's and the key is never deleted, so a write up to the         *)
(* callback, and its end, are one step each.                               *)
(***************************************************************************)
EXTENDS ImportTable

CONSTANTS
    BufferSize,  \* what vsnprintf_s is told: 4095, one less than the buffer has
    TextLength,  \* the lengths of the texts that the program prints
    Writer,      \* bound: the threads that write
    MaxNested    \* bound: writes inside writes

ASSUME StdoutWindowsAssumption ==
    /\ BufferSize \in Nat \ {0} /\ TextLength \subseteq Nat
    /\ Writer \subseteq Thread /\ MaxNested \in Nat

VARIABLES
    flag,      \* the thread-local value
    clbk,      \* the calls of the callback in progress: what each was passed
    s_userClbk

stdout == <<flag, clbk, s_userClbk>>

StdoutInit ==
    /\ flag = [t \in Thread |-> FALSE]
    /\ clbk = [t \in Thread |-> << >>]
    /\ s_userClbk = "original"

-----------------------------------------------------------------------------
(* The initializer and the exit handler.                                   *)

StdoutInitializer(t) ==
    /\ BeginsInitializer(t, "stdout")
    /\ \/ /\ s_userClbk' = "original"
          /\ Walk(t, "walk_stdout")
          /\ UNCHANGED <<exiting, flag, clbk>>
       \/ /\ exiting' = TRUE    \* no key: exit(1)
          /\ UNCHANGED <<thread, stdout>>
    /\ UNCHANGED imports

StdoutReplaces(t) ==
    /\ At(t, "walk_stdout")
    /\ \/ /\ Visit(t, StdName, TRUE)
          /\ UNCHANGED handlers
       \/ /\ todo[t] = {}
          /\ handlers' = Append(handlers, "stdout")
          /\ Goto(t, "idle")
          /\ UNCHANGED imports
    /\ UNCHANGED <<pending, exiting, process, stdout>>

StdoutClean(t) ==
    \/ /\ RunsHandler(t, "stdout", "unwalk_stdout")
       /\ UNCHANGED stdout
    \/ /\ At(t, "unwalk_stdout")
       /\ \/ /\ Visit(t, StdName, FALSE)
          \/ /\ todo[t] = {}
             /\ Goto(t, "idle")
             /\ UNCHANGED imports
       /\ UNCHANGED <<program, stdout>>

-----------------------------------------------------------------------------
(* Writes.                                                                 *)

\* ProgInvestSetStdoutInvestClbkAndGetOld.
SetsClbk(t) ==
    /\ Acting(t)
    /\ s_userClbk' \in {"original", "user"}
    /\ UNCHANGED <<imports, thread, program, flag, clbk>>

\* The calls that reach this library: the import is replaced.
Writes(t, name) ==
    /\ Acting(t) /\ t \in Writer /\ Len(clbk[t]) < MaxNested
    /\ \E m \in loaded : name \in replaced[m]

\* Mutant: the flag is not raised.
PassesUnmarked(t, length, size) ==
    /\ flag' = flag
    /\ clbk' = [clbk EXCEPT ![t] = Append(@, [length |-> length, size |-> size])]

\* With the flag up the original functions write; otherwise it is raised and the
\* callback called.  PrInvStdoutInvClbkOriginal only writes, through the original
\* fwrite.
Passes(t, length, size) ==
    IF flag[t] \/ s_userClbk = "original" THEN UNCHANGED <<flag, clbk>> ELSE
        /\ flag' = [flag EXCEPT ![t] = TRUE]
        /\ clbk' = [clbk EXCEPT ![t] = Append(@, [length |-> length, size |-> size])]

FWriteStatic(t) ==
    /\ Writes(t, "fwrite")
    /\ Passes(t, 0, 0)
    /\ UNCHANGED <<imports, thread, program, s_userClbk>>

\* Mutant: vcBuffer[nRet--] = 0.
CountsDown(length) == length - 1

\* vcBuffer[nRet++] = 0: what is passed has the zero too.
Counted(length) == length + 1

\* vsnprintf_s: the text and its terminating zero.
Fits(length) == length < BufferSize

\* A write with a locale goes straight to the original function, as one with the
\* flag up does: it changes nothing here and is left out.  For a text that does not
\* fit vsnprintf_s calls the invalid parameter handler, which ends the process; if it
\* returns, so does vsnprintf_s, with -1: the zero goes to index -1, outside the
\* buffer, which is not a state here, and a size of 0 is passed.
Stdio01Static(t) ==
    /\ Writes(t, "__stdio_common_vfprintf")
    /\ \E length \in TextLength :
          \/ /\ Fits(length) \/ flag[t]
             /\ Passes(t, length, Counted(length))
             /\ UNCHANGED process
          \/ /\ ~Fits(length) /\ ~flag[t]
             /\ Passes(t, length, Counted(-1))
             /\ UNCHANGED process
          \/ /\ ~Fits(length) /\ ~flag[t]
             /\ process' = "aborted"
             /\ UNCHANGED <<flag, clbk>>
    /\ UNCHANGED <<imports, thread, pending, handlers, exiting, s_userClbk>>

ClbkReturns(t) ==
    /\ Acting(t) /\ clbk[t] # << >>
    /\ flag' = [flag EXCEPT ![t] = FALSE]
    /\ clbk' = [clbk EXCEPT ![t] = Front(@)]
    /\ UNCHANGED <<imports, thread, program, s_userClbk>>

StdoutNext ==
    \E t \in Thread :
        \/ StdoutInitializer(t) \/ StdoutReplaces(t) \/ StdoutClean(t)
        \/ SetsClbk(t) \/ FWriteStatic(t) \/ Stdio01Static(t) \/ ClbkReturns(t)

StdoutTypeOK ==
    /\ flag \in [Thread -> BOOLEAN]
    /\ clbk \in [Thread -> Seq([length: Nat, size: Nat])]
    /\ s_userClbk \in {"original", "user"}
=============================================================================

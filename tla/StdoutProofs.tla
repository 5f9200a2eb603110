---------------------------- MODULE StdoutProofs ----------------------------
(***************************************************************************)
(* Proofs about the redirected puts and fwrite of the Unix build: where    *)
(* a process can crash, what the thread-specific flag says, and which      *)
(* initialization decides.                                                 *)
(***************************************************************************)
EXTENDS StdoutInvest, FiniteSetTheorems, TLAPS

-----------------------------------------------------------------------------
(* The stacks.                                                             *)

StackType == stack \in [Thread -> Seq(Frame)]

\* t has a new top frame, over the frames it had or in the place of the last one.
Moved(t) ==
    /\ StackType'
    /\ stack'[t] # << >> /\ Top(t)' = stack'[t][Len(stack'[t])] /\ Top(t)' \in Frame
    /\ \A i \in DOMAIN stack'[t] : i < Len(stack'[t]) =>
          i \in DOMAIN stack[t] /\ stack'[t][i] = stack[t][i]
    /\ \A u \in Thread \ {t} : stack'[u] = stack[u]

Pushed(t)   == Moved(t) /\ Len(stack'[t]) = Len(stack[t]) + 1
Replaced(t) == Moved(t) /\ Len(stack'[t]) = Len(stack[t])

Popped(t) ==
    /\ StackType'
    /\ Len(stack'[t]) = Len(stack[t]) - 1
    /\ \A i \in DOMAIN stack'[t] : i \in DOMAIN stack[t] /\ stack'[t][i] = stack[t][i]
    /\ \A u \in Thread \ {t} : stack'[u] = stack[u]

\* The top frame of t, at another place.
TopAt(t, loc) == [Top(t) EXCEPT !.loc = loc]

LEMMA TopIs ==
    ASSUME StackType, NEW t \in Thread, stack[t] # << >>
    PROVE  /\ Len(stack[t]) \in DOMAIN stack[t] /\ Len(stack[t]) \in Nat \ {0}
           /\ Top(t) = stack[t][Len(stack[t])] /\ Top(t) \in Frame
           /\ DOMAIN stack[t] = 1 .. Len(stack[t])
BY DEF StackType, Top, Last

LEMMA PushIs ==
    ASSUME StackType, NEW t \in Thread, NEW f \in Frame, Push(t, f)
    PROVE  Pushed(t) /\ Top(t)' = f
<1>1. stack' = [stack EXCEPT ![t] = Append(stack[t], f)]
  BY DEF Push
<1> QED
  BY <1>1 DEF StackType, Pushed, Moved, Top, Last

LEMMA FrontIs ==
    ASSUME NEW s \in Seq(Frame), s # << >>
    PROVE  /\ Front(s) \in Seq(Frame) /\ Len(Front(s)) = Len(s) - 1
           /\ \A i \in 1 .. Len(s) - 1 : Front(s)[i] = s[i]
<1> DEFINE n == Len(s) - 1
<1>1. n \in Nat
  OBVIOUS
<1>2. SubSeq(s, 1, n) \in Seq(Frame) /\ \A i \in 1 .. n : SubSeq(s, 1, n)[i] = s[i]
  OBVIOUS
<1> HIDE DEF n
<1>3. Len(SubSeq(s, 1, n)) = n
  BY <1>1
<1> QED
  BY <1>2, <1>3 DEF n, Front

LEMMA ReplaceIs ==
    ASSUME StackType, NEW t \in Thread, NEW f \in Frame, stack[t] # << >>, Replace(t, f)
    PROVE  Replaced(t) /\ Top(t)' = f
<1>1. stack' = [stack EXCEPT ![t] = Append(Front(stack[t]), f)]
  BY DEF Replace
<1>2. /\ Front(stack[t]) \in Seq(Frame) /\ Len(Front(stack[t])) = Len(stack[t]) - 1
      /\ \A i \in 1 .. Len(stack[t]) - 1 : Front(stack[t])[i] = stack[t][i]
      /\ stack[t] \in Seq(Frame)
  BY FrontIs DEF StackType
<1>3. stack'[t] = Append(Front(stack[t]), f) /\ \A u \in Thread \ {t} : stack'[u] = stack[u]
  BY <1>1 DEF StackType
<1>4. /\ stack'[t] \in Seq(Frame) /\ Len(stack'[t]) = Len(stack[t])
      /\ stack'[t][Len(stack[t])] = f
      /\ \A i \in 1 .. Len(stack[t]) - 1 : stack'[t][i] = stack[t][i]
  BY <1>2, <1>3
<1>5. StackType'
  BY <1>1, <1>4 DEF StackType
<1>6. stack'[t] # << >> /\ Last(stack'[t]) = f
  BY <1>2, <1>4 DEF Last
<1> QED
  BY <1>2, <1>3, <1>4, <1>5, <1>6 DEF Replaced, Moved, Top

LEMMA PopIs ==
    ASSUME StackType, NEW t \in Thread, stack[t] # << >>, Pop(t)
    PROVE  Popped(t)
<1>1. stack' = [stack EXCEPT ![t] = Front(stack[t])]
  BY DEF Pop
<1>2. /\ Front(stack[t]) \in Seq(Frame) /\ Len(Front(stack[t])) = Len(stack[t]) - 1
      /\ \A i \in 1 .. Len(stack[t]) - 1 : Front(stack[t])[i] = stack[t][i]
      /\ stack[t] \in Seq(Frame)
  BY FrontIs DEF StackType
<1> QED
  BY <1>1, <1>2 DEF StackType, Popped

LEMMA TopAtIs ==
    ASSUME StackType, NEW t \in Thread, stack[t] # << >>, NEW loc \in Location
    PROVE  /\ TopAt(t, loc) \in Frame /\ TopAt(t, loc).loc = loc
           /\ TopAt(t, loc).op = Top(t).op /\ TopAt(t, loc).clbk = Top(t).clbk
           /\ TopAt(t, loc).prevent = Top(t).prevent
BY TopIs DEF TopAt, Frame

LEMMA GotoIs ==
    ASSUME StackType, NEW t \in Thread, stack[t] # << >>, NEW loc \in Location, Goto(t, loc)
    PROVE  Replaced(t) /\ Top(t)' = TopAt(t, loc)
BY TopAtIs, ReplaceIs DEF Goto, TopAt

LEMMA CallIs ==
    ASSUME NEW op \in {"puts", "fwrite", "init", "set", "get", "exit"}, NEW loc \in Location
    PROVE  Call(op, loc) \in Frame /\ Call(op, loc).op = op /\ Call(op, loc).loc = loc
BY DEF Call, Frame, Writer

-----------------------------------------------------------------------------
(* Where the calls are.                                                    *)

WriterLocs == {"initial", "write", "key", "get", "set", "call", "callback",
               "clbk_write", "unset_check", "unset"}
PtrsLocs   == {"ptrs_check", "ptrs_start", "ptrs_puts", "ptrs_fwrite"}
InitLocs   == {"init_check", "init_start", "key_create", "install_puts",
               "install_fwrite"}
ExitLocs   == {"exit_puts", "exit_fwrite", "exit_key", "ending"}
ClbkLocs   == {"call", "callback", "clbk_write", "unset_check", "unset"}
FinalLocs  == {"key", "get", "set"} \cup ClbkLocs

\* A call is where its operation can be.
FrameOK(f) ==
    /\ f.loc \in WriterLocs => f.op \in Writer
    /\ f.loc \in PtrsLocs => f.op \in Writer \cup {"init", "set", "get"}
    /\ f.loc \in InitLocs => f.op \in {"init", "set"}
    /\ f.loc = "init_done" => f.op \in {"init", "set", "get"}
    /\ f.loc \in ExitLocs => f.op = "exit"
    /\ f.op = "exit" => f.loc \in ExitLocs
    /\ f.op = "set" => f.clbk \in {"original", "user"}

\* Below the top of a stack are calls in the program's callback.
StackOK ==
    \A t \in Thread : \A i \in DOMAIN stack[t] :
        /\ FrameOK(stack[t][i])
        /\ i < Len(stack[t]) => stack[t][i].loc = "callback"

\* The call of t goes on from one place to another.
Goes(t, from, to) ==
    /\ stack[t] # << >> /\ Top(t).loc = from
    /\ Replaced(t) /\ Top(t)'.loc = to
    /\ Top(t)'.op = Top(t).op /\ Top(t)'.clbk = Top(t).clbk

\* What a new frame, or one less, does to the stacks.
LEMMA MovedStackOK ==
    ASSUME StackType, StackOK, NEW t \in Thread, FrameOK(Top(t)'), Moved(t),
           \/ Len(stack'[t]) = Len(stack[t])
           \/ stack[t] = << >>
           \/ Len(stack'[t]) = Len(stack[t]) + 1 /\ Top(t).loc = "callback"
    PROVE  StackOK'
<1>1. stack' \in [Thread -> Seq(Frame)] /\ stack'[t][Len(stack'[t])] = Top(t)'
  BY DEF Moved, StackType
<1>2. ASSUME NEW u \in Thread \ {t}, NEW i \in DOMAIN stack'[u]
      PROVE  /\ FrameOK(stack'[u][i])
             /\ i < Len(stack'[u]) => stack'[u][i].loc = "callback"
  BY DEF Moved, StackOK
<1>3. ASSUME NEW i \in DOMAIN stack'[t]
      PROVE  /\ FrameOK(stack'[t][i])
             /\ i < Len(stack'[t]) => stack'[t][i].loc = "callback"
  <2>1. CASE i < Len(stack'[t])
    <3>1. i \in DOMAIN stack[t] /\ stack'[t][i] = stack[t][i]
      BY <2>1 DEF Moved
    <3>2. i < Len(stack[t]) \/ Top(t) = stack[t][i]
      BY <1>1, <2>1, <3>1 DEF StackType, Top, Last
    <3> QED
      BY <2>1, <3>1, <3>2, <1>1 DEF StackOK, StackType
  <2>2. CASE i = Len(stack'[t])
    BY <1>1, <2>2
  <2> QED
    BY <1>1, <2>1, <2>2
<1> QED
  BY <1>2, <1>3 DEF StackOK

LEMMA PoppedStackOK ==
    ASSUME StackType, StackOK, NEW t \in Thread, Popped(t)
    PROVE  StackOK'
<1>1. stack \in [Thread -> Seq(Frame)] /\ stack' \in [Thread -> Seq(Frame)]
  BY DEF Popped, StackType
<1>2. ASSUME NEW u \in Thread \ {t}, NEW i \in DOMAIN stack'[u]
      PROVE  /\ FrameOK(stack'[u][i])
             /\ i < Len(stack'[u]) => stack'[u][i].loc = "callback"
  BY DEF Popped, StackOK
<1>3. ASSUME NEW i \in DOMAIN stack'[t]
      PROVE  FrameOK(stack'[t][i]) /\ stack'[t][i].loc = "callback"
  <2>1. i \in DOMAIN stack[t] /\ stack'[t][i] = stack[t][i] /\ i < Len(stack[t])
    BY <1>1 DEF Popped
  <2> QED
    BY <2>1 DEF StackOK
<1> QED
  BY <1>2, <1>3 DEF StackOK

\* What begins a call.
Entry(f) ==
    \/ f.op \in Writer /\ f.loc = "key" /\ \E w \in Writer : fnc[w] = "final"
    \/ f.op \in Writer /\ f.loc \in {"ptrs_check", "write"}
    \/ f.op \in {"init", "set"} /\ f.loc = "init_check"
    \/ f.op = "get" /\ f.loc = "ptrs_check"
    \/ f.op = "exit" /\ f.loc = "ending"
    \/ f.op = "exit" /\ f.loc = "exit_puts" /\ snInited

LEMMA BeginIs ==
    ASSUME StdoutAssumption, TypeOK, StackOK, NEW t \in Thread, Begin(t)
    PROVE  /\ UNCHANGED <<pointers, started, flag>> /\ process = "running"
           /\ stack[t] = << >> \/ Top(t).loc = "callback"
           /\ \/ /\ UNCHANGED stack /\ process' = "crashed"
                 /\ \E w \in Writer : fnc[w] = NULL
              \/ /\ UNCHANGED process
                 /\ Pushed(t) /\ FrameOK(Top(t)') /\ Entry(Top(t)')
<1> USE DEF TypeOK, StackType
<1>1. CASE Writes(t)
  <2>1. PICK w \in Writer :
          \/ /\ fnc[w] = NULL
             /\ Crashes
          \/ /\ fnc[w] # NULL
             /\ Push(t, Call(w, CASE fnc[w] = "initial" -> "ptrs_check"
                                  [] fnc[w] = "final"   -> "key"
                                  [] fnc[w] = "clib"    -> "write"))
             /\ UNCHANGED process
    BY <1>1 DEF Writes
  <2>2. CASE fnc[w] = NULL /\ Crashes
    BY <1>1, <2>2 DEF Writes, Acting, Crashes
  <2>3. CASE fnc[w] # NULL /\ UNCHANGED process
             /\ Push(t, Call(w, CASE fnc[w] = "initial" -> "ptrs_check"
                                  [] fnc[w] = "final"   -> "key"
                                  [] fnc[w] = "clib"    -> "write"))
    <3> DEFINE loc == CASE fnc[w] = "initial" -> "ptrs_check"
                        [] fnc[w] = "final"   -> "key"
                        [] fnc[w] = "clib"    -> "write"
    <3>1. loc \in {"ptrs_check", "key", "write"} /\ (loc = "key" => fnc[w] = "final")
      BY <2>3
    <3> HIDE DEF loc
    <3>2. /\ Call(w, loc) \in Frame /\ Call(w, loc).op = w /\ Call(w, loc).loc = loc
      <4>1. loc \in Location /\ w \in {"puts", "fwrite"}
        BY <3>1 DEF Location, Writer
      <4> QED
        BY <4>1, CallIs
    <3>3. Pushed(t) /\ Top(t)' = Call(w, loc)
      BY <2>3, <3>2, PushIs DEF loc
    <3>4. FrameOK(Call(w, loc)) /\ Entry(Call(w, loc))
      BY <3>1, <3>2
      DEF FrameOK, Entry, Writer, WriterLocs, PtrsLocs, InitLocs, ExitLocs
    <3> QED
      BY <1>1, <2>3, <3>2, <3>3, <3>4 DEF Writes, Acting
  <2> QED BY <2>1, <2>2, <2>3
<1>2. CASE Initializes(t)
  <2>1. PICK p \in Prevent : Push(t, [Call("init", "init_check") EXCEPT !.prevent = p])
    BY <1>2 DEF Initializes
  <2> DEFINE f == [Call("init", "init_check") EXCEPT !.prevent = p]
  <2>2. f \in Frame /\ f.op = "init" /\ f.loc = "init_check"
    BY DEF StdoutAssumption, Call, Frame, Location
  <2>3. Pushed(t) /\ Top(t)' = f
    BY <2>1, <2>2, PushIs
  <2> HIDE DEF f
  <2>4. FrameOK(f) /\ Entry(f)
    BY <2>2 DEF FrameOK, Entry, Writer, WriterLocs, PtrsLocs, InitLocs, ExitLocs
  <2> QED
    BY <1>2, <2>2, <2>3, <2>4 DEF Initializes, Acting
<1>3. CASE SetsClbk(t)
  <2>1. PICK c \in {"original", "user"} :
            Push(t, [Call("set", "init_check") EXCEPT !.clbk = c])
    BY <1>3 DEF SetsClbk
  <2> DEFINE f == [Call("set", "init_check") EXCEPT !.clbk = c]
  <2>2. f \in Frame /\ f.op = "set" /\ f.loc = "init_check" /\ f.clbk = c
    BY DEF Call, Frame, Location
  <2>3. Pushed(t) /\ Top(t)' = f
    BY <2>1, <2>2, PushIs
  <2> HIDE DEF f
  <2>4. FrameOK(f) /\ Entry(f)
    BY <2>2 DEF FrameOK, Entry, Writer, WriterLocs, PtrsLocs, InitLocs, ExitLocs
  <2> QED
    BY <1>3, <2>2, <2>3, <2>4 DEF SetsClbk, Acting
<1>4. CASE GetsClbk(t)
  <2>1. /\ Call("get", "ptrs_check") \in Frame /\ Call("get", "ptrs_check").op = "get"
        /\ Call("get", "ptrs_check").loc = "ptrs_check"
    BY DEF Call, Frame, Location
  <2>2. Pushed(t) /\ Top(t)' = Call("get", "ptrs_check")
    BY <1>4, <2>1, PushIs DEF GetsClbk
  <2>3. FrameOK(Call("get", "ptrs_check")) /\ Entry(Call("get", "ptrs_check"))
    BY <2>1 DEF FrameOK, Entry, Writer, WriterLocs, PtrsLocs, InitLocs, ExitLocs
  <2> QED
    BY <1>4, <2>1, <2>2, <2>3 DEF GetsClbk, Acting
<1>5. CASE ExitCall(t)
  <2> DEFINE loc == IF snInited THEN "exit_puts" ELSE "ending"
  <2>1. /\ Call("exit", loc) \in Frame /\ Call("exit", loc).op = "exit"
        /\ Call("exit", loc).loc = loc
    BY DEF Call, Frame, Location
  <2>2. Pushed(t) /\ Top(t)' = Call("exit", loc)
    BY <1>5, <2>1, PushIs DEF ExitCall
  <2>3. FrameOK(Call("exit", loc)) /\ Entry(Call("exit", loc))
    BY <2>1 DEF FrameOK, Entry, Writer, WriterLocs, PtrsLocs, InitLocs, ExitLocs
  <2> HIDE DEF loc
  <2> QED
    BY <1>5, <2>1, <2>2, <2>3 DEF ExitCall, Acting
<1> QED
  BY <1>1, <1>2, <1>3, <1>4, <1>5 DEF Begin

-----------------------------------------------------------------------------
(* Types, and the places of the calls.                                     *)

Base == TypeOK /\ StackOK

LEMMA BaseInit ==
    ASSUME StdoutAssumption, Init
    PROVE  Base
<1>1. stack \in [Thread -> Seq(Frame)] /\ \A t \in Thread : stack[t] = << >>
  BY DEF Init
<1>2. StackOK
  BY <1>1 DEF StackOK
<1>3. TypeOK
  BY <1>1 DEF Init, TypeOK
<1> QED
  BY <1>2, <1>3 DEF Base

LEMMA BaseTop ==
    ASSUME Base, NEW t \in Thread, stack[t] # << >>
    PROVE  /\ StackType /\ FrameOK(Top(t)) /\ Top(t) \in Frame
           /\ Len(stack[t]) \in DOMAIN stack[t] /\ Top(t) = stack[t][Len(stack[t])]
<1>1. StackType
  BY DEF Base, TypeOK, StackType
<1> QED
  BY <1>1, TopIs DEF Base, StackOK

LEMMA BaseBegin ==
    ASSUME StdoutAssumption, Base, NEW t \in Thread, Begin(t)
    PROVE  Base'
<1>1. StackType /\ StackOK /\ TypeOK
  BY DEF Base, TypeOK, StackType
<1>2. /\ UNCHANGED <<pointers, started, flag>> /\ process = "running"
      /\ stack[t] = << >> \/ Top(t).loc = "callback"
      /\ \/ /\ UNCHANGED stack /\ process' = "crashed"
            /\ \E w \in Writer : fnc[w] = NULL
         \/ /\ UNCHANGED process
            /\ Pushed(t) /\ FrameOK(Top(t)') /\ Entry(Top(t)')
  BY <1>1, BeginIs
<1>3. StackType' /\ StackOK'
  BY <1>1, <1>2, MovedStackOK DEF Pushed, Moved, StackType, StackOK
<1> QED
  BY <1>1, <1>2, <1>3 DEF Base, TypeOK, StackType, pointers, started

\* What a step inside a call can do to the stack, and that this keeps it well formed.
LEMMA CallStep ==
    ASSUME Base, NEW t \in Thread, stack[t] # << >>
    PROVE  /\ Top(t) \in Frame /\ FrameOK(Top(t))
           /\ \A to \in Location : Goto(t, to) => Goes(t, Top(t).loc, to)
           /\ Replaced(t) /\ FrameOK(Top(t)') => StackType' /\ StackOK'
           /\ Pop(t) => Popped(t) /\ StackType' /\ StackOK'
           /\ Crashes => Base'
<1>1. StackType /\ StackOK
  BY BaseTop DEF Base
<1>2. ASSUME NEW to \in Location, Goto(t, to)
      PROVE  Goes(t, Top(t).loc, to)
  <2>1. Replaced(t) /\ Top(t)' = TopAt(t, to)
    BY <1>1, <1>2, GotoIs
  <2>2. /\ TopAt(t, to).loc = to /\ TopAt(t, to).op = Top(t).op
        /\ TopAt(t, to).clbk = Top(t).clbk
    BY <1>1, TopAtIs
  <2> QED
    BY <2>1, <2>2 DEF Goes
<1>3. Replaced(t) /\ FrameOK(Top(t)') => StackType' /\ StackOK'
  BY <1>1, MovedStackOK DEF Replaced, Moved
<1>4. Pop(t) => Popped(t) /\ StackType' /\ StackOK'
  BY <1>1, PopIs, PoppedStackOK DEF Popped
<1>5. Crashes => Base'
  BY DEF Base, Crashes, TypeOK, StackOK, FrameOK, pointers, started
<1> QED
  BY <1>2, <1>3, <1>4, <1>5, BaseTop

LEMMA BaseContinue ==
    ASSUME Base, NEW t \in Thread, Continue(t)
    PROVE  Base'
<1>1. stack[t] # << >>
  BY DEF Continue, PtrsCheck, PtrsStart, PtrsFound, InitCheck, InitStart, KeyCreate,
         KeyCreateFails, InitDone, Installs, Initial, WriteReturns, KeyTest, KeyGet,
         KeySet, CallsClbk, ClbkReturns, ExitRestores, ExitDeletes, Exits, At
<1>2. /\ Top(t) \in Frame /\ FrameOK(Top(t))
      /\ \A to \in Location : Goto(t, to) => Goes(t, Top(t).loc, to)
      /\ Replaced(t) /\ FrameOK(Top(t)') => StackType' /\ StackOK'
      /\ Pop(t) => Popped(t) /\ StackType' /\ StackOK'
      /\ Crashes => Base'
  BY <1>1, CallStep
<1> USE DEF At, Location, Goes, FrameOK, WriterLocs, PtrsLocs, InitLocs, ExitLocs,
            Writer, pointers, started
<1> USE DEF Base, TypeOK, StackType
<1>3. CASE PtrsCheck(t)
  <2>1. Replaced(t) /\ FrameOK(Top(t)')
    BY <1>2, <1>3 DEF PtrsCheck, AfterPtrs
  <2> QED
    BY <1>2, <1>3, <2>1 DEF PtrsCheck
<1>4. CASE PtrsStart(t)
  BY <1>2, <1>4 DEF PtrsStart
<1>5. CASE PtrsFound(t)
  <2>1. Replaced(t) /\ FrameOK(Top(t)')
    BY <1>2, <1>5 DEF PtrsFound, AfterPtrs
  <2> QED
    BY <1>2, <1>5, <2>1 DEF PtrsFound
<1>6. CASE InitCheck(t)
  BY <1>2, <1>6 DEF InitCheck
<1>7. CASE InitStart(t)
  BY <1>2, <1>7 DEF InitStart
<1>8. CASE KeyCreate(t)
  BY <1>2, <1>8 DEF KeyCreate
<1>9. CASE KeyCreateFails(t)
  BY <1>2, <1>9 DEF KeyCreateFails, Finish
<1>10. CASE InitDone(t)
  BY <1>2, <1>10 DEF InitDone, Finish
<1>11. CASE Installs(t)
  BY <1>2, <1>11 DEF Installs
<1>12. CASE Initial(t)
  BY <1>2, <1>12 DEF Initial, ToCLib
<1>13. CASE WriteReturns(t)
  BY <1>2, <1>13 DEF WriteReturns
<1>14. CASE KeyTest(t)
  BY <1>2, <1>14 DEF KeyTest
<1>15. CASE KeyGet(t)
  BY <1>2, <1>15 DEF KeyGet, ToCLib
<1>16. CASE KeySet(t)
  BY <1>2, <1>16 DEF KeySet
<1>17. CASE CallsClbk(t)
  BY <1>2, <1>17 DEF CallsClbk, ToCLib
<1>18. CASE ClbkReturns(t)
  BY <1>2, <1>18 DEF ClbkReturns
<1>19. CASE ExitRestores(t)
  BY <1>2, <1>19 DEF ExitRestores
<1>20. CASE ExitDeletes(t)
  BY <1>2, <1>20 DEF ExitDeletes
<1>21. CASE Exits(t)
  BY <1>2, <1>21 DEF Exits, StackOK
<1> QED
  BY <1>3, <1>4, <1>5, <1>6, <1>7, <1>8, <1>8, <1>9, <1>10, <1>11, <1>12, <1>13, <1>14, <1>15,
     <1>16, <1>17, <1>18, <1>19, <1>20, <1>21 DEF Continue

LEMMA BaseNext ==
    ASSUME StdoutAssumption, Base, [Next]_vars
    PROVE  Base'
<1>1. CASE Halted \/ UNCHANGED vars
  <2>1. TypeOK'
    BY <1>1 DEF Halted, vars, Base, TypeOK
  <2>2. StackOK'
    BY <1>1 DEF Halted, vars, Base, StackOK
  <2> QED
    BY <2>1, <2>2 DEF Base
<1>2. CASE \E t \in Thread : Begin(t) \/ Continue(t)
  BY <1>2, BaseBegin, BaseContinue
<1> QED
  BY <1>1, <1>2 DEF Next

\* Below the top of every stack the calls are in the program's callback.
THEOREM BaseHolds == Spec => []Base
<1>1. Init => Base
  BY BaseInit, StdoutAssumption
<1>2. Base /\ [Next]_vars => Base'
  BY BaseNext, StdoutAssumption
<1> QED
  BY <1>1, <1>2, PTL DEF Spec

\* Every variable has its type.
THEOREM TypesHold == Spec => []TypeOK
<1>1. Base => TypeOK
  BY DEF Base
<1> QED
  BY <1>1, BaseHolds, PTL

-----------------------------------------------------------------------------
(* Crashes.                                                                *)

Active(t, loc) == stack[t] # << >> /\ Top(t).loc = loc

Exiting == \E t \in Thread : stack[t] # << >> /\ Top(t).op = "exit"

\* Places only reached once the C library's functions are being looked up.
LookedUp(f) ==
    f.loc \in {"ptrs_puts", "ptrs_fwrite", "initial", "install_puts", "install_fwrite"}
              \cup FinalLocs

\* Places where the key is used.
UsesKey(f) == f.loc \in {"get", "set", "unset"}

\* A pointer is NULL and a key gone only for a thread that looks the C library's
\* functions up, or one that exits.
RaceInv ==
    /\ \A w \in Writer : fnc[w] = NULL => Exiting
    /\ \A w \in Writer : fnc[w] = "final" => snPtrsInitStarted
    /\ \A t \in Thread : \A i \in DOMAIN stack[t] :
          /\ LookedUp(stack[t][i]) => snPtrsInitStarted
          /\ UsesKey(stack[t][i]) /\ s_pThreadLocalKey = NULL => Exiting
    /\ snPtrsInitStarted /\ c_lib["puts"] = NULL =>
          \E t \in Thread : Active(t, "ptrs_puts")
    /\ snPtrsInitStarted /\ c_lib["fwrite"] = NULL =>
          \E t \in Thread : Active(t, "ptrs_puts") \/ Active(t, "ptrs_fwrite")
    /\ CrashesOnlyInARace

LEMMA RaceInit ==
    ASSUME StdoutAssumption, Init
    PROVE  RaceInv
BY DEF Init, RaceInv, CrashesOnlyInARace, Writer, StdoutAssumption

\* A step of t that changes the pointers: what they have to satisfy with its top frame.
RaceGlobals(t) ==
    /\ UNCHANGED process
    /\ snPtrsInitStarted => snPtrsInitStarted'
    /\ \A w \in Writer :
          /\ fnc'[w] = NULL => fnc[w] = NULL \/ Exiting'
          /\ fnc'[w] = "final" => fnc[w] = "final" \/ snPtrsInitStarted'
    /\ s_pThreadLocalKey' = NULL => s_pThreadLocalKey = NULL \/ Exiting'
    /\ snPtrsInitStarted' /\ c_lib'["puts"] = NULL =>
          \/ snPtrsInitStarted /\ c_lib["puts"] = NULL /\ ~Active(t, "ptrs_puts")
          \/ Active(t, "ptrs_puts")'
    /\ snPtrsInitStarted' /\ c_lib'["fwrite"] = NULL =>
          \/ /\ snPtrsInitStarted /\ c_lib["fwrite"] = NULL
             /\ ~Active(t, "ptrs_puts") /\ ~Active(t, "ptrs_fwrite")
          \/ Active(t, "ptrs_puts")' \/ Active(t, "ptrs_fwrite")'

\* A new frame, or one less, where the thread that exits goes on exiting.
LEMMA RaceMoves ==
    ASSUME Base, RaceInv, NEW t \in Thread, process = "running", RaceGlobals(t),
           \/ /\ Moved(t)
              /\ LookedUp(Top(t)') => snPtrsInitStarted'
              /\ UsesKey(Top(t)') /\ s_pThreadLocalKey' = NULL => Exiting'
           \/ Popped(t),
           Exiting => Exiting'
    PROVE  RaceInv'
<1>1. \A u \in Thread \ {t} : stack'[u] = stack[u]
  BY DEF Moved, Popped
<1>2. \A u \in Thread \ {t}, loc \in Location : Active(u, loc) => Active(u, loc)'
  BY <1>1 DEF Active, Top
<1>3. \A w \in Writer : fnc'[w] = NULL => Exiting'
  BY DEF RaceInv, RaceGlobals
<1>4. \A w \in Writer : fnc'[w] = "final" => snPtrsInitStarted'
  BY DEF RaceInv, RaceGlobals
<1>5. ASSUME NEW u \in Thread, NEW i \in DOMAIN stack'[u]
      PROVE  /\ LookedUp(stack'[u][i]) => snPtrsInitStarted'
             /\ UsesKey(stack'[u][i]) /\ s_pThreadLocalKey' = NULL => Exiting'
  <2>1. CASE i \in DOMAIN stack[u] /\ stack'[u][i] = stack[u][i]
    <3>1. /\ LookedUp(stack[u][i]) => snPtrsInitStarted
          /\ UsesKey(stack[u][i]) /\ s_pThreadLocalKey = NULL => Exiting
      BY <2>1 DEF RaceInv
    <3> QED
      BY <2>1, <3>1 DEF RaceGlobals
  <2>2. CASE u = t /\ ~Popped(t) /\ i = Len(stack'[t])
    BY <2>2 DEF Moved
  <2>3. i \in 1 .. Len(stack'[u])
    BY DEF Moved, Popped, StackType
  <2> QED
    BY <1>1, <2>1, <2>2, <2>3 DEF Moved, Popped
<1>6. ASSUME snPtrsInitStarted', c_lib'["puts"] = NULL
      PROVE  \E u \in Thread : Active(u, "ptrs_puts")'
  BY <1>2, <1>6 DEF RaceInv, RaceGlobals, Location
<1>7. ASSUME snPtrsInitStarted', c_lib'["fwrite"] = NULL
      PROVE  \E u \in Thread : Active(u, "ptrs_puts")' \/ Active(u, "ptrs_fwrite")'
  BY <1>2, <1>7 DEF RaceInv, RaceGlobals, Location
<1>8. CrashesOnlyInARace'
  BY DEF RaceGlobals, CrashesOnlyInARace
<1> QED
  BY <1>3, <1>4, <1>5, <1>6, <1>7, <1>8, <1>8 DEF RaceInv

\* A thread that exits stays at it.
LEMMA ExitingStays ==
    ASSUME Base, NEW t \in Thread, Exiting,
           \/ Moved(t) /\ (stack[t] # << >> => Top(t)'.op = Top(t).op \/ Top(t).op # "exit")
           \/ Popped(t) /\ Top(t).op # "exit"
    PROVE  Exiting'
<1>1. PICK u \in Thread : stack[u] # << >> /\ Top(u).op = "exit"
  BY DEF Exiting
<1>2. CASE u = t
  BY <1>1, <1>2 DEF Exiting, Moved
<1>3. CASE u # t
  BY <1>1, <1>3 DEF Exiting, Moved, Popped, Top
<1> QED
  BY <1>2, <1>3

\* A step that only crashes the process.
LEMMA RaceCrash ==
    ASSUME StdoutAssumption, Base, RaceInv, NEW t \in Thread, stack[t] # << >>, Crashes,
           \/ Exiting
           \/ UsesKey(Top(t)) /\ s_pThreadLocalKey = NULL
           \/ LookedUp(Top(t)) /\ \E w \in Writer : c_lib[w] = NULL
    PROVE  RaceInv'
<1>1. UNCHANGED <<fnc, c_lib, s_pThreadLocalKey, snPtrsInitStarted, stack>>
  BY DEF Crashes, pointers, started
<1>2. /\ LookedUp(Top(t)) => snPtrsInitStarted
      /\ UsesKey(Top(t)) /\ s_pThreadLocalKey = NULL => Exiting
  BY BaseTop DEF RaceInv
<1>3. \/ Exiting
      \/ \E u \in Thread : Active(u, "ptrs_puts") \/ Active(u, "ptrs_fwrite")
  BY <1>2 DEF RaceInv, Writer
<1>4. CrashesOnlyInARace'
  BY <1>1, <1>3 DEF CrashesOnlyInARace, Exiting, Active, Top
<1> QED
  BY <1>1, <1>4 DEF RaceInv, Exiting, Active, Top

LEMMA RaceBegin ==
    ASSUME StdoutAssumption, Base, RaceInv, NEW t \in Thread, Begin(t)
    PROVE  RaceInv'
<1>1. /\ UNCHANGED <<pointers, started, flag>> /\ process = "running"
      /\ stack[t] = << >> \/ Top(t).loc = "callback"
      /\ \/ /\ UNCHANGED stack /\ process' = "crashed"
            /\ \E w \in Writer : fnc[w] = NULL
         \/ /\ UNCHANGED process
            /\ Pushed(t) /\ FrameOK(Top(t)') /\ Entry(Top(t)')
  BY BeginIs DEF Base
<1>2. CASE UNCHANGED stack /\ process' = "crashed" /\ \E w \in Writer : fnc[w] = NULL
  <2>1. Exiting
    BY <1>2 DEF RaceInv
  <2>2. UNCHANGED <<fnc, c_lib, s_pThreadLocalKey, snPtrsInitStarted, stack>>
    BY <1>1, <1>2 DEF pointers, started
  <2>3. CrashesOnlyInARace'
    BY <2>1, <2>2 DEF CrashesOnlyInARace, Exiting, Top
  <2> QED
    BY <2>2, <2>3 DEF RaceInv, Exiting, Active, Top
<1>3. CASE UNCHANGED process /\ Pushed(t) /\ Entry(Top(t)')
  <2>1. Exiting => Exiting'
    <3>1. stack[t] # << >> => Top(t).op # "exit"
      BY <1>1, BaseTop DEF FrameOK, ExitLocs
    <3> QED
      BY <1>3, <3>1, ExitingStays DEF Pushed
  <2>2. RaceGlobals(t)
    <3>1. ~Active(t, "ptrs_puts") /\ ~Active(t, "ptrs_fwrite")
      BY <1>1 DEF Active
    <3> QED
      BY <1>1, <1>3, <3>1 DEF RaceGlobals, pointers, started
  <2>3. LookedUp(Top(t)') => snPtrsInitStarted
    BY <1>3 DEF Entry, LookedUp, FinalLocs, ClbkLocs, RaceInv
  <2>4. ~UsesKey(Top(t)')
    BY <1>3 DEF Entry, UsesKey
  <2> QED
    BY <1>1, <1>3, <2>1, <2>2, <2>3, <2>4, RaceMoves DEF Pushed, started
<1> QED
  BY <1>1, <1>2, <1>3

LEMMA RaceContinue ==
    ASSUME StdoutAssumption, Base, RaceInv, NEW t \in Thread, Continue(t)
    PROVE  RaceInv'
<1>1. stack[t] # << >> /\ process = "running"
  BY DEF Continue, PtrsCheck, PtrsStart, PtrsFound, InitCheck, InitStart, KeyCreate,
         KeyCreateFails, InitDone, Installs, Initial, WriteReturns, KeyTest, KeyGet,
         KeySet, CallsClbk, ClbkReturns, ExitRestores, ExitDeletes, Exits, At
<1>2. /\ Top(t) \in Frame /\ FrameOK(Top(t))
      /\ \A to \in Location : Goto(t, to) => Goes(t, Top(t).loc, to)
      /\ Pop(t) => Popped(t)
  BY <1>1, CallStep
<1>3. /\ LookedUp(Top(t)) => snPtrsInitStarted
      /\ UsesKey(Top(t)) /\ s_pThreadLocalKey = NULL => Exiting
      /\ \A w \in Writer : fnc[w] = "final" => snPtrsInitStarted
      /\ Top(t).op = "exit" => Exiting
  BY <1>1, BaseTop DEF RaceInv, Exiting
<1>4. /\ Moved(t) /\ Top(t)'.op = Top(t).op => (Exiting => Exiting')
      /\ Popped(t) /\ Top(t).op # "exit" => (Exiting => Exiting')
  BY ExitingStays
<1>5. /\ Moved(t) /\ Top(t)'.loc = "ptrs_puts" => Active(t, "ptrs_puts")'
      /\ Moved(t) /\ Top(t)'.loc = "ptrs_fwrite" => Active(t, "ptrs_fwrite")'
      /\ Active(t, "ptrs_puts") => Top(t).loc = "ptrs_puts"
      /\ Active(t, "ptrs_fwrite") => Top(t).loc = "ptrs_fwrite"
  BY DEF Active, Moved
<1>6. /\ RaceGlobals(t) /\ Moved(t) /\ (Exiting => Exiting')
          /\ (LookedUp(Top(t)') => snPtrsInitStarted')
          /\ (UsesKey(Top(t)') /\ s_pThreadLocalKey' = NULL => Exiting') => RaceInv'
      /\ RaceGlobals(t) /\ Popped(t) /\ (Exiting => Exiting') => RaceInv'
  BY <1>1, RaceMoves
<1>7. /\ Crashes /\ UsesKey(Top(t)) /\ s_pThreadLocalKey = NULL => RaceInv'
      /\ \A w \in Writer : Crashes /\ LookedUp(Top(t)) /\ c_lib[w] = NULL => RaceInv'
  BY <1>1, RaceCrash
<1>8. TypeOK /\ NULL \notin {"final", "clib"}
  BY DEF Base, StdoutAssumption
<1> HIDE DEF Base, RaceInv
<1> USE DEF At, Location, Goes, Replaced, FrameOK, WriterLocs, PtrsLocs, InitLocs, ExitLocs,
            Writer, pointers, started, LookedUp, UsesKey, FinalLocs, ClbkLocs, RaceGlobals
<1>11. CASE PtrsCheck(t)
  BY <1>2, <1>3, <1>4, <1>5, <1>6, <1>11 DEF PtrsCheck, AfterPtrs
<1>12. CASE PtrsStart(t)
  BY <1>2, <1>3, <1>4, <1>5, <1>6, <1>12 DEF PtrsStart
<1>13. CASE PtrsFound(t)
  BY <1>2, <1>3, <1>4, <1>5, <1>6, <1>8, <1>13 DEF PtrsFound, AfterPtrs, TypeOK
<1>14. CASE InitCheck(t)
  BY <1>2, <1>3, <1>4, <1>5, <1>6, <1>14 DEF InitCheck
<1>15. CASE InitStart(t)
  BY <1>2, <1>3, <1>4, <1>5, <1>6, <1>15 DEF InitStart
<1>16. CASE KeyCreate(t)
  BY <1>2, <1>3, <1>4, <1>5, <1>6, <1>16, StdoutAssumption DEF KeyCreate, StdoutAssumption
<1>17. CASE KeyCreateFails(t)
  BY <1>2, <1>3, <1>4, <1>5, <1>6, <1>17 DEF KeyCreateFails, Finish
<1>18. CASE InitDone(t)
  BY <1>2, <1>3, <1>4, <1>5, <1>6, <1>18 DEF InitDone, Finish
<1>19. CASE Installs(t)
  BY <1>2, <1>3, <1>4, <1>5, <1>6, <1>8, <1>19 DEF Installs, TypeOK
<1>20. CASE Initial(t)
  <2>1. Top(t).op \in Writer
    BY <1>2, <1>20 DEF Initial
  <2> QED
    BY <1>2, <1>3, <1>4, <1>5, <1>6, <1>7, <1>8, <1>20, <2>1 DEF Initial, ToCLib
<1>21. CASE WriteReturns(t)
  BY <1>2, <1>3, <1>4, <1>5, <1>6, <1>21 DEF WriteReturns
<1>22. CASE KeyTest(t)
  BY <1>2, <1>3, <1>4, <1>5, <1>6, <1>22 DEF KeyTest
<1>23. CASE KeyGet(t)
  <2>1. Top(t).op \in Writer
    BY <1>2, <1>23 DEF KeyGet
  <2> QED
    BY <1>2, <1>3, <1>4, <1>5, <1>6, <1>7, <1>8, <1>23, <2>1 DEF KeyGet, ToCLib
<1>24. CASE KeySet(t)
  BY <1>2, <1>3, <1>4, <1>5, <1>6, <1>7, <1>8, <1>24 DEF KeySet
<1>25. CASE CallsClbk(t)
  BY <1>2, <1>3, <1>4, <1>5, <1>6, <1>7, <1>8, <1>25 DEF CallsClbk, ToCLib
<1>26. CASE ClbkReturns(t)
  BY <1>2, <1>3, <1>4, <1>5, <1>6, <1>26 DEF ClbkReturns
<1>27. CASE ExitRestores(t)
  BY <1>2, <1>3, <1>4, <1>5, <1>6, <1>8, <1>27 DEF ExitRestores, TypeOK
<1>28. CASE ExitDeletes(t)
  BY <1>2, <1>3, <1>4, <1>5, <1>6, <1>28 DEF ExitDeletes
<1>29. CASE Exits(t)
  BY <1>29 DEF Exits, RaceInv, Exiting, Active, Top, CrashesOnlyInARace
<1> QED
  BY <1>11, <1>12, <1>13, <1>14, <1>15, <1>16, <1>17, <1>18, <1>19, <1>20, <1>21, <1>22,
     <1>23, <1>24, <1>25, <1>26, <1>27, <1>28, <1>29 DEF Continue

LEMMA RaceNext ==
    ASSUME StdoutAssumption, Base, RaceInv, [Next]_vars
    PROVE  RaceInv'
<1>1. CASE Halted \/ UNCHANGED vars
  BY <1>1 DEF Halted, vars, RaceInv, Exiting, Active, Top, CrashesOnlyInARace
<1>2. CASE \E t \in Thread : Begin(t) \/ Continue(t)
  BY <1>2, RaceBegin, RaceContinue
<1> QED
  BY <1>1, <1>2 DEF Next

\* A pointer is NULL, or a key gone, only next to a thread that can be blamed.
THEOREM RaceInvHolds == Spec => []RaceInv
<1>1. Init => RaceInv
  BY RaceInit, StdoutAssumption
<1>2. Base /\ RaceInv /\ [Next]_vars => RaceInv'
  BY RaceNext, StdoutAssumption
<1> QED
  BY <1>1, <1>2, BaseHolds, PTL DEF Spec

\* The process crashes only while a thread looks the C library's functions up or exits.
THEOREM CrashesHaveACause == Spec => []CrashesOnlyInARace
<1>1. RaceInv => CrashesOnlyInARace
  BY DEF RaceInv
<1> QED
  BY <1>1, RaceInvHolds, PTL

-----------------------------------------------------------------------------
(* The thread-specific flag.                                               *)

\* t is past the test that makes it the one that initializes, and not at the end.
InitBy(t) ==
    /\ stack[t] # << >>
    /\ \/ Top(t).loc \in {"key_create", "install_puts", "install_fwrite"}
       \/ Top(t).loc \in PtrsLocs /\ Top(t).op \in {"init", "set"}

\* t has nothing of PutsFinal and FwriteFinal on its stack.
Quiet(t) ==
    /\ ~flag[t]
    /\ Len(stack[t]) = 0 \/ (Len(stack[t]) = 1 /\ Top(t).loc \notin FinalLocs)

Untouched ==
    /\ \A w \in Writer : fnc[w] # "final"
    /\ \A t \in Thread : Quiet(t)

\* The flag is up exactly while one of the calls is in the callback.
FlagOK(t) ==
    /\ flag[t] =>
          \/ Len(stack[t]) = 1 /\ Top(t).loc \in ClbkLocs
          \/ Len(stack[t]) = 2 /\ Top(t).loc \notin ClbkLocs
    /\ ~flag[t] =>
          \/ Len(stack[t]) = 0
          \/ Len(stack[t]) = 1 /\ Top(t).loc \notin ClbkLocs
    /\ Active(t, "set") => ~flag[t]

\* One thread initializes, nothing is redirected before it installs, and the key is
\* there before the first redirected write.
Once ==
    /\ ~snStartedInitLibrary => Untouched /\ ~snInited /\ s_pThreadLocalKey = NULL
    /\ \A t \in Thread : InitBy(t) =>
          /\ snStartedInitLibrary /\ ~snInited
          /\ \A u \in Thread : InitBy(u) => u = t
          /\ Top(t).loc # "install_fwrite" => Untouched
          /\ Top(t).loc = "key_create" => s_pThreadLocalKey = NULL
    /\ \A t \in Thread, loc \in {"exit_puts", "exit_fwrite", "exit_key"} :
          Active(t, loc) => snInited
    /\ s_pThreadLocalKey # NULL => \A t \in Thread : FlagOK(t)

OnceInv == "init" \notin overlaps => Once

\* What a step of t does to what Once is about.
OnceStep(t) ==
    /\ \A u \in Thread \ {t} : stack'[u] = stack[u] /\ flag'[u] = flag[u]
    /\ overlaps \subseteq overlaps'
    /\ snStartedInitLibrary => snStartedInitLibrary'
    /\ snInited' = snInited \/ (Active(t, "install_fwrite") /\ snInited')
    /\ \/ s_pThreadLocalKey' = s_pThreadLocalKey \/ s_pThreadLocalKey' = NULL
       \/ Active(t, "key_create")
    /\ \A w \in Writer : fnc'[w] = "final" =>
          fnc[w] = "final" \/ Active(t, "install_puts") \/ Active(t, "install_fwrite")
    /\ InitBy(t)' =>
          \/ InitBy(t) /\ ~Active(t, "install_fwrite")
             /\ (Active(t, "install_puts") => Active(t, "install_fwrite")')
          \/ /\ snStartedInitLibrary' /\ ~snInited'
             /\ snStartedInitLibrary => "init" \in overlaps'
             /\ s_pThreadLocalKey' = s_pThreadLocalKey
             /\ ~Active(t, "install_puts") /\ ~Active(t, "install_fwrite")
    /\ InitBy(t) /\ Active(t, "key_create")' => FALSE
    /\ \A loc \in {"exit_puts", "exit_fwrite", "exit_key"} : Active(t, loc)' =>
          snInited \/ \E l \in {"exit_puts", "exit_fwrite", "exit_key"} : Active(t, l)
    /\ Quiet(t) /\ (\A w \in Writer : fnc[w] # "final") => Quiet(t)'
    /\ s_pThreadLocalKey # NULL /\ s_pThreadLocalKey' # NULL /\ FlagOK(t) => FlagOK(t)'

LEMMA OnceMoves ==
    ASSUME OnceInv, NEW t \in Thread, OnceStep(t)
    PROVE  OnceInv'
<1> SUFFICES ASSUME "init" \notin overlaps'
             PROVE  Once'
  BY DEF OnceInv
<1>1. Once
  BY DEF OnceInv, OnceStep
<1>2. \A u \in Thread \ {t} :
          /\ InitBy(u)' <=> InitBy(u)
          /\ Quiet(u)' <=> Quiet(u)
          /\ FlagOK(u)' <=> FlagOK(u)
          /\ Top(u)' = Top(u)
          /\ \A loc \in Location : Active(u, loc)' <=> Active(u, loc)
  BY DEF OnceStep, InitBy, Quiet, FlagOK, Active, Top
<1>3. /\ Active(t, "install_puts") => InitBy(t) /\ Top(t).loc = "install_puts"
      /\ Active(t, "install_fwrite") => InitBy(t) /\ Top(t).loc = "install_fwrite"
      /\ Active(t, "key_create") => InitBy(t) /\ Top(t).loc = "key_create"
  BY DEF Active, InitBy
<1>4. Untouched /\ ~Active(t, "install_puts") /\ ~Active(t, "install_fwrite") => Untouched'
  BY <1>2 DEF Untouched, OnceStep
<1>5. ~snStartedInitLibrary' =>
          Untouched' /\ ~snInited' /\ s_pThreadLocalKey' = NULL
  BY <1>1, <1>3, <1>4 DEF Once, OnceStep
<1>6. ASSUME NEW u \in Thread, InitBy(u)'
      PROVE  /\ snStartedInitLibrary' /\ ~snInited'
             /\ \A v \in Thread : InitBy(v)' => v = u
             /\ Top(u)'.loc # "install_fwrite" => Untouched'
             /\ Top(u)'.loc = "key_create" => s_pThreadLocalKey' = NULL
  <2>1. CASE u # t
    <3>1. InitBy(u) /\ ~InitBy(t) /\ Top(u)' = Top(u)
      BY <1>1, <1>2, <1>6, <2>1 DEF Once
    <3>2. ~InitBy(t)'
      BY <1>1, <3>1 DEF Once, OnceStep
    <3> QED
      BY <1>1, <1>2, <1>3, <1>4, <3>1, <3>2 DEF Once, OnceStep
  <2>2. CASE u = t /\ InitBy(t)
    <3>1. ~Active(t, "install_fwrite")
          /\ (Active(t, "install_puts") => Active(t, "install_fwrite")')
      BY <1>1, <1>6, <2>2 DEF Once, OnceStep
    <3>2. Active(t, "install_fwrite")' => Top(t)'.loc = "install_fwrite"
      BY DEF Active
    <3>3. Top(t)'.loc # "key_create"
      BY <1>6, <2>2 DEF OnceStep, Active, InitBy
    <3>4. Top(t)'.loc # "install_fwrite" => Untouched'
      <4>1. Top(t).loc = "install_fwrite" => Active(t, "install_fwrite")
        BY <2>2 DEF Active, InitBy
      <4> QED
        BY <1>1, <1>4, <2>2, <3>1, <3>2, <4>1 DEF Once
    <3> QED
      BY <1>1, <1>2, <2>2, <3>1, <3>3, <3>4 DEF Once, OnceStep
  <2>3. CASE u = t /\ ~InitBy(t)
    <3>1. ~snStartedInitLibrary /\ snStartedInitLibrary' /\ ~snInited'
          /\ s_pThreadLocalKey' = s_pThreadLocalKey
      BY <1>6, <2>3 DEF OnceStep
    <3>2. Untouched' /\ s_pThreadLocalKey' = NULL
      BY <1>1, <1>3, <1>4, <2>3, <3>1 DEF Once
    <3>3. \A v \in Thread : InitBy(v)' => v = t
      BY <1>1, <1>2, <3>1 DEF Once
    <3> QED
      BY <2>3, <3>1, <3>2, <3>3
  <2> QED
    BY <2>1, <2>2, <2>3
<1>7. ASSUME NEW u \in Thread, NEW loc \in {"exit_puts", "exit_fwrite", "exit_key"},
             Active(u, loc)'
      PROVE  snInited'
  <2>1. loc \in Location
    BY DEF Location
  <2>2. snInited
    BY <1>1, <1>2, <1>7, <2>1 DEF Once, OnceStep
  <2> QED
    BY <2>2 DEF OnceStep
<1>8. ASSUME s_pThreadLocalKey' # NULL, NEW u \in Thread
      PROVE  FlagOK(u)'
  <2>1. CASE s_pThreadLocalKey # NULL
    BY <1>1, <1>2, <1>8, <2>1 DEF Once, OnceStep
  <2>2. CASE s_pThreadLocalKey = NULL
    <3>1. Active(t, "key_create")
      BY <1>8, <2>2 DEF OnceStep
    <3>2. Untouched'
      <4>1. ~Active(t, "install_puts") /\ ~Active(t, "install_fwrite")
        BY <3>1 DEF Active
      <4> QED
        BY <1>1, <1>3, <1>4, <3>1, <4>1 DEF Once
    <3> QED
      BY <3>2 DEF Untouched, Quiet, FlagOK, FinalLocs, Active
  <2> QED
    BY <2>1, <2>2
<1> QED
  BY <1>5, <1>6, <1>7, <1>8, <1>8 DEF Once

\* What a step makes of the top of a stack.
LEMMA TopMoves ==
    ASSUME Base, NEW t \in Thread
    PROVE  /\ Pushed(t) => Len(stack'[t]) = Len(stack[t]) + 1
           /\ \A from, to : Goes(t, from, to) => Len(stack'[t]) = Len(stack[t])
           /\ Popped(t) => /\ Len(stack'[t]) = Len(stack[t]) - 1
                           /\ stack'[t] # << >> => Top(t)'.loc = "callback"
           /\ Pushed(t) \/ Popped(t) \/ (\E from, to : Goes(t, from, to)) =>
                 \A u \in Thread \ {t} : stack'[u] = stack[u]
           /\ Len(stack[t]) \in Nat /\ (stack[t] = << >> <=> Len(stack[t]) = 0)
           /\ Pushed(t) \/ Popped(t) \/ (\E from, to : Goes(t, from, to)) =>
                 Len(stack'[t]) \in Nat /\ (stack'[t] = << >> <=> Len(stack'[t]) = 0)
<1>1. stack \in [Thread -> Seq(Frame)]
  BY DEF Base, TypeOK
<1>2. ASSUME Popped(t), stack'[t] # << >>
      PROVE  Top(t)'.loc = "callback"
  <2>1. stack' \in [Thread -> Seq(Frame)]
    BY <1>2 DEF Popped, StackType
  <2>2. Top(t)' = stack'[t][Len(stack'[t])] /\ Len(stack'[t]) \in DOMAIN stack'[t]
    BY <1>2, <2>1 DEF Top, Last
  <2>3. /\ Len(stack'[t]) \in DOMAIN stack[t] /\ Len(stack'[t]) < Len(stack[t])
        /\ Top(t)' = stack[t][Len(stack'[t])]
    BY <1>1, <1>2, <2>2 DEF Popped
  <2> QED
    BY <2>3 DEF Base, StackOK
<1> QED
  BY <1>1, <1>2 DEF Pushed, Goes, Replaced, Moved, Popped, StackType

LEMMA OnceStill ==
    ASSUME UNCHANGED <<pointers, started, flag, stack>>, NEW t \in Thread, ~InitBy(t)
    PROVE  OnceStep(t)
<1>1. UNCHANGED <<fnc, s_pThreadLocalKey, snStartedInitLibrary, snInited, overlaps, flag, stack>>
  BY DEF pointers, started
<1>2. /\ ~InitBy(t)'
      /\ \A loc \in {"exit_puts", "exit_fwrite", "exit_key"} : Active(t, loc)' <=> Active(t, loc)
      /\ Quiet(t)' <=> Quiet(t)
      /\ FlagOK(t)' <=> FlagOK(t)
  BY <1>1 DEF InitBy, Quiet, FlagOK, Active, Top
<1> QED
  BY <1>1, <1>2 DEF OnceStep

LEMMA OnceBegin ==
    ASSUME StdoutAssumption, Base, NEW t \in Thread, Begin(t)
    PROVE  OnceStep(t)
<1>1. /\ UNCHANGED <<pointers, started, flag>> /\ process = "running"
      /\ stack[t] = << >> \/ Top(t).loc = "callback"
      /\ \/ /\ UNCHANGED stack /\ process' = "crashed"
            /\ \E w \in Writer : fnc[w] = NULL
         \/ /\ UNCHANGED process
            /\ Pushed(t) /\ FrameOK(Top(t)') /\ Entry(Top(t)')
  BY BeginIs DEF Base
<1>2. CASE UNCHANGED stack
  <2>1. ~InitBy(t)
    BY <1>1 DEF InitBy, PtrsLocs
  <2> QED
    BY <1>1, <1>2, <2>1, OnceStill
<1>3. CASE Pushed(t) /\ Entry(Top(t)')
  <2>1. /\ Len(stack'[t]) = Len(stack[t]) + 1 /\ Len(stack[t]) \in Nat
        /\ stack[t] = << >> <=> Len(stack[t]) = 0
        /\ \A u \in Thread \ {t} : stack'[u] = stack[u]
    BY <1>3, TopMoves
  <2>2. UNCHANGED <<fnc, s_pThreadLocalKey, snStartedInitLibrary, snInited, overlaps, flag>>
    BY <1>1 DEF pointers, started
  <2>3. ~InitBy(t)' /\ ~Active(t, "install_puts") /\ ~Active(t, "install_fwrite")
    BY <1>1, <1>3 DEF InitBy, Entry, Active, PtrsLocs, Writer
  <2>4. \A loc \in {"exit_puts", "exit_fwrite", "exit_key"} : Active(t, loc)' => snInited
    BY <1>3 DEF Entry, Active
  <2>5. Quiet(t) /\ (\A w \in Writer : fnc[w] # "final") => Quiet(t)'
    BY <1>1, <1>3, <2>1, <2>2 DEF Quiet, Entry, FinalLocs, ClbkLocs
  <2>6. FlagOK(t) => FlagOK(t)'
    <3>1. /\ Top(t)'.loc \notin ClbkLocs \cup {"set"}
          /\ stack[t] # << >> => Top(t).loc \in ClbkLocs
      BY <1>1, <1>3 DEF Entry, ClbkLocs
    <3>2. flag'[t] = flag[t]
      BY <2>2
    <3> SUFFICES ASSUME FlagOK(t) PROVE FlagOK(t)'
      OBVIOUS
    <3>3. CASE flag[t]
      <4>0. Len(stack[t]) # 0
        BY <3>3 DEF FlagOK
      <4>1. Len(stack[t]) = 1 /\ flag'[t]
        BY <2>1, <3>1, <3>2, <3>3, <4>0 DEF FlagOK
      <4>2. Len(stack'[t]) = 2
        BY <2>1, <4>1
      <4> QED
        BY <3>1, <4>1, <4>2 DEF FlagOK, ClbkLocs, Active
    <3>4. CASE ~flag[t]
      <4>1. Len(stack[t]) = 0 /\ ~flag'[t]
        BY <2>1, <3>1, <3>2, <3>4 DEF FlagOK
      <4>2. Len(stack'[t]) = 1
        BY <2>1, <4>1
      <4> QED
        BY <3>1, <4>1, <4>2 DEF FlagOK, ClbkLocs, Active
    <3> QED
      BY <3>3, <3>4
  <2>7. ~Active(t, "key_create")'
    BY <1>3 DEF Active, Entry
  <2> QED
    BY <2>1, <2>2, <2>3, <2>4, <2>5, <2>6, <2>7 DEF OnceStep
<1> QED
  BY <1>1, <1>2, <1>3

LEMMA OnceContinue ==
    ASSUME StdoutAssumption, Base, NEW t \in Thread, Continue(t)
    PROVE  OnceStep(t)
<1>1. stack[t] # << >> /\ process = "running"
  BY DEF Continue, PtrsCheck, PtrsStart, PtrsFound, InitCheck, InitStart, KeyCreate,
         KeyCreateFails, InitDone, Installs, Initial, WriteReturns, KeyTest, KeyGet,
         KeySet, CallsClbk, ClbkReturns, ExitRestores, ExitDeletes, Exits, At
<1>2. /\ Top(t) \in Frame /\ FrameOK(Top(t)) /\ TypeOK
      /\ \A to \in Location : Goto(t, to) => Goes(t, Top(t).loc, to)
      /\ Pop(t) => Popped(t)
  BY <1>1, CallStep DEF Base
<1>3. /\ Len(stack[t]) \in Nat \ {0}
      /\ Moved(t) /\ Len(stack'[t]) = Len(stack[t]) =>
            /\ stack'[t] # << >>
            /\ \A u \in Thread \ {t} : stack'[u] = stack[u]
      /\ Popped(t) => /\ Len(stack'[t]) = Len(stack[t]) - 1
                      /\ stack'[t] # << >> => Top(t)'.loc = "callback"
                      /\ stack'[t] = << >> <=> Len(stack'[t]) = 0
                      /\ \A u \in Thread \ {t} : stack'[u] = stack[u]
  BY <1>1, TopMoves DEF Moved
<1>4. Crashes /\ ~InitBy(t) => OnceStep(t)
  BY OnceStill DEF Crashes
<1>5. Popped(t) =>
          /\ ~InitBy(t)' /\ ~Active(t, "key_create")'
          /\ \A loc \in {"exit_puts", "exit_fwrite", "exit_key"} : ~Active(t, loc)'
  BY <1>3 DEF InitBy, Active, PtrsLocs
<1>6. Popped(t) /\ UNCHANGED flag /\ Quiet(t) => Quiet(t)'
  <2> SUFFICES ASSUME Popped(t), UNCHANGED flag, Quiet(t) PROVE Quiet(t)'
    OBVIOUS
  <2>1. Len(stack[t]) = 1 /\ ~flag[t]
    BY <1>3 DEF Quiet
  <2>2. Len(stack'[t]) = 0
    BY <1>3, <2>1
  <2>3. ~flag'[t]
    BY <2>1
  <2> QED
    BY <2>2, <2>3 DEF Quiet
<1>7. Popped(t) /\ UNCHANGED flag /\ Top(t).loc \notin ClbkLocs /\ FlagOK(t) => FlagOK(t)'
  <2> SUFFICES ASSUME Popped(t), UNCHANGED flag, Top(t).loc \notin ClbkLocs, FlagOK(t)
               PROVE  FlagOK(t)'
    OBVIOUS
  <2>1. CASE flag[t]
    <3>1. Len(stack[t]) = 2 /\ flag'[t]
      BY <2>1 DEF FlagOK
    <3>2. Len(stack'[t]) = 1 /\ Top(t)'.loc = "callback"
      BY <1>3, <3>1
    <3> QED
      BY <3>1, <3>2 DEF FlagOK, ClbkLocs, Active
  <2>2. CASE ~flag[t]
    <3>1. Len(stack[t]) = 1 /\ ~flag'[t]
      BY <1>3, <2>2 DEF FlagOK
    <3>2. Len(stack'[t]) = 0 /\ stack'[t] = << >>
      BY <1>3, <3>1
    <3> QED
      BY <3>1, <3>2 DEF FlagOK, Active
  <2> QED
    BY <2>1, <2>2
<1>8. Popped(t) /\ ~flag'[t] /\ Top(t).loc \in ClbkLocs /\ FlagOK(t) => FlagOK(t)'
  <2> SUFFICES ASSUME Popped(t), ~flag'[t], Top(t).loc \in ClbkLocs, FlagOK(t)
               PROVE  FlagOK(t)'
    OBVIOUS
  <2>1. Len(stack[t]) = 1
    BY <1>3 DEF FlagOK
  <2>2. Len(stack'[t]) = 0 /\ stack'[t] = << >>
    BY <1>3, <2>1
  <2> QED
    BY <2>2 DEF FlagOK, Active
<1> HIDE DEF Base
<1> USE DEF At, Location, Goes, Replaced, FrameOK, WriterLocs, PtrsLocs, InitLocs, ExitLocs,
            Writer, pointers, started, FinalLocs, ClbkLocs, Active, InitBy, Quiet, FlagOK
<1>11. CASE PtrsCheck(t)
  BY <1>1, <1>2, <1>3, <1>11 DEF PtrsCheck, AfterPtrs, OnceStep
<1>12. CASE PtrsStart(t)
  BY <1>1, <1>2, <1>3, <1>12 DEF PtrsStart, OnceStep
<1>13. CASE PtrsFound(t)
  BY <1>1, <1>2, <1>3, <1>13 DEF PtrsFound, AfterPtrs, OnceStep, TypeOK
<1>14. CASE InitCheck(t)
  BY <1>1, <1>2, <1>3, <1>14 DEF InitCheck, OnceStep
<1>15. CASE InitStart(t)
  BY <1>1, <1>2, <1>3, <1>15 DEF InitStart, OnceStep
<1>16. CASE KeyCreate(t)
  BY <1>1, <1>2, <1>3, <1>16 DEF KeyCreate, OnceStep
<1>17. CASE KeyCreateFails(t)
  <2>1. Popped(t) /\ Top(t).loc = "key_create"
    BY <1>2, <1>17 DEF KeyCreateFails, Finish
  <2> QED
    BY <1>3, <1>5, <1>6, <1>7, <1>8, <1>17, <2>1 DEF KeyCreateFails, Finish, OnceStep
<1>18. CASE InitDone(t)
  <2>1. Popped(t) /\ Top(t).loc = "init_done"
    BY <1>2, <1>18 DEF InitDone, Finish
  <2> QED
    BY <1>3, <1>5, <1>6, <1>7, <1>8, <1>18, <2>1 DEF InitDone, Finish, OnceStep
<1>19. CASE Installs(t)
  BY <1>1, <1>2, <1>3, <1>19 DEF Installs, TypeOK, OnceStep
<1>20. CASE Initial(t)
  BY <1>1, <1>2, <1>3, <1>4, <1>20 DEF Initial, ToCLib, OnceStep
<1>21. CASE WriteReturns(t)
  <2>1. CASE At(t, "write") /\ Pop(t)
    <3>1. Popped(t) /\ Top(t).loc = "write"
      BY <1>2, <2>1
    <3> QED
      BY <1>3, <1>5, <1>6, <1>7, <1>8, <1>21, <3>1 DEF WriteReturns, OnceStep
  <2>2. CASE At(t, "clbk_write") /\ Goto(t, "unset_check")
    BY <1>1, <1>2, <1>3, <1>21, <2>2 DEF WriteReturns, OnceStep
  <2> QED
    BY <1>21, <2>1, <2>2 DEF WriteReturns
<1>22. CASE KeyTest(t)
  BY <1>1, <1>2, <1>3, <1>22 DEF KeyTest, OnceStep
<1>23. CASE KeyGet(t)
  BY <1>1, <1>2, <1>3, <1>4, <1>23 DEF KeyGet, ToCLib, OnceStep
<1>24. CASE KeySet(t)
  <2>1. CASE At(t, "set") /\ ~Crashes
    BY <1>1, <1>2, <1>3, <1>24, <2>1 DEF KeySet, OnceStep, TypeOK
  <2>2. CASE At(t, "unset") /\ ~Crashes
    <3>1. /\ Popped(t) /\ Top(t).loc = "unset" /\ ~flag'[t] /\ ~Quiet(t)
          /\ \A u \in Thread \ {t} : flag'[u] = flag[u]
      BY <1>1, <1>2, <1>3, <1>24, <2>2 DEF KeySet, TypeOK
    <3> QED
      BY <1>3, <1>5, <1>6, <1>7, <1>8, <1>24, <2>2, <3>1 DEF KeySet, OnceStep
  <2> QED
    BY <1>4, <1>24, <2>1, <2>2 DEF KeySet
<1>25. CASE CallsClbk(t)
  BY <1>1, <1>2, <1>3, <1>4, <1>25 DEF CallsClbk, ToCLib, OnceStep
<1>26. CASE ClbkReturns(t)
  BY <1>1, <1>2, <1>3, <1>26 DEF ClbkReturns, OnceStep
<1>27. CASE ExitRestores(t)
  BY <1>1, <1>2, <1>3, <1>27, StdoutAssumption DEF ExitRestores, TypeOK, OnceStep, StdoutAssumption
<1>28. CASE ExitDeletes(t)
  BY <1>1, <1>2, <1>3, <1>28 DEF ExitDeletes, OnceStep
<1>29. CASE Exits(t)
  BY <1>2, <1>29, OnceStill DEF Exits
<1> QED
  BY <1>11, <1>12, <1>13, <1>14, <1>15, <1>16, <1>17, <1>18, <1>19, <1>20, <1>21, <1>22,
     <1>23, <1>24, <1>25, <1>26, <1>27, <1>28, <1>29 DEF Continue

LEMMA OnceNext ==
    ASSUME StdoutAssumption, Base, OnceInv, [Next]_vars
    PROVE  OnceInv'
<1>1. CASE Halted \/ UNCHANGED vars
  BY <1>1 DEF Halted, vars, OnceInv, Once, Untouched, InitBy, Quiet, FlagOK, Active, Top
<1>2. CASE \E t \in Thread : Begin(t) \/ Continue(t)
  <2>1. PICK t \in Thread : Begin(t) \/ Continue(t)
    BY <1>2
  <2>2. OnceStep(t)
    BY <2>1, OnceBegin, OnceContinue
  <2> QED
    BY <2>2, OnceMoves
<1> QED
  BY <1>1, <1>2 DEF Next

LEMMA OnceInit ==
    ASSUME Init
    PROVE  OnceInv
<1>1. \A t \in Thread : stack[t] = << >> /\ ~flag[t]
  BY DEF Init
<1>2. Untouched
  BY <1>1 DEF Init, Untouched, Quiet, Writer
<1>3. \A t \in Thread : ~InitBy(t) /\ \A loc \in Location : ~Active(t, loc)
  BY <1>1 DEF InitBy, Active
<1> QED
  BY <1>2, <1>3 DEF Init, OnceInv, Once, Location

\* While only one thread began the initialization, the redirected functions are
\* untouched until it installs them, and the flag of a thread says how deep it is.
THEOREM OnceInvHolds == Spec => []OnceInv
<1>1. Init => OnceInv
  BY OnceInit
<1>2. Base /\ OnceInv /\ [Next]_vars => OnceInv'
  BY OnceNext, StdoutAssumption
<1> QED
  BY <1>1, <1>2, BaseHolds, PTL DEF Spec

\* The flag counts the calls of the thread that are in the callback.
LEMMA FlagCounts ==
    ASSUME Base, NEW t \in Thread, FlagOK(t)
    PROVE  Cardinality(InClbk(t)) = IF flag[t] THEN 1 ELSE 0
<1>1. /\ stack[t] \in Seq(Frame) /\ flag[t] \in BOOLEAN
      /\ DOMAIN stack[t] = 1 .. Len(stack[t])
  BY DEF Base, TypeOK
<1>2. InClbk(t) = {i \in 1 .. Len(stack[t]) : stack[t][i].loc \in ClbkLocs}
  BY <1>1 DEF InClbk, ClbkLocs
<1>3. \A i \in 1 .. Len(stack[t]) :
          i < Len(stack[t]) => stack[t][i].loc \in ClbkLocs
  BY <1>1 DEF Base, StackOK, ClbkLocs
<1>4. stack[t] # << >> => Top(t) = stack[t][Len(stack[t])]
  BY DEF Top, Last
<1>5. CASE flag[t]
  <2>1. InClbk(t) = {1}
    <3>1. CASE Len(stack[t]) = 1 /\ Top(t).loc \in ClbkLocs
      BY <1>1, <1>2, <1>4, <3>1
    <3>2. CASE Len(stack[t]) = 2 /\ Top(t).loc \notin ClbkLocs
      BY <1>1, <1>2, <1>3, <1>4, <3>2
    <3> QED
      BY <1>5, <3>1, <3>2 DEF FlagOK
  <2> QED
    BY <1>5, <2>1, FS_Singleton
<1>6. CASE ~flag[t]
  <2>1. InClbk(t) = {}
    <3>1. CASE Len(stack[t]) = 0
      BY <1>2, <3>1
    <3>2. CASE Len(stack[t]) = 1 /\ Top(t).loc \notin ClbkLocs
      BY <1>1, <1>2, <1>4, <3>2
    <3> QED
      BY <1>6, <3>1, <3>2 DEF FlagOK
  <2> QED
    BY <1>6, <2>1, FS_EmptySet
<1> QED
  BY <1>1, <1>5, <1>6

\* The flag of a thread is up exactly while it is in the callback, which is not called
\* again for what it writes, in any number of threads and however deep they nest.
THEOREM FlagsMarkCallbacks == Spec => []FlagMarksCallback
<1>1. Base /\ OnceInv => FlagMarksCallback
  BY FlagCounts DEF OnceInv, Once, FlagMarksCallback
<1> QED
  BY <1>1, BaseHolds, OnceInvHolds, PTL

-----------------------------------------------------------------------------
(* The first initialization.                                               *)

LooksUp(t) == Active(t, "ptrs_puts") \/ Active(t, "ptrs_fwrite")

\* What the place of t says of the pointers and the results.
Placed(t) ==
    /\ LooksUp(t) => c_lib["fwrite"] = NULL
    /\ Active(t, "ptrs_puts") => c_lib["puts"] = NULL
    /\ Active(t, "ptrs_fwrite") => c_lib["puts"] # NULL
    /\ Active(t, "install_puts") \/ Active(t, "install_fwrite") =>
          \A w \in Writer : c_lib[w] # NULL
    /\ Active(t, "install_fwrite") => fnc["puts"] = "final"
    /\ Active(t, "init_done") /\ Top(t).op # "get" => snStartedInitLibrary
    /\ InitBy(t) => "failed" \notin results

\* What the pointers and the results say of each other.
Settled ==
    /\ ~snPtrsInitStarted => \A w \in Writer : c_lib[w] = NULL
    /\ (\E w \in Writer : fnc[w] = "final") => \A w \in Writer : c_lib[w] # NULL
    /\ results # {} => snStartedInitLibrary
    /\ "failed" \in results => \A w \in Writer : fnc[w] # "final"

\* The initialization failed, is over, is under way, or the program exits.
Reached ==
    snStartedInitLibrary =>
        \/ "failed" \in results
        \/ \A w \in Writer : fnc[w] = "final"
        \/ Exiting
        \/ \E t \in Thread : InitBy(t)

Decided ==
    /\ \A t \in Thread : Placed(t)
    /\ \A t, u \in Thread : LooksUp(t) /\ LooksUp(u) => t = u
    /\ Settled
    /\ Reached

DecidedInv == overlaps = {} => Decided

\* What a step of t has to do to the rest for all of this to be kept.
DecidedStep(t) ==
    /\ \A u \in Thread \ {t} : stack'[u] = stack[u]
    /\ snStartedInitLibrary => snStartedInitLibrary'
    /\ snStartedInitLibrary' => snStartedInitLibrary \/ InitBy(t)'
    /\ Exiting => Exiting'
    /\ results \subseteq results'
    /\ \A w \in Writer : c_lib[w] # NULL => c_lib'[w] # NULL
    /\ c_lib' = c_lib \/ LooksUp(t)
    /\ LooksUp(t)' => LooksUp(t) \/ \A u \in Thread : ~LooksUp(u)
    /\ \/ fnc'["puts"] = "final" \/ fnc["puts"] # "final"
       \/ \A u \in Thread \ {t} : ~Active(u, "install_fwrite")
    /\ "failed" \in results' => "failed" \in results \/ \A u \in Thread \ {t} : ~InitBy(u)
    /\ (\A w \in Writer : fnc[w] = "final") => (\A w \in Writer : fnc'[w] = "final") \/ Exiting'
    /\ InitBy(t) => \/ InitBy(t)' \/ "failed" \in results'
                    \/ \A w \in Writer : fnc'[w] = "final"
    /\ Placed(t)'
    /\ Settled'

LEMMA DecidedMoves ==
    ASSUME Decided, NEW t \in Thread, DecidedStep(t)
    PROVE  Decided'
<1>1. \A u \in Thread \ {t} :
          /\ InitBy(u)' <=> InitBy(u)
          /\ LooksUp(u)' <=> LooksUp(u)
          /\ Top(u)' = Top(u)
          /\ \A loc \in Location : Active(u, loc)' <=> Active(u, loc)
  BY DEF DecidedStep, InitBy, LooksUp, Active, Top
<1>2. ASSUME NEW u \in Thread \ {t}
      PROVE  Placed(u)'
  <2>1. {"ptrs_puts", "ptrs_fwrite", "install_puts", "install_fwrite", "init_done"}
            \subseteq Location
    BY DEF Location
  <2>2. Placed(u) /\ (LooksUp(u) => c_lib' = c_lib)
    BY DEF Decided, DecidedStep
  <2>3. Active(u, "ptrs_puts") \/ Active(u, "ptrs_fwrite") => LooksUp(u)
    BY DEF LooksUp
  <2>4. /\ LooksUp(u)' => c_lib'["fwrite"] = NULL
        /\ Active(u, "ptrs_puts")' => c_lib'["puts"] = NULL
        /\ Active(u, "ptrs_fwrite")' => c_lib'["puts"] # NULL
    BY <1>1, <2>1, <2>2, <2>3 DEF Placed
  <2>5. /\ Active(u, "install_puts")' \/ Active(u, "install_fwrite")' =>
              \A w \in Writer : c_lib'[w] # NULL
        /\ Active(u, "install_fwrite")' => fnc'["puts"] = "final"
    BY <1>1, <2>1, <2>2 DEF Placed, DecidedStep
  <2>6. Active(u, "init_done")' /\ Top(u)'.op # "get" => snStartedInitLibrary'
    BY <1>1, <2>1, <2>2 DEF Placed, DecidedStep
  <2>7. InitBy(u)' => "failed" \notin results'
    BY <1>1, <2>2 DEF Placed, DecidedStep
  <2> QED
    BY <2>4, <2>5, <2>6, <2>7 DEF Placed
<1>3. ASSUME NEW u \in Thread, NEW v \in Thread, LooksUp(u)', LooksUp(v)'
      PROVE  u = v
  BY <1>1, <1>3 DEF Decided, DecidedStep
<1>4. Reached'
  BY <1>1 DEF Decided, DecidedStep, Reached
<1> QED
  BY <1>2, <1>3, <1>4 DEF Decided, DecidedStep

\* A step that changes neither the pointers nor the results, between places of which
\* nothing is said.
Elsewhere(t) ==
    /\ ~LooksUp(t) /\ ~InitBy(t) /\ ~Active(t, "install_puts") /\ ~Active(t, "install_fwrite")
    /\ Active(t, "init_done") => Top(t).op = "get"

LEMMA DecidedPlain ==
    ASSUME Decided, NEW t \in Thread, UNCHANGED <<fnc, c_lib, started>>,
           \A u \in Thread \ {t} : stack'[u] = stack[u],
           Exiting => Exiting',
           InitBy(t) => InitBy(t)',
           Elsewhere(t)' \/ stack' = stack
    PROVE  DecidedStep(t)
<1>1. UNCHANGED <<snPtrsInitStarted, snStartedInitLibrary, results>>
  BY DEF started
<1>2. Settled'
  BY <1>1 DEF Decided, Settled
<1>3. Placed(t)'
  <2>1. CASE Elsewhere(t)'
    BY <2>1 DEF Elsewhere, Placed, LooksUp
  <2>2. CASE stack' = stack
    BY <1>1, <2>2 DEF Decided, Placed, LooksUp, Active, InitBy, Top
  <2> QED
    BY <2>1, <2>2
<1>4. LooksUp(t)' => LooksUp(t)
  BY DEF Elsewhere, LooksUp, Active, Top
<1> QED
  BY <1>1, <1>2, <1>3, <1>4 DEF DecidedStep

LEMMA DecidedBegin ==
    ASSUME StdoutAssumption, Base, Decided, NEW t \in Thread, Begin(t)
    PROVE  DecidedStep(t)
<1>1. /\ UNCHANGED <<pointers, started, flag>> /\ process = "running"
      /\ stack[t] = << >> \/ Top(t).loc = "callback"
      /\ \/ /\ UNCHANGED stack /\ process' = "crashed"
            /\ \E w \in Writer : fnc[w] = NULL
         \/ /\ UNCHANGED process
            /\ Pushed(t) /\ FrameOK(Top(t)') /\ Entry(Top(t)')
  BY BeginIs DEF Base
<1>2. ~InitBy(t) /\ UNCHANGED <<fnc, c_lib, started>>
  BY <1>1 DEF InitBy, PtrsLocs, pointers
<1>3. CASE UNCHANGED stack
  <2>1. Exiting => Exiting'
    BY <1>3 DEF Exiting, Top
  <2> QED
    BY <1>2, <1>3, <2>1, DecidedPlain
<1>4. CASE Pushed(t) /\ Entry(Top(t)')
  <2>1. Exiting => Exiting'
    <3>1. stack[t] # << >> => Top(t).op # "exit"
      BY <1>1, BaseTop DEF FrameOK, ExitLocs
    <3> QED
      BY <1>4, <3>1, ExitingStays DEF Pushed
  <2>2. \A u \in Thread \ {t} : stack'[u] = stack[u]
    BY <1>4, TopMoves
  <2>3. Elsewhere(t)'
    BY <1>4 DEF Entry, Elsewhere, LooksUp, Active, InitBy, PtrsLocs, Writer
  <2> QED
    BY <1>2, <2>1, <2>2, <2>3, DecidedPlain
<1> QED
  BY <1>1, <1>3, <1>4

LEMMA DecidedContinue ==
    ASSUME StdoutAssumption, Base, RaceInv, Once, Decided, NEW t \in Thread, Continue(t),
           overlaps' = {}, overlaps = {}
    PROVE  DecidedStep(t)
<1>1. stack[t] # << >> /\ process = "running"
  BY DEF Continue, PtrsCheck, PtrsStart, PtrsFound, InitCheck, InitStart, KeyCreate,
         KeyCreateFails, InitDone, Installs, Initial, WriteReturns, KeyTest, KeyGet,
         KeySet, CallsClbk, ClbkReturns, ExitRestores, ExitDeletes, Exits, At
<1>2. /\ Top(t) \in Frame /\ FrameOK(Top(t)) /\ TypeOK
      /\ \A to \in Location : Goto(t, to) => Goes(t, Top(t).loc, to)
      /\ Pop(t) => Popped(t)
  BY <1>1, CallStep DEF Base
<1>3. /\ Moved(t) => stack'[t] # << >> /\ \A u \in Thread \ {t} : stack'[u] = stack[u]
      /\ Popped(t) => /\ stack'[t] # << >> => Top(t)'.loc = "callback"
                      /\ \A u \in Thread \ {t} : stack'[u] = stack[u]
  BY TopMoves DEF Moved
<1>4. /\ Moved(t) /\ Top(t)'.op = Top(t).op => (Exiting => Exiting')
      /\ Popped(t) /\ Top(t).op # "exit" => (Exiting => Exiting')
      /\ Moved(t) /\ Top(t)'.op = "exit" => Exiting'
  BY ExitingStays DEF Exiting, Moved
<1>5. Popped(t) => Elsewhere(t)'
  BY <1>3 DEF Elsewhere, LooksUp, Active, InitBy, PtrsLocs
<1>6. /\ UNCHANGED <<fnc, c_lib, started>> /\ Moved(t) /\ (Exiting => Exiting') /\ ~InitBy(t)
          /\ Elsewhere(t)' => DecidedStep(t)
      /\ UNCHANGED <<fnc, c_lib, started>> /\ Popped(t) /\ (Exiting => Exiting')
          /\ ~InitBy(t) => DecidedStep(t)
  BY <1>3, <1>5, DecidedPlain
<1>7. /\ UNCHANGED <<fnc, c_lib, started, stack>> => DecidedStep(t)
      /\ Crashes => DecidedStep(t)
  <2>1. UNCHANGED stack => (Exiting => Exiting') /\ (InitBy(t) => InitBy(t)')
                        /\ \A u \in Thread \ {t} : stack'[u] = stack[u]
    BY DEF Exiting, Top, InitBy
  <2> QED
    BY <2>1, DecidedPlain DEF Crashes, pointers
<1>8. /\ InitBy(t) => /\ snStartedInitLibrary /\ ~snInited
                      /\ \A u \in Thread : InitBy(u) => u = t
                      /\ Top(t).loc # "install_fwrite" => \A w \in Writer : fnc[w] # "final"
      /\ ~snStartedInitLibrary => ~snInited /\ (\A w \in Writer : fnc[w] # "final")
                                  /\ \A u \in Thread : ~InitBy(u)
      /\ \A loc \in {"exit_puts", "exit_fwrite", "exit_key"} : Active(t, loc) => snInited
      /\ snInited => \A u \in Thread : ~InitBy(u)
  BY DEF Once, Untouched
<1>9. \A u \in Thread : LooksUp(u) => snPtrsInitStarted
  <2>1. ASSUME NEW u \in Thread, LooksUp(u)
        PROVE  LookedUp(Top(u))
    BY <2>1 DEF LooksUp, Active, LookedUp
  <2> QED
    BY <2>1, BaseTop DEF RaceInv, LooksUp, Active
<1>10. Placed(t) /\ Settled
  BY DEF Decided
<1>11. \A u \in Thread : Active(u, "install_fwrite") => InitBy(u) /\ \A w \in Writer : c_lib[w] # NULL
  BY DEF Decided, Placed, Active, InitBy
<1>12. \A u \in Thread : LooksUp(u) /\ LooksUp(t) => u = t
  BY DEF Decided
<1> HIDE DEF Base, RaceInv, Once, Decided
<1> USE DEF At, Location, Goes, Replaced, FrameOK, WriterLocs, PtrsLocs, InitLocs, ExitLocs,
            Writer, pointers, started, FinalLocs, ClbkLocs
<1>21. CASE PtrsCheck(t)
  BY <1>1, <1>2, <1>3, <1>4, <1>8, <1>9, <1>10, <1>21
  DEF PtrsCheck, AfterPtrs, DecidedStep, Placed, Settled, LooksUp, Active, InitBy
<1>22. CASE PtrsStart(t)
  BY <1>1, <1>2, <1>3, <1>4, <1>8, <1>9, <1>10, <1>11, <1>12, <1>22
  DEF PtrsStart, DecidedStep, Placed, Settled, LooksUp, Active, InitBy
<1>23. CASE PtrsFound(t)
  BY <1>1, <1>2, <1>3, <1>4, <1>8, <1>9, <1>10, <1>11, <1>12, <1>23, StdoutAssumption
  DEF PtrsFound, AfterPtrs, TypeOK, DecidedStep, Placed, Settled, LooksUp, Active, InitBy
<1>24. CASE InitCheck(t)
  BY <1>1, <1>2, <1>3, <1>4, <1>8, <1>9, <1>10, <1>11, <1>12, <1>24
  DEF InitCheck, DecidedStep, Placed, Settled, LooksUp, Active, InitBy
<1>25. CASE InitStart(t)
  BY <1>1, <1>2, <1>3, <1>4, <1>8, <1>9, <1>10, <1>11, <1>12, <1>25
  DEF InitStart, DecidedStep, Placed, Settled, LooksUp, Active, InitBy
<1>26. CASE KeyCreate(t)
  BY <1>1, <1>2, <1>3, <1>4, <1>8, <1>9, <1>10, <1>11, <1>12, <1>26
  DEF KeyCreate, DecidedStep, Placed, Settled, LooksUp, Active, InitBy
<1>27. CASE KeyCreateFails(t)
  BY <1>1, <1>2, <1>3, <1>4, <1>8, <1>9, <1>10, <1>11, <1>12, <1>27, <1>5
  DEF KeyCreateFails, Finish, DecidedStep, Placed, Settled, Elsewhere, LooksUp, Active, InitBy
<1>28. CASE InitDone(t)
  BY <1>1, <1>2, <1>3, <1>4, <1>8, <1>9, <1>10, <1>11, <1>12, <1>28, <1>5
  DEF InitDone, Finish, DecidedStep, Placed, Settled, Elsewhere, LooksUp, Active, InitBy
<1>29. CASE Installs(t)
  BY <1>1, <1>2, <1>3, <1>4, <1>8, <1>9, <1>10, <1>11, <1>12, <1>29
  DEF Installs, TypeOK, DecidedStep, Placed, Settled, LooksUp, Active, InitBy
<1>30. CASE Initial(t)
  BY <1>1, <1>2, <1>3, <1>4, <1>6, <1>7, <1>30
  DEF Initial, ToCLib, Elsewhere, LooksUp, Active, InitBy
<1>31. CASE WriteReturns(t)
  BY <1>1, <1>2, <1>3, <1>4, <1>6, <1>7, <1>31
  DEF WriteReturns, Elsewhere, LooksUp, Active, InitBy
<1>32. CASE KeyTest(t)
  BY <1>1, <1>2, <1>3, <1>4, <1>6, <1>7, <1>32
  DEF KeyTest, Elsewhere, LooksUp, Active, InitBy
<1>33. CASE KeyGet(t)
  BY <1>1, <1>2, <1>3, <1>4, <1>6, <1>7, <1>33
  DEF KeyGet, ToCLib, Elsewhere, LooksUp, Active, InitBy
<1>34. CASE KeySet(t)
  BY <1>1, <1>2, <1>3, <1>4, <1>6, <1>7, <1>34
  DEF KeySet, Elsewhere, LooksUp, Active, InitBy
<1>35. CASE CallsClbk(t)
  BY <1>1, <1>2, <1>3, <1>4, <1>6, <1>7, <1>35
  DEF CallsClbk, ToCLib, Elsewhere, LooksUp, Active, InitBy
<1>36. CASE ClbkReturns(t)
  BY <1>1, <1>2, <1>3, <1>4, <1>6, <1>7, <1>36
  DEF ClbkReturns, Elsewhere, LooksUp, Active, InitBy
<1>37. CASE ExitRestores(t)
  BY <1>1, <1>2, <1>3, <1>4, <1>8, <1>9, <1>10, <1>11, <1>12, <1>37, StdoutAssumption
  DEF ExitRestores, TypeOK, StdoutAssumption, DecidedStep, Placed, Settled, LooksUp, Active, InitBy
<1>38. CASE ExitDeletes(t)
  BY <1>1, <1>2, <1>3, <1>4, <1>6, <1>7, <1>38
  DEF ExitDeletes, Elsewhere, LooksUp, Active, InitBy
<1>39. CASE Exits(t)
  BY <1>7, <1>39 DEF Exits
<1> QED
  BY <1>21, <1>22, <1>23, <1>24, <1>25, <1>26, <1>27, <1>28, <1>29, <1>30, <1>31, <1>32,
     <1>33, <1>34, <1>35, <1>36, <1>37, <1>38, <1>39 DEF Continue

LEMMA DecidedNext ==
    ASSUME StdoutAssumption, Base, RaceInv, OnceInv, DecidedInv, [Next]_vars
    PROVE  DecidedInv'
<1>1. CASE Halted \/ UNCHANGED vars
  <2>1. UNCHANGED vars
    BY <1>1 DEF Halted
  <2>2. \A t \in Thread :
            /\ Placed(t)' <=> Placed(t)
            /\ LooksUp(t)' <=> LooksUp(t)
            /\ InitBy(t)' <=> InitBy(t)
    BY <2>1 DEF vars, Placed, LooksUp, InitBy, Active, Top
  <2>3. (Settled' <=> Settled) /\ (Exiting' <=> Exiting)
    BY <2>1 DEF vars, Settled, Exiting, Top
  <2> QED
    BY <2>1, <2>2, <2>3 DEF vars, DecidedInv, Decided, Reached
<1>2. CASE \E t \in Thread : Begin(t) \/ Continue(t)
  <2> SUFFICES ASSUME overlaps' = {}
               PROVE  Decided'
    BY DEF DecidedInv
  <2>1. PICK t \in Thread : Begin(t) \/ Continue(t)
    BY <1>2
  <2>2. overlaps = {}
    BY <2>1, OnceBegin, OnceContinue DEF OnceStep
  <2>3. Once /\ Decided
    BY <2>2 DEF OnceInv, DecidedInv
  <2>4. DecidedStep(t)
    BY <2>1, <2>2, <2>3, DecidedBegin, DecidedContinue
  <2> QED
    BY <2>3, <2>4, DecidedMoves
<1> QED
  BY <1>1, <1>2 DEF Next

LEMMA DecidedInit ==
    ASSUME Init
    PROVE  DecidedInv
<1>1. \A t \in Thread : stack[t] = << >>
  BY DEF Init
<1>2. \A t \in Thread : Placed(t) /\ ~LooksUp(t)
  BY <1>1 DEF Placed, LooksUp, Active, InitBy
<1>3. Settled /\ Reached
  BY DEF Init, Settled, Reached, Writer
<1> QED
  BY <1>2, <1>3 DEF DecidedInv, Decided

\* While no two threads began the same thing, an initialization that began has failed,
\* has installed both functions, or is still with the thread that began it.
THEOREM DecidedInvHolds == Spec => []DecidedInv
<1>1. Init => DecidedInv
  BY DecidedInit
<1>2. Base /\ RaceInv /\ OnceInv /\ DecidedInv /\ [Next]_vars => DecidedInv'
  BY DecidedNext, StdoutAssumption
<1> QED
  BY <1>1, <1>2, BaseHolds, RaceInvHolds, OnceInvHolds, PTL DEF Spec

\* The first initialization decides whether puts and fwrite are redirected, until exit.
THEOREM FirstOneDecides == Spec => []FirstInitializationDecides
<1>1. DecidedInv => FirstInitializationDecides
  <2> SUFFICES ASSUME Decided, Idle, results # {}
               PROVE  \A w \in Writer : fnc[w] = "final" <=> "failed" \notin results
    BY DEF DecidedInv, FirstInitializationDecides
  <2>1. ~Exiting /\ \A t \in Thread : ~InitBy(t)
    BY DEF Idle, Exiting, InitBy
  <2> QED
    BY <2>1 DEF Decided, Settled, Reached
<1> QED
  BY <1>1, DecidedInvHolds, PTL

=============================================================================

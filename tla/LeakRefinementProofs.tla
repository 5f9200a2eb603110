------------------------ MODULE LeakRefinementProofs ------------------------
(***************************************************************************)
(* The leak analyzer implements LeakLedger, and what follows from it: the  *)
(* properties of a leaking stack hold for every number of threads, blocks  *)
(* and stacks, every limit and every program that calls the analyzer.      *)
(***************************************************************************)
EXTENDS LeakRecovery, LeakAnalyzerProofs

\* The state of the abstract ledger.
abstract == << [s \in Stack |-> Outstanding(s)], analyzeOngoing,
               {s \in DOMAIN byStack : byStack[s].isRecovery} >>

\* Only four kinds of step touch the tables.
LEMMA OthersKeepLedger ==
    ASSUME [Next]_vars
    PROVE  \/ UNCHANGED <<ledger, analyzeOngoing>>
           \/ \E t \in Thread : \/ AllocRecords(t) \/ AddLocks(t)
                              \/ RemoveLocks(t) \/ TraceReleases(t)
<1>1. CASE UNCHANGED vars
  BY <1>1 DEF vars, ledger
<1>2. ASSUME NEW t \in Thread, Begin(t) PROVE UNCHANGED <<ledger, analyzeOngoing>>
  BY <1>2 DEF Begin, AllocEarly, AllocCall, FreeCall, TraceAllocates, ReallocMoves,
              ReallocInPlace, ReallocFails, ReallocToZero, PassedEarlyReturn, gate
<1>3. ASSUME NEW t \in Thread, Continue(t),
             ~AllocRecords(t), ~AddLocks(t), ~RemoveLocks(t), ~TraceReleases(t)
      PROVE  UNCHANGED <<ledger, analyzeOngoing>>
  <2>1. CASE TraceUnlocks(t) \/ TraceFrees(t) \/ TraceSucceeds(t) \/ TraceFails(t)
    BY <2>1 DEF TraceUnlocks, TraceFrees, TraceSucceeds, TraceFails, gate
  <2>2. CASE AllocRecovers(t) \/ AllocSpins(t) \/ AllocFails(t) \/ RecordingFails(t)
    BY <2>2 DEF AllocRecovers, AllocSpins, AllocFails, RecordingFails, gate
  <2>3. CASE \/ Unlocks(t) \/ PrintsAndExits(t) \/ RemoveUnlocks(t)
             \/ FreesBlock(t) \/ AddReturnsEarly(t) \/ AddCall(t)
    BY <2>3 DEF Unlocks, PrintsAndExits, RemoveUnlocks, FreesBlock,
                AddReturnsEarly, AddCall, gate
  <2> QED BY <1>3, <2>1, <2>2, <2>3 DEF Continue
<1>4. CASE TimePasses
  BY <1>4 DEF TimePasses, gate
<1> QED
  BY <1>1, <1>2, <1>3, <1>4 DEF Next, Halted, Spins

\* Every step is a step of the abstract ledger or changes nothing in it.
LEMMA StepRefines == IInv /\ [Next]_vars => [Ledger!Next]_abstract
<1> SUFFICES ASSUME IInv, [Next]_vars PROVE [Ledger!Next]_abstract
  OBVIOUS
<1> USE DEF IInv
<1>1. ASSUME UNCHANGED <<ledger, analyzeOngoing>> PROVE UNCHANGED abstract
  BY <1>1 DEF ledger, abstract, Outstanding
<1>2. ASSUME NEW a \in Addr, NEW s \in Stack, Ledger!Record(a, s)
      PROVE  Ledger!Next
  BY <1>2 DEF Ledger!Next
<1>3. ASSUME NEW a \in Addr, NEW s \in Stack, Ledger!Forget(a, s)
      PROVE  Ledger!Next
  BY <1>3 DEF Ledger!Next
<1>4. ASSUME NEW t \in Thread, NEW a \in Addr, NEW s \in Stack, NEW size \in Nat,
             AddAllocedItemNoLock(t, a, size, s)
      PROVE  [Ledger!Next]_abstract
  BY <1>1, <1>2, <1>4, AddKeepsLedger DEF ThreadType
<1>5. ASSUME NEW t \in Thread, AllocRecords(t) PROVE [Ledger!Next]_abstract
  <2>1. PICK a \in Addr : AddAllocedItemNoLock(t, a, SizeAll(t), frame[t].stack)
    BY <1>5 DEF AllocRecords, Available, Free
  <2>2. PICK s \in Stack, size \in Nat : s = frame[t].stack /\ size = SizeAll(t)
    BY <1>5, ConstantsAssumption
    DEF AllocRecords, At, FrameOK, ThreadType, Frame, SizeAll, ConstantsAssumption
  <2> QED BY <1>4, <2>1, <2>2
<1>6. ASSUME NEW t \in Thread, AddLocks(t) PROVE [Ledger!Next]_abstract
  <2>1. AddAllocedItemNoLock(t, frame[t].ret, SizeAll(t), frame[t].stack)
    BY <1>6 DEF AddLocks
  <2>2. PICK a \in Addr, s \in Stack, size \in Nat :
           a = frame[t].ret /\ s = frame[t].stack /\ size = SizeAll(t)
    BY <1>6, ConstantsAssumption
    DEF AddLocks, At, FrameOK, ThreadType, Frame, SizeAll, ConstantsAssumption
  <2> QED BY <1>4, <2>1, <2>2
<1>7. ASSUME NEW a, RemoveAllocedItemNoLock(a), UNCHANGED analyzeOngoing
      PROVE  [Ledger!Next]_abstract
  <2>1. \/ UNCHANGED ledger
        \/ \E s \in Stack : a \in Addr /\ Ledger!Forget(a, s)
    BY <1>7, RemoveKeepsLedger
  <2> QED BY <1>1, <1>3, <1>7, <2>1
<1>8. ASSUME NEW t \in Thread, RemoveLocks(t) PROVE [Ledger!Next]_abstract
  <2>1. RemoveAllocedItemNoLock(frame[t].ptr) /\ UNCHANGED analyzeOngoing
    BY <1>8 DEF RemoveLocks, gate
  <2>2. PICK a : a = frame[t].ptr
    OBVIOUS
  <2> QED BY <1>7, <2>1, <2>2
<1>9. ASSUME NEW t \in Thread, TraceReleases(t) PROVE [Ledger!Next]_abstract
  <2>1. RemoveAllocedItemNoLock(frame[t].scratch) /\ UNCHANGED analyzeOngoing
    BY <1>9 DEF TraceReleases, gate
  <2>2. PICK a : a = frame[t].scratch
    OBVIOUS
  <2> QED BY <1>7, <2>1, <2>2
<1> QED
  BY <1>1, <1>5, <1>6, <1>8, <1>9, OthersKeepLedger

LEMMA InitRefines == Init => Ledger!Init
<1> SUFFICES ASSUME Init PROVE Ledger!Init
  OBVIOUS
<1>1. DOMAIN byAddress = {} /\ DOMAIN byStack = {} /\ analyzeOngoing = TRUE
  BY DEF Init
<1>2. [s \in Stack |-> Outstanding(s)] = [s \in Stack |-> {}]
  BY <1>1 DEF Outstanding
<1>3. {s \in DOMAIN byStack : byStack[s].isRecovery} = {}
  BY <1>1
<1> QED
  BY <1>1, <1>2, <1>3 DEF Ledger!Init

\* The analyzer implements the abstract ledger: the critical sections make
\* every recording and every removal one step, with the final action in it.
THEOREM AnalyzerImplementsLedger == Spec => ImplementsLedger
<1>1. Init => Ledger!Init
  BY InitRefines
<1>2. IInv /\ [Next]_vars => [Ledger!Next]_abstract
  BY StepRefines
<1>3. Spec => Ledger!Init /\ [][Ledger!Next]_abstract
  BY <1>1, <1>2, InvariantHolds, PTL DEF Spec
<1> QED
  BY <1>3, PTL DEF ImplementsLedger, Ledger!Spec, abstract

-----------------------------------------------------------------------------
(* A step of the ledger in numbers.                                        *)

Others(s) == \A u \in Stack \ {s} : Outstanding(u)' = Outstanding(u)

\* A block is recorded under s ...
Grows(s) ==
    LET leak == Count(s)' > 1 /\ Count(s)' > CountMax
    IN  /\ Others(s)
        /\ Count(s)' = Count(s) + 1
        /\ analyzeOngoing' = (analyzeOngoing /\ ~(leak /\ FinalAction = "PrintStackAndExit"))
        /\ Recovering' = IF leak /\ FinalAction = "TryFixLeak"
                         THEN Recovering \cup {s} ELSE Recovering

\* ... or forgotten.
Shrinks(s) ==
    /\ Others(s)
    /\ Count(s)' = Count(s) - 1
    /\ analyzeOngoing' = analyzeOngoing
    /\ Recovering' = IF Count(s)' < 3 THEN Recovering \ {s} ELSE Recovering

\* The blocks of a stack can be counted.
LEMMA OutstandingIsFinite ==
    ASSUME IInv, NEW s \in Stack
    PROVE  /\ IsFiniteSet(Outstanding(s))
           /\ Count(s) \in Nat
           /\ Count(s) = 0 <=> Outstanding(s) = {}
<1>1. CASE s \in DOMAIN byStack
  <2>1. /\ ToSet(byStack[s].items) = Outstanding(s)
        /\ IsInjective(byStack[s].items)
        /\ byStack[s].items \in Seq(Addr)
    BY <1>1 DEF IInv, LedgerConsistent, LedgerType, StackItem
  <2>2. IsFiniteSet(Outstanding(s))
    BY <2>1, LengthIsCardinality
  <2> QED BY <2>2, FS_CardinalityType, FS_EmptySet DEF Count
<1>2. CASE s \notin DOMAIN byStack
  <2>1. Outstanding(s) = {}
    BY <1>2 DEF IInv, LedgerConsistent, Outstanding
  <2> QED BY <2>1, FS_EmptySet DEF Count
<1> QED
  BY <1>1, <1>2

\* A Record of the abstract ledger in numbers ...
LEMMA RecordGrows ==
    ASSUME IInv, NEW a \in Addr, NEW s \in Stack, Ledger!Record(a, s)
    PROVE  Grows(s)
<1>1. a \notin Outstanding(s)
  BY DEF Ledger!Record
<1>2. [u \in Stack |-> Outstanding(u)'] =
         [[u \in Stack |-> Outstanding(u)] EXCEPT ![s] = Outstanding(s) \cup {a}]
  BY DEF Ledger!Record
<1>3. Outstanding(s)' = Outstanding(s) \cup {a} /\ Others(s)
  BY <1>2 DEF Others
<1>4. Count(s)' = Count(s) + 1
  BY <1>1, <1>3, OutstandingIsFinite, FS_AddElement DEF Count
<1>5. /\ analyzeOngoing' = (analyzeOngoing /\ ~(
             /\ Outstanding(s) # {} /\ Ledger!Cardinality(Outstanding(s) \cup {a}) > CountMax
             /\ FinalAction = "PrintStackAndExit"))
      /\ Recovering' =
             IF /\ Outstanding(s) # {} /\ Ledger!Cardinality(Outstanding(s) \cup {a}) > CountMax
                /\ FinalAction = "TryFixLeak"
             THEN Recovering \cup {s} ELSE Recovering
  BY Zenon DEF Ledger!Record, Recovering
<1>6. Outstanding(s) # {} <=> Count(s)' > 1
  BY <1>4, OutstandingIsFinite
<1>7. Ledger!Cardinality(Outstanding(s) \cup {a}) = Count(s)'
  BY <1>3, SameCardinality DEF Count
<1> QED BY <1>3, <1>4, <1>5, <1>6, <1>7 DEF Grows

\* ... and a Forget.
LEMMA ForgetShrinks ==
    ASSUME IInv, NEW a \in Addr, NEW s \in Stack, Ledger!Forget(a, s)
    PROVE  Shrinks(s)
<1>1. a \in Outstanding(s)
  BY DEF Ledger!Forget
<1>2. [u \in Stack |-> Outstanding(u)'] =
         [[u \in Stack |-> Outstanding(u)] EXCEPT ![s] = Outstanding(s) \ {a}]
  BY DEF Ledger!Forget
<1>3. Outstanding(s)' = Outstanding(s) \ {a} /\ Others(s)
  BY <1>2 DEF Others
<1>4. Count(s)' = Count(s) - 1
  BY <1>1, <1>3, OutstandingIsFinite, FS_RemoveElement DEF Count
<1>5. /\ analyzeOngoing' = analyzeOngoing
      /\ Recovering' = IF Ledger!Cardinality(Outstanding(s) \ {a}) < 3
                       THEN Recovering \ {s} ELSE Recovering
  BY DEF Ledger!Forget, Recovering
<1>6. Ledger!Cardinality(Outstanding(s) \ {a}) = Count(s)'
  BY <1>3, SameCardinality DEF Count
<1> QED BY <1>3, <1>4, <1>5, <1>6 DEF Shrinks

\* What a step of the analyzer does to the numbers.
LEMMA LedgerStep ==
    ASSUME IInv, [Next]_vars
    PROVE  \/ UNCHANGED abstract
           \/ \E s \in Stack : Grows(s) \/ Shrinks(s)
<1>1. [Ledger!Next]_abstract
  BY StepRefines
<1> QED
  BY <1>1, RecordGrows, ForgetShrinks DEF Ledger!Next

\* A step that changes nothing in the abstract ledger leaves the numbers alone.
LEMMA LedgerStutters ==
    ASSUME UNCHANGED abstract
    PROVE  /\ \A s \in Stack : Outstanding(s)' = Outstanding(s)
           /\ analyzeOngoing' = analyzeOngoing
           /\ Recovering' = Recovering
<1>1. [s \in Stack |-> Outstanding(s)'] = [s \in Stack |-> Outstanding(s)]
  BY DEF abstract
<1> QED
  BY <1>1 DEF abstract, Recovering

-----------------------------------------------------------------------------
(* The limit.                                                              *)

\* With PrintStackAndExit no stack gets past the limit unnoticed: in the step
\* in which WhenHasStackItem counts the block the analysis stops.
THEOREM LimitIsNoticed ==
    ASSUME FinalAction = "PrintStackAndExit"
    PROVE  Spec => []LimitStopsAnalysis
<1> DEFINE Inv == IInv /\ \A s \in Stack :
                     Count(s) > CountMax /\ Count(s) > 1 => ~analyzeOngoing
<1>1. Init => Inv
  <2> SUFFICES ASSUME Init PROVE Inv
    OBVIOUS
  <2>1. IInv
    BY InitHolds
  <2>2. ASSUME NEW s \in Stack PROVE Count(s) = 0
    <3>1. Outstanding(s) = {}
      BY DEF Init, Outstanding
    <3> QED BY <2>1, <3>1, OutstandingIsFinite
  <2> QED BY <2>1, <2>2
<1>2. Inv /\ [Next]_vars => Inv'
  <2> SUFFICES ASSUME Inv, [Next]_vars PROVE Inv'
    OBVIOUS
  <2>1. IInv'
    BY NextKeeps
  <2>2. ASSUME NEW s \in Stack
        PROVE  (Count(s) > CountMax /\ Count(s) > 1 => ~analyzeOngoing)'
    <3>1. Count(s) \in Nat /\ CountMax \in Nat
      BY OutstandingIsFinite, ConstantsAssumption DEF ConstantsAssumption
    <3>2. CASE UNCHANGED abstract
      BY <3>2, LedgerStutters DEF Count
    <3>3. ASSUME NEW u \in Stack, Grows(u)
          PROVE  (Count(s) > CountMax /\ Count(s) > 1 => ~analyzeOngoing)'
      <4>1. CASE u = s
        BY <3>3, <4>1 DEF Grows
      <4>2. CASE u # s
        BY <3>3, <4>2 DEF Grows, Others, Count
      <4> QED BY <4>1, <4>2
    <3>4. ASSUME NEW u \in Stack, Shrinks(u)
          PROVE  (Count(s) > CountMax /\ Count(s) > 1 => ~analyzeOngoing)'
      <4>1. CASE u = s
        BY <3>1, <3>4, <4>1 DEF Shrinks
      <4>2. CASE u # s
        BY <3>4, <4>2 DEF Shrinks, Others, Count
      <4> QED BY <4>1, <4>2
    <3> QED BY <3>2, <3>3, <3>4, LedgerStep
  <2> QED BY <2>1, <2>2
<1>3. Inv => LimitStopsAnalysis
  BY DEF LimitStopsAnalysis, Count
<1> QED
  BY <1>1, <1>2, <1>3, PTL DEF Spec

\* The analysis stops only in the step in which a stack gets past the limit.
THEOREM ReportsAreTrue == Spec => NoFalseReport
<1> DEFINE A == analyzeOngoing /\ ~analyzeOngoing' =>
                   \E s \in Stack : Cardinality(Outstanding(s)') > CountMax
<1>1. IInv /\ [Next]_vars => [A]_vars
  <2> SUFFICES ASSUME IInv, [Next]_vars PROVE A
    OBVIOUS
  <2>1. CASE UNCHANGED abstract
    BY <2>1, LedgerStutters
  <2>2. ASSUME NEW s \in Stack, Grows(s) PROVE A
    <3>1. Count(s)' = Cardinality(Outstanding(s)')
      BY DEF Count
    <3> QED BY <2>2, <3>1 DEF Grows
  <2>3. ASSUME NEW s \in Stack, Shrinks(s) PROVE A
    BY <2>3 DEF Shrinks
  <2> QED BY <2>1, <2>2, <2>3, LedgerStep
<1>2. Spec => [][A]_vars
  BY <1>1, InvariantHolds, PTL DEF Spec
<1> QED
  BY <1>2 DEF NoFalseReport

-----------------------------------------------------------------------------
(* Recovery.                                                               *)

\* The larger of a limit and two.
LEMMA Bounds ==
    /\ Max({CountMax, 2}) = IF CountMax < 2 THEN 2 ELSE CountMax
    /\ CountMax \in Nat
<1>1. CountMax \in Nat
  BY ConstantsAssumption DEF ConstantsAssumption
<1>2. PICK n \in {CountMax, 2} : n = IF CountMax < 2 THEN 2 ELSE CountMax
  BY <1>1
<1>3. /\ \A y \in {CountMax, 2} : n >= y
      /\ \A x \in {CountMax, 2} : (\A y \in {CountMax, 2} : x >= y) => x = n
  BY <1>1, <1>2
<1>4. Max({CountMax, 2}) = n
  BY <1>3 DEF Max
<1> QED
  BY <1>1, <1>2, <1>4

\* With TryFixLeak, what a step does to the stacks in recovery is what the
\* history of the limits remembers of it.
LEMMA RecoveryRemembered ==
    ASSUME IInv, FinalAction = "TryFixLeak", [Next]_vars, NEW s \in Stack
    PROVE  (s \in Recovering)' <=> GoesPast(s) \/ (s \in Recovering /\ ~ComesBack(s))
<1>1. Count(s) \in Nat /\ CountMax \in Nat
  BY OutstandingIsFinite, ConstantsAssumption DEF ConstantsAssumption
<1>2. ASSUME Count(s)' = Count(s) PROVE ~GoesPast(s) /\ ~ComesBack(s)
  BY <1>1, <1>2 DEF GoesPast, ComesBack
<1>3. CASE UNCHANGED abstract
  <2>1. Count(s)' = Count(s) /\ Recovering' = Recovering
    BY <1>3, LedgerStutters DEF Count
  <2> QED BY <1>2, <2>1
<1>4. ASSUME NEW u \in Stack, Grows(u)
      PROVE  (s \in Recovering)' <=> GoesPast(s) \/ (s \in Recovering /\ ~ComesBack(s))
  <2>1. CASE u = s
    <3>1. /\ Count(s)' = Count(s) + 1
          /\ Recovering' = IF Count(s)' > 1 /\ Count(s)' > CountMax
                           THEN Recovering \cup {s} ELSE Recovering
      BY <1>4, <2>1 DEF Grows
    <3>2. ~ComesBack(s) /\ (GoesPast(s) <=> Count(s)' > 1 /\ Count(s)' > CountMax)
      BY <1>1, <3>1 DEF GoesPast, ComesBack
    <3> QED BY <3>1, <3>2
  <2>2. CASE u # s
    <3>1. Count(s)' = Count(s)
      BY <1>4, <2>2 DEF Grows, Others, Count
    <3>2. (s \in Recovering)' <=> s \in Recovering
      BY <1>4, <2>2 DEF Grows
    <3> QED BY <1>2, <3>1, <3>2
  <2> QED BY <2>1, <2>2
<1>5. ASSUME NEW u \in Stack, Shrinks(u)
      PROVE  (s \in Recovering)' <=> GoesPast(s) \/ (s \in Recovering /\ ~ComesBack(s))
  <2>1. CASE u = s
    <3>1. /\ Count(s)' = Count(s) - 1
          /\ Recovering' = IF Count(s)' < 3 THEN Recovering \ {s} ELSE Recovering
      BY <1>5, <2>1 DEF Shrinks
    <3>2. ~GoesPast(s) /\ (ComesBack(s) <=> Count(s)' < 3)
      BY <1>1, <3>1 DEF GoesPast, ComesBack
    <3> QED BY <3>1, <3>2
  <2>2. CASE u # s
    <3>1. Count(s)' = Count(s)
      BY <1>5, <2>2 DEF Shrinks, Others, Count
    <3>2. (s \in Recovering)' <=> s \in Recovering
      BY <1>5, <2>2 DEF Shrinks
    <3> QED BY <1>2, <3>1, <3>2
  <2> QED BY <2>1, <2>2
<1> QED BY <1>3, <1>4, <1>5, LedgerStep

\* With TryFixLeak a stack is in recovery from the block that takes it past the
\* limit to the release that leaves fewer than three, and at no other time,
\* whatever the limit: the flag in the stack item is the history of the counts.
THEOREM RecoveryHasHysteresis ==
    ASSUME FinalAction = "TryFixLeak"
    PROVE  HistorySpec => []RecoveryHysteresis
<1> DEFINE Inv == IInv /\ Recovering = pastLimit
<1>1. Init /\ pastLimit = {} => Inv
  <2> SUFFICES ASSUME Init, pastLimit = {} PROVE Inv
    OBVIOUS
  <2>1. Recovering = {}
    BY DEF Init, Recovering
  <2> QED BY <2>1, InitHolds
<1>2. Inv /\ [Next /\ Remembers]_<<vars, pastLimit>> => Inv'
  <2> SUFFICES ASSUME Inv, [Next /\ Remembers]_<<vars, pastLimit>> PROVE Inv'
    OBVIOUS
  <2>1. [Next]_vars
    OBVIOUS
  <2>2. IInv'
    BY <2>1, NextKeeps
  <2>3. CASE UNCHANGED <<vars, pastLimit>>
    <3>1. Recovering' = Recovering
      BY <2>3 DEF vars, Recovering
    <3> QED BY <2>2, <2>3, <3>1
  <2>4. CASE Next /\ Remembers
    <3>1. Recovering' \subseteq Stack
      BY <2>2 DEF IInv, LedgerType, Recovering
    <3>2. \A s \in Stack : (s \in Recovering)' <=>
             GoesPast(s) \/ (s \in Recovering /\ ~ComesBack(s))
      BY <2>1, RecoveryRemembered
    <3>3. \A s \in Stack : s \in pastLimit' <=>
             GoesPast(s) \/ (s \in Recovering /\ ~ComesBack(s))
      BY <2>4 DEF Remembers
    <3>4. pastLimit' \subseteq Stack
      BY <2>4 DEF Remembers
    <3> QED BY <2>2, <3>1, <3>2, <3>3, <3>4
  <2> QED BY <2>3, <2>4
<1>3. Inv => RecoveryHysteresis
  BY DEF RecoveryHysteresis, Recovering
<1> QED
  BY <1>1, <1>2, <1>3, PTL DEF HistorySpec

\* A stack that is not in recovery is not past the limit (or two, if that is more).
WithinLimit == \A s \in Stack : s \notin Recovering => Count(s) <= Max({CountMax, 2})

LEMMA LimitHolds ==
    ASSUME FinalAction = "TryFixLeak"
    PROVE  Spec => []WithinLimit
<1> DEFINE Inv == IInv /\ WithinLimit
<1>1. Init => Inv
  <2> SUFFICES ASSUME Init PROVE Inv
    OBVIOUS
  <2>1. IInv
    BY InitHolds
  <2>2. ASSUME NEW s \in Stack PROVE Count(s) = 0
    <3>1. Outstanding(s) = {}
      BY DEF Init, Outstanding
    <3> QED BY <2>1, <3>1, OutstandingIsFinite
  <2> QED BY <2>1, <2>2, Bounds DEF WithinLimit
<1>2. Inv /\ [Next]_vars => Inv'
  <2> SUFFICES ASSUME Inv, [Next]_vars, NEW s \in Stack, (s \notin Recovering)'
               PROVE  (Count(s) <= Max({CountMax, 2}))'
    BY NextKeeps DEF WithinLimit
  <2>1. ~GoesPast(s) /\ (s \in Recovering => ComesBack(s))
    BY RecoveryRemembered
  <2>2. Count(s) \in Nat
    BY OutstandingIsFinite
  <2>3. Count(s)' \in Int
    <3>1. CASE UNCHANGED abstract
      BY <2>2, <3>1, LedgerStutters DEF Count
    <3>2. ASSUME NEW u \in Stack, Grows(u) \/ Shrinks(u) PROVE Count(s)' \in Int
      <4>1. CASE u = s
        BY <2>2, <3>2, <4>1 DEF Grows, Shrinks
      <4>2. CASE u # s
        BY <2>2, <3>2, <4>2 DEF Grows, Shrinks, Others, Count
      <4> QED BY <4>1, <4>2
    <3> QED BY <3>1, <3>2, LedgerStep
  <2>4. CASE s \in Recovering
    BY <2>1, <2>3, <2>4, Bounds DEF ComesBack
  <2>5. CASE s \notin Recovering
    BY <2>1, <2>2, <2>3, <2>5, Bounds DEF GoesPast, WithinLimit
  <2> QED BY <2>4, <2>5
<1> QED
  BY <1>1, <1>2, PTL DEF Spec
=============================================================================

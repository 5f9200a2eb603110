--------------------------- MODULE LeakHeapProofs ---------------------------
(***************************************************************************)
(* Proofs about the leak analyzer and the blocks of the original           *)
(* allocator: who owns a block, which blocks the tables name, and what     *)
(* malloc and calloc hand out.                                             *)
(***************************************************************************)
EXTENDS LeakRefinementProofs

-----------------------------------------------------------------------------
(* Calls in progress.                                                      *)

\* What the locals of a call are at each place of it.
FrameRole ==
    \A t \in Thread :
        /\ pc[t] = "idle" => frame[t] = NoFrame
        /\ pc[t] \in {"rmlock", "rmunlock"} => frame[t].op \in {"free", "realloc"}
        /\ pc[t] = "mfree" => frame[t].op = "free"
        /\ frame[t].op = "free" =>
              pc[t] \in {"rmlock", "rmunlock", "mfree"} /\ frame[t].ret = NULL
        /\ frame[t].op = "alloc" /\ pc[t] \in Tracing => frame[t].ret = NULL
        /\ frame[t].op = "alloc" /\ pc[t] = "lock" /\ process = "running" =>
              frame[t].ret = NULL
        /\ frame[t].scratch # NULL => pc[t] \in Tracing

\* Every step keeps that.
LEMMA RoleKept ==
    ASSUME IInv, FrameRole, [Next]_vars
    PROVE  FrameRole'
<1> USE ConstantsAssumption
    DEF ConstantsAssumption, IInv, ThreadType, FrameOK, FrameRole, Tracing
<1>1. ASSUME NEW t \in Thread, AllocEarly(t) PROVE FrameRole'
  BY <1>1 DEF AllocEarly, At
<1>2. ASSUME NEW t \in Thread, AllocCall(t) PROVE FrameRole'
  BY <1>2 DEF AllocCall, At, PassedEarlyReturn, Goto, CallFrame
<1>3. ASSUME NEW t \in Thread, FreeCall(t) PROVE FrameRole'
  BY <1>3 DEF FreeCall, At, RemoveCall, CallFrame, Goto
<1>4. ASSUME NEW t \in Thread, TraceAllocates(t) PROVE FrameRole'
  BY <1>4 DEF TraceAllocates, At, Available, Free
<1>5. ASSUME NEW t \in Thread, ReallocMoves(t) PROVE FrameRole'
  BY <1>5 DEF ReallocMoves, ReallocArgs, At, RemoveCall, CallFrame, Goto
<1>6. ASSUME NEW t \in Thread, ReallocInPlace(t) PROVE FrameRole'
  BY <1>6 DEF ReallocInPlace, At
<1>7. ASSUME NEW t \in Thread, ReallocFails(t) PROVE FrameRole'
  BY <1>7 DEF ReallocFails, ReallocArgs, At, RemoveCall, CallFrame, Goto
<1>8. ASSUME NEW t \in Thread, ReallocToZero(t) PROVE FrameRole'
  BY <1>8 DEF ReallocToZero, ReallocArgs, At, RemoveCall, CallFrame, Goto
<1>9. ASSUME NEW t \in Thread, TraceReleases(t) \/ TraceUnlocks(t) \/ TraceFrees(t)
      PROVE  FrameRole'
  <2>1. /\ pc[t] \in Tracing /\ pc' = [pc EXCEPT ![t] = pc'[t]]
        /\ pc'[t] \in Tracing
        /\ frame' = frame \/ frame' = [frame EXCEPT ![t].scratch = NULL]
        /\ process' = process
    BY <1>9 DEF TraceReleases, TraceUnlocks, TraceFrees, At, Goto
  <2>2. /\ frame'[t].op = frame[t].op /\ frame'[t].ret = frame[t].ret
        /\ \A u \in Thread \ {t} : frame'[u] = frame[u] /\ pc'[u] = pc[u]
    BY <2>1 DEF Frame
  <2> QED BY <2>1, <2>2
<1>10. ASSUME NEW t \in Thread, TraceSucceeds(t) PROVE FrameRole'
  BY <1>10 DEF TraceSucceeds, At, Goto
<1>11. ASSUME NEW t \in Thread, TraceFails(t) PROVE FrameRole'
  BY <1>11 DEF TraceFails, At, Stop, Return, Goto, NoFrame, CallFrame
<1>12. ASSUME NEW t \in Thread, AllocRecovers(t) PROVE FrameRole'
  BY <1>12 DEF AllocRecovers, At, Goto
<1>13. ASSUME NEW t \in Thread, AllocSpins(t) PROVE FrameRole'
  BY <1>13 DEF AllocSpins, At, Goto
<1>14. ASSUME NEW t \in Thread, AllocFails(t) PROVE FrameRole'
  BY <1>14 DEF AllocFails, At, Goto
<1>15. ASSUME NEW t \in Thread, RecordingFails(t) PROVE FrameRole'
  BY <1>15 DEF RecordingFails, At, Stop
<1>16. ASSUME NEW t \in Thread, Unlocks(t) PROVE FrameRole'
  BY <1>16 DEF Unlocks, At, Return, Goto, NoFrame, CallFrame
<1>17. ASSUME NEW t \in Thread, PrintsAndExits(t) PROVE FrameRole'
  BY <1>17 DEF PrintsAndExits, At, Stop
<1>18. ASSUME NEW t \in Thread, RemoveLocks(t) PROVE FrameRole'
  BY <1>18 DEF RemoveLocks, At, Goto
<1>19. ASSUME NEW t \in Thread, RemoveUnlocks(t) PROVE FrameRole'
  BY <1>19 DEF RemoveUnlocks, At, Return, Goto, NoFrame, CallFrame
<1>20. ASSUME NEW t \in Thread, FreesBlock(t) PROVE FrameRole'
  BY <1>20 DEF FreesBlock, At, Return, Goto, Stop, NoFrame, CallFrame
<1>21. ASSUME NEW t \in Thread, AddReturnsEarly(t) PROVE FrameRole'
  BY <1>21 DEF AddReturnsEarly, At, Return, Goto, NoFrame, CallFrame
<1>22. ASSUME NEW t \in Thread, AddCall(t) PROVE FrameRole'
  BY <1>22 DEF AddCall, At, PassedEarlyReturn, Goto
<1>23. ASSUME NEW t \in Thread, AllocRecords(t) \/ AddLocks(t) PROVE FrameRole'
  <2>1. /\ At(t, "lock") /\ frame[t].op \in {"alloc", "realloc"}
        /\ \/ frame' = frame /\ frame[t].op = "realloc"
           \/ \E a \in Addr : frame' = [frame EXCEPT ![t].ret = a]
    BY <1>23 DEF AllocRecords, AddLocks, Available, Free
  <2>2. \/ process' = "aborted" /\ UNCHANGED pc
        \/ \E loc \in {"unlock", "print"} : pc' = [pc EXCEPT ![t] = loc]
    BY <1>23, <2>1, AddMoves DEF AllocRecords, AddLocks
  <2>3. process' = "running" => process = "running" /\ pc'[t] # "lock"
    BY <2>1, <2>2 DEF At
  <2>4. /\ frame'[t].op = frame[t].op /\ frame'[t].scratch = NULL
        /\ frame[t].op = "alloc" \/ frame[t].op = "realloc"
        /\ \A u \in Thread \ {t} : frame'[u] = frame[u] /\ pc'[u] = pc[u]
    BY <2>1, <2>2 DEF At, Frame
  <2>5. pc'[t] \in {"lock", "unlock", "print"} /\ process = "running"
    BY <2>1, <2>2 DEF At
  <2> QED BY <2>3, <2>4, <2>5
<1>24. CASE UNCHANGED vars \/ TimePasses
  BY <1>24 DEF vars, TimePasses
<1> QED
  BY <1>1, <1>2, <1>3, <1>4, <1>5, <1>6, <1>7, <1>8, <1>9, <1>10, <1>11,
     <1>12, <1>13, <1>14, <1>15, <1>16, <1>17, <1>18, <1>19, <1>20, <1>21,
     <1>22, <1>23, <1>24
  DEF Next, Begin, Continue, Halted, Spins

\* A call in progress is one that the program makes.
OnlyCalls == \A t \in Thread : frame[t].op \in Calls \cup {"none"}

LEMMA OnlyCallsKept ==
    ASSUME IInv, OnlyCalls, [Next]_vars
    PROVE  OnlyCalls'
<1> USE DEF IInv, ThreadType, OnlyCalls
<1>1. ASSUME NEW t \in Thread,
             \/ AllocEarly(t) \/ ReallocInPlace(t) \/ AllocSpins(t)
             \/ AllocFails(t) \/ RecordingFails(t)
      PROVE  OnlyCalls'
  BY <1>1 DEF AllocEarly, ReallocInPlace, AllocSpins, AllocFails,
      RecordingFails
<1>2. ASSUME NEW t \in Thread,
             AddLocks(t) \/ PrintsAndExits(t) \/ RemoveLocks(t) \/ AddCall(t)
      PROVE  OnlyCalls'
  BY <1>2 DEF AddLocks, PrintsAndExits, RemoveLocks, AddCall
<1>3. ASSUME NEW t \in Thread, AllocCall(t) \/ FreeCall(t)
      PROVE  OnlyCalls'
  BY <1>3 DEF AllocCall, FreeCall, RemoveCall, CallFrame
<1>4. ASSUME NEW t \in Thread, ReallocMoves(t)
      PROVE  OnlyCalls'
  BY <1>4 DEF ReallocMoves, ReallocArgs, RemoveCall, CallFrame
<1>5. ASSUME NEW t \in Thread, ReallocFails(t)
      PROVE  OnlyCalls'
  BY <1>5 DEF ReallocFails, ReallocArgs, RemoveCall, CallFrame
<1>6. ASSUME NEW t \in Thread, ReallocToZero(t)
      PROVE  OnlyCalls'
  BY <1>6 DEF ReallocToZero, ReallocArgs, RemoveCall, CallFrame
<1>7. ASSUME NEW t \in Thread, TraceAllocates(t)
      PROVE  OnlyCalls'
  BY <1>7 DEF TraceAllocates, Frame
<1>8. ASSUME NEW t \in Thread, TraceReleases(t) \/ TraceUnlocks(t) \/ TraceFrees(t)
      PROVE  OnlyCalls'
  BY <1>8, SMTT(30) DEF TraceReleases, TraceUnlocks, TraceFrees, Frame
<1>9. ASSUME NEW t \in Thread, TraceSucceeds(t)
      PROVE  OnlyCalls'
  BY <1>9 DEF TraceSucceeds, Frame
<1>10. ASSUME NEW t \in Thread, AllocRecovers(t) \/ AllocRecords(t)
      PROVE  OnlyCalls'
  BY <1>10 DEF AllocRecovers, AllocRecords, Frame
<1>11. ASSUME NEW t \in Thread, TraceFails(t) \/ Unlocks(t)
      PROVE  OnlyCalls'
  BY <1>11 DEF TraceFails, Unlocks, Return, NoFrame, CallFrame
<1>12. ASSUME NEW t \in Thread,
             RemoveUnlocks(t) \/ FreesBlock(t) \/ AddReturnsEarly(t)
      PROVE  OnlyCalls'
  BY <1>12 DEF RemoveUnlocks, FreesBlock, AddReturnsEarly, Return, NoFrame,
      CallFrame
<1>13. CASE UNCHANGED vars \/ TimePasses
  BY <1>13 DEF vars, TimePasses
<1> QED
  BY <1>1, <1>2, <1>3, <1>4, <1>5, <1>6, <1>7, <1>8, <1>9, <1>10, <1>11,
      <1>12, <1>13
  DEF Next, Begin, Continue, Halted, Spins

LEMMA OnlyCallsHolds == Spec => [](IInv /\ OnlyCalls)
<1>1. Init => OnlyCalls
  BY DEF Init, OnlyCalls, NoFrame, CallFrame
<1>2. IInv /\ OnlyCalls /\ [Next]_vars => OnlyCalls'
  BY OnlyCallsKept
<1> QED
  BY <1>1, <1>2, InvariantHolds, PTL DEF Spec

-----------------------------------------------------------------------------
(* Who owns a block.                                                       *)

\* The block that the argument of a call in progress still is: what free will
\* release and what a failed realloc will give back.
Source(t) ==
    IF \/ frame[t].op = "free"
       \/ frame[t].op = "realloc" /\ frame[t].ret = NULL /\ frame[t].want # 0
    THEN frame[t].ptr ELSE NULL

\* A call in progress owns a block: it will hand it out, release it or give it
\* back.
Owns(t, a) == frame[t].ret = a \/ Source(t) = a \/ frame[t].scratch = a

\* A block has one owner, the program or a call in progress, and an owned block
\* is live.
Ownership ==
    /\ \A a \in Addr : held[a] # 0 => held[a] = 1 /\ a \in DOMAIN heap
    /\ \A t \in Thread, a \in Addr :
          Owns(t, a) =>
              /\ a \in DOMAIN heap
              /\ held[a] = 0
              /\ \A u \in Thread : Owns(u, a) => u = t
              /\ frame[t].ret = a => frame[t].scratch # a

\* A step of t and the program moves blocks between the two, takes new ones
\* from the original allocator and returns their own to it.
LEMMA OwnershipMoves ==
    ASSUME Ownership, NEW t \in Thread,
           \A u \in Thread \ {t} : frame'[u] = frame[u],
           \A a \in Addr :
              /\ held'[a] # 0 =>
                    /\ held'[a] = 1 /\ a \in DOMAIN heap' /\ ~Owns(t, a)'
                    /\ held[a] = 1 \/ Owns(t, a) \/ a \notin DOMAIN heap
              /\ Owns(t, a)' =>
                    /\ a \in DOMAIN heap'
                    /\ held[a] = 1 \/ Owns(t, a) \/ a \notin DOMAIN heap
                    /\ frame'[t].ret = a => frame'[t].scratch # a
              /\ a \in DOMAIN heap /\ a \notin DOMAIN heap' => held[a] = 1 \/ Owns(t, a)
    PROVE  Ownership'
<1>1. ASSUME NEW u \in Thread, NEW a \in Addr, u # t
      PROVE  Owns(u, a)' <=> Owns(u, a)
  <2>1. frame'[u] = frame[u]
    BY <1>1
  <2> QED BY <2>1, Zenon DEF Owns, Source
<1>2. ASSUME NEW a \in Addr, held'[a] # 0
      PROVE  /\ held'[a] = 1 /\ a \in DOMAIN heap'
             /\ \A u \in Thread : ~Owns(u, a)'
  BY <1>1, <1>2 DEF Ownership
<1>3. ASSUME NEW a \in Addr, Owns(t, a)'
      PROVE  /\ a \in DOMAIN heap' /\ \A u \in Thread : Owns(u, a)' => u = t
             /\ frame'[t].ret = a => frame'[t].scratch # a
  BY <1>1, <1>3 DEF Ownership
<1>4. ASSUME NEW u \in Thread \ {t}, NEW a \in Addr, Owns(u, a)'
      PROVE  /\ a \in DOMAIN heap'
             /\ \A v \in Thread : Owns(v, a)' => v = u
             /\ frame'[u].ret = a => frame'[u].scratch # a
  <2>1. /\ Owns(u, a) /\ ~Owns(t, a) /\ held[a] = 0 /\ a \in DOMAIN heap
    BY <1>1, <1>4 DEF Ownership
  <2>2. a \in DOMAIN heap' /\ ~Owns(t, a)'
    BY <2>1
  <2> QED BY <1>1, <1>4, <2>1, <2>2 DEF Ownership
<1> QED
  BY <1>2, <1>3, <1>4 DEF Ownership



\* The call of t returns and the program gets what the call owned.
LEMMA ReturnOwner ==
    ASSUME IInv, Ownership, NEW t \in Thread, Return(t, frame[t]),
           frame[t].scratch = NULL,
           frame[t].ret # NULL => Source(t) = NULL,
           \A a \in DOMAIN heap : a \notin DOMAIN heap' =>
               Source(t) = a /\ frame[t].op = "free" /\ frame[t].ret = NULL,
           DOMAIN heap' \subseteq DOMAIN heap
    PROVE  Ownership'
<1>1. /\ \A u \in Thread \ {t} : frame'[u] = frame[u]
      /\ frame'[t] = NoFrame
      /\ Handed(frame[t]) \in Addr \cup {NULL}
      /\ \A a \in Addr : held'[a] = IF Handed(frame[t]) = a THEN held[a] + 1 ELSE held[a]
  BY ConstantsAssumption
  DEF Return, IInv, ThreadType, Frame, Handed, ConstantsAssumption
<1>2. \A a \in Addr : ~Owns(t, a)'
  BY <1>1, ConstantsAssumption
  DEF Owns, Source, NoFrame, CallFrame, ConstantsAssumption
<1>3. \A a \in Addr : Handed(frame[t]) = a =>
         Owns(t, a) /\ (Source(t) = a => frame[t].op # "free" \/ frame[t].ret = a)
  BY ConstantsAssumption DEF Handed, Owns, Source, ConstantsAssumption
<1>4. ASSUME NEW a \in Addr, held'[a] # 0
      PROVE  held'[a] = 1 /\ a \in DOMAIN heap' /\ (held[a] = 1 \/ Owns(t, a))
  <2>1. CASE Handed(frame[t]) = a
    BY <1>1, <1>3, <2>1, ConstantsAssumption DEF Ownership, ConstantsAssumption
  <2>2. CASE Handed(frame[t]) # a
    <3>1. held[a] = 1 /\ a \in DOMAIN heap
      BY <1>1, <1>4, <2>2 DEF Ownership
    <3>2. ~Owns(t, a)
      BY <3>1 DEF Ownership
    <3> QED BY <1>1, <2>2, <3>1, <3>2 DEF Owns
  <2> QED BY <2>1, <2>2
<1>5. \A a \in Addr : a \in DOMAIN heap /\ a \notin DOMAIN heap' => Owns(t, a)
  BY DEF Owns
<1> QED
  BY <1>1, <1>2, <1>4, <1>5, OwnershipMoves

\* Without recovery every step keeps it: AllocRecovers alone hands out a block
\* that has an owner.
LEMMA OwnershipKept ==
    ASSUME IInv, FrameRole, Ownership, hasRecoveryStack = 0, [Next]_vars
    PROVE  Ownership'
<1> USE ConstantsAssumption DEF ConstantsAssumption
<1>1. ASSUME NEW t \in Thread, AllocEarly(t) PROVE Ownership'
  BY <1>1, OwnershipMoves DEF AllocEarly, At, With, Available, Free, IInv,
      ThreadType, Frame, FrameOK, FrameRole, Ownership, Owns, Source
<1>2. ASSUME NEW t \in Thread, AllocCall(t) PROVE Ownership'
  BY <1>2, OwnershipMoves DEF AllocCall, At, PassedEarlyReturn, Goto, CallFrame,
      IInv, ThreadType, Frame, FrameOK, FrameRole, Ownership, Owns, Source
<1>3. ASSUME NEW t \in Thread, FreeCall(t) PROVE Ownership'
  BY <1>3, OwnershipMoves DEF FreeCall, At, RemoveCall, CallFrame, Goto,
      GivesUp, IInv, ThreadType, Frame, FrameOK, FrameRole, Ownership, Owns,
      Source
<1>4. ASSUME NEW t \in Thread, TraceAllocates(t) PROVE Ownership'
  BY <1>4, OwnershipMoves DEF TraceAllocates, At, With, Available, Free, IInv,
      ThreadType, Frame, FrameOK, FrameRole, Ownership, Owns, Source
<1>5. ASSUME NEW t \in Thread, ReallocMoves(t) PROVE Ownership'
  BY <1>5, OwnershipMoves DEF ReallocMoves, ReallocArgs, At, RemoveCall,
      CallFrame, Goto, With, Without, Restrict, Available, Free, GivesUp,
      IInv, ThreadType, Frame, FrameOK, FrameRole, Ownership, Owns, Source
<1>6. ASSUME NEW t \in Thread, ReallocInPlace(t) PROVE Ownership'
  BY <1>6, OwnershipMoves DEF ReallocInPlace, At, IInv, ThreadType, Frame,
      FrameOK, FrameRole, Ownership, Owns, Source
<1>7. ASSUME NEW t \in Thread, ReallocFails(t) PROVE Ownership'
  BY <1>7, OwnershipMoves DEF ReallocFails, ReallocArgs, At, RemoveCall,
      CallFrame, Goto, GivesUp, IInv, ThreadType, Frame, FrameOK, FrameRole,
      Ownership, Owns, Source
<1>8. ASSUME NEW t \in Thread, ReallocToZero(t) PROVE Ownership'
  <2>1. /\ At(t, "idle") /\ frame[t] = NoFrame
    BY <1>8 DEF ReallocToZero, ReallocArgs, At, FrameRole
  <2>2. CASE \E ptr \in Addr \cup {NULL} :
                /\ ReallocArgs(t, ptr)
                /\ heap' = Without(heap, ptr)
                /\ RemoveCall(t, CallFrame("realloc", ptr, 0, NULL))
    BY <2>1, <2>2, OwnershipMoves DEF ReallocArgs, GivesUp, RemoveCall,
      CallFrame, Without, Restrict, IInv, ThreadType, Frame, FrameOK,
      FrameRole, Ownership, Owns, Source
  <2>3. CASE \E a \in Available :
                /\ ReallocArgs(t, NULL)
                /\ heap' = With(heap, a, [size |-> 0, seen |-> FALSE])
                /\ RemoveCall(t, CallFrame("realloc", NULL, 0, a))
    BY <2>1, <2>3, OwnershipMoves DEF ReallocArgs, GivesUp, RemoveCall,
      CallFrame, With, Available, Free, IInv, ThreadType, Frame, FrameOK,
      FrameRole, Ownership, Owns, Source
  <2> QED BY <1>8, <2>2, <2>3 DEF ReallocToZero
<1>9. ASSUME NEW t \in Thread, TraceFrees(t) PROVE Ownership'
  BY <1>9, OwnershipMoves DEF TraceFrees, At, Without, Restrict, IInv,
      ThreadType, Frame, FrameOK, FrameRole, Ownership, Owns, Source
<1>a. ASSUME NEW t \in Thread, TraceReleases(t) \/ TraceUnlocks(t) PROVE Ownership'
  <2>1. UNCHANGED <<frame, heap, held>>
    BY <1>a DEF TraceReleases, TraceUnlocks
  <2> QED BY <2>1 DEF Ownership, Owns, Source
<1>10. ASSUME NEW t \in Thread, TraceSucceeds(t) PROVE Ownership'
  BY <1>10, OwnershipMoves DEF TraceSucceeds, At, Goto, IInv, ThreadType, Frame,
      FrameOK, FrameRole, Ownership, Owns, Source
<1>11. ASSUME NEW t \in Thread, TraceFails(t) PROVE Ownership'
  <2>1. CASE UNCHANGED <<frame, held>>
    BY <1>11, <2>1, OwnershipMoves DEF TraceFails, Ownership, Owns, Source
  <2>2. CASE Return(t, frame[t])
    <3>1. frame[t].scratch = NULL /\ (frame[t].ret # NULL => Source(t) = NULL)
      BY <1>11 DEF TraceFails, At, FrameRole, Source
    <3> QED BY <1>11, <2>2, <3>1, ReturnOwner DEF TraceFails
  <2> QED BY <1>11, <2>1, <2>2 DEF TraceFails
<1>12. ASSUME NEW t \in Thread, AllocRecords(t) PROVE Ownership'
  <2>1. PICK a \in Addr :
           /\ a \notin DOMAIN heap
           /\ DOMAIN heap' = DOMAIN heap \cup {a}
           /\ frame' = [frame EXCEPT ![t].ret = a]
           /\ held' = held
    BY <1>12 DEF AllocRecords, Available, Free, With
  <2>2. frame[t].op = "alloc" /\ frame[t].ret = NULL /\ frame[t].scratch = NULL
    BY <1>12 DEF AllocRecords, At, FrameRole, Tracing
  <2> QED BY <2>1, <2>2, OwnershipMoves DEF IInv, ThreadType, Frame,
      Ownership, Owns, Source
<1>13. ASSUME NEW t \in Thread,
             \/ AddLocks(t) \/ AllocSpins(t)
             \/ AllocFails(t) \/ RecordingFails(t)
      PROVE  Ownership'
  <2>1. UNCHANGED <<frame, heap, held>>
    BY <1>13 DEF AddLocks, AllocSpins, AllocFails, RecordingFails
  <2> QED BY <2>1 DEF Ownership, Owns, Source
<1>14. ASSUME NEW t \in Thread,
             PrintsAndExits(t) \/ RemoveLocks(t) \/ AddCall(t)
      PROVE  Ownership'
  <2>1. UNCHANGED <<frame, heap, held>>
    BY <1>14 DEF PrintsAndExits, RemoveLocks, AddCall
  <2> QED BY <2>1 DEF Ownership, Owns, Source
<1>15. ASSUME NEW t \in Thread, Unlocks(t) PROVE Ownership'
  <2>1. frame[t].scratch = NULL /\ (frame[t].ret # NULL => Source(t) = NULL)
    BY <1>15 DEF FrameRole, Tracing, Unlocks, At, Source
  <2> QED
    BY <1>15, <2>1, ReturnOwner DEF Unlocks
<1>16. ASSUME NEW t \in Thread, RemoveUnlocks(t) PROVE Ownership'
  <2>1. frame[t].scratch = NULL /\ (frame[t].ret # NULL => Source(t) = NULL)
    BY <1>16 DEF FrameRole, Tracing, RemoveUnlocks, At, Source
  <2>2. CASE UNCHANGED <<frame, held>>
    BY <1>16, <2>2, OwnershipMoves DEF RemoveUnlocks, Ownership, Owns, Source
  <2>3. CASE Return(t, frame[t])
    BY <1>16, <2>1, <2>3, ReturnOwner DEF RemoveUnlocks
  <2> QED
    BY <1>16, <2>2, <2>3 DEF RemoveUnlocks
<1>17. ASSUME NEW t \in Thread, FreesBlock(t) PROVE Ownership'
  <2>1. /\ frame[t].scratch = NULL /\ frame[t].op = "free" /\ frame[t].ret = NULL
        /\ Source(t) = frame[t].ptr
    BY <1>17 DEF FrameRole, Tracing, FreesBlock, At, Source
  <2>2. /\ \A a \in DOMAIN heap : a \notin DOMAIN heap' => frame[t].ptr = a
        /\ DOMAIN heap' \subseteq DOMAIN heap
    BY <1>17 DEF FreesBlock, Without, Restrict
  <2> QED
    BY <1>17, <2>1, <2>2, ReturnOwner DEF FreesBlock
<1>18. ASSUME NEW t \in Thread, AddReturnsEarly(t) PROVE Ownership'
  <2>1. frame[t].scratch = NULL /\ frame[t].op = "realloc"
        /\ (frame[t].ret # NULL => Source(t) = NULL)
    BY <1>18 DEF FrameRole, Tracing, AddReturnsEarly, At, Source, IInv, FrameOK
  <2>2. DOMAIN heap' = DOMAIN heap
    BY <1>18 DEF AddReturnsEarly, IInv, ThreadType
  <2> QED
    BY <1>18, <2>1, <2>2, ReturnOwner DEF AddReturnsEarly
<1>19. ASSUME NEW t \in Thread, AllocRecovers(t) PROVE Ownership'
  BY <1>19 DEF AllocRecovers, InRecovery
<1>20. CASE UNCHANGED vars \/ TimePasses
  <2>1. UNCHANGED <<frame, heap, held>>
    BY <1>20 DEF vars, TimePasses
  <2> QED BY <2>1 DEF Ownership, Owns, Source
<1> QED
  BY <1>1, <1>2, <1>3, <1>4, <1>5, <1>6, <1>7, <1>8, <1>9, <1>10, <1>11,
      <1>12, <1>13, <1>14, <1>15, <1>16, <1>17, <1>18, <1>19, <1>20, <1>a
  DEF Next, Begin, Continue, Halted, Spins

-----------------------------------------------------------------------------
(* Which blocks the tables name.                                           *)

\* What recording and removing do to hashByAddress.
LEMMA AddDomain ==
    ASSUME NEW t \in Thread, NEW a, NEW size, NEW s,
           AddAllocedItemNoLock(t, a, size, s)
    PROVE  \/ /\ a \in DOMAIN byAddress
              /\ byAddress' = byAddress
              /\ process' = "aborted" /\ pc' = pc
           \/ /\ a \notin DOMAIN byAddress
              /\ DOMAIN byAddress' = DOMAIN byAddress \cup {a}
              /\ byAddress'[a] = [stack |-> s, size |-> size]
              /\ \A b \in DOMAIN byAddress : byAddress'[b] = byAddress[b]
              /\ process' = process
<1>1. CASE a \in DOMAIN byAddress
  BY <1>1 DEF AddAllocedItemNoLock, Stop, ledger
<1>2. CASE a \notin DOMAIN byAddress
  BY <1>2 DEF AddAllocedItemNoLock, Record, With
<1> QED
  BY <1>1, <1>2

LEMMA RemoveDomain ==
    ASSUME NEW a, RemoveAllocedItemNoLock(a)
    PROVE  /\ DOMAIN byAddress' = DOMAIN byAddress \ {a}
           /\ \A b \in DOMAIN byAddress \ {a} : byAddress'[b] = byAddress[b]
<1>1. CASE a \notin DOMAIN byAddress
  BY <1>1 DEF RemoveAllocedItemNoLock, ledger
<1>2. CASE a \in DOMAIN byAddress
  <2>1. byAddress' = Without(byAddress, a)
    BY <1>2 DEF RemoveAllocedItemNoLock
  <2> QED BY <2>1 DEF Without, Restrict
<1> QED
  BY <1>1, <1>2

\* free has erased the record before it releases the block, the stack capture's
\* free of its own block included.
ErasedBeforeFree ==
    \A t \in Thread :
        /\ frame[t].op = "free" /\ pc[t] \in {"rmunlock", "mfree"} =>
              frame[t].ptr \notin DOMAIN byAddress
        /\ pc[t] \in {"trunlock", "tfree"} => frame[t].scratch \notin DOMAIN byAddress

\* Where a realloc is that has yet to record its block.
Unrecorded == Tracing \cup {"rmunlock", "addcheck", "lock"}

\* The block that realloc got is not recorded yet, or another realloc has yet
\* to erase the record of the block that was there before.
NewBlockIsUnrecorded ==
    \A t \in Thread :
        /\ frame[t].op = "realloc"
        /\ pc[t] \in Unrecorded \cup {"rmlock"}
        /\ frame[t].ret \in DOMAIN byAddress
        => \E u \in Thread : ReallocWindow(u, frame[t].ret)

Records ==
    /\ RecordedBlocksAreLive
    /\ ErasedBeforeFree
    /\ NewBlockIsUnrecorded
    /\ AssertFailsOnlyInReallocWindow

\* A step of t that does not touch the tables keeps all that if it takes no
\* recorded block from the original allocator unless a window opens for it,
\* closes no window, and enters no place of which the above says more.
LEMMA RecordsStay ==
    ASSUME Records, NEW t \in Thread, UNCHANGED byAddress, process = "running",
           process' # "aborted",
           \A u \in Thread \ {t} : frame'[u] = frame[u] /\ pc'[u] = pc[u],
           pc[t] # "rmlock",
           \A a \in DOMAIN byAddress :
               a \in DOMAIN heap /\ a \notin DOMAIN heap' => ReallocWindow(t, a)',
           frame'[t].op = "free" /\ pc'[t] \in {"rmunlock", "mfree"} =>
               /\ frame[t].op = "free" /\ pc[t] \in {"rmunlock", "mfree"}
               /\ frame'[t].ptr = frame[t].ptr,
           pc'[t] \in {"trunlock", "tfree"} =>
               /\ pc[t] \in {"trunlock", "tfree"}
               /\ frame'[t].scratch = frame[t].scratch,
           /\ frame'[t].op = "realloc"
           /\ pc'[t] \in Unrecorded \cup {"rmlock"}
           => \/ frame'[t].ret \notin DOMAIN heap
              \/ /\ frame[t].op = "realloc"
                 /\ pc[t] \in Unrecorded
                 /\ frame'[t].ret = frame[t].ret
    PROVE  Records'
<1>1. ASSUME NEW u \in Thread, NEW a, ReallocWindow(u, a)
      PROVE  ReallocWindow(u, a)'
  <2>1. u # t
    BY <1>1 DEF ReallocWindow
  <2>2. frame'[u] = frame[u] /\ pc'[u] = pc[u]
    BY <2>1
  <2> QED BY <1>1, <2>2 DEF ReallocWindow
<1>2. RecordedBlocksAreLive'
  BY <1>1 DEF Records, RecordedBlocksAreLive
<1>3. ErasedBeforeFree'
  BY DEF Records, ErasedBeforeFree
<1>4. NewBlockIsUnrecorded'
  BY <1>1 DEF Records, NewBlockIsUnrecorded, RecordedBlocksAreLive
<1>5. AssertFailsOnlyInReallocWindow'
  BY DEF AssertFailsOnlyInReallocWindow
<1> QED
  BY <1>2, <1>3, <1>4, <1>5 DEF Records

\* A step that records the live block a, which t alone owns, or fails the
\* assertion over it, keeps all that.
LEMMA RecordsAdd ==
    ASSUME IInv, Ownership, Records, NEW t \in Thread, NEW a \in Addr,
           NEW size, NEW s,
           At(t, "lock"), AddAllocedItemNoLock(t, a, size, s),
           a \in DOMAIN heap', DOMAIN heap \subseteq DOMAIN heap',
           \A u \in Thread \ {t} : frame'[u] = frame[u] /\ ~Owns(u, a),
           frame'[t].op = frame[t].op, frame'[t].ret = a,
           frame[t].op # "free",
           a \in DOMAIN byAddress =>
               \E u \in Thread : ReallocWindow(u, a)
    PROVE  Records'
<1>1. /\ \A u \in Thread \ {t} : pc'[u] = pc[u]
      /\ pc[t] = "lock" /\ process = "running"
      /\ process' = "aborted" \/ pc'[t] \in {"unlock", "print"}
      /\ process' = "aborted" => pc' = pc
  BY AddMoves DEF At, IInv, ThreadType
<1>2. ASSUME NEW u \in Thread, NEW b, ReallocWindow(u, b)
      PROVE  ReallocWindow(u, b)'
  <2>1. u # t
    BY <1>1, <1>2 DEF ReallocWindow
  <2>2. frame'[u] = frame[u] /\ pc'[u] = pc[u]
    BY <1>1, <2>1
  <2> QED BY <1>2, <2>2 DEF ReallocWindow
<1>3. /\ DOMAIN byAddress' \subseteq DOMAIN byAddress \cup {a}
      /\ DOMAIN byAddress \subseteq DOMAIN byAddress'
      /\ process' = "aborted" => a \in DOMAIN byAddress
  BY <1>1, AddDomain
<1>4. RecordedBlocksAreLive'
  BY <1>2, <1>3 DEF Records, RecordedBlocksAreLive
<1>5. ErasedBeforeFree'
  <2>1. ASSUME NEW u \in Thread, frame'[u].op = "free",
               pc'[u] \in {"rmunlock", "mfree"}
        PROVE  frame'[u].ptr \notin DOMAIN byAddress'
    <3>1. u # t /\ frame'[u] = frame[u] /\ pc'[u] = pc[u]
      BY <1>1, <2>1
    <3>2. frame[u].ptr # a
      BY <2>1, <3>1 DEF Owns, Source
    <3> QED BY <1>3, <2>1, <3>1, <3>2 DEF Records, ErasedBeforeFree
  <2>2. ASSUME NEW u \in Thread, pc'[u] \in {"trunlock", "tfree"}
        PROVE  frame'[u].scratch \notin DOMAIN byAddress'
    <3>1. u # t /\ frame'[u] = frame[u] /\ pc'[u] = pc[u]
      BY <1>1, <2>2
    <3>2. frame[u].scratch # a
      BY <3>1 DEF Owns
    <3> QED BY <1>3, <2>2, <3>1, <3>2 DEF Records, ErasedBeforeFree
  <2> QED BY <2>1, <2>2 DEF ErasedBeforeFree
<1>6. NewBlockIsUnrecorded'
  <2> SUFFICES ASSUME NEW u \in Thread, frame'[u].op = "realloc",
                      pc'[u] \in Unrecorded \cup {"rmlock"},
                      frame'[u].ret \in DOMAIN byAddress'
               PROVE  \E v \in Thread : ReallocWindow(v, frame[u].ret)'
    BY DEF NewBlockIsUnrecorded
  <2>1. CASE u = t
    <3>1. a \in DOMAIN byAddress
      BY <1>1, <1>3, <2>1 DEF Unrecorded, Tracing
    <3> QED BY <1>2, <2>1, <3>1
  <2>2. CASE u # t
    <3>1. frame'[u] = frame[u] /\ pc'[u] = pc[u] /\ frame[u].ret # a
      BY <1>1, <2>2 DEF Owns
    <3> QED BY <1>2, <1>3, <3>1 DEF Records, NewBlockIsUnrecorded
  <2> QED BY <2>1, <2>2
<1>7. AssertFailsOnlyInReallocWindow'
  <2> SUFFICES ASSUME process' = "aborted"
               PROVE  \E u \in Thread : ReallocWindow(u, a)' /\ a \in DOMAIN byAddress'
    BY DEF AssertFailsOnlyInReallocWindow
  <2> QED BY <1>2, <1>3
<1> QED
  BY <1>4, <1>5, <1>6, <1>7 DEF Records

\* A step that erases the record of a block, live or not, keeps all that: the
\* window that may be closed was for this block.
LEMMA RecordsErase ==
    ASSUME Records, NEW t \in Thread, NEW a, RemoveAllocedItemNoLock(a),
           process = "running", process' = process,
           \A u \in Thread \ {t} : frame'[u] = frame[u] /\ pc'[u] = pc[u],
           DOMAIN heap \ {a} \subseteq DOMAIN heap',
           /\ frame'[t].op = frame[t].op
           /\ frame'[t].ptr = frame[t].ptr
           /\ frame'[t].ret = frame[t].ret,
           /\ frame'[t].scratch = frame[t].scratch,
           \/ pc[t] = "rmlock" /\ pc'[t] = "rmunlock" /\ frame[t].ptr = a
           \/ pc[t] = "trace" /\ pc'[t] = "trunlock" /\ frame[t].scratch = a
    PROVE  Records'
<1>1. DOMAIN byAddress' = DOMAIN byAddress \ {a}
  BY RemoveDomain
<1>2. ASSUME NEW u \in Thread, NEW b, b # a, ReallocWindow(u, b)
      PROVE  ReallocWindow(u, b)'
  <2>1. u # t
    BY <1>2 DEF ReallocWindow
  <2>2. frame'[u] = frame[u] /\ pc'[u] = pc[u]
    BY <2>1
  <2> QED BY <1>2, <2>2 DEF ReallocWindow
<1>3. RecordedBlocksAreLive'
  BY <1>1, <1>2 DEF Records, RecordedBlocksAreLive
<1>4. ErasedBeforeFree'
  BY <1>1 DEF Records, ErasedBeforeFree
<1>5. NewBlockIsUnrecorded'
  <2> SUFFICES ASSUME NEW u \in Thread, frame'[u].op = "realloc",
                      pc'[u] \in Unrecorded \cup {"rmlock"},
                      frame'[u].ret \in DOMAIN byAddress'
               PROVE  \E v \in Thread : ReallocWindow(v, frame[u].ret)'
    BY DEF NewBlockIsUnrecorded
  <2>1. /\ frame[u].op = "realloc" /\ frame'[u].ret = frame[u].ret
        /\ pc[u] \in Unrecorded \cup {"rmlock"}
    BY DEF Unrecorded, Tracing
  <2>2. frame[u].ret \in DOMAIN byAddress /\ frame[u].ret # a
    BY <1>1, <2>1
  <2> QED BY <1>2, <2>1, <2>2 DEF Records, NewBlockIsUnrecorded
<1>6. AssertFailsOnlyInReallocWindow'
  BY DEF AssertFailsOnlyInReallocWindow
<1> QED
  BY <1>3, <1>4, <1>5, <1>6 DEF Records

\* Every step keeps it.
LEMMA RecordsKept ==
    ASSUME IInv, FrameRole, Ownership, Records, hasRecoveryStack = 0, [Next]_vars
    PROVE  Records'
<1> USE ConstantsAssumption DEF ConstantsAssumption, Unrecorded, Tracing
<1>1. ASSUME NEW t \in Thread, AllocEarly(t) PROVE Records'
  BY <1>1, RecordsStay DEF AllocEarly, At, With, Available, Free, ledger, IInv,
      ThreadType, Frame, FrameRole
<1>2. ASSUME NEW t \in Thread, AllocCall(t) PROVE Records'
  BY <1>2, RecordsStay DEF AllocCall, At, PassedEarlyReturn, Goto, CallFrame,
      ledger, IInv, ThreadType, Frame, FrameRole
<1>3. ASSUME NEW t \in Thread, FreeCall(t) PROVE Records'
  BY <1>3, RecordsStay DEF FreeCall, At, RemoveCall, CallFrame, Goto, ledger,
      IInv, ThreadType, Frame, FrameRole
<1>4. ASSUME NEW t \in Thread, TraceAllocates(t) PROVE Records'
  BY <1>4, RecordsStay DEF TraceAllocates, At, Available, Free, With, Available,
      Free, ledger, IInv, ThreadType, Frame, FrameRole
<1>5. ASSUME NEW t \in Thread, ReallocMoves(t) PROVE Records'
  BY <1>5, RecordsStay DEF ReallocMoves, ReallocArgs, At, RemoveCall, CallFrame,
      Goto, With, Without, Restrict, Available, Free, ReallocWindow, ledger,
      IInv, ThreadType, Frame, FrameRole
<1>6. ASSUME NEW t \in Thread, ReallocInPlace(t) PROVE Records'
  BY <1>6, RecordsStay DEF ReallocInPlace, At, ledger, IInv, ThreadType, Frame,
      FrameRole
<1>7. ASSUME NEW t \in Thread, ReallocFails(t) PROVE Records'
  BY <1>7, RecordsStay DEF ReallocFails, ReallocArgs, At, RemoveCall, CallFrame,
      Goto, ledger, IInv, ThreadType, Frame, FrameRole
<1>8. ASSUME NEW t \in Thread, ReallocToZero(t) PROVE Records'
  <2>1. At(t, "idle") /\ UNCHANGED <<byAddress, process>>
    BY <1>8 DEF ReallocToZero, ReallocArgs, ledger
  <2>2. CASE \E ptr \in Addr \cup {NULL} :
                /\ heap' = Without(heap, ptr)
                /\ RemoveCall(t, CallFrame("realloc", ptr, 0, NULL))
    BY <2>1, <2>2, RecordsStay DEF At, RemoveCall, CallFrame, Goto, Without,
      Restrict, ReallocWindow, IInv, ThreadType, Frame
  <2>3. CASE \E a \in Available :
                /\ heap' = With(heap, a, [size |-> 0, seen |-> FALSE])
                /\ RemoveCall(t, CallFrame("realloc", NULL, 0, a))
    BY <2>1, <2>3, RecordsStay DEF At, RemoveCall, CallFrame, Goto, With,
      Available, Free, IInv, ThreadType, Frame
  <2> QED BY <1>8, <2>2, <2>3 DEF ReallocToZero
<1>9. ASSUME NEW t \in Thread, TraceReleases(t) PROVE Records'
  BY <1>9, RecordsErase DEF TraceReleases, At, Goto, IInv, ThreadType, Frame
<1>a. ASSUME NEW t \in Thread, TraceUnlocks(t) PROVE Records'
  BY <1>a, RecordsStay DEF TraceUnlocks, At, Goto, ledger, IInv, ThreadType,
      Frame, FrameRole
<1>b. ASSUME NEW t \in Thread, TraceFrees(t) PROVE Records'
  BY <1>b, RecordsStay DEF TraceFrees, At, Goto, Without, Restrict, Records,
      ErasedBeforeFree, ledger, IInv, ThreadType, Frame, FrameRole
<1>10. ASSUME NEW t \in Thread, TraceSucceeds(t) PROVE Records'
  BY <1>10, RecordsStay DEF TraceSucceeds, At, Goto, ledger, IInv, ThreadType,
      Frame, FrameRole
<1>11. ASSUME NEW t \in Thread, TraceFails(t) PROVE Records'
  BY <1>11, RecordsStay DEF TraceFails, At, Stop, Return, Goto, NoFrame,
      CallFrame, ledger, IInv, ThreadType, Frame, FrameRole
<1>12. ASSUME NEW t \in Thread, AllocRecords(t) PROVE Records'
  <2>1. PICK a \in Addr :
           /\ a \notin DOMAIN heap /\ DOMAIN heap' = DOMAIN heap \cup {a}
           /\ frame' = [frame EXCEPT ![t].ret = a]
           /\ AddAllocedItemNoLock(t, a, SizeAll(t), frame[t].stack)
    BY <1>12 DEF AllocRecords, Available, Free, With
  <2>2. At(t, "lock") /\ frame[t].op = "alloc"
    BY <1>12 DEF AllocRecords
  <2>3. \A u \in Thread : ~Owns(u, a)
    BY <2>1 DEF Ownership
  <2>4. a \in DOMAIN byAddress => \E u \in Thread : ReallocWindow(u, a)
    BY <2>1 DEF Records, RecordedBlocksAreLive
  <2>5. /\ \A u \in Thread \ {t} : frame'[u] = frame[u]
        /\ frame'[t].op = "alloc" /\ frame'[t].ret = a
    BY <2>1, <2>2 DEF IInv, ThreadType, Frame
  <2> QED BY <2>1, <2>2, <2>3, <2>4, <2>5, RecordsAdd
<1>13. ASSUME NEW t \in Thread, AddLocks(t) PROVE Records'
  <2>1. PICK a \in Addr : a = frame[t].ret
    BY <1>13 DEF AddLocks, At, IInv, FrameOK
  <2>2. /\ At(t, "lock") /\ frame[t].op = "realloc" /\ UNCHANGED <<frame, heap>>
        /\ AddAllocedItemNoLock(t, a, SizeAll(t), frame[t].stack)
    BY <1>13, <2>1 DEF AddLocks
  <2>3. a \in DOMAIN heap /\ \A u \in Thread \ {t} : ~Owns(u, a)
    BY <2>1 DEF Ownership, Owns
  <2>4. a \in DOMAIN byAddress => \E u \in Thread : ReallocWindow(u, a)
    BY <2>1, <2>2 DEF Records, NewBlockIsUnrecorded, At
  <2> QED BY <2>1, <2>2, <2>3, <2>4, RecordsAdd
<1>14. ASSUME NEW t \in Thread, AllocSpins(t) PROVE Records'
  BY <1>14, RecordsStay
  DEF AllocSpins, At, Goto, Lock, ledger, IInv, ThreadType,
      Frame, FrameRole
<1>15. ASSUME NEW t \in Thread, AllocFails(t) PROVE Records'
  BY <1>15, RecordsStay
  DEF AllocFails, At, Goto, Lock, ledger, IInv, ThreadType,
      Frame, FrameRole
<1>16. ASSUME NEW t \in Thread, RecordingFails(t) PROVE Records'
  BY <1>16, RecordsStay DEF RecordingFails, At, Stop, ledger, IInv, ThreadType,
      Frame, FrameRole
<1>17. ASSUME NEW t \in Thread, Unlocks(t) PROVE Records'
  BY <1>17, RecordsStay DEF Unlocks, At, Return, Goto, NoFrame, CallFrame,
      ledger, IInv, ThreadType, Frame, FrameRole
<1>18. ASSUME NEW t \in Thread, PrintsAndExits(t) PROVE Records'
  BY <1>18, RecordsStay DEF PrintsAndExits, At, Stop, ledger, IInv, ThreadType,
      Frame, FrameRole
<1>19. ASSUME NEW t \in Thread, RemoveLocks(t) PROVE Records'
  BY <1>19, RecordsErase DEF RemoveLocks, At, Goto, IInv, ThreadType
<1>20. ASSUME NEW t \in Thread, RemoveUnlocks(t) PROVE Records'
  BY <1>20, RecordsStay DEF RemoveUnlocks, At, Return, Goto, NoFrame, CallFrame,
      ledger, IInv, ThreadType, Frame, FrameRole
<1>21. ASSUME NEW t \in Thread, FreesBlock(t) PROVE Records'
  BY <1>21, RecordsStay DEF FreesBlock, At, Return, Goto, Stop, NoFrame,
      CallFrame, Without, Restrict, Records, ErasedBeforeFree, ledger, IInv,
      ThreadType, Frame, FrameRole
<1>22. ASSUME NEW t \in Thread, AddReturnsEarly(t) PROVE Records'
  BY <1>22, RecordsStay DEF AddReturnsEarly, At, Return, Goto, NoFrame,
      CallFrame, ledger, IInv, ThreadType, Frame, FrameRole
<1>23. ASSUME NEW t \in Thread, AddCall(t) PROVE Records'
  BY <1>23, RecordsStay DEF AddCall, At, PassedEarlyReturn, Goto, ledger, IInv,
      ThreadType, Frame, FrameRole
<1>24. ASSUME NEW t \in Thread, AllocRecovers(t) PROVE Records'
  BY <1>24 DEF AllocRecovers, InRecovery
<1>25. CASE UNCHANGED vars \/ TimePasses
  <2>1. UNCHANGED <<byAddress, frame, pc, heap, process>>
    BY <1>25 DEF vars, TimePasses, ledger
  <2> QED
    BY <2>1
    DEF Records, RecordedBlocksAreLive, ErasedBeforeFree, NewBlockIsUnrecorded,
        AssertFailsOnlyInReallocWindow, ReallocWindow
<1> QED
  BY <1>1, <1>2, <1>3, <1>4, <1>5, <1>6, <1>7, <1>8, <1>9, <1>10, <1>11,
      <1>12, <1>13, <1>14, <1>15, <1>16, <1>17, <1>18, <1>19, <1>20, <1>21,
      <1>22, <1>23, <1>24, <1>25, <1>a, <1>b
  DEF Next, Begin, Continue, Halted, Spins

-----------------------------------------------------------------------------
(* PrintStackAndExit: blocks have one owner and records name live blocks.  *)

\* No stack enters recovery, so that a recorded block is never handed out a second
\* time, ...
Owners ==
    /\ IInv
    /\ FrameRole
    /\ Recovering = {}
    /\ Ownership

\* ... and the inductive invariant.
HInv == Owners /\ Records

LEMMA HInvInit == Init => HInv
<1> SUFFICES ASSUME Init PROVE HInv
  OBVIOUS
<1>1. /\ DOMAIN byAddress = {} /\ DOMAIN heap = {} /\ process = "running"
      /\ DOMAIN byStack = {}
      /\ \A t \in Thread : frame[t] = NoFrame /\ pc[t] = "idle"
      /\ \A a \in Addr : held[a] = 0
  BY DEF Init
<1>2. FrameRole
  BY <1>1 DEF FrameRole, NoFrame, CallFrame
<1>3. \A t \in Thread, a \in Addr : ~Owns(t, a)
  BY <1>1, ConstantsAssumption
  DEF Owns, Source, NoFrame, CallFrame, ConstantsAssumption
<1>4. Ownership
  BY <1>1, <1>3 DEF Ownership
<1>5. Records
  BY <1>1
  DEF Records, RecordedBlocksAreLive, ErasedBeforeFree, NewBlockIsUnrecorded,
      AssertFailsOnlyInReallocWindow
<1>6. Recovering = {}
  BY <1>1 DEF Recovering
<1> QED BY <1>2, <1>4, <1>5, <1>6, InitHolds DEF HInv, Owners

LEMMA OwnersKept ==
    ASSUME FinalAction = "PrintStackAndExit", Owners, [Next]_vars
    PROVE  Owners' /\ hasRecoveryStack = 0
<1>1. IInv /\ FrameRole /\ Recovering = {} /\ Ownership
  BY DEF Owners
<1>2. hasRecoveryStack = 0
  BY <1>1, FS_EmptySet DEF IInv, LedgerConsistent, Recovering
<1>3. Recovering' = {}
  <2>1. CASE UNCHANGED abstract
    BY <1>1, <2>1, LedgerStutters
  <2>2. ASSUME NEW s \in Stack, Grows(s) PROVE Recovering' = {}
    BY <1>1, <2>2 DEF Grows
  <2>3. ASSUME NEW s \in Stack, Shrinks(s) PROVE Recovering' = {}
    BY <1>1, <2>3 DEF Shrinks
  <2> QED BY <1>1, <2>1, <2>2, <2>3, LedgerStep
<1>4. IInv' /\ FrameRole' /\ Ownership'
  BY <1>1, <1>2, NextKeeps, RoleKept, OwnershipKept
<1> QED BY <1>2, <1>3, <1>4 DEF Owners

LEMMA HInvKept ==
    ASSUME FinalAction = "PrintStackAndExit", HInv, [Next]_vars
    PROVE  HInv'
<1>1. Owners' /\ hasRecoveryStack = 0
  BY OwnersKept DEF HInv
<1>2. Records'
  BY <1>1, RecordsKept DEF HInv, Owners
<1> QED BY <1>1, <1>2 DEF HInv

LEMMA HInvHolds ==
    ASSUME FinalAction = "PrintStackAndExit"
    PROVE  Spec => []HInv
<1>1. Init => HInv
  BY HInvInit
<1>2. HInv /\ [Next]_vars => HInv'
  BY HInvKept
<1> QED
  BY <1>1, <1>2, PTL DEF Spec

\* The tables name only blocks that are live, but for the window in which
\* realloc has released the old block and not yet erased its record.
THEOREM RecordsNameLiveBlocks ==
    ASSUME FinalAction = "PrintStackAndExit"
    PROVE  Spec => []RecordedBlocksAreLive
<1>1. HInv => RecordedBlocksAreLive
  BY DEF HInv, Records
<1> QED
  BY <1>1, HInvHolds, PTL

\* assert(hashIterAdr==NULL) can fail in no other situation.
THEOREM AssertFailsInWindow ==
    ASSUME FinalAction = "PrintStackAndExit"
    PROVE  Spec => []AssertFailsOnlyInReallocWindow
<1>1. HInv => AssertFailsOnlyInReallocWindow
  BY DEF HInv, Records
<1> QED
  BY <1>1, HInvHolds, PTL

\* Every pointer that the program holds, or is about to get, is the only one to
\* its block, and the block is live.
THEOREM BlocksHaveOneOwner ==
    ASSUME FinalAction = "PrintStackAndExit"
    PROVE  Spec => []OneOwner
<1>1. ASSUME HInv, NEW a \in Addr
      PROVE  Pointers(a) <= 1 /\ (Pointers(a) = 1 => a \in DOMAIN heap)
  <2> DEFINE G == {t \in Thread : frame[t].ret = a}
  <2>1. Ownership /\ held[a] \in Nat
    BY <1>1 DEF HInv, Owners, IInv, ThreadType
  <2>2. CASE G = {}
    <3>1. Cardinality(G) = 0
      BY <2>2, FS_EmptySet
    <3> QED BY <2>1, <3>1 DEF Pointers, Ownership
  <2>3. CASE G # {}
    <3>1. PICK t \in Thread : frame[t].ret = a
      BY <2>3
    <3>2. /\ held[a] = 0 /\ a \in DOMAIN heap
          /\ \A u \in Thread : frame[u].ret = a => u = t
      BY <2>1, <3>1 DEF Ownership, Owns
    <3>3. G = {t}
      BY <3>1, <3>2
    <3>4. Cardinality(G) = 1
      BY <3>3, FS_Singleton
    <3> QED BY <3>2, <3>4 DEF Pointers
  <2> QED BY <2>2, <2>3
<1>2. HInv => OneOwner
  BY <1>1 DEF OneOwner
<1> QED
  BY <1>2, HInvHolds, PTL

\* The original free is never called for a block that is not live: no
\* interleaving makes the analyzer release a block of somebody else.
THEOREM FreesLiveBlocks ==
    ASSUME FinalAction = "PrintStackAndExit"
    PROVE  Spec => [](process # "crashed")
<1>1. Init => process # "crashed"
  BY DEF Init
<1>2. HInv /\ process # "crashed" /\ [Next]_vars => (process # "crashed")'
  <2> SUFFICES ASSUME HInv, process # "crashed", [Next]_vars
               PROVE  process' # "crashed"
    OBVIOUS
  <2>1. ASSUME NEW t \in Thread, FreesBlock(t) PROVE process' # "crashed"
    <3>1. pc[t] = "mfree" /\ process = "running" /\ Source(t) = frame[t].ptr
      BY <2>1 DEF FreesBlock, At, HInv, Owners, FrameRole, Source
    <3>2. frame[t].ptr \in DOMAIN heap \cup {NULL}
      BY <3>1 DEF HInv, Owners, Ownership, Owns, IInv, ThreadType, Frame
    <3> QED BY <2>1, <3>1, <3>2 DEF FreesBlock
  <2>2. ASSUME NEW t \in Thread, NEW a, NEW size, NEW s,
               AddAllocedItemNoLock(t, a, size, s)
        PROVE  process' # "crashed"
    BY <2>2, AddDomain
  <2>3. ASSUME NEW t \in Thread, Begin(t) PROVE process' # "crashed"
    BY <2>3
    DEF Begin, AllocEarly, AllocCall, FreeCall, TraceAllocates, ReallocMoves,
        ReallocInPlace, ReallocFails, ReallocToZero
  <2>4. ASSUME NEW t \in Thread, Continue(t) PROVE process' # "crashed"
    BY <2>1, <2>2, <2>4
    DEF Continue, TraceReleases, TraceUnlocks, TraceFrees, TraceSucceeds,
        TraceFails, AllocRecovers, AllocSpins, AllocRecords, AllocFails, RecordingFails, AddLocks,
        Unlocks, PrintsAndExits, RemoveLocks, RemoveUnlocks, AddReturnsEarly,
        AddCall, Stop
  <2> QED
    BY <2>3, <2>4 DEF Next, TimePasses, Halted, Spins, vars
<1> QED
  BY <1>1, <1>2, HInvHolds, PTL DEF Spec

-----------------------------------------------------------------------------
(* ... and without realloc: records are complete.                          *)

\* A block that is about to be handed out, or whose stack is reported, is
\* recorded under the captured stack.
NInv ==
    \A t \in Thread :
        /\ pc[t] = "print" => frame[t].ret # NULL
        /\ pc[t] \in {"unlock", "print"} /\ frame[t].ret # NULL =>
              /\ frame[t].ret \in DOMAIN byAddress
              /\ byAddress[frame[t].ret].stack = frame[t].stack

\* The recording of the new block of t.
LEMMA AllocRecordsEffect ==
    ASSUME IInv, FrameRole, NEW t \in Thread, AllocRecords(t)
    PROVE  \E a \in Addr :
              /\ a \notin DOMAIN heap
              /\ heap' = With(heap, a, [size |-> frame[t].want, seen |-> TRUE])
              /\ frame' = [frame EXCEPT ![t].ret = a]
              /\ held' = held
              /\ pc[t] = "lock" /\ frame[t].op = "alloc" /\ frame[t].scratch = NULL
              /\ frame[t].want < SizeModulus
              /\ \/ /\ a \in DOMAIN byAddress
                    /\ UNCHANGED <<byAddress, pc>> /\ process' = "aborted"
                 \/ /\ a \notin DOMAIN byAddress
                    /\ DOMAIN byAddress' = DOMAIN byAddress \cup {a}
                    /\ byAddress'[a] = [stack |-> frame[t].stack, size |-> SizeAll(t)]
                    /\ \A b \in DOMAIN byAddress : byAddress'[b] = byAddress[b]
                    /\ process' = "running"
                    /\ \/ pc' = [pc EXCEPT ![t] = "unlock"]
                       \/ pc' = [pc EXCEPT ![t] = "print"]
<1>1. PICK a \in Available :
         /\ heap' = With(heap, a, [size |-> frame[t].want, seen |-> TRUE])
         /\ frame' = [frame EXCEPT ![t].ret = a]
         /\ AddAllocedItemNoLock(t, a, SizeAll(t), frame[t].stack)
  BY DEF AllocRecords
<1>2. a \in Addr /\ a \notin DOMAIN heap
  BY <1>1 DEF Available, Free
<1>3. /\ At(t, "lock") /\ frame[t].op = "alloc" /\ held' = held
      /\ frame[t].want < SizeModulus
  BY DEF AllocRecords
<1>4. frame[t].scratch = NULL
  BY <1>3 DEF At, FrameRole, Tracing
<1>5. \/ process' = "aborted" /\ pc' = pc
      \/ process' = process /\ pc' = [pc EXCEPT ![t] = "unlock"]
      \/ process' = process /\ pc' = [pc EXCEPT ![t] = "print"]
  BY <1>1, <1>2, <1>3, AddMoves
<1>6. process = "running" /\ pc[t] = "lock"
  BY <1>3 DEF At
<1>a. \/ a \in DOMAIN byAddress /\ byAddress' = byAddress /\ process' = "aborted" /\ pc' = pc
      \/ /\ a \notin DOMAIN byAddress
         /\ DOMAIN byAddress' = DOMAIN byAddress \cup {a}
         /\ byAddress'[a] = [stack |-> frame[t].stack, size |-> SizeAll(t)]
         /\ \A b \in DOMAIN byAddress : byAddress'[b] = byAddress[b]
         /\ process' = process
  BY <1>1, AddDomain, Zenon
<1>7. CASE a \in DOMAIN byAddress
  <2>1. UNCHANGED <<byAddress, pc>> /\ process' = "aborted"
    BY <1>a, <1>7
  <2> QED BY <1>1, <1>2, <1>3, <1>4, <1>6, <1>7, <2>1
<1>8. CASE a \notin DOMAIN byAddress
  <2>1. /\ DOMAIN byAddress' = DOMAIN byAddress \cup {a}
        /\ byAddress'[a] = [stack |-> frame[t].stack, size |-> SizeAll(t)]
        /\ \A b \in DOMAIN byAddress : byAddress'[b] = byAddress[b]
        /\ process' = process
    BY <1>a, <1>8
  <2> QED BY <1>1, <1>2, <1>3, <1>4, <1>5, <1>6, <1>8, <2>1
<1> QED
  BY <1>7, <1>8

\* Every step keeps it, and with it that held blocks are recorded.
LEMMA NInvKept ==
    ASSUME IInv, OnlyCalls, FrameRole, Ownership, Records, NInv,
           HeldBlocksAreRecorded, hasRecoveryStack = 0,
           "realloc" \notin Calls, [Next]_vars
    PROVE  NInv' /\ HeldBlocksAreRecorded'
<1> USE ConstantsAssumption
    DEF ConstantsAssumption, NInv, HeldBlocksAreRecorded
<1>0. \A t \in Thread : frame[t].op # "realloc"
  BY DEF OnlyCalls
<1> USE <1>0
<1> DEFINE Kept == NInv' /\ HeldBlocksAreRecorded'
<1>1. ASSUME NEW t \in Thread, AllocEarly(t) PROVE Kept
  <2>1. PICK r \in Request, a \in Available :
           /\ heap' = With(heap, a, [size |-> r[1] * r[2], seen |-> FALSE])
           /\ held' = [held EXCEPT ![a] = @ + 1]
    BY <1>1 DEF AllocEarly
  <2>2. /\ a \in Addr /\ a \notin DOMAIN heap
        /\ heap'[a].seen = FALSE /\ DOMAIN heap' = DOMAIN heap \cup {a}
        /\ \A b \in DOMAIN heap : heap'[b] = heap[b]
    BY <2>1 DEF With, Available, Free
  <2>3. UNCHANGED <<byAddress, frame, pc>>
    BY <1>1 DEF AllocEarly, ledger
  <2> QED BY <2>1, <2>2, <2>3 DEF IInv, ThreadType
<1>2. ASSUME NEW t \in Thread, FreeCall(t) PROVE Kept
  <2>1. PICK ptr \in Addr \cup {NULL} :
           /\ GivesUp(ptr)
           /\ RemoveCall(t, CallFrame("free", ptr, 0, NULL))
    BY <1>2 DEF FreeCall
  <2>2. UNCHANGED <<byAddress, heap>>
    BY <1>2 DEF FreeCall, ledger
  <2>3. \A a \in Addr : held'[a] > 0 => held[a] > 0
    BY <2>1 DEF GivesUp, IInv, ThreadType
  <2>4. NInv'
    BY <2>1, <2>2 DEF RemoveCall, CallFrame, Goto, IInv, ThreadType
  <2> QED BY <2>2, <2>3, <2>4 DEF IInv, ThreadType
<1>3. ASSUME NEW t \in Thread, AllocCall(t) PROVE Kept
  BY <1>3 DEF AllocCall, At, PassedEarlyReturn, Goto, CallFrame, ledger, IInv,
      ThreadType, Frame, Block
<1>4. ASSUME NEW t \in Thread, TraceAllocates(t) PROVE Kept
  BY <1>4 DEF TraceAllocates, At, Available, Free, With, Available, Free,
      ledger, IInv, ThreadType, Frame, Block
<1>5. ASSUME NEW t \in Thread, TraceReleases(t) PROVE Kept
  <2>1. PICK a \in Addr : a = frame[t].scratch
    BY <1>5 DEF TraceReleases, IInv, ThreadType, Frame
  <2>2. /\ DOMAIN byAddress' = DOMAIN byAddress \ {a}
        /\ \A b \in DOMAIN byAddress \ {a} : byAddress'[b] = byAddress[b]
    BY <1>5, <2>1, RemoveDomain DEF TraceReleases
  <2>3. held[a] = 0 /\ \A u \in Thread \ {t} : frame[u].ret # a
    BY <2>1 DEF Ownership, Owns
  <2>4. /\ UNCHANGED <<held, heap, frame>> /\ pc[t] = "trace"
        /\ pc' = [pc EXCEPT ![t] = "trunlock"]
    BY <1>5 DEF TraceReleases, At, Goto
  <2> QED BY <2>2, <2>3, <2>4 DEF IInv, ThreadType
<1>a. ASSUME NEW t \in Thread, TraceUnlocks(t) PROVE Kept
  BY <1>a DEF TraceUnlocks, At, Goto, ledger, IInv, ThreadType
<1>b. ASSUME NEW t \in Thread, TraceFrees(t) PROVE Kept
  BY <1>b DEF TraceFrees, At, Goto, Without, Restrict, ledger, IInv, ThreadType,
      Frame
<1>6. ASSUME NEW t \in Thread, TraceSucceeds(t) PROVE Kept
  BY <1>6 DEF TraceSucceeds, At, Goto, ledger, IInv, ThreadType, Frame, Block
<1>7. ASSUME NEW t \in Thread, TraceFails(t) PROVE Kept
  BY <1>7, SMTT(30) DEF TraceFails, At, Stop, Return, Goto, NoFrame, CallFrame, Handed,
      FrameRole, Tracing, ledger, IInv, ThreadType, Frame, Block
<1>8. ASSUME NEW t \in Thread, AllocRecords(t) PROVE Kept
  <2>1. PICK a \in Addr :
           /\ a \notin DOMAIN heap
           /\ heap' = With(heap, a, [size |-> frame[t].want, seen |-> TRUE])
           /\ frame' = [frame EXCEPT ![t].ret = a]
           /\ held' = held
           /\ pc[t] = "lock" /\ frame[t].op = "alloc"
           /\ \/ UNCHANGED <<byAddress, pc>>
              \/ /\ a \notin DOMAIN byAddress
                 /\ DOMAIN byAddress' = DOMAIN byAddress \cup {a}
                 /\ byAddress'[a] = [stack |-> frame[t].stack, size |-> SizeAll(t)]
                 /\ \A b \in DOMAIN byAddress : byAddress'[b] = byAddress[b]
                 /\ \/ pc' = [pc EXCEPT ![t] = "unlock"]
                    \/ pc' = [pc EXCEPT ![t] = "print"]
    BY <1>8, AllocRecordsEffect
  <2>2. held[a] = 0
    BY <2>1 DEF Ownership
  <2>3. HeldBlocksAreRecorded'
    BY <2>1, <2>2 DEF With
  <2>4. \A u \in Thread \ {t} : frame'[u] = frame[u] /\ pc'[u] = pc[u]
    BY <2>1 DEF IInv, ThreadType
  <2>5. /\ frame'[t].op = "alloc" /\ frame'[t].ret = a
        /\ frame'[t].stack = frame[t].stack
    BY <2>1 DEF IInv, ThreadType, Frame
  <2>6. \/ UNCHANGED byAddress /\ pc'[t] = "lock"
        \/ /\ a \in DOMAIN byAddress' /\ byAddress'[a].stack = frame[t].stack
           /\ DOMAIN byAddress \subseteq DOMAIN byAddress'
           /\ \A b \in DOMAIN byAddress : byAddress'[b] = byAddress[b]
    BY <2>1 DEF IInv, ThreadType
  <2>7. NInv'
    BY <2>4, <2>5, <2>6
  <2> QED BY <2>3, <2>7
<1>9. ASSUME NEW t \in Thread, AllocSpins(t) PROVE Kept
  BY <1>9 DEF AllocSpins, At, Goto, ledger, IInv, ThreadType, Frame, Block
<1>10. ASSUME NEW t \in Thread, AllocFails(t) PROVE Kept
  BY <1>10 DEF AllocFails, At, Goto, FrameRole, ledger, IInv, ThreadType, Frame,
      Block
<1>11. ASSUME NEW t \in Thread, RecordingFails(t) PROVE Kept
  BY <1>11 DEF RecordingFails, At, Stop, ledger, IInv, ThreadType, Frame, Block
<1>12. ASSUME NEW t \in Thread, Unlocks(t) PROVE Kept
  BY <1>12 DEF Unlocks, At, Return, Goto, NoFrame, CallFrame, Handed, Ownership,
      Owns, ledger, IInv, ThreadType, Frame, Block
<1>13. ASSUME NEW t \in Thread, PrintsAndExits(t) PROVE Kept
  BY <1>13 DEF PrintsAndExits, At, Stop, ledger, IInv, ThreadType, Frame, Block
<1>14. ASSUME NEW t \in Thread, RemoveLocks(t) PROVE Kept
  <2>1. frame[t].op = "free" /\ pc[t] = "rmlock"
    BY <1>14 DEF RemoveLocks, At, FrameRole
  <2>2. /\ DOMAIN byAddress' = DOMAIN byAddress \ {frame[t].ptr}
        /\ \A b \in DOMAIN byAddress \ {frame[t].ptr} : byAddress'[b] = byAddress[b]
    BY <1>14, RemoveDomain DEF RemoveLocks
  <2>3. /\ frame[t].ptr \in Addr => held[frame[t].ptr] = 0
        /\ \A u \in Thread : frame[u].ret # NULL => frame[u].ret # frame[t].ptr
    BY <2>1 DEF Ownership, Owns, Source, FrameRole, IInv, ThreadType, Frame
  <2>4. UNCHANGED <<frame, held, heap>> /\ pc' = [pc EXCEPT ![t] = "rmunlock"]
    BY <1>14 DEF RemoveLocks, Goto
  <2> QED BY <2>2, <2>3, <2>4 DEF IInv, ThreadType
<1>15. ASSUME NEW t \in Thread, RemoveUnlocks(t) PROVE Kept
  <2>1. frame[t].op = "free"
    BY <1>15 DEF RemoveUnlocks, At, FrameRole
  <2>2. /\ UNCHANGED <<byAddress, heap, frame, held>>
        /\ pc' = [pc EXCEPT ![t] = "mfree"]
    BY <1>15, <2>1 DEF RemoveUnlocks, Goto, ledger
  <2> QED BY <2>2 DEF IInv, ThreadType
<1>16. ASSUME NEW t \in Thread, FreesBlock(t) PROVE Kept
  BY <1>16 DEF FreesBlock, At, Return, Goto, Stop, NoFrame, CallFrame, Handed,
      FrameRole, Without, Restrict, ledger, IInv, ThreadType, Frame, Block
<1>17. ASSUME NEW t \in Thread, AllocRecovers(t) PROVE Kept
  BY <1>17 DEF AllocRecovers, InRecovery
<1>18. ASSUME NEW t \in Thread,
             ReallocMoves(t) \/ ReallocInPlace(t) \/ ReallocFails(t)
                                 \/ ReallocToZero(t)
      PROVE  Kept
  BY <1>18 DEF ReallocMoves, ReallocInPlace, ReallocFails, ReallocToZero,
     ReallocArgs
<1>19. ASSUME NEW t \in Thread, AddReturnsEarly(t) \/ AddCall(t) \/ AddLocks(t)
      PROVE  Kept
  BY <1>19 DEF AddReturnsEarly, AddCall, AddLocks, At, IInv, FrameOK
<1>20. CASE UNCHANGED vars \/ TimePasses
  <2>1. UNCHANGED <<byAddress, frame, pc, heap, held>>
    BY <1>20 DEF vars, TimePasses, ledger
  <2> QED BY <2>1
<1> QED
  BY <1>1, <1>2, <1>3, <1>4, <1>5, <1>6, <1>7, <1>8, <1>9, <1>10, <1>11,
      <1>12, <1>13, <1>14, <1>15, <1>16, <1>17, <1>18, <1>19, <1>20, <1>a,
      <1>b
  DEF Next, Begin, Continue, Halted, Spins

LEMMA NInvHolds ==
    ASSUME FinalAction = "PrintStackAndExit", "realloc" \notin Calls
    PROVE  Spec => [](HInv /\ OnlyCalls /\ NInv /\ HeldBlocksAreRecorded)
<1>1. Init => NInv /\ HeldBlocksAreRecorded
  BY DEF Init, NInv, HeldBlocksAreRecorded, NoFrame, CallFrame
<1>2. HInv /\ OnlyCalls /\ NInv /\ HeldBlocksAreRecorded /\ [Next]_vars
         => NInv' /\ HeldBlocksAreRecorded'
  <2> SUFFICES ASSUME HInv, OnlyCalls, NInv, HeldBlocksAreRecorded, [Next]_vars
               PROVE  NInv' /\ HeldBlocksAreRecorded'
    OBVIOUS
  <2>1. hasRecoveryStack = 0
    BY FS_EmptySet DEF HInv, Owners, IInv, LedgerConsistent, Recovering
  <2> QED BY <2>1, NInvKept DEF HInv, Owners
<1> QED
  BY <1>1, <1>2, HInvHolds, OnlyCallsHolds, PTL DEF Spec

\* In a program that does not call realloc, every block that the program holds
\* and whose call was not ignored is recorded: none escapes the count.
THEOREM HeldBlocksStayRecorded ==
    ASSUME FinalAction = "PrintStackAndExit", "realloc" \notin Calls
    PROVE  Spec => []HeldBlocksAreRecorded
BY NInvHolds, PTL

\* ... the stack item that the report reads is still in the table ...
THEOREM ReportedStackIsValid ==
    ASSUME FinalAction = "PrintStackAndExit", "realloc" \notin Calls
    PROVE  Spec => []ReportedStackStaysValid
<1>1. HInv /\ NInv => ReportedStackStaysValid
  <2> SUFFICES ASSUME HInv, NInv, NEW t \in Thread, pc[t] = "print"
               PROVE  frame[t].stack \in DOMAIN byStack
    BY DEF ReportedStackStaysValid, At
  <2> QED BY DEF NInv, HInv, Owners, IInv, LedgerConsistent
<1> QED
  BY <1>1, NInvHolds, PTL

\* ... and the assertion of the recording holds.
THEOREM AssertionHolds ==
    ASSUME FinalAction = "PrintStackAndExit", "realloc" \notin Calls
    PROVE  Spec => []AssertHolds
<1>1. HInv /\ OnlyCalls => AssertHolds
  BY DEF HInv, Records, AssertFailsOnlyInReallocWindow, ReallocWindow,
         OnlyCalls, AssertHolds
<1> QED
  BY <1>1, NInvHolds, PTL

-----------------------------------------------------------------------------
(* TryFixLeak without realloc: the leak is contained.                      *)

\* A block that malloc or calloc records goes to a stack that was not in
\* recovery when the critical section began.
LEMMA RecordsOutsideRecovery ==
    ASSUME IInv, NEW t \in Thread, AllocRecords(t)
    PROVE  \/ UNCHANGED abstract
           \/ \E s \in Stack : Grows(s) /\ s \notin Recovering
<1>1. PICK a \in Available : AddAllocedItemNoLock(t, a, SizeAll(t), frame[t].stack)
  BY DEF AllocRecords
<1>2. PICK b \in Addr : b = a
  BY DEF Available, Free
<1>3. PICK s \in Stack, size \in Nat : s = frame[t].stack /\ size = SizeAll(t)
  BY ConstantsAssumption
  DEF AllocRecords, At, IInv, FrameOK, ThreadType, Frame, SizeAll, ConstantsAssumption
<1>4. UNCHANGED <<ledger, analyzeOngoing>> \/ Ledger!Record(b, s)
  BY <1>1, <1>2, <1>3, AddKeepsLedger DEF IInv, ThreadType
<1>5. ~InRecovery(t)
  BY DEF AllocRecords
<1>6. s \notin Recovering
  <2>1. CASE hasRecoveryStack = 0
    <3>1. /\ Recovering \in SUBSET Stack /\ Cardinality(Recovering) = 0
      BY <2>1 DEF IInv, LedgerType, LedgerConsistent, Recovering
    <3>2. Recovering = {}
      BY <3>1, RecoveryCount, FS_EmptySet
    <3> QED BY <3>2
  <2>2. CASE hasRecoveryStack # 0
    BY <1>3, <1>5, <2>2 DEF InRecovery, Recovering
  <2> QED BY <2>1, <2>2
<1>7. CASE UNCHANGED <<ledger, analyzeOngoing>>
  BY <1>7 DEF ledger, abstract, Outstanding
<1>8. CASE Ledger!Record(b, s)
  BY <1>6, <1>8, RecordGrows
<1> QED
  BY <1>4, <1>7, <1>8

\* Without realloc nothing else makes the count of a stack grow.
LEMMA GrowthIsRecorded ==
    ASSUME IInv, OnlyCalls, "realloc" \notin Calls, [Next]_vars
    PROVE  \/ UNCHANGED abstract
           \/ \E s \in Stack : Grows(s) /\ s \notin Recovering
           \/ \E s \in Stack : Shrinks(s)
<1>1. ASSUME NEW a, RemoveAllocedItemNoLock(a), UNCHANGED analyzeOngoing
      PROVE  UNCHANGED abstract \/ \E s \in Stack : Shrinks(s)
  <2>1. UNCHANGED ledger \/ \E s \in Stack : a \in Addr /\ Ledger!Forget(a, s)
    BY <1>1, RemoveKeepsLedger DEF IInv
  <2>2. CASE UNCHANGED ledger
    BY <1>1, <2>2 DEF ledger, abstract, Outstanding
  <2>3. CASE \E s \in Stack : a \in Addr /\ Ledger!Forget(a, s)
    BY <2>3, ForgetShrinks
  <2> QED BY <2>1, <2>2, <2>3
<1>2. CASE UNCHANGED <<ledger, analyzeOngoing>>
  BY <1>2 DEF ledger, abstract, Outstanding
<1>3. ASSUME NEW t \in Thread, AllocRecords(t)
      PROVE  \/ UNCHANGED abstract
             \/ \E s \in Stack : Grows(s) /\ s \notin Recovering
  BY <1>3, RecordsOutsideRecovery
<1>4. ASSUME NEW t \in Thread, AddLocks(t) PROVE FALSE
  BY <1>4 DEF AddLocks, OnlyCalls
<1>5. ASSUME NEW t \in Thread, RemoveLocks(t)
      PROVE  UNCHANGED abstract \/ \E s \in Stack : Shrinks(s)
  <2>1. PICK a : a = frame[t].ptr
    OBVIOUS
  <2> QED BY <1>1, <1>5, <2>1 DEF RemoveLocks, gate
<1>6. ASSUME NEW t \in Thread, TraceReleases(t)
      PROVE  UNCHANGED abstract \/ \E s \in Stack : Shrinks(s)
  <2>1. PICK a : a = frame[t].scratch
    OBVIOUS
  <2> QED BY <1>1, <1>6, <2>1 DEF TraceReleases, gate
<1> QED
  BY <1>2, <1>3, <1>4, <1>5, <1>6, OthersKeepLedger

\* A stack that leaks stops growing one block past the limit (or two, if the
\* limit is less): its next block comes from those already recorded.
THEOREM LeaksAreContained ==
    ASSUME FinalAction = "TryFixLeak", "realloc" \notin Calls
    PROVE  Spec => []LeakIsContained
<1> DEFINE Contained == \A s \in Stack : Count(s) <= Max({CountMax, 2}) + 1
           Known == IInv /\ OnlyCalls /\ WithinLimit
<1>1. Init => Contained
  <2> SUFFICES ASSUME Init, NEW s \in Stack
               PROVE  Count(s) <= Max({CountMax, 2}) + 1
    OBVIOUS
  <2>1. Outstanding(s) = {}
    BY DEF Init, Outstanding
  <2>2. Count(s) = 0
    BY <2>1, InitHolds, OutstandingIsFinite
  <2> QED BY <2>2, Bounds
<1>2. Known /\ Contained /\ [Next]_vars => Contained'
  <2> SUFFICES ASSUME Known, Contained, [Next]_vars, NEW s \in Stack
               PROVE  Count(s)' <= Max({CountMax, 2}) + 1
    OBVIOUS
  <2>1. Count(s) \in Nat /\ Count(s) <= Max({CountMax, 2}) + 1
    BY OutstandingIsFinite
  <2>2. s \notin Recovering => Count(s) <= Max({CountMax, 2})
    <3>1. CASE s \in DOMAIN byStack
      BY <3>1 DEF WithinLimit, Recovering
    <3>2. CASE s \notin DOMAIN byStack
      <4>1. Outstanding(s) = {}
        BY <3>2 DEF IInv, LedgerConsistent, Outstanding
      <4> QED BY <4>1, OutstandingIsFinite, Bounds
    <3> QED BY <3>1, <3>2
  <2>3. CASE UNCHANGED abstract
    BY <2>1, <2>3, LedgerStutters DEF Count
  <2>4. ASSUME NEW u \in Stack, Grows(u), u \notin Recovering
        PROVE  Count(s)' <= Max({CountMax, 2}) + 1
    <3>1. CASE u = s
      BY <2>1, <2>2, <2>4, <3>1, Bounds DEF Grows
    <3>2. CASE u # s
      BY <2>1, <2>4, <3>2 DEF Grows, Others, Count
    <3> QED BY <3>1, <3>2
  <2>5. ASSUME NEW u \in Stack, Shrinks(u)
        PROVE  Count(s)' <= Max({CountMax, 2}) + 1
    <3>1. CASE u = s
      BY <2>1, <2>5, <3>1, Bounds DEF Shrinks
    <3>2. CASE u # s
      BY <2>1, <2>5, <3>2 DEF Shrinks, Others, Count
    <3> QED BY <3>1, <3>2
  <2> QED BY <2>3, <2>4, <2>5, GrowthIsRecorded
<1>3. Contained => LeakIsContained
  BY DEF LeakIsContained, Count
<1>4. Spec => [](IInv /\ OnlyCalls)
  BY OnlyCallsHolds
<1>5. Spec => []WithinLimit
  BY LimitHolds
<1> QED
  BY <1>1, <1>2, <1>3, <1>4, <1>5, PTL DEF Spec

-----------------------------------------------------------------------------
(* Nothing is ever released: what malloc and calloc hand out is usable.    *)

\* A recorded block is live and as large as its record says; the blocks that
\* stack captures use are not recorded; and what a call is about to return is a
\* recorded block that is large enough.
UInv ==
    /\ \A a \in DOMAIN byAddress :
          a \in DOMAIN heap /\ byAddress[a].size = heap[a].size
    /\ \A t \in Thread : frame[t].scratch # NULL =>
          /\ frame[t].scratch \in DOMAIN heap
          /\ frame[t].scratch \notin DOMAIN byAddress
          /\ \A u \in Thread : frame[u].scratch = frame[t].scratch => u = t
    /\ \A t \in Thread : frame[t].ret # NULL =>
          /\ frame[t].ret \in DOMAIN byAddress
          /\ heap[frame[t].ret].size >= SizeAll(t)

\* The size that is recorded is the size asked for unless that wrapped around.
LEMMA SmallSize ==
    ASSUME NEW n \in Nat, n < SizeModulus
    PROVE  n % SizeModulus = n
<1>1. SizeModulus \in Nat \ {0} /\ n \in 0 .. SizeModulus - 1
  BY ConstantsAssumption DEF ConstantsAssumption
<1> QED
  BY <1>1

\* The first item of a stack in recovery is a recorded block.
LEMMA FirstItemIsRecorded ==
    ASSUME IInv, NEW t \in Thread, frame[t].stack \in DOMAIN byStack
    PROVE  FirstItem(t) \in DOMAIN byAddress
<1> DEFINE item == byStack[frame[t].stack]
<1>1. /\ item.items \in Seq(Addr) /\ item.count = Len(item.items)
      /\ item.count > 0
      /\ ToSet(item.items) = Outstanding(frame[t].stack)
  BY DEF IInv, LedgerType, LedgerConsistent, StackItem
<1>2. Head(item.items) = item.items[1] /\ 1 \in DOMAIN item.items
  BY <1>1
<1>3. Head(item.items) \in ToSet(item.items)
  BY <1>2 DEF ToSet
<1> QED
  BY <1>1, <1>3 DEF FirstItem, Outstanding

\* A step that neither touches the tables nor takes blocks away, and gives the
\* calls neither blocks nor answers.
LEMMA UsableStays ==
    ASSUME IInv, UInv, UNCHANGED byAddress,
           \A a \in DOMAIN heap : a \in DOMAIN heap' /\ heap'[a] = heap[a],
           \A t \in Thread :
              /\ frame'[t].scratch \in {frame[t].scratch, NULL}
              /\ \/ frame'[t].ret = NULL
                 \/ frame'[t].ret = frame[t].ret /\ frame'[t].want = frame[t].want
    PROVE  UInv'
BY DEF UInv, SizeAll

LEMMA UsableKept ==
    ASSUME IInv, OnlyCalls, FrameRole, UInv, Calls \subseteq {"alloc"}, [Next]_vars
    PROVE  UInv'
<1> USE ConstantsAssumption DEF ConstantsAssumption
<1>0. \A t \in Thread : frame[t].op \in {"none", "alloc"}
  BY DEF OnlyCalls
<1>1. ASSUME NEW t \in Thread, AllocEarly(t) PROVE UInv'
  <2>1. UNCHANGED <<byAddress, frame>>
    BY <1>1 DEF AllocEarly, ledger
  <2>2. \A a \in DOMAIN heap : a \in DOMAIN heap' /\ heap'[a] = heap[a]
    BY <1>1 DEF AllocEarly, With, Available, Free
  <2> QED BY <2>1, <2>2, UsableStays
<1>2. ASSUME NEW t \in Thread, AllocCall(t) PROVE UInv'
  BY <1>2, UsableStays DEF AllocCall, At, PassedEarlyReturn, Goto, CallFrame,
      ledger, IInv, ThreadType, Frame
<1>3. ASSUME NEW t \in Thread, TraceAllocates(t) PROVE UInv'
  <2>1. PICK a \in Addr :
           /\ a \notin DOMAIN heap
           /\ DOMAIN heap' = DOMAIN heap \cup {a}
           /\ \A b \in DOMAIN heap : heap'[b] = heap[b]
           /\ frame' = [frame EXCEPT ![t].scratch = a]
    BY <1>3 DEF TraceAllocates, With, Available, Free
  <2>2. UNCHANGED byAddress
    BY <1>3 DEF TraceAllocates, ledger
  <2>3. /\ frame'[t].scratch = a /\ frame'[t].ret = frame[t].ret
        /\ frame'[t].want = frame[t].want
        /\ \A u \in Thread \ {t} : frame'[u] = frame[u]
    BY <2>1 DEF IInv, ThreadType, Frame
  <2> QED BY <2>1, <2>2, <2>3 DEF UInv, SizeAll
<1>4. ASSUME NEW t \in Thread, TraceFrees(t) PROVE UInv'
  <2>1. PICK a : a = frame[t].scratch
    OBVIOUS
  <2>2. a \notin DOMAIN byAddress
    BY <1>4, <2>1 DEF TraceFrees, UInv, IInv, LedgerType
  <2>3. UNCHANGED byAddress
    BY <1>4 DEF TraceFrees, ledger
  <2>4. /\ DOMAIN heap' = DOMAIN heap \ {a}
        /\ \A b \in DOMAIN heap \ {a} : heap'[b] = heap[b]
    BY <1>4, <2>1 DEF TraceFrees, Without, Restrict
  <2>5. /\ frame'[t].scratch = NULL /\ frame'[t].ret = frame[t].ret
        /\ frame'[t].want = frame[t].want
        /\ \A u \in Thread \ {t} : frame'[u] = frame[u]
    BY <1>4 DEF TraceFrees, IInv, ThreadType, Frame
  <2> QED BY <2>1, <2>2, <2>3, <2>4, <2>5 DEF UInv, SizeAll
<1>a. ASSUME NEW t \in Thread, TraceReleases(t) \/ TraceUnlocks(t) PROVE UInv'
  <2>1. UNCHANGED <<frame, heap>>
    BY <1>a DEF TraceReleases, TraceUnlocks
  <2>2. CASE TraceReleases(t)
    <3>1. frame[t].scratch \notin DOMAIN byAddress
      BY <2>2 DEF TraceReleases, UInv
    <3>2. UNCHANGED byAddress
      BY <2>2, <3>1 DEF TraceReleases, RemoveAllocedItemNoLock, ledger
    <3> QED BY <2>1, <3>2, UsableStays
  <2>3. CASE TraceUnlocks(t)
    BY <2>1, <2>3, UsableStays DEF TraceUnlocks, ledger
  <2> QED BY <1>a, <2>2, <2>3
<1>5. ASSUME NEW t \in Thread, TraceSucceeds(t) PROVE UInv'
  BY <1>5, UsableStays DEF TraceSucceeds, At, Goto, ledger, IInv, ThreadType,
      Frame
<1>6. ASSUME NEW t \in Thread, TraceFails(t) PROVE UInv'
  BY <1>6, UsableStays DEF TraceFails, At, Stop, Return, Goto, NoFrame,
      CallFrame, ledger, IInv, ThreadType, Frame
<1>7. ASSUME NEW t \in Thread, AllocRecovers(t) PROVE UInv'
  <2>1. /\ UNCHANGED <<byAddress, heap>>
        /\ frame' = [frame EXCEPT ![t].ret = FirstItem(t)]
        /\ byAddress[FirstItem(t)].size >= SizeAll(t)
        /\ frame[t].stack \in DOMAIN byStack
    BY <1>7 DEF AllocRecovers, ledger, LargeEnough, InRecovery
  <2>2. FirstItem(t) \in DOMAIN byAddress
    BY <2>1, FirstItemIsRecorded
  <2>3. heap[FirstItem(t)].size >= SizeAll(t)
    BY <2>1, <2>2 DEF UInv
  <2>4. /\ frame'[t].scratch = frame[t].scratch /\ frame'[t].ret = FirstItem(t)
        /\ frame'[t].want = frame[t].want
        /\ \A u \in Thread \ {t} : frame'[u] = frame[u]
    BY <2>1 DEF IInv, ThreadType, Frame
  <2> QED BY <2>1, <2>2, <2>3, <2>4 DEF UInv, SizeAll
<1>8. ASSUME NEW t \in Thread, AllocRecords(t) PROVE UInv'
  <2>1. PICK a \in Addr :
           /\ a \notin DOMAIN heap
           /\ heap' = With(heap, a, [size |-> frame[t].want, seen |-> TRUE])
           /\ frame' = [frame EXCEPT ![t].ret = a]
           /\ frame[t].scratch = NULL /\ frame[t].want < SizeModulus
           /\ \/ a \in DOMAIN byAddress
              \/ /\ a \notin DOMAIN byAddress
                 /\ DOMAIN byAddress' = DOMAIN byAddress \cup {a}
                 /\ byAddress'[a] = [stack |-> frame[t].stack, size |-> SizeAll(t)]
                 /\ \A b \in DOMAIN byAddress : byAddress'[b] = byAddress[b]
    BY <1>8, AllocRecordsEffect
  <2>2. a \notin DOMAIN byAddress
    BY <2>1 DEF UInv
  <2>3. byAddress'[a].size = frame[t].want
    BY <2>1, <2>2, SmallSize DEF SizeAll, IInv, ThreadType, Frame
  <2>4. /\ DOMAIN heap' = DOMAIN heap \cup {a} /\ heap'[a].size = frame[t].want
        /\ \A b \in DOMAIN heap : heap'[b] = heap[b]
    BY <2>1 DEF With
  <2>5. /\ frame'[t].scratch = NULL /\ frame'[t].ret = a
        /\ frame'[t].want = frame[t].want /\ frame[t].want \in Nat
        /\ \A u \in Thread \ {t} : frame'[u] = frame[u]
    BY <2>1 DEF IInv, ThreadType, Frame
  <2>6. /\ DOMAIN byAddress' = DOMAIN byAddress \cup {a}
        /\ \A b \in DOMAIN byAddress : byAddress'[b] = byAddress[b]
    BY <2>1, <2>2
  <2>7. \A b \in DOMAIN byAddress' :
           b \in DOMAIN heap' /\ byAddress'[b].size = heap'[b].size
    BY <2>3, <2>4, <2>6 DEF UInv
  <2>8. ASSUME NEW u \in Thread, frame'[u].scratch # NULL
        PROVE  /\ frame'[u].scratch \in DOMAIN heap'
               /\ frame'[u].scratch \notin DOMAIN byAddress'
               /\ \A v \in Thread :
                     frame'[v].scratch = frame'[u].scratch => v = u
    <3>1. u # t /\ frame'[u] = frame[u]
      BY <2>5, <2>8
    <3>2. frame[u].scratch \in DOMAIN heap /\ frame[u].scratch # a
      BY <2>1, <2>8, <3>1 DEF UInv
    <3> QED BY <2>4, <2>5, <2>6, <2>8, <3>1, <3>2 DEF UInv
  <2>9. ASSUME NEW u \in Thread, frame'[u].ret # NULL
        PROVE  /\ frame'[u].ret \in DOMAIN byAddress'
               /\ heap'[frame'[u].ret].size >= SizeAll(u)'
    <3>1. SizeAll(u)' = SizeAll(u)
      BY <2>5 DEF SizeAll
    <3>2. CASE u = t
      <4>1. SizeAll(t) = frame[t].want
        BY <2>1, <2>5, SmallSize DEF SizeAll
      <4> QED BY <2>4, <2>5, <2>6, <3>1, <3>2, <4>1
    <3>3. CASE u # t
      BY <2>4, <2>5, <2>6, <2>9, <3>1, <3>3 DEF UInv
    <3> QED BY <3>2, <3>3
  <2> QED BY <2>7, <2>8, <2>9 DEF UInv
<1>9. ASSUME NEW t \in Thread,
             AllocSpins(t) \/ AllocFails(t) \/ RecordingFails(t)
      PROVE  UInv'
  <2>1. UNCHANGED <<byAddress, heap, frame>>
    BY <1>9 DEF AllocSpins, AllocFails, RecordingFails, ledger
  <2> QED BY <2>1, UsableStays
<1>10. ASSUME NEW t \in Thread, Unlocks(t) PROVE UInv'
  BY <1>10, UsableStays DEF Unlocks, At, Return, Goto, NoFrame, CallFrame,
      ledger, IInv, ThreadType, Frame
<1>11. ASSUME NEW t \in Thread, PrintsAndExits(t) PROVE UInv'
  BY <1>11, UsableStays DEF PrintsAndExits, At, Stop, ledger, IInv, ThreadType,
      Frame
<1>12. ASSUME NEW t \in Thread,
             FreeCall(t) \/ RemoveLocks(t) \/ RemoveUnlocks(t)
                                 \/ FreesBlock(t)
      PROVE  UInv'
  BY <1>12, <1>0
  DEF FreeCall, RemoveLocks, RemoveUnlocks, FreesBlock, At, FrameRole
<1>13. ASSUME NEW t \in Thread,
             ReallocMoves(t) \/ ReallocInPlace(t) \/ ReallocFails(t)
                                 \/ ReallocToZero(t)
      PROVE  UInv'
  BY <1>13 DEF ReallocMoves, ReallocInPlace, ReallocFails, ReallocToZero,
     ReallocArgs
<1>14. ASSUME NEW t \in Thread, AddReturnsEarly(t) \/ AddCall(t) \/ AddLocks(t)
      PROVE  UInv'
  BY <1>14, <1>0 DEF AddReturnsEarly, AddCall, AddLocks, At, IInv, FrameOK
<1>15. CASE UNCHANGED vars \/ TimePasses
  <2>1. UNCHANGED <<byAddress, frame, heap>>
    BY <1>15 DEF vars, TimePasses, ledger
  <2> QED BY <2>1, UsableStays
<1> QED
  BY <1>1, <1>2, <1>3, <1>4, <1>5, <1>6, <1>7, <1>8, <1>9, <1>10, <1>11,
      <1>12, <1>13, <1>14, <1>15, <1>a
  DEF Next, Begin, Continue, Halted, Spins

\* If leaked blocks are never released, malloc and calloc return a live block
\* at least as large as the size_t product of their arguments, under either
\* final action.
THEOREM RecoveredBlocksAreUsable ==
    ASSUME Calls \subseteq {"alloc"}
    PROVE  Spec => []RecoveredBlockIsUsable
<1>1. Init => FrameRole /\ UInv
  BY DEF Init, FrameRole, UInv, NoFrame, CallFrame
<1>2. IInv /\ OnlyCalls /\ FrameRole /\ UInv /\ [Next]_vars => FrameRole' /\ UInv'
  BY RoleKept, UsableKept
<1>3. IInv /\ UInv => RecoveredBlockIsUsable
  BY DEF UInv, RecoveredBlockIsUsable
<1> QED
  BY <1>1, <1>2, <1>3, OnlyCallsHolds, PTL DEF Spec
=============================================================================

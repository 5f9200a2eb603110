--------------------------- MODULE MemoryLeakProofs ---------------------------
(***************************************************************************)
(* Proofs about MemoryLeak for any number of threads, addresses and        *)
(* stacks: what the replaced functions and the calls in flight find of the *)
(* tables, from the start of the program to its exit.                      *)
(***************************************************************************)
EXTENDS MemoryLeak, LeakHeapProofs

-----------------------------------------------------------------------------
(* The inductive invariant.                                                *)

\* What exists: one more thing after each step of the start, everything until the
\* fifth step of the exit.
ResourcesOK ==
    /\ step \in 0 .. 16 /\ closing \in Nat
    /\ step = 0 => resources = {}
    /\ step \in 1 .. 6 => resources = {Created[j] : j \in 1 .. step - 1}
    /\ step > 6 /\ closing <= 5 => resources = Resource
    /\ step > 6 /\ closing <= 9 => s_pTable # NULL

\* The i-th function is replaced by the start's step 10 + i and put back by the
\* exit's i-th; what is put back was read before.
PointersOK ==
    /\ installed \in [Family -> {"clib", "static"}]
    /\ original \in [Family -> {"clib", NULL}]
    /\ \A i \in 1 .. 4 :
          /\ installed[Name[i]] = "static" <=> step > 10 + i /\ closing <= i
          /\ step > 6 + i => original[Name[i]] = "clib"

\* The exit runs after the whole start, in one thread.
ExitOK ==
    /\ exiting # NULL => step = 16
    /\ exiting = NULL => closing = 1

\* A call is inside the analyzer, or about to enter it, only if it found the
\* analyzer's function, hence everything in place.
CallsOK ==
    /\ pc \in [Thread -> Location]
    /\ complete \in [Thread -> BOOLEAN]
    /\ DOMAIN route = Thread
    /\ \A t \in Thread :
          pc[t] # "idle" \/ route[t].to = "static" => complete[t] /\ step > 10

LifeInv == ResourcesOK /\ PointersOK /\ ExitOK /\ CallsOK

-----------------------------------------------------------------------------
(* The lists of the code.                                                  *)

LEMMA Lists ==
    /\ DOMAIN Name = 1 .. 4 /\ DOMAIN Created = 1 .. 5 /\ DOMAIN Destroyed = 1 .. 4
    /\ Family = {"malloc", "calloc", "realloc", "free"}
    /\ \A i \in 1 .. 4 : Name[i] \in Family
    /\ \A n \in Family : \E i \in 1 .. 4 : n = Name[i]
    /\ \A i, j \in 1 .. 4 : Name[i] = Name[j] => i = j
    /\ Resource = {Created[j] : j \in 1 .. 5}
    /\ Resource = {"pTables", "mutexForHashes", "hashByAddress", "hashByStack",
                   "ignoreForThisThreadTlsKey"}
    /\ Steps = 15
<1>1. DOMAIN Name = 1 .. 4 /\ DOMAIN Created = 1 .. 5 /\ DOMAIN Destroyed = 1 .. 4
  BY DEF Name, Created, Destroyed
<1>2. Family = {Name[i] : i \in 1 .. 4}
  BY <1>1 DEF Family, ToSet
<1>3. /\ Name[1] = "malloc" /\ Name[2] = "calloc"
      /\ Name[3] = "realloc" /\ Name[4] = "free"
  BY DEF Name
<1>4. Resource = {Created[i] : i \in 1 .. 5}
  BY <1>1 DEF Resource, ToSet
<1>5. /\ Created[1] = "pTables" /\ Created[2] = "mutexForHashes"
      /\ Created[3] = "hashByAddress" /\ Created[4] = "hashByStack"
      /\ Created[5] = "ignoreForThisThreadTlsKey"
  BY DEF Created
<1>6. \A i \in 1 .. 4 : i = 1 \/ i = 2 \/ i = 3 \/ i = 4
  OBVIOUS
<1>7. \A i \in 1 .. 5 : i = 1 \/ i = 2 \/ i = 3 \/ i = 4 \/ i = 5
  OBVIOUS
<1>8. Family = {"malloc", "calloc", "realloc", "free"}
  BY <1>2, <1>3, <1>6
<1>9. Resource = {"pTables", "mutexForHashes", "hashByAddress", "hashByStack",
                  "ignoreForThisThreadTlsKey"}
  BY <1>4, <1>5, <1>7
<1>10. \A i, j \in 1 .. 4 : Name[i] = Name[j] => i = j
  BY <1>3, <1>6
<1>11. \A i \in 1 .. 4 : Name[i] \in Family
  BY <1>2
<1>12. \A n \in Family : \E i \in 1 .. 4 : n = Name[i]
  BY <1>2
<1>13. Steps = 15
  BY DEF Steps
<1> QED
  BY <1>1, <1>4, <1>8, <1>9, <1>10, <1>11, <1>12, <1>13

-----------------------------------------------------------------------------
(* The steps of LeakAnalyzer: where they leave the threads.                *)

\* Only t moves.
Moves(t) ==
    /\ pc' \in [Thread -> Location]
    /\ \A u \in Thread \ {t} : pc'[u] = pc[u]

LEMMA GotoMoves ==
    ASSUME pc \in [Thread -> Location], NEW t \in Thread, NEW loc \in Location, Goto(t, loc)
    PROVE  Moves(t)
BY DEF Goto, Moves

LEMMA ReturnMoves ==
    ASSUME pc \in [Thread -> Location], NEW t \in Thread, NEW f, Return(t, f)
    PROVE  Moves(t)
BY DEF Return, Goto, Moves, Location

LEMMA StayMoves ==
    ASSUME pc \in [Thread -> Location], NEW t \in Thread, pc' = pc
    PROVE  Moves(t)
BY DEF Moves

LEMMA RecordMoves ==
    ASSUME pc \in [Thread -> Location], NEW t \in Thread, NEW a, NEW size, NEW s,
           AddAllocedItemNoLock(t, a, size, s)
    PROVE  Moves(t)
<1>1. CASE a \in DOMAIN byAddress
  BY <1>1, StayMoves DEF AddAllocedItemNoLock
<1>2. CASE Goto(t, "unlock") \/ Goto(t, "print")
  BY <1>2, GotoMoves DEF Location
<1>3. a \notin DOMAIN byAddress => Goto(t, "unlock") \/ Goto(t, "print")
  BY DEF AddAllocedItemNoLock, FinalActionPrintStackAndExit, FinalActionTryFixLeak
<1> QED
  BY <1>1, <1>2, <1>3

\* A call that goes on was in the analyzer already.
LEMMA ContinueMoves ==
    ASSUME pc \in [Thread -> Location], NEW t \in Thread, Continue(t)
    PROVE  pc[t] # "idle" /\ Moves(t)
<1> USE DEF At, Location, Tracing
<1>1. CASE RecordingFails(t) \/ PrintsAndExits(t)
  BY <1>1, StayMoves DEF RecordingFails, PrintsAndExits
<1>2. CASE \/ TraceReleases(t) \/ TraceUnlocks(t) \/ TraceFrees(t) \/ TraceSucceeds(t)
           \/ AllocRecovers(t) \/ AllocSpins(t) \/ AllocFails(t)
           \/ RemoveLocks(t) \/ AddCall(t)
  BY <1>2, GotoMoves
     DEF TraceReleases, TraceUnlocks, TraceFrees, TraceSucceeds, AllocRecovers, AllocSpins,
         AllocFails, RemoveLocks, AddCall
<1>3. CASE TraceFails(t)
  BY <1>3, ReturnMoves, StayMoves DEF TraceFails
<1>4. CASE AllocRecords(t) \/ AddLocks(t)
  BY <1>4, RecordMoves DEF AllocRecords, AddLocks
<1>5. CASE Unlocks(t) \/ FreesBlock(t) \/ AddReturnsEarly(t)
  BY <1>5, ReturnMoves DEF Unlocks, FreesBlock, AddReturnsEarly
<1>6. CASE RemoveUnlocks(t)
  BY <1>6, ReturnMoves, GotoMoves DEF RemoveUnlocks
<1> QED
  BY <1>1, <1>2, <1>3, <1>4, <1>5, <1>6 DEF Continue

LEMMA EnterMoves ==
    ASSUME pc \in [Thread -> Location], NEW t \in Thread, EntersAnalyzer(t)
    PROVE  Moves(t)
<1> USE DEF Location, Tracing
<1>1. CASE AllocEarly(t) \/ ReallocStays(t)
  BY <1>1, StayMoves DEF AllocEarly, ReallocStays
<1>2. CASE AllocCall(t)
  BY <1>2, GotoMoves DEF AllocCall
<1>3. CASE ReallocMoves(t) \/ ReallocFails(t) \/ ReallocToZero(t) \/ FreeCall(t)
  BY <1>3, GotoMoves DEF ReallocMoves, ReallocFails, ReallocToZero, FreeCall, RemoveCall
<1> QED
  BY <1>1, <1>2, <1>3 DEF EntersAnalyzer

-----------------------------------------------------------------------------
(* Every step keeps the invariant.                                         *)

LEMMA LifeInitHolds == LifeInit => LifeInv
<1> SUFFICES ASSUME LifeInit PROVE LifeInv
  OBVIOUS
<1>1. ResourcesOK
  BY DEF LifeInit, ResourcesOK
<1>2. PointersOK
  BY Lists, MainAssumption DEF LifeInit, PointersOK
<1>3. ExitOK
  BY DEF LifeInit, ExitOK
<1>4. CallsOK
  BY MainAssumption DEF LifeInit, Init, CallsOK, NoRoute, Location, Tracing
<1> QED
  BY <1>1, <1>2, <1>3, <1>4 DEF LifeInv

\* A step that leaves the start, the exit and the pointers alone, and moves one
\* thread that is in the analyzer or about to enter it.
LEMMA CallKeeps ==
    ASSUME LifeInv, NEW t \in Thread, Moves(t), UNCHANGED <<life, complete>>,
           route' = route \/ route' = [route EXCEPT ![t] = NoRoute],
           pc'[t] # "idle" => pc[t] # "idle" \/ route[t].to = "static"
    PROVE  LifeInv'
<1>1. ResourcesOK' /\ PointersOK' /\ ExitOK'
  BY DEF LifeInv, life, ResourcesOK, PointersOK, ExitOK
<1>2. \A u \in Thread : route'[u].to = "static" => route[u].to = "static"
  BY MainAssumption DEF LifeInv, CallsOK, NoRoute
<1>3. \A u \in Thread : pc'[u] # "idle" => pc[u] # "idle" \/ route[u].to = "static"
  BY DEF Moves
<1>4. CallsOK'
  BY <1>2, <1>3 DEF LifeInv, CallsOK, Moves, life
<1> QED
  BY <1>1, <1>4 DEF LifeInv

\* The same for a step of no call.
LEMMA QuietKeeps ==
    ASSUME LifeInv, UNCHANGED <<life, complete, route, pc>>
    PROVE  LifeInv'
BY DEF LifeInv, life, ResourcesOK, PointersOK, ExitOK, CallsOK

LEMMA StartKeeps ==
    ASSUME LifeInv, Starts PROVE LifeInv'
<1> USE DEF Starting
<1>1. UNCHANGED <<pc, complete, route>> /\ exiting' = exiting /\ closing' = closing
  BY DEF Starts, Creates, CreateFails, PublishesTable, Installs, Registers, calls,
         noted, analyzer, vars
<1>2. /\ step \in 0 .. 16
      /\ \/ step' = 0 /\ step \in 1 .. 5
         \/ step' = step + 1 /\ step \in 1 .. 15
  BY Lists DEF LifeInv, ResourcesOK, Starts, Creates, CreateFails, PublishesTable, Installs,
         Registers, StepOf
<1>3. exiting = NULL /\ closing = 1
  BY <1>2 DEF LifeInv, ExitOK
<1>4. ExitOK'
  BY <1>1, <1>3 DEF ExitOK
<1>5. CallsOK'
  BY <1>1, <1>2 DEF LifeInv, CallsOK
<1>6. CASE Creates
  <2>1. PICK i \in 1 .. 5 : Starting(i) /\ resources' = resources \cup {Created[i]}
    BY <1>6, Lists DEF Creates
  <2>2. resources' = {Created[j] : j \in 1 .. i}
    <3>1. \A j \in 1 .. i : j \in 1 .. i - 1 \/ j = i
      OBVIOUS
    <3>2. \A j \in 1 .. i - 1 : j \in 1 .. i
      OBVIOUS
    <3>3. resources = {Created[j] : j \in 1 .. i - 1}
      BY <2>1 DEF LifeInv, ResourcesOK
    <3>4. i \in 1 .. i
      OBVIOUS
    <3> QED
      BY <2>1, <3>1, <3>2, <3>3, <3>4
  <2>3. step' = i + 1 /\ (i + 1) - 1 = i
    BY <2>1
  <2>4. ResourcesOK'
    BY <1>1, <1>3, <2>1, <2>2, <2>3 DEF ResourcesOK
  <2>5. installed' = installed /\ original' = original
    BY <1>6 DEF Creates
  <2>6. PointersOK'
    BY <1>1, <2>1, <2>5 DEF LifeInv, PointersOK
  <2> QED
    BY <1>4, <1>5, <2>4, <2>6 DEF LifeInv
<1>7. CASE CreateFails
  <2>1. resources' = {}
    BY <1>7, Lists DEF CreateFails, Released, LifeInv, ResourcesOK
  <2>2. ResourcesOK'
    BY <1>1, <1>3, <1>7, <2>1 DEF CreateFails, ResourcesOK
  <2>3. PointersOK'
    BY <1>1, <1>2, <1>7, Lists DEF LifeInv, PointersOK, CreateFails
  <2> QED
    BY <1>4, <1>5, <2>2, <2>3 DEF LifeInv
<1>8. CASE PublishesTable
  <2>1. step = 6 /\ step' = 7 /\ s_pTable' # NULL
    BY <1>8, MainAssumption DEF PublishesTable
  <2>2. resources' = Resource
    BY <1>8, <2>1, Lists DEF PublishesTable, LifeInv, ResourcesOK
  <2>3. ResourcesOK'
    BY <1>1, <1>3, <2>1, <2>2 DEF ResourcesOK
  <2>4. PointersOK'
    BY <1>1, <1>2, <1>8 DEF LifeInv, PointersOK, PublishesTable
  <2> QED
    BY <1>4, <1>5, <2>3, <2>4 DEF LifeInv
<1>9. CASE Installs
  <2>1. PICK i \in 1 .. 4 :
           \/ /\ step = 6 + i /\ step' = step + 1
              /\ original' = [original EXCEPT ![Name[i]] = installed[Name[i]]]
              /\ installed' = installed
           \/ /\ step = 10 + i /\ step' = step + 1
              /\ installed' = [installed EXCEPT ![Name[i]] = "static"]
              /\ original' = original
    BY <1>9, Lists DEF Installs, StepOf, Replacement
  <2>2. ResourcesOK'
    BY <1>1, <1>3, <1>9, <2>1 DEF LifeInv, ResourcesOK, Installs
  <2>3. step = 6 + i => installed[Name[i]] = "clib"
    BY Lists DEF LifeInv, PointersOK
  <2>4. /\ installed' \in [Family -> {"clib", "static"}]
        /\ original' \in [Family -> {"clib", NULL}]
    BY <2>1, <2>3, Lists DEF LifeInv, PointersOK
  <2>5. ASSUME NEW j \in 1 .. 4
        PROVE  /\ installed'[Name[j]] = "static" <=> step' > 10 + j /\ closing' <= j
               /\ step' > 6 + j => original'[Name[j]] = "clib"
    <3>1. Name[i] \in Family /\ Name[j] \in Family /\ (Name[i] = Name[j] => i = j)
      BY Lists
    <3>2. CASE i = j
      BY <1>1, <1>3, <2>1, <2>3, <3>1, <3>2 DEF LifeInv, PointersOK
    <3>3. CASE i # j
      BY <1>1, <1>3, <2>1, <2>3, <3>1, <3>3 DEF LifeInv, PointersOK
    <3> QED
      BY <3>2, <3>3
  <2>6. PointersOK'
    BY <2>4, <2>5 DEF PointersOK
  <2> QED
    BY <1>4, <1>5, <2>2, <2>6 DEF LifeInv
<1>10. CASE Registers
  <2>1. step = 15 /\ step' = 16
    BY <1>10, Lists DEF Registers
  <2>2. ResourcesOK'
    BY <1>1, <1>3, <1>10, <2>1 DEF LifeInv, ResourcesOK, Registers
  <2>3. PointersOK'
    BY <1>1, <1>3, <1>10, <2>1 DEF LifeInv, PointersOK, Registers
  <2> QED
    BY <1>4, <1>5, <2>2, <2>3 DEF LifeInv
<1> QED
  BY <1>6, <1>7, <1>8, <1>9, <1>10 DEF Starts

LEMMA DispatchKeeps ==
    ASSUME LifeInv, NEW t \in Thread, Dispatches(t) PROVE LifeInv'
<1>1. PICK n \in Family : \E ptr \in Addr \cup {NULL} :
         route' = [route EXCEPT ![t] = [fn |-> n, to |-> installed[n], ptr |-> ptr]]
  BY DEF Dispatches
<1>2. UNCHANGED <<life, pc>> /\ pc[t] = "idle"
      /\ complete' = [complete EXCEPT ![t] = resources = Resource]
  BY DEF Dispatches, analyzer, vars, Acting, Busy
<1>3. ResourcesOK' /\ PointersOK' /\ ExitOK'
  BY <1>2 DEF LifeInv, life, ResourcesOK, PointersOK, ExitOK
<1>4. installed[n] = "static" => resources = Resource /\ step > 10
  BY Lists DEF LifeInv, PointersOK, ResourcesOK
<1>5. complete' \in [Thread -> BOOLEAN] /\ complete'[t] = (resources = Resource)
      /\ \A u \in Thread \ {t} : complete'[u] = complete[u]
  BY <1>2 DEF LifeInv, CallsOK
<1>6. DOMAIN route' = Thread /\ route'[t].to = installed[n]
      /\ \A u \in Thread \ {t} : route'[u] = route[u]
  BY <1>1 DEF LifeInv, CallsOK
<1>7. step' = step /\ pc' = pc
  BY <1>2 DEF life
<1>8. ASSUME NEW u \in Thread, pc'[u] # "idle" \/ route'[u].to = "static"
      PROVE  complete'[u] /\ step' > 10
  <2>1. CASE u = t
    BY <1>2, <1>4, <1>5, <1>6, <1>7, <1>8, <2>1
  <2>2. CASE u # t
    BY <1>5, <1>6, <1>7, <1>8, <2>2 DEF LifeInv, CallsOK
  <2> QED
    BY <2>1, <2>2
<1>9. CallsOK'
  BY <1>5, <1>6, <1>7, <1>8 DEF LifeInv, CallsOK
<1> QED
  BY <1>3, <1>9 DEF LifeInv

LEMMA EnterKeeps ==
    ASSUME LifeInv, NEW t \in Thread, EntersAnalyzer(t) PROVE LifeInv'
<1>1. Moves(t)
  BY EnterMoves DEF LifeInv, CallsOK
<1> QED
  BY <1>1, CallKeeps DEF EntersAnalyzer, noted

LEMMA ReleaseKeeps ==
    ASSUME LifeInv, NEW t \in Thread, EntersOriginal(t) PROVE LifeInv'
<1>1. UNCHANGED <<life, complete, pc>> /\ route' = [route EXCEPT ![t] = NoRoute]
  BY DEF EntersOriginal, noted
<1>2. Moves(t)
  BY <1>1, StayMoves DEF LifeInv, CallsOK
<1> QED
  BY <1>1, <1>2, CallKeeps

LEMMA ContinueKeeps ==
    ASSUME LifeInv, NEW t \in Thread, Continues(t) PROVE LifeInv'
<1>1. pc[t] # "idle" /\ Moves(t)
  BY ContinueMoves DEF Continues, LifeInv, CallsOK
<1> QED
  BY <1>1, CallKeeps DEF Continues, noted

LEMMA ExitKeeps ==
    ASSUME LifeInv, NEW t \in Thread, Exit(t) PROVE LifeInv'
<1>1. UNCHANGED <<step, resources, s_pTable, installed, original, closing, pc, route, complete>>
  BY DEF Exit, noted
<1>2. exiting' = exiting \/ (exiting = NULL /\ exiting' = t /\ step > 15)
  BY Lists DEF Exit, Registered
<1>3. t # NULL
  BY ConstantsAssumption DEF ConstantsAssumption
<1>4. ExitOK'
  BY <1>1, <1>2, <1>3 DEF LifeInv, ExitOK, ResourcesOK
<1> QED
  BY <1>1, <1>4 DEF LifeInv, ResourcesOK, PointersOK, CallsOK

LEMMA CleanKeeps ==
    ASSUME LifeInv, NEW t \in Thread, Cleans(t) \/ Ends(t) PROVE LifeInv'
<1>1. UNCHANGED <<step, original, pc, route, complete, exiting>>
  BY DEF Cleans, Ends, calls, noted
<1>2. exiting # NULL /\ step = 16 /\ closing' = closing + 1 /\ closing \in Nat
  <2>1. t # NULL
    BY ConstantsAssumption DEF ConstantsAssumption
  <2> QED
    BY <2>1 DEF Cleans, Ends, Closing, LifeInv, ExitOK, ResourcesOK
<1>3. ExitOK' /\ CallsOK'
  BY <1>1, <1>2 DEF LifeInv, ExitOK, CallsOK
<1>4. CASE resources' = resources /\ s_pTable' = s_pTable
           /\ \E i \in 1 .. 4 : closing = i
                 /\ installed' = [installed EXCEPT ![Name[i]] = original[Name[i]]]
  <2>1. PICK i \in 1 .. 4 : closing = i
           /\ installed' = [installed EXCEPT ![Name[i]] = original[Name[i]]]
    BY <1>4
  <2>2. ResourcesOK'
    BY <1>1, <1>2, <1>4 DEF LifeInv, ResourcesOK
  <2>3. original[Name[i]] = "clib"
    BY <1>2 DEF LifeInv, PointersOK
  <2>4. installed' \in [Family -> {"clib", "static"}]
    BY <2>1, <2>3 DEF LifeInv, PointersOK
  <2>5. ASSUME NEW j \in 1 .. 4
        PROVE  /\ installed'[Name[j]] = "static" <=> step' > 10 + j /\ closing' <= j
               /\ step' > 6 + j => original'[Name[j]] = "clib"
    <3>1. Name[i] \in Family /\ Name[j] \in Family /\ (Name[i] = Name[j] => i = j)
      BY Lists
    <3>2. CASE i = j
      BY <1>1, <1>2, <2>1, <2>3, <3>1, <3>2 DEF LifeInv, PointersOK
    <3>3. CASE i # j
      BY <1>1, <1>2, <2>1, <3>1, <3>3 DEF LifeInv, PointersOK
    <3> QED
      BY <3>2, <3>3
  <2>6. PointersOK'
    BY <1>1, <2>4, <2>5 DEF LifeInv, PointersOK
  <2> QED
    BY <1>3, <2>2, <2>6 DEF LifeInv
<1>5. CASE installed' = installed /\ closing > 4
           /\ (s_pTable' = s_pTable \/ closing = 9)
           /\ (resources' = resources \/ closing \in 5 .. 8)
  <2>1. \A i \in 1 .. 4 : installed[Name[i]] # "static"
    BY <1>5, <1>2 DEF LifeInv, PointersOK
  <2>2. PointersOK'
    BY <1>1, <1>2, <1>5, <2>1 DEF LifeInv, PointersOK
  <2>3. ResourcesOK'
    BY <1>1, <1>2, <1>5 DEF LifeInv, ResourcesOK
  <2> QED
    BY <1>3, <2>2, <2>3 DEF LifeInv
<1>6. CASE Cleans(t)
  <2>1. CASE \E i \in DOMAIN Name :
               /\ Closing(t, ClosingOf("restore", i))
               /\ installed' = [installed EXCEPT ![Name[i]] = original[Name[i]]]
               /\ UNCHANGED <<resources, s_pTable>>
    BY <1>4, <2>1, Lists DEF Closing, ClosingOf
  <2>2. CASE \E i \in DOMAIN Destroyed :
               /\ Closing(t, ClosingOf("destroy", i))
               /\ resources' = resources \ {Destroyed[i]}
               /\ UNCHANGED <<installed, s_pTable>>
    BY <1>5, <2>2, Lists DEF Closing, ClosingOf
  <2>3. CASE Closing(t, 9) /\ UNCHANGED <<installed, resources>>
    BY <1>5, <2>3 DEF Closing
  <2> QED
    BY <1>6, <2>1, <2>2, <2>3 DEF Cleans
<1>7. CASE Ends(t)
  BY <1>5, <1>7 DEF Ends, Closing
<1> QED
  BY <1>6, <1>7

LEMMA LifeNextKeeps ==
    ASSUME LifeInv, [LifeNext]_lifeVars PROVE LifeInv'
<1>1. CASE Starts
  BY <1>1, StartKeeps
<1>2. ASSUME NEW t \in Thread, Dispatches(t) PROVE LifeInv'
  BY <1>2, DispatchKeeps
<1>3. ASSUME NEW t \in Thread, EntersAnalyzer(t) PROVE LifeInv'
  BY <1>3, EnterKeeps
<1>4. ASSUME NEW t \in Thread, EntersOriginal(t) PROVE LifeInv'
  BY <1>4, ReleaseKeeps
<1>5. ASSUME NEW t \in Thread, Continues(t) PROVE LifeInv'
  BY <1>5, ContinueKeeps
<1>6. ASSUME NEW t \in Thread, Misuses(t) PROVE LifeInv'
  BY <1>6, QuietKeeps DEF Misuses, calls, noted
<1>7. ASSUME NEW t \in Thread, Exit(t) PROVE LifeInv'
  BY <1>7, ExitKeeps
<1>8. ASSUME NEW t \in Thread, Cleans(t) \/ Ends(t) PROVE LifeInv'
  BY <1>8, CleanKeeps
<1>9. CASE StartTimePasses
  BY <1>9, QuietKeeps DEF StartTimePasses, TimePasses, noted
<1>10. CASE UNCHANGED lifeVars
  BY <1>10, QuietKeeps DEF lifeVars, analyzer, vars, noted
<1> QED
  BY <1>1, <1>2, <1>3, <1>4, <1>5, <1>6, <1>7, <1>8, <1>9, <1>10 DEF LifeNext, Over

LEMMA LifeInvHolds == LifeSpec => []LifeInv
<1>1. LifeInit => LifeInv
  BY LifeInitHolds
<1>2. LifeInv /\ [LifeNext]_lifeVars => LifeInv'
  BY LifeNextKeeps
<1> QED
  BY <1>1, <1>2, PTL DEF LifeSpec

-----------------------------------------------------------------------------
(* The theorems.                                                           *)

\* While malloc, calloc, realloc or free is replaced by the analyzer's function the
\* tables, the mutex and the key exist: the initializer makes them before its first
\* setter, the exit handler destroys them after its last.
THEOREM ReplacedFunctionsAreUsable == LifeSpec => []InstalledMeansUsable
<1>1. LifeInv => InstalledMeansUsable
  BY Lists DEF LifeInv, PointersOK, ResourcesOK, InstalledMeansUsable
<1> QED
  BY <1>1, LifeInvHolds, PTL

\* A call touches tables that are not there only if it began while they were and
\* the exit handler runs: at no other time, and no later call.
THEOREM OnlyExitBreaksCalls == LifeSpec => []OnlyCallsInFlightMisuse
<1>1. ASSUME LifeInv, NEW t \in Thread, Misused(t) PROVE complete[t] /\ exiting # NULL
  <2>1. pc[t] # "idle" \/ route[t].to = "static"
    BY <1>1 DEF Misused, Needs, MayUseCounter
  <2>2. complete[t] /\ step > 10
    BY <1>1, <2>1 DEF LifeInv, CallsOK
  <2>3. Needs(t) \subseteq Resource
    BY Lists DEF Needs
  <2>4. exiting = NULL => resources = Resource /\ s_pTable # NULL
    BY <1>1, <2>2 DEF LifeInv, ExitOK, ResourcesOK
  <2>5. "ignoreForThisThreadTlsKey" \in Resource
    BY Lists
  <2> QED
    BY <1>1, <2>2, <2>3, <2>4, <2>5 DEF Misused
<1>2. LifeInv => OnlyCallsInFlightMisuse
  BY <1>1 DEF OnlyCallsInFlightMisuse
<1> QED
  BY <1>2, LifeInvHolds, PTL

\* Whichever of the five creations fails, the initialization keeps nothing.
THEOREM FailedStartKeepsNothing == LifeSpec => []FailedStartReleasesAll
<1>1. LifeInv => FailedStartReleasesAll
  BY DEF LifeInv, ResourcesOK, FailedStartReleasesAll
<1> QED
  BY <1>1, LifeInvHolds, PTL
-----------------------------------------------------------------------------
(* Blocks, until the last step of the process.                             *)

\* A call that has read its function pointer has the block it passes, alone.
RouteOK ==
    /\ route \in [Thread -> {NoRoute} \cup
                     [fn: Family, to: {"clib", "static"}, ptr: Addr \cup {NULL}]]
    /\ \A t \in Thread : route[t].ptr # NULL =>
          /\ held[route[t].ptr] = 1
          /\ \A u \in Thread : route[u].ptr = route[t].ptr => u = t

\* A step after which at most t has no more block to pass.
LEMMA RouteKept ==
    ASSUME RouteOK, Owners', NEW t \in Thread,
           route' = route \/ route' = [route EXCEPT ![t] = NoRoute],
           \A u \in Thread : route'[u].ptr # NULL =>
               held'[route[u].ptr] >= held[route[u].ptr]
    PROVE  RouteOK'
<1> USE ConstantsAssumption DEF ConstantsAssumption
<1>1. /\ route' \in [Thread -> {NoRoute} \cup
                        [fn: Family, to: {"clib", "static"}, ptr: Addr \cup {NULL}]]
      /\ \A u \in Thread : route'[u].ptr # NULL => route'[u] = route[u]
  BY DEF RouteOK, NoRoute
<1>2. ASSUME NEW u \in Thread, route'[u].ptr # NULL
      PROVE  held'[route'[u].ptr] = 1
  <2>1. route'[u] = route[u] /\ route[u].ptr \in Addr
    BY <1>1, <1>2 DEF RouteOK, NoRoute
  <2>2. held'[route[u].ptr] \in Nat /\ held'[route[u].ptr] >= 1
    BY <1>2, <2>1 DEF RouteOK, Owners, IInv, ThreadType
  <2> QED
    BY <2>1, <2>2 DEF Owners, Ownership
<1>3. ASSUME NEW u \in Thread, NEW v \in Thread, route'[u].ptr # NULL,
             route'[v].ptr = route'[u].ptr
      PROVE  v = u
  BY <1>1, <1>3 DEF RouteOK
<1> QED
  BY <1>1, <1>2, <1>3 DEF RouteOK

\* A step that changes nothing a call has but the mutex.
LEMMA OwnersStay ==
    ASSUME Owners, UNCHANGED <<gate, ledger, ignore, pc, frame, heap, held>>,
           timeOver' \in BOOLEAN, mutex' \in Thread \cup {NULL},
           process' \in {"running", "exited", "aborted", "crashed"},
           process' = "running" => process = "running"
    PROVE  Owners'
<1>1. ThreadType' /\ LedgerType' /\ CounterOK' /\ FrameOK' /\ LedgerConsistent'
  BY DEF Owners, IInv, ThreadType, LedgerType, CounterOK, FrameOK, LedgerConsistent,
         Outstanding, gate, ledger
<1>2. FrameRole'
  BY DEF Owners, FrameRole
<1>3. Recovering' = {} /\ Ownership'
  BY DEF Owners, Recovering, Ownership, Owns, Source, ledger
<1> QED
  BY <1>1, <1>2, <1>3 DEF Owners, IInv

\* The analyzer's steps give the program's blocks back, and take none.
LEMMA ContinueHolds ==
    ASSUME Owners, NEW t \in Thread, Continue(t), NEW a \in Addr
    PROVE  held'[a] >= held[a]
<1> USE DEF Owners, IInv, ThreadType
<1>1. ASSUME NEW f, Return(t, f) PROVE held'[a] >= held[a]
  BY <1>1 DEF Return
<1>2. CASE held' = held
  BY <1>2
<1>3. CASE TraceFails(t) \/ Unlocks(t) \/ RemoveUnlocks(t) \/ FreesBlock(t) \/ AddReturnsEarly(t)
  BY <1>1, <1>2, <1>3 DEF TraceFails, Unlocks, RemoveUnlocks, FreesBlock, AddReturnsEarly
<1> QED
  BY <1>2, <1>3
  DEF Continue, TraceReleases, TraceUnlocks, TraceFrees, TraceSucceeds, AllocRecovers,
      AllocSpins, AllocRecords, AllocFails, RecordingFails, AddLocks, PrintsAndExits, RemoveLocks, AddCall

\* A call of the analyzer takes the block that was passed.
LEMMA EnterHolds ==
    ASSUME Owners, NEW t \in Thread, EntersAnalyzer(t), NEW a \in Addr, a # route[t].ptr
    PROVE  held'[a] >= held[a]
<1> USE ConstantsAssumption DEF ConstantsAssumption, Owners, IInv, ThreadType
<1>1. ASSUME NEW ptr \in Addr \cup {NULL}, GivesUp(ptr), ptr = route[t].ptr
      PROVE  held'[a] >= held[a]
  BY <1>1 DEF GivesUp
<1>2. CASE held' = held
  BY <1>2
<1>3. CASE AllocEarly(t)
  BY <1>3 DEF AllocEarly
<1>4. CASE FreeCall(t) /\ frame'[t].ptr = route[t].ptr
  <2>1. PICK ptr \in Addr \cup {NULL} :
           GivesUp(ptr) /\ RemoveCall(t, CallFrame("free", ptr, 0, NULL))
    BY <1>4 DEF FreeCall
  <2>2. frame'[t].ptr = ptr
    BY <2>1 DEF RemoveCall, CallFrame
  <2> QED BY <1>1, <1>4, <2>1, <2>2
<1>5. CASE /\ ReallocMoves(t) \/ ReallocFails(t) \/ ReallocToZero(t)
           /\ frame'[t].ptr = route[t].ptr
  <2>1. PICK ptr \in Addr \cup {NULL} :
           /\ ReallocArgs(t, ptr)
           /\ \E want, ret : RemoveCall(t, CallFrame("realloc", ptr, want, ret))
    BY <1>5, Zenon DEF ReallocMoves, ReallocFails, ReallocToZero
  <2>2. frame'[t].ptr = ptr
    BY <2>1 DEF RemoveCall, CallFrame
  <2> QED BY <1>1, <1>5, <2>1, <2>2 DEF ReallocArgs
<1> QED
  BY <1>2, <1>3, <1>4, <1>5 DEF EntersAnalyzer, AllocCall, ReallocStays

\* realloc in place changes the size of a block, nothing else.
LEMMA StaysKeeps ==
    ASSUME Owners, RouteOK, NEW t \in Thread, ReallocStays(t)
    PROVE  Owners' /\ DOMAIN heap' = DOMAIN heap
<1>1. PICK r \in Request : heap' = [heap EXCEPT ![route[t].ptr].size = r[1]]
  BY DEF ReallocStays
<1>2. r[1] \in Nat
  BY ConstantsAssumption DEF ConstantsAssumption
<1>3. UNCHANGED <<gate, ledger, mutex, ignore, pc, frame, timeOver, held, process>>
  BY DEF ReallocStays
<1>4. heap' \in [DOMAIN heap' -> Block] /\ DOMAIN heap' = DOMAIN heap
  BY <1>1, <1>2 DEF Owners, IInv, ThreadType, Block
<1>5. ThreadType' /\ LedgerType' /\ CounterOK' /\ FrameOK' /\ LedgerConsistent'
  BY <1>3, <1>4
  DEF Owners, IInv, ThreadType, LedgerType, CounterOK, FrameOK, LedgerConsistent,
      Outstanding, gate, ledger
<1>6. FrameRole' /\ Recovering' = {} /\ Ownership'
  BY <1>3, <1>4 DEF Owners, FrameRole, Recovering, Ownership, Owns, Source, ledger
<1> QED
  BY <1>4, <1>5, <1>6 DEF Owners, IInv

LEMMA EnterOwners ==
    ASSUME Owners, RouteOK, NEW t \in Thread, EntersAnalyzer(t)
    PROVE  Owners' /\ RouteOK'
<1>1. Owners'
  <2>1. CASE ReallocStays(t)
    BY <2>1, StaysKeeps
  <2>2. CASE Begin(t)
    BY <2>2, OwnersKept, MainAssumption DEF MainAssumption, Next
  <2> QED
    BY <2>1, <2>2 DEF EntersAnalyzer, Begin
<1>2. route' = [route EXCEPT ![t] = NoRoute]
  BY DEF EntersAnalyzer
<1>3. ASSUME NEW u \in Thread, route'[u].ptr # NULL
      PROVE  held'[route[u].ptr] >= held[route[u].ptr]
  <2>1. u # t /\ route[u].ptr # NULL
    BY <1>2, <1>3 DEF RouteOK, NoRoute
  <2>2. route[u].ptr \in Addr /\ route[u].ptr # route[t].ptr
    BY <2>1 DEF RouteOK, NoRoute
  <2> QED
    BY <2>2, EnterHolds
<1> QED
  BY <1>1, <1>2, <1>3, RouteKept

\* The original allocator releases the block passed and finds a new one.
LEMMA OriginalOwners ==
    ASSUME Owners, RouteOK, NEW t \in Thread, EntersOriginal(t)
    PROVE  /\ Owners' /\ RouteOK'
           /\ DOMAIN heap \ {route[t].ptr} \subseteq DOMAIN heap'
<1> DEFINE ptr == route[t].ptr
<1>1. PICK keep \in SUBSET ({ptr} \ {NULL}) : \E new \in SUBSET Available :
         LET rest == Restrict(heap, DOMAIN heap \ ({ptr} \ keep)) IN
         /\ \E r \in Request :
               heap' = [a \in DOMAIN rest \cup new |->
                           IF a \in new THEN [size |-> r[1] * r[2], seen |-> FALSE]
                           ELSE rest[a]]
         /\ held' = [a \in Addr |-> IF a \in new THEN held[a] + 1
                                    ELSE IF a = ptr /\ a \notin keep
                                    THEN held[a] - 1 ELSE held[a]]
  BY DEF EntersOriginal
<1> DEFINE kept == DOMAIN heap \ ({ptr} \ keep)
<1>2. PICK new \in SUBSET Available :
         /\ \E r \in Request :
               heap' = [a \in kept \cup new |->
                           IF a \in new THEN [size |-> r[1] * r[2], seen |-> FALSE]
                           ELSE heap[a]]
         /\ held' = [a \in Addr |-> IF a \in new THEN held[a] + 1
                                    ELSE IF a = ptr /\ a \notin keep
                                    THEN held[a] - 1 ELSE held[a]]
  <2> DEFINE rest == Restrict(heap, kept)
  <2>1. DOMAIN rest = kept /\ \A a \in kept : rest[a] = heap[a]
    BY DEF Restrict
  <2>2. PICK new \in SUBSET Available :
           /\ \E r \in Request :
                 heap' = [a \in DOMAIN rest \cup new |->
                             IF a \in new THEN [size |-> r[1] * r[2], seen |-> FALSE]
                             ELSE rest[a]]
           /\ held' = [a \in Addr |-> IF a \in new THEN held[a] + 1
                                      ELSE IF a = ptr /\ a \notin keep
                                      THEN held[a] - 1 ELSE held[a]]
    BY <1>1
  <2>3. PICK r \in Request :
           heap' = [a \in DOMAIN rest \cup new |->
                       IF a \in new THEN [size |-> r[1] * r[2], seen |-> FALSE] ELSE rest[a]]
    BY <2>2
  <2>4. heap' = [a \in kept \cup new |->
                    IF a \in new THEN [size |-> r[1] * r[2], seen |-> FALSE] ELSE heap[a]]
    BY <2>1, <2>3
  <2> QED
    BY <2>2, <2>4
<1>3. PICK r \in Request :
         heap' = [a \in kept \cup new |->
                     IF a \in new THEN [size |-> r[1] * r[2], seen |-> FALSE] ELSE heap[a]]
  BY <1>2
<1>4. /\ \A a \in new : a \in Addr /\ a \notin DOMAIN heap /\ held[a] = 0
      /\ ptr # NULL => ptr \in Addr /\ held[ptr] = 1 /\ ptr \in DOMAIN heap
      /\ held \in [Addr -> Nat] /\ DOMAIN heap \subseteq Addr
      /\ DOMAIN heap' = kept \cup new
  BY <1>3 DEF Available, Free, Owners, Ownership, IInv, ThreadType, RouteOK, NoRoute
<1>5. UNCHANGED <<gate, ledger, mutex, ignore, pc, frame, timeOver, process>>
      /\ route' = [route EXCEPT ![t] = NoRoute]
  BY DEF EntersOriginal
<1>6. heap' \in [DOMAIN heap' -> Block] /\ DOMAIN heap' \subseteq Addr
  <2>1. r[1] * r[2] \in Nat
    BY ConstantsAssumption DEF ConstantsAssumption
  <2> QED
    BY <1>3, <1>4, <2>1 DEF Owners, IInv, ThreadType, Block
<1>7. held' \in [Addr -> Nat]
  BY <1>2, <1>4, ConstantsAssumption DEF ConstantsAssumption
<1>8. ThreadType' /\ LedgerType' /\ CounterOK' /\ FrameOK' /\ LedgerConsistent'
  BY <1>5, <1>6, <1>7
  DEF Owners, IInv, ThreadType, LedgerType, CounterOK, FrameOK, LedgerConsistent,
      Outstanding, gate, ledger
<1>9. FrameRole' /\ Recovering' = {}
  BY <1>5 DEF Owners, FrameRole, Recovering, ledger
<1>10. Ownership'
  <2>1. \A u \in Thread, a \in Addr : Owns(u, a)' <=> Owns(u, a)
    BY <1>5 DEF Owns, Source
  <2>2. \A a \in Addr : held'[a] # 0 => held'[a] = 1 /\ a \in DOMAIN heap'
    BY <1>2, <1>4, ConstantsAssumption DEF Owners, Ownership, ConstantsAssumption
  <2>3. \A u \in Thread, a \in Addr : Owns(u, a) =>
           a \in DOMAIN heap /\ held[a] = 0 /\ a \notin new /\ a # ptr
    BY <1>4, ConstantsAssumption DEF Owners, Ownership, ConstantsAssumption
  <2>4. \A u \in Thread, a \in Addr : Owns(u, a) => a \in DOMAIN heap' /\ held'[a] = 0
    BY <1>2, <1>4, <2>3
  <2> QED
    BY <1>5, <2>1, <2>2, <2>4 DEF Owners, Ownership
<1>11. Owners'
  BY <1>8, <1>9, <1>10 DEF Owners, IInv
<1>12. ASSUME NEW u \in Thread, route'[u].ptr # NULL
       PROVE  held'[route[u].ptr] >= held[route[u].ptr]
  <2>1. u # t /\ route[u].ptr # NULL
    BY <1>5, <1>12 DEF RouteOK, NoRoute
  <2>2. route[u].ptr \in Addr /\ route[u].ptr # ptr
    BY <2>1 DEF RouteOK, NoRoute
  <2> QED
    BY <1>2, <1>4, <2>2
<1>13. DOMAIN heap \ {ptr} \subseteq DOMAIN heap'
  BY <1>4
<1> QED
  BY <1>5, <1>11, <1>12, <1>13, RouteKept

LEMMA DispatchOwners ==
    ASSUME Owners, RouteOK, PointersOK, NEW t \in Thread, Dispatches(t)
    PROVE  Owners' /\ RouteOK'
<1>1. PICK n \in Family, ptr \in Addr \cup {NULL} :
         /\ ptr # NULL => Spare(ptr)
         /\ route' = [route EXCEPT ![t] = [fn |-> n, to |-> installed[n], ptr |-> ptr]]
  BY DEF Dispatches
<1>2. UNCHANGED analyzer
  BY DEF Dispatches
<1>3. Owners'
  BY <1>2, OwnersStay DEF analyzer, vars, gate, ledger, Owners, IInv, ThreadType
<1>4. ASSUME ptr # NULL
      PROVE  held[ptr] = 1 /\ \A u \in Thread : route[u].ptr # ptr
  <2> DEFINE Passing == {u \in Thread : route[u].ptr = ptr}
  <2>1. held[ptr] > Cardinality(Passing) /\ held[ptr] \in Nat
    BY <1>1, <1>4 DEF Spare, Owners, IInv, ThreadType
  <2>2. CASE Passing = {}
    <3>1. held[ptr] > 0
      BY <2>1, <2>2, FS_EmptySet
    <3> QED
      BY <1>4, <2>2, <3>1 DEF Owners, Ownership
  <2>3. ASSUME NEW u \in Passing PROVE FALSE
    <3>1. Passing = {u} /\ held[ptr] = 1
      BY <1>4 DEF RouteOK
    <3>2. Cardinality(Passing) = 1
      BY <3>1, FS_Singleton
    <3> QED
      BY <2>1, <3>1, <3>2
  <2> QED
    BY <2>2, <2>3
<1>5. installed[n] \in {"clib", "static"}
  BY DEF PointersOK
<1>6. route' \in [Thread -> {NoRoute} \cup
                     [fn: Family, to: {"clib", "static"}, ptr: Addr \cup {NULL}]]
  BY <1>1, <1>5 DEF RouteOK
<1>7. route'[t].ptr = ptr /\ \A u \in Thread \ {t} : route'[u] = route[u]
  BY <1>1 DEF RouteOK
<1>8. ASSUME NEW u \in Thread, route'[u].ptr # NULL
      PROVE  held'[route'[u].ptr] = 1 /\ \A v \in Thread : route'[v].ptr = route'[u].ptr => v = u
  <2>1. held' = held
    BY <1>2 DEF analyzer, vars
  <2>2. CASE u = t
    BY <1>4, <1>7, <1>8, <2>1, <2>2
  <2>3. CASE u # t
    <3>1. held[route[u].ptr] = 1 /\ \A v \in Thread : route[v].ptr = route[u].ptr => v = u
      BY <1>7, <1>8, <2>3 DEF RouteOK
    <3>2. ptr # route[u].ptr
      BY <1>4, <1>7, <1>8, <2>3
    <3> QED
      BY <1>7, <2>1, <2>3, <3>1, <3>2
  <2> QED
    BY <2>2, <2>3
<1> QED
  BY <1>3, <1>6, <1>8 DEF RouteOK

\* What is left of the types.
LifeRest ==
    /\ resources \subseteq Resource
    /\ s_pTable \in {"pTables", NULL}
    /\ exiting \in Thread \cup {NULL}
    /\ closing \in 1 .. 11
    /\ inTime \in BOOLEAN

LEMMA RestKept ==
    ASSUME LifeInv, Owners, LifeRest, [LifeNext]_lifeVars PROVE LifeRest'
<1> USE Lists DEF LifeRest
<1>0. \A i \in DOMAIN Created : Created[i] \in Resource
  OBVIOUS
<1>1. CASE Creates \/ CreateFails \/ PublishesTable \/ Registers
  BY <1>0, <1>1 DEF Creates, CreateFails, PublishesTable, Registers, calls, noted
<1>2. CASE Installs
  BY <1>2 DEF Installs, Owners, IInv, ThreadType
<1>3. ASSUME NEW t \in Thread, Exit(t) PROVE LifeRest'
  BY <1>3 DEF Exit, noted
<1>4. ASSUME NEW t \in Thread, Cleans(t) \/ Ends(t) PROVE LifeRest'
  <2>1. closing \in 1 .. 10 /\ closing' = closing + 1
    BY <1>4 DEF Cleans, Ends, Closing, ClosingOf
  <2>2. resources' \subseteq resources /\ s_pTable' \in {s_pTable, NULL}
        /\ UNCHANGED <<exiting, inTime>>
    BY <1>4 DEF Cleans, Ends, calls, noted
  <2> QED
    BY <2>1, <2>2
<1>5. CASE UNCHANGED <<life, inTime>>
  BY <1>5 DEF life
<1> QED
  BY <1>1, <1>2, <1>3, <1>4, <1>5
  DEF LifeNext, Over, Starts, Dispatches, EntersAnalyzer, EntersOriginal, Continues, Misuses,
      StartTimePasses, calls, noted, lifeVars

LEMMA BlocksKept ==
    ASSUME LifeInv, Owners, RouteOK, [LifeNext]_lifeVars PROVE Owners' /\ RouteOK'
<1>1. PointersOK
  BY DEF LifeInv
<1>2. ASSUME UNCHANGED <<gate, ledger, ignore, pc, frame, heap, held, route>>,
             timeOver' \in BOOLEAN, mutex' \in Thread \cup {NULL},
             process' \in {process, "exited", "crashed"},
             process' = "running" => process = "running"
      PROVE  Owners' /\ RouteOK'
  <2>1. Owners'
    BY <1>2, OwnersStay DEF Owners, IInv, ThreadType
  <2> QED
    BY <1>2, <2>1 DEF RouteOK
<1>3. mutex \in Thread \cup {NULL} /\ timeOver \in BOOLEAN
  BY DEF Owners, IInv, ThreadType
<1>4. CASE Starts \/ UNCHANGED lifeVars \/ StartTimePasses
  BY <1>2, <1>3, <1>4
  DEF Starts, Creates, CreateFails, PublishesTable, Registers, Installs, Starting, calls,
      lifeVars, analyzer, vars, gate, ledger, StartTimePasses, TimePasses
<1>5. ASSUME NEW t \in Thread, Misuses(t) \/ Cleans(t) \/ Ends(t) PROVE Owners' /\ RouteOK'
  BY <1>2, <1>3, <1>5 DEF Misuses, Cleans, Ends, Closing, calls
<1>6. ASSUME NEW t \in Thread, Exit(t) PROVE Owners' /\ RouteOK'
  BY <1>2, <1>3, <1>6 DEF Exit, CallsExit, Lock
<1>7. ASSUME NEW t \in Thread, Continues(t) PROVE Owners' /\ RouteOK'
  <2>1. Continue(t) /\ route' = route
    BY <1>7 DEF Continues
  <2>2. Owners'
    BY <2>1, OwnersKept, MainAssumption DEF MainAssumption, Next
  <2>3. ASSUME NEW u \in Thread, route'[u].ptr # NULL
        PROVE  held'[route[u].ptr] >= held[route[u].ptr]
    BY <2>1, <2>3, ContinueHolds DEF RouteOK, NoRoute
  <2> QED
    BY <2>1, <2>2, <2>3, RouteKept
<1>8. ASSUME NEW t \in Thread, Dispatches(t) PROVE Owners' /\ RouteOK'
  BY <1>1, <1>8, DispatchOwners
<1>9. ASSUME NEW t \in Thread, EntersAnalyzer(t) PROVE Owners' /\ RouteOK'
  BY <1>9, EnterOwners
<1>10. ASSUME NEW t \in Thread, EntersOriginal(t) PROVE Owners' /\ RouteOK'
  BY <1>10, OriginalOwners
<1> QED
  BY <1>4, <1>5, <1>6, <1>7, <1>8, <1>9, <1>10 DEF LifeNext, Over

LEMMA BlocksHold == LifeSpec => [](LifeInv /\ Owners /\ RouteOK /\ LifeRest)
<1>1. LifeInit => Owners /\ RouteOK /\ LifeRest
  <2> SUFFICES ASSUME LifeInit PROVE Owners /\ RouteOK /\ LifeRest
    OBVIOUS
  <2>1. Owners
    BY HInvInit DEF LifeInit, HInv
  <2>2. RouteOK
    BY DEF LifeInit, RouteOK, NoRoute
  <2>3. LifeRest
    <3>1. resources = {} /\ s_pTable = NULL /\ exiting = NULL /\ closing \in 1 .. 11
      BY DEF LifeInit
    <3>2. inTime \in BOOLEAN
      BY DEF LifeInit
    <3> QED
      BY <3>1, <3>2 DEF LifeRest
  <2> QED
    BY <2>1, <2>2, <2>3
<1>2. LifeInv /\ Owners /\ RouteOK /\ LifeRest /\ [LifeNext]_lifeVars
      => Owners' /\ RouteOK' /\ LifeRest'
  BY BlocksKept, RestKept
<1> QED
  BY <1>1, <1>2, LifeInvHolds, PTL DEF LifeSpec

-----------------------------------------------------------------------------
(* Records, until the exit begins.                                         *)

\* As long as the initial delay lasts nothing is recorded, nor on its way.
Early ==
    ~timeOver =>
        /\ bInitializationTimeNotPassed
        /\ DOMAIN byAddress = {}
        /\ \A t \in Thread : pc[t] \notin Tracing \cup {"lock"}

\* The delay was not over before the last function was replaced, and no exit has
\* begun.
Sound == exiting = NULL /\ (timeOver => inTime /\ step > 14)

\* What is released past the analyzer is not recorded.
PassedByUnrecorded ==
    \A t \in Thread : route[t].to = "clib" /\ route[t].ptr # NULL =>
        route[t].ptr \notin DOMAIN byAddress

RecordsInv == Early /\ (Sound => Records /\ PassedByUnrecorded)

LEMMA EarlyKept == ASSUME IInv, Early, [Next]_vars PROVE Early'
<1> USE DEF Early, IInv, ThreadType, At, Goto, Tracing
<1>1. CASE timeOver'
  BY <1>1
<1>2. CASE timeOver
  <2>1. ASSUME NEW t \in Thread, Begin(t) PROVE UNCHANGED timeOver
    BY <2>1
    DEF Begin, AllocEarly, AllocCall, FreeCall, TraceAllocates, ReallocMoves, ReallocInPlace,
        ReallocFails, ReallocToZero
  <2>2. ASSUME NEW t \in Thread, Continue(t) PROVE UNCHANGED timeOver
    <3>1. CASE \/ TraceReleases(t) \/ TraceUnlocks(t) \/ TraceFrees(t)
               \/ TraceSucceeds(t) \/ TraceFails(t)
               \/ AllocRecovers(t) \/ AllocSpins(t) \/ AllocRecords(t) \/ AllocFails(t)
      BY <3>1
      DEF TraceReleases, TraceUnlocks, TraceFrees, TraceSucceeds, TraceFails,
          AllocRecovers, AllocSpins, AllocRecords, AllocFails
    <3>2. CASE \/ RecordingFails(t) \/ AddLocks(t) \/ Unlocks(t) \/ PrintsAndExits(t)
               \/ RemoveLocks(t) \/ RemoveUnlocks(t) \/ FreesBlock(t)
               \/ AddReturnsEarly(t) \/ AddCall(t)
      BY <3>2
      DEF RecordingFails, AddLocks, Unlocks, PrintsAndExits, RemoveLocks, RemoveUnlocks,
          FreesBlock, AddReturnsEarly, AddCall
    <3> QED
      BY <2>2, <3>1, <3>2 DEF Continue
  <2>3. timeOver' = timeOver \/ timeOver'
    BY <2>1, <2>2 DEF Next, Halted, Spins, TimePasses, vars
  <2> QED
    BY <1>1, <1>2, <2>3
<1>3. ASSUME NEW t \in Thread, ~timeOver, Begin(t) \/ Continue(t) PROVE Early'
  <2>1. /\ bInitializationTimeNotPassed /\ DOMAIN byAddress = {}
        /\ \A u \in Thread : pc[u] \notin Tracing \cup {"lock"}
    BY <1>3
  <2>2. ~PassedEarlyReturn(t)
    BY <1>3, <2>1 DEF PassedEarlyReturn, HasReasonForEarlyReturn
  <2>3. ASSUME NEW loc \in Location \ (Tracing \cup {"lock"}), Goto(t, loc)
        PROVE  \A u \in Thread : pc'[u] \notin Tracing \cup {"lock"}
    BY <2>1, <2>3
  <2>4. CASE \/ AllocEarly(t) \/ ReallocInPlace(t) \/ PrintsAndExits(t)
    BY <2>1, <2>4 DEF AllocEarly, ReallocInPlace, PrintsAndExits, gate, ledger
  <2>5. CASE \/ FreeCall(t) \/ ReallocMoves(t) \/ ReallocFails(t) \/ ReallocToZero(t)
    <3>1. Goto(t, "rmlock") /\ UNCHANGED <<gate, ledger>>
      BY <2>5 DEF FreeCall, ReallocMoves, ReallocFails, ReallocToZero, RemoveCall
    <3> QED BY <2>1, <2>3, <3>1 DEF gate, ledger, Location
  <2>6. CASE Unlocks(t) \/ FreesBlock(t) \/ AddReturnsEarly(t)
    <3>1. Goto(t, "idle") /\ UNCHANGED <<gate, ledger>>
      BY <2>6 DEF Unlocks, FreesBlock, AddReturnsEarly, Return
    <3> QED BY <2>1, <2>3, <3>1 DEF gate, ledger, Location
  <2>7. CASE RemoveUnlocks(t)
    <3>1. /\ Goto(t, "mfree") \/ Goto(t, "addcheck") \/ Goto(t, "idle")
          /\ UNCHANGED <<gate, ledger>>
      BY <2>7 DEF RemoveUnlocks, Return
    <3> QED BY <2>1, <2>3, <3>1 DEF gate, ledger, Location
  <2>8. CASE RemoveLocks(t)
    <3>1. /\ Goto(t, "rmunlock") /\ UNCHANGED gate
          /\ RemoveAllocedItemNoLock(frame[t].ptr)
      BY <2>8 DEF RemoveLocks
    <3>2. UNCHANGED ledger
      BY <2>1, <3>1 DEF RemoveAllocedItemNoLock
    <3> QED BY <2>1, <2>3, <3>1, <3>2 DEF gate, ledger, Location
  <2> QED
    BY <1>3, <2>1, <2>2, <2>4, <2>5, <2>6, <2>7, <2>8
    DEF Begin, Continue, AllocCall, AddCall, TraceAllocates, TraceReleases, TraceUnlocks,
        TraceFrees, TraceSucceeds, TraceFails, AllocRecovers, AllocSpins, AllocRecords, AllocFails, RecordingFails,
        AddLocks
<1>4. CASE UNCHANGED vars
  BY <1>4 DEF vars
<1>5. CASE TimePasses
  BY <1>5 DEF TimePasses
<1> QED
  BY <1>1, <1>2, <1>3, <1>4, <1>5 DEF Next, Halted, Spins

\* What a step records is what its call will return.
LEMMA RecordedIsOwned ==
    ASSUME Owners, NEW t \in Thread, Continue(t), NEW a \in DOMAIN byAddress'
    PROVE  a \in DOMAIN byAddress \/ frame'[t].ret = a
<1>1. CASE byAddress' = byAddress
  BY <1>1
<1>2. CASE AllocRecords(t)
  <2>1. PICK b \in Available :
           /\ frame' = [frame EXCEPT ![t].ret = b]
           /\ AddAllocedItemNoLock(t, b, SizeAll(t), frame[t].stack)
    BY <1>2 DEF AllocRecords
  <2>2. frame'[t].ret = b
    BY <2>1 DEF Owners, IInv, ThreadType, Frame
  <2>3. DOMAIN byAddress' \subseteq DOMAIN byAddress \cup {b}
    BY <2>1, AddDomain
  <2> QED BY <2>2, <2>3
<1>3. CASE AddLocks(t)
  <2>1. /\ frame' = frame
        /\ AddAllocedItemNoLock(t, frame[t].ret, SizeAll(t), frame[t].stack)
    BY <1>3 DEF AddLocks
  <2> QED BY <2>1, AddDomain
<1>4. ASSUME NEW b, RemoveAllocedItemNoLock(b) PROVE a \in DOMAIN byAddress
  BY <1>4, RemoveDomain
<1>5. CASE TraceReleases(t) \/ RemoveLocks(t)
  BY <1>4, <1>5 DEF TraceReleases, RemoveLocks
<1> QED
  BY <1>1, <1>2, <1>3, <1>5
  DEF Continue, TraceUnlocks, TraceFrees, TraceSucceeds, TraceFails, AllocRecovers,
      AllocSpins, AllocFails, RecordingFails, Unlocks, PrintsAndExits, RemoveUnlocks, FreesBlock, AddReturnsEarly,
      AddCall, ledger

\* Who is sound was sound: an exit does not end, the delay does not begin again.
LEMMA SoundBefore == ASSUME LifeInv, [LifeNext]_lifeVars, Sound' PROVE Sound
<1> USE DEF Sound
<1>1. CASE Creates \/ CreateFails \/ PublishesTable \/ Registers
  <2>1. UNCHANGED <<exiting, timeOver, inTime>>
    BY <1>1 DEF Creates, CreateFails, PublishesTable, Registers, calls, noted
  <2>2. step' > 14 => step > 14
    BY <1>1, Lists DEF Creates, CreateFails, PublishesTable, Registers, Starting
  <2> QED BY <2>1, <2>2
<1>2. CASE Installs
  <2>1. exiting' = exiting /\ timeOver' = timeOver
    BY <1>2 DEF Installs, analyzer, vars
  <2>2. CASE timeOver
    <3>1. inTime' /\ step' > 14
      BY <2>1, <2>2
    <3>2. PICK i \in 1 .. 4 : Starting(6 + i) \/ (inTime' <=> ~timeOver)
      BY <1>2, Lists DEF Installs, StepOf
    <3>3. ~Starting(6 + i)
      BY <3>1 DEF Starting
    <3> QED BY <2>2, <3>1, <3>2, <3>3, Zenon
  <2> QED BY <2>1, <2>2
<1>3. ASSUME NEW t \in Thread, Exit(t) PROVE Sound
  <2>1. exiting' \in {exiting, t} /\ UNCHANGED <<timeOver, inTime, step>>
    BY <1>3 DEF Exit, noted
  <2> QED BY <2>1, ConstantsAssumption DEF ConstantsAssumption
<1>4. CASE StartTimePasses
  <2>1. exiting' = exiting /\ timeOver' /\ UNCHANGED <<inTime, step>>
    BY <1>4 DEF StartTimePasses, TimePasses, life, noted
  <2> QED BY <2>1
<1>5. CASE UNCHANGED <<exiting, timeOver, inTime, step>>
  BY <1>5
<1>6. ASSUME NEW t \in Thread, EntersAnalyzer(t) \/ Continues(t)
      PROVE  UNCHANGED <<exiting, timeOver, inTime, step>>
  BY <1>6
  DEF EntersAnalyzer, Continues, Continue, life, noted, AllocEarly, AllocCall, FreeCall,
      ReallocMoves, ReallocStays, ReallocFails, ReallocToZero, TraceReleases,
      TraceUnlocks, TraceFrees, TraceSucceeds, TraceFails, AllocRecovers, AllocSpins, AllocRecords, AllocFails,
      RecordingFails, AddLocks, Unlocks, PrintsAndExits, RemoveLocks, RemoveUnlocks,
      FreesBlock, AddReturnsEarly, AddCall
<1> QED
  BY <1>1, <1>2, <1>3, <1>4, <1>5, <1>6
  DEF LifeNext, Over, Starts, Dispatches, EntersOriginal, Misuses, Cleans, Ends, calls, noted,
      life, analyzer, vars, lifeVars

LEMMA RecordsUntouched ==
    ASSUME Records, UNCHANGED <<byAddress, frame, pc>>,
           \A a \in DOMAIN byAddress : a \in DOMAIN heap => a \in DOMAIN heap',
           process' = "aborted" => process = "aborted"
    PROVE  Records'
BY DEF Records, RecordedBlocksAreLive, ErasedBeforeFree, NewBlockIsUnrecorded,
       AssertFailsOnlyInReallocWindow, ReallocWindow

LEMMA PassedKept ==
    ASSUME PassedByUnrecorded, RouteOK, RouteOK', Owners', NEW t \in Thread,
           route' = route \/ route' = [route EXCEPT ![t] = NoRoute],
           \A a \in DOMAIN byAddress' : a \in DOMAIN byAddress \/ frame'[t].ret = a
    PROVE  PassedByUnrecorded'
<1> SUFFICES ASSUME NEW u \in Thread, route'[u].to = "clib", route'[u].ptr # NULL,
                    route'[u].ptr \in DOMAIN byAddress'
             PROVE  FALSE
  BY DEF PassedByUnrecorded
<1>1. route'[u] = route[u] /\ route[u].ptr \in Addr
  BY DEF RouteOK, NoRoute
<1>2. frame'[t].ret = route'[u].ptr
  BY <1>1 DEF PassedByUnrecorded
<1>3. held'[route'[u].ptr] = 0
  BY <1>1, <1>2 DEF Owners, Ownership, Owns
<1>4. held'[route'[u].ptr] = 1
  BY DEF RouteOK
<1> QED
  BY <1>3, <1>4

LEMMA DispatchPasses ==
    ASSUME LifeInv, RouteOK, RecordsInv, Sound, NEW t \in Thread, Dispatches(t)
    PROVE  PassedByUnrecorded'
<1>1. PICK n \in Family, ptr \in Addr \cup {NULL} :
         route' = [route EXCEPT ![t] = [fn |-> n, to |-> installed[n], ptr |-> ptr]]
  BY DEF Dispatches
<1>2. UNCHANGED byAddress
  BY DEF Dispatches, analyzer, vars
<1>3. /\ route'[t].to = installed[n]
      /\ \A u \in Thread \ {t} : route'[u] = route[u]
  BY <1>1 DEF RouteOK
<1>4. installed[n] = "clib" => DOMAIN byAddress = {}
  <2>1. PICK i \in 1 .. 4 : n = Name[i]
    BY Lists
  <2>2. closing = 1 /\ step \in Int
    <3>1. exiting = NULL
      BY DEF Sound
    <3> QED
      BY <3>1, Lists DEF LifeInv, ExitOK, ResourcesOK
  <2>3. step > 14 => step > 10 + i /\ closing <= i
    BY <2>1, <2>2
  <2>4. step > 14 => installed[n] # "clib"
    BY <2>1, <2>3 DEF LifeInv, PointersOK
  <2> QED
    BY <2>4 DEF Sound, RecordsInv, Early
<1> QED
  BY <1>2, <1>3, <1>4 DEF RecordsInv, PassedByUnrecorded

LEMMA RecordsInvKept ==
    ASSUME LifeInv, Owners, RouteOK, Owners', RouteOK', RecordsInv, [LifeNext]_lifeVars
    PROVE  RecordsInv'
<1> DEFINE Kept == Early' /\ (Sound => Records' /\ PassedByUnrecorded')
<1> SUFFICES Kept
  BY SoundBefore DEF RecordsInv
<1>1. IInv /\ FrameRole /\ Ownership /\ hasRecoveryStack = 0 /\ Early
  BY FS_EmptySet DEF Owners, RecordsInv, IInv, LedgerConsistent, Recovering
<1>2. ASSUME UNCHANGED <<gate, ledger, frame, pc, route>>,
             timeOver' = timeOver \/ timeOver', heap' = heap,
             process' \in {process, "exited", "crashed"}
      PROVE  Kept
  <2>1. Early'
    BY <1>1, <1>2 DEF Early, gate, ledger
  <2>2. Sound => Records'
    BY <1>2, RecordsUntouched DEF RecordsInv, ledger
  <2>3. Sound => PassedByUnrecorded'
    BY <1>2 DEF RecordsInv, PassedByUnrecorded, ledger
  <2> QED
    BY <2>1, <2>2, <2>3
<1>3. CASE Starts \/ UNCHANGED lifeVars \/ StartTimePasses
  BY <1>2, <1>3
  DEF Starts, Creates, CreateFails, PublishesTable, Registers, Installs, Starting, calls,
      lifeVars, analyzer, vars, gate, ledger, StartTimePasses, TimePasses
<1>4. ASSUME NEW t \in Thread, Misuses(t) \/ Exit(t) \/ Cleans(t) \/ Ends(t) PROVE Kept
  BY <1>2, <1>4 DEF Misuses, Exit, Cleans, Ends, calls
<1>5. ASSUME NEW t \in Thread, Continues(t) PROVE Kept
  <2>1. Continue(t) /\ route' = route /\ [Next]_vars
    BY <1>5 DEF Continues, Next
  <2>2. Early'
    BY <1>1, <2>1, EarlyKept
  <2>3. Sound => Records'
    BY <1>1, <2>1, RecordsKept DEF RecordsInv
  <2>4. Sound => PassedByUnrecorded'
    BY <2>1, RecordedIsOwned, PassedKept DEF RecordsInv
  <2> QED
    BY <2>2, <2>3, <2>4
<1>6. ASSUME NEW t \in Thread, EntersAnalyzer(t) PROVE Kept
  <2>1. /\ route' = [route EXCEPT ![t] = NoRoute] /\ UNCHANGED ledger
        /\ ReallocStays(t) \/ Begin(t)
    BY <1>6
    DEF EntersAnalyzer, Begin, AllocEarly, AllocCall, FreeCall, ReallocMoves, ReallocStays,
        ReallocFails, ReallocToZero
  <2>2. Sound => PassedByUnrecorded'
    BY <2>1, PassedKept DEF RecordsInv, ledger
  <2>3. CASE ReallocStays(t)
    <3>1. Early'
      BY <1>1, <2>3 DEF ReallocStays, Early, gate, ledger
    <3>2. DOMAIN heap' = DOMAIN heap
      BY <2>3, StaysKeeps
    <3>3. Sound => Records'
      BY <2>3, <3>2, RecordsUntouched DEF ReallocStays, RecordsInv, ledger
    <3> QED
      BY <2>2, <3>1, <3>3
  <2>4. CASE Begin(t)
    <3>1. [Next]_vars
      BY <2>4 DEF Next
    <3>2. Early'
      BY <1>1, <3>1, EarlyKept
    <3>3. Sound => Records'
      BY <1>1, <3>1, RecordsKept DEF RecordsInv
    <3> QED
      BY <2>2, <3>2, <3>3
  <2> QED
    BY <2>1, <2>3, <2>4
<1>7. ASSUME NEW t \in Thread, EntersOriginal(t) PROVE Kept
  <2>1. /\ UNCHANGED <<gate, ledger, pc, frame, timeOver, process>>
        /\ route' = [route EXCEPT ![t] = NoRoute] /\ route[t].to = "clib"
    BY <1>7 DEF EntersOriginal
  <2>2. Early'
    BY <1>1, <2>1 DEF Early, gate, ledger
  <2>3. DOMAIN heap \ {route[t].ptr} \subseteq DOMAIN heap'
    BY <1>7, OriginalOwners
  <2>4. Sound => route[t].ptr \notin DOMAIN byAddress
    BY <2>1, ConstantsAssumption
    DEF RecordsInv, PassedByUnrecorded, Owners, IInv, LedgerType, ConstantsAssumption
  <2>5. Sound => Records'
    BY <2>1, <2>3, <2>4, RecordsUntouched DEF RecordsInv, ledger
  <2>6. Sound => PassedByUnrecorded'
    BY <2>1, PassedKept DEF RecordsInv, ledger
  <2> QED
    BY <2>2, <2>5, <2>6
<1>8. ASSUME NEW t \in Thread, Dispatches(t) PROVE Kept
  <2>1. UNCHANGED vars
    BY <1>8 DEF Dispatches, analyzer
  <2>2. Early'
    BY <1>1, <2>1 DEF Early, vars
  <2>3. Sound => Records'
    BY <2>1, RecordsUntouched DEF RecordsInv, vars
  <2> QED
    BY <1>8, <2>2, <2>3, DispatchPasses
<1> QED
  BY <1>3, <1>4, <1>5, <1>6, <1>7, <1>8 DEF LifeNext, Over

-----------------------------------------------------------------------------
(* The theorems about blocks.                                              *)

\* Every variable keeps its type through start-up and exit, also while an exiting
\* thread sits on the mutex and calls in flight run into what it destroys: the
\* counts of LeakAnalyzer do not go below zero, and what the getters return is
\* never the analyzer's own function.
THEOREM LifeTypesHold == LifeSpec => []LifeTypeOK
<1>1. ASSUME LifeInv, Owners, RouteOK, LifeRest PROVE LifeTypeOK
  <2>1. TypeOK
    BY <1>1, TypeSplits DEF Owners, IInv
  <2>2. step \in 0 .. Steps + 1
    BY <1>1, Lists DEF LifeInv, ResourcesOK
  <2> QED
    BY <1>1, <2>1, <2>2 DEF LifeTypeOK, LifeInv, PointersOK, CallsOK, RouteOK, LifeRest
<1> QED
  BY <1>1, BlocksHold, PTL

\* If the initial delay is over only after the four functions are replaced, then
\* until an exit begins a recorded address is a live block, but for the window of
\* realloc, and the assertion fails only there: also for blocks that were
\* allocated through one family and are released through the other.
THEOREM RecordsStayTrue == LifeSpec => []RecordsAreTrue
<1>1. LifeInit => RecordsInv
  <2> SUFFICES ASSUME LifeInit PROVE RecordsInv
    OBVIOUS
  <2>1. Records
    BY HInvInit DEF LifeInit, HInv
  <2>2. Early
    BY DEF LifeInit, Init, Early, Tracing
  <2>3. PassedByUnrecorded
    BY DEF LifeInit, PassedByUnrecorded, NoRoute
  <2> QED
    BY <2>1, <2>2, <2>3 DEF RecordsInv
<1>2. /\ LifeInv /\ Owners /\ RouteOK /\ (Owners /\ RouteOK)' /\ RecordsInv
      /\ [LifeNext]_lifeVars
      => RecordsInv'
  BY RecordsInvKept
<1>3. LifeInv /\ RecordsInv => RecordsAreTrue
  <2> SUFFICES ASSUME LifeInv, RecordsInv, inTime, Registered, exiting = NULL
               PROVE  RecordedBlocksAreLive /\ AssertFailsOnlyInReallocWindow
    BY DEF RecordsAreTrue
  <2>1. step > 14
    BY Lists DEF Registered, LifeInv, ResourcesOK
  <2>2. Sound
    BY <2>1 DEF Sound
  <2> QED
    BY <2>2 DEF RecordsInv, Records
<1> QED
  BY <1>1, <1>2, <1>3, BlocksHold, PTL DEF LifeSpec
=============================================================================

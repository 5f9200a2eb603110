------------------------------ MODULE MemoryLeak ------------------------------
(***************************************************************************)
(* The leak analyzer from the start of the program to its exit             *)
(* (src/src/core/leak_analyze/programs_investigator_core_memory_leak.c,    *)
(* with the initialization and Clean of the analyzer): an initializer makes *)
(* the tables and replaces malloc, calloc, realloc and free one by one; an *)
(* exit handler puts the four back and destroys the tables, while the      *)
(* other threads run on.                                                   *)
(*                                                                         *)
(* Every step of a call inside the analyzer is LeakAnalyzer's own.  Added  *)
(* are what the calls need (the tables may not exist) and how a call gets  *)
(* there: it reads the function pointer in one step and enters the         *)
(* function it found in another.  The capture of a stack does not allocate *)
(* here.                                                                   *)
(***************************************************************************)
EXTENDS LeakAnalyzer

CONSTANT Main  \* the thread that runs the initializer, and the program's main

ASSUME MainAssumption ==
    /\ Main \in Thread /\ FinalAction = "PrintStackAndExit"
    /\ NULL \notin {"pTables", "clib", "static"}

VARIABLES
    step,       \* the next step of the initializer
    resources,  \* what ProgsInvestAnalyzeLeakingInitialize has made
    s_pTable,   \* "tables" or NULL
    installed,  \* the function that each of the four pointers names
    original,   \* s_malloc_original ... s_free_original
    exiting,    \* the thread that runs the exit handler, or NULL
    closing,    \* the next step of the exit handler
    route,      \* a call that has read its function pointer and not entered yet
    inTime,     \* history: the analysis had not started when the four were set
    complete    \* history: the tables existed when the call read its pointer

analyzer == vars
life     == <<step, resources, s_pTable, installed, original, exiting, closing>>
lifeVars == <<analyzer, life, route, inTime, complete>>
noted    == <<inTime, complete>>
calls    == <<gate, ledger, mutex, ignore, pc, frame, timeOver, heap, held, route,
              noted>>

\* In the order of the code.
Name      == <<"malloc", "calloc", "realloc", "free">>
Created   == <<"pTables", "mutexForHashes", "hashByAddress", "hashByStack",
               "ignoreForThisThreadTlsKey">>
Destroyed == <<"ignoreForThisThreadTlsKey", "hashByAddress", "hashByStack",
               "mutexForHashes">>
Family    == ToSet(Name)
Resource  == ToSet(Created)
Steps     == 5 + 1 + 4 + 4 + 1

NoRoute == [fn |-> "none", to |-> NULL, ptr |-> NULL]

LifeInit ==
    /\ Init
    /\ step = 1
    /\ resources = {}
    /\ s_pTable = NULL
    /\ installed = [n \in Family |-> "clib"]
    /\ original = [n \in Family |-> NULL]
    /\ exiting = NULL
    /\ closing = 1
    /\ route = [t \in Thread |-> NoRoute]
    /\ inTime = FALSE
    /\ complete = [t \in Thread |-> FALSE]

-----------------------------------------------------------------------------
(* The initializer.                                                        *)

Starting(i) == process = "running" /\ step = i /\ step' = i + 1

Creates ==
    /\ \E i \in DOMAIN Created :
          Starting(i) /\ resources' = resources \cup {Created[i]}
    /\ UNCHANGED <<calls, process, s_pTable, installed, original, exiting, closing>>

\* Mutant: the structure itself is kept.
ReleasedButTables(i) == {Created[j] : j \in 2 .. i - 1}

\* What the error path of the i-th creation gives back.
Released(i) == {Created[j] : j \in 1 .. i - 1}

\* NULL is returned, and the initializer calls exit(1); step 0 tells it.
CreateFails ==
    /\ process = "running"
    /\ step \in DOMAIN Created
    /\ step' = 0
    /\ resources' = resources \ Released(step)
    /\ process' = "exited"
    /\ UNCHANGED <<calls, s_pTable, installed, original, exiting, closing>>

PublishesTable ==
    /\ Starting(6)
    /\ s_pTable' = "pTables"
    /\ UNCHANGED <<calls, process, resources, installed, original, exiting, closing>>

\* Mutant: the getters are called after the setters.
SetsFirst(what, i) == IF what = "set" THEN 6 + i ELSE 10 + i

\* When AllocFreeHookGet*Fnc and AllocFreeHookSet*Fnc are called for the i-th.
StepOf(what, i) == IF what = "get" THEN 6 + i ELSE 10 + i

\* Mutant: free is not replaced.
AllButFree(n) == IF n = "free" THEN "clib" ELSE "static"

\* ProgInvestLeakAnalyzeMallocStatic ... ProgInvestLeakAnalyzeFreeStatic.
Replacement(n) == "static"

Installs ==
    /\ \E i \in DOMAIN Name :
          \/ /\ Starting(StepOf("get", i))
             /\ original' = [original EXCEPT ![Name[i]] = installed[Name[i]]]
             /\ UNCHANGED <<installed, inTime>>
          \/ /\ Starting(StepOf("set", i))
             /\ installed' = [installed EXCEPT ![Name[i]] = Replacement(Name[i])]
             /\ inTime' = ~timeOver
             /\ UNCHANGED original
    /\ UNCHANGED <<analyzer, route, complete, resources, s_pTable, exiting, closing>>

\* atexit.
Registers ==
    /\ Starting(Steps)
    /\ UNCHANGED <<calls, process, resources, s_pTable, installed, original, exiting,
                   closing>>

Registered == step > Steps

-----------------------------------------------------------------------------
(* Calls.                                                                  *)

Busy(t) == pc[t] # "idle" \/ route[t] # NoRoute

\* Between two calls; Main once the initializer is over.
Acting(t) ==
    /\ process = "running"
    /\ ~Busy(t) /\ exiting # t
    /\ t = Main => Registered

\* A pointer that the program passes is not passed by another call as well.
Spare(ptr) == held[ptr] > Cardinality({t \in Thread : route[t].ptr = ptr})

\* The pointer of malloc, calloc, realloc or free is read.
Dispatches(t) ==
    /\ Acting(t)
    /\ \E n \in Family, ptr \in Addr \cup {NULL} :
          /\ ptr # NULL => n \in {"realloc", "free"} /\ Spare(ptr)
          /\ route' = [route EXCEPT ![t] = [fn |-> n, to |-> installed[n], ptr |-> ptr]]
    /\ complete' = [complete EXCEPT ![t] = resources = Resource]
    /\ UNCHANGED <<analyzer, life, inTime>>

\* ReallocInPlace for the pointer passed.
ReallocStays(t) ==
    /\ route[t].ptr # NULL
    /\ \E r \in Request : r[1] # 0 /\ heap' = [heap EXCEPT ![route[t].ptr].size = r[1]]
    /\ UNCHANGED <<gate, ledger, mutex, ignore, pc, frame, timeOver, held, process>>

\* The analyzer's function, which tests the early return or locks with what
\* Initialize made.
EntersAnalyzer(t) ==
    /\ process = "running" /\ route[t].to = "static"
    /\ s_pTable # NULL
    /\ \/ /\ route[t].fn \in {"malloc", "calloc"}
          /\ analyzeOngoing => "ignoreForThisThreadTlsKey" \in resources
          /\ AllocEarly(t) \/ AllocCall(t)
       \/ /\ route[t].fn = "realloc"
          /\ \/ ReallocStays(t)
             \/ /\ "ignoreForThisThreadTlsKey" \in resources
                /\ ReallocMoves(t) \/ ReallocFails(t) \/ ReallocToZero(t)
                /\ frame'[t].ptr = route[t].ptr
       \/ /\ route[t].fn = "free"
          /\ "ignoreForThisThreadTlsKey" \in resources
          /\ FreeCall(t)
          /\ frame'[t].ptr = route[t].ptr
    /\ route' = [route EXCEPT ![t] = NoRoute]
    /\ UNCHANGED <<life, noted>>

\* The original allocator itself: the block passed goes, a new one comes, both
\* (realloc, in place or not) or neither (no memory).
EntersOriginal(t) ==
    /\ process = "running" /\ route[t].to = "clib"
    /\ \E keep \in SUBSET ({route[t].ptr} \ {NULL}), new \in SUBSET Available :
          LET rest == Restrict(heap, DOMAIN heap \ ({route[t].ptr} \ keep)) IN
          /\ Cardinality(new) <= IF route[t].fn = "free" THEN 0 ELSE 1
          /\ keep # {} => route[t].fn = "realloc" /\ new = {}
          /\ \E r \in Request :
                heap' = [a \in DOMAIN rest \cup new |->
                            IF a \in new THEN [size |-> r[1] * r[2], seen |-> FALSE]
                            ELSE rest[a]]
          /\ held' = [a \in Addr |-> IF a \in new THEN held[a] + 1
                                     ELSE IF a = route[t].ptr /\ a \notin keep
                                     THEN held[a] - 1 ELSE held[a]]
    /\ route' = [route EXCEPT ![t] = NoRoute]
    /\ UNCHANGED <<gate, ledger, mutex, ignore, pc, frame, timeOver, process, life,
                   noted>>

\* What every next step of a call inside the analyzer uses.
Needs(t) ==
    CASE pc[t] \in {"lock", "rmlock"} ->
            {"mutexForHashes", "hashByAddress", "hashByStack"}
      [] pc[t] \in {"unlock", "rmunlock", "trunlock"} ->
            {"mutexForHashes", "ignoreForThisThreadTlsKey"}
      [] pc[t] = "addcheck" -> {"ignoreForThisThreadTlsKey"}
      [] pc[t] = "print"    -> {"hashByStack"}
      [] OTHER              -> {}

\* The counter is read in the final action, under the lock, and decremented when
\* malloc or calloc gets no stack.
MayUseCounter(t) == pc[t] = "lock" \/ (pc[t] = "trace" /\ frame[t].op = "alloc")
UsesCounter(t)   == MayUseCounter(t) /\ pc'[t] \in {"print", "idle"}

\* A call that may be about to use what is not there: NULL for the tables on its
\* way in, or something that Clean destroyed.
Misused(t) ==
    /\ exiting # t
    /\ \/ ~(Needs(t) \subseteq resources)
       \/ MayUseCounter(t) /\ "ignoreForThisThreadTlsKey" \notin resources
       \/ /\ route[t].to = "static"
          /\ \/ s_pTable = NULL
             \/ /\ route[t].fn \in {"malloc", "calloc"} => analyzeOngoing
                /\ "ignoreForThisThreadTlsKey" \notin resources

Misuses(t) ==
    /\ process = "running" /\ Misused(t)
    /\ process' = "crashed"
    /\ UNCHANGED <<calls, life>>

\* LeakAnalyzer's steps but for those that call exit(1).
Continues(t) ==
    /\ exiting # t
    /\ Needs(t) \subseteq resources
    /\ Continue(t)
    /\ UsesCounter(t) => "ignoreForThisThreadTlsKey" \in resources
    /\ process' # "exited"
    /\ UNCHANGED <<life, route, noted>>

-----------------------------------------------------------------------------
(* The exit.                                                               *)

\* exit: the program's, the report's, the one of a capture that fails in
\* realloc, and the one under the mutex without memory for a record.
CallsExit(t) ==
    \/ Acting(t) /\ UNCHANGED mutex
    \/ At(t, "print") /\ Needs(t) \subseteq resources /\ UNCHANGED mutex
    \/ At(t, "trace") /\ frame[t].op = "realloc" /\ UNCHANGED mutex
    \/ At(t, "lock") /\ Needs(t) \subseteq resources /\ Lock(t)

\* The first call runs the handler; before the handler is registered, and for a
\* second call, the process ends (or the second one waits for the first).
Exit(t) ==
    /\ exiting # t
    /\ CallsExit(t)
    /\ IF Registered /\ exiting = NULL
       THEN exiting' = t /\ UNCHANGED process
       ELSE process' = "exited" /\ UNCHANGED exiting
    /\ UNCHANGED <<gate, ledger, ignore, pc, frame, timeOver, heap, held, route, noted,
                   step, resources, s_pTable, installed, original, closing>>

\* Mutant: the handler waits until nobody holds the mutex.
ClosingWaits(t, i) ==
    process = "running" /\ mutex = NULL /\ exiting = t /\ closing = i /\ closing' = i + 1

Closing(t, i) ==
    process = "running" /\ exiting = t /\ closing = i /\ closing' = i + 1

\* Mutant: the tables go first.
DestroysFirst(what, i) == IF what = "destroy" THEN i ELSE 4 + i

\* The four are put back, then ProgsInvestAnalyzeLeakingClean, without the lock;
\* the structure pTables is not freed.
ClosingOf(what, i) == IF what = "restore" THEN i ELSE 4 + i

Cleans(t) ==
    /\ \/ \E i \in DOMAIN Name :
             /\ Closing(t, ClosingOf("restore", i))
             /\ installed' = [installed EXCEPT ![Name[i]] = original[Name[i]]]
             /\ UNCHANGED <<resources, s_pTable>>
       \/ \E i \in DOMAIN Destroyed :
             /\ Closing(t, ClosingOf("destroy", i))
             /\ resources' = resources \ {Destroyed[i]}
             /\ UNCHANGED <<installed, s_pTable>>
       \/ /\ Closing(t, 9)
          /\ s_pTable' = NULL
          /\ UNCHANGED <<installed, resources>>
    /\ UNCHANGED <<calls, process, step, original, exiting>>

Ends(t) ==
    /\ Closing(t, 10)
    /\ process' = "exited"
    /\ UNCHANGED <<calls, step, resources, s_pTable, installed, original, exiting>>

\* deltaTimeToStartAnalyze, from the creation of the tables.
StartTimePasses ==
    /\ s_pTable # NULL
    /\ TimePasses
    /\ UNCHANGED <<life, route, noted>>

Over == process # "running" /\ UNCHANGED lifeVars

Starts == Creates \/ CreateFails \/ PublishesTable \/ Installs \/ Registers

LifeNext ==
    \/ Starts
    \/ \E t \in Thread :
          \/ Dispatches(t) \/ EntersAnalyzer(t) \/ EntersOriginal(t)
          \/ Continues(t) \/ Misuses(t)
          \/ Exit(t) \/ Cleans(t) \/ Ends(t)
    \/ StartTimePasses
    \/ Over

LifeSpec == LifeInit /\ [][LifeNext]_lifeVars

\* The thread that exits goes on; nothing is assumed of the others.
FairLifeSpec == LifeSpec /\ \A t \in Thread : WF_lifeVars(Cleans(t) \/ Ends(t))

-----------------------------------------------------------------------------
(* Properties.                                                             *)

\* The type of every variable; what the getters return is never the analyzer's
\* own function.
LifeTypeOK ==
    /\ TypeOK
    /\ step \in 0 .. Steps + 1
    /\ resources \subseteq Resource
    /\ s_pTable \in {"pTables", NULL}
    /\ installed \in [Family -> {"clib", "static"}]
    /\ original \in [Family -> {"clib", NULL}]
    /\ exiting \in Thread \cup {NULL}
    /\ closing \in 1 .. 11
    /\ route \in [Thread -> {NoRoute} \cup
                     [fn: Family, to: {"clib", "static"}, ptr: Addr \cup {NULL}]]
    /\ inTime \in BOOLEAN
    /\ complete \in [Thread -> BOOLEAN]

\* While a function of the program is replaced by the analyzer's, everything that
\* this one uses exists: it is made before the first replacement and destroyed
\* after the last one is taken back.
InstalledMeansUsable ==
    \A n \in Family :
        installed[n] = "static" => s_pTable # NULL /\ resources = Resource

\* A call that begins when the tables do not exist, or no longer, never touches
\* them.  Those in flight when the exit handler runs may.
OnlyCallsInFlightMisuse ==
    \A t \in Thread : Misused(t) => complete[t] /\ exiting # NULL

\* The four functions are replaced one after the other, so a block may be
\* allocated through one family and released through the other.  If the analysis
\* starts only after the last replacement, the tables stay true all the same,
\* until the program exits.
RecordsAreTrue ==
    inTime /\ Registered /\ exiting = NULL =>
        /\ RecordedBlocksAreLive
        /\ AssertFailsOnlyInReallocWindow

\* An initialization that fails gives back everything that it made.
FailedStartReleasesAll ==
    step = 0 => resources = {}

\* An exit ends the process, whatever the other threads hold, and also when it is
\* called by the analyzer itself with the mutex locked.
ExitCompletes == exiting # NULL ~> process # "running"
=============================================================================

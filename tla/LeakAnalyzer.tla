---------------------------- MODULE LeakAnalyzer ----------------------------
(***************************************************************************)
(* The leak analyzer of programs_investigator                              *)
(* (src/src/core/leak_analyze/programs_investigator_core_analyze_leaking.c)*)
(* called concurrently by the threads of an instrumented program.          *)
(*                                                                         *)
(* Every allocation is recorded under the call stack that made it, every   *)
(* release erases the record; a stack with more than CountMax outstanding  *)
(* blocks triggers the final action.                                       *)
(*                                                                         *)
(* Grain.  A thread's counter of ignored calls is thread local and the     *)
(* tables are touched only under mutexForHashes, so the body of a critical *)
(* section is one step together with the acquisition of the mutex, and the *)
(* release is a step of its own.  Each call of the original allocator      *)
(* outside a critical section is a step of its own too.                    *)
(***************************************************************************)
EXTENDS Integers, FiniteSets, Sequences, SequencesExt

CONSTANTS
    Thread,          \* the threads of the instrumented program
    Addr,            \* the addresses the original allocator can hand out
    Stack,           \* the call stacks that allocate
    NULL,            \* the null pointer, and "no thread"
    Calls,           \* the operations the program calls
    Request,         \* the pairs <<count, element size>> it asks for; malloc: <<n, 1>>
    CountMax,        \* countForThisStackMax
    FinalAction,     \* fncWhenLeak
    SizeModulus,     \* size_t arithmetic is modulo this
    RecoveryModulus, \* hasRecoveryStack is a uint16_t: arithmetic modulo this
    MaxHolders       \* bound: the pointers to a block, calls in progress included

ASSUME ConstantsAssumption ==
    /\ NULL \notin Thread \cup Addr \cup Stack
    /\ Calls \subseteq {"alloc", "realloc", "free"}
    /\ FinalAction \in {"PrintStackAndExit", "TryFixLeak"}
    /\ CountMax \in Nat
    /\ SizeModulus \in Nat \ {0}
    /\ RecoveryModulus \in Nat \ {0}
    /\ MaxHolders \in Nat \ {0}
    /\ Request \subseteq (0 .. SizeModulus - 1) \X (0 .. SizeModulus - 1)

\* No wrap-around of the 16 bit counter: fewer stacks than it can count.
ASSUME StackAssumption ==
    /\ IsFiniteSet(Stack)
    /\ Cardinality(Stack) < RecoveryModulus

VARIABLES
    analyzeOngoing,               \* cleared by the report
    bInitializationTimeNotPassed, \* TRUE until a call sees that the time is over
    byAddress,                    \* hashByAddress: recorded address -> memory item
    byStack,                      \* hashByStack: recorded stack -> stack item
    hasRecoveryStack,             \* how many stack items are in recovery
    mutex,                        \* owner of mutexForHashes, or NULL
    ignore,                       \* ignoreForThisThreadTlsKey of each thread
    pc,                           \* where each thread is
    frame,                        \* locals of each thread's call
    timeOver,                     \* deltaTimeToStartAnalyze has elapsed (the clock)
    heap,                         \* original allocator: live address -> block
    held,                         \* how many pointers to an address the program holds
    process                       \* whether the program still runs

ledger  == <<byAddress, byStack, hasRecoveryStack>>
gate    == <<analyzeOngoing, bInitializationTimeNotPassed>>
vars    == <<analyzeOngoing, bInitializationTimeNotPassed, byAddress, byStack,
             hasRecoveryStack, mutex, ignore, pc, frame, timeOver, heap, held,
             process>>

\* Capturing the stack, which allocates and releases memory itself.
Tracing == {"trace", "trunlock", "tfree"}

Location == Tracing
            \cup {"idle", "lock", "unlock", "spin",            \* allocating
                  "rmlock", "rmunlock", "addcheck", "mfree",   \* releasing
                  "print"}                                     \* reporting

\* Arguments and locals of a call: the operation, its pointer argument, the
\* bytes asked for (not wrapped), the pointer it will return, the captured
\* stack, and the block the stack capture itself allocated.
Frame == [op: {"none", "alloc", "realloc", "free"}, ptr: Addr \cup {NULL},
          want: Nat, ret: Addr \cup {NULL}, stack: Stack \cup {NULL},
          scratch: Addr \cup {NULL}]

CallFrame(op, ptr, want, ret) ==
    [op |-> op, ptr |-> ptr, want |-> want, ret |-> ret,
     stack |-> NULL, scratch |-> NULL]

NoFrame == CallFrame("none", NULL, 0, NULL)

MemItem   == [stack: Stack, size: Nat]
StackItem == [count: Nat, items: Seq(Addr), isRecovery: BOOLEAN]

\* A block of the original allocator.  "seen" is history: the call that
\* allocated it offers it to the tables (FALSE after an early return, and for
\* realloc(NULL, 0), which is never recorded).
Block == [size: Nat, seen: BOOLEAN]

Init ==
    /\ analyzeOngoing = TRUE
    /\ bInitializationTimeNotPassed = TRUE
    /\ byAddress = << >>
    /\ byStack = << >>
    /\ hasRecoveryStack = 0
    /\ mutex = NULL
    /\ ignore = [t \in Thread |-> 0]
    /\ pc = [t \in Thread |-> "idle"]
    /\ frame = [t \in Thread |-> NoFrame]
    /\ timeOver = FALSE
    /\ heap = << >>
    /\ held = [a \in Addr |-> 0]
    /\ process = "running"

-----------------------------------------------------------------------------
(* Tables, the original allocator, and what every call does.               *)

With(table, key, item) ==
    [k \in DOMAIN table \cup {key} |-> IF k = key THEN item ELSE table[k]]

Without(table, key) == Restrict(table, DOMAIN table \ {key})

At(t, loc) == process = "running" /\ pc[t] = loc

Free == Addr \ DOMAIN heap

\* Every pointer to a in the program's hands or on its way there.
Pointers(a) ==
    held[a] + Cardinality({t \in Thread : frame[t].ret = a})

\* Addresses the original allocator may return now.
Available == {a \in Free : Pointers(a) < MaxHolders}

\* No call may be about to hand out a block more than MaxHolders times.
WithinBound ==
    \A a \in Addr :
        Pointers(a) + Cardinality({t \in Thread : frame[t].op = "alloc"
                                                   /\ frame[t].ret = NULL})
            < MaxHolders

Goto(t, loc)    == pc' = [pc EXCEPT ![t] = loc]
Ignore(t) == ignore' = [ignore EXCEPT ![t] = @ + 1]

\* Mutant: the counter is not decremented.
StopIgnoringForgotten(t) == ignore' = ignore

StopIgnoring(t) == ignore' = [ignore EXCEPT ![t] = @ - 1]

\* The call returns: the program gets the pointer (after a failed realloc it
\* still has the old one) and the thread is free for its next call.
Handed(f) == IF f.ret = NULL /\ f.op = "realloc" /\ f.want # 0
             THEN f.ptr ELSE f.ret

Return(t, f) ==
    /\ Goto(t, "idle")
    /\ frame' = [frame EXCEPT ![t] = NoFrame]
    /\ held' = IF Handed(f) = NULL THEN held
               ELSE [held EXCEPT ![Handed(f)] = @ + 1]

Stop(how) == process' = how

\* A non-NULL pointer: not analyzing, inside a call already, or too early.
HasReasonForEarlyReturn(t) ==
    \/ ~analyzeOngoing
    \/ ignore[t] # 0
    \/ bInitializationTimeNotPassed /\ ~timeOver

PassedEarlyReturn(t) ==
    /\ ~HasReasonForEarlyReturn(t)
    /\ Ignore(t)
    /\ bInitializationTimeNotPassed' = FALSE

Lock(t) == mutex = NULL /\ mutex' = t

\* Mutants: the counter stays, or nothing is given back.
UnlockKeepsIgnoring(t) == mutex' = NULL /\ ignore' = ignore
UnlockForgotten(t)     == UNCHANGED <<mutex, ignore>>

\* if(TlsGet(ignore)){unlock; decrement}
Unlock(t) ==
    IF ignore[t] # 0
    THEN mutex' = NULL /\ StopIgnoring(t)
    ELSE UNCHANGED <<mutex, ignore>>

-----------------------------------------------------------------------------
(* The tables, under the mutex.                                            *)

\* The last link of the stack item's list becomes a.
CreateMemoryItem(item, a) ==
    [count |-> item.count + 1, items |-> Append(item.items, a),
     isRecovery |-> item.isRecovery]

Position(items, a) == CHOOSE i \in DOMAIN items : items[i] = a

\* Mutant: the count stays.
RemoveMemoryItemUncounted(item, a) ==
    [item EXCEPT !.items = RemoveAt(item.items, Position(item.items, a))]

RemoveMemoryItem(item, a) ==
    [count |-> item.count - 1,
     items |-> RemoveAt(item.items, Position(item.items, a)),
     isRecovery |-> item.isRecovery]

NewStackItem == [count |-> 0, items |-> << >>, isRecovery |-> FALSE]

\* Mutant: no entry in hashByAddress.
RecordForgotten(a, size, s) == byAddress' = byAddress

\* hashByAddress gets the address with its stack and size.
Record(a, size, s) ==
    byAddress' = With(byAddress, a, [stack |-> s, size |-> size])

\* Mutant: the stack item is reported before the block is counted in it.
PrintBeforeCounting(t, s, item) ==
    /\ UNCHANGED <<byStack, hasRecoveryStack>>
    /\ analyzeOngoing' = FALSE
    /\ mutex' = NULL /\ StopIgnoring(t)
    /\ Goto(t, "print")

FinalActionPrintStackAndExit(t, s, item) ==
    /\ byStack' = With(byStack, s, item)
    /\ hasRecoveryStack' = hasRecoveryStack
    /\ analyzeOngoing' = FALSE
    /\ IF ignore[t] # 0
       THEN mutex' = NULL /\ StopIgnoring(t)
       ELSE mutex' = t /\ UNCHANGED ignore
    /\ Goto(t, "print")

FinalActionTryFixLeak(t, s, item) ==
    /\ byStack' = With(byStack, s, [item EXCEPT !.isRecovery = TRUE])
    /\ hasRecoveryStack' = IF item.isRecovery THEN hasRecoveryStack
                           ELSE (hasRecoveryStack + 1) % RecoveryModulus
    /\ mutex' = t
    /\ Goto(t, "unlock")
    /\ UNCHANGED <<analyzeOngoing, ignore>>

\* Mutant: one block late.
IsLeakLate(item) == item.count > CountMax + 1

IsLeak(item) == item.count > CountMax

\* WhenHasStackItem compares the new count with the limit, WhenNoStackItem
\* does not.  assert(hashIterAdr==NULL), taken as compiled in, aborts the process
\* when the address is recorded already; nobody reads the tables after that.  A
\* known stack is recorded with a new capture of it, which is released (line 247)
\* through the hooked free: its counter and its second lock of the recursive
\* mutex are back before the section ends, its block is never recorded, so it
\* leaves nothing behind and is part of the step.
AddAllocedItemNoLock(t, a, size, s) ==
    \/ /\ a \in DOMAIN byAddress
       /\ Stop("aborted")
       /\ mutex' = t
       /\ UNCHANGED <<ledger, analyzeOngoing, ignore, pc>>
    \/ /\ a \notin DOMAIN byAddress
       /\ s \in DOMAIN byStack
       /\ Record(a, size, s)
       /\ LET item == CreateMemoryItem(byStack[s], a) IN
          IF IsLeak(item)
          THEN \/ /\ FinalAction = "PrintStackAndExit"
                  /\ FinalActionPrintStackAndExit(t, s, item)
               \/ /\ FinalAction = "TryFixLeak"
                  /\ FinalActionTryFixLeak(t, s, item)
          ELSE /\ byStack' = With(byStack, s, item)
               /\ mutex' = t
               /\ Goto(t, "unlock")
               /\ UNCHANGED <<hasRecoveryStack, analyzeOngoing, ignore>>
       /\ UNCHANGED process
    \/ /\ a \notin DOMAIN byAddress
       /\ s \notin DOMAIN byStack
       /\ Record(a, size, s)
       /\ byStack' = With(byStack, s, CreateMemoryItem(NewStackItem, a))
       /\ mutex' = t
       /\ Goto(t, "unlock")
       /\ UNCHANGED <<hasRecoveryStack, analyzeOngoing, ignore, process>>

\* Mutants: recovery ends one block late, or at the limit it began at.
IsCalmLate(item)    == item.count < 2 /\ item.isRecovery
IsCalmAtLimit(item) == item.count <= CountMax /\ item.isRecovery

IsCalm(item) == item.count < 3 /\ item.isRecovery

\* Mutant: nothing is erased.
RemoveForgotten(a) == UNCHANGED ledger

\* Below three outstanding blocks a stack leaves recovery; at zero its item
\* goes, and its stack is released in the same step (line 563, through the
\* hooked free as in AddAllocedItemNoLock).  assert(count>0) is
\* LedgerConsistent's business.
RemoveAllocedItemNoLock(a) ==
    IF a \notin DOMAIN byAddress THEN UNCHANGED ledger ELSE
    LET s     == byAddress[a].stack
        item  == RemoveMemoryItem(byStack[s], a)
        calm  == IsCalm(item)
    IN  /\ byAddress' = Without(byAddress, a)
        /\ byStack' = IF item.count = 0 THEN Without(byStack, s)
                      ELSE [byStack EXCEPT ![s] =
                               IF calm THEN [item EXCEPT !.isRecovery = FALSE]
                               ELSE item]
        /\ hasRecoveryStack' = IF calm
                               THEN (hasRecoveryStack - 1) % RecoveryModulus
                               ELSE hasRecoveryStack

-----------------------------------------------------------------------------
(* malloc and calloc.                                                      *)

\* Not analyzed: straight to the original allocator (its failure changes
\* nothing).
AllocEarly(t) ==
    /\ At(t, "idle") /\ "alloc" \in Calls
    /\ HasReasonForEarlyReturn(t)
    /\ \E r \in Request, a \in Available :
          /\ r[1] * r[2] < SizeModulus
          /\ heap' = With(heap, a, [size |-> r[1] * r[2], seen |-> FALSE])
          /\ held' = [held EXCEPT ![a] = @ + 1]
    /\ UNCHANGED <<gate, ledger, mutex, ignore, pc, frame, timeOver, process>>

AllocCall(t) ==
    /\ At(t, "idle") /\ "alloc" \in Calls
    /\ WithinBound
    /\ PassedEarlyReturn(t)
    /\ Goto(t, "trace")
    /\ \E r \in Request :
          frame' = [frame EXCEPT ![t] = CallFrame("alloc", NULL, r[1] * r[2], NULL)]
    /\ UNCHANGED <<analyzeOngoing, ledger, mutex, timeOver, heap, held, process>>

\* Capturing the stack allocates and releases memory through the same hooks.
TraceAllocates(t) ==
    /\ At(t, "trace")
    /\ frame[t].scratch = NULL
    /\ HasReasonForEarlyReturn(t)
    /\ \E a \in Available :
          /\ heap' = With(heap, a, [size |-> 0, seen |-> FALSE])
          /\ frame' = [frame EXCEPT ![t].scratch = a]
    /\ UNCHANGED <<gate, ledger, mutex, ignore, pc, timeOver, held, process>>

\* The nested free: RemoveAllocedItem up to the end of its critical section,
\* with the counter at 2 ...
TraceReleases(t) ==
    /\ At(t, "trace")
    /\ frame[t].scratch # NULL
    /\ Ignore(t)
    /\ Lock(t)
    /\ RemoveAllocedItemNoLock(frame[t].scratch)
    /\ Goto(t, "trunlock")
    /\ UNCHANGED <<gate, frame, timeOver, heap, held, process>>

\* ... its end ...
TraceUnlocks(t) ==
    /\ At(t, "trunlock")
    /\ Unlock(t)
    /\ Goto(t, "tfree")
    /\ UNCHANGED <<gate, ledger, frame, timeOver, heap, held, process>>

\* ... and m_free.
TraceFrees(t) ==
    /\ At(t, "tfree")
    /\ heap' = Without(heap, frame[t].scratch)
    /\ frame' = [frame EXCEPT ![t].scratch = NULL]
    /\ Goto(t, "trace")
    /\ UNCHANGED <<gate, ledger, mutex, ignore, timeOver, held, process>>

TraceSucceeds(t) ==
    /\ At(t, "trace")
    /\ frame[t].scratch = NULL
    /\ \E s \in Stack : frame' = [frame EXCEPT ![t].stack = s]
    /\ Goto(t, "lock")
    /\ UNCHANGED <<gate, ledger, mutex, ignore, timeOver, heap, held, process>>

\* malloc and calloc give up with NULL, the re-recording of realloc exits.
TraceFails(t) ==
    /\ At(t, "trace")
    /\ frame[t].scratch = NULL
    /\ \/ /\ frame[t].op = "alloc"
          /\ StopIgnoring(t)
          /\ Return(t, frame[t])
          /\ UNCHANGED process
       \/ /\ frame[t].op = "realloc"
          /\ Stop("exited")
          /\ UNCHANGED <<ignore, pc, frame, held>>
    /\ UNCHANGED <<gate, ledger, mutex, timeOver, heap>>

SizeAll(t) == frame[t].want % SizeModulus

\* Mutants: the state of the stack item is not looked at, or nothing is.
InRecoveryIfKnown(t) == frame[t].stack \in DOMAIN byStack
InRecoveryNever(t)   == FALSE

InRecovery(t) ==
    /\ hasRecoveryStack # 0
    /\ frame[t].stack \in DOMAIN byStack
    /\ byStack[frame[t].stack].isRecovery

FirstItem(t) == Head(byStack[frame[t].stack].items)

\* Mutant: the comparison is the wrong way round.
SmallEnough(t) == byAddress[FirstItem(t)].size <= SizeAll(t)

LargeEnough(t) == byAddress[FirstItem(t)].size >= SizeAll(t)

\* MallocCallocBelow with a stack in recovery: the first recorded block of the
\* stack is handed out again if it is large enough ...
AllocRecovers(t) ==
    /\ At(t, "lock") /\ frame[t].op = "alloc"
    /\ Lock(t)
    /\ InRecovery(t)
    /\ LargeEnough(t)
    /\ frame' = [frame EXCEPT ![t].ret = FirstItem(t)]
    /\ Goto(t, "unlock")
    /\ UNCHANGED <<gate, ledger, ignore, timeOver, heap, held, process>>

\* ... and otherwise the loop never moves on to the next one.
AllocSpins(t) ==
    /\ At(t, "lock") /\ frame[t].op = "alloc"
    /\ Lock(t)
    /\ InRecovery(t)
    /\ ~LargeEnough(t)
    /\ Goto(t, "spin")
    /\ UNCHANGED <<gate, ledger, ignore, frame, timeOver, heap, held, process>>

\* The original allocator is called under the mutex and the block recorded.
AllocRecords(t) ==
    /\ At(t, "lock") /\ frame[t].op = "alloc"
    /\ mutex = NULL
    /\ ~InRecovery(t)
    /\ frame[t].want < SizeModulus
    /\ \E a \in Available :
          /\ heap' = With(heap, a, [size |-> frame[t].want, seen |-> TRUE])
          /\ frame' = [frame EXCEPT ![t].ret = a]
          /\ AddAllocedItemNoLock(t, a, SizeAll(t), frame[t].stack)
    /\ UNCHANGED <<bInitializationTimeNotPassed, timeOver, held>>

\* The original allocator fails; calloc does when count * size overflows.
AllocFails(t) ==
    /\ At(t, "lock") /\ frame[t].op = "alloc"
    /\ Lock(t)
    /\ ~InRecovery(t)
    /\ Goto(t, "unlock")
    /\ UNCHANGED <<gate, ledger, ignore, frame, timeOver, heap, held, process>>

\* No memory for the new record: the memory item, the stack item or (when the
\* stack is known) the place in hashByAddress.
RecordingFails(t) ==
    /\ At(t, "lock")
    /\ Lock(t)
    /\ frame[t].op = "alloc" => ~InRecovery(t)
    /\ Stop("exited")
    /\ UNCHANGED <<gate, ledger, ignore, pc, frame, timeOver, heap, held>>

Unlocks(t) ==
    /\ At(t, "unlock")
    /\ Unlock(t)
    /\ Return(t, frame[t])
    /\ UNCHANGED <<gate, ledger, timeOver, heap, process>>

\* Mutant: the final action returns.
PrintsAndReturns(t) ==
    /\ At(t, "print")
    /\ Return(t, frame[t])
    /\ UNCHANGED <<gate, ledger, mutex, ignore, timeOver, heap, process>>

\* StackInvestOptimalPrint..., then exit(1).
PrintsAndExits(t) ==
    /\ At(t, "print")
    /\ Stop("exited")
    /\ UNCHANGED <<gate, ledger, mutex, ignore, pc, frame, timeOver, heap, held>>

-----------------------------------------------------------------------------
(* free and realloc.                                                       *)

\* RemoveAllocedItem, up to the lock: no early return here.
RemoveCall(t, f) ==
    /\ Ignore(t)
    /\ Goto(t, "rmlock")
    /\ frame' = [frame EXCEPT ![t] = f]

GivesUp(ptr) ==
    IF ptr = NULL THEN UNCHANGED held
    ELSE held[ptr] > 0 /\ held' = [held EXCEPT ![ptr] = @ - 1]

FreeCall(t) ==
    /\ At(t, "idle") /\ "free" \in Calls
    /\ \E ptr \in Addr \cup {NULL} :
          /\ GivesUp(ptr)
          /\ RemoveCall(t, CallFrame("free", ptr, 0, NULL))
    /\ UNCHANGED <<gate, ledger, mutex, timeOver, heap, process>>

RemoveLocks(t) ==
    /\ At(t, "rmlock")
    /\ Lock(t)
    /\ RemoveAllocedItemNoLock(frame[t].ptr)
    /\ Goto(t, "rmunlock")
    /\ UNCHANGED <<gate, ignore, frame, timeOver, heap, held, process>>

\* What comes next: m_free, AddAllocedItem for the new block, or the end.
RemoveUnlocks(t) ==
    /\ At(t, "rmunlock")
    /\ Unlock(t)
    /\ \/ /\ frame[t].op = "free"
          /\ Goto(t, "mfree")
          /\ UNCHANGED <<frame, held>>
       \/ /\ frame[t].op = "realloc" /\ frame[t].want # 0
          /\ Goto(t, "addcheck")
          /\ UNCHANGED <<frame, held>>
       \/ /\ frame[t].op = "realloc" /\ frame[t].want = 0
          /\ Return(t, frame[t])
    /\ UNCHANGED <<gate, ledger, timeOver, heap, process>>

\* The original free; on a block that is not live it is the end.
FreesBlock(t) ==
    /\ At(t, "mfree")
    /\ \/ /\ frame[t].ptr \in DOMAIN heap \cup {NULL}
          /\ heap' = Without(heap, frame[t].ptr)
          /\ UNCHANGED process
       \/ /\ frame[t].ptr \notin DOMAIN heap \cup {NULL}
          /\ Stop("crashed")
          /\ UNCHANGED heap
    /\ Return(t, frame[t])
    /\ UNCHANGED <<gate, ledger, mutex, ignore, timeOver>>

\* m_realloc comes first and without the lock.  Its outcomes:
ReallocArgs(t, ptr) ==
    /\ At(t, "idle") /\ "realloc" \in Calls
    /\ ptr \in DOMAIN heap \cup {NULL}
    /\ GivesUp(ptr)

\* The block moves (realloc(NULL, n): is new): the old one is gone already.
ReallocMoves(t) ==
    /\ \E r \in Request, ptr \in Addr \cup {NULL}, a \in Available :
          /\ r[1] # 0
          /\ ReallocArgs(t, ptr)
          /\ heap' = With(Without(heap, ptr), a,
                          [size |-> r[1], seen |-> TRUE])
          /\ RemoveCall(t, CallFrame("realloc", ptr, r[1], a))
    /\ UNCHANGED <<gate, ledger, mutex, timeOver, process>>

\* The block stays where it is: pRet==a_ptr, and the records are not touched.
ReallocInPlace(t) ==
    /\ At(t, "idle") /\ "realloc" \in Calls
    /\ \E r \in Request, ptr \in DOMAIN heap :
          /\ r[1] # 0
          /\ held[ptr] > 0
          /\ heap' = [heap EXCEPT ![ptr].size = r[1]]
    /\ UNCHANGED <<gate, ledger, mutex, ignore, pc, frame, timeOver, held, process>>

\* No memory: NULL, the old block stays.  realloc(NULL, n): pRet==a_ptr.
ReallocFails(t) ==
    /\ \E r \in Request, ptr \in Addr :
          /\ r[1] # 0
          /\ ReallocArgs(t, ptr)
          /\ RemoveCall(t, CallFrame("realloc", ptr, r[1], NULL))
    /\ UNCHANGED <<gate, ledger, mutex, timeOver, heap, process>>

\* Size 0: the block is released, or realloc(NULL, 0) makes an empty one.
ReallocToZero(t) ==
    /\ \/ \E ptr \in Addr \cup {NULL} :
             /\ ReallocArgs(t, ptr)
             /\ heap' = Without(heap, ptr)
             /\ RemoveCall(t, CallFrame("realloc", ptr, 0, NULL))
       \/ \E a \in Available :
             /\ ReallocArgs(t, NULL)
             /\ heap' = With(heap, a, [size |-> 0, seen |-> FALSE])
             /\ RemoveCall(t, CallFrame("realloc", NULL, 0, a))
    /\ UNCHANGED <<gate, ledger, mutex, timeOver, process>>

\* AddAllocedItem: early return, also for the NULL of a failed realloc.
AddReturnsEarly(t) ==
    /\ At(t, "addcheck")
    /\ \/ /\ frame[t].ret = NULL
          /\ UNCHANGED heap
       \/ /\ frame[t].ret # NULL
          /\ HasReasonForEarlyReturn(t)
          /\ heap' = [heap EXCEPT ![frame[t].ret].seen = FALSE]
    /\ Return(t, frame[t])
    /\ UNCHANGED <<gate, ledger, mutex, ignore, timeOver, process>>

AddCall(t) ==
    /\ At(t, "addcheck")
    /\ frame[t].ret # NULL
    /\ PassedEarlyReturn(t)
    /\ Goto(t, "trace")
    /\ UNCHANGED <<analyzeOngoing, ledger, mutex, frame, timeOver, heap, held, process>>

AddLocks(t) ==
    /\ At(t, "lock") /\ frame[t].op = "realloc"
    /\ mutex = NULL
    /\ AddAllocedItemNoLock(t, frame[t].ret, SizeAll(t), frame[t].stack)
    /\ UNCHANGED <<bInitializationTimeNotPassed, frame, timeOver, heap, held>>

-----------------------------------------------------------------------------
TimePasses ==
    /\ process = "running" /\ ~timeOver
    /\ timeOver' = TRUE
    /\ UNCHANGED <<gate, ledger, mutex, ignore, pc, frame, heap, held, process>>

\* The process is gone, or a thread turns in the endless loop.
Halted ==
    /\ process # "running"
    /\ UNCHANGED vars

Spins(t) ==
    /\ At(t, "spin")
    /\ UNCHANGED vars

\* What a thread does once it is inside a call of the analyzer.
Continue(t) ==
    \/ TraceReleases(t) \/ TraceUnlocks(t) \/ TraceFrees(t)
    \/ TraceSucceeds(t) \/ TraceFails(t)
    \/ AllocRecovers(t) \/ AllocSpins(t) \/ AllocRecords(t) \/ AllocFails(t)
    \/ RecordingFails(t) \/ AddLocks(t) \/ Unlocks(t) \/ PrintsAndExits(t)
    \/ RemoveLocks(t) \/ RemoveUnlocks(t) \/ FreesBlock(t)
    \/ AddReturnsEarly(t) \/ AddCall(t)

\* What the program decides: to call, and the allocations of the capture.
Begin(t) ==
    \/ AllocEarly(t) \/ AllocCall(t) \/ FreeCall(t) \/ TraceAllocates(t)
    \/ ReallocMoves(t) \/ ReallocInPlace(t) \/ ReallocFails(t)
    \/ ReallocToZero(t)

Next ==
    \/ \E t \in Thread : Begin(t) \/ Continue(t) \/ Spins(t)
    \/ TimePasses
    \/ Halted

Spec == Init /\ [][Next]_vars

\* A thread that can take a step of its call takes it, and a stack capture
\* ends; nothing is assumed of the program's calls or of who gets the mutex.
FairSpec ==
    /\ Spec
    /\ \A t \in Thread : WF_vars(Continue(t))
    /\ \A t \in Thread : SF_vars(TraceSucceeds(t) \/ TraceFails(t))
-----------------------------------------------------------------------------
(* Properties.                                                             *)

\* The type of every variable.
TypeOK ==
    /\ analyzeOngoing \in BOOLEAN
    /\ bInitializationTimeNotPassed \in BOOLEAN
    /\ byAddress \in [DOMAIN byAddress -> MemItem] /\ DOMAIN byAddress \subseteq Addr
    /\ byStack \in [DOMAIN byStack -> StackItem] /\ DOMAIN byStack \subseteq Stack
    /\ hasRecoveryStack \in 0 .. RecoveryModulus - 1
    /\ mutex \in Thread \cup {NULL}
    /\ ignore \in [Thread -> 0 .. 2]
    /\ pc \in [Thread -> Location]
    /\ frame \in [Thread -> Frame]
    /\ timeOver \in BOOLEAN
    /\ heap \in [DOMAIN heap -> Block] /\ DOMAIN heap \subseteq Addr
    /\ held \in [Addr -> Nat]
    /\ process \in {"running", "exited", "aborted", "crashed"}

Outstanding(s) == {a \in DOMAIN byAddress : byAddress[a].stack = s}

\* The two hash tables and the lists agree after every step: a stack item
\* exists exactly for the stacks with outstanding blocks, lists each of them
\* once, and counts them; hasRecoveryStack counts the items in recovery.
LedgerConsistent ==
    /\ \A a \in DOMAIN byAddress : byAddress[a].stack \in DOMAIN byStack
    /\ \A s \in DOMAIN byStack :
          /\ ToSet(byStack[s].items) = Outstanding(s)
          /\ IsInjective(byStack[s].items)
          /\ byStack[s].count = Len(byStack[s].items)
          /\ byStack[s].count > 0
    /\ hasRecoveryStack = Cardinality({s \in DOMAIN byStack : byStack[s].isRecovery})

\* How many increments of the counter a thread has yet to undo.
Depth(loc) ==
    CASE loc \in {"idle", "mfree", "addcheck", "print"} -> 0
      [] loc = "trunlock" -> 2
      [] OTHER -> 1

\* mutexForHashes is held exactly by the thread inside a critical section, and
\* the thread-local counter is the depth of the calls inside the analyzer (2 in
\* the critical section of the capture's own free), so that the conditional
\* unlock is always taken, once for each lock.
LockDiscipline ==
    process = "running" =>
        \A t \in Thread :
            /\ (mutex = t) <=> (pc[t] \in {"unlock", "rmunlock", "trunlock", "spin"})
            /\ ignore[t] = Depth(pc[t])

\* A thread whose realloc released the old block and has yet to erase it.
ReallocWindow(t, a) ==
    pc[t] = "rmlock" /\ frame[t].op = "realloc" /\ frame[t].ptr = a

\* The tables name only blocks that the original allocator has not released,
\* but for the window that realloc leaves between the two.
RecordedBlocksAreLive ==
    \A a \in DOMAIN byAddress :
        a \in DOMAIN heap \/ \E t \in Thread : ReallocWindow(t, a)

\* assert(hashIterAdr==NULL) fails only when some thread is in that window.
AssertFailsOnlyInReallocWindow ==
    process = "aborted" =>
        \E t \in Thread, a \in DOMAIN byAddress : ReallocWindow(t, a)

\* ... so never in a program without realloc.
AssertHolds == process # "aborted"

\* A block that the program holds is missing from the tables only if the call
\* that allocated it was ignored: what is not counted cannot be reported.
HeldBlocksAreRecorded ==
    \A a \in DOMAIN heap :
        held[a] > 0 /\ heap[a].seen => a \in DOMAIN byAddress

\* PrintStackAndExit: no stack gets past the limit unnoticed.  The first block
\* of a stack is never compared with the limit.
LimitStopsAnalysis ==
    \A s \in Stack :
        Cardinality(Outstanding(s)) > CountMax /\ Cardinality(Outstanding(s)) > 1
            => ~analyzeOngoing

\* ... and the analysis stops only for a stack that is past the limit.
NoFalseReport ==
    [][analyzeOngoing /\ ~analyzeOngoing' =>
          \E s \in Stack : Cardinality(Outstanding(s)') > CountMax]_vars

\* Without recovery each block has one owner, who holds it while it is live.
OneOwner ==
    \A a \in Addr :
        /\ Pointers(a) <= 1
        /\ Pointers(a) = 1 => a \in DOMAIN heap

\* TryFixLeak without realloc: the test for recovery and the recording are one
\* critical section, so a leaking stack stops growing one block past the limit.
LeakIsContained ==
    \A s \in Stack : Cardinality(Outstanding(s)) <= Max({CountMax, 2}) + 1

\* If the leaked blocks are leaked indeed (never released), then malloc and
\* calloc return a live block, of at least the size that line 322 computes
\* in size_t: a product that wraps around is judged by what it wraps to.
RecoveredBlockIsUsable ==
    \A t \in Thread :
        pc[t] = "unlock" /\ frame[t].ret # NULL =>
            /\ frame[t].ret \in DOMAIN heap
            /\ heap[frame[t].ret].size >= SizeAll(t)

\* PrintStackAndExit prints "Stack will be printed": the stack item it was
\* given is still in the table, and not freed, when it is read.
ReportedStackStaysValid ==
    \A t \in Thread : At(t, "print") => frame[t].stack \in DOMAIN byStack

\* A call comes to its end, and the mutex back, once the other threads are
\* done with theirs: nobody leaves the mutex or the counter behind.
CallReturnsWhenAlone ==
    \A t \in Thread :
        <>[](\A u \in Thread \ {t} : pc[u] = "idle") =>
            (pc[t] # "idle" ~> pc[t] = "idle" \/ process # "running")

\* After a report the process ends, whatever the other threads do.
ReportEndsProcess == ~analyzeOngoing ~> process # "running"

\* The mutex always comes back, but for a thread in the endless loop.
MutexComesBack ==
    mutex # NULL ~>
        \/ mutex = NULL
        \/ process # "running"
        \/ \E t \in Thread : pc[t] = "spin"

\* The analyzer implements the abstract ledger: every step records or forgets
\* one block, or changes nothing, and the limit is acted on in that very step.
Ledger == INSTANCE LeakLedger WITH
    outstanding <- [s \in Stack |-> Outstanding(s)],
    watching <- analyzeOngoing,
    recovering <- {s \in DOMAIN byStack : byStack[s].isRecovery},
    Limit <- CountMax,
    Policy <- FinalAction

ImplementsLedger == Ledger!Spec
=============================================================================

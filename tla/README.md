# programs_investigator: verification project

`programs_investigator` is a C library that a program loads to watch itself: it
replaces the allocation functions, records every allocation under the call
stack that made it and reports a stack with too many outstanding blocks, and it
redirects what the program writes to stdout. This directory holds TLA+ modules
that model it, the TLC configurations that check them, and theorems about every
part of it (the leak analyzer, its start and exit, the hooks and the stdout part of
either platform) that TLAPS checks. Paths below are relative to the repository root.

## 1. Inventory

| Component | Source | State | Operations |
|---|---|---|---|
| Leak analyzer | `src/core/leak_analyze/programs_investigator_core_analyze_leaking.c` | `hashByAddress`, `hashByStack` with the list and the count of each stack item, `hasRecoveryStack`, `analyzeOngoing`, `bInitializationTimeNotPassed`, `mutexForHashes`, a thread-local counter | `Initialize`, `Clean`, `Malloc`, `Calloc`, `Realloc`, `Free`, the final actions `PrintStackAndExit` and `TryFixLeak` |
| Its start-up and exit | `src/core/leak_analyze/programs_investigator_core_memory_leak.c` | `s_pTable`, the four functions that were installed before | an initializer, an exit handler, four forwarding functions |
| Allocation hooks, Unix | `src/core/alloc_free_hook/*_unix_inc.c`, `*_unix.c` | four public pointers, two user pointers, four C library pointers, a static buffer and its offset, two flags | `malloc`, `calloc`, `realloc`, `free`, four getters, four setters, `AllocFreeHookCLib*`, an exit handler |
| Allocation hooks, Windows | `src/core/alloc_free_hook/*_windows.c` | the same pointers, the import tables of the loaded modules | the same, and `LoadLibrary*` |
| Stdout investigation, Unix | `src/core/stdout_invest/*_unix.c` | `s_puts`, `s_fwrite`, the C library's, the callback, a thread-specific key, three flags | `puts`, `fwrite`, `Initialize`, get and set the callback, an exit handler |
| Stdout investigation, Windows | `src/core/stdout_invest/*_windows.c` | the same without the flags | `vfprintf`, `fwrite`, get and set, an exit handler |
| External | `cinternal`, `stack_investigator` (submodules, not in this repository) | | hash tables, a recursive mutex, thread-local storage, stack capture |

How they interact. The program calls `malloc`; the hook forwards to a function
pointer. `memory_leak.c` puts the analyzer's functions in these pointers; the
analyzer calls the C library back through `AllocFreeHookCLib*`. The stack
capture allocates through the same hooks, which is why the analyzer counts, per
thread, the calls it must ignore. The stdout part allocates its key through
`AllocFreeHookCLibMalloc`. Everything is called by all threads of the program.
On Unix the library defines the functions itself; on Windows it replaces the
entries of the import tables of the loaded modules, one module after the other,
and hooks `LoadLibrary` to reach the modules that come later.

What is hard, by component:

- *Analyzer.* Concurrency of the threads on two tables, lists and counters; an
  unlock that depends on a thread-local counter that the final action changes
  too; `realloc`, which calls the allocator outside the lock; a report that runs
  without the lock; recovery, entered at one limit and left at another. Correct
  means: the tables agree with each other and with the heap, the limit is
  noticed in the step that passes it, the mutex comes back, a call returns.
- *Hooks.* The initialization calls `dlsym`, which calls the hooks. Blocks of
  three owners (buffer, C library, program) and functions of three families,
  installed one pointer at a time. Correct means: a block meets only functions
  that understand it, and no call goes through NULL.
- *Start and exit of the analyzer.* The initializer makes five things, each of
  which can fail, then replaces four functions one by one; the exit handler
  undoes both without the lock. Other threads call throughout. Correct means: a
  replaced function finds everything it uses, a failed start leaves nothing, an
  exit ends the process whoever holds the mutex.
- *Windows.* Two initializers in an order the linker chooses, setters that
  initialize, exit handlers in the reverse order of their registration, modules
  that are loaded while others are visited. Correct means: what a replaced import
  calls is set, and the imports are put back.
- *Stdout.* A callback that writes, initializes or sets callbacks; an exit
  handler that takes the key away. Correct means: no unbounded recursion, no
  call through NULL, the flag is up exactly in the callback.

`PROJECT.json` lists these hazards with the line where each one bites and the
properties that would catch it.

## 2. Modules

| Module | What it is |
|---|---|
| `LeakAnalyzer` | the analyzer under concurrent threads, with the allocator and the program as its environment |
| `LeakRecovery` | the analyzer with a history of the limits, for recovery |
| `LeakLedger` | what the analyzer promises: outstanding blocks of each stack, one at a time, and what happens at the limits |
| `LeakAnalyzerProofs` | type, consistency of the tables, lock discipline |
| `LeakRefinementProofs` | refinement of `LeakLedger`, the limit, recovery (on `LeakRecovery`) |
| `LeakHeapProofs` | the tables and the heap: who owns a block, what a record says of it, containment of a leak |
| `MemoryLeak` | the analyzer from the initializer to the exit handler: `LeakAnalyzer`'s steps, with the tables coming and going and calls that get there through function pointers |
| `MemoryLeakProofs` | what replaced functions and calls in flight find of the tables; types and records through start-up |
| `AllocHook` | the Unix hooks from the first call of the process to its exit |
| `AllocHookProofs` | the initial buffer, who can go wrong among threads that start together, the start of one thread |
| `StdoutInvest` | the Unix stdout part, with nested calls and two threads |
| `StdoutProofs` | types, the flag, who can crash, what the first initialization decides |
| `ImportTable` | a Windows process: modules, their imports, initializers, exit handlers |
| `ImportHook` | the Windows allocation hooks, on `ImportTable` |
| `StdoutInvestWindows` | the Windows stdout part, on `ImportTable` |
| `WindowsBuild` | the composition of the last three, and their properties |
| `WindowsProofs` | who can crash, what the callback gets |
| `WindowsImportProofs` | which imports are hooked and put back |
| `MCLeakAnalyzer`, `MCLeakRecovery`, `MCMemoryLeak`, `MCAllocHook`, `MCStdoutInvest`, `MCWindowsBuild` | symmetry and small sets for TLC |

Operators whose comment begins with "Mutant" are altered copies of the
definition that follows them. No specification uses them; each is a plausible
mistake that one property detects when it takes the place of the original.

### LeakAnalyzer

Variables carry the names of the C fields. `byAddress` maps a recorded address
to its stack and size; `byStack` maps a stack to its item: the count, the list
of blocks (`first` is the head) and `isRecovery`. `heap` is the C library's
allocator: live addresses with their sizes. `held` counts the pointers the
program has to an address: recovery hands a block out twice.

| Code | Actions |
|---|---|
| `Malloc`, `Calloc` (464-473, 348-372) | `AllocEarly`; or `AllocCall`, then the stack capture (`TraceAllocates`; `TraceReleases`, `TraceUnlocks`, `TraceFrees`; `TraceSucceeds`, `TraceFails`), then under the mutex `AllocRecords`, `AllocRecovers`, `AllocSpins`, `AllocFails` or `RecordingFails`, then `Unlocks` |
| `Free` (493-497) | `FreeCall`, `RemoveLocks`, `RemoveUnlocks`, `FreesBlock` |
| `Realloc` (476-490) | `ReallocMoves`, `ReallocInPlace`, `ReallocFails`, `ReallocToZero`; then `RemoveLocks`, `RemoveUnlocks`; then `AddReturnsEarly`, or `AddCall`, the stack capture, `AddLocks` (or `RecordingFails`), `Unlocks` |
| final actions (506-535) | parts of `AllocRecords` and `AddLocks`; the print is `PrintsAndExits` |

Grain: the mutex protects the tables, so a critical section's body is one step
with the acquisition, and the release is another. Every call of the original
allocator outside the mutex is a step, which is what opens the window of
`realloc`. The lock-free reads of `HasReasonForEarlyReturn` are one step: the
counter is thread-local, the other two flags change once each.

The capture of a stack allocates and releases through the same functions. Its
allocations return early, because the thread ignores itself; its releases do not:
`TraceReleases` is a whole nested call, with the counter at 2, the mutex, the tables,
the conditional unlock and then `m_free`. Where the analyzer releases a captured stack
while it holds the mutex (lines 247 and 563) the nested call is part of the step of the
critical section: its second lock and its increment are undone inside, its block was
never recorded, and no other thread can see either.

Undefined behaviour is a state of its own: `FreesBlock` on a block that is not
live ends in `crashed`, and after a failed assertion the process is `aborted`.
`seen` of a block is history: whether the call that allocated it offers it to
the tables.

`LeakRecovery` adds one history variable: `pastLimit`, the stacks that went past the
limit and did not come back below three blocks since. It is computed from the recorded
blocks of a stack, the analyzer's answer from its counts and flags.

### MemoryLeak

`LeakAnalyzer`'s variables and steps, and around them: `resources`, what
`ProgsInvestAnalyzeLeakingInitialize` has made; `installed` and `original`, the
function each of the four pointers names and the one that was there before;
`step` and `closing`, how far the initializer and the exit handler are. A call
reads its function pointer (`Dispatches`) and enters what it found in another
step (`EntersAnalyzer`, `EntersOriginal`): in between the pointer may change.

| Code | Actions |
|---|---|
| `ProgsInvestAnalyzeLeakingInitialize` | `Creates`, `CreateFails` with what its error path releases (`Released`), then `PublishesTable` |
| the initializer of `memory_leak.c` | `Installs` (get, then set, for each of the four), `Registers` |
| the four forwarding functions | `Dispatches`, then `EntersAnalyzer`; `Continues` for the rest of the call |
| the exit handler, `ProgsInvestAnalyzeLeakingClean` | `Exit` (who may call it: `CallsExit`), `Cleans`, `Ends` |

`Needs` names what the next step of a call uses; a call about to use something
that is gone, or the NULL in `s_pTable`, is a state the code has no answer to
(`Misuses`). The thread-local key is used under the lock only by a final action, and by
a capture that fails: `MayUseCounter` says when such a step is possible, `UsesCounter`
that it was one. The thread in the exit handler allocates nothing, and the capture
of a stack does not allocate in this module: `LeakAnalyzer` has that. `inTime`
is history: the initial delay was not over when the last function was replaced.

### LeakLedger

The abstract specification: `Record` and `Forget` of one block under one stack.
It has no tables, counts, threads or locks. The refinement mapping reads the
outstanding blocks of a stack off `byAddress`, `watching` off `analyzeOngoing`
and the recovering stacks off the stack items.

### AllocHook

`hook` holds `g_malloc`, `g_calloc`, `s_realloc_user`, `s_free_user`,
`g_realloc` and `g_free`; `clib` the four C library pointers. A block knows its
place (buffer or C library) and the bytes asked for. A call reads its pointer
(`Calls`), goes through `InitLibraryIfNotInitedInline` where the function does
(`Checks`, `Starts`, `DlsymCalls`, `Resolves`, `Publishes` for each assignment,
`EndsInit`: the flag and the registration of the exit handler), and executes the body. `DlsymCalls` is the re-entrance: any
allocation function, called from inside the lookup, executes against the
half-built state. `early` is history: the call read its function before the end of the
initialization. `process = "corrupt"` stands for undefined behaviour: a
pointer given to an allocator that does not own it, or a call through NULL.
Sizes have 16 bits instead of 64; the buffer and the header have the sizes of
the code.

### StdoutInvest

`stack` is each thread's stack of calls: the callback may write, initialize, set
callbacks and read them. Each shared pointer that is read or assigned is a step;
a pointer is read and dereferenced in one. The step between the test of
`s_pThreadLocalKey` and its use is where the exit handler of another thread
bites. The static flag `snPtrsInited` is left out: it is read only by the call
that has just found `snPtrsInitStarted` clear. The second assignment of the installation, `snInited`
and the registration of the exit handler are one step. `exit` may be called from inside
the callback too. `results` and `overlaps` are
history: what the initializations returned and what two threads began together.

### ImportTable, ImportHook, StdoutInvestWindows, WindowsBuild

`replaced` holds, for each module, the names whose import is a function of this
library. `Walk` begins a call of `CInternalReplaceFunctionsAllModules` with the
modules that are loaded at that moment; each `Visit` replaces or restores the
imports of one of them, so other threads act in between. The order of visits is
fixed but arbitrary.

| Code | Actions |
|---|---|
| `alloc_free_hook_initialize_inline` | `Initializes` (which stores the pointers, `Assigns`), `ReplacesAlloc`, `ReplacesLoad`, `EndsInitialize` |
| its callers: the initializer, the setters | `RunsInitializer`, `Sets` |
| getters | `Gets` |
| `CinternalLoadLibrary*` | `LoadsHooked`, then `ReplacesLoaded`; `LoadsPlainly` through an import that is not replaced |
| `alloc_free_hook_cleanup` | `Cleanup`, `RestoresLoad`, `RestoresAlloc` |
| `AllocFreeHookCLib*` and the replaced functions | `GoesWrong`, for the calls that cannot end well |
| the stdout initializer and its exit handler | `StdoutInitializer`, `StdoutReplaces`, `StdoutClean` |
| `Stdio01Static`, `FWriteStatic`, the end of the callback | `Stdio01Static`, `FWriteStatic`, `ClbkReturns` |

The pointers hold a function of the C library or the program (`"function"`), a
function of this library that calls through the pointer itself (`"hook"`), or
NULL. Which of the first two an initialization stores depends on whether the
import of the program's own module is replaced (`Imported`): that is how two
initializations at a time make `malloc` call itself. `clbk` holds, for each call
of the callback in progress, the length of the text and the length it was
passed. A setter stores a function of the program or what a getter returned (`Stores`).
`origin` and `disorder` are history; `disorder` notes a NULL that a setter stored, two
initializations at a time, and imports replaced after exit began.

## 3. Runs

TLC finishes each passing run well within the time it is given; the numbers are
distinct states.

| Run | Question | Bounds | States |
|---|---|---|---|
| `leak_realloc` | Do tables, list, counts, lock and counter stay consistent in every interleaving, does the table name only live blocks outside the window of `realloc`, is the limit noticed and nothing else reported, is the abstract ledger implemented? | 3 threads, 3 addresses, 2 stacks, limit 1 | 359 000 |
| `leak_malloc_free` | Without `realloc`: a new address is never recorded already, nothing held is missing from the tables, the reported stack stays, calls return, the report ends the process | 3 threads, 3 addresses, 2 stacks, limit 1, fairness | 162 000 |
| `leak_recovery` | With leaks that are leaks: is what `malloc` returns live and large enough, does the mutex come back? | 2 threads, 3 addresses, 2 stacks, 3 request shapes, 2-bit sizes, fairness | 220 000 |
| `leak_limits` | Recovery with releases: is a stack in it exactly from the one limit to the other, is a leak contained, is the ledger implemented? | 2 threads, 6 addresses, 1 stack, limit 4 | 234 000 |
| `memory_exit` | Through start-up and exit: does a replaced function find what it uses, who can miss it, do the records stay true, does an exit end the process? | 2 threads, 2 addresses, 1 stack, limit 1, fairness | 666 000 |
| `hook_startup` | From the first call to after the exit handler: does each block meet a function that understands it, do blocks fit, is a hook the program sets kept? | 1 thread, 3 blocks, sizes at the end of the buffer and a product that wraps | 470 000 |
| `hook_threads` | When two threads start at once: does a call that began after the end of the initialization ever go wrong or get a block of the buffer? Does every call return? | 2 threads, 2 blocks, fairness | 494 000 |
| `stdout_threads` | Every order of writes, initializations, callbacks and an exit, also from inside the callback: is the flag up exactly there, does the first initialization decide, who can crash? | 2 threads, nesting 3, both arguments, a key that may fail | 875 000 |
| `windows_hooks` | Which modules are hooked and put back, who can crash, is the callback called once? | 2 threads, 3 modules (one loaded by name, one that comes along), 2 initializations, one name of each family but stdout's two, a buffer of 1 | 2 141 000 |
| `leak_untracked`, `leak_report`, `hook_overlap` | Disagreements, section 6 | | violations |

Why the bounds are enough. Three addresses and a limit of one let a stack get
past the limit, an address be reused while a third block lives, and two stacks
compete; two threads open every window of the code and a third can act while
one reports and one waits. Recovery begins above the limit and ends below three blocks:
with a limit of 4 there are counts (3 and 4) at which a stack is in recovery or not
according to where it came from; five blocks and the one of a capture are six addresses. `MaxHolders` bounds how often recovery hands out one block, and
`WithinBound` keeps a call from starting that could pass the bound. `MaxDepth`
3 is one more than the deepest nesting the flag should allow. Two blocks in
`AllocHook` are one of the buffer and one of the C library. In `MemoryLeak` one
thread starts and exits and the other is in flight; with two addresses a record
can outlive its block and meet the next one. In `WindowsBuild` the second
initialization is the one of a setter while the first is under way, or after the
exit handler; a family is replaced in one visit, so one name stands for four.
`Setter` and `Writer` are the other thread only: the initializer is Main's
initialization, and the calls of Main before exit are those of any thread. A
buffer of 1 and texts of 0 and 1 are the two sides of the limit.

Symmetry is used in runs of safety properties only: threads, addresses and
stacks are interchangeable, as are blocks.

`CHECK_DEADLOCK FALSE` stands in `leak_recovery` only: when every thread turns
in, or waits for, the endless loop of `MallocCallocBelow`, the process stops.
The process that has ended stutters (`Halted`) and is not a deadlock.

Fairness. A thread inside a call goes on when it can (weak fairness of
`Continue`), which is what an operating system's scheduler gives; nothing is
assumed of who gets the mutex, or of what the program calls. A stack capture
ends (strong fairness of its end, because the capture's own allocations may
come in between). `CallReturnsWhenAlone` therefore speaks of a thread once the
others are done: the mutex is not fair. In `FairLifeSpec` only the thread that
runs the exit handler goes on; that an exit ends the process must not depend on
anyone else, and does not, because the handler takes no lock.

## 4. Proofs

Every invariant and action property that a passing run checks is a theorem, for
every value of the constants that the named assumptions allow. What a theorem
assumes besides is in its statement and in this table.

| Module | Theorems | For |
|---|---|---|
| `LeakAnalyzerProofs` | `TypeCorrect`, `LedgerStaysConsistent`, `LockIsDisciplined` | any threads, addresses, limit and requests |
| `LeakRefinementProofs` | `AnalyzerImplementsLedger`, `ReportsAreTrue` | the same |
| | `LimitIsNoticed` | `PrintStackAndExit` |
| | `RecoveryHasHysteresis` | `TryFixLeak`, any limit |
| `LeakHeapProofs` | `RecordsNameLiveBlocks`, `AssertFailsInWindow`, `BlocksHaveOneOwner`, `FreesLiveBlocks` | `PrintStackAndExit` |
| | `HeldBlocksStayRecorded`, `ReportedStackIsValid`, `AssertionHolds` | `PrintStackAndExit`, no `realloc` |
| | `LeaksAreContained` | `TryFixLeak`, no `realloc` |
| | `RecoveredBlocksAreUsable` | programs that only allocate |
| `MemoryLeakProofs` | `ReplacedFunctionsAreUsable`, `OnlyExitBreaksCalls`, `FailedStartKeepsNothing`, `LifeTypesHold`, `RecordsStayTrue` | any threads and addresses |
| `AllocHookProofs` | `TypesHold` | any threads, blocks, sizes |
| | `BlocksLieInBuffer` | `NoWrap` |
| | `LateCallsAreDefined`, `LateCallsGetLibraryBlocks` | any threads, no getter before the initialization |
| | `StartIsDefined`, `InstalledHooksStay` | one thread |
| `StdoutProofs` | `TypesHold`, `CrashesHaveACause`, `FlagsMarkCallbacks`, `FirstOneDecides` | any threads and nesting, a key that may fail |
| `WindowsProofs` | `HooksCallRealFunctions`, `TextsArePassedOnce` | any modules, imports, number of initializations, buffer, nesting |
| `WindowsImportProofs` | `TypesHold`, `HookedAreThoseLoaded` | the same |

Why each of these assumptions is there. The properties of a final action are
about that action. `realloc` releases a block before it erases its record, and
erases the record of a block it could not grow: the run `leak_untracked` is what
happens to `HeldBlocksAreRecorded`, and `AssertFailsInWindow` what is left of
`AssertHolds`, when it is not excluded. In recovery a
block is handed out again while the program may still hold it, so its being live
depends on the program not releasing it: `RecoveredBlocksAreUsable` speaks of
leaks that are leaks. A getter called before the initialization returns NULL or
a function that understands only early blocks, and `OnlyEarlyCallsGoWrong` is
about the step of a call, not about setting that value back. A size that wraps around to
nothing with its header makes an element of the buffer that ends where it
begins; `NoWrap` excludes it for `BlocksLieInBuffer` only.
`InstalledHooksStay` and `StartIsDefined` fail with two threads, where the
initialization of one publishes over what the other has set.

### The analyzer

The inductive invariant `IInv` joins types, `CounterOK`, `LedgerConsistent` and
`FrameOK`. `FrameOK` is what a thread knows at each place of a call: one that asks
for the mutex to record must know the block and the stack, and only a `realloc` gets
to the recording after a removal. `CounterOK` ties the thread-local counter to the
place of the thread (`Depth`: 2 in the critical section of the capture's own free); the report needs it, because `FinalActionPrintStackAndExit`
gives the mutex back only when the counter is not zero. `LedgerConsistent` carries
the arithmetic: the count is the length of a list without repetition, hence the
number of blocks, and `hasRecoveryStack` the number of stacks in recovery.

The mutex is not in `IInv`. A critical section's body is one step, so the tables
stay consistent without it, and `IInv` therefore holds in `MemoryLeak` too, where an
exit keeps the mutex and leaves the loop of its owner. `MutexOK` (a thread owns the
mutex if and only if it is in a critical section) is proved from `IInv` for
`LeakAnalyzer` alone, where every section is left again; `LockDiscipline` follows
from the two.

The argument has three layers: lemmas on lists (`AppendElement`,
`RemoveElement`, `LengthIsCardinality`); what the two table operations do
(`AddKeepsLedger`, `RemoveKeepsLedger`: they keep the tables consistent, and are
a `Record` and a `Forget` of the abstract ledger); one lemma for each action.
The limit and recovery are proved on the abstract steps (`LedgerStep`), not on
the tables. For hysteresis the steps are followed with the history: a `Record` that takes
the stack past the limit puts it in recovery and in `pastLimit`, a `Forget` that leaves
fewer than three takes it out of both, and no other step moves either. The proofs show the first-block case of the limit too
(`Cardinality > 1` in `LimitStopsAnalysis`), which the runs, with limits above
zero, do not reach.

### The tables and the heap

`HInv` is `Owners` and `Records`. `Owners` adds to `IInv` what the locals of a call
are at each place (`FrameRole`), that no stack is in recovery, and `Ownership`: a
block belongs to the program or to one call in progress, and what somebody owns is
live. `Ownership` is inductive without any property of the tables, since the
analyzer gets its blocks only from the allocator and from the program. On it stands
`Records`: a recorded block is live, a block that is about to be freed or that was
just allocated is not recorded, and the assertion fails only in the window of
`realloc`. The window is in the invariant: a `realloc` that released its block and
has not erased the record owns the new block and no longer the old one.

Without `realloc` two small invariants are added. `NInv`: a block about to be
returned, or whose stack is reported, is recorded under the captured stack. `UInv`,
for recovery, where blocks have more than one owner and `Ownership` is lost: a
record knows the size of its block, the blocks of captures are not recorded, and
what is about to be returned is recorded and as large as the call asked.
`LeaksAreContained` follows from the hysteresis by the grain of the lock: the step
that records the block over the limit is the one that enters recovery, and in
recovery nothing of that stack is recorded.

### Start and exit of the analyzer

`LifeInv`: what exists is a function of `step` and `closing` (`ResourcesOK`); the
i-th function is replaced after step 10 + i and until the exit's i-th, and what is
put back was read before (`PointersOK`); the exit runs after the whole start, in one
thread (`ExitOK`); and a call is inside the analyzer, or about to enter, only if it
found the analyzer's function and with it everything else (`CallsOK`). The last part
is why the history `complete` is a true witness: pointers are read and used apart, so
the state of the pointers now says nothing of a call in flight.

For the records, `RouteOK` says of a call that has read its pointer that it alone
has the block it passes. `Owners` holds throughout, exit included. The records are
harder: a block may be recorded by a replaced `malloc` and released by a `free` that
is not replaced yet. `RecordsInv` therefore has two parts: before the delay is over
nothing is recorded and nobody is about to record (`Early`); and as long as the delay
is not over before the last function is replaced (`Sound`), the records are true and
nothing that is passed to the original functions is recorded
(`PassedByUnrecorded`). The last conjunct is the reason why a call that read the old
`free` just before it was replaced does no harm: its block is from before the
analysis.

### The Unix hooks

`HookInv` joins types with the functions that each pointer can name in each step of
the initialization, and with the blocks that calls hold (`PassedBlock`: a call has
its block alone). Three invariants stand on it. `OnePlace`, for sizes that do not wrap
around: the offset stays 0 and every block of the buffer is at its beginning, since
no element of the buffer is empty and only a last element that ends at the offset
would move it. `EarlyInv`, for any threads: once the library is initialized every
pointer is set, and a call that began afterwards has read a function that
understands all blocks, so that its own step does not go wrong, whoever else is still
under way. `StartInv`, for one thread: the state of each pointer before,
in and after the initialization, so that the calls from inside `dlsym` are known to
meet the function for their block.

### The Unix stdout part

`Base` is the types and the shape of the stacks: below the top are only calls of the
callback. `RaceInv`: a pointer is NULL, and the key is gone under a call that uses
it, only while a thread looks the C library's functions up or exits. `OnceInv`, if no
two threads initialized together: one thread initializes, nothing is redirected
before it installs, and the flag of a thread tells how deep its stack is (two calls
at most, and up if and only if the callback is on it). `DecidedInv`, if no two calls overlapped at all: an
initialization that began is still with its thread, has failed, or has installed
both functions. The histories `overlaps` and `results` are what makes the three
state invariants instead of statements about the past.

### Windows

`HookInv` of `WindowsProofs`: its shape holds always; as long as nothing is out of
order (`InOrder`: no NULL stored by a setter, no two initializations at a time), every pointer has the value of `s_c_lib` (`Values`), one
thread at a time initializes and Main alone restores (`Phases`), and whoever begins
an initialization finds the imports of the program's own module as the C library
left them (`Restored`). The last part needs a clause for each phase of the exit
handler, since the module is put back some time before `s_nIsInited` is cleared.
It is what makes a second initialization, after the exit handler, harmless.
`TextsArePassedOnce` is inductive with the types of the flag and the callbacks.

`ImportInv` of `WindowsImportProofs` follows the walks. Always: what a walk has yet
to visit is loaded, and what is not loaded has nothing replaced (`Loads`); the exit
handlers are Main's, and what has been begun has one (`Exits`); the imports of
stdout are replaced and put back by Main (`StdImports`). In order: the walks replace
with the C library's functions, one at a time (`Library`); what the exit handler has
visited is put back, all of it at the end (`PutBack`); and,
before an exit, a module is hooked or is still on the list of a walk if and only if
it was there at the start or was loaded through a hooked import (`Follows`).

### Assumptions

`ConstantsAssumption` (types of the constants) and `StackAssumption`: there are
finitely many stacks, fewer than the 16-bit counter of stacks in recovery can count.
The second is a real limit of the code. `MainAssumption` (`MemoryLeak` is about
`PrintStackAndExit`, as `memory_leak.c` is), `ImportAssumption` (families do not
overlap, the program is not a module it loads by name), the `HookAssumption` of
`AllocHook` (the buffer with its header is smaller than the largest size) and that of
`ImportHook`, `StdoutAssumption` and `StdoutWindowsAssumption` give the types of the
other constants and keep NULL apart from functions, threads and blocks.

### Only model-checked

Liveness, which is out of the prover's reach: `CallReturnsWhenAlone`,
`ReportEndsProcess`, `MutexComesBack`, `ExitCompletes` and `CallsReturn`. `RecordsAreTrue` and the properties of final actions are
theorems with the side conditions of the table; the runs check them with the same
conditions, written in the properties or in the constants.

## 5. What is not modelled

- The failure of hash table inserts whose result the code does not test (lines
  285 and 297 of the analyzer), and of `CinternalTlsSetSpecific`.
- More stacks in recovery than the 16-bit counter can count (`StackAssumption`).
- `TryFixLeak` during start-up and exit: `memory_leak.c` does not pass it.
- The order in which the external library visits modules: any, but the same in a
  whole behaviour.
- `ProgsInvestAnalyzeLeakingGetUserData`, which reads a field that never changes.
- The code under `ANALIZE_ALLOC_FREE_COUNT`, which no build enables.
- The bytes of blocks: that early blocks overlap is checked by their places
  (`LiveBlocksAreDisjoint`), not by their contents.
- A build with `NDEBUG`: the assertions are taken as compiled in. Without them the
  address of `AssertFailsOnlyInReallocWindow` would be recorded twice.
- The nested calls of `StackInvestFreeBacktraceData` under the mutex, as steps of
  their own (section 2).
- The depth of the recursion of `AllocFreeHookCLib*Initial`, which the model runs as
  a loop (`Forwards`), and the moment between the last assignment of an initialization
  and the registration of its exit handler.
- On Windows, formatted writes with a locale, which go straight to the original
  function, and the memory in front of the buffer of `Stdio01Static`.
- Wording and layout of messages; the newline that `puts` adds in the C library
  and `PutsFinal` does not pass to the callback.

## 6. Disagreements the runs show

- `leak_untracked`: a `realloc` that fails erases the record of the block that
  stays.
- `leak_report`: the report gives the mutex back and then prints from a stack
  item that another thread may free. With `free` alone this cannot happen
  (`leak_malloc_free`): a release under way when the report starts would have to
  take several blocks.
- `hook_overlap`: two early allocations are given the same bytes. No allocation
  advances the offset of the initial buffer, although the comments of `realloc` and
  `free` (lines 350, 362, 377 of the hooks) speak of a last element and of allocating
  a new one.

Further behaviours worth knowing, seen while modelling and stated by passing
properties: `realloc` releases the old block before its record is erased, and an
allocation of another thread in between may get the address and fail
`assert(hashIterAdr==NULL)` (`AssertFailsOnlyInReallocWindow` shows that this window is
the only way, and `leak_realloc` reaches it; `AssertHolds` is checked without
`realloc`); with two threads a call that began before the end of the initialization may
give a block to an allocator that does not own it, even after that end
(`OnlyEarlyCallsGoWrong` clears the others); a stack in recovery whose first block is too
small for the request makes the thread loop for ever under the mutex
(`MutexComesBack` excepts it).

At start and exit of the analyzer:

- A call in flight when the exit handler runs can use destroyed tables or a NULL
  `s_pTable` (`OnlyCallsInFlightMisuse` says that only such a call can).
- With an initial delay of zero, a block that is recorded as soon as `malloc` is
  replaced may be released through a `free` that is not replaced yet; its record
  stays, and the address can be recorded again. `RecordsAreTrue` excepts it.
- At exit `realloc` is put back before `free`, so a record can outlive its block
  there too; `RecordsAreTrue` speaks of the time before the exit.

On Unix, stdout:

- A first initialization whose key cannot be created returns 1 and counts as
  begun: later ones report success with nothing installed
  (`FirstInitializationDecides`).
- With the library initialized and no callback set, what a program writes with
  `fwrite` to any stream but stdout arrives at stderr.

On Windows:

- Two initializations at a time (a setter on a second thread before the first one
  sets `s_nIsInited`) make `malloc` call itself; a getter before the initialization
  returns NULL, which does no harm until a setter stores it (`CrashesOnlyAfterMisuse`).
- A module that comes along with another, or that is loaded by such a module, is not
  hooked (`ImportsFollowLoads`).
- A setter after the exit handler initializes again, and registers a handler again.
- A text that does not fit into the buffer is passed to the callback with a size of
  zero, and a zero is written in front of the buffer (`CallbackIsCalledOnce`).

## 7. Plan

Done: the modules of section 2, and a theorem for each safety property that a
passing run checks. Next, in this order:

1. The untested failures of the hash tables, as a constant of `LeakAnalyzer`, with
   the weaker consistency that holds then.
2. An abstract specification of the hooks (a call goes to the installed
   function, a block returns to its owner) and the refinement after the
   initialization.

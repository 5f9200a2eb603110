------------------------------ MODULE AllocHook ------------------------------
(***************************************************************************)
(* The replaced malloc, calloc, realloc and free of the Unix build         *)
(* (src/src/core/alloc_free_hook/*_unix_inc.c and *_unix.c).               *)
(*                                                                         *)
(* The first call looks the C library's functions up with dlsym, which     *)
(* allocates itself; until the lookup is over blocks come from a static    *)
(* buffer.  After it, calls go to the functions the program installed, or  *)
(* to the C library's.                                                     *)
(*                                                                         *)
(* Grain.  Reading a function pointer, each assignment of the              *)
(* initialization and the body of a function are steps of their own.  The  *)
(* four assignments of the exit handler are one step: a call reads one     *)
(* pointer only.                                                           *)
(***************************************************************************)
EXTENDS Integers, FiniteSets, Sequences, SequencesExt

CONSTANTS
    Thread,         \* the threads of the program
    Id,             \* bound: the blocks the program can hold at a time
    NULL,           \* the null pointer
    Request,        \* pairs <<count, element size>>; malloc, realloc: <<1, n>>
    Settable,       \* the pointers the program replaces
    EarlyGet,       \* whether the getters are called before the initialization
    InitMemSize,    \* MEMORY_HANDLER_INIT_MEM_SIZE
    HeaderSize,     \* sizeof(struct SMemoryHandlerInitMemData)
    SizeModulus     \* size_t arithmetic is modulo this

Name == <<"malloc", "calloc", "realloc", "free">>

\* The function pointers, in the order in which the initialization sets them.
Published == <<"g_malloc", "g_calloc", "s_realloc_user", "s_free_user",
               "g_realloc", "g_free">>

\* Functions: MemoryHandler*Initial, AllocFreeHookCLib*Initial, the C library's,
\* MemoryHandler*Final and the program's, which calls AllocFreeHookCLib*.
Function == {"init", "clibinit", "clib", "final", "user"}

ASSUME HookAssumption ==
    /\ NULL \notin Id \cup Thread \cup Function \cup {"none"}
    /\ Request \subseteq (0 .. SizeModulus - 1) \X (0 .. SizeModulus - 1)
    /\ Settable \subseteq {"g_malloc", "g_calloc", "s_realloc_user", "s_free_user"}
    /\ EarlyGet \in BOOLEAN
    /\ InitMemSize \in Nat /\ HeaderSize \in Nat \ {0}
    /\ SizeModulus \in Nat /\ InitMemSize + HeaderSize < SizeModulus

VARIABLES
    snStartedInitLibrary, \* the initialization has begun
    s_nLibraryInited,     \* ... and is over
    hook,                 \* the pointers of Published
    clib,                 \* s_malloc_c_lib, s_calloc_c_lib, ...
    offset,               \* s_unInitialMemoryOffset
    totalSize,            \* the headers in s_vcInitialBuffer, by their place
    blocks,               \* the blocks the program holds
    saved,                \* what the getters returned to the program
    pc,                   \* where each thread is
    frame,                \* locals of each thread's call
    process               \* whether the program runs

vars == <<snStartedInitLibrary, s_nLibraryInited, hook, clib, offset, totalSize,
          blocks, saved, pc, frame, process>>

\* A block: in the buffer or the C library's, its header's offset, and the
\* bytes the program asked for (not wrapped).
Block == [place: {"buffer", "library"}, at: Nat, asked: Nat]

\* "early" is history: the call read its function before the end of the
\* initialization.
Frame == [op: {"none", "set"} \cup ToSet(Name), fn: Function \cup {NULL}, asked: Nat,
          ptr: Id \cup {NULL}, target: Settable \cup {NULL}, step: 0 .. 7,
          early: BOOLEAN]

NoFrame == [op |-> "none", fn |-> NULL, asked |-> 0, ptr |-> NULL,
            target |-> NULL, step |-> 0, early |-> FALSE]

Init ==
    /\ snStartedInitLibrary = FALSE
    /\ s_nLibraryInited = FALSE
    /\ hook = [p \in ToSet(Published) |->
                 IF p \in {"s_realloc_user", "s_free_user"} THEN NULL ELSE "init"]
    /\ clib = [n \in ToSet(Name) |-> "clibinit"]
    /\ offset = 0
    /\ totalSize = << >>
    /\ blocks = << >>
    /\ saved = [p \in Settable |-> "none"]
    /\ pc = [t \in Thread |-> "idle"]
    /\ frame = [t \in Thread |-> NoFrame]
    /\ process = "running"

-----------------------------------------------------------------------------
(* Blocks and the initial buffer.                                          *)

At(t, loc) == process = "running" /\ pc[t] = loc

With(table, key, item) ==
    [k \in DOMAIN table \cup {key} |-> IF k = key THEN item ELSE table[k]]

Without(table, key) == Restrict(table, DOMAIN table \ {key})

\* Mutant: without the header.
CalculateRoundedMemorySizeBare(n) ==
    IF (n \div 8) % 2 = 1 THEN ((n \div 8) + 1) * 8 % SizeModulus ELSE n

\* A multiple of 16 if bit 3 is set, and otherwise as it is.
CalculateRoundedMemorySize(n) ==
    LET size == (n + HeaderSize) % SizeModulus
    IN  IF (size \div 8) % 2 = 1 THEN ((size \div 8) + 1) * 8 % SizeModulus
                                 ELSE size

Fits(end) == end < InitMemSize

BufferBlock(at, asked) == [place |-> "buffer", at |-> at, asked |-> asked]
LibraryBlock(asked)    == [place |-> "library", at |-> 0, asked |-> asked]

Corrupt == process' = "corrupt" /\ UNCHANGED <<offset, totalSize, blocks>>

\* The call returns NULL and the program keeps what it has.
ReturnsNULL == UNCHANGED <<offset, totalSize, blocks, process>>

\* The block is gone and nothing else happens.
Forgotten(id) == blocks' = Without(blocks, id) /\ UNCHANGED <<offset, totalSize, process>>

\* A block at the offset.  The offset itself is not advanced.
MallocInitial(id, asked) ==
    LET wanted == asked % SizeModulus
        total  == CalculateRoundedMemorySize(wanted)
    IN  IF wanted # 0 /\ Fits(offset + total)
        THEN /\ totalSize' = With(totalSize, offset, total)
             /\ blocks' = With(blocks, id, BufferBlock(offset, asked))
             /\ UNCHANGED <<offset, process>>
        ELSE ReturnsNULL

IsLast(at) == totalSize[at] + at = offset

\* Only the last element would be resized in place, and the offset moved.
ReallocInitial(id, held, asked) ==
    IF ~held THEN MallocInitial(id, asked)
    ELSE IF blocks[id].place = "library" THEN Corrupt
    ELSE LET at    == blocks[id].at
             total == IF asked = 0 THEN 0 ELSE CalculateRoundedMemorySize(asked)
         IN  IF ~IsLast(at)
             THEN IF asked = 0 THEN Forgotten(id) ELSE MallocInitial(id, asked)
             ELSE IF Fits(at + total)
             THEN /\ totalSize' = [totalSize EXCEPT ![at] = total]
                  /\ offset' = at + total
                  /\ blocks' = With(blocks, id, BufferBlock(at, asked))
                  /\ UNCHANGED process
             ELSE ReturnsNULL

\* Mutant: the offset goes back whatever element is released.
FreeInitialRewinds(id) ==
    IF id = NULL THEN ReturnsNULL
    ELSE IF blocks[id].place = "library" THEN Corrupt
    ELSE /\ offset' = offset - totalSize[blocks[id].at]
         /\ blocks' = Without(blocks, id)
         /\ UNCHANGED <<totalSize, process>>

FreeInitial(id) ==
    IF id = NULL THEN ReturnsNULL
    ELSE IF blocks[id].place = "library" THEN Corrupt
    ELSE /\ offset' = IF IsLast(blocks[id].at) THEN blocks[id].at ELSE offset
         /\ blocks' = Without(blocks, id)
         /\ UNCHANGED <<totalSize, process>>

-----------------------------------------------------------------------------
(* The C library, which the program's functions call, and the final ones.  *)

\* It may fail, and does for a size that wrapped around.
LibraryMalloc(id, asked) ==
    \/ /\ asked < SizeModulus
       /\ blocks' = With(blocks, id, LibraryBlock(asked))
       /\ UNCHANGED <<offset, totalSize, process>>
    \/ ReturnsNULL

LibraryFree(id) ==
    IF id # NULL /\ blocks[id].place = "buffer" THEN Corrupt
    ELSE Forgotten(id)

LibraryRealloc(id, held, asked) ==
    IF held /\ blocks[id].place = "buffer" THEN Corrupt
    ELSE IF held /\ asked = 0 THEN LibraryFree(id)
    ELSE LibraryMalloc(id, asked)

\* A block of the buffer is copied to a new one and forgotten.
ReallocFinal(id, held, asked) ==
    IF held /\ blocks[id].place = "buffer" /\ asked = 0
    THEN Forgotten(id)
    ELSE IF hook["s_realloc_user"] = NULL THEN Corrupt
    ELSE IF held /\ blocks[id].place = "buffer" THEN LibraryMalloc(id, asked)
    ELSE LibraryRealloc(id, held, asked)

\* Mutant: the place of the block is not looked at.
FreeFinalUnchecked(id) ==
    IF hook["s_free_user"] = NULL THEN Corrupt ELSE LibraryFree(id)

FreeFinal(id) ==
    IF id # NULL /\ blocks[id].place = "buffer"
    THEN Forgotten(id)
    ELSE IF hook["s_free_user"] = NULL THEN Corrupt
    ELSE LibraryFree(id)

\* The body of function fn for operation op.  A realloc or a free names a
\* block the program holds, or NULL; new blocks get an unused name.
Allocate(fn, op, id, asked) ==
    /\ op \in {"malloc", "calloc"}
    /\ IF fn = "init" THEN MallocInitial(id, asked) ELSE LibraryMalloc(id, asked)

Reallocate(fn, ptr, id, asked) ==
    LET held == ptr # NULL IN
    \/ fn = "init"  /\ ReallocInitial(id, held, asked)
    \/ fn = "final" /\ ReallocFinal(id, held, asked)
    \/ fn = "clib"  /\ LibraryRealloc(id, held, asked)

Release(fn, ptr) ==
    \/ fn = "init"  /\ FreeInitial(ptr)
    \/ fn = "final" /\ FreeFinal(ptr)
    \/ fn = "clib"  /\ LibraryFree(ptr)

InUse(id) == \E t \in Thread : frame[t].ptr = id

Body(fn, op, ptr, asked) ==
    \/ \E id \in Id \ DOMAIN blocks : Allocate(fn, op, id, asked)
    \/ /\ op = "realloc"
       /\ \E id \in IF ptr = NULL THEN Id \ DOMAIN blocks ELSE {ptr} :
             Reallocate(fn, ptr, id, asked)
    \/ op = "free" /\ Release(fn, ptr)

-----------------------------------------------------------------------------
(* Calls.                                                                  *)

Goto(t, loc) == pc' = [pc EXCEPT ![t] = loc]

Asked(op) == IF op = "free" THEN {0}
             ELSE {IF op = "calloc" THEN r[1] * r[2] ELSE r[2] : r \in Request}

\* What a correct program passes: it frees and reallocates its own blocks, once.
Passable(op) ==
    IF op \in {"malloc", "calloc"} THEN {NULL}
    ELSE {NULL} \cup {id \in DOMAIN blocks : ~InUse(id)}

\* Every call in progress has an unused name for its new block.
WithinBound(op, ptr) ==
    op # "free" /\ ptr = NULL =>
        Cardinality(Id \ DOMAIN blocks) >
            Cardinality({t \in Thread : frame[t].op \notin {"none", "set", "free"}
                                         /\ frame[t].ptr = NULL})

Pointer == [malloc |-> "g_malloc", calloc |-> "g_calloc",
            realloc |-> "g_realloc", free |-> "g_free"]

\* The locals of a new call.
CallFrame(op, fn, asked, ptr, target) ==
    [op |-> op, fn |-> fn, asked |-> asked, ptr |-> ptr, target |-> target,
     step |-> 0, early |-> ~s_nLibraryInited]

\* The program calls op, through the pointer or AllocFreeHookCLib* directly
\* (with the blocks of the C library only).
Calls(t) ==
    /\ At(t, "idle")
    /\ \E op \in ToSet(Name) : \E ptr \in Passable(op), asked \in Asked(op) :
          /\ WithinBound(op, ptr)
          /\ \E fn \in {hook[Pointer[op]], clib[op]} :
                /\ fn \in {"clib", "clibinit"} /\ ptr # NULL
                      => blocks[ptr].place = "library"
                /\ frame' = [frame EXCEPT ![t] = CallFrame(op, fn, asked, ptr, NULL)]
                /\ Goto(t, IF fn \in {"init", "clibinit"} THEN "check" ELSE "body")
    /\ UNCHANGED <<snStartedInitLibrary, s_nLibraryInited, hook, clib, offset,
                   totalSize, blocks, saved, process>>

\* Mutant: without the initialization.
SetCallUninitialized(t) ==
    /\ At(t, "idle")
    /\ \E p \in Settable :
          \E fn \in {"user"} \cup ({saved[p]} \ {"none"}) :
             frame' = [frame EXCEPT ![t] = CallFrame("set", fn, 0, NULL, p)]
    /\ Goto(t, "body")
    /\ UNCHANGED <<snStartedInitLibrary, s_nLibraryInited, hook, clib, offset,
                   totalSize, blocks, saved, process>>

\* AllocFreeHookSet*Fnc: a function of the program's, or one a getter returned.
SetCall(t) ==
    /\ At(t, "idle")
    /\ \E p \in Settable :
          \E fn \in {"user"} \cup ({saved[p]} \ {"none"}) :
             frame' = [frame EXCEPT ![t] = CallFrame("set", fn, 0, NULL, p)]
    /\ Goto(t, "check")
    /\ UNCHANGED <<snStartedInitLibrary, s_nLibraryInited, hook, clib, offset,
                   totalSize, blocks, saved, process>>

\* AllocFreeHookGet*Fnc: no initialization here.
GetCall(t) ==
    /\ At(t, "idle")
    /\ s_nLibraryInited \/ EarlyGet
    /\ \E p \in Settable : saved' = [saved EXCEPT ![p] = hook[p]]
    /\ UNCHANGED <<snStartedInitLibrary, s_nLibraryInited, hook, clib, offset,
                   totalSize, blocks, pc, frame, process>>

\* InitLibraryIfNotInitedInline: the flag is tested ...
Checks(t) ==
    /\ At(t, "check")
    /\ Goto(t, IF snStartedInitLibrary THEN "body" ELSE "start")
    /\ UNCHANGED <<snStartedInitLibrary, s_nLibraryInited, hook, clib, offset,
                   totalSize, blocks, saved, frame, process>>

\* ... and set.
Starts(t) ==
    /\ At(t, "start")
    /\ snStartedInitLibrary' = TRUE
    /\ Goto(t, IF s_nLibraryInited THEN "body" ELSE "dlsym")
    /\ frame' = [frame EXCEPT ![t].step = 1]
    /\ UNCHANGED <<s_nLibraryInited, hook, clib, offset, totalSize, blocks, saved,
                   process>>

\* dlsym itself allocates and releases: the nested call finds the
\* initialization started and goes on with the body.
DlsymCalls(t) ==
    /\ At(t, "dlsym")
    /\ \E op \in ToSet(Name) : \E ptr \in Passable(op), asked \in Asked(op) :
          /\ WithinBound(op, ptr)
          /\ Body(hook[Pointer[op]], op, ptr, asked)
    /\ UNCHANGED <<snStartedInitLibrary, s_nLibraryInited, hook, clib, saved, pc, frame>>

\* One function of the C library is found; or a missing one ends the process.
Resolves(t) ==
    /\ At(t, "dlsym")
    /\ clib' = [clib EXCEPT ![Name[frame[t].step]] = "clib"]
    /\ IF frame[t].step < Len(Name)
       THEN /\ frame' = [frame EXCEPT ![t].step = @ + 1]
            /\ UNCHANGED pc
       ELSE /\ frame' = [frame EXCEPT ![t].step = 1]
            /\ Goto(t, "publish")
    /\ UNCHANGED <<snStartedInitLibrary, s_nLibraryInited, hook, offset, totalSize,
                   blocks, saved, process>>

ResolveFails(t) ==
    /\ At(t, "dlsym")
    /\ process' = "exited"
    /\ UNCHANGED <<snStartedInitLibrary, s_nLibraryInited, hook, clib, offset,
                   totalSize, blocks, saved, pc, frame>>

\* Mutant: g_calloc is forgotten.
InitialValueButCalloc(p) ==
    IF p \in {"g_realloc", "g_free"} THEN "final"
    ELSE IF p = "g_calloc" THEN hook[p] ELSE "clib"

\* What the initialization stores in a pointer.
InitialValue(p) ==
    IF p \in {"g_realloc", "g_free"} THEN "final"
    ELSE clib[CASE p = "g_malloc" -> "malloc" [] p = "g_calloc" -> "calloc"
                [] p = "s_realloc_user" -> "realloc" [] p = "s_free_user" -> "free"]

\* Mutant: the initialization counts as over with its first pointer.
PublishesInited(t) ==
    /\ At(t, "publish") /\ frame[t].step <= Len(Published)
    /\ LET p == Published[frame[t].step]
       IN  hook' = [hook EXCEPT ![p] = InitialValue(p)]
    /\ frame' = [frame EXCEPT ![t].step = @ + 1]
    /\ s_nLibraryInited' = TRUE
    /\ UNCHANGED <<snStartedInitLibrary, clib, offset, totalSize, blocks, saved, pc,
                   process>>

Publishes(t) ==
    /\ At(t, "publish") /\ frame[t].step <= Len(Published)
    /\ LET p == Published[frame[t].step]
       IN  hook' = [hook EXCEPT ![p] = InitialValue(p)]
    /\ frame' = [frame EXCEPT ![t].step = @ + 1]
    /\ UNCHANGED <<snStartedInitLibrary, s_nLibraryInited, clib, offset, totalSize,
                   blocks, saved, pc, process>>

\* The flag, and the registration of the exit handler.
EndsInit(t) ==
    /\ At(t, "publish") /\ frame[t].step > Len(Published)
    /\ s_nLibraryInited' = TRUE
    /\ Goto(t, "body")
    /\ UNCHANGED <<snStartedInitLibrary, hook, clib, offset, totalSize, blocks, saved,
                   frame, process>>

\* Mutant: AllocFreeHookCLib*Initial calls itself.
ForwardsToItself(t) ==
    /\ At(t, "body")
    /\ frame[t].op # "set" /\ frame[t].fn \in {"user", "clibinit"}
    /\ Goto(t, "check")
    /\ UNCHANGED <<snStartedInitLibrary, s_nLibraryInited, hook, clib, offset,
                   totalSize, blocks, saved, frame, process>>

\* A function of the program calls AllocFreeHookCLib*, and
\* AllocFreeHookCLib*Initial the function it should have found by now.  While
\* another thread still looks for it that is the same function again: a loop
\* here, a recursion whose depth is not limited in the code.
Forwards(t) ==
    /\ At(t, "body")
    /\ frame[t].op # "set" /\ frame[t].fn \in {"user", "clibinit"}
    /\ frame' = [frame EXCEPT ![t].fn = clib[frame[t].op]]
    /\ Goto(t, IF clib[frame[t].op] = "clibinit" THEN "check" ELSE "body")
    /\ UNCHANGED <<snStartedInitLibrary, s_nLibraryInited, hook, clib, offset,
                   totalSize, blocks, saved, process>>

\* A function pointer that is NULL, or the body and the return.
Executes(t) ==
    /\ At(t, "body")
    /\ frame[t].op # "set" /\ frame[t].fn \notin {"user", "clibinit"}
    /\ IF frame[t].fn = NULL THEN Corrupt
       ELSE Body(frame[t].fn, frame[t].op, frame[t].ptr, frame[t].asked)
    /\ IF process' = "running"
       THEN Goto(t, "idle") /\ frame' = [frame EXCEPT ![t] = NoFrame]
       ELSE UNCHANGED <<pc, frame>>
    /\ UNCHANGED <<snStartedInitLibrary, s_nLibraryInited, hook, clib, saved>>

Sets(t) ==
    /\ At(t, "body") /\ frame[t].op = "set"
    /\ hook' = [hook EXCEPT ![frame[t].target] = frame[t].fn]
    /\ Goto(t, "idle")
    /\ frame' = [frame EXCEPT ![t] = NoFrame]
    /\ UNCHANGED <<snStartedInitLibrary, s_nLibraryInited, clib, offset, totalSize,
                   blocks, saved, process>>

\* The exit handler: back to the C library.
Cleans(t) ==
    /\ At(t, "idle") /\ s_nLibraryInited
    /\ hook' = [p \in DOMAIN hook |->
                  IF p \in {"g_realloc", "g_free"} THEN hook[p] ELSE InitialValue(p)]
    /\ UNCHANGED <<snStartedInitLibrary, s_nLibraryInited, clib, offset, totalSize,
                   blocks, saved, pc, frame, process>>

Halted == process # "running" /\ UNCHANGED vars

Begin(t) == Calls(t) \/ SetCall(t) \/ GetCall(t) \/ Cleans(t) \/ DlsymCalls(t)

Continue(t) ==
    \/ Checks(t) \/ Starts(t) \/ Resolves(t) \/ ResolveFails(t) \/ Publishes(t)
    \/ EndsInit(t) \/ Forwards(t) \/ Executes(t) \/ Sets(t)

Next == Halted \/ \E t \in Thread : Begin(t) \/ Continue(t)

Spec == Init /\ [][Next]_vars

\* Every thread goes on with the call it is in.
FairSpec == Spec /\ \A t \in Thread : WF_vars(Continue(t))

-----------------------------------------------------------------------------
(* Properties.                                                             *)

\* The type of every variable.
TypeOK ==
    /\ snStartedInitLibrary \in BOOLEAN /\ s_nLibraryInited \in BOOLEAN
    /\ hook \in [ToSet(Published) -> Function \cup {NULL}]
    /\ clib \in [ToSet(Name) -> {"clibinit", "clib"}]
    /\ offset \in 0 .. InitMemSize
    /\ totalSize \in [DOMAIN totalSize -> Nat]
    /\ DOMAIN totalSize \subseteq 0 .. InitMemSize
    /\ blocks \in [DOMAIN blocks -> Block] /\ DOMAIN blocks \subseteq Id
    /\ saved \in [Settable -> Function \cup {NULL, "none"}]
    /\ pc \in [Thread -> {"idle", "check", "start", "dlsym", "publish", "body"}]
    /\ frame \in [Thread -> Frame]
    /\ process \in {"running", "exited", "corrupt"}

\* With one thread, through all of the start of the program: a block of the
\* buffer never reaches the C library's realloc or free, a block of the C library
\* never the initial ones, and no call goes through a NULL pointer, unless the
\* program puts back what a getter returned before the initialization: NULL.
OnlyEarlyGetGoesWrong ==
    process = "corrupt" => \E p \in Settable : saved[p] = NULL

\* A thread runs the body of a function that it read after the end of the
\* initialization: in a call of the program's, or nested in its own lookup.
LateStep(t) ==
    \/ Executes(t) /\ ~frame[t].early
    \/ DlsymCalls(t) /\ s_nLibraryInited

\* With several: a call that read its function after the end of the
\* initialization does not go wrong, whatever the calls before it left behind
\* and whatever a second initialization does meanwhile.
OnlyEarlyCallsGoWrong ==
    [][\A t \in Thread : LateStep(t) => process' # "corrupt"]_vars

\* Nor is it given a block of the buffer, new or resized.
BufferIsForEarlyCalls ==
    [][\A t \in Thread : LateStep(t) =>
          \A id \in DOMAIN blocks' : blocks'[id].place = "buffer" =>
              id \in DOMAIN blocks /\ blocks'[id] = blocks[id]]_vars

\* What the program asked for lies inside the buffer, up to the last byte,
\* unless the size wrapped around.
BufferBlocksFit ==
    \A id \in DOMAIN blocks :
        LET b == blocks[id] IN
        b.place = "buffer" /\ b.asked + HeaderSize + 8 < SizeModulus =>
            b.at + HeaderSize + b.asked <= InitMemSize

\* What the comments of realloc and free rely on: the elements of the buffer lie
\* one after another, a new one behind the last, so that blocks which the program
\* holds at the same time share no byte.
LiveBlocksAreDisjoint ==
    \A i, j \in DOMAIN blocks :
        i # j /\ blocks[i].place = "buffer" /\ blocks[j].place = "buffer" =>
            \/ blocks[i].at + HeaderSize + blocks[i].asked <= blocks[j].at
            \/ blocks[j].at + HeaderSize + blocks[j].asked <= blocks[i].at

\* With one thread: a function the program installed is not lost to the
\* initialization.
HookStaysSet ==
    [][\A p \in Settable : hook[p] = "user" /\ hook'[p] # "user"
          => \A t \in Thread : ~Publishes(t)]_vars

\* A call comes to its end: the functions that forward to the C library before
\* it is found call themselves until it is.
CallsReturn ==
    \A t \in Thread : pc[t] # "idle" ~> pc[t] = "idle" \/ process # "running"
=============================================================================

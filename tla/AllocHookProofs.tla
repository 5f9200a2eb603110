-------------------------- MODULE AllocHookProofs --------------------------
(***************************************************************************)
(* Proofs about the allocation hooks of the Unix build: what the pointers  *)
(* and the blocks can be, what the initial buffer holds, and which calls   *)
(* can go wrong, with one thread and with several.                         *)
(***************************************************************************)
EXTENDS AllocHook, TLAPS

-----------------------------------------------------------------------------
(* The names, and what is asked for.                                       *)

LEMMA Names == ToSet(Name) = {"malloc", "calloc", "realloc", "free"}
BY DEF ToSet, Name

LEMMA PublishedNames ==
    /\ ToSet(Published) = {"g_malloc", "g_calloc", "s_realloc_user", "s_free_user",
                           "g_realloc", "g_free"}
    /\ Len(Published) = 6
    /\ \A i \in 1 .. 6 : Published[i] \in ToSet(Published)
BY DEF ToSet, Published

LEMMA AskedIsNat ==
    ASSUME HookAssumption, NEW op, NEW asked \in Asked(op)
    PROVE  asked \in Nat
BY SMT DEF HookAssumption, Asked

\* A rounded size is a size_t.
LEMMA RoundedIsNat ==
    ASSUME HookAssumption, NEW n \in Nat
    PROVE  CalculateRoundedMemorySize(n) \in Nat
BY SMT DEF HookAssumption, CalculateRoundedMemorySize

\* Unless it wraps around, rounding leaves room for the header.
LEMMA RoundedIsLargeEnough ==
    ASSUME HookAssumption, NEW n \in Nat, n + HeaderSize + 8 < SizeModulus
    PROVE  CalculateRoundedMemorySize(n) >= n + HeaderSize
BY SMT DEF HookAssumption, CalculateRoundedMemorySize

LEMMA ModuloIsNat ==
    ASSUME HookAssumption, NEW n \in Nat
    PROVE  /\ n % SizeModulus \in Nat
           /\ n < SizeModulus => n % SizeModulus = n
BY SMT DEF HookAssumption

-----------------------------------------------------------------------------
(* One body of a function changes the memory so.                           *)

\* The blocks and the buffer have their types, and the block of the buffer its
\* header.
MemoryOK ==
    /\ offset \in 0 .. InitMemSize
    /\ totalSize \in [DOMAIN totalSize -> Nat]
    /\ DOMAIN totalSize \subseteq 0 .. InitMemSize
    /\ blocks \in [DOMAIN blocks -> Block]
    /\ DOMAIN blocks \subseteq Id
    /\ \A id \in DOMAIN blocks :
          blocks[id].place = "buffer" => blocks[id].at \in DOMAIN totalSize

\* Only block id is touched, and a new one lies in this place.
Touches(id, place) ==
    /\ MemoryOK'
    /\ \A other \in Id \ {id} : other \in DOMAIN blocks' <=> other \in DOMAIN blocks
    /\ \A other \in DOMAIN blocks \ {id} : blocks'[other] = blocks[other]
    /\ id \in DOMAIN blocks' =>
          \/ blocks'[id].place = place
          \/ id \in DOMAIN blocks /\ blocks'[id] = blocks[id]

PlaceOf(fn) == IF fn = "init" THEN "buffer" ELSE "library"

\* What a function of the initial ones, of the C library or of the final ones
\* must not be called with.
Misused(fn, op, ptr) ==
    \/ fn = "init" /\ ptr # NULL /\ blocks[ptr].place = "library"
    \/ fn = "clib" /\ ptr # NULL /\ blocks[ptr].place = "buffer"
    \/ fn = "final" /\ op = "realloc" /\ hook["s_realloc_user"] = NULL
    \/ fn = "final" /\ op = "free" /\ hook["s_free_user"] = NULL

LEMMA KeptTouches ==
    ASSUME MemoryOK, NEW id, NEW place, UNCHANGED <<offset, totalSize, blocks>>
    PROVE  Touches(id, place)
BY DEF MemoryOK, Touches

LEMMA ForgottenTouches ==
    ASSUME MemoryOK, NEW id, NEW place, blocks' = Without(blocks, id),
           UNCHANGED totalSize, offset' \in 0 .. InitMemSize
    PROVE  Touches(id, place)
BY DEF MemoryOK, Touches, Without, Restrict

LEMMA LibraryBlockTouches ==
    ASSUME MemoryOK, NEW id \in Id, NEW asked \in Nat,
           blocks' = With(blocks, id, LibraryBlock(asked)), UNCHANGED <<offset, totalSize>>
    PROVE  Touches(id, "library")
BY DEF MemoryOK, Touches, With, LibraryBlock, Block

LEMMA BufferBlockTouches ==
    ASSUME MemoryOK, NEW id \in Id, NEW asked \in Nat, NEW at \in 0 .. InitMemSize,
           NEW total \in Nat, totalSize' = With(totalSize, at, total),
           blocks' = With(blocks, id, BufferBlock(at, asked)),
           offset' \in 0 .. InitMemSize, HookAssumption
    PROVE  Touches(id, "buffer")
<1>1. BufferBlock(at, asked) \in Block
  BY DEF BufferBlock, Block, HookAssumption
<1>2. blocks' \in [DOMAIN blocks' -> Block] /\ DOMAIN blocks' = DOMAIN blocks \cup {id}
  BY <1>1 DEF MemoryOK, With
<1>3. /\ totalSize' \in [DOMAIN totalSize' -> Nat]
      /\ DOMAIN totalSize' = DOMAIN totalSize \cup {at}
  BY DEF MemoryOK, With
<1> QED
  BY <1>2, <1>3 DEF MemoryOK, Touches, With, BufferBlock

LEMMA MallocInitialTouches ==
    ASSUME HookAssumption, MemoryOK, NEW id \in Id, NEW asked \in Nat,
           MallocInitial(id, asked)
    PROVE  Touches(id, "buffer") /\ process' = process
<1>1. CASE ReturnsNULL
  BY <1>1, KeptTouches DEF ReturnsNULL
<1>2. CASE ~ReturnsNULL
  <2> DEFINE total == CalculateRoundedMemorySize(asked % SizeModulus)
  <2>1. total \in Nat
    BY ModuloIsNat, RoundedIsNat
  <2>2. /\ totalSize' = With(totalSize, offset, total)
        /\ blocks' = With(blocks, id, BufferBlock(offset, asked))
        /\ UNCHANGED <<offset, process>>
    BY <1>2 DEF MallocInitial
  <2> HIDE DEF total
  <2> QED
    BY <2>1, <2>2, BufferBlockTouches DEF MemoryOK
<1> QED BY <1>1, <1>2

LEMMA ReallocInitialTouches ==
    ASSUME HookAssumption, MemoryOK, NEW id \in Id, NEW held \in BOOLEAN,
           NEW asked \in Nat, held => id \in DOMAIN blocks, ReallocInitial(id, held, asked)
    PROVE  /\ Touches(id, "buffer")
           /\ \/ process' = process
              \/ process' = "corrupt" /\ held /\ blocks[id].place = "library"
<1>1. CASE ~held
  BY <1>1, MallocInitialTouches DEF ReallocInitial
<1>2. CASE held /\ blocks[id].place = "library"
  BY <1>2, KeptTouches DEF ReallocInitial, Corrupt
<1>3. CASE held /\ blocks[id].place # "library"
  <2> DEFINE at == blocks[id].at
             total == IF asked = 0 THEN 0 ELSE CalculateRoundedMemorySize(asked)
  <2>1. at \in DOMAIN totalSize /\ at \in 0 .. InitMemSize /\ total \in Nat
    BY <1>3, RoundedIsNat DEF MemoryOK, Block
  <2>2. CASE ~IsLast(at) /\ asked = 0
    BY <1>3, <2>2, ForgottenTouches DEF ReallocInitial, Forgotten, MemoryOK
  <2>3. CASE ~IsLast(at) /\ asked # 0
    BY <1>3, <2>3, MallocInitialTouches DEF ReallocInitial
  <2>4. CASE IsLast(at) /\ Fits(at + total)
    <3>1. /\ totalSize' = [totalSize EXCEPT ![at] = total]
          /\ offset' = at + total
          /\ blocks' = With(blocks, id, BufferBlock(at, asked))
          /\ UNCHANGED process
      BY <1>3, <2>4 DEF ReallocInitial
    <3>2. totalSize' = With(totalSize, at, total)
      BY <3>1, <2>1 DEF With, MemoryOK
    <3>3. offset' \in 0 .. InitMemSize
      BY <3>1, <2>1, <2>4 DEF Fits, HookAssumption
    <3> HIDE DEF at, total
    <3> QED
      BY <3>1, <3>2, <3>3, <2>1, BufferBlockTouches
  <2>5. CASE IsLast(at) /\ ~Fits(at + total)
    BY <1>3, <2>5, KeptTouches DEF ReallocInitial, ReturnsNULL
  <2> QED BY <2>2, <2>3, <2>4, <2>5
<1> QED BY <1>1, <1>2, <1>3

LEMMA FreeInitialTouches ==
    ASSUME HookAssumption, MemoryOK, NEW id \in DOMAIN blocks \cup {NULL},
           FreeInitial(id)
    PROVE  /\ Touches(id, "buffer")
           /\ \/ process' = process
              \/ process' = "corrupt" /\ id # NULL /\ blocks[id].place = "library"
<1>1. CASE id = NULL
  BY <1>1, KeptTouches DEF FreeInitial, ReturnsNULL
<1>2. CASE id # NULL /\ blocks[id].place = "library"
  BY <1>2, KeptTouches DEF FreeInitial, Corrupt
<1>3. CASE id # NULL /\ blocks[id].place # "library"
  <2>1. blocks[id].at \in 0 .. InitMemSize
    BY <1>3 DEF MemoryOK, Block
  <2> QED
    BY <1>3, <2>1, ForgottenTouches DEF FreeInitial, MemoryOK
<1> QED BY <1>1, <1>2, <1>3

LEMMA LibraryMallocTouches ==
    ASSUME MemoryOK, NEW id \in Id, NEW asked \in Nat, LibraryMalloc(id, asked)
    PROVE  Touches(id, "library") /\ process' = process
BY LibraryBlockTouches, KeptTouches DEF LibraryMalloc, ReturnsNULL

LEMMA LibraryFreeTouches ==
    ASSUME MemoryOK, NEW id \in DOMAIN blocks \cup {NULL}, LibraryFree(id)
    PROVE  /\ Touches(id, "library")
           /\ \/ process' = process
              \/ process' = "corrupt" /\ id # NULL /\ blocks[id].place = "buffer"
BY ForgottenTouches, KeptTouches DEF LibraryFree, Forgotten, Corrupt, MemoryOK

LEMMA LibraryReallocTouches ==
    ASSUME MemoryOK, NEW id \in Id, NEW held \in BOOLEAN, NEW asked \in Nat,
           held => id \in DOMAIN blocks, LibraryRealloc(id, held, asked), HookAssumption
    PROVE  /\ Touches(id, "library")
           /\ \/ process' = process
              \/ process' = "corrupt" /\ held /\ blocks[id].place = "buffer"
<1>1. CASE Corrupt /\ held /\ blocks[id].place = "buffer"
  BY <1>1, KeptTouches DEF Corrupt
<1>2. CASE held /\ blocks[id].place # "buffer" /\ LibraryFree(id)
  BY <1>2, LibraryFreeTouches
<1>3. CASE LibraryMalloc(id, asked)
  BY <1>3, LibraryMallocTouches
<1> QED BY <1>1, <1>2, <1>3 DEF LibraryRealloc

\* What the body of a function does to the blocks, and when it is undefined.
LEMMA BodyTouches ==
    ASSUME HookAssumption, MemoryOK, NEW fn, NEW op, NEW asked \in Nat,
           NEW ptr \in DOMAIN blocks \cup {NULL},
           op \in {"malloc", "calloc"} => ptr = NULL, Body(fn, op, ptr, asked)
    PROVE  /\ \E id \in Id \cup {NULL} :
                 /\ id = ptr \/ id \notin DOMAIN blocks
                 /\ Touches(id, PlaceOf(fn))
           /\ process' = process \/ (process' = "corrupt" /\ Misused(fn, op, ptr))
<1>0. DOMAIN blocks \subseteq Id /\ NULL \notin Id
  BY DEF MemoryOK, HookAssumption
<1>1. ASSUME NEW id \in Id \ DOMAIN blocks, Allocate(fn, op, id, asked)
      PROVE  Touches(id, PlaceOf(fn)) /\ process' = process
  BY <1>1, MallocInitialTouches, LibraryMallocTouches DEF Allocate, PlaceOf
<1>2. ASSUME NEW id \in IF ptr = NULL THEN Id \ DOMAIN blocks ELSE {ptr},
             op = "realloc", Reallocate(fn, ptr, id, asked)
      PROVE  /\ Touches(id, PlaceOf(fn))
             /\ process' = process \/ (process' = "corrupt" /\ Misused(fn, op, ptr))
  <2> DEFINE held == ptr # NULL
  <2>1. id \in Id /\ held \in BOOLEAN /\ (held => id \in DOMAIN blocks /\ id = ptr)
    BY <1>0, <1>2
  <2>2. CASE fn = "init" /\ ReallocInitial(id, held, asked)
    BY <2>1, <2>2, ReallocInitialTouches DEF PlaceOf, Misused
  <2>3. CASE fn = "clib" /\ LibraryRealloc(id, held, asked)
    BY <2>1, <2>3, LibraryReallocTouches DEF PlaceOf, Misused
  <2>4. CASE fn = "final" /\ ReallocFinal(id, held, asked)
    <3> USE <2>1, <2>4 DEF PlaceOf, Misused
    <3>1. CASE Forgotten(id)
      BY <3>1, ForgottenTouches DEF Forgotten, MemoryOK
    <3>2. CASE Corrupt /\ hook["s_realloc_user"] = NULL
      BY <3>2, <1>2, KeptTouches DEF Corrupt
    <3>3. CASE LibraryMalloc(id, asked)
      BY <3>3, LibraryMallocTouches
    <3>4. CASE ~(held /\ blocks[id].place = "buffer") /\ LibraryRealloc(id, held, asked)
      BY <3>4, LibraryReallocTouches
    <3> QED BY <3>1, <3>2, <3>3, <3>4 DEF ReallocFinal
  <2> QED BY <1>2, <2>2, <2>3, <2>4 DEF Reallocate
<1>3. ASSUME op = "free", Release(fn, ptr)
      PROVE  /\ Touches(ptr, PlaceOf(fn))
             /\ process' = process \/ (process' = "corrupt" /\ Misused(fn, op, ptr))
  <2>1. CASE fn = "init" /\ FreeInitial(ptr)
    BY <2>1, FreeInitialTouches DEF PlaceOf, Misused
  <2>2. CASE fn = "clib" /\ LibraryFree(ptr)
    BY <2>2, LibraryFreeTouches DEF PlaceOf, Misused
  <2>3. CASE fn = "final" /\ FreeFinal(ptr)
    <3> USE <2>3 DEF PlaceOf, Misused
    <3>1. CASE Forgotten(ptr)
      BY <3>1, ForgottenTouches DEF Forgotten, MemoryOK
    <3>2. CASE Corrupt /\ hook["s_free_user"] = NULL
      BY <3>2, <1>3, KeptTouches DEF Corrupt
    <3>3. CASE ~(ptr # NULL /\ blocks[ptr].place = "buffer") /\ LibraryFree(ptr)
      BY <3>3, LibraryFreeTouches
    <3> QED BY <3>1, <3>2, <3>3 DEF FreeFinal
  <2> QED BY <1>3, <2>1, <2>2, <2>3 DEF Release
<1>4. CASE \E id \in Id \ DOMAIN blocks : Allocate(fn, op, id, asked)
  BY <1>1, <1>4
<1>5. CASE op = "realloc"
             /\ \E id \in IF ptr = NULL THEN Id \ DOMAIN blocks ELSE {ptr} :
                   Reallocate(fn, ptr, id, asked)
  BY <1>0, <1>2, <1>5
<1>6. CASE op = "free" /\ Release(fn, ptr)
  BY <1>0, <1>3, <1>6
<1> QED BY <1>4, <1>5, <1>6 DEF Body

-----------------------------------------------------------------------------
(* The state between the steps.                                            *)

\* The functions a pointer can hold.
Values(p) ==
    CASE p \in {"g_malloc", "g_calloc"} -> {"init", "clib", "user"}
      [] p \in {"s_realloc_user", "s_free_user"} -> {NULL, "clib", "user"}
      [] OTHER -> {"init", "final"}

ControlType ==
    /\ snStartedInitLibrary \in BOOLEAN /\ s_nLibraryInited \in BOOLEAN
    /\ hook \in [ToSet(Published) -> Function \cup {NULL}]
    /\ clib \in [ToSet(Name) -> {"clibinit", "clib"}]
    /\ saved \in [Settable -> Function \cup {NULL, "none"}]
    /\ pc \in [Thread -> {"idle", "check", "start", "dlsym", "publish", "body"}]
    /\ frame \in [Thread -> Frame]
    /\ process \in {"running", "exited", "corrupt"}

PointerValues ==
    /\ \A p \in ToSet(Published) : hook[p] \in Values(p)
    /\ \A p \in Settable : saved[p] \in Values(p) \cup {"none"}

\* The C library's functions are known, and realloc and free are the final ones.
Found == \A n \in ToSet(Name) : clib[n] = "clib"

InitializedState ==
    s_nLibraryInited =>
        /\ snStartedInitLibrary /\ Found
        /\ hook["g_realloc"] = "final" /\ hook["g_free"] = "final"

\* The thread has published this pointer.
Done(t, p) == \E i \in 1 .. 6 : Published[i] = p /\ i < frame[t].step

\* How far the initialization of the thread is.
InitializationStep(t) ==
    /\ pc[t] \in {"dlsym", "publish"} => snStartedInitLibrary
    /\ pc[t] = "dlsym" =>
          /\ frame[t].step \in 1 .. 4
          /\ \A i \in 1 .. 4 : i < frame[t].step => clib[Name[i]] = "clib"
    /\ pc[t] = "publish" =>
          /\ frame[t].step \in 1 .. 7 /\ Found
          /\ \A p \in {"g_realloc", "g_free"} : Done(t, p) => hook[p] = "final"

\* What function the call of a thread has read, for what operation.
CallFunction(t) ==
    LET f == frame[t] IN
    /\ pc[t] = "idle" <=> f.op = "none"
    /\ f.op = "none" => f = NoFrame
    /\ f.op = "set" => f.target \in Settable /\ f.fn \in Values(f.target) /\ f.ptr = NULL
    /\ f.op \in {"malloc", "calloc"} =>
          f.ptr = NULL /\ f.fn \in {"init", "clibinit", "clib", "user"}
    /\ f.op \in {"realloc", "free"} => f.fn \in {"init", "clibinit", "clib", "final"}

\* A call passes a block the program holds, to one call at a time, and to
\* AllocFreeHookCLib* a block of the C library.
PassedBlock(t) ==
    frame[t].ptr # NULL =>
        /\ frame[t].ptr \in DOMAIN blocks
        /\ frame[t].fn \in {"clib", "clibinit"} => blocks[frame[t].ptr].place = "library"
        /\ \A u \in Thread \ {t} : frame[u].ptr # frame[t].ptr

HookInv ==
    /\ MemoryOK /\ ControlType /\ PointerValues /\ InitializedState
    /\ \A t \in Thread : InitializationStep(t) /\ CallFunction(t) /\ PassedBlock(t)

\* The nested calls of dlsym.
LEMMA NestedCallTouches ==
    ASSUME HookAssumption, HookInv, NEW t \in Thread, DlsymCalls(t)
    PROVE  \E op \in ToSet(Name), id \in Id \cup {NULL},
              ptr \in DOMAIN blocks \cup {NULL} :
              /\ id \notin DOMAIN blocks \/ ~InUse(id)
              /\ ptr # NULL => op \in {"realloc", "free"}
              /\ Touches(id, PlaceOf(hook[Pointer[op]]))
              /\ process' = process
                 \/ (process' = "corrupt" /\ Misused(hook[Pointer[op]], op, ptr))
<1>0. PICK op \in ToSet(Name) : \E ptr \in Passable(op), asked \in Asked(op) :
          Body(hook[Pointer[op]], op, ptr, asked)
  BY DEF DlsymCalls
<1>1. PICK ptr \in Passable(op), asked \in Asked(op) :
          Body(hook[Pointer[op]], op, ptr, asked)
  BY <1>0
<1>2. /\ asked \in Nat /\ ptr \in DOMAIN blocks \cup {NULL}
      /\ op \in {"malloc", "calloc"} => ptr = NULL
      /\ ptr # NULL => ~InUse(ptr)
  BY <1>1, AskedIsNat DEF Passable
<1>3. NULL \notin DOMAIN blocks
  BY DEF HookAssumption, HookInv, MemoryOK
<1>4. PICK id \in Id \cup {NULL} :
          /\ id = ptr \/ id \notin DOMAIN blocks
          /\ Touches(id, PlaceOf(hook[Pointer[op]]))
  BY <1>1, <1>2, BodyTouches DEF HookInv
<1>5. process' = process \/ (process' = "corrupt" /\ Misused(hook[Pointer[op]], op, ptr))
  BY <1>1, <1>2, BodyTouches DEF HookInv
<1> QED
  BY <1>1, <1>2, <1>3, <1>4, <1>5, Names

\* The body of the function a call has read.
LEMMA ExecutedTouches ==
    ASSUME HookAssumption, HookInv, NEW t \in Thread, Executes(t)
    PROVE  /\ \E id \in Id \cup {NULL} :
                 /\ id = frame[t].ptr \/ id \notin DOMAIN blocks
                 /\ Touches(id, PlaceOf(frame[t].fn))
           /\ process' = process
              \/ (process' = "corrupt" /\ Misused(frame[t].fn, frame[t].op, frame[t].ptr))
<1> DEFINE f == frame[t]
<1>1. f.op \in ToSet(Name) /\ f.asked \in Nat /\ f.fn # NULL
  BY Names
  DEF Executes, At, HookInv, ControlType, Frame, CallFunction, HookAssumption, Function
<1>2. f.ptr \in DOMAIN blocks \cup {NULL} /\ (f.op \in {"malloc", "calloc"} => f.ptr = NULL)
  BY DEF HookInv, PassedBlock, CallFunction
<1>3. Body(f.fn, f.op, f.ptr, f.asked)
  BY <1>1 DEF Executes
<1> QED
  BY <1>1, <1>2, <1>3, BodyTouches DEF HookInv

-----------------------------------------------------------------------------
(* The invariant is kept.                                                  *)

\* Only the body of a function changes the blocks.
LEMMA MemoryKept ==
    ASSUME HookAssumption, HookInv, [Next]_vars
    PROVE  MemoryOK'
<1>1. CASE UNCHANGED <<offset, totalSize, blocks>>
  BY <1>1 DEF HookInv, MemoryOK
<1>2. ASSUME NEW t \in Thread, DlsymCalls(t) PROVE MemoryOK'
  BY <1>2, NestedCallTouches DEF Touches
<1>3. ASSUME NEW t \in Thread, Executes(t) PROVE MemoryOK'
  BY <1>3, ExecutedTouches DEF Touches
<1> QED
  BY <1>1, <1>2, <1>3
  DEF Next, Begin, Continue, vars, Halted, Calls, SetCall, GetCall, Cleans, Checks,
      Starts, Resolves, ResolveFails, Publishes, EndsInit, Forwards, Sets

\* A step is a step of one thread.
LEMMA OthersWait ==
    ASSUME HookInv, NEW t \in Thread, Begin(t) \/ Continue(t)
    PROVE  \A u \in Thread \ {t} : pc'[u] = pc[u] /\ frame'[u] = frame[u]
BY DEF HookInv, ControlType, Goto, Begin, Continue, Calls, SetCall, GetCall, Cleans,
       DlsymCalls, Checks, Starts, Resolves, ResolveFails, Publishes, EndsInit, Forwards,
       Executes, Sets

\* What the initialization has done stays done.
LEMMA ProgressStays ==
    ASSUME HookAssumption, HookInv, [Next]_vars
    PROVE  /\ snStartedInitLibrary => snStartedInitLibrary'
           /\ s_nLibraryInited => s_nLibraryInited'
           /\ \A n \in ToSet(Name) : clib[n] = "clib" => clib'[n] = "clib"
           /\ \A p \in {"g_realloc", "g_free"} : hook[p] = "final" => hook'[p] = "final"
<1> USE PublishedNames, Names DEF HookInv, ControlType
<1>1. ASSUME NEW t \in Thread, Resolves(t)
      PROVE  /\ UNCHANGED <<snStartedInitLibrary, s_nLibraryInited, hook>>
             /\ \A n \in ToSet(Name) : clib[n] = "clib" => clib'[n] = "clib"
  BY <1>1 DEF Resolves
<1>2. ASSUME NEW t \in Thread, Publishes(t) \/ Sets(t) \/ Cleans(t)
      PROVE  /\ UNCHANGED <<snStartedInitLibrary, s_nLibraryInited, clib>>
             /\ \A p \in {"g_realloc", "g_free"} : hook[p] = "final" => hook'[p] = "final"
  <2>1. CASE Publishes(t)
    BY <1>2, <2>1 DEF Publishes, InitialValue
  <2>2. CASE Sets(t)
    BY <1>2, <2>2 DEF Sets, CallFunction, HookAssumption
  <2>3. CASE Cleans(t)
    BY <1>2, <2>3 DEF Cleans
  <2> QED BY <1>2, <2>1, <2>2, <2>3
<1> QED
  BY <1>1, <1>2
  DEF Next, Begin, Continue, vars, Halted, Calls, SetCall, GetCall, DlsymCalls, Checks,
      Starts, ResolveFails, EndsInit, Forwards, Executes

\* The frame of a new call has its type.
LEMMA CallFrameType ==
    ASSUME HookInv, NEW op \in {"set"} \cup ToSet(Name), NEW fn \in Function \cup {NULL},
           NEW asked \in Nat, NEW ptr \in Id \cup {NULL},
           NEW target \in Settable \cup {NULL}
    PROVE  CallFrame(op, fn, asked, ptr, target) \in Frame
<1>1. (~s_nLibraryInited) \in BOOLEAN
  BY DEF HookInv, ControlType
<1> QED
  BY <1>1 DEF CallFrame, Frame

\* What a call of the program begins with.
LEMMA CallBegins ==
    ASSUME HookAssumption, HookInv, NEW t \in Thread, Calls(t)
    PROVE  \E op \in ToSet(Name), ptr \in DOMAIN blocks \cup {NULL}, asked \in Nat,
              fn \in Function :
              /\ asked \in Asked(op)
              /\ op \in {"malloc", "calloc"} => ptr = NULL
              /\ ptr # NULL => ~InUse(ptr)
              /\ fn \in {hook[Pointer[op]], clib[op]}
              /\ fn \in {"clib", "clibinit"} /\ ptr # NULL => blocks[ptr].place = "library"
              /\ frame' = [frame EXCEPT ![t] = CallFrame(op, fn, asked, ptr, NULL)]
              /\ pc' = [pc EXCEPT ![t] = IF fn \in {"init", "clibinit"}
                                         THEN "check" ELSE "body"]
<1>1. PICK op \in ToSet(Name) : \E ptr \in Passable(op), asked \in Asked(op) :
          \E fn \in {hook[Pointer[op]], clib[op]} :
              /\ fn \in {"clib", "clibinit"} /\ ptr # NULL
                    => blocks[ptr].place = "library"
              /\ frame' = [frame EXCEPT ![t] = CallFrame(op, fn, asked, ptr, NULL)]
              /\ Goto(t, IF fn \in {"init", "clibinit"} THEN "check" ELSE "body")
  BY DEF Calls
<1>2. PICK ptr \in Passable(op), asked \in Asked(op) :
          \E fn \in {hook[Pointer[op]], clib[op]} :
              /\ fn \in {"clib", "clibinit"} /\ ptr # NULL
                    => blocks[ptr].place = "library"
              /\ frame' = [frame EXCEPT ![t] = CallFrame(op, fn, asked, ptr, NULL)]
              /\ Goto(t, IF fn \in {"init", "clibinit"} THEN "check" ELSE "body")
  BY <1>1
<1>3. PICK fn \in {hook[Pointer[op]], clib[op]} :
              /\ fn \in {"clib", "clibinit"} /\ ptr # NULL
                    => blocks[ptr].place = "library"
              /\ frame' = [frame EXCEPT ![t] = CallFrame(op, fn, asked, ptr, NULL)]
              /\ Goto(t, IF fn \in {"init", "clibinit"} THEN "check" ELSE "body")
  BY <1>2
<1>4. /\ asked \in Nat /\ ptr \in DOMAIN blocks \cup {NULL}
      /\ op \in {"malloc", "calloc"} => ptr = NULL
      /\ ptr # NULL => ~InUse(ptr)
  BY AskedIsNat DEF Passable
<1>5. Pointer[op] \in {"g_malloc", "g_calloc", "g_realloc", "g_free"}
  BY Names DEF Pointer
<1>6. fn \in Function
  BY <1>5, Names, PublishedNames
  DEF HookInv, PointerValues, Values, ControlType, Function
<1> QED
  BY <1>3, <1>4, <1>6 DEF Goto

\* What a call of AllocFreeHookSet*Fnc begins with.
LEMMA SetBegins ==
    ASSUME HookAssumption, HookInv, NEW t \in Thread, SetCall(t)
    PROVE  \E p \in Settable : \E fn \in {"user"} \cup ({saved[p]} \ {"none"}) :
              /\ fn \in Values(p) /\ fn \in Function \cup {NULL}
              /\ frame' = [frame EXCEPT ![t] = CallFrame("set", fn, 0, NULL, p)]
              /\ pc' = [pc EXCEPT ![t] = "check"]
<1>1. PICK p \in Settable : \E fn \in {"user"} \cup ({saved[p]} \ {"none"}) :
          frame' = [frame EXCEPT ![t] = CallFrame("set", fn, 0, NULL, p)]
  BY DEF SetCall
<1>2. PICK fn \in {"user"} \cup ({saved[p]} \ {"none"}) :
          frame' = [frame EXCEPT ![t] = CallFrame("set", fn, 0, NULL, p)]
  BY <1>1
<1>3. fn \in Values(p) /\ fn \in Function \cup {NULL}
  BY DEF HookInv, PointerValues, Values, HookAssumption, Function
<1>4. pc' = [pc EXCEPT ![t] = "check"]
  BY DEF SetCall, Goto
<1> QED BY <1>2, <1>3, <1>4

\* Types.
LEMMA ControlTypeKept ==
    ASSUME HookAssumption, HookInv, [Next]_vars
    PROVE  ControlType'
<1> USE HookAssumption DEF HookInv, ControlType
<1>1. ASSUME NEW t \in Thread, Calls(t) PROVE ControlType'
  <2>1. PICK op \in ToSet(Name), ptr \in DOMAIN blocks \cup {NULL}, asked \in Nat,
             fn \in Function :
          /\ frame' = [frame EXCEPT ![t] = CallFrame(op, fn, asked, ptr, NULL)]
          /\ pc' = [pc EXCEPT ![t] = IF fn \in {"init", "clibinit"}
                                     THEN "check" ELSE "body"]
    BY <1>1, CallBegins
  <2>2. CallFrame(op, fn, asked, ptr, NULL) \in Frame
    BY CallFrameType DEF MemoryOK
  <2> QED
    BY <1>1, <2>1, <2>2 DEF Calls
<1>2. ASSUME NEW t \in Thread, SetCall(t) PROVE ControlType'
  <2>1. PICK p \in Settable, fn \in Function \cup {NULL} :
          /\ frame' = [frame EXCEPT ![t] = CallFrame("set", fn, 0, NULL, p)]
          /\ pc' = [pc EXCEPT ![t] = "check"]
    BY <1>2, SetBegins
  <2>2. CallFrame("set", fn, 0, NULL, p) \in Frame
    BY CallFrameType
  <2> QED
    BY <1>2, <2>1, <2>2 DEF SetCall
<1>3. ASSUME NEW t \in Thread, GetCall(t) PROVE ControlType'
  BY <1>3, PublishedNames DEF GetCall
<1>4. ASSUME NEW t \in Thread, Checks(t) PROVE ControlType'
  BY <1>4 DEF Checks, Goto
<1>5. ASSUME NEW t \in Thread, Starts(t) PROVE ControlType'
  <2>1. [frame[t] EXCEPT !.step = 1] \in Frame
    BY DEF Frame
  <2> QED
    BY <1>5, <2>1 DEF Starts, Goto
<1>6. ASSUME NEW t \in Thread, DlsymCalls(t) PROVE ControlType'
  BY <1>6, NestedCallTouches DEF DlsymCalls
<1>7. ASSUME NEW t \in Thread, Resolves(t) PROVE ControlType'
  <2>1. Len(Name) = 4 /\ frame[t].step \in 1 .. 4
    BY <1>7 DEF Name, Resolves, At, InitializationStep
  <2>2. /\ [frame[t] EXCEPT !.step = 1] \in Frame
        /\ [frame[t] EXCEPT !.step = @ + 1] \in Frame
    BY <2>1 DEF Frame
  <2>3. clib' \in [ToSet(Name) -> {"clibinit", "clib"}]
    BY <1>7 DEF Resolves
  <2> QED
    BY <1>7, <2>1, <2>2, <2>3 DEF Resolves, Goto
<1>8. ASSUME NEW t \in Thread, ResolveFails(t) PROVE ControlType'
  BY <1>8 DEF ResolveFails
<1>9. ASSUME NEW t \in Thread, Publishes(t) PROVE ControlType'
  <2>1. frame[t].step \in 1 .. 6
    BY <1>9, PublishedNames DEF Publishes, At, InitializationStep
  <2>2. [frame[t] EXCEPT !.step = @ + 1] \in Frame
    BY <2>1 DEF Frame
  <2>3. \A p \in ToSet(Published) : InitialValue(p) \in Function
    BY PublishedNames, Names DEF InitialValue, Function
  <2> QED
    BY <1>9, <2>1, <2>2, <2>3, PublishedNames DEF Publishes
<1>10. ASSUME NEW t \in Thread, EndsInit(t) PROVE ControlType'
  BY <1>10 DEF EndsInit, Goto
<1>11. ASSUME NEW t \in Thread, Forwards(t) PROVE ControlType'
  <2>1. frame[t].op \in ToSet(Name)
    BY <1>11, Names DEF Forwards, At, CallFunction, Frame
  <2>2. clib[frame[t].op] \in Function
    BY <2>1 DEF Function
  <2>3. [frame[t] EXCEPT !.fn = clib[frame[t].op]] \in Frame
    BY <2>2 DEF Frame
  <2> QED
    BY <1>11, <2>3 DEF Forwards, Goto
<1>12. ASSUME NEW t \in Thread, Executes(t) PROVE ControlType'
  <2>1. NoFrame \in Frame
    BY DEF NoFrame, Frame
  <2>2. process' \in {"running", "exited", "corrupt"}
    BY <1>12, ExecutedTouches
  <2> QED
    BY <1>12, <2>1, <2>2 DEF Executes, Goto
<1>13. ASSUME NEW t \in Thread, Sets(t) PROVE ControlType'
  <2>1. NoFrame \in Frame
    BY DEF NoFrame, Frame
  <2>2. frame[t].fn \in Function \cup {NULL}
    BY DEF Frame
  <2> QED
    BY <1>13, <2>1, <2>2 DEF Sets, Goto
<1>14. ASSUME NEW t \in Thread, Cleans(t) PROVE ControlType'
  <2>1. \A p \in ToSet(Published) : InitialValue(p) \in Function
    BY PublishedNames, Names DEF InitialValue, Function
  <2> QED
    BY <1>14, <2>1 DEF Cleans
<1>15. CASE UNCHANGED vars
  BY <1>15 DEF vars
<1> QED
  BY <1>1, <1>2, <1>3, <1>4, <1>5, <1>6, <1>7, <1>8, <1>9, <1>10, <1>11, <1>12, <1>13,
     <1>14, <1>15
  DEF Next, Begin, Continue, Halted

LEMMA PointerValuesKept ==
    ASSUME HookAssumption, HookInv, [Next]_vars
    PROVE  PointerValues'
<1> USE HookAssumption, PublishedNames DEF HookInv, ControlType, PointerValues, Values
<1>1. ASSUME NEW t \in Thread, GetCall(t) PROVE PointerValues'
  BY <1>1 DEF GetCall
<1>2. ASSUME NEW t \in Thread, Publishes(t) PROVE PointerValues'
  <2>1. Found
    BY <1>2 DEF Publishes, At, InitializationStep
  <2>2. \A p \in ToSet(Published) : InitialValue(p) \in Values(p)
    BY <2>1, Names DEF InitialValue, Found
  <2>3. Published[frame[t].step] \in ToSet(Published)
    BY <1>2 DEF Publishes, At, InitializationStep
  <2> QED
    BY <1>2, <2>2, <2>3 DEF Publishes
<1>3. ASSUME NEW t \in Thread, Sets(t) PROVE PointerValues'
  BY <1>3 DEF Sets, At, CallFunction
<1>4. ASSUME NEW t \in Thread, Cleans(t) PROVE PointerValues'
  <2>1. \A p \in ToSet(Published) : InitialValue(p) \in Values(p)
    BY <1>4, Names DEF InitialValue, Found, Cleans, InitializedState
  <2> QED
    BY <1>4, <2>1 DEF Cleans
<1>5. CASE UNCHANGED <<hook, saved>>
  BY <1>5
<1> QED
  BY <1>1, <1>2, <1>3, <1>4, <1>5
  DEF Next, Begin, Continue, Halted, vars, Calls, SetCall, DlsymCalls, Checks, Starts,
      Resolves, ResolveFails, EndsInit, Forwards, Executes

LEMMA InitializedStateKept ==
    ASSUME HookAssumption, HookInv, [Next]_vars
    PROVE  InitializedState'
<1>1. Found => Found'
  BY ProgressStays DEF Found
<1>2. CASE s_nLibraryInited' = s_nLibraryInited
  BY <1>1, <1>2, ProgressStays DEF HookInv, InitializedState
<1>3. ASSUME NEW t \in Thread, EndsInit(t) PROVE InitializedState'
  <2>1. frame[t].step = 7 /\ Found /\ snStartedInitLibrary
    BY <1>3, PublishedNames DEF EndsInit, At, HookInv, InitializationStep
  <2>2. Done(t, "g_realloc") /\ Done(t, "g_free")
    BY <2>1 DEF Done, Published
  <2>3. hook["g_realloc"] = "final" /\ hook["g_free"] = "final"
    BY <1>3, <2>2 DEF EndsInit, At, HookInv, InitializationStep
  <2> QED
    BY <1>1, <1>3, <2>1, <2>3 DEF EndsInit, InitializedState
<1> QED
  BY <1>2, <1>3
  DEF Next, Begin, Continue, Halted, vars, Calls, SetCall, GetCall, Cleans, DlsymCalls,
      Checks, Starts, Resolves, ResolveFails, Publishes, Forwards, Executes, Sets

LEMMA InitializationStepKept ==
    ASSUME HookAssumption, HookInv, [Next]_vars, NEW u \in Thread
    PROVE  InitializationStep(u)'
<1> USE DEF HookInv, ControlType
<1>1. ASSUME UNCHANGED pc[u], UNCHANGED frame[u] PROVE InitializationStep(u)'
  BY <1>1, ProgressStays, Names DEF InitializationStep, Found, Done, Name
<1>2. ASSUME pc'[u] \notin {"dlsym", "publish"} PROVE InitializationStep(u)'
  BY <1>2 DEF InitializationStep
<1>3. ASSUME Starts(u) PROVE InitializationStep(u)'
  BY <1>3 DEF Starts, Goto, InitializationStep, Frame
<1>4. ASSUME Resolves(u) PROVE InitializationStep(u)'
  <2>1. /\ frame[u].step \in 1 .. 4 /\ snStartedInitLibrary'
        /\ \A i \in 1 .. 4 : i < frame[u].step => clib[Name[i]] = "clib"
    BY <1>4 DEF Resolves, At, InitializationStep
  <2>2. \A i \in 1 .. 4 : i <= frame[u].step => clib'[Name[i]] = "clib"
    BY <1>4, <2>1, Names DEF Resolves, Name
  <2>3. CASE frame[u].step < 4
    <3>1. frame'[u].step = frame[u].step + 1 /\ pc'[u] = "dlsym"
      BY <1>4, <2>3 DEF Resolves, At, Name, Frame
    <3> QED BY <2>1, <2>2, <2>3, <3>1 DEF InitializationStep
  <2>4. CASE frame[u].step = 4
    <3>1. frame'[u].step = 1 /\ pc'[u] = "publish"
      BY <1>4, <2>4 DEF Resolves, At, Name, Frame, Goto
    <3>2. Found'
      BY <2>2, <2>4, Names DEF Found, Name
    <3>3. \A p : ~Done(u, p)'
      BY <3>1 DEF Done
    <3> QED BY <2>1, <3>1, <3>2, <3>3 DEF InitializationStep
  <2> QED BY <2>1, <2>3, <2>4
<1>5. ASSUME Publishes(u) PROVE InitializationStep(u)'
  <2>1. /\ frame[u].step \in 1 .. 6 /\ Found /\ snStartedInitLibrary
        /\ \A p \in {"g_realloc", "g_free"} : Done(u, p) => hook[p] = "final"
    BY <1>5, PublishedNames DEF Publishes, At, InitializationStep
  <2>2. /\ frame'[u].step = frame[u].step + 1 /\ pc'[u] = "publish"
        /\ UNCHANGED <<clib, snStartedInitLibrary>>
    BY <1>5 DEF Publishes, At, Frame
  <2>3. \A p \in {"g_realloc", "g_free"} : Done(u, p)' => hook'[p] = "final"
    BY <1>5, <2>1, <2>2, PublishedNames DEF Publishes, InitialValue, Done, Published
  <2> QED BY <2>1, <2>2, <2>3 DEF InitializationStep, Found
<1>6. ASSUME Begin(u) PROVE InitializationStep(u)'
  <2>1. CASE Calls(u) \/ SetCall(u)
    BY <1>2, <2>1, CallBegins, SetBegins
  <2>2. CASE GetCall(u) \/ Cleans(u) \/ DlsymCalls(u)
    BY <1>1, <2>2 DEF GetCall, Cleans, DlsymCalls
  <2> QED BY <1>6, <2>1, <2>2 DEF Begin
<1>7. ASSUME Continue(u) PROVE InitializationStep(u)'
  <2>1. CASE Checks(u) \/ EndsInit(u) \/ Forwards(u) \/ Sets(u)
    BY <1>2, <2>1 DEF Checks, EndsInit, Forwards, Sets, Goto
  <2>2. CASE ResolveFails(u)
    BY <1>1, <2>2 DEF ResolveFails
  <2>3. CASE Executes(u)
    <3>1. pc'[u] = "idle" \/ UNCHANGED <<pc, frame>>
      BY <2>3 DEF Executes, Goto
    <3> QED BY <1>1, <1>2, <3>1
  <2> QED BY <1>3, <1>4, <1>5, <1>7, <2>1, <2>2, <2>3 DEF Continue
<1>8. ASSUME NEW t \in Thread \ {u}, Begin(t) \/ Continue(t) PROVE InitializationStep(u)'
  BY <1>1, <1>8, OthersWait
<1> QED
  BY <1>1, <1>6, <1>7, <1>8 DEF Next, Halted, vars

LEMMA CallFunctionKept ==
    ASSUME HookAssumption, HookInv, [Next]_vars, NEW u \in Thread
    PROVE  CallFunction(u)'
<1> USE Names, HookAssumption DEF HookInv, ControlType
<1>1. ASSUME UNCHANGED pc[u], UNCHANGED frame[u] PROVE CallFunction(u)'
  BY <1>1 DEF CallFunction, Values
<1>2. ASSUME pc'[u] = "idle", frame'[u] = NoFrame PROVE CallFunction(u)'
  BY <1>2 DEF CallFunction, NoFrame
<1>3. ASSUME Calls(u) PROVE CallFunction(u)'
  <2>1. PICK op \in ToSet(Name), ptr \in DOMAIN blocks \cup {NULL}, asked \in Nat,
             fn \in Function :
          /\ op \in {"malloc", "calloc"} => ptr = NULL
          /\ fn \in {hook[Pointer[op]], clib[op]}
          /\ frame' = [frame EXCEPT ![u] = CallFrame(op, fn, asked, ptr, NULL)]
          /\ pc' = [pc EXCEPT ![u] = IF fn \in {"init", "clibinit"}
                                     THEN "check" ELSE "body"]
    <3> HIDE DEF HookInv, ControlType
    <3> QED BY <1>3, CallBegins
  <2>2. /\ op \in {"malloc", "calloc"} => fn \in {"init", "clibinit", "clib", "user"}
        /\ op \in {"realloc", "free"} => fn \in {"init", "clibinit", "clib", "final"}
    BY <2>1, PublishedNames DEF Pointer, PointerValues, Values
  <2>3. frame'[u].op = op /\ frame'[u].fn = fn /\ frame'[u].ptr = ptr
    BY <2>1 DEF CallFrame
  <2> QED
    BY <2>1, <2>2, <2>3 DEF CallFunction
<1>4. ASSUME SetCall(u) PROVE CallFunction(u)'
  <2>1. PICK p \in Settable, fn \in Function \cup {NULL} :
          /\ fn \in Values(p)
          /\ frame' = [frame EXCEPT ![u] = CallFrame("set", fn, 0, NULL, p)]
          /\ pc' = [pc EXCEPT ![u] = "check"]
    BY <1>4, SetBegins
  <2>2. /\ frame'[u].op = "set" /\ frame'[u].fn = fn /\ frame'[u].ptr = NULL
        /\ frame'[u].target = p
    BY <2>1 DEF CallFrame
  <2> QED
    BY <2>1, <2>2 DEF CallFunction, Values
<1>5. ASSUME pc[u] # "idle", pc'[u] # "idle",
             \A field \in {"op", "fn", "ptr", "target"} :
                frame'[u][field] = frame[u][field]
      PROVE  CallFunction(u)'
  <2>1. /\ frame'[u].op = frame[u].op /\ frame'[u].fn = frame[u].fn
        /\ frame'[u].ptr = frame[u].ptr /\ frame'[u].target = frame[u].target
    BY <1>5
  <2> QED BY <1>5, <2>1 DEF CallFunction, Values
<1>6. ASSUME Forwards(u) PROVE CallFunction(u)'
  <2>1. frame[u].op \in ToSet(Name) /\ pc'[u] # "idle"
    BY <1>6 DEF Forwards, At, CallFunction, Frame, Goto
  <2>2. /\ frame'[u].op = frame[u].op /\ frame'[u].fn = clib[frame[u].op]
        /\ frame'[u].ptr = frame[u].ptr
    BY <1>6 DEF Forwards, Frame
  <2> QED BY <2>1, <2>2 DEF CallFunction
<1>7. ASSUME Starts(u) \/ Resolves(u) \/ Publishes(u) PROVE CallFunction(u)'
  <2>1. pc[u] # "idle" /\ pc'[u] # "idle"
    BY <1>7 DEF Starts, Resolves, Publishes, At, Goto
  <2>2. \A field \in {"op", "fn", "ptr", "target"} : frame'[u][field] = frame[u][field]
    BY <1>7 DEF Starts, Resolves, Publishes, Frame
  <2> QED BY <1>5, <2>1, <2>2
<1>8. ASSUME Checks(u) \/ EndsInit(u) PROVE CallFunction(u)'
  BY <1>5, <1>8 DEF Checks, EndsInit, At, Goto
<1>9. ASSUME Executes(u) PROVE CallFunction(u)'
  BY <1>1, <1>2, <1>9 DEF Executes, Goto
<1>10. ASSUME Sets(u) PROVE CallFunction(u)'
  BY <1>2, <1>10 DEF Sets, Goto
<1>11. ASSUME GetCall(u) \/ Cleans(u) \/ DlsymCalls(u) \/ ResolveFails(u)
       PROVE  CallFunction(u)'
  BY <1>1, <1>11 DEF GetCall, Cleans, DlsymCalls, ResolveFails
<1>12. ASSUME NEW t \in Thread \ {u}, Begin(t) \/ Continue(t) PROVE CallFunction(u)'
  BY <1>1, <1>12, OthersWait
<1> QED
  BY <1>1, <1>3, <1>4, <1>6, <1>7, <1>8, <1>9, <1>10, <1>11, <1>12
  DEF Next, Begin, Continue, Halted, vars

\* The blocks that calls in progress pass: a step leaves them, and the blocks
\* they name, to their calls, unless it begins such a call.
LEMMA PassedBlocksStay ==
    ASSUME HookInv,
           \A u \in Thread :
              frame'[u].ptr # NULL =>
                 /\ frame'[u].ptr = frame[u].ptr
                 /\ frame'[u].fn \in {"clib", "clibinit"} =>
                       \/ frame[u].fn \in {"clib", "clibinit"}
                       \/ blocks[frame[u].ptr].place = "library"
                 /\ frame[u].ptr \in DOMAIN blocks'
                 /\ blocks'[frame[u].ptr] = blocks[frame[u].ptr]
    PROVE  \A u \in Thread : PassedBlock(u)'
BY DEF HookInv, PassedBlock

LEMMA PassedBlocksKept ==
    ASSUME HookAssumption, HookInv, [Next]_vars
    PROVE  \A u \in Thread : PassedBlock(u)'
<1> USE Names, HookAssumption DEF HookInv, ControlType
<1>1. ASSUME UNCHANGED blocks,
             \A u \in Thread : frame'[u].ptr # NULL =>
                 /\ frame'[u].ptr = frame[u].ptr
                 /\ frame'[u].fn = frame[u].fn
      PROVE  \A u \in Thread : PassedBlock(u)'
  BY <1>1, PassedBlocksStay DEF PassedBlock
<1>2. ASSUME NEW t \in Thread, Calls(t) PROVE \A u \in Thread : PassedBlock(u)'
  <2>1. PICK op \in ToSet(Name), ptr \in DOMAIN blocks \cup {NULL}, asked \in Nat,
             fn \in Function :
          /\ ptr # NULL => ~InUse(ptr)
          /\ fn \in {"clib", "clibinit"} /\ ptr # NULL => blocks[ptr].place = "library"
          /\ frame' = [frame EXCEPT ![t] = CallFrame(op, fn, asked, ptr, NULL)]
    <3> HIDE DEF HookInv, ControlType
    <3> QED BY <1>2, CallBegins
  <2>2. frame'[t].fn = fn /\ frame'[t].ptr = ptr
    BY <2>1 DEF CallFrame
  <2>3. \A u \in Thread \ {t} : frame'[u] = frame[u]
    BY <2>1
  <2>4. UNCHANGED blocks
    BY <1>2 DEF Calls
  <2> QED
    BY <2>1, <2>2, <2>3, <2>4 DEF PassedBlock, InUse
<1>3. ASSUME NEW t \in Thread, SetCall(t) PROVE \A u \in Thread : PassedBlock(u)'
  <2>1. PICK p \in Settable, fn \in Function \cup {NULL} :
          frame' = [frame EXCEPT ![t] = CallFrame("set", fn, 0, NULL, p)]
    BY <1>3, SetBegins
  <2>2. frame'[t].ptr = NULL /\ \A u \in Thread \ {t} : frame'[u] = frame[u]
    BY <2>1 DEF CallFrame
  <2> QED
    BY <1>1, <1>3, <2>2 DEF SetCall
<1>4. ASSUME NEW t \in Thread, Starts(t) \/ Resolves(t) \/ Publishes(t)
      PROVE  \A u \in Thread : PassedBlock(u)'
  <2>1. /\ frame'[t].ptr = frame[t].ptr /\ frame'[t].fn = frame[t].fn
        /\ \A u \in Thread \ {t} : frame'[u] = frame[u]
    BY <1>4 DEF Starts, Resolves, Publishes, Frame
  <2> QED
    BY <1>1, <1>4, <2>1 DEF Starts, Resolves, Publishes
<1>5. ASSUME NEW t \in Thread, Forwards(t) PROVE \A u \in Thread : PassedBlock(u)'
  <2>1. frame[t].op \in ToSet(Name)
    BY <1>5 DEF Forwards, At, CallFunction, Frame
  <2>2. frame[t].ptr # NULL => frame[t].fn \in {"clib", "clibinit"}
    BY <1>5, <2>1 DEF Forwards, CallFunction
  <2>3. frame'[t].ptr = frame[t].ptr
    BY <1>5 DEF Forwards, Frame
  <2>4. \A u \in Thread \ {t} : frame'[u] = frame[u]
    BY <1>5 DEF Forwards
  <2> QED
    BY <1>5, <2>2, <2>3, <2>4, PassedBlocksStay DEF Forwards, PassedBlock
<1>6. ASSUME NEW t \in Thread, Executes(t) PROVE \A u \in Thread : PassedBlock(u)'
  <2>1. CASE process' = "running"
    <3>1. /\ frame'[t].ptr = NULL
          /\ \A u \in Thread \ {t} : frame'[u] = frame[u]
      BY <1>6, <2>1 DEF Executes, NoFrame
    <3>2. PICK id : /\ id = frame[t].ptr \/ id \notin DOMAIN blocks
                    /\ Touches(id, PlaceOf(frame[t].fn))
      BY <1>6, ExecutedTouches
    <3>3. \A u \in Thread \ {t} : frame[u].ptr # NULL =>
             frame[u].ptr \in DOMAIN blocks \ {id}
      BY <3>2 DEF PassedBlock
    <3> QED
      BY <3>1, <3>2, <3>3, PassedBlocksStay DEF Touches, MemoryOK
  <2>2. CASE process' # "running"
    <3>1. UNCHANGED frame /\ process' # process
      BY <1>6, <2>2 DEF Executes, At
    <3>2. /\ frame[t].fn # NULL
          /\ Body(frame[t].fn, frame[t].op, frame[t].ptr, frame[t].asked)
      BY <1>6 DEF Executes, At, CallFunction, Frame, Function
    <3>3. UNCHANGED blocks
      BY <3>1, <3>2
      DEF Body, Allocate, Reallocate, Release, MallocInitial, ReallocInitial,
          FreeInitial, LibraryMalloc, LibraryRealloc, LibraryFree, ReallocFinal,
          FreeFinal, Corrupt, ReturnsNULL, Forgotten
    <3> QED
      BY <1>1, <3>1, <3>3
  <2> QED BY <2>1, <2>2
<1>7. ASSUME NEW t \in Thread, DlsymCalls(t) PROVE \A u \in Thread : PassedBlock(u)'
  <2>1. PICK id, place : /\ id \notin DOMAIN blocks \/ ~InUse(id)
                         /\ Touches(id, place)
    BY <1>7, NestedCallTouches
  <2>2. UNCHANGED frame
    BY <1>7 DEF DlsymCalls
  <2>3. \A u \in Thread : frame[u].ptr # NULL => frame[u].ptr \in DOMAIN blocks \ {id}
    BY <2>1 DEF PassedBlock, InUse
  <2> QED
    BY <2>1, <2>2, <2>3, PassedBlocksStay DEF Touches, MemoryOK
<1>8. ASSUME NEW t \in Thread, Sets(t) PROVE \A u \in Thread : PassedBlock(u)'
  BY <1>1, <1>8 DEF Sets, NoFrame
<1>9. CASE UNCHANGED <<blocks, frame>>
  BY <1>1, <1>9
<1> QED
  BY <1>2, <1>3, <1>4, <1>5, <1>6, <1>7, <1>8, <1>9
  DEF Next, Begin, Continue, Halted, vars, GetCall, Cleans, Checks, ResolveFails, EndsInit

LEMMA HookInvInit ==
    ASSUME HookAssumption, Init
    PROVE  HookInv
<1> USE HookAssumption, PublishedNames, Names DEF Init
<1>1. MemoryOK
  BY DEF MemoryOK
<1>2. NoFrame \in Frame /\ NoFrame.op = "none" /\ NoFrame.ptr = NULL
  BY DEF NoFrame, Frame
<1>3. ControlType
  BY <1>2 DEF ControlType, Function
<1>4. PointerValues
  BY DEF PointerValues, Values
<1>5. InitializedState
  BY DEF InitializedState
<1>6. \A t \in Thread : InitializationStep(t) /\ CallFunction(t) /\ PassedBlock(t)
  BY <1>2 DEF InitializationStep, CallFunction, PassedBlock
<1> QED
  BY <1>1, <1>3, <1>4, <1>5, <1>6 DEF HookInv

LEMMA HookInvKept ==
    ASSUME HookAssumption, HookInv, [Next]_vars
    PROVE  HookInv'
<1>1. \A t \in Thread : InitializationStep(t)' /\ CallFunction(t)'
  BY InitializationStepKept, CallFunctionKept
<1> QED
  BY <1>1, MemoryKept, ControlTypeKept, PointerValuesKept, InitializedStateKept,
     PassedBlocksKept
  DEF HookInv

THEOREM HookInvHolds == ASSUME HookAssumption PROVE Spec => []HookInv
<1>1. Init => HookInv
  BY HookInvInit
<1>2. HookInv /\ [Next]_vars => HookInv'
  BY HookInvKept
<1> QED
  BY <1>1, <1>2, PTL DEF Spec

\* TypeOK: offset and headers never leave the buffer, a call keeps a function that
\* its pointer can hold, the initialization never runs past its last pointer.
THEOREM TypesHold == Spec => []TypeOK
<1>1. HookInv => TypeOK
  BY DEF HookInv, MemoryOK, ControlType, TypeOK
<1> QED
  BY <1>1, HookAssumption, HookInvHolds, PTL

-----------------------------------------------------------------------------
(* The initial buffer, when no size wraps around.                          *)

\* Every block begins at the offset, which is 0, under a header that counts
\* itself; so no element ever ends at the offset.
OnePlace ==
    /\ offset = 0
    /\ \A id \in DOMAIN blocks : blocks[id].at = 0
    /\ \A at \in DOMAIN totalSize : totalSize[at] > 0
    /\ BufferBlocksFit

\* No size wraps around together with its header.
NoWrap ==
    \A op \in ToSet(Name) : \A asked \in Asked(op) :
        (asked % SizeModulus) + HeaderSize + 8 < SizeModulus

\* A call keeps the size it was made with.
AskedKnown ==
    \A t \in Thread :
        frame[t].op \in ToSet(Name) => frame[t].asked \in Asked(frame[t].op)

LEMMA WithoutKeepsOnePlace ==
    ASSUME OnePlace, NEW id, blocks' = Without(blocks, id), UNCHANGED <<offset, totalSize>>
    PROVE  OnePlace'
BY DEF OnePlace, BufferBlocksFit, Without, Restrict

LEMMA MallocInitialOnePlace ==
    ASSUME HookAssumption, MemoryOK, OnePlace, NEW id \in Id, NEW asked \in Nat,
           (asked % SizeModulus) + HeaderSize + 8 < SizeModulus, MallocInitial(id, asked)
    PROVE  OnePlace'
<1> DEFINE wanted == asked % SizeModulus
           total  == CalculateRoundedMemorySize(wanted)
<1>1. /\ wanted \in Nat /\ total \in Nat /\ total >= wanted + HeaderSize
      /\ asked < SizeModulus => wanted = asked
  BY ModuloIsNat, RoundedIsNat, RoundedIsLargeEnough
<1>2. CASE ReturnsNULL
  BY <1>2 DEF ReturnsNULL, OnePlace, BufferBlocksFit
<1>3. CASE ~ReturnsNULL
  <2>1. /\ Fits(offset + total)
        /\ totalSize' = With(totalSize, offset, total)
        /\ blocks' = With(blocks, id, BufferBlock(offset, asked))
        /\ UNCHANGED <<offset, process>>
    BY <1>3 DEF MallocInitial
  <2> HIDE DEF wanted, total
  <2>2. offset' = 0 /\ total > 0 /\ total < InitMemSize
    BY <1>1, <2>1 DEF OnePlace, Fits, HookAssumption
  <2>3. \A at \in DOMAIN totalSize' : totalSize'[at] > 0
    BY <2>1, <2>2 DEF OnePlace, With
  <2>4. \A other \in DOMAIN blocks' :
           \/ other = id /\ blocks'[other] = BufferBlock(0, asked)
           \/ other \in DOMAIN blocks /\ blocks'[other] = blocks[other]
    BY <2>1 DEF OnePlace, With
  <2>5. asked + HeaderSize + 8 < SizeModulus => HeaderSize + asked <= InitMemSize
    BY <1>1, <2>2 DEF HookAssumption
  <2>6. BufferBlock(0, asked).at = 0 /\ BufferBlock(0, asked).asked = asked
    BY DEF BufferBlock
  <2>7. \A other \in DOMAIN blocks' : blocks'[other].at = 0
    BY <2>4, <2>6 DEF OnePlace
  <2>8. BufferBlocksFit'
    BY <2>4, <2>5, <2>6 DEF OnePlace, BufferBlocksFit, HookAssumption
  <2> QED
    BY <2>2, <2>3, <2>7, <2>8 DEF OnePlace
<1> QED BY <1>2, <1>3

LEMMA LibraryBlockKeepsOnePlace ==
    ASSUME OnePlace, NEW id \in Id, NEW asked \in Nat, LibraryMalloc(id, asked)
    PROVE  OnePlace'
<1>1. CASE ReturnsNULL
  BY <1>1 DEF ReturnsNULL, OnePlace, BufferBlocksFit
<1>2. CASE ~ReturnsNULL
  BY <1>2 DEF LibraryMalloc, With, LibraryBlock, OnePlace, BufferBlocksFit
<1> QED BY <1>1, <1>2

\* The last element is not found.
LEMMA NoLastElement ==
    ASSUME MemoryOK, OnePlace, NEW id \in DOMAIN blocks, blocks[id].place # "library"
    PROVE  ~IsLast(blocks[id].at)
BY DEF MemoryOK, OnePlace, IsLast, Block

LEMMA BodyKeepsOnePlace ==
    ASSUME HookAssumption, MemoryOK, OnePlace, NEW fn, NEW op, NEW asked \in Nat,
           (asked % SizeModulus) + HeaderSize + 8 < SizeModulus,
           NEW ptr \in DOMAIN blocks \cup {NULL}, Body(fn, op, ptr, asked)
    PROVE  OnePlace'
<1>0. DOMAIN blocks \subseteq Id /\ NULL \notin Id
  BY DEF MemoryOK, HookAssumption
<1>1. CASE UNCHANGED <<offset, totalSize, blocks>>
  BY <1>1 DEF OnePlace, BufferBlocksFit
<1>2. ASSUME NEW id, Forgotten(id) PROVE OnePlace'
  BY <1>2, WithoutKeepsOnePlace DEF Forgotten
<1>3. ASSUME NEW id \in Id, LibraryMalloc(id, asked) PROVE OnePlace'
  BY <1>3, LibraryBlockKeepsOnePlace
<1>4. ASSUME NEW id \in Id, MallocInitial(id, asked) PROVE OnePlace'
  BY <1>4, MallocInitialOnePlace
<1>5. ASSUME NEW id \in Id, NEW held \in BOOLEAN, held => id \in DOMAIN blocks,
             ReallocInitial(id, held, asked)
      PROVE  OnePlace'
  BY <1>1, <1>2, <1>4, <1>5, NoLastElement DEF ReallocInitial, Corrupt
<1>6. ASSUME NEW id, LibraryFree(id) PROVE OnePlace'
  BY <1>1, <1>2, <1>6 DEF LibraryFree, Corrupt
<1>7. ASSUME NEW id \in Id, NEW held \in BOOLEAN, LibraryRealloc(id, held, asked)
      PROVE  OnePlace'
  BY <1>1, <1>3, <1>6, <1>7 DEF LibraryRealloc, Corrupt
<1>8. ASSUME NEW id \in Id, NEW held \in BOOLEAN, ReallocFinal(id, held, asked)
      PROVE  OnePlace'
  BY <1>1, <1>2, <1>3, <1>7, <1>8 DEF ReallocFinal, Corrupt
<1>9. ASSUME FreeInitial(ptr) PROVE OnePlace'
  <2>1. CASE ptr = NULL \/ blocks[ptr].place = "library"
    BY <1>1, <1>9, <2>1 DEF FreeInitial, Corrupt, ReturnsNULL
  <2>2. CASE ptr # NULL /\ blocks[ptr].place # "library"
    BY <1>9, <2>2, NoLastElement, WithoutKeepsOnePlace DEF FreeInitial
  <2> QED BY <2>1, <2>2
<1>10. ASSUME FreeFinal(ptr) PROVE OnePlace'
  BY <1>1, <1>2, <1>6, <1>10 DEF FreeFinal, Corrupt
<1>11. ASSUME NEW id \in Id \ DOMAIN blocks, Allocate(fn, op, id, asked) PROVE OnePlace'
  BY <1>3, <1>4, <1>11 DEF Allocate
<1>12. ASSUME NEW id \in IF ptr = NULL THEN Id \ DOMAIN blocks ELSE {ptr},
              Reallocate(fn, ptr, id, asked)
       PROVE  OnePlace'
  <2>1. id \in Id /\ (ptr # NULL => id \in DOMAIN blocks) /\ (ptr # NULL) \in BOOLEAN
    BY <1>0
  <2> QED
    BY <1>5, <1>7, <1>8, <1>12, <2>1 DEF Reallocate
<1>13. ASSUME Release(fn, ptr) PROVE OnePlace'
  BY <1>6, <1>9, <1>10, <1>13 DEF Release
<1> QED
  BY <1>11, <1>12, <1>13 DEF Body

LEMMA OnePlaceKept ==
    ASSUME HookAssumption, NoWrap, HookInv, AskedKnown, OnePlace, [Next]_vars
    PROVE  OnePlace'
<1>1. CASE UNCHANGED <<offset, totalSize, blocks>>
  BY <1>1 DEF OnePlace, BufferBlocksFit
<1>2. ASSUME NEW t \in Thread, DlsymCalls(t) PROVE OnePlace'
  <2>1. PICK op \in ToSet(Name) : \E ptr \in Passable(op), asked \in Asked(op) :
            Body(hook[Pointer[op]], op, ptr, asked)
    BY <1>2 DEF DlsymCalls
  <2>2. PICK ptr \in Passable(op), asked \in Asked(op) :
            Body(hook[Pointer[op]], op, ptr, asked)
    BY <2>1
  <2>3. /\ asked \in Nat /\ ptr \in DOMAIN blocks \cup {NULL}
        /\ (asked % SizeModulus) + HeaderSize + 8 < SizeModulus
    BY AskedIsNat DEF Passable, NoWrap
  <2> QED
    BY <2>2, <2>3, BodyKeepsOnePlace DEF HookInv
<1>3. ASSUME NEW t \in Thread, Executes(t) PROVE OnePlace'
  <2>1. frame[t].op \in ToSet(Name) /\ frame[t].fn # NULL
    BY <1>3, Names
    DEF Executes, At, HookInv, ControlType, Frame, CallFunction, HookAssumption, Function
  <2>2. /\ frame[t].asked \in Nat /\ frame[t].ptr \in DOMAIN blocks \cup {NULL}
        /\ (frame[t].asked % SizeModulus) + HeaderSize + 8 < SizeModulus
    BY <2>1, AskedIsNat DEF AskedKnown, NoWrap, HookInv, PassedBlock
  <2>3. Body(frame[t].fn, frame[t].op, frame[t].ptr, frame[t].asked)
    BY <1>3, <2>1 DEF Executes
  <2> QED
    BY <2>2, <2>3, BodyKeepsOnePlace DEF HookInv
<1> QED
  BY <1>1, <1>2, <1>3
  DEF Next, Begin, Continue, vars, Halted, Calls, SetCall, GetCall, Cleans, Checks,
      Starts, Resolves, ResolveFails, Publishes, EndsInit, Forwards, Sets

LEMMA AskedKnownKept ==
    ASSUME HookAssumption, HookInv, AskedKnown, [Next]_vars
    PROVE  AskedKnown'
<1> USE DEF HookInv, ControlType, AskedKnown
<1>1. ASSUME \A u \in Thread : \/ frame'[u].op \notin ToSet(Name)
                               \/ /\ frame'[u].op = frame[u].op
                                  /\ frame'[u].asked = frame[u].asked
      PROVE  AskedKnown'
  BY <1>1
<1>2. ASSUME NEW t \in Thread, Calls(t) PROVE AskedKnown'
  <2>1. PICK op \in ToSet(Name), ptr \in DOMAIN blocks \cup {NULL}, asked \in Nat,
             fn \in Function :
          /\ asked \in Asked(op)
          /\ frame' = [frame EXCEPT ![t] = CallFrame(op, fn, asked, ptr, NULL)]
    <3> HIDE DEF HookInv, ControlType
    <3> QED BY <1>2, CallBegins
  <2>2. /\ frame'[t].op = op /\ frame'[t].asked = asked
        /\ \A u \in Thread \ {t} : frame'[u] = frame[u]
    BY <2>1 DEF CallFrame
  <2> QED
    BY <2>1, <2>2
<1>3. ASSUME NEW t \in Thread, frame'[t].op \notin ToSet(Name),
             \A u \in Thread \ {t} : frame'[u] = frame[u]
      PROVE  AskedKnown'
  BY <1>1, <1>3
<1>4. ASSUME NEW t \in Thread, SetCall(t) PROVE AskedKnown'
  BY <1>3, <1>4, SetBegins, Names DEF CallFrame
<1>5. ASSUME NEW t \in Thread, Starts(t) \/ Resolves(t) \/ Publishes(t) \/ Forwards(t)
      PROVE  AskedKnown'
  <2>1. /\ frame'[t].op = frame[t].op /\ frame'[t].asked = frame[t].asked
        /\ \A u \in Thread \ {t} : frame'[u] = frame[u]
    BY <1>5 DEF Starts, Resolves, Publishes, Forwards, Frame
  <2> QED BY <1>1, <2>1
<1>6. ASSUME NEW t \in Thread, Executes(t) \/ Sets(t) PROVE AskedKnown'
  <2>1. \/ UNCHANGED frame
        \/ frame' = [frame EXCEPT ![t] = NoFrame]
    BY <1>6 DEF Executes, Sets
  <2>2. NoFrame.op \notin ToSet(Name)
    BY Names DEF NoFrame
  <2> QED BY <1>1, <1>3, <2>1, <2>2
<1>7. CASE UNCHANGED frame
  BY <1>1, <1>7
<1> QED
  BY <1>2, <1>4, <1>5, <1>6, <1>7
  DEF Next, Begin, Continue, vars, Halted, GetCall, Cleans, Checks, ResolveFails,
      EndsInit, DlsymCalls

LEMMA OnePlaceHolds == ASSUME NoWrap PROVE Spec => []OnePlace
<1>1. Init => OnePlace /\ AskedKnown
  BY Names DEF Init, OnePlace, BufferBlocksFit, AskedKnown, NoFrame
<1>2. HookInv /\ AskedKnown /\ OnePlace /\ [Next]_vars => AskedKnown' /\ OnePlace'
  BY HookAssumption, OnePlaceKept, AskedKnownKept
<1> QED
  BY <1>1, <1>2, HookAssumption, HookInvHolds, PTL DEF Spec

\* BufferBlocksFit: the buffer is left at no byte the program asked for, when no
\* size wraps around.  (One that wraps around to no bytes with its header makes a
\* last element, whose realloc moves the offset up to the end of the buffer.)
THEOREM BlocksLieInBuffer == ASSUME NoWrap PROVE Spec => []BufferBlocksFit
<1>1. OnePlace => BufferBlocksFit
  BY DEF OnePlace
<1> QED
  BY <1>1, OnePlaceHolds, PTL

-----------------------------------------------------------------------------
(* Several threads, when the getters are called after the initialization.  *)

\* What no pointer is once it is set.
Unset == {"init", NULL}

\* Only a call that began before the end of the initialization can still have one
\* of the initial functions, or find a pointer that is not set.
EarlyCall(t) ==
    LET f == frame[t] IN
    /\ pc[t] = "publish" => \A p \in ToSet(Published) : Done(t, p) => hook[p] \notin Unset
    /\ f.op = "set" => f.fn \notin Unset
    /\ f.op # "none" /\ ~f.early => s_nLibraryInited
    /\ f.op \in ToSet(Name) /\ ~f.early =>
          pc[t] = "body" /\ f.fn \notin {"init", "clibinit"}
    /\ pc[t] \in {"start", "dlsym", "publish"} => f.early

SetPointers ==
    /\ s_nLibraryInited => \A p \in ToSet(Published) : hook[p] \notin Unset
    /\ \A p \in Settable : saved[p] \notin Unset

EarlyInv == SetPointers /\ \A t \in Thread : EarlyCall(t)

\* A pointer is set once and for all.
LEMMA PointersStaySet ==
    ASSUME HookAssumption, HookInv, EarlyInv, [Next]_vars
    PROVE  \A p \in ToSet(Published) : hook[p] \notin Unset => hook'[p] \notin Unset
<1> USE HookAssumption, PublishedNames DEF HookInv, ControlType, Unset
<1>1. ASSUME NEW t \in Thread, Publishes(t)
      PROVE  \A p \in ToSet(Published) : hook[p] \notin Unset => hook'[p] \notin Unset
  <2>1. Found
    BY <1>1 DEF Publishes, At, InitializationStep
  <2>2. \A p \in ToSet(Published) : InitialValue(p) \in {"clib", "final"}
    BY <2>1, Names DEF Found, InitialValue
  <2> QED
    BY <1>1, <2>2 DEF Publishes, HookAssumption, Function
<1>2. ASSUME NEW t \in Thread, Sets(t)
      PROVE  \A p \in ToSet(Published) : hook[p] \notin Unset => hook'[p] \notin Unset
  BY <1>2 DEF Sets, EarlyInv, EarlyCall
<1>3. ASSUME NEW t \in Thread, Cleans(t)
      PROVE  \A p \in ToSet(Published) : hook[p] \notin Unset => hook'[p] \notin Unset
  <2>1. \A p \in ToSet(Published) : InitialValue(p) \in {"clib", "final"}
    BY <1>3, Names DEF Cleans, InitializedState, Found, InitialValue
  <2> QED
    BY <1>3, <2>1 DEF Cleans, HookAssumption, Function
<1> QED
  BY <1>1, <1>2, <1>3
  DEF Next, Begin, Continue, vars, Halted, Calls, SetCall, GetCall, DlsymCalls, Checks,
      Starts, Resolves, ResolveFails, EndsInit, Forwards, Executes

LEMMA SetPointersKept ==
    ASSUME HookAssumption, EarlyGet = FALSE, HookInv, EarlyInv, [Next]_vars
    PROVE  SetPointers'
<1> USE DEF EarlyInv, SetPointers
<1>1. s_nLibraryInited' => \A p \in ToSet(Published) : hook'[p] \notin Unset
  <2>1. ASSUME NEW t \in Thread, EndsInit(t)
        PROVE  \A p \in ToSet(Published) : hook[p] \notin Unset
    <3>1. frame[t].step = 7
      BY <2>1, PublishedNames DEF EndsInit, At, HookInv, InitializationStep
    <3>2. \A p \in ToSet(Published) : Done(t, p)
      BY <3>1, PublishedNames DEF Done, Published
    <3> QED
      BY <2>1, <3>2 DEF EndsInit, At, EarlyCall
  <2>2. CASE UNCHANGED s_nLibraryInited
    BY <2>2, PointersStaySet
  <2> QED
    BY <2>1, <2>2, PointersStaySet
    DEF Next, Begin, Continue, vars, Halted, Calls, SetCall, GetCall, Cleans, DlsymCalls,
        Checks, Starts, Resolves, ResolveFails, Publishes, Forwards, Executes, Sets
<1>2. \A p \in Settable : saved'[p] \notin Unset
  <2>1. ASSUME NEW t \in Thread, GetCall(t)
        PROVE  \A p \in Settable : saved'[p] \notin Unset
    <3>1. s_nLibraryInited
      BY <2>1 DEF GetCall
    <3>2. PICK p \in Settable : saved' = [saved EXCEPT ![p] = hook[p]]
      BY <2>1 DEF GetCall
    <3>3. hook[p] \notin Unset
      BY <3>1, PublishedNames DEF HookAssumption
    <3> QED
      BY <3>2, <3>3 DEF HookInv, ControlType
  <2>2. CASE UNCHANGED saved
    BY <2>2
  <2> QED
    BY <2>1, <2>2
    DEF Next, Begin, Continue, vars, Halted, Calls, SetCall, Cleans, DlsymCalls, Checks,
        Starts, Resolves, ResolveFails, Publishes, EndsInit, Forwards, Executes, Sets
<1> QED BY <1>1, <1>2

LEMMA EarlyCallKept ==
    ASSUME HookAssumption, HookInv, EarlyInv, [Next]_vars, NEW u \in Thread
    PROVE  EarlyCall(u)'
<1> USE Names, HookAssumption DEF HookInv, ControlType
<1>1. ASSUME UNCHANGED pc[u], UNCHANGED frame[u] PROVE EarlyCall(u)'
  BY <1>1, PointersStaySet, ProgressStays DEF EarlyInv, EarlyCall, Done
<1>2. ASSUME pc'[u] = "idle", frame'[u] = NoFrame PROVE EarlyCall(u)'
  BY <1>2 DEF EarlyCall, NoFrame
<1>3. ASSUME Calls(u) PROVE EarlyCall(u)'
  <2>1. PICK op \in ToSet(Name), ptr \in DOMAIN blocks \cup {NULL}, asked \in Nat,
             fn \in Function :
          /\ fn \in {hook[Pointer[op]], clib[op]}
          /\ frame' = [frame EXCEPT ![u] = CallFrame(op, fn, asked, ptr, NULL)]
          /\ pc' = [pc EXCEPT ![u] = IF fn \in {"init", "clibinit"}
                                     THEN "check" ELSE "body"]
    <3> HIDE DEF HookInv, ControlType
    <3> QED BY <1>3, CallBegins
  <2>2. /\ frame'[u].op = op /\ frame'[u].fn = fn
        /\ frame'[u].early = ~s_nLibraryInited
    BY <2>1 DEF CallFrame
  <2>3. s_nLibraryInited => fn \notin {"init", "clibinit"}
    BY <2>1, PublishedNames
    DEF Pointer, EarlyInv, SetPointers, InitializedState, Found, PointerValues, Values,
        Unset
  <2>4. s_nLibraryInited' = s_nLibraryInited
    BY <1>3 DEF Calls
  <2> QED
    BY <2>1, <2>2, <2>3, <2>4 DEF EarlyCall
<1>4. ASSUME SetCall(u) PROVE EarlyCall(u)'
  <2>1. PICK p \in Settable, fn \in Function \cup {NULL} :
          /\ fn \in {"user"} \cup ({saved[p]} \ {"none"})
          /\ frame' = [frame EXCEPT ![u] = CallFrame("set", fn, 0, NULL, p)]
          /\ pc' = [pc EXCEPT ![u] = "check"]
    BY <1>4, SetBegins
  <2>2. /\ frame'[u].op = "set" /\ frame'[u].fn = fn
        /\ frame'[u].early = ~s_nLibraryInited
    BY <2>1 DEF CallFrame
  <2>3. fn \notin Unset
    BY <2>1 DEF EarlyInv, SetPointers, Unset, Function
  <2>4. s_nLibraryInited' = s_nLibraryInited
    BY <1>4 DEF SetCall
  <2> QED
    BY <2>1, <2>2, <2>3, <2>4 DEF EarlyCall
<1>5. ASSUME Checks(u) PROVE EarlyCall(u)'
  BY <1>5, ProgressStays
  DEF Checks, At, Goto, EarlyInv, EarlyCall, CallFunction, InitializedState, Frame
<1>6. ASSUME Starts(u) \/ Resolves(u) PROVE EarlyCall(u)'
  <2>1. /\ pc[u] \in {"start", "dlsym"} /\ pc'[u] \in {"body", "dlsym", "publish"}
        /\ pc'[u] = "publish" => frame'[u].step = 1
    BY <1>6 DEF Starts, Resolves, At, Goto, Frame
  <2>2. /\ frame'[u].op = frame[u].op /\ frame'[u].fn = frame[u].fn
        /\ frame'[u].early = frame[u].early
    BY <1>6 DEF Starts, Resolves, Frame
  <2> QED
    BY <2>1, <2>2 DEF EarlyInv, EarlyCall, Done
<1>7. ASSUME Publishes(u) PROVE EarlyCall(u)'
  <2>1. /\ frame[u].step \in 1 .. 6 /\ Found
        /\ \A p \in ToSet(Published) : Done(u, p) => hook[p] \notin Unset
    BY <1>7, PublishedNames DEF Publishes, At, InitializationStep, EarlyInv, EarlyCall
  <2>2. /\ frame'[u].op = frame[u].op /\ frame'[u].fn = frame[u].fn
        /\ frame'[u].early = frame[u].early /\ frame'[u].step = frame[u].step + 1
        /\ UNCHANGED pc
    BY <1>7 DEF Publishes, Frame
  <2>3. hook'[Published[frame[u].step]] \in {"clib", "final"}
    BY <1>7, <2>1, PublishedNames DEF Publishes, InitialValue, Found
  <2>4. ASSUME NEW p \in ToSet(Published), Done(u, p)' PROVE hook'[p] \notin Unset
    <3>1. Done(u, p) \/ p = Published[frame[u].step]
      BY <2>1, <2>2, <2>4 DEF Done
    <3> QED
      BY <2>1, <2>3, <3>1, PointersStaySet DEF Unset, Function
  <2> QED
    BY <2>2, <2>4, <1>7 DEF EarlyInv, EarlyCall, Publishes, At
<1>8. ASSUME EndsInit(u) PROVE EarlyCall(u)'
  BY <1>8 DEF EndsInit, At, Goto, EarlyInv, EarlyCall
<1>9. ASSUME Forwards(u) PROVE EarlyCall(u)'
  <2>1. /\ frame[u].op \in ToSet(Name) /\ pc[u] = "body"
        /\ pc' = [pc EXCEPT ![u] = IF clib[frame[u].op] = "clibinit"
                                   THEN "check" ELSE "body"]
        /\ UNCHANGED s_nLibraryInited
    BY <1>9 DEF Forwards, At, CallFunction, Frame, Goto
  <2>2. /\ frame'[u].op = frame[u].op /\ frame'[u].fn = clib[frame[u].op]
        /\ frame'[u].early = frame[u].early
    BY <1>9 DEF Forwards, Frame
  <2>3. clib[frame[u].op] = "clib" \/ ~s_nLibraryInited
    BY <2>1 DEF InitializedState, Found
  <2> QED
    BY <2>1, <2>2, <2>3 DEF EarlyInv, EarlyCall
<1>10. ASSUME Executes(u) \/ Sets(u) PROVE EarlyCall(u)'
  BY <1>1, <1>2, <1>10 DEF Executes, Sets, Goto
<1>11. ASSUME GetCall(u) \/ Cleans(u) \/ DlsymCalls(u) \/ ResolveFails(u)
       PROVE  EarlyCall(u)'
  BY <1>1, <1>11 DEF GetCall, Cleans, DlsymCalls, ResolveFails
<1>12. ASSUME NEW t \in Thread \ {u}, Begin(t) \/ Continue(t) PROVE EarlyCall(u)'
  BY <1>1, <1>12, OthersWait
<1> QED
  BY <1>1, <1>3, <1>4, <1>5, <1>6, <1>7, <1>8, <1>9, <1>10, <1>11, <1>12
  DEF Next, Begin, Continue, Halted, vars

\* The call of a thread that is not early is not undefined.
LEMMA LateCallIsDefined ==
    ASSUME HookAssumption, HookInv, EarlyInv, NEW t \in Thread, ~frame[t].early,
           Executes(t)
    PROVE  process' = process
<1>1. /\ frame[t].op \in ToSet(Name) /\ pc[t] = "body"
  BY Names DEF Executes, At, HookInv, ControlType, CallFunction, Frame
<1>2. s_nLibraryInited /\ frame[t].fn # "init"
  BY <1>1, Names DEF EarlyInv, EarlyCall
<1>3. hook["s_realloc_user"] # NULL /\ hook["s_free_user"] # NULL
  BY <1>2, PublishedNames DEF EarlyInv, SetPointers, Unset
<1>4. frame[t].fn = "clib" /\ frame[t].ptr # NULL => blocks[frame[t].ptr].place = "library"
  BY DEF HookInv, PassedBlock
<1> QED
  BY <1>2, <1>3, <1>4, ExecutedTouches DEF Misused

\* Nor is a call of dlsym's after the end of the initialization.
LEMMA LateNestedCall ==
    ASSUME HookAssumption, HookInv, EarlyInv, NEW t \in Thread, s_nLibraryInited,
           NEW op \in ToSet(Name), NEW ptr \in DOMAIN blocks \cup {NULL},
           ptr # NULL => op \in {"realloc", "free"}
    PROVE  /\ PlaceOf(hook[Pointer[op]]) = "library"
           /\ ~Misused(hook[Pointer[op]], op, ptr)
<1>1. /\ \A p \in ToSet(Published) : hook[p] \notin {"init", NULL}
      /\ hook["g_realloc"] = "final" /\ hook["g_free"] = "final"
  BY DEF EarlyInv, SetPointers, Unset, HookInv, InitializedState
<1>2. Pointer[op] \in ToSet(Published)
  BY Names, PublishedNames DEF Pointer
<1>3. op \in {"realloc", "free"} => hook[Pointer[op]] = "final"
  BY <1>1 DEF Pointer
<1> QED
  BY <1>1, <1>2, <1>3, PublishedNames DEF PlaceOf, Misused

LEMMA EarlyInvKept ==
    ASSUME HookAssumption, EarlyGet = FALSE, HookInv, EarlyInv, [Next]_vars
    PROVE  EarlyInv'
BY SetPointersKept, EarlyCallKept DEF EarlyInv

THEOREM EarlyInvHolds == ASSUME EarlyGet = FALSE PROVE Spec => []EarlyInv
<1>1. Init => EarlyInv
  BY HookAssumption, PublishedNames, Names
  DEF Init, EarlyInv, SetPointers, EarlyCall, NoFrame, Unset, HookAssumption
<1>2. HookInv /\ EarlyInv /\ [Next]_vars => EarlyInv'
  BY HookAssumption, EarlyInvKept
<1> QED
  BY <1>1, <1>2, HookAssumption, HookInvHolds, PTL DEF Spec

\* OnlyEarlyCallsGoWrong: with any number of threads, a realloc or free of the wrong
\* kind, or a call through NULL, is one whose own function was read before the end
\* of the initialization.
THEOREM LateCallsAreDefined ==
    ASSUME EarlyGet = FALSE PROVE Spec => OnlyEarlyCallsGoWrong
<1> DEFINE Defined == \A t \in Thread : LateStep(t) => process' # "corrupt"
<1>1. ASSUME HookInv, EarlyInv, NEW t \in Thread, Executes(t), ~frame[t].early
      PROVE  process' # "corrupt"
  BY <1>1, HookAssumption, LateCallIsDefined DEF Executes, At
<1>2. ASSUME HookInv, EarlyInv, NEW t \in Thread, DlsymCalls(t), s_nLibraryInited
      PROVE  process' # "corrupt"
  <2>1. process = "running"
    BY <1>2 DEF DlsymCalls, At
  <2>2. PICK op \in ToSet(Name), id \in Id \cup {NULL},
             ptr \in DOMAIN blocks \cup {NULL} :
           /\ ptr # NULL => op \in {"realloc", "free"}
           /\ process' = process
              \/ (process' = "corrupt" /\ Misused(hook[Pointer[op]], op, ptr))
    BY <1>2, HookAssumption, NestedCallTouches
  <2> QED BY <1>2, <2>1, <2>2, HookAssumption, LateNestedCall
<1>3. HookInv /\ EarlyInv => [Defined]_vars
  BY <1>1, <1>2 DEF LateStep
<1> QED
  BY <1>3, HookAssumption, HookInvHolds, EarlyInvHolds, PTL DEF OnlyEarlyCallsGoWrong

\* BufferIsForEarlyCalls: no call that read its function after the end of the
\* initialization is served from the initial buffer.
THEOREM LateCallsGetLibraryBlocks ==
    ASSUME EarlyGet = FALSE PROVE Spec => BufferIsForEarlyCalls
<1> DEFINE Served == \A id \in DOMAIN blocks' : blocks'[id].place = "buffer" =>
                          id \in DOMAIN blocks /\ blocks'[id] = blocks[id]
           Late == \A t \in Thread : LateStep(t) => Served
<1>1. ASSUME HookInv, NEW id \in Id \cup {NULL}, Touches(id, "library") PROVE Served
  BY <1>1 DEF Touches, MemoryOK, HookInv
<1>2. ASSUME HookInv, EarlyInv, NEW t \in Thread, Executes(t), ~frame[t].early
      PROVE  Served
  <2>1. frame[t].op \in ToSet(Name)
    BY <1>2, Names
    DEF Executes, At, HookInv, ControlType, CallFunction, Frame
  <2>2. PlaceOf(frame[t].fn) = "library"
    BY <1>2, <2>1 DEF EarlyInv, EarlyCall, PlaceOf
  <2> QED
    BY <1>1, <1>2, <2>2, HookAssumption, ExecutedTouches
<1>3. ASSUME HookInv, EarlyInv, NEW t \in Thread, DlsymCalls(t), s_nLibraryInited
      PROVE  Served
  <2>1. PICK op \in ToSet(Name), id \in Id \cup {NULL},
             ptr \in DOMAIN blocks \cup {NULL} :
           /\ ptr # NULL => op \in {"realloc", "free"}
           /\ Touches(id, PlaceOf(hook[Pointer[op]]))
    BY <1>3, HookAssumption, NestedCallTouches
  <2> QED BY <1>1, <1>3, <2>1, HookAssumption, LateNestedCall
<1>4. HookInv /\ EarlyInv => [Late]_vars
  BY <1>2, <1>3 DEF LateStep
<1> QED
  BY <1>4, HookAssumption, HookInvHolds, EarlyInvHolds, PTL
  DEF BufferIsForEarlyCalls

-----------------------------------------------------------------------------
(* One thread, whatever the program does with the getters.                 *)

OneThread == \A t, u \in Thread : t = u

\* Nothing has happened, ...
BeforeStart ==
    ~snStartedInitLibrary =>
        /\ DOMAIN blocks = {}
        /\ \A p \in ToSet(Published) : hook[p] \in Unset
        /\ \A n \in ToSet(Name) : clib[n] = "clibinit"

\* ... dlsym has its blocks from the buffer, and no function of the program's is
\* installed, ...
BeforeEnd ==
    ~s_nLibraryInited =>
        /\ \A p \in ToSet(Published) : hook[p] # "user"
        /\ \A id \in DOMAIN blocks : blocks[id].place = "buffer"

\* ... and then a pointer is NULL only if the program got NULL, and set it.
AfterEnd ==
    s_nLibraryInited =>
        \A p \in ToSet(Published) : hook[p] = NULL => p \in Settable /\ saved[p] = NULL

\* The initialization is over before any body runs; a call that read an initial
\* function has no block to pass.
StartCall(t) ==
    LET f == frame[t] IN
    /\ snStartedInitLibrary /\ ~s_nLibraryInited => pc[t] \in {"dlsym", "publish"}
    /\ pc[t] = "body" => s_nLibraryInited
    /\ pc[t] \in {"start", "dlsym", "publish"} => ~s_nLibraryInited
    /\ pc[t] = "start" => ~snStartedInitLibrary
    /\ pc[t] = "dlsym" =>
          \A p \in {"g_malloc", "g_calloc", "g_realloc", "g_free"} : hook[p] = "init"
    /\ pc[t] = "publish" => \A p \in ToSet(Published) : Done(t, p) => hook[p] # NULL
    /\ f.op \in {"realloc", "free"} /\ f.fn = "init" => f.ptr = NULL
    /\ f.op = "set" /\ f.fn = NULL => saved[f.target] = NULL

StartInv ==
    /\ BeforeStart /\ BeforeEnd /\ AfterEnd
    /\ \A t \in Thread : StartCall(t)
    /\ OnlyEarlyGetGoesWrong

LEMMA BeforeStartKept ==
    ASSUME HookAssumption, HookInv, StartInv, [Next]_vars
    PROVE  BeforeStart'
<1>1. CASE snStartedInitLibrary'
  BY <1>1 DEF BeforeStart
<1>2. CASE ~snStartedInitLibrary'
  <2>1. ~snStartedInitLibrary
    BY <1>2, ProgressStays
  <2>2. \A t \in Thread : pc[t] \notin {"dlsym", "publish", "body"} /\ ~s_nLibraryInited
    BY <2>1 DEF HookInv, InitializationStep, StartInv, StartCall, InitializedState
  <2>3. UNCHANGED <<blocks, hook, clib>>
    BY <2>2
    DEF Next, Begin, Continue, vars, Halted, At, Calls, SetCall, GetCall, Cleans,
        DlsymCalls, Checks, Starts, Resolves, ResolveFails, Publishes, EndsInit, Forwards,
        Executes, Sets
  <2> QED
    BY <2>1, <2>3 DEF StartInv, BeforeStart
<1> QED BY <1>1, <1>2

LEMMA BeforeEndKept ==
    ASSUME HookAssumption, HookInv, StartInv, [Next]_vars
    PROVE  BeforeEnd'
<1> USE PublishedNames DEF StartInv, StartCall, BeforeEnd
<1>1. CASE s_nLibraryInited'
  BY <1>1
<1>2. CASE ~s_nLibraryInited'
  <2>1. ~s_nLibraryInited
    BY <1>2, ProgressStays
  <2>2. ASSUME NEW t \in Thread, DlsymCalls(t) PROVE BeforeEnd'
    <3>1. PICK op \in ToSet(Name) : \E id : Touches(id, PlaceOf(hook[Pointer[op]]))
      BY <2>2, NestedCallTouches
    <3>2. hook[Pointer[op]] = "init" /\ UNCHANGED hook
      BY <2>2, Names DEF DlsymCalls, At, Pointer
    <3>3. \A other \in DOMAIN blocks' : blocks'[other].place = "buffer"
      BY <2>1, <3>1, <3>2 DEF Touches, MemoryOK, PlaceOf
    <3> QED
      BY <2>1, <3>2, <3>3
  <2>3. ASSUME NEW t \in Thread, Publishes(t) PROVE BeforeEnd'
    <3>1. \A p \in ToSet(Published) : InitialValue(p) # "user"
      BY Names DEF InitialValue, HookInv, ControlType
    <3> QED
      BY <2>1, <2>3, <3>1 DEF Publishes, HookInv, ControlType
  <2>4. CASE UNCHANGED <<blocks, hook>>
    BY <2>1, <2>4
  <2> QED
    BY <2>1, <2>2, <2>3, <2>4
    DEF Next, Begin, Continue, vars, Halted, At, Calls, SetCall, GetCall, Cleans,
        Checks, Starts, Resolves, ResolveFails, EndsInit, Forwards, Executes, Sets
<1> QED BY <1>1, <1>2

LEMMA AfterEndKept ==
    ASSUME HookAssumption, HookInv, StartInv, [Next]_vars
    PROVE  AfterEnd'
<1> USE PublishedNames DEF StartInv, StartCall, AfterEnd, HookInv, ControlType
<1>1. ASSUME NEW t \in Thread, GetCall(t) PROVE AfterEnd'
  BY <1>1 DEF GetCall
<1>2. ASSUME NEW t \in Thread, Publishes(t) PROVE AfterEnd'
  BY <1>2 DEF Publishes, At
<1>3. ASSUME NEW t \in Thread, Sets(t) PROVE AfterEnd'
  BY <1>3 DEF Sets, At, CallFunction
<1>4. ASSUME NEW t \in Thread, Cleans(t) PROVE AfterEnd'
  <2>1. \A p \in ToSet(Published) : InitialValue(p) # NULL
    BY <1>4, Names, HookAssumption
    DEF Cleans, InitializedState, Found, InitialValue, HookAssumption, Function
  <2> QED
    BY <1>4, <2>1 DEF Cleans
<1>5. ASSUME NEW t \in Thread, EndsInit(t) PROVE AfterEnd'
  <2>1. frame[t].step = 7
    BY <1>5 DEF EndsInit, At, InitializationStep
  <2>2. \A p \in ToSet(Published) : Done(t, p)
    BY <2>1 DEF Done, Published
  <2> QED
    BY <1>5, <2>2 DEF EndsInit, At
<1>6. CASE UNCHANGED <<s_nLibraryInited, hook, saved>>
  BY <1>6
<1> QED
  BY <1>1, <1>2, <1>3, <1>4, <1>5, <1>6
  DEF Next, Begin, Continue, vars, Halted, Calls, SetCall, DlsymCalls, Checks, Starts,
      Resolves, ResolveFails, Forwards, Executes

\* A call that begins when the initialization has not: there is no block yet.
LEMMA StartCallBegins ==
    ASSUME HookAssumption, HookInv, StartInv, NEW t \in Thread, Calls(t)
    PROVE  StartCall(t)'
<1>1. PICK op \in ToSet(Name), ptr \in DOMAIN blocks \cup {NULL}, asked \in Nat,
           fn \in Function :
        /\ fn \in {hook[Pointer[op]], clib[op]}
        /\ frame' = [frame EXCEPT ![t] = CallFrame(op, fn, asked, ptr, NULL)]
        /\ pc' = [pc EXCEPT ![t] = IF fn \in {"init", "clibinit"}
                                   THEN "check" ELSE "body"]
  BY CallBegins
<1>2. /\ frame'[t].op = op /\ frame'[t].fn = fn /\ frame'[t].ptr = ptr
      /\ pc'[t] = IF fn \in {"init", "clibinit"} THEN "check" ELSE "body"
  BY <1>1 DEF CallFrame, HookInv, ControlType
<1>3. UNCHANGED <<snStartedInitLibrary, s_nLibraryInited, hook, saved>> /\ pc[t] = "idle"
  BY DEF Calls, At
<1>4. Pointer[op] \in ToSet(Published)
  BY Names, PublishedNames DEF Pointer
<1>5. CASE snStartedInitLibrary /\ s_nLibraryInited
  <2>1. op \in {"realloc", "free"} => fn # "init"
    BY <1>1, <1>5, Names DEF HookInv, InitializedState, Found, Pointer
  <2> QED
    BY <1>2, <1>3, <1>5, <2>1, Names DEF StartCall
<1>6. CASE ~snStartedInitLibrary
  <2>1. fn \in {"init", "clibinit"} /\ ptr = NULL /\ ~s_nLibraryInited
    BY <1>1, <1>4, <1>6, HookAssumption
    DEF StartInv, BeforeStart, Unset, HookInv, InitializedState, HookAssumption
  <2> QED
    BY <1>2, <1>3, <1>6, <2>1, Names DEF StartCall
<1>7. CASE snStartedInitLibrary /\ ~s_nLibraryInited
  BY <1>3, <1>7 DEF StartInv, StartCall
<1> QED BY <1>5, <1>6, <1>7

LEMMA StartCallKept ==
    ASSUME HookAssumption, OneThread, HookInv, StartInv, NEW t \in Thread,
           Begin(t) \/ Continue(t)
    PROVE  StartCall(t)'
<1> USE Names, PublishedNames, HookAssumption DEF HookInv, ControlType
<1>1. ASSUME UNCHANGED <<snStartedInitLibrary, s_nLibraryInited, hook, saved>>,
             UNCHANGED pc[t], UNCHANGED frame[t]
      PROVE  StartCall(t)'
  BY <1>1 DEF StartInv, StartCall, Done, CallFunction
<1>2. ASSUME snStartedInitLibrary /\ s_nLibraryInited,
             snStartedInitLibrary' /\ s_nLibraryInited',
             pc'[t] = "idle", frame'[t] = NoFrame
      PROVE  StartCall(t)'
  BY <1>2 DEF StartCall, NoFrame
<1>3. ASSUME Calls(t) PROVE StartCall(t)'
  <2> HIDE DEF HookInv, ControlType
  <2> QED BY <1>3, StartCallBegins
<1>4. ASSUME SetCall(t) PROVE StartCall(t)'
  <2>1. PICK p \in Settable, fn \in Function \cup {NULL} :
          /\ fn \in {"user"} \cup ({saved[p]} \ {"none"})
          /\ frame' = [frame EXCEPT ![t] = CallFrame("set", fn, 0, NULL, p)]
          /\ pc' = [pc EXCEPT ![t] = "check"]
    BY <1>4, SetBegins
  <2>2. /\ frame'[t].op = "set" /\ frame'[t].fn = fn /\ frame'[t].target = p
        /\ pc'[t] = "check" /\ pc[t] = "idle"
    BY <1>4, <2>1 DEF CallFrame, SetCall, At
  <2>3. UNCHANGED <<snStartedInitLibrary, s_nLibraryInited, hook, saved>>
    BY <1>4 DEF SetCall
  <2>4. fn = NULL => saved[p] = NULL
    BY <2>1 DEF HookAssumption, Function
  <2> QED
    BY <2>2, <2>3, <2>4 DEF StartInv, StartCall
<1>5. ASSUME GetCall(t) PROVE StartCall(t)'
  BY <1>5 DEF GetCall, At, StartInv, StartCall, CallFunction, NoFrame, Done
<1>6. ASSUME Cleans(t) PROVE StartCall(t)'
  BY <1>6 DEF Cleans, At, StartInv, StartCall, CallFunction, NoFrame
<1>7. ASSUME DlsymCalls(t) \/ ResolveFails(t) PROVE StartCall(t)'
  BY <1>1, <1>7 DEF DlsymCalls, ResolveFails
<1>8. ASSUME Checks(t) PROVE StartCall(t)'
  <2>1. /\ pc[t] = "check" /\ UNCHANGED frame
        /\ pc'[t] = IF snStartedInitLibrary THEN "body" ELSE "start"
        /\ UNCHANGED <<snStartedInitLibrary, s_nLibraryInited, hook, saved>>
    BY <1>8 DEF Checks, At, Goto
  <2> QED
    BY <2>1 DEF StartInv, StartCall, InitializedState, CallFunction
<1>9. ASSUME Starts(t) PROVE StartCall(t)'
  <2>1. /\ pc[t] = "start" /\ pc'[t] = IF s_nLibraryInited THEN "body" ELSE "dlsym"
        /\ UNCHANGED <<s_nLibraryInited, hook, saved>>
    BY <1>9 DEF Starts, At, Goto
  <2>2. /\ frame'[t].op = frame[t].op /\ frame'[t].fn = frame[t].fn
        /\ frame'[t].ptr = frame[t].ptr /\ frame'[t].target = frame[t].target
    BY <1>9 DEF Starts, Frame
  <2>3. ~s_nLibraryInited /\ ~snStartedInitLibrary
    BY <2>1 DEF StartInv, StartCall
  <2>4. \A p \in {"g_malloc", "g_calloc", "g_realloc", "g_free"} : hook[p] = "init"
    BY <2>3
    DEF StartInv, BeforeStart, Unset, PointerValues, Values, HookAssumption, Function
  <2> QED
    BY <2>1, <2>2, <2>3, <2>4 DEF StartInv, StartCall
<1>10. ASSUME Resolves(t) PROVE StartCall(t)'
  <2>1. /\ pc[t] = "dlsym" /\ pc'[t] \in {"dlsym", "publish"}
        /\ pc'[t] = "publish" => frame'[t].step = 1
        /\ UNCHANGED <<snStartedInitLibrary, s_nLibraryInited, hook, saved>>
    BY <1>10 DEF Resolves, At, Goto, Frame
  <2>2. /\ frame'[t].op = frame[t].op /\ frame'[t].fn = frame[t].fn
        /\ frame'[t].ptr = frame[t].ptr /\ frame'[t].target = frame[t].target
    BY <1>10 DEF Resolves, Frame
  <2> QED
    BY <2>1, <2>2 DEF StartInv, StartCall, Done
<1>11. ASSUME Publishes(t) PROVE StartCall(t)'
  <2>1. /\ pc[t] = "publish" /\ UNCHANGED pc /\ frame[t].step \in 1 .. 6 /\ Found
        /\ UNCHANGED <<snStartedInitLibrary, s_nLibraryInited, saved>>
    BY <1>11 DEF Publishes, At, InitializationStep
  <2>2. /\ frame'[t].op = frame[t].op /\ frame'[t].fn = frame[t].fn
        /\ frame'[t].ptr = frame[t].ptr /\ frame'[t].target = frame[t].target
        /\ frame'[t].step = frame[t].step + 1
    BY <1>11 DEF Publishes, Frame
  <2>3. \A p \in ToSet(Published) : InitialValue(p) # NULL
    BY <2>1 DEF InitialValue, Found, HookAssumption, Function
  <2>4. ASSUME NEW p \in ToSet(Published), Done(t, p)' PROVE hook'[p] # NULL
    <3>1. Done(t, p) \/ p = Published[frame[t].step]
      BY <2>1, <2>2, <2>4 DEF Done
    <3>2. Done(t, p) => hook[p] # NULL
      BY <2>1 DEF StartInv, StartCall
    <3> QED
      BY <1>11, <2>3, <3>1, <3>2 DEF Publishes
  <2> QED
    BY <2>1, <2>2, <2>4 DEF StartInv, StartCall
<1>12. ASSUME EndsInit(t) PROVE StartCall(t)'
  <2>1. /\ pc[t] = "publish" /\ pc'[t] = "body" /\ s_nLibraryInited' /\ UNCHANGED frame
        /\ UNCHANGED <<snStartedInitLibrary, hook, saved>>
    BY <1>12 DEF EndsInit, At, Goto
  <2> QED
    BY <2>1 DEF StartInv, StartCall, CallFunction
<1>13. ASSUME Forwards(t) PROVE StartCall(t)'
  <2>1. /\ pc[t] = "body" /\ frame[t].op \in ToSet(Name)
        /\ pc' = [pc EXCEPT ![t] = IF clib[frame[t].op] = "clibinit"
                                   THEN "check" ELSE "body"]
        /\ UNCHANGED <<snStartedInitLibrary, s_nLibraryInited, hook, saved>>
    BY <1>13 DEF Forwards, At, CallFunction, Frame, Goto
  <2>2. /\ frame'[t].op = frame[t].op /\ frame'[t].fn = clib[frame[t].op]
    BY <1>13 DEF Forwards, Frame
  <2> QED
    BY <2>1, <2>2 DEF StartInv, StartCall
<1>14. ASSUME Executes(t) \/ Sets(t) PROVE StartCall(t)'
  <2>1. s_nLibraryInited /\ snStartedInitLibrary
    BY <1>14 DEF Executes, Sets, At, StartInv, StartCall, InitializedState
  <2>2. UNCHANGED <<snStartedInitLibrary, s_nLibraryInited, saved>>
    BY <1>14 DEF Executes, Sets
  <2>3. CASE pc'[t] = "idle" /\ frame'[t] = NoFrame
    BY <1>2, <2>1, <2>2, <2>3
  <2>4. CASE UNCHANGED <<pc, frame, hook>>
    BY <1>1, <2>2, <2>4
  <2> QED BY <1>14, <2>3, <2>4 DEF Executes, Sets, Goto
<1> QED
  BY <1>3, <1>4, <1>5, <1>6, <1>7, <1>8, <1>9, <1>10, <1>11, <1>12, <1>13, <1>14
  DEF Begin, Continue

\* Neither a nested call of dlsym nor a call that goes on after the initialization
\* is undefined, unless the program put NULL back.
LEMMA BodiesAreDefined ==
    ASSUME HookAssumption, HookInv, StartInv, NEW t \in Thread,
           DlsymCalls(t) \/ Executes(t), process' # process
    PROVE  \E p \in Settable : saved[p] = NULL
<1> USE PublishedNames, Names
<1>1. CASE DlsymCalls(t)
  <2>1. PICK op \in ToSet(Name), ptr \in DOMAIN blocks \cup {NULL} :
            Misused(hook[Pointer[op]], op, ptr)
    BY <1>1, NestedCallTouches
  <2>2. hook[Pointer[op]] = "init" /\ ~s_nLibraryInited
    BY <1>1 DEF DlsymCalls, At, StartInv, StartCall, Pointer
  <2> QED
    BY <2>1, <2>2 DEF Misused, StartInv, BeforeEnd
<1>2. CASE Executes(t)
  <2>1. Misused(frame[t].fn, frame[t].op, frame[t].ptr)
    BY <1>2, ExecutedTouches
  <2>2. s_nLibraryInited /\ frame[t].op \in ToSet(Name)
    BY <1>2
    DEF Executes, At, StartInv, StartCall, HookInv, ControlType, CallFunction, Frame
  <2>3. frame[t].fn = "init" => frame[t].ptr = NULL
    BY <2>2 DEF StartInv, StartCall, HookInv, CallFunction
  <2>4. frame[t].fn = "clib" /\ frame[t].ptr # NULL
           => blocks[frame[t].ptr].place = "library"
    BY DEF HookInv, PassedBlock
  <2>5. hook["s_realloc_user"] = NULL \/ hook["s_free_user"] = NULL
    BY <2>1, <2>3, <2>4 DEF Misused
  <2> QED
    BY <2>2, <2>5 DEF StartInv, AfterEnd
<1> QED BY <1>1, <1>2

LEMMA StartInvKept ==
    ASSUME HookAssumption, OneThread, HookInv, StartInv, [Next]_vars
    PROVE  StartInv'
<1>1. CASE UNCHANGED vars
  BY <1>1 DEF vars, StartInv, BeforeStart, BeforeEnd, AfterEnd, StartCall, Done,
              OnlyEarlyGetGoesWrong, Unset
<1>2. ASSUME NEW t \in Thread, Begin(t) \/ Continue(t) PROVE StartInv'
  <2>1. \A u \in Thread : StartCall(u)'
    <3>1. StartCall(t)'
      BY <1>2, StartCallKept
    <3> QED BY <3>1 DEF OneThread
  <2>2. OnlyEarlyGetGoesWrong'
    <3>1. CASE process' # "corrupt"
      BY <3>1 DEF OnlyEarlyGetGoesWrong
    <3>2. CASE process' = "corrupt"
      <4>1. process = "running"
        BY <1>2
        DEF Begin, Continue, At, Calls, SetCall, GetCall, Cleans, DlsymCalls, Checks,
            Starts, Resolves, ResolveFails, Publishes, EndsInit, Forwards, Executes, Sets
      <4>2. (DlsymCalls(t) \/ Executes(t)) /\ UNCHANGED saved
        BY <1>2, <3>2, <4>1
        DEF Begin, Continue, Calls, SetCall, GetCall, Cleans, DlsymCalls, Checks,
            Starts, Resolves, ResolveFails, Publishes, EndsInit, Forwards, Executes, Sets
      <4> QED
        BY <3>2, <4>1, <4>2, BodiesAreDefined DEF OnlyEarlyGetGoesWrong
    <3> QED BY <3>1, <3>2
  <2> QED
    BY <2>1, <2>2, BeforeStartKept, BeforeEndKept, AfterEndKept DEF StartInv
<1> QED
  BY <1>1, <1>2 DEF Next, Halted

THEOREM StartInvHolds == ASSUME OneThread PROVE Spec => []StartInv
<1>1. Init => StartInv
  BY HookAssumption, PublishedNames, Names
  DEF Init, StartInv, BeforeStart, BeforeEnd, AfterEnd, StartCall,
      OnlyEarlyGetGoesWrong, NoFrame, Unset, HookAssumption, Function
<1>2. HookInv /\ StartInv /\ [Next]_vars => StartInv'
  BY HookAssumption, StartInvKept
<1> QED
  BY <1>1, <1>2, HookAssumption, HookInvHolds, PTL DEF Spec

\* OnlyEarlyGetGoesWrong: with one thread, the start of the program goes wrong only
\* through a NULL that a getter returned before the initialization.
THEOREM StartIsDefined == ASSUME OneThread PROVE Spec => []OnlyEarlyGetGoesWrong
<1>1. StartInv => OnlyEarlyGetGoesWrong
  BY DEF StartInv
<1> QED
  BY <1>1, StartInvHolds, PTL

\* HookStaysSet: with one thread, the initialization replaces no function of the
\* program's: there is none before its end.
THEOREM InstalledHooksStay == ASSUME OneThread PROVE Spec => HookStaysSet
<1> DEFINE Stays == \A p \in Settable : hook[p] = "user" /\ hook'[p] # "user"
                       => \A t \in Thread : ~Publishes(t)
<1>1. StartInv => [Stays]_vars
  BY PublishedNames, HookAssumption
  DEF StartInv, StartCall, BeforeEnd, Publishes, At, HookAssumption
<1> QED
  BY <1>1, StartInvHolds, PTL DEF HookStaysSet

=============================================================================

---------------------------- MODULE WindowsProofs ----------------------------
(***************************************************************************)
(* Proofs about WindowsBuild for any number of threads and modules, any    *)
(* imports and any number of initializations.                              *)
(***************************************************************************)
EXTENDS WindowsBuild, TLAPS

-----------------------------------------------------------------------------
(* The inductive invariant of the allocation hooks.                        *)

Unwalking == {"unwalk_load", "unwalk_alloc"}

Loc == {"idle", "loaded", "walk_stdout", "unwalk_stdout"} \cup Initializing \cup Unwalking

Hooks == AllocName \cup LoadName

Shape ==
    /\ Self \in loaded /\ loaded \subseteq Module
    /\ pc \in [Thread -> Loc]
    /\ todo \in [Thread -> SUBSET Module]
    /\ replaced \in [Module -> SUBSET Name]
    /\ DOMAIN g = AllocName
    /\ DOMAIN setting = Thread
    /\ \A t \in Thread : pc[t] = "loaded" => Self \notin todo[t]

\* What the replaced functions call.
Values ==
    /\ saved \in {"function", NULL}
    /\ \A t \in Thread : setting[t] = NoSetting \/ setting[t].value \in {"function", NULL}
    /\ \A n \in AllocName : g[n] = s_c_lib
    /\ s_c_lib \in {NULL, "function"} /\ s_loadlib = s_c_lib

\* Who replaces and who restores, and when.
Phases ==
    /\ \A t \in Thread : pc[t] \in Initializing =>
          /\ ~s_nIsInited /\ s_c_lib # NULL
          /\ \A u \in Thread : pc[u] \in Initializing => t = u
    /\ \A t \in Thread : pc[t] \in Unwalking => s_nIsInited /\ t = Main
    /\ s_nIsInited => s_c_lib # NULL

\* Whoever begins the initialization finds the C library's functions in the imports
\* of Self: the exit handler put them back.
Restored ==
    /\ ~s_nIsInited /\ (\A t \in Thread : pc[t] \notin Initializing) =>
          replaced[Self] \cap Hooks = {}
    /\ \A t \in Thread :
          /\ pc[t] = "unwalk_load" /\ Self \notin todo[t] => replaced[Self] \cap LoadName = {}
          /\ pc[t] = "unwalk_alloc" => replaced[Self] \cap LoadName = {}
          /\ pc[t] = "unwalk_alloc" /\ Self \notin todo[t] => replaced[Self] \cap AllocName = {}

\* Nothing that can make a pointer NULL or a function of this library has happened.
InOrder == disorder \cap {"null", "overlap"} = {}

HookInv ==
    /\ Shape
    /\ InOrder => Values /\ Phases /\ Restored
    /\ CrashesOnlyAfterMisuse

-----------------------------------------------------------------------------
(* Every step keeps it.                                                    *)

LEMMA HookInitHolds == Init => HookInv
<1> SUFFICES ASSUME Init PROVE HookInv
  OBVIOUS
<1> USE DEF Init, ImportInit, HookInit
<1>1. Shape
  BY ImportAssumption DEF Shape, Loc, ImportAssumption
<1>2. Values
  BY DEF Values
<1>3. Phases
  BY DEF Phases, Initializing, Unwalking
<1>4. Restored
  BY ImportAssumption DEF Restored, ImportAssumption
<1>5. CrashesOnlyAfterMisuse
  BY DEF CrashesOnlyAfterMisuse
<1> QED
  BY <1>1, <1>2, <1>3, <1>4, <1>5 DEF HookInv

\* A step that neither begins nor goes on with the initialization or the exit handler
\* of the hooks, and does not touch their pointers.
LEMMA OthersKeep ==
    ASSUME HookInv, Shape',
           \A u \in Thread : pc'[u] = pc[u] \/ {pc[u], pc'[u]} \cap (Initializing \cup Unwalking) = {},
           \A u \in Thread : pc[u] \in Unwalking => todo'[u] = todo[u],
           replaced'[Self] \cap Hooks = replaced[Self] \cap Hooks,
           UNCHANGED <<s_c_lib, s_loadlib, g, s_nIsInited, setting, saved>>,
           disorder \subseteq disorder',
           process' = "crashed" => process = "crashed" \/ s_c_lib = NULL \/ ~InOrder
    PROVE  HookInv'
<1>1. ASSUME InOrder' PROVE (Values /\ Phases /\ Restored)'
  <2>1. Values /\ Phases /\ Restored
    BY <1>1 DEF HookInv, InOrder
  <2>2. \A u \in Thread : /\ pc'[u] \in Initializing <=> pc[u] \in Initializing
                          /\ pc'[u] \in Unwalking <=> pc[u] \in Unwalking
    OBVIOUS
  <2>3. Values'
    BY <2>1 DEF Values
  <2>4. Phases'
    BY <2>1, <2>2 DEF Phases
  <2>5. replaced'[Self] \cap LoadName = replaced[Self] \cap LoadName
        /\ replaced'[Self] \cap AllocName = replaced[Self] \cap AllocName
    BY DEF Hooks
  <2>6. \A u \in Thread : pc'[u] \in Unwalking => pc'[u] = pc[u] /\ todo'[u] = todo[u]
    BY <2>2
  <2>7. Restored'
    BY <2>1, <2>2, <2>5, <2>6 DEF Restored, Unwalking
  <2> QED
    BY <2>3, <2>4, <2>7
<1>2. CrashesOnlyAfterMisuse'
  BY DEF HookInv, InOrder, CrashesOnlyAfterMisuse
<1> QED
  BY <1>1, <1>2 DEF HookInv

\* A thread that goes somewhere but into a module it has loaded.
LEMMA WalkShape ==
    ASSUME Shape, NEW t \in Thread, NEW loc \in Loc \ {"loaded"},
           Walk(t, loc) \/ Goto(t, loc),
           UNCHANGED <<loaded, replaced>>, DOMAIN setting' = Thread, DOMAIN g' = AllocName
    PROVE  Shape'
BY DEF Shape, Walk, Goto, Loc

\* A thread that visits a module: what it is to replace is replaced there, or put
\* back, and nothing anywhere else.
LEMMA VisitShape ==
    ASSUME Shape, NEW t \in Thread, NEW names \in SUBSET Name, NEW present \in BOOLEAN,
           Visit(t, names, present), pc[t] # "loaded", UNCHANGED <<g, setting>>
    PROVE  /\ Shape'
           /\ pc' = pc /\ todo[t] # {}
           /\ \A u \in Thread \ {t} : todo'[u] = todo[u]
           /\ \/ /\ todo'[t] = todo[t] \ {Self}
                 /\ replaced'[Self] = IF present THEN replaced[Self] \cup names
                                      ELSE replaced[Self] \ names
              \/ /\ Self \in todo'[t] <=> Self \in todo[t]
                 /\ replaced'[Self] = replaced[Self]
<1> DEFINE m == CHOOSE d \in todo[t] : TRUE
<1>1. m \in todo[t] /\ m \in Module
  BY DEF Visit, Shape
<1>2. /\ todo' = [todo EXCEPT ![t] = @ \ {m}]
      /\ replaced' = [replaced EXCEPT ![m] = IF present THEN @ \cup names ELSE @ \ names]
      /\ UNCHANGED <<loaded, pc>>
  BY DEF Visit
<1> HIDE DEF m
<1>3. Shape'
  BY <1>1, <1>2 DEF Shape
<1>4. CASE m = Self
  BY <1>1, <1>2, <1>4 DEF Shape
<1>5. CASE m # Self
  BY <1>1, <1>2, <1>5, ImportAssumption DEF Shape, ImportAssumption
<1> QED
  BY <1>1, <1>2, <1>3, <1>4, <1>5

\* The initialization begins, for the initializer or a setter.
LEMMA InitializesKeeps ==
    ASSUME HookInv, NEW t \in Thread, pc[t] = "idle", Initializes(t),
           UNCHANGED <<loaded, replaced, s_nIsInited, saved>>, process' # "crashed",
           \/ setting' = setting
           \/ \E n \in AllocName, v \in {"function", saved} :
                 setting' = [setting EXCEPT ![t] = [name |-> n, value |-> v]]
    PROVE  HookInv'
<1>1. Shape'
  <2>1. "walk_alloc" \in Loc \ {"loaded"}
    BY DEF Loc, Initializing
  <2> QED
    BY <2>1, WalkShape DEF HookInv, Initializes, Assigns, Shape
<1>2. ASSUME InOrder' PROVE (Values /\ Phases /\ Restored)'
  <2>1. InOrder /\ \A u \in Thread : pc[u] \notin Initializing
    BY <1>2 DEF Initializes, InOrder
  <2>2. Values /\ Phases /\ Restored /\ ~s_nIsInited
    BY <2>1 DEF HookInv, Initializes
  <2>3. replaced[Self] \cap Hooks = {}
    BY <2>1, <2>2 DEF Restored
  <2>4. s_c_lib' = "function" /\ s_loadlib' = "function"
        /\ g' = [n \in AllocName |-> "function"]
    BY <2>3 DEF Initializes, Assigns, Imported, Hooks
  <2>5. Values'
    BY <2>2, <2>4 DEF Values, HookInv, Shape
  <2>6. \A u \in Thread : pc'[u] \in Initializing <=> u = t
    BY <2>1 DEF Initializes, Walk, HookInv, Shape, Initializing
  <2>7. \A u \in Thread : pc'[u] \notin Unwalking
    BY <2>2, <2>6 DEF Initializes, Walk, HookInv, Shape, Phases, Initializing, Unwalking
  <2>8. Phases'
    BY <2>2, <2>4, <2>6, <2>7, HookAssumption DEF Phases, HookAssumption
  <2>9. Restored'
    BY <2>6, <2>7 DEF Restored, Unwalking
  <2> QED
    BY <2>5, <2>8, <2>9
<1>3. CrashesOnlyAfterMisuse'
  BY DEF CrashesOnlyAfterMisuse
<1> QED
  BY <1>1, <1>2, <1>3 DEF HookInv

LEMMA InitializerKeeps ==
    ASSUME HookInv, NEW t \in Thread, RunsInitializer(t) PROVE HookInv'
<1>1. pc[t] = "idle" /\ process' = "running" /\ UNCHANGED <<loaded, replaced, s_nIsInited, saved, setting>>
  BY DEF RunsInitializer, BeginsInitializer, Acting, At, imports
<1>2. CASE Initializes(t)
  BY <1>1, <1>2, InitializesKeeps
<1>3. CASE UNCHANGED <<begun, s_c_lib, s_loadlib, g, disorder, thread>>
  <2>1. Shape'
    BY <1>1, <1>3 DEF HookInv, Shape, thread
  <2> QED
    BY <1>1, <1>3, <2>1, OthersKeep DEF thread
<1> QED
  BY <1>2, <1>3 DEF RunsInitializer

\* A step of the initialization between its begin and its end.
LEMMA InitializingKeeps ==
    ASSUME HookInv, NEW t \in Thread, Shape', pc[t] \in Initializing, pc'[t] \in Initializing,
           \A u \in Thread \ {t} : pc'[u] = pc[u] /\ todo'[u] = todo[u],
           UNCHANGED <<program, hook>>
    PROVE  HookInv'
<1>1. ASSUME InOrder PROVE (Values /\ Phases /\ Restored)'
  <2>1. Values /\ Phases /\ Restored
    BY <1>1 DEF HookInv
  <2>2. UNCHANGED <<s_nIsInited, s_c_lib, s_loadlib, g, setting, saved>>
    BY DEF hook
  <2>3. \A u \in Thread : pc[u] \notin Unwalking
    BY <2>1 DEF Phases
  <2>4. Initializing \cap Unwalking = {}
    BY DEF Initializing, Unwalking
  <2>5. \A u \in Thread : /\ pc'[u] \in Initializing <=> pc[u] \in Initializing
                          /\ pc'[u] \notin Unwalking
    BY <2>3, <2>4
  <2>6. Values'
    BY <2>1, <2>2 DEF Values
  <2>7. Phases'
    BY <2>1, <2>2, <2>5 DEF Phases
  <2>8. Restored'
    BY <2>5 DEF Restored, Unwalking
  <2> QED
    BY <2>6, <2>7, <2>8
<1>2. CrashesOnlyAfterMisuse'
  BY DEF HookInv, InOrder, CrashesOnlyAfterMisuse, program, hook
<1> QED
  BY <1>1, <1>2 DEF HookInv, InOrder, hook

LEMMA ReplacesKeeps ==
    ASSUME HookInv, NEW t \in Thread, ReplacesAlloc(t) \/ ReplacesLoad(t) PROVE HookInv'
<1> USE DEF Initializing
<1>1. pc[t] \in {"walk_alloc", "walk_load"} /\ UNCHANGED <<program, hook>>
  BY DEF ReplacesAlloc, ReplacesLoad, At
<1>2. ASSUME NEW names \in SUBSET Name, Visit(t, names, TRUE) PROVE HookInv'
  <2>1. /\ Shape' /\ pc' = pc
        /\ \A u \in Thread \ {t} : todo'[u] = todo[u]
    BY <1>1, <1>2, VisitShape DEF HookInv, hook
  <2> QED
    BY <1>1, <2>1, InitializingKeeps
<1>3. ASSUME Walk(t, "walk_load") \/ Goto(t, "register"), UNCHANGED imports PROVE HookInv'
  <2>1. Shape'
    <3>1. "walk_load" \in Loc \ {"loaded"} /\ "register" \in Loc \ {"loaded"}
      BY DEF Loc
    <3> QED
      BY <1>1, <1>3, <3>1, WalkShape DEF HookInv, Shape, hook, imports
  <2>2. /\ pc'[t] \in Initializing
        /\ \A u \in Thread \ {t} : pc'[u] = pc[u] /\ todo'[u] = todo[u]
    BY <1>3 DEF Walk, Goto, HookInv, Shape
  <2> QED
    BY <1>1, <2>1, <2>2, InitializingKeeps
<1>4. ReplacesAlloc(t) => \/ Visit(t, IF s_c_lib = "function" THEN AllocName ELSE {}, TRUE)
                          \/ Walk(t, "walk_load") /\ UNCHANGED imports
  BY DEF ReplacesAlloc
<1>5. ReplacesLoad(t) => \/ Visit(t, IF s_loadlib = "function" THEN LoadName ELSE {}, TRUE)
                         \/ Goto(t, "register") /\ UNCHANGED imports
  BY DEF ReplacesLoad
<1> QED
  BY <1>2, <1>3, <1>4, <1>5 DEF Name

LEMMA EndsInitializeKeeps ==
    ASSUME HookInv, NEW t \in Thread, EndsInitialize(t) PROVE HookInv'
<1>1. /\ pc[t] = "register" /\ Goto(t, "idle") /\ s_nIsInited' = TRUE
      /\ \/ UNCHANGED <<g, disorder>>
         \/ setting[t] # NoSetting /\ Stores(setting[t].name, setting[t].value)
      /\ setting' = [setting EXCEPT ![t] = NoSetting]
      /\ UNCHANGED <<loaded, replaced, process, s_c_lib, s_loadlib, saved>>
  BY DEF EndsInitialize, At, imports
<1>2. Shape'
  <2>1. "idle" \in Loc \ {"loaded"}
    BY DEF Loc
  <2> QED
    BY <1>1, <2>1, WalkShape DEF HookInv, Shape, Stores
<1>3. ASSUME InOrder' PROVE (Values /\ Phases /\ Restored)'
  <2>1. Values /\ Phases
    BY <1>1, <1>3 DEF HookInv, InOrder, Stores
  <2>2. pc[t] \in Initializing
    BY <1>1 DEF Initializing
  <2>3. s_c_lib = "function"
    BY <2>1, <2>2 DEF Values, Phases
  <2>4. \A u \in Thread : pc'[u] \notin Initializing /\ pc'[u] \notin Unwalking
    BY <1>1, <2>1, <2>2 DEF Phases, HookInv, Shape, Goto, Initializing, Unwalking
  <2>5. Values'
    <3>1. DOMAIN setting = Thread /\ DOMAIN g = AllocName
      BY DEF HookInv, Shape
    <3>2. \A u \in Thread : setting'[u] = IF u = t THEN NoSetting ELSE setting[u]
      BY <1>1, <3>1
    <3>3. \A n \in AllocName : g'[n] \in {g[n], "function"}
      <4>1. CASE UNCHANGED <<g, disorder>>
        BY <4>1
      <4>2. CASE setting[t] # NoSetting /\ Stores(setting[t].name, setting[t].value)
        <5>1. setting[t].value = "function"
          BY <1>3, <2>1, <4>2 DEF Values, Stores, InOrder
        <5> QED
          BY <3>1, <4>2, <5>1 DEF Stores
      <4> QED
        BY <1>1, <4>1, <4>2
    <3>4. \A n \in AllocName : g'[n] = "function"
      BY <2>1, <2>3, <3>3 DEF Values
    <3> QED
      BY <1>1, <2>1, <2>3, <3>2, <3>4 DEF Values
  <2>6. Phases'
    BY <1>1, <2>3, <2>4, HookAssumption DEF Phases, HookAssumption
  <2>7. Restored'
    BY <1>1, <2>4 DEF Restored, Unwalking
  <2> QED
    BY <2>5, <2>6, <2>7
<1>4. CrashesOnlyAfterMisuse'
  BY EndsInitialize(t) DEF EndsInitialize, At, CrashesOnlyAfterMisuse
<1> QED
  BY <1>1, <1>2, <1>3, <1>4 DEF HookInv

LEMMA SetsKeeps ==
    ASSUME HookInv, NEW t \in Thread, Sets(t) PROVE HookInv'
<1>1. /\ pc[t] = "idle" /\ process = "running"
      /\ UNCHANGED <<loaded, replaced, process, s_nIsInited, saved>>
  BY DEF Sets, At, imports, program
<1>2. PICK n \in AllocName, v \in {"function", saved} :
         \/ /\ s_nIsInited
            /\ Stores(n, v)
            /\ UNCHANGED <<thread, begun, s_c_lib, s_loadlib, setting>>
         \/ /\ Initializes(t)
            /\ setting' = [setting EXCEPT ![t] = [name |-> n, value |-> v]]
  BY DEF Sets
<1>3. CASE Initializes(t) /\ setting' = [setting EXCEPT ![t] = [name |-> n, value |-> v]]
  BY <1>1, <1>3, InitializesKeeps
<1>4. CASE /\ s_nIsInited
           /\ Stores(n, v)
           /\ UNCHANGED <<thread, begun, s_c_lib, s_loadlib, setting>>
  <2>1. Shape'
    BY <1>1, <1>4 DEF HookInv, Shape, thread, Stores
  <2>2. ASSUME InOrder' PROVE (Values /\ Phases /\ Restored)'
    <3>1. (Values /\ Phases /\ Restored) /\ v # NULL
      BY <1>4, <2>2 DEF HookInv, InOrder, Stores
    <3>2. v = "function" /\ s_c_lib = "function"
      BY <1>4, <3>1 DEF Values, Phases
    <3>3. \A k \in AllocName : g'[k] = "function"
      BY <1>4, <3>1, <3>2 DEF Values, HookInv, Shape, Stores
    <3> QED
      BY <1>1, <1>4, <3>1, <3>2, <3>3 DEF Values, Phases, Restored, thread
  <2>3. CrashesOnlyAfterMisuse'
    BY <1>1 DEF CrashesOnlyAfterMisuse
  <2> QED
    BY <1>4, <2>1, <2>2, <2>3 DEF HookInv
<1> QED
  BY <1>2, <1>3, <1>4

LEMMA GetsKeeps ==
    ASSUME HookInv, NEW t \in Thread, Gets(t) PROVE HookInv'
<1>1. PICK n \in AllocName : saved' = g[n]
  BY DEF Gets
<1>2. UNCHANGED <<imports, program, thread, s_c_lib, s_loadlib, g, s_nIsInited, setting, disorder>>
  BY DEF Gets
<1>3. Shape'
  BY <1>2 DEF HookInv, Shape, imports, thread
<1>4. ASSUME InOrder PROVE (Values /\ Phases /\ Restored)'
  <2>1. Values /\ Phases /\ Restored
    BY <1>4 DEF HookInv
  <2>2. saved' \in {"function", NULL}
    BY <1>1, <2>1 DEF Values
  <2> QED
    BY <1>2, <2>1, <2>2 DEF Values, Phases, Restored, imports, thread
<1>5. CrashesOnlyAfterMisuse'
  BY <1>2 DEF HookInv, CrashesOnlyAfterMisuse, program
<1> QED
  BY <1>2, <1>3, <1>4, <1>5 DEF HookInv, InOrder

\* What would go wrong does not, as long as nothing was out of order.
LEMMA GoesWrongKeeps ==
    ASSUME HookInv, NEW t \in Thread, GoesWrong(t) PROVE HookInv'
<1>1. UNCHANGED <<imports, thread, hook>>
  BY DEF GoesWrong
<1>2. Shape'
  BY <1>1 DEF HookInv, Shape, imports, thread, hook
<1>3. InOrder => s_c_lib = NULL
  <2>1. ASSUME InOrder PROVE Values
    BY <2>1 DEF HookInv
  <2> QED
    BY <2>1 DEF Values, GoesWrong
<1> QED
  BY <1>1, <1>2, <1>3, OthersKeep DEF imports, thread, hook

LEMMA LoaderShape ==
    ASSUME Shape, NEW m \in Plugin, NEW kind, Loader(m, kind)
    PROVE  Self \in loaded' /\ loaded' \subseteq Module /\ replaced' = replaced
BY ImportAssumption DEF Shape, Loader, ImportAssumption

LEMMA LoadsKeeps ==
    ASSUME HookInv, NEW t \in Thread, LoadsPlainly(t) \/ LoadsHooked(t) PROVE HookInv'
<1> USE DEF Initializing, Unwalking
<1>1. /\ pc[t] = "idle" /\ process = "running"
      /\ UNCHANGED <<s_c_lib, s_loadlib, g, s_nIsInited, setting, saved, disorder>>
  BY DEF LoadsPlainly, LoadsHooked, Acting, At
<1>2. CASE LoadsPlainly(t)
  <2>1. Shape' /\ UNCHANGED <<replaced, pc, todo, process>>
    BY <1>1, <1>2, LoaderShape DEF LoadsPlainly, HookInv, Shape, thread, program
  <2> QED
    BY <1>1, <2>1, OthersKeep
<1>3. CASE LoadsHooked(t)
  <2>1. PICK m \in Plugin :
           \/ /\ Loader(m, "direct")
              /\ pc' = [pc EXCEPT ![t] = "loaded"]
              /\ todo' = [todo EXCEPT ![t] = {m}]
              /\ UNCHANGED program
           \/ /\ s_loadlib # "function"
              /\ UNCHANGED <<imports, thread>>
    BY <1>3 DEF LoadsHooked
  <2>2. CASE /\ Loader(m, "direct")
             /\ pc' = [pc EXCEPT ![t] = "loaded"]
             /\ todo' = [todo EXCEPT ![t] = {m}]
             /\ UNCHANGED program
    <3>1. m \in Module /\ m # Self
      BY ImportAssumption DEF ImportAssumption
    <3>2. Self \in loaded' /\ loaded' \subseteq Module /\ replaced' = replaced
      BY <2>2, LoaderShape DEF HookInv
    <3>3. Shape'
      BY <1>1, <2>2, <3>1, <3>2 DEF HookInv, Shape, Loc
    <3>4. \A u \in Thread \ {t} : pc'[u] = pc[u] /\ todo'[u] = todo[u]
      BY <2>2 DEF HookInv, Shape
    <3>5. pc'[t] = "loaded"
      BY <2>2 DEF HookInv, Shape
    <3> QED
      BY <1>1, <2>2, <3>2, <3>3, <3>4, <3>5, OthersKeep DEF program
  <2>3. CASE s_loadlib # "function" /\ UNCHANGED <<imports, thread>>
    <3>1. Shape'
      BY <1>1, <2>3 DEF HookInv, Shape, imports, thread
    <3>2. InOrder => s_c_lib = NULL
      <4>1. ASSUME InOrder PROVE Values
        BY <4>1 DEF HookInv
      <4> QED
        BY <2>3, <4>1 DEF Values
    <3> QED
      BY <1>1, <2>3, <3>1, <3>2, OthersKeep DEF imports, thread
  <2> QED
    BY <2>1, <2>2, <2>3
<1> QED
  BY <1>2, <1>3

LEMMA ReplacesLoadedKeeps ==
    ASSUME HookInv, NEW t \in Thread, ReplacesLoaded(t) PROVE HookInv'
<1> USE DEF Initializing, Unwalking
<1>1. /\ pc[t] = "loaded" /\ pc' = [pc EXCEPT ![t] = "idle"]
      /\ todo' = [todo EXCEPT ![t] = {}]
      /\ replaced' = [m \in Module |-> IF m \in todo[t] /\ s_c_lib = "function"
                                       THEN replaced[m] \cup AllocName ELSE replaced[m]]
      /\ disorder \subseteq disorder' /\ process = "running"
      /\ UNCHANGED <<loaded, process, s_c_lib, s_loadlib, g, s_nIsInited, setting, saved>>
  BY DEF ReplacesLoaded, At, program
<1>2. replaced' \in [Module -> SUBSET Name]
  BY <1>1 DEF HookInv, Shape, Name
<1>3. Shape'
  BY <1>1, <1>2 DEF HookInv, Shape, Loc
<1>4. replaced'[Self] = replaced[Self]
  BY <1>1, ImportAssumption DEF HookInv, Shape, ImportAssumption
<1>5. pc'[t] = "idle" /\ \A u \in Thread \ {t} : pc'[u] = pc[u] /\ todo'[u] = todo[u]
  BY <1>1 DEF HookInv, Shape
<1> QED
  BY <1>1, <1>3, <1>4, <1>5, OthersKeep

\* The exit handler begins, goes on with LoadLibrary or goes over to malloc.
LEMMA CleanupKeeps ==
    ASSUME HookInv, NEW t \in Thread, Cleanup(t) PROVE HookInv'
<1>1. UNCHANGED <<imports, hook, process>> /\ pc[t] = "idle" /\ t = Main
  BY DEF Cleanup, RunsHandler, At, imports
<1>2. CASE s_nIsInited /\ Walk(t, "unwalk_load")
  <2>1. Shape'
    <3>1. "unwalk_load" \in Loc \ {"loaded"}
      BY DEF Loc, Unwalking
    <3> QED
      BY <1>1, <1>2, <3>1, WalkShape DEF HookInv, Shape, imports, hook
  <2>2. ASSUME InOrder PROVE (Values /\ Phases /\ Restored)'
    <3>1. Values /\ Phases /\ Restored
      BY <2>2 DEF HookInv
    <3>2. \A u \in Thread : pc[u] \notin Initializing
      BY <1>2, <3>1 DEF Phases
    <3>3. /\ \A u \in Thread \ {t} : pc'[u] = pc[u] /\ todo'[u] = todo[u]
          /\ pc'[t] = "unwalk_load" /\ todo'[t] = loaded
      BY <1>2 DEF Walk, HookInv, Shape
    <3>4. pc'[t] \notin Initializing
      BY <3>3 DEF Initializing
    <3>5. Values'
      BY <1>1, <3>1 DEF Values, hook
    <3>6. Phases'
      BY <1>1, <1>2, <3>1, <3>2, <3>3, <3>4 DEF Phases, hook
    <3>7. \A u \in Thread : u # t => pc'[u] \notin Unwalking
      BY <1>1, <3>1, <3>3 DEF Phases
    <3>8. "walk_load" # "unwalk_load" /\ s_nIsInited'
      BY <1>1, <1>2 DEF hook
    <3>9. Self \in todo'[t]
      BY <3>3 DEF HookInv, Shape
    <3>10. Restored'
      BY <3>3, <3>7, <3>8, <3>9 DEF Restored, Unwalking
    <3> QED
      BY <3>5, <3>6, <3>10
  <2>3. CrashesOnlyAfterMisuse'
    BY <1>1 DEF HookInv, InOrder, CrashesOnlyAfterMisuse, hook
  <2> QED
    BY <1>1, <2>1, <2>2, <2>3 DEF HookInv, InOrder, hook
<1>3. CASE UNCHANGED thread
  <2>1. Shape'
    BY <1>1, <1>3 DEF HookInv, Shape, imports, thread, hook
  <2> QED
    BY <1>1, <1>3, <2>1, OthersKeep DEF imports, thread, hook
<1> QED
  BY <1>2, <1>3 DEF Cleanup, RunsHandler

\* A step of the exit handler before its end.
LEMMA RestoringKeeps ==
    ASSUME HookInv, NEW t \in Thread, Shape', pc[t] \in Unwalking, pc'[t] \in Unwalking,
           \A u \in Thread \ {t} : pc'[u] = pc[u] /\ todo'[u] = todo[u],
           UNCHANGED <<program, hook>>,
           InOrder /\ Values /\ Phases /\ Restored =>
              /\ pc'[t] = "unwalk_load" /\ Self \notin todo'[t] =>
                    replaced'[Self] \cap LoadName = {}
              /\ pc'[t] = "unwalk_alloc" => replaced'[Self] \cap LoadName = {}
              /\ pc'[t] = "unwalk_alloc" /\ Self \notin todo'[t] =>
                    replaced'[Self] \cap AllocName = {}
    PROVE  HookInv'
<1>1. ASSUME InOrder PROVE (Values /\ Phases /\ Restored)'
  <2>1. Values /\ Phases /\ Restored
    BY <1>1 DEF HookInv
  <2>2. UNCHANGED <<s_nIsInited, s_c_lib, s_loadlib, g, setting, saved>>
    BY DEF hook
  <2>3. s_nIsInited /\ t = Main /\ \A u \in Thread \ {t} : pc[u] \notin Unwalking
    BY <2>1 DEF Phases
  <2>4. \A u \in Thread : pc[u] \notin Initializing
    BY <2>1, <2>3 DEF Phases
  <2>5. Initializing \cap Unwalking = {}
    BY DEF Initializing, Unwalking
  <2>6. \A u \in Thread : /\ pc'[u] \notin Initializing
                          /\ pc'[u] \in Unwalking => u = t
    BY <2>3, <2>4, <2>5
  <2>7. Values'
    BY <2>1, <2>2 DEF Values
  <2>8. Phases'
    BY <2>1, <2>2, <2>3, <2>6 DEF Phases
  <2>9. \A u \in Thread \ {t} : pc'[u] # "unwalk_load" /\ pc'[u] # "unwalk_alloc"
    BY <2>6 DEF Unwalking
  <2>10. Restored'
    BY <1>1, <2>1, <2>2, <2>3, <2>9 DEF Restored
  <2> QED
    BY <2>7, <2>8, <2>10
<1>2. CrashesOnlyAfterMisuse'
  BY DEF HookInv, InOrder, CrashesOnlyAfterMisuse, program, hook
<1> QED
  BY <1>1, <1>2 DEF HookInv, InOrder, hook

LEMMA RestoresLoadKeeps ==
    ASSUME HookInv, NEW t \in Thread, RestoresLoad(t) PROVE HookInv'
<1> USE DEF Unwalking
<1>1. pc[t] = "unwalk_load" /\ UNCHANGED <<program, hook>>
  BY DEF RestoresLoad, At
<1>2. CASE Visit(t, IF s_loadlib = "function" THEN LoadName ELSE {}, FALSE)
  <2> DEFINE names == IF s_loadlib = "function" THEN LoadName ELSE {}
  <2>1. names \in SUBSET Name
    BY DEF Name
  <2>2. /\ Shape' /\ pc' = pc
        /\ \A u \in Thread \ {t} : todo'[u] = todo[u]
        /\ \/ todo'[t] = todo[t] \ {Self} /\ replaced'[Self] = replaced[Self] \ names
           \/ (Self \in todo'[t] <=> Self \in todo[t]) /\ replaced'[Self] = replaced[Self]
    BY <1>1, <1>2, <2>1, VisitShape DEF HookInv, hook
  <2>3. Values /\ Phases => names = LoadName
    BY <1>1 DEF Values, Phases
  <2> HIDE DEF names
  <2>4. Values /\ Phases /\ Restored /\ Self \notin todo'[t] => replaced'[Self] \cap LoadName = {}
    BY <1>1, <2>2, <2>3 DEF Restored
  <2> QED
    BY <1>1, <2>2, <2>4, RestoringKeeps
<1>3. CASE todo[t] = {} /\ Walk(t, "unwalk_alloc") /\ UNCHANGED imports
  <2>1. Shape'
    <3>1. "unwalk_alloc" \in Loc \ {"loaded"}
      BY DEF Loc
    <3> QED
      BY <1>1, <1>3, <3>1, WalkShape DEF HookInv, Shape, hook, imports
  <2>2. /\ pc'[t] = "unwalk_alloc" /\ todo'[t] = loaded
        /\ \A u \in Thread \ {t} : pc'[u] = pc[u] /\ todo'[u] = todo[u]
    BY <1>3 DEF Walk, HookInv, Shape
  <2>3. Self \in todo'[t]
    BY <2>2 DEF HookInv, Shape
  <2>4. Restored => replaced'[Self] \cap LoadName = {}
    BY <1>1, <1>3 DEF Restored, imports
  <2> QED
    BY <1>1, <2>1, <2>2, <2>3, <2>4, RestoringKeeps
<1> QED
  BY <1>2, <1>3 DEF RestoresLoad

LEMMA RestoresAllocKeeps ==
    ASSUME HookInv, NEW t \in Thread, RestoresAlloc(t) PROVE HookInv'
<1> USE DEF Unwalking
<1>1. /\ pc[t] = "unwalk_alloc"
      /\ UNCHANGED <<program, begun, s_c_lib, s_loadlib, g, setting, saved, origin, disorder>>
  BY DEF RestoresAlloc, At
<1>2. CASE /\ Visit(t, IF s_c_lib = "function" THEN AllocName ELSE {}, FALSE)
           /\ UNCHANGED s_nIsInited
  <2> DEFINE names == IF s_c_lib = "function" THEN AllocName ELSE {}
  <2>1. names \in SUBSET Name
    BY DEF Name
  <2>2. /\ Shape' /\ pc' = pc
        /\ \A u \in Thread \ {t} : todo'[u] = todo[u]
        /\ \/ todo'[t] = todo[t] \ {Self} /\ replaced'[Self] = replaced[Self] \ names
           \/ (Self \in todo'[t] <=> Self \in todo[t]) /\ replaced'[Self] = replaced[Self]
    BY <1>1, <1>2, <2>1, VisitShape DEF HookInv
  <2>3. Values /\ Phases => names = AllocName
    BY <1>1 DEF Values, Phases
  <2> HIDE DEF names
  <2>4. Values /\ Phases /\ Restored /\ Self \notin todo'[t] => replaced'[Self] \cap AllocName = {}
    BY <1>1, <2>2, <2>3 DEF Restored
  <2>5. Restored => replaced'[Self] \cap LoadName = {}
    BY <1>1, <2>2 DEF Restored
  <2>6. UNCHANGED hook
    BY <1>1, <1>2 DEF hook
  <2> QED
    BY <1>1, <2>2, <2>4, <2>5, <2>6, RestoringKeeps
<1>3. CASE todo[t] = {} /\ s_nIsInited' = FALSE /\ Goto(t, "idle") /\ UNCHANGED imports
  <2>1. Shape'
    <3>1. "idle" \in Loc \ {"loaded"}
      BY DEF Loc
    <3> QED
      BY <1>1, <1>3, <3>1, WalkShape DEF HookInv, Shape, imports
  <2>2. ASSUME InOrder PROVE (Values /\ Phases /\ Restored)'
    <3>1. Values /\ Phases /\ Restored
      BY <2>2 DEF HookInv
    <3>2. t = Main /\ \A u \in Thread : pc[u] \notin Initializing
      BY <1>1, <3>1 DEF Phases
    <3>3. pc'[t] = "idle" /\ \A u \in Thread \ {t} : pc'[u] = pc[u] /\ todo'[u] = todo[u]
      BY <1>3 DEF Goto, HookInv, Shape
    <3>4. \A u \in Thread : pc'[u] \notin Initializing
      BY <3>2, <3>3 DEF Initializing
    <3>5. \A u \in Thread : pc'[u] \notin Unwalking
      BY <3>1, <3>2, <3>3 DEF Phases
    <3>6. replaced'[Self] \cap Hooks = {}
      BY <1>1, <1>3, <3>1 DEF Restored, Hooks, imports
    <3>7. Values'
      BY <1>1, <3>1 DEF Values
    <3>8. Phases'
      BY <1>3, <3>4, <3>5 DEF Phases
    <3>9. Restored'
      BY <3>5, <3>6 DEF Restored
    <3> QED
      BY <3>7, <3>8, <3>9
  <2>3. CrashesOnlyAfterMisuse'
    BY <1>1 DEF HookInv, InOrder, CrashesOnlyAfterMisuse, program
  <2> QED
    BY <1>1, <2>1, <2>2, <2>3 DEF HookInv, InOrder
<1> QED
  BY <1>2, <1>3 DEF RestoresAlloc

-----------------------------------------------------------------------------
(* The stdout investigation shares the import tables and nothing else.     *)

LEMMA StdoutKeeps ==
    ASSUME HookInv, StdoutNext, UNCHANGED hook PROVE HookInv'
<1> USE DEF Initializing, Unwalking
<1>1. PICK t \in Thread :
         \/ StdoutInitializer(t) \/ StdoutReplaces(t) \/ StdoutClean(t)
         \/ SetsClbk(t) \/ FWriteStatic(t) \/ Stdio01Static(t) \/ ClbkReturns(t)
  BY DEF StdoutNext
<1>2. UNCHANGED <<s_c_lib, s_loadlib, g, s_nIsInited, setting, saved, disorder>>
  BY DEF hook
<1>3. ASSUME UNCHANGED <<imports, thread>>, process' # "crashed" PROVE HookInv'
  <2>1. Shape' /\ UNCHANGED <<pc, todo, replaced>>
    BY <1>2, <1>3 DEF HookInv, Shape, imports, thread
  <2> QED
    BY <1>2, <1>3, <2>1, OthersKeep
\* A thread that begins to walk, or is done.
<1>4. ASSUME NEW from \in {"idle", "walk_stdout", "unwalk_stdout"}, pc[t] = from,
             NEW to \in {"idle", "walk_stdout", "unwalk_stdout"},
             Walk(t, to) \/ Goto(t, to), UNCHANGED imports, process' # "crashed"
      PROVE  HookInv'
  <2>1. to \in Loc \ {"loaded"}
    BY DEF Loc
  <2>2. Shape'
    BY <1>2, <1>4, <2>1, WalkShape DEF HookInv, Shape, imports
  <2>3. pc'[t] = to /\ \A u \in Thread \ {t} : pc'[u] = pc[u] /\ todo'[u] = todo[u]
    BY <1>4 DEF Walk, Goto, HookInv, Shape
  <2> QED
    BY <1>2, <1>4, <2>2, <2>3, OthersKeep DEF imports
\* A thread that visits a module.
<1>5. ASSUME pc[t] \in {"walk_stdout", "unwalk_stdout"},
             Visit(t, StdName, TRUE) \/ Visit(t, StdName, FALSE), process' # "crashed"
      PROVE  HookInv'
  <2>1. Shape /\ pc[t] # "loaded" /\ StdName \in SUBSET Name /\ UNCHANGED <<g, setting>>
    BY <1>2, <1>5 DEF HookInv, Name
  <2>2. /\ Shape' /\ pc' = pc
        /\ \A u \in Thread \ {t} : todo'[u] = todo[u]
        /\ replaced'[Self] \in {replaced[Self], replaced[Self] \cup StdName,
                                replaced[Self] \ StdName}
    <3>1. CASE Visit(t, StdName, TRUE)
      BY <2>1, <3>1, VisitShape
    <3>2. CASE Visit(t, StdName, FALSE)
      BY <2>1, <3>2, VisitShape
    <3> QED
      BY <1>5, <3>1, <3>2
  <2>3. replaced'[Self] \cap Hooks = replaced[Self] \cap Hooks
    BY <2>2, ImportAssumption DEF ImportAssumption, Hooks
  <2>4. \A u \in Thread : pc[u] \in Unwalking => todo'[u] = todo[u]
    BY <1>5, <2>2
  <2> QED
    BY <1>2, <1>5, <2>2, <2>3, <2>4, OthersKeep
<1>6. CASE StdoutInitializer(t)
  <2>1. /\ pc[t] = "idle" /\ process' # "crashed" /\ UNCHANGED imports
        /\ Walk(t, "walk_stdout") \/ UNCHANGED thread
    BY <1>6 DEF StdoutInitializer, BeginsInitializer, Acting, At
  <2> QED
    BY <1>3, <1>4, <2>1
<1>7. CASE StdoutReplaces(t)
  <2>1. /\ pc[t] = "walk_stdout" /\ process' # "crashed"
        /\ Visit(t, StdName, TRUE) \/ (Goto(t, "idle") /\ UNCHANGED imports)
    BY <1>7 DEF StdoutReplaces, At
  <2> QED
    BY <1>4, <1>5, <2>1
<1>8. CASE StdoutClean(t)
  <2>1. \/ /\ pc[t] = "idle" /\ process' # "crashed"
           /\ Walk(t, "unwalk_stdout") /\ UNCHANGED imports
        \/ /\ pc[t] = "unwalk_stdout" /\ process' # "crashed"
           /\ Visit(t, StdName, FALSE) \/ (Goto(t, "idle") /\ UNCHANGED imports)
    BY <1>8 DEF StdoutClean, RunsHandler, At, program
  <2> QED
    BY <1>4, <1>5, <2>1
<1>9. SetsClbk(t) \/ FWriteStatic(t) \/ Stdio01Static(t) \/ ClbkReturns(t) =>
         UNCHANGED <<imports, thread>> /\ process' # "crashed"
  BY DEF SetsClbk, FWriteStatic, Stdio01Static, ClbkReturns, Writes, Acting, At, program
<1> QED
  BY <1>1, <1>3, <1>6, <1>7, <1>8, <1>9

LEMMA NextKeeps == HookInv /\ [Next]_vars => HookInv'
<1> SUFFICES ASSUME HookInv, [Next]_vars PROVE HookInv'
  OBVIOUS
<1>1. CASE HookNext
  BY <1>1, InitializerKeeps, ReplacesKeeps, EndsInitializeKeeps, SetsKeeps, GetsKeeps,
     GoesWrongKeeps, LoadsKeeps, ReplacesLoadedKeeps, CleanupKeeps, RestoresLoadKeeps,
     RestoresAllocKeeps DEF HookNext
<1>2. CASE StdoutNext /\ UNCHANGED hook
  BY <1>2, StdoutKeeps
<1>3. CASE (ExitCall \/ Ends) /\ UNCHANGED <<hook, stdout>>
  <2>1. UNCHANGED <<imports, thread, hook>> /\ process' # "crashed"
    BY <1>3 DEF ExitCall, Ends, Acting, At
  <2>2. Shape'
    BY <2>1 DEF HookInv, Shape, imports, thread, hook
  <2> QED
    BY <2>1, <2>2, OthersKeep DEF imports, thread, hook
<1>4. CASE UNCHANGED vars
  <2>1. UNCHANGED <<imports, thread, program, hook>>
    BY <1>4 DEF vars
  <2>2. Shape'
    BY <2>1 DEF HookInv, Shape, imports, thread, hook
  <2> QED
    BY <2>1, <2>2, OthersKeep DEF imports, thread, hook, program
<1> QED
  BY <1>1, <1>2, <1>3, <1>4 DEF Next, Halted

LEMMA HookInvariant == Spec => []HookInv
<1> QED
  BY HookInitHolds, NextKeeps, PTL DEF Spec

-----------------------------------------------------------------------------
(* The results.                                                            *)

\* Whatever the threads, the modules and the order of the initializers: a call through
\* NULL, or one that comes back to itself, needs a misuse of the library
\* (CInternalReplaceFunctions*, AllocFreeHookSet*Fnc, alloc_free_hook_cleanup).
THEOREM HooksCallRealFunctions == Spec => []CrashesOnlyAfterMisuse
<1>1. HookInv => CrashesOnlyAfterMisuse
  BY DEF HookInv
<1> QED
  BY <1>1, HookInvariant, PTL

-----------------------------------------------------------------------------
(* The callback, for buffers and texts of any length and any nesting.      *)

Call == [length: Int, size: Int]

ClbkInv ==
    /\ flag \in [Thread -> BOOLEAN]
    /\ clbk \in [Thread -> Seq(Call)]
    /\ CallbackIsCalledOnce

\* What is passed is the text, unless it did not fit.
LEMMA PassesKeeps ==
    ASSUME ClbkInv, NEW t \in Thread, NEW length \in Int, NEW size \in Int,
           size < length => ~Fits(length), Passes(t, length, size)
    PROVE  ClbkInv'
<1>1. CASE UNCHANGED <<flag, clbk>>
  BY <1>1 DEF ClbkInv, CallbackIsCalledOnce
<1>2. CASE /\ ~flag[t]
           /\ flag' = [flag EXCEPT ![t] = TRUE]
           /\ clbk' = [clbk EXCEPT ![t] = Append(@, [length |-> length, size |-> size])]
  <2> DEFINE call == [length |-> length, size |-> size]
  <2>1. flag' \in [Thread -> BOOLEAN] /\ flag'[t]
    BY <1>2 DEF ClbkInv
  <2>2. call \in Call /\ clbk[t] \in Seq(Call) /\ Len(clbk[t]) = 0
    BY <1>2 DEF ClbkInv, CallbackIsCalledOnce, Call
  <2>3. clbk'[t] = Append(clbk[t], call) /\ \A u \in Thread \ {t} : clbk'[u] = clbk[u] /\ flag'[u] = flag[u]
    BY <1>2 DEF ClbkInv
  <2>4. call.length = length /\ call.size = size
    OBVIOUS
  <2> HIDE DEF call
  <2>5. clbk'[t] \in Seq(Call) /\ Len(clbk'[t]) = 1 /\ clbk'[t][1] = call
    BY <2>2, <2>3
  <2>6. clbk' \in [Thread -> Seq(Call)]
    BY <1>2, <2>2, <2>3, <2>5 DEF ClbkInv
  <2>7. CallbackIsCalledOnce'
    <3> SUFFICES ASSUME NEW u \in Thread
                 PROVE  /\ Len(clbk'[u]) = IF flag'[u] THEN 1 ELSE 0
                        /\ \A i \in DOMAIN clbk'[u] :
                              clbk'[u][i].size < clbk'[u][i].length => ~Fits(clbk'[u][i].length)
      BY DEF CallbackIsCalledOnce, Fits
    <3>1. CASE u = t
      <4>1. DOMAIN clbk'[t] = {1}
        BY <2>5
      <4> QED
        BY <2>1, <2>4, <2>5, <3>1, <4>1
    <3>2. CASE u # t
      BY <2>3, <3>2 DEF ClbkInv, CallbackIsCalledOnce
    <3> QED
      BY <3>1, <3>2
  <2> QED
    BY <2>1, <2>6, <2>7 DEF ClbkInv
<1> QED
  BY <1>1, <1>2 DEF Passes

\* The flag is lowered by the one call that raised it.
LEMMA ClbkReturnsKeeps ==
    ASSUME ClbkInv, NEW t \in Thread, ClbkReturns(t) PROVE ClbkInv'
<1>1. /\ flag' = [flag EXCEPT ![t] = FALSE]
      /\ clbk' = [clbk EXCEPT ![t] = Front(@)] /\ clbk[t] # << >>
  BY DEF ClbkReturns
<1>2. clbk[t] \in Seq(Call) /\ Len(clbk[t]) = 1
  BY <1>1 DEF ClbkInv, CallbackIsCalledOnce
<1>3. Front(clbk[t]) = << >>
  BY <1>2 DEF Front
<1>4. clbk'[t] = << >> /\ ~flag'[t]
      /\ \A u \in Thread \ {t} : clbk'[u] = clbk[u] /\ flag'[u] = flag[u]
  BY <1>1, <1>3 DEF ClbkInv
<1>5. flag' \in [Thread -> BOOLEAN] /\ clbk' \in [Thread -> Seq(Call)]
  BY <1>1, <1>3 DEF ClbkInv
<1>6. Len(clbk'[t]) = 0 /\ DOMAIN clbk'[t] = {}
  BY <1>4
<1>7. CallbackIsCalledOnce'
  <2> SUFFICES ASSUME NEW u \in Thread
               PROVE  /\ Len(clbk'[u]) = IF flag'[u] THEN 1 ELSE 0
                      /\ \A i \in DOMAIN clbk'[u] :
                            clbk'[u][i].size < clbk'[u][i].length => ~Fits(clbk'[u][i].length)
    BY DEF CallbackIsCalledOnce, Fits
  <2>1. CASE u = t
    BY <1>4, <1>6, <2>1
  <2>2. CASE u # t
    BY <1>4, <2>2 DEF ClbkInv, CallbackIsCalledOnce
  <2> QED
    BY <2>1, <2>2
<1> QED
  BY <1>5, <1>7 DEF ClbkInv

LEMMA ClbkNextKeeps == ClbkInv /\ [Next]_vars => ClbkInv'
<1> SUFFICES ASSUME ClbkInv, [Next]_vars PROVE ClbkInv'
  OBVIOUS
<1>1. CASE UNCHANGED <<flag, clbk>>
  BY <1>1 DEF ClbkInv, CallbackIsCalledOnce
<1>2. ASSUME NEW t \in Thread, FWriteStatic(t) PROVE ClbkInv'
  BY <1>2, PassesKeeps DEF FWriteStatic
<1>3. ASSUME NEW t \in Thread, Stdio01Static(t) PROVE ClbkInv'
  <2>1. PICK length \in TextLength :
           \/ (Fits(length) \/ flag[t]) /\ Passes(t, length, Counted(length))
           \/ ~Fits(length) /\ Passes(t, length, Counted(-1))
           \/ UNCHANGED <<flag, clbk>>
    BY <1>3 DEF Stdio01Static
  <2>2. length \in Int /\ Counted(length) \in Int /\ Counted(length) >= length /\ Counted(-1) \in Int
    BY StdoutWindowsAssumption DEF StdoutWindowsAssumption, Counted
  <2> QED
    BY <1>1, <2>1, <2>2, PassesKeeps
<1>4. ASSUME NEW t \in Thread, ClbkReturns(t) PROVE ClbkInv'
  BY <1>4, ClbkReturnsKeeps
<1>5. CASE HookNext /\ UNCHANGED stdout
  BY <1>1, <1>5 DEF stdout
<1>6. CASE StdoutNext
  <2>1. PICK t \in Thread :
           \/ StdoutInitializer(t) \/ StdoutReplaces(t) \/ StdoutClean(t)
           \/ SetsClbk(t) \/ FWriteStatic(t) \/ Stdio01Static(t) \/ ClbkReturns(t)
    BY <1>6 DEF StdoutNext
  <2>2. StdoutInitializer(t) \/ StdoutReplaces(t) \/ StdoutClean(t) \/ SetsClbk(t) =>
           UNCHANGED <<flag, clbk>>
    BY DEF StdoutInitializer, StdoutReplaces, StdoutClean, SetsClbk, stdout
  <2> QED
    BY <1>1, <1>2, <1>3, <1>4, <2>1, <2>2
<1>7. CASE (ExitCall \/ Ends) /\ UNCHANGED <<hook, stdout>>
  BY <1>1, <1>7 DEF stdout
<1>8. CASE UNCHANGED vars
  BY <1>1, <1>8 DEF vars, stdout
<1> QED
  BY <1>5, <1>6, <1>7, <1>8 DEF Next, Halted

\* The callback is called once for a text, however often it writes itself, and passed all
\* of it unless it does not fit (Stdio01Static, FWriteStatic).
THEOREM TextsArePassedOnce == Spec => []CallbackIsCalledOnce
<1>1. Init => ClbkInv
  <2> SUFFICES ASSUME Init PROVE ClbkInv
    OBVIOUS
  <2>1. flag = [t \in Thread |-> FALSE] /\ clbk = [t \in Thread |-> << >>]
    BY DEF Init, StdoutInit
  <2> QED
    BY <2>1 DEF ClbkInv, CallbackIsCalledOnce
<1>2. ClbkInv => CallbackIsCalledOnce
  BY DEF ClbkInv
<1> QED
  BY <1>1, <1>2, ClbkNextKeeps, PTL DEF Spec
=============================================================================

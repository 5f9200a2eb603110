------------------------- MODULE WindowsImportProofs -------------------------
(***************************************************************************)
(* Proofs about WindowsBuild: its types, and which imports are replaced    *)
(* from the start of the process to its end, for any threads, modules and  *)
(* imports.                                                                *)
(***************************************************************************)
EXTENDS WindowsProofs

-----------------------------------------------------------------------------
(* Types.                                                                  *)

\* The parts of TypeOK, by who changes them.
ImportsType == loaded \subseteq Module /\ replaced \in [Module -> SUBSET Name]
TodoType == todo \in [Thread -> SUBSET Module]
HandlersType == handlers \in Seq({"hook", "stdout"})
ProgramType ==
    /\ pending \subseteq {"hook", "stdout"}
    /\ exiting \in BOOLEAN
    /\ process \in {"running", "exited", "crashed", "aborted"}
PointersType ==
    /\ begun \in 0 .. MaxInitializations
    /\ s_c_lib \in Value /\ s_loadlib \in Value
    /\ g \in [AllocName -> Value]
    /\ s_nIsInited \in BOOLEAN
    /\ saved \in Value
    /\ disorder \subseteq {"null", "overlap", "exit"}
SettingType ==
    \A t \in Thread : setting[t] = NoSetting \/ setting[t] \in [name: AllocName, value: Value]
OriginType == origin \in [Module -> {"absent", "start", "direct", "other"}]

LEMMA TypeParts ==
    /\ TypeOK <=> /\ ImportsType /\ TodoType /\ HandlersType /\ ProgramType
                  /\ StdoutTypeOK /\ PointersType /\ SettingType /\ OriginType
    /\ TypeOK' <=> /\ ImportsType' /\ TodoType' /\ HandlersType' /\ ProgramType'
                   /\ StdoutTypeOK' /\ PointersType' /\ SettingType' /\ OriginType'
BY DEF TypeOK, ImportTypeOK, ImportsType, TodoType, HandlersType, ProgramType, PointersType,
       SettingType, OriginType

LEMMA NoHandlersType == handlers = << >> => HandlersType
BY DEF HandlersType

LEMMA InitTypes == Init => TypeOK
<1> SUFFICES ASSUME Init PROVE TypeOK
  OBVIOUS
<1> USE DEF Init, ImportInit, HookInit, StdoutInit
<1>1. ImportsType /\ TodoType
  BY ImportAssumption DEF ImportAssumption, ImportsType, TodoType
<1>5. HandlersType /\ ProgramType
  BY NoHandlersType DEF ProgramType
<1>2. StdoutTypeOK
  BY DEF StdoutTypeOK
<1>3. PointersType
  <2>1. begun \in 0 .. MaxInitializations
    BY HookAssumption DEF HookAssumption
  <2>2. s_c_lib \in Value /\ s_loadlib \in Value /\ saved \in Value
    BY DEF Value
  <2>3. g \in [AllocName -> Value]
    BY DEF Value
  <2> QED
    BY <2>1, <2>2, <2>3 DEF PointersType
<1>4. SettingType /\ OriginType
  BY DEF SettingType, OriginType
<1> QED
  BY <1>1, <1>2, <1>3, <1>4, <1>5, TypeParts

\* What a thread is to visit are modules, and only imports are replaced.
LEMMA WalkTypes ==
    ASSUME ImportsType, TodoType, NEW t \in Thread, NEW loc, Walk(t, loc) \/ Goto(t, loc)
    PROVE  TodoType'
BY DEF ImportsType, TodoType, Walk, Goto

LEMMA VisitTypes ==
    ASSUME ImportsType, TodoType, NEW t \in Thread, NEW names \in SUBSET Name,
           NEW present \in BOOLEAN, Visit(t, names, present)
    PROVE  ImportsType' /\ TodoType'
<1> DEFINE m == CHOOSE d \in todo[t] : TRUE
<1>1. m \in todo[t]
  BY DEF Visit
<1>2. /\ todo' = [todo EXCEPT ![t] = @ \ {m}]
      /\ replaced' = [replaced EXCEPT ![m] = IF present THEN @ \cup names ELSE @ \ names]
      /\ loaded' = loaded
  BY DEF Visit
<1> HIDE DEF m
<1> QED
  BY <1>1, <1>2 DEF ImportsType, TodoType

LEMMA FrontType ==
    ASSUME NEW S, NEW s \in Seq(S), s # << >> PROVE Front(s) \in Seq(S)
BY DEF Front

LEMMA FrontOfHandlers ==
    ASSUME HandlersType, handlers # << >>, handlers' = Front(handlers)
    PROVE  /\ HandlersType'
           /\ \A i \in DOMAIN handlers : handlers[i] = Last(handlers) \/ i \in DOMAIN handlers'
           /\ \A i \in DOMAIN handlers' : handlers'[i] = handlers[i]
BY DEF HandlersType, Front, Last

LEMMA FrontKeepsType ==
    TypeOK /\ handlers # << >> /\ handlers' = Front(handlers) => HandlersType'
BY FrontOfHandlers, TypeParts

LEMMA AppendToHandlers ==
    ASSUME HandlersType, NEW handler \in {"hook", "stdout"}, handlers' = Append(handlers, handler)
    PROVE  /\ HandlersType'
           /\ \A i \in DOMAIN handlers : i \in DOMAIN handlers' /\ handlers'[i] = handlers[i]
           /\ \E i \in DOMAIN handlers' : handlers'[i] = handler
<1>1. Len(handlers) + 1 \in DOMAIN handlers' /\ handlers'[Len(handlers) + 1] = handler
  BY DEF HandlersType
<1> QED
  BY <1>1 DEF HandlersType

LEMMA InitializesTypes ==
    ASSUME TypeOK, NEW t \in Thread, Initializes(t), UNCHANGED <<s_nIsInited, saved>>
    PROVE  TodoType' /\ PointersType'
<1>1. ImportsType /\ TodoType /\ PointersType
  BY TypeParts
<1>2. TodoType'
  BY <1>1, WalkTypes DEF Initializes
<1>3. begun' \in 0 .. MaxInitializations
  BY <1>1, HookAssumption DEF PointersType, Initializes, HookAssumption
<1>4. s_c_lib' \in Value /\ s_loadlib' \in Value /\ g' \in [AllocName -> Value]
  BY DEF Initializes, Assigns, Imported, Value
<1>5. disorder' \subseteq {"null", "overlap", "exit"}
  BY <1>1 DEF PointersType, Initializes
<1> QED
  BY <1>1, <1>2, <1>3, <1>4, <1>5 DEF PointersType

LEMMA HookTypes ==
    ASSUME TypeOK, Shape, HookNext, UNCHANGED stdout PROVE TypeOK'
<1> USE TypeParts
<1>0. PICK t \in Thread :
        \/ RunsInitializer(t) \/ ReplacesAlloc(t) \/ ReplacesLoad(t) \/ EndsInitialize(t)
        \/ Sets(t) \/ Gets(t) \/ GoesWrong(t)
        \/ LoadsPlainly(t) \/ LoadsHooked(t) \/ ReplacesLoaded(t)
        \/ Cleanup(t) \/ RestoresLoad(t) \/ RestoresAlloc(t)
  BY DEF HookNext
<1>1. StdoutTypeOK'
  BY DEF StdoutTypeOK, stdout
<1>2. CASE RunsInitializer(t)
  <2>1. TodoType' /\ PointersType'
    <3>1. CASE Initializes(t)
      BY <1>2, <3>1, InitializesTypes DEF RunsInitializer
    <3>2. CASE UNCHANGED <<begun, s_c_lib, s_loadlib, g, disorder, thread>>
      BY <1>2, <3>2 DEF RunsInitializer, TodoType, PointersType, thread
    <3> QED
      BY <1>2, <3>1, <3>2 DEF RunsInitializer
  <2>2. ImportsType' /\ HandlersType' /\ ProgramType' /\ SettingType' /\ OriginType'
    BY <1>2 DEF RunsInitializer, BeginsInitializer, ImportsType, HandlersType, ProgramType,
         SettingType, OriginType, imports
  <2> QED
    BY <1>1, <2>1, <2>2
<1>3. ASSUME UNCHANGED <<program, hook>>, \/ UNCHANGED imports /\ TodoType'
                                          \/ ImportsType' /\ TodoType'
      PROVE  TypeOK'
  <2>1. ImportsType' /\ TodoType'
    BY <1>3 DEF ImportsType, imports
  <2>2. HandlersType' /\ ProgramType' /\ PointersType' /\ SettingType' /\ OriginType'
    BY <1>3 DEF HandlersType, ProgramType, PointersType, SettingType, OriginType, program, hook
  <2> QED
    BY <1>1, <2>1, <2>2
<1>4. CASE ReplacesAlloc(t)
  BY <1>3, <1>4, VisitTypes, WalkTypes DEF ReplacesAlloc, Name
<1>5. CASE ReplacesLoad(t)
  BY <1>3, <1>5, VisitTypes, WalkTypes DEF ReplacesLoad, Name
<1>6. CASE EndsInitialize(t)
  <2>1. TodoType'
    BY <1>6, WalkTypes DEF EndsInitialize
  <2>2. HandlersType'
    BY <1>6, AppendToHandlers DEF EndsInitialize
  <2>3. ImportsType' /\ ProgramType' /\ OriginType'
    BY <1>6 DEF EndsInitialize, ImportsType, ProgramType, OriginType, imports
  <2>4. PointersType'
    <3>1. CASE UNCHANGED <<g, disorder>>
      BY <1>6, <3>1 DEF EndsInitialize, PointersType
    <3>2. CASE setting[t] # NoSetting /\ Stores(setting[t].name, setting[t].value)
      <4>1. setting[t].value \in Value
        BY <3>2 DEF SettingType
      <4> HIDE DEF SettingType
      <4> QED
        BY <1>6, <3>2, <4>1 DEF EndsInitialize, Stores, PointersType
    <3> QED
      BY <1>6, <3>1, <3>2 DEF EndsInitialize
  <2>5. SettingType'
    BY <1>6 DEF EndsInitialize, SettingType, Shape
  <2> QED
    BY <1>1, <2>1, <2>2, <2>3, <2>4, <2>5
<1>7. CASE Sets(t)
  <2>1. ImportsType' /\ HandlersType' /\ ProgramType' /\ OriginType'
    BY <1>7 DEF Sets, ImportsType, HandlersType, ProgramType, OriginType, imports, program
  <2>2. PICK n \in AllocName, v \in {"function", saved} :
           \/ /\ Stores(n, v)
              /\ UNCHANGED <<thread, begun, s_c_lib, s_loadlib, setting>>
           \/ /\ Initializes(t)
              /\ setting' = [setting EXCEPT ![t] = [name |-> n, value |-> v]]
    BY <1>7 DEF Sets
  <2>3. v \in Value
    BY <2>2 DEF PointersType, Value
  <2>4. CASE Stores(n, v) /\ UNCHANGED <<thread, begun, s_c_lib, s_loadlib, setting>>
    <3>1. TodoType' /\ SettingType'
      BY <2>4 DEF TodoType, SettingType, thread
    <3>2. PointersType'
      BY <1>7, <2>3, <2>4 DEF Sets, Stores, PointersType
    <3> QED
      BY <1>1, <2>1, <3>1, <3>2
  <2>5. CASE /\ Initializes(t)
             /\ setting' = [setting EXCEPT ![t] = [name |-> n, value |-> v]]
    <3>1. TodoType' /\ PointersType'
      BY <1>7, <2>5, InitializesTypes DEF Sets
    <3>2. SettingType'
      BY <2>3, <2>5 DEF SettingType, Shape
    <3> QED
      BY <1>1, <2>1, <3>1, <3>2
  <2> QED
    BY <2>2, <2>4, <2>5
<1>8. CASE Gets(t)
  <2>1. ImportsType' /\ TodoType' /\ HandlersType' /\ ProgramType' /\ OriginType' /\ SettingType'
    BY <1>8 DEF Gets, ImportsType, TodoType, HandlersType, ProgramType, OriginType, SettingType,
         imports, thread, program
  <2>2. PointersType'
    BY <1>8 DEF Gets, PointersType
  <2> QED
    BY <1>1, <2>1, <2>2
<1>9. CASE GoesWrong(t)
  <2>1. ProgramType'
    BY <1>9 DEF GoesWrong, Crashes, ProgramType
  <2>2. ImportsType' /\ TodoType' /\ HandlersType' /\ OriginType' /\ SettingType' /\ PointersType'
    BY <1>9 DEF GoesWrong, Crashes, ImportsType, TodoType, HandlersType, OriginType, SettingType,
         PointersType, imports, thread, hook
  <2> QED
    BY <1>1, <2>1, <2>2
<1>10. ASSUME NEW m \in Plugin, NEW kind, Loader(m, kind) PROVE ImportsType' /\ OriginType'
  <2>1. Needs[m] \subseteq Module /\ m \in Module
    BY ImportAssumption DEF ImportAssumption
  <2>2. ImportsType'
    BY <1>10, <2>1 DEF Loader, ImportsType
  <2>3. OriginType'
    BY <1>10 DEF Loader, OriginType
  <2> QED
    BY <2>2, <2>3
<1>11. CASE LoadsPlainly(t)
  <2>1. ImportsType' /\ OriginType'
    BY <1>10, <1>11 DEF LoadsPlainly
  <2>2. TodoType' /\ HandlersType' /\ ProgramType' /\ PointersType' /\ SettingType'
    BY <1>11 DEF LoadsPlainly, TodoType, HandlersType, ProgramType, PointersType, SettingType,
         thread, program
  <2> QED
    BY <1>1, <2>1, <2>2
<1>12. CASE LoadsHooked(t)
  <2>1. PICK m \in Plugin :
           \/ /\ Loader(m, "direct")
              /\ todo' = [todo EXCEPT ![t] = {m}]
              /\ UNCHANGED program
           \/ /\ Crashes
              /\ UNCHANGED <<imports, thread, origin>>
    BY <1>12 DEF LoadsHooked
  <2>2. PointersType' /\ SettingType'
    BY <1>12 DEF LoadsHooked, PointersType, SettingType
  <2>3. CASE Loader(m, "direct") /\ todo' = [todo EXCEPT ![t] = {m}] /\ UNCHANGED program
    <3>1. m \in Module
      BY ImportAssumption DEF ImportAssumption
    <3>2. TodoType' /\ HandlersType' /\ ProgramType'
      BY <2>3, <3>1 DEF TodoType, HandlersType, ProgramType, program
    <3> QED
      BY <1>1, <1>10, <2>2, <2>3, <3>2
  <2>4. CASE Crashes /\ UNCHANGED <<imports, thread, origin>>
    <3>1. ProgramType' /\ HandlersType'
      BY <2>4 DEF Crashes, ProgramType, HandlersType
    <3>2. ImportsType' /\ TodoType' /\ OriginType'
      BY <2>4 DEF ImportsType, TodoType, OriginType, imports, thread
    <3> QED
      BY <1>1, <2>2, <3>1, <3>2
  <2> QED
    BY <2>1, <2>3, <2>4
<1>13. CASE ReplacesLoaded(t)
  <2>1. ImportsType'
    BY <1>13 DEF ReplacesLoaded, ImportsType, Name
  <2>2. TodoType' /\ HandlersType' /\ ProgramType' /\ SettingType' /\ OriginType'
    BY <1>13 DEF ReplacesLoaded, TodoType, HandlersType, ProgramType, SettingType, OriginType, program
  <2>3. PointersType'
    BY <1>13 DEF ReplacesLoaded, PointersType
  <2> QED
    BY <1>1, <2>1, <2>2, <2>3
<1>14. CASE Cleanup(t)
  <2>1. /\ HandlersType' /\ TodoType' /\ UNCHANGED <<imports, pending, exiting, process, hook>>
    <3>1. /\ handlers # << >> /\ handlers' = Front(handlers)
          /\ Walk(t, "unwalk_load") \/ UNCHANGED thread
          /\ UNCHANGED <<imports, pending, exiting, process, hook>>
      BY <1>14 DEF Cleanup, RunsHandler
    <3>2. HandlersType'
      BY <3>1, FrontKeepsType
    <3>3. CASE Walk(t, "unwalk_load")
      BY <3>1, <3>2, <3>3, WalkTypes
    <3>4. CASE UNCHANGED thread
      BY <3>1, <3>2, <3>4 DEF TodoType, thread
    <3> QED
      BY <3>1, <3>3, <3>4
  <2> QED
    BY <1>1, <2>1 DEF ImportsType, ProgramType, SettingType, OriginType, PointersType, imports, hook
<1>15. CASE RestoresLoad(t)
  BY <1>3, <1>15, VisitTypes, WalkTypes DEF RestoresLoad, Name
<1>16. CASE RestoresAlloc(t)
  <2>1. ImportsType' /\ TodoType'
    <3>1. (IF s_c_lib = "function" THEN AllocName ELSE {}) \in SUBSET Name
      BY DEF Name
    <3> QED
      BY <1>16, <3>1, VisitTypes, WalkTypes DEF RestoresAlloc, ImportsType, imports
  <2>2. HandlersType' /\ ProgramType' /\ SettingType' /\ OriginType'
    BY <1>16 DEF RestoresAlloc, HandlersType, ProgramType, SettingType, OriginType, program
  <2>3. PointersType'
    BY <1>16 DEF RestoresAlloc, PointersType
  <2> QED
    BY <1>1, <2>1, <2>2, <2>3
<1> QED
  BY <1>0, <1>2, <1>4, <1>5, <1>6, <1>7, <1>8, <1>9, <1>11, <1>12, <1>13, <1>14, <1>15, <1>16

\* What is passed to the callback has a length and a size.
LEMMA PassesTypes ==
    ASSUME StdoutTypeOK, NEW t \in Thread, NEW length \in Nat, NEW size \in Nat,
           Passes(t, length, size), s_userClbk' = s_userClbk
    PROVE  StdoutTypeOK'
<1>1. CASE UNCHANGED <<flag, clbk>>
  BY <1>1 DEF StdoutTypeOK
<1>2. CASE /\ flag' = [flag EXCEPT ![t] = TRUE]
           /\ clbk' = [clbk EXCEPT ![t] = Append(@, [length |-> length, size |-> size])]
  <2>1. Append(clbk[t], [length |-> length, size |-> size]) \in Seq([length: Nat, size: Nat])
    BY DEF StdoutTypeOK
  <2> QED
    BY <1>2, <2>1 DEF StdoutTypeOK
<1> QED
  BY <1>1, <1>2 DEF Passes

LEMMA StdoutTypes ==
    ASSUME TypeOK, StdoutNext, UNCHANGED hook PROVE TypeOK'
<1> USE TypeParts
<1>0. PICK t \in Thread :
         \/ StdoutInitializer(t) \/ StdoutReplaces(t) \/ StdoutClean(t)
         \/ SetsClbk(t) \/ FWriteStatic(t) \/ Stdio01Static(t) \/ ClbkReturns(t)
  BY DEF StdoutNext
<1>1. PointersType' /\ SettingType' /\ OriginType'
  BY DEF PointersType, SettingType, OriginType, hook
<1>2. ASSUME UNCHANGED <<imports, thread, handlers>>, ProgramType', StdoutTypeOK' PROVE TypeOK'
  BY <1>1, <1>2 DEF ImportsType, TodoType, HandlersType, imports, thread
<1>3. StdName \in SUBSET Name
  BY DEF Name
<1>4. CASE StdoutInitializer(t)
  <2>1. ImportsType' /\ HandlersType'
    BY <1>4 DEF StdoutInitializer, BeginsInitializer, ImportsType, HandlersType, imports
  <2>2. ProgramType'
    BY <1>4 DEF StdoutInitializer, BeginsInitializer, ProgramType
  <2>3. StdoutTypeOK'
    BY <1>4 DEF StdoutInitializer, StdoutTypeOK, stdout
  <2>4. TodoType'
    BY <1>4, WalkTypes DEF StdoutInitializer, TodoType, thread
  <2> QED
    BY <1>1, <2>1, <2>2, <2>3, <2>4
<1>5. CASE StdoutReplaces(t)
  <2>1. ProgramType' /\ StdoutTypeOK'
    BY <1>5 DEF StdoutReplaces, ProgramType, StdoutTypeOK, stdout
  <2>2. CASE Visit(t, StdName, TRUE) /\ UNCHANGED handlers
    BY <1>1, <1>3, <2>1, <2>2, VisitTypes DEF HandlersType
  <2>3. CASE handlers' = Append(handlers, "stdout") /\ Goto(t, "idle") /\ UNCHANGED imports
    BY <1>1, <2>1, <2>3, WalkTypes, AppendToHandlers DEF ImportsType, imports
  <2> QED
    BY <1>5, <2>2, <2>3 DEF StdoutReplaces
<1>6. CASE StdoutClean(t)
  <2>1. StdoutTypeOK'
    BY <1>6 DEF StdoutClean, StdoutTypeOK, stdout
  <2>2. CASE RunsHandler(t, "stdout", "unwalk_stdout")
    <3>1. HandlersType' /\ TodoType'
      BY <2>2, FrontOfHandlers, WalkTypes DEF RunsHandler
    <3>2. ImportsType' /\ ProgramType'
      BY <2>2 DEF RunsHandler, ImportsType, ProgramType, imports
    <3> QED
      BY <1>1, <2>1, <3>1, <3>2
  <2>3. CASE Visit(t, StdName, FALSE) /\ UNCHANGED program
    BY <1>1, <1>3, <2>1, <2>3, VisitTypes DEF HandlersType, ProgramType, program
  <2>4. CASE Goto(t, "idle") /\ UNCHANGED <<imports, program>>
    <3>1. TodoType'
      BY <2>4, WalkTypes
    <3>2. ImportsType' /\ HandlersType' /\ ProgramType'
      BY <2>4 DEF ImportsType, HandlersType, ProgramType, imports, program
    <3> QED
      BY <1>1, <2>1, <3>1, <3>2
  <2> QED
    BY <1>6, <2>2, <2>3, <2>4 DEF StdoutClean
<1>7. CASE SetsClbk(t)
  BY <1>2, <1>7 DEF SetsClbk, ProgramType, StdoutTypeOK, program
<1>8. CASE FWriteStatic(t)
  BY <1>2, <1>8, PassesTypes DEF FWriteStatic, ProgramType, program
<1>9. CASE Stdio01Static(t)
  <2>1. PICK length \in TextLength :
           \/ Passes(t, length, Counted(length))
           \/ Passes(t, length, Counted(-1))
           \/ UNCHANGED <<flag, clbk>>
    BY <1>9 DEF Stdio01Static
  <2>2. length \in Nat /\ Counted(length) \in Nat /\ Counted(-1) \in Nat
    BY StdoutWindowsAssumption DEF StdoutWindowsAssumption, Counted
  <2>3. s_userClbk' = s_userClbk
    BY <1>9 DEF Stdio01Static
  <2>4. StdoutTypeOK'
    <3>1. CASE UNCHANGED <<flag, clbk>>
      BY <2>3, <3>1 DEF StdoutTypeOK
    <3> QED
      BY <2>1, <2>2, <2>3, <3>1, PassesTypes
  <2>5. ProgramType' /\ UNCHANGED <<imports, thread, handlers>>
    BY <1>9 DEF Stdio01Static, ProgramType
  <2> QED
    BY <1>2, <2>4, <2>5
<1>10. CASE ClbkReturns(t)
  <2>1. clbk[t] \in Seq([length: Nat, size: Nat]) /\ clbk[t] # << >>
    BY <1>10 DEF ClbkReturns, StdoutTypeOK
  <2>2. Front(clbk[t]) \in Seq([length: Nat, size: Nat])
    BY <2>1, FrontType
  <2>3. StdoutTypeOK'
    BY <1>10, <2>2 DEF ClbkReturns, StdoutTypeOK
  <2> QED
    BY <1>2, <1>10, <2>3 DEF ClbkReturns, ProgramType, program
<1> QED
  BY <1>0, <1>4, <1>5, <1>6, <1>7, <1>8, <1>9, <1>10

LEMMA TypeKeeps == TypeOK /\ Shape /\ [Next]_vars => TypeOK'
<1> SUFFICES ASSUME TypeOK, Shape, [Next]_vars PROVE TypeOK'
  OBVIOUS
<1>1. CASE HookNext /\ UNCHANGED stdout
  BY <1>1, HookTypes
<1>2. CASE StdoutNext /\ UNCHANGED hook
  BY <1>2, StdoutTypes
<1>3. CASE (ExitCall \/ Ends) /\ UNCHANGED <<hook, stdout>>
  <2>1. ImportsType' /\ TodoType' /\ HandlersType'
    BY <1>3, TypeParts DEF ExitCall, Ends, ImportsType, TodoType, HandlersType, imports, thread
  <2>2. ProgramType'
    BY <1>3, TypeParts DEF ExitCall, Ends, ProgramType
  <2>3. StdoutTypeOK' /\ PointersType' /\ SettingType' /\ OriginType'
    BY <1>3, TypeParts DEF StdoutTypeOK, PointersType, SettingType, OriginType, hook, stdout
  <2> QED
    BY <2>1, <2>2, <2>3, TypeParts
<1>4. CASE UNCHANGED vars
  <2>1. ImportsType' /\ TodoType' /\ HandlersType' /\ ProgramType'
    BY <1>4, TypeParts DEF vars, ImportsType, TodoType, HandlersType, ProgramType, imports, thread,
       program
  <2>2. StdoutTypeOK' /\ PointersType' /\ SettingType' /\ OriginType'
    BY <1>4, TypeParts DEF vars, StdoutTypeOK, PointersType, SettingType, OriginType, hook, stdout
  <2> QED
    BY <2>1, <2>2, TypeParts
<1> QED
  BY <1>1, <1>2, <1>3, <1>4 DEF Next, Halted

\* Every variable of the Windows build keeps its type
\* (CInternalReplaceFunctions*, LoadLibrary*, the initializers and the exit handlers).
THEOREM TypesHold == Spec => []TypeOK
<1>1. HookInv => Shape
  BY DEF HookInv
<1> QED
  BY <1>1, InitTypes, TypeKeeps, HookInvariant, PTL DEF Spec

-----------------------------------------------------------------------------
(* The inductive invariant of the imports.                                 *)

StdWalking == {"walk_stdout", "unwalk_stdout"}

Registered(handler) == \E i \in DOMAIN handlers : handlers[i] = handler

\* A module is visited, and its imports are replaced, only once it is loaded.
Loads ==
    /\ \A m \in Module \ loaded : replaced[m] = {} /\ origin[m] = "absent"
    /\ \A t \in Thread : todo[t] \subseteq loaded

\* The exit handlers belong to Main; what has been begun has a handler.
Exits ==
    /\ \A t \in Thread : pc[t] \in StdWalking \cup Unwalking => t = Main
    /\ \A t \in Thread : pc[t] \in Unwalking => exiting
    /\ process = "exited" => handlers = << >>
    /\ s_nIsInited => Registered("hook") \/ pc[Main] \in Unwalking

\* The imports of the stdout investigation are replaced and put back by Main.
StdImports ==
    /\ ~Registered("stdout") /\ pc[Main] \notin StdWalking =>
          \A m \in Module : replaced[m] \cap StdName = {}
    /\ pc[Main] = "unwalk_stdout" =>
          \A m \in Module \ todo[Main] : replaced[m] \cap StdName = {}

\* What the walks replace with, and when somebody walks.
Library ==
    /\ s_c_lib \in {NULL, "function"} /\ s_loadlib = s_c_lib
    /\ s_nIsInited => s_c_lib # NULL
    /\ \A t \in Thread : pc[t] \in Initializing =>
          /\ ~s_nIsInited /\ s_c_lib # NULL
          /\ \A u \in Thread : pc[u] \in Initializing => t = u
    /\ \A t \in Thread : pc[t] \in Unwalking => s_nIsInited
    /\ \A t \in Thread : pc[t] = "loaded" => s_c_lib # NULL
    /\ ~exiting /\ s_c_lib # NULL => s_nIsInited \/ \E t \in Thread : pc[t] \in Initializing

\* The exit handler leaves no import replaced: those it has visited.
PutBack ==
    /\ ~s_nIsInited /\ (\A t \in Thread : pc[t] \notin Initializing) =>
          \A m \in Module : replaced[m] \cap Hooks = {}
    /\ pc[Main] = "unwalk_load" =>
          \A m \in Module \ todo[Main] : replaced[m] \cap LoadName = {}
    /\ pc[Main] = "unwalk_alloc" =>
          /\ \A m \in Module : replaced[m] \cap LoadName = {}
          /\ \A m \in Module \ todo[Main] : replaced[m] \cap AllocName = {}

\* The allocation functions are replaced in m by now, if m was there at the start;
\* LoadLibrary.
AllocDue(m) == \/ s_nIsInited
               \/ \E t \in Thread : \/ pc[t] \in {"walk_load", "register"}
                                    \/ pc[t] = "walk_alloc" /\ m \notin todo[t]
LoadDue(m) == \/ s_nIsInited
              \/ \E t \in Thread : \/ pc[t] = "register"
                                   \/ pc[t] = "walk_load" /\ m \notin todo[t]

\* Before exit: how each module came to be loaded says what is replaced in it, now
\* or when the walk or the call under way gets to it.
Follows ==
    /\ s_c_lib = NULL => \A m \in loaded : origin[m] = "start"
    /\ \A t \in Thread : pc[t] = "walk_alloc" => \A m \in todo[t] : origin[m] = "start"
    /\ \A t \in Thread : pc[t] = "loaded" => \A m \in todo[t] : origin[m] \in {"start", "direct"}
    /\ \A m \in loaded :
          /\ origin[m] = "start" /\ AllocDue(m) => AllocName \subseteq replaced[m]
          /\ origin[m] = "start" /\ LoadDue(m) => LoadName \subseteq replaced[m]
          /\ origin[m] = "direct" => \/ AllocName \subseteq replaced[m]
                                     \/ \E t \in Thread : pc[t] = "loaded" /\ m \in todo[t]
          /\ origin[m] = "other" => AllocName \cap replaced[m] = {}

Punctual == disorder \cap {"overlap", "exit"} = {}

OrderedInv ==
    /\ Punctual => Library /\ PutBack
    /\ Punctual /\ ~exiting => Follows

ImportInv ==
    /\ Shape /\ Loads /\ Exits /\ StdImports
    /\ OrderedInv

-----------------------------------------------------------------------------
(* The parts of a step.                                                    *)

Others(t) == \A u \in Thread \ {t} : pc'[u] = pc[u] /\ todo'[u] = todo[u]

\* One of the modules that t has yet to visit is visited.
Visited(t, names, present) ==
    /\ pc' = pc /\ loaded' = loaded /\ Others(t)
    /\ \E m \in todo[t] :
          /\ todo'[t] = todo[t] \ {m}
          /\ replaced'[m] = IF present THEN replaced[m] \cup names ELSE replaced[m] \ names
          /\ \A d \in Module \ {m} : replaced'[d] = replaced[d]

LEMMA WalkFacts ==
    ASSUME Shape, NEW t \in Thread, NEW loc, Walk(t, loc)
    PROVE  pc'[t] = loc /\ todo'[t] = loaded /\ Others(t)
BY DEF Shape, Walk, Others

LEMMA GotoFacts ==
    ASSUME Shape, NEW t \in Thread, NEW loc, Goto(t, loc)
    PROVE  pc'[t] = loc /\ todo' = todo /\ Others(t)
BY DEF Shape, Goto, Others

LEMMA VisitFacts ==
    ASSUME Shape, NEW t \in Thread, NEW names, NEW present \in BOOLEAN, Visit(t, names, present)
    PROVE  Visited(t, names, present)
<1> DEFINE m == CHOOSE d \in todo[t] : TRUE
<1>1. m \in todo[t] /\ m \in Module
  BY DEF Visit, Shape
<1>2. /\ todo' = [todo EXCEPT ![t] = @ \ {m}]
      /\ replaced' = [replaced EXCEPT ![m] = IF present THEN @ \cup names ELSE @ \ names]
      /\ UNCHANGED <<loaded, pc>>
  BY DEF Visit
<1> HIDE DEF m
<1>3. Others(t) /\ todo'[t] = todo[t] \ {m}
  BY <1>2 DEF Shape, Others
<1>4. replaced'[m] = IF present THEN replaced[m] \cup names ELSE replaced[m] \ names
  BY <1>1, <1>2 DEF Shape
<1>5. \A d \in Module \ {m} : replaced'[d] = replaced[d]
  BY <1>2 DEF Shape
<1> QED
  BY <1>1, <1>2, <1>3, <1>4, <1>5 DEF Visited

\* No handler is forgotten.
LEMMA HandlersStay ==
    ASSUME TypeOK, NEW handler \in {"hook", "stdout"},
           \/ handlers' = handlers
           \/ handlers' = Append(handlers, handler)
           \/ handlers # << >> /\ Last(handlers) = handler /\ handlers' = Front(handlers)
    PROVE  /\ \A h \in {"hook", "stdout"} \ {handler} : Registered(h) => Registered(h)'
           /\ handlers' = handlers => (Registered(handler) => Registered(handler)')
           /\ handlers' = Append(handlers, handler) => Registered(handler)'
<1>1. HandlersType
  BY TypeParts
<1>2. CASE handlers' = handlers
  BY <1>2 DEF Registered
<1>3. CASE handlers' = Append(handlers, handler)
  BY <1>1, <1>3, AppendToHandlers DEF Registered
<1>4. CASE handlers # << >> /\ Last(handlers) = handler /\ handlers' = Front(handlers)
  <2>1. /\ \A i \in DOMAIN handlers : handlers[i] = handler \/ i \in DOMAIN handlers'
        /\ \A i \in DOMAIN handlers' : handlers'[i] = handlers[i]
    BY <1>1, <1>4, FrontOfHandlers
  <2>2. handlers' # handlers /\ handlers' # Append(handlers, handler)
    BY <1>1, <1>4 DEF Front, HandlersType
  <2> QED
    BY <2>1, <2>2 DEF Registered
<1> QED
  BY <1>2, <1>3, <1>4

-----------------------------------------------------------------------------
(* What the two parts of the library leave alone of each other.            *)

LEMMA HookStepKeepsStdout ==
    ASSUME StdImports, Registered("stdout") => Registered("stdout")',
           pc'[Main] = pc[Main] \/ {pc[Main], pc'[Main]} \cap StdWalking = {},
           pc[Main] = "unwalk_stdout" => todo'[Main] = todo[Main],
           \A m \in Module : replaced'[m] \cap StdName = replaced[m] \cap StdName
    PROVE  StdImports'
<1>1. pc'[Main] \in StdWalking <=> pc[Main] \in StdWalking
  OBVIOUS
<1>2. pc'[Main] = "unwalk_stdout" => pc[Main] = "unwalk_stdout" /\ todo'[Main] = todo[Main]
  BY DEF StdWalking
<1> QED
  BY <1>1, <1>2 DEF StdImports

LEMMA StdoutStepKeepsHooks ==
    ASSUME OrderedInv,
           \A u \in Thread : pc'[u] = pc[u] \/ {pc[u], pc'[u]} \subseteq {"idle"} \cup StdWalking,
           \A u \in Thread : pc[u] \notin {"idle"} \cup StdWalking => todo'[u] = todo[u],
           \A m \in Module : replaced'[m] \cap Hooks = replaced[m] \cap Hooks,
           UNCHANGED <<loaded, origin, s_c_lib, s_loadlib, s_nIsInited>>, loaded \subseteq Module,
           disorder \subseteq disorder', exiting => exiting'
    PROVE  OrderedInv'
<1> USE DEF StdWalking, Initializing, Unwalking
<1>1. Punctual' => Punctual
  BY DEF Punctual
<1>2. \A u \in Thread, loc \in {"loaded"} \cup Initializing \cup Unwalking :
         pc'[u] = loc <=> pc[u] = loc
  OBVIOUS
<1>3. \A u \in Thread : pc'[u] \in {"loaded"} \cup Initializing \cup Unwalking => todo'[u] = todo[u]
  OBVIOUS
<1>4. \A m \in Module : /\ replaced'[m] \cap AllocName = replaced[m] \cap AllocName
                        /\ replaced'[m] \cap LoadName = replaced[m] \cap LoadName
  BY DEF Hooks
<1>5. ASSUME Library PROVE Library'
  BY <1>2, <1>5 DEF Library
<1>6. ASSUME PutBack PROVE PutBack'
  BY <1>2, <1>3, <1>4, <1>6, ImportAssumption DEF PutBack, ImportAssumption
<1>7. ASSUME Follows PROVE Follows'
  <2>1. \A m \in loaded : (AllocDue(m)' => AllocDue(m)) /\ (LoadDue(m)' => LoadDue(m))
    BY <1>2, <1>3 DEF AllocDue, LoadDue
  <2>2. \A m \in loaded : /\ AllocName \subseteq replaced[m] => AllocName \subseteq replaced'[m]
                          /\ LoadName \subseteq replaced[m] => LoadName \subseteq replaced'[m]
                          /\ AllocName \cap replaced[m] = {} => AllocName \cap replaced'[m] = {}
    BY <1>4
  <2> QED
    BY <1>2, <1>3, <1>7, <2>1, <2>2 DEF Follows
<1> QED
  BY <1>1, <1>5, <1>6, <1>7 DEF OrderedInv

-----------------------------------------------------------------------------
(* Every step keeps the invariant.                                         *)

\* A step of the program that neither loads a module nor begins to walk.
LEMMA StillKeeps ==
    ASSUME ImportInv,
           UNCHANGED <<loaded, replaced, origin, pc, todo, s_c_lib, s_loadlib, s_nIsInited>>,
           Shape', disorder \subseteq disorder', exiting => exiting',
           Registered("stdout") => Registered("stdout")',
           s_nIsInited /\ Registered("hook") => Registered("hook")',
           process' = "exited" => handlers' = << >>
    PROVE  ImportInv'
<1>1. Loads'
  BY DEF ImportInv, Loads
<1>2. Exits'
  BY DEF ImportInv, Exits
<1>3. StdImports'
  BY HookStepKeepsStdout DEF ImportInv
<1>4. OrderedInv'
  BY StdoutStepKeepsHooks DEF ImportInv, Shape
<1> QED
  BY <1>1, <1>2, <1>3, <1>4 DEF ImportInv

LEMMA StdoutInitializerImports ==
    ASSUME ImportInv, Shape', NEW t \in Thread, StdoutInitializer(t), UNCHANGED hook
    PROVE  ImportInv'
<1>1. /\ pc[t] = "idle" /\ t = Main /\ process' = "running" /\ handlers' = handlers
      /\ UNCHANGED <<loaded, replaced, origin, s_c_lib, s_loadlib, s_nIsInited, disorder>>
      /\ \/ Walk(t, "walk_stdout") /\ exiting' = exiting
         \/ UNCHANGED <<pc, todo>> /\ exiting' = TRUE
  BY DEF StdoutInitializer, BeginsInitializer, Acting, At, imports, thread, hook
<1>2. \A h : Registered(h)' <=> Registered(h)
  BY <1>1 DEF Registered
<1>3. CASE UNCHANGED <<pc, todo>> /\ exiting' = TRUE
  BY <1>1, <1>2, <1>3, StillKeeps
<1>4. CASE Walk(t, "walk_stdout") /\ exiting' = exiting
  <2>1. pc'[t] = "walk_stdout" /\ todo'[t] = loaded /\ Others(t)
    BY <1>4, WalkFacts DEF ImportInv
  <2>2. Loads'
    BY <1>1, <2>1 DEF ImportInv, Loads, Others
  <2>3. Exits'
    BY <1>1, <1>2, <1>4, <2>1 DEF ImportInv, Exits, Others, StdWalking, Unwalking
  <2>4. StdImports'
    BY <1>1, <1>2, <2>1 DEF ImportInv, StdImports, StdWalking
  <2>5. OrderedInv'
    BY <1>1, <1>4, <2>1, StdoutStepKeepsHooks DEF ImportInv, Shape, Others, StdWalking
  <2> QED
    BY <2>2, <2>3, <2>4, <2>5 DEF ImportInv
<1> QED
  BY <1>1, <1>3, <1>4

\* A module is visited for the stdout investigation.
LEMMA StdoutVisitImports ==
    ASSUME ImportInv, Shape', NEW t \in Thread, pc[t] \in StdWalking, process' = "running",
           NEW present \in BOOLEAN, present <=> pc[t] = "walk_stdout",
           Visit(t, StdName, present), UNCHANGED <<hook, handlers, exiting>>
    PROVE  ImportInv'
<1>0. Visited(t, StdName, present)
  BY VisitFacts DEF ImportInv
<1>1. /\ pc' = pc /\ loaded' = loaded /\ Others(t)
      /\ UNCHANGED <<origin, s_c_lib, s_loadlib, s_nIsInited, disorder>>
  BY <1>0 DEF Visited, hook
<1>2. PICK m \in todo[t] :
         /\ todo'[t] = todo[t] \ {m}
         /\ replaced'[m] = IF present THEN replaced[m] \cup StdName ELSE replaced[m] \ StdName
         /\ \A d \in Module \ {m} : replaced'[d] = replaced[d]
  BY <1>0 DEF Visited
<1>3. \A h : Registered(h)' <=> Registered(h)
  BY DEF Registered
<1>4. t = Main
  BY DEF ImportInv, Exits
<1>5. m \in loaded /\ \A d \in Module \ {m} : replaced'[d] = replaced[d]
  BY <1>2 DEF ImportInv, Loads
<1>6. Loads'
  BY <1>1, <1>2, <1>5 DEF ImportInv, Loads, Others
<1>7. Exits'
  BY <1>1, <1>3 DEF ImportInv, Exits
<1>8. StdImports'
  BY <1>1, <1>2, <1>3, <1>4 DEF ImportInv, StdImports, StdWalking
<1>9. \A d \in Module : replaced'[d] \cap Hooks = replaced[d] \cap Hooks
  <2>1. replaced'[m] \cap Hooks = replaced[m] \cap Hooks
    BY <1>2, ImportAssumption DEF ImportAssumption, Hooks
  <2> QED
    BY <1>2, <2>1
<1>10. OrderedInv'
  BY <1>1, <1>9, StdoutStepKeepsHooks DEF ImportInv, Shape, Others
<1> QED
  BY <1>6, <1>7, <1>8, <1>10 DEF ImportInv

LEMMA StdoutReplacesImports ==
    ASSUME TypeOK, ImportInv, Shape', NEW t \in Thread, StdoutReplaces(t), UNCHANGED hook
    PROVE  ImportInv'
<1>1. /\ pc[t] = "walk_stdout" /\ process' = "running" /\ exiting' = exiting
      /\ \/ Visit(t, StdName, TRUE) /\ UNCHANGED handlers
         \/ /\ handlers' = Append(handlers, "stdout")
            /\ Goto(t, "idle")
            /\ UNCHANGED imports
  BY DEF StdoutReplaces, At
<1>2. CASE Visit(t, StdName, TRUE) /\ UNCHANGED handlers
  BY <1>1, <1>2, StdoutVisitImports DEF StdWalking
<1>3. CASE /\ handlers' = Append(handlers, "stdout")
           /\ Goto(t, "idle")
           /\ UNCHANGED imports
  <2>1. pc'[t] = "idle" /\ todo' = todo /\ Others(t)
    BY <1>3, GotoFacts DEF ImportInv
  <2>2. UNCHANGED <<loaded, replaced, origin, s_c_lib, s_loadlib, s_nIsInited, disorder>>
    BY <1>3 DEF imports, hook
  <2>3. Registered("stdout")' /\ (Registered("hook") => Registered("hook")')
    BY <1>3, HandlersStay
  <2>4. t = Main
    BY <1>1 DEF ImportInv, Exits, StdWalking
  <2>5. Loads'
    BY <2>1, <2>2 DEF ImportInv, Loads
  <2>6. Exits'
    BY <1>1, <2>1, <2>2, <2>3, <2>4 DEF ImportInv, Exits, Others, StdWalking, Unwalking
  <2>7. StdImports'
    BY <2>1, <2>3, <2>4 DEF StdImports
  <2>8. OrderedInv'
    BY <1>1, <2>1, <2>2, StdoutStepKeepsHooks DEF ImportInv, Shape, Others, StdWalking
  <2> QED
    BY <2>5, <2>6, <2>7, <2>8 DEF ImportInv
<1> QED
  BY <1>1, <1>2, <1>3

LEMMA StdoutCleanImports ==
    ASSUME TypeOK, ImportInv, Shape', NEW t \in Thread, StdoutClean(t), UNCHANGED hook
    PROVE  ImportInv'
<1>1. UNCHANGED <<origin, s_c_lib, s_loadlib, s_nIsInited, disorder>>
  BY DEF hook
<1>2. CASE RunsHandler(t, "stdout", "unwalk_stdout")
  <2>1. /\ pc[t] = "idle" /\ t = Main /\ process' = "running" /\ exiting' = exiting
        /\ handlers # << >> /\ Last(handlers) = "stdout" /\ handlers' = Front(handlers)
        /\ Walk(t, "unwalk_stdout") /\ UNCHANGED <<loaded, replaced>>
    BY <1>2 DEF RunsHandler, At, imports
  <2>2. pc'[t] = "unwalk_stdout" /\ todo'[t] = loaded /\ Others(t)
    BY <2>1, WalkFacts DEF ImportInv
  <2>3. Registered("hook") => Registered("hook")'
    BY <2>1, HandlersStay
  <2>4. Loads'
    BY <1>1, <2>1, <2>2 DEF ImportInv, Loads, Others
  <2>5. Exits'
    BY <1>1, <2>1, <2>2, <2>3 DEF ImportInv, Exits, Others, StdWalking, Unwalking
  <2>6. StdImports'
    BY <2>1, <2>2 DEF ImportInv, Loads, StdImports, StdWalking
  <2>7. OrderedInv'
    BY <1>1, <2>1, <2>2, StdoutStepKeepsHooks DEF ImportInv, Shape, Others, StdWalking
  <2> QED
    BY <2>4, <2>5, <2>6, <2>7 DEF ImportInv
<1>3. CASE /\ At(t, "unwalk_stdout") /\ UNCHANGED program
           /\ Visit(t, StdName, FALSE)
  BY <1>3, StdoutVisitImports DEF At, StdWalking, program
<1>4. CASE /\ At(t, "unwalk_stdout") /\ UNCHANGED program
           /\ todo[t] = {} /\ Goto(t, "idle") /\ UNCHANGED imports
  <2>1. /\ pc[t] = "unwalk_stdout" /\ process' = "running" /\ exiting' = exiting
        /\ handlers' = handlers /\ UNCHANGED <<loaded, replaced>>
    BY <1>4 DEF At, program, imports
  <2>2. pc'[t] = "idle" /\ todo' = todo /\ Others(t)
    BY <1>4, GotoFacts DEF ImportInv
  <2>3. \A h : Registered(h)' <=> Registered(h)
    BY <2>1 DEF Registered
  <2>4. t = Main
    BY <2>1 DEF ImportInv, Exits, StdWalking
  <2>5. Loads'
    BY <1>1, <2>1, <2>2 DEF ImportInv, Loads
  <2>6. Exits'
    BY <1>1, <2>1, <2>2, <2>3, <2>4 DEF ImportInv, Exits, Others, StdWalking, Unwalking
  <2>7. StdImports'
    BY <1>4, <2>1, <2>2, <2>4 DEF ImportInv, StdImports
  <2>8. OrderedInv'
    BY <1>1, <2>1, <2>2, StdoutStepKeepsHooks DEF ImportInv, Shape, Others, StdWalking
  <2> QED
    BY <2>5, <2>6, <2>7, <2>8 DEF ImportInv
<1> QED
  BY <1>2, <1>3, <1>4 DEF StdoutClean

\* The initialization begins.
LEMMA BeginsImports ==
    ASSUME ImportInv, Shape', NEW t \in Thread, pc[t] = "idle", Initializes(t),
           process' = "running",
           UNCHANGED <<loaded, replaced, origin, handlers, exiting, s_nIsInited>>
    PROVE  ImportInv'
<1>1. /\ ~s_nIsInited
      /\ s_c_lib' = Imported(AllocName) /\ s_loadlib' = Imported(LoadName)
      /\ disorder' = IF \E u \in Thread : pc[u] \in Initializing
                     THEN disorder \cup {"overlap"} ELSE disorder
      /\ Walk(t, "walk_alloc")
  BY DEF Initializes, Assigns
<1>2. pc'[t] = "walk_alloc" /\ todo'[t] = loaded /\ Others(t)
  BY <1>1, WalkFacts DEF ImportInv
<1>3. \A h : Registered(h)' <=> Registered(h)
  BY DEF Registered
<1>4. Loads'
  BY <1>2 DEF ImportInv, Loads, Others
<1>5. Exits'
  BY <1>1, <1>2 DEF ImportInv, Exits, Others, StdWalking, Unwalking
<1>6. StdImports'
  <2>1. /\ pc'[Main] = pc[Main] \/ {pc[Main], pc'[Main]} \cap StdWalking = {}
        /\ pc[Main] = "unwalk_stdout" => todo'[Main] = todo[Main]
    BY <1>2, ImportAssumption DEF ImportAssumption, Others, StdWalking
  <2> QED
    BY <1>3, <2>1, HookStepKeepsStdout DEF ImportInv
<1>7. ASSUME Punctual' PROVE /\ Punctual /\ Library /\ PutBack
                            /\ \A u \in Thread : pc[u] \notin Initializing \cup Unwalking
                            /\ s_c_lib' = "function" /\ s_loadlib' = "function"
  <2>1. Punctual /\ \A u \in Thread : pc[u] \notin Initializing
    BY <1>1, <1>7 DEF Punctual
  <2>2. Library /\ PutBack
    BY <2>1 DEF ImportInv, OrderedInv
  <2>3. \A u \in Thread : pc[u] \notin Unwalking
    BY <1>1, <2>2 DEF Library
  <2>4. replaced[Self] \cap Hooks = {}
    BY <1>1, <2>1, <2>2, ImportAssumption DEF PutBack, ImportAssumption
  <2> QED
    BY <1>1, <2>1, <2>2, <2>3, <2>4 DEF Imported, Hooks
<1>8. \A u \in Thread \ {t} : pc'[u] = pc[u] /\ todo'[u] = todo[u]
  BY <1>2 DEF Others
<1>9. ASSUME Punctual' PROVE (Library /\ PutBack)'
  <2>1. \A u \in Thread : pc'[u] \in Initializing <=> u = t
    BY <1>2, <1>7, <1>8, <1>9 DEF Initializing
  <2>2. \A u \in Thread : pc'[u] \notin Unwalking
    BY <1>2, <1>7, <1>8, <1>9 DEF Unwalking
  <2>3. Library'
    BY <1>1, <1>7, <1>9, <2>1, <2>2, HookAssumption DEF Library, HookAssumption
  <2>4. PutBack'
    BY <2>1, <2>2, ImportAssumption DEF PutBack, Unwalking, ImportAssumption
  <2> QED
    BY <2>3, <2>4
<1>10. ASSUME Punctual', ~exiting' PROVE Follows'
  <2>1. Library /\ PutBack /\ Follows /\ \A u \in Thread : pc[u] \notin Initializing
    BY <1>7, <1>10 DEF ImportInv, OrderedInv
  <2>2. s_c_lib = NULL /\ \A m \in loaded : origin[m] = "start"
    BY <1>1, <1>10, <2>1 DEF Library, Follows
  <2>3. s_c_lib' # NULL
    BY <1>7, <1>10, HookAssumption DEF HookAssumption
  <2>4. \A m \in loaded : ~AllocDue(m)' /\ ~LoadDue(m)'
    BY <1>1, <1>2, <1>8, <2>1 DEF AllocDue, LoadDue, Initializing
  <2>5. \A u \in Thread : pc[u] # "loaded"
    BY <2>1, <2>2 DEF Library
  <2> QED
    BY <1>2, <1>8, <2>1, <2>2, <2>3, <2>4, <2>5 DEF Follows, Initializing
<1> QED
  BY <1>4, <1>5, <1>6, <1>9, <1>10 DEF ImportInv, OrderedInv

LEMMA RunsInitializerImports ==
    ASSUME ImportInv, Shape', NEW t \in Thread, RunsInitializer(t) PROVE ImportInv'
<1>1. /\ pc[t] = "idle" /\ process' = "running"
      /\ UNCHANGED <<loaded, replaced, origin, handlers, exiting, s_nIsInited>>
      /\ Initializes(t) \/ UNCHANGED <<begun, s_c_lib, s_loadlib, g, disorder, thread>>
  BY DEF RunsInitializer, BeginsInitializer, Acting, At, imports
<1>2. CASE Initializes(t)
  BY <1>1, <1>2, BeginsImports
<1>3. CASE UNCHANGED <<begun, s_c_lib, s_loadlib, g, disorder, thread>>
  <2>1. \A h : Registered(h)' <=> Registered(h)
    BY <1>1 DEF Registered
  <2> QED
    BY <1>1, <1>3, <2>1, StillKeeps DEF thread
<1> QED
  BY <1>1, <1>2, <1>3

LEMMA SetsImports ==
    ASSUME ImportInv, Shape', NEW t \in Thread, Sets(t) PROVE ImportInv'
<1>1. /\ pc[t] = "idle" /\ process' = "running"
      /\ UNCHANGED <<loaded, replaced, origin, handlers, exiting, s_nIsInited>>
      /\ \/ Initializes(t)
         \/ UNCHANGED <<thread, s_c_lib, s_loadlib>> /\ disorder \subseteq disorder'
  BY DEF Sets, Stores, At, imports, program
<1>2. CASE Initializes(t)
  BY <1>1, <1>2, BeginsImports
<1>3. CASE UNCHANGED <<thread, s_c_lib, s_loadlib>> /\ disorder \subseteq disorder'
  <2>1. \A h : Registered(h)' <=> Registered(h)
    BY <1>1 DEF Registered
  <2> QED
    BY <1>1, <1>3, <2>1, StillKeeps DEF thread
<1> QED
  BY <1>1, <1>2, <1>3

\* A visit of the initialization.
LEMMA ReplacingVisitImports ==
    ASSUME ImportInv, Shape', NEW t \in Thread, pc[t] \in {"walk_alloc", "walk_load"},
           process = "running",
           LET names == IF pc[t] = "walk_alloc"
                        THEN IF s_c_lib = "function" THEN AllocName ELSE {}
                        ELSE IF s_loadlib = "function" THEN LoadName ELSE {}
           IN  Visit(t, names, TRUE),
           UNCHANGED <<program, hook>>
    PROVE  ImportInv'
<1> DEFINE names == IF pc[t] = "walk_alloc"
                    THEN IF s_c_lib = "function" THEN AllocName ELSE {}
                    ELSE IF s_loadlib = "function" THEN LoadName ELSE {}
<1>0. Visited(t, names, TRUE)
  BY VisitFacts DEF ImportInv
<1>1. names \subseteq Hooks
  BY DEF Hooks
<1>2. Library => \/ pc[t] = "walk_alloc" /\ names = AllocName
                 \/ pc[t] = "walk_load" /\ names = LoadName
  <2>1. Library => s_c_lib = "function" /\ s_loadlib = "function"
    BY DEF Library, Initializing
  <2> QED
    BY <2>1
<1> HIDE DEF names
<1>3. /\ pc' = pc /\ loaded' = loaded /\ Others(t)
      /\ UNCHANGED <<origin, s_c_lib, s_loadlib, s_nIsInited, disorder, exiting, handlers, process>>
  BY <1>0 DEF Visited, hook, program
<1>4. PICK m \in todo[t] :
         /\ todo'[t] = todo[t] \ {m}
         /\ replaced'[m] = replaced[m] \cup names
         /\ \A d \in Module \ {m} : replaced'[d] = replaced[d]
  BY <1>0 DEF Visited
<1>5. \A h : Registered(h)' <=> Registered(h)
  BY <1>3 DEF Registered
<1>6. m \in loaded /\ m \in Module
  BY <1>4 DEF ImportInv, Loads, Shape
<1>7. Loads'
  BY <1>3, <1>4, <1>6 DEF ImportInv, Loads, Others
<1>8. Exits'
  BY <1>3, <1>5 DEF ImportInv, Exits
<1>9. StdImports'
  <2>1. replaced'[m] \cap StdName = replaced[m] \cap StdName
    BY <1>1, <1>4, ImportAssumption DEF ImportAssumption, Hooks
  <2>2. \A d \in Module : replaced'[d] \cap StdName = replaced[d] \cap StdName
    BY <1>4, <2>1
  <2>3. pc[Main] = "unwalk_stdout" => todo'[Main] = todo[Main]
    BY <1>3, ImportAssumption DEF Others, ImportAssumption
  <2> QED
    BY <1>3, <1>5, <2>2, <2>3, HookStepKeepsStdout DEF ImportInv
<1>10. ASSUME Punctual' PROVE (Library /\ PutBack)'
  <2>1. Library /\ PutBack
    BY <1>3, <1>10 DEF ImportInv, OrderedInv, Punctual
  <2>2. pc[t] \in Initializing /\ \A u \in Thread : pc[u] \notin Unwalking
    BY <2>1 DEF Library, Initializing
  <2>3. Library'
    BY <1>3, <2>1 DEF Library
  <2>4. PutBack'
    BY <1>3, <2>2, ImportAssumption DEF PutBack, Unwalking, ImportAssumption
  <2> QED
    BY <2>3, <2>4
<1>11. ASSUME Punctual', ~exiting' PROVE Follows'
  <2>1. Library /\ PutBack /\ Follows /\ Punctual
    BY <1>3, <1>11 DEF ImportInv, OrderedInv, Punctual
  <2>2. pc[t] = "walk_alloc" => origin[m] = "start"
    BY <1>4, <2>1 DEF Follows
  <2>3. \A u \in Thread : pc[u] \in Initializing => u = t
    BY <2>1 DEF Library, Initializing
  <2>4. ~s_nIsInited
    BY <2>1 DEF Library, Initializing
  <2>5. \A d \in loaded : replaced[d] \subseteq replaced'[d]
    BY <1>4 DEF ImportInv, Shape
  <2>6. \A d \in loaded \ {m} : (AllocDue(d)' <=> AllocDue(d)) /\ (LoadDue(d)' <=> LoadDue(d))
    BY <1>3, <1>4 DEF AllocDue, LoadDue, Others
  <2>7. CASE pc[t] = "walk_alloc" /\ names = AllocName
    <3>1. \A d \in loaded : ~LoadDue(d)'
      BY <1>3, <2>3, <2>4, <2>7 DEF LoadDue, Initializing
    <3>2. AllocName \subseteq replaced'[m]
      BY <1>4, <2>7
    <3> QED
      BY <1>3, <1>4, <2>1, <2>2, <2>5, <2>6, <2>7, <3>1, <3>2 DEF Follows, Others, ImportInv, Shape
  <2>8. CASE pc[t] = "walk_load" /\ names = LoadName
    <3>1. LoadName \subseteq replaced'[m]
      BY <1>4, <2>8
    <3>2. AllocName \cap replaced'[m] = AllocName \cap replaced[m]
      BY <1>4, <2>8, ImportAssumption DEF ImportAssumption
    <3>3. AllocDue(m)' <=> AllocDue(m)
      BY <1>3, <2>3, <2>8 DEF AllocDue, Initializing
    <3> QED
      BY <1>3, <1>4, <2>1, <2>5, <2>6, <2>8, <3>1, <3>2, <3>3 DEF Follows, Others, ImportInv, Shape
  <2> QED
    BY <1>2, <2>1, <2>7, <2>8
<1> QED
  BY <1>7, <1>8, <1>9, <1>10, <1>11 DEF ImportInv, OrderedInv

\* The initialization goes from one walk to the next, or to its end.
LEMMA TurnsImports ==
    ASSUME ImportInv, Shape', NEW t \in Thread, todo[t] = {}, process' = "running",
           \/ pc[t] = "walk_alloc" /\ Walk(t, "walk_load")
           \/ pc[t] = "walk_load" /\ Goto(t, "register"),
           UNCHANGED <<imports, program, hook>>
    PROVE  ImportInv'
<1>1. UNCHANGED <<loaded, replaced, origin, s_c_lib, s_loadlib, s_nIsInited, disorder, exiting,
                  handlers>>
  BY DEF imports, program, hook
<1>2. /\ \/ pc[t] = "walk_alloc" /\ pc'[t] = "walk_load" /\ todo'[t] = loaded
         \/ pc[t] = "walk_load" /\ pc'[t] = "register" /\ todo'[t] = todo[t]
      /\ \A u \in Thread \ {t} : pc'[u] = pc[u] /\ todo'[u] = todo[u]
  BY WalkFacts, GotoFacts DEF ImportInv, Others
<1>3. \A h : Registered(h)' <=> Registered(h)
  BY <1>1 DEF Registered
<1>4. pc[t] \in Initializing /\ pc'[t] \in Initializing
  BY <1>2 DEF Initializing
<1>5. Loads'
  BY <1>1, <1>2 DEF ImportInv, Loads
<1>6. Exits'
  <2>1. \A u \in Thread : /\ pc'[u] \in StdWalking \cup Unwalking => pc'[u] = pc[u]
                          /\ pc[u] \in Unwalking => pc'[u] = pc[u]
    BY <1>2 DEF StdWalking, Unwalking
  <2> QED
    BY <1>1, <1>3, <2>1, ImportAssumption DEF ImportInv, Exits, ImportAssumption
<1>7. StdImports'
  <2>1. /\ pc'[Main] = pc[Main] \/ {pc[Main], pc'[Main]} \cap StdWalking = {}
        /\ pc[Main] = "unwalk_stdout" => todo'[Main] = todo[Main]
    BY <1>2, ImportAssumption DEF ImportAssumption, StdWalking
  <2> QED
    BY <1>1, <1>3, <2>1, HookStepKeepsStdout DEF ImportInv
<1>8. ASSUME Punctual' PROVE (Library /\ PutBack)'
  <2>1. Library /\ PutBack
    BY <1>1, <1>8 DEF ImportInv, OrderedInv, Punctual
  <2>2. \A u \in Thread : /\ pc'[u] \in Initializing <=> pc[u] \in Initializing
                          /\ pc[u] \notin Unwalking /\ pc'[u] \notin Unwalking
    BY <1>2, <1>4, <2>1 DEF Library, Unwalking
  <2>3. \A u \in Thread : pc'[u] = "loaded" => pc[u] = "loaded"
    BY <1>2
  <2>4. Library'
    BY <1>1, <2>1, <2>2, <2>3 DEF Library
  <2>5. PutBack'
    BY <1>4, <2>2, ImportAssumption DEF PutBack, Unwalking, ImportAssumption
  <2> QED
    BY <2>4, <2>5
<1>9. ASSUME Punctual', ~exiting' PROVE Follows'
  <2>1. Library /\ Follows
    BY <1>1, <1>9 DEF ImportInv, OrderedInv, Punctual
  <2>2. \A u \in Thread : pc[u] \in Initializing => u = t
    BY <1>4, <2>1 DEF Library
  <2>3. \A m \in loaded : (AllocDue(m)' => AllocDue(m)) /\ (LoadDue(m)' => LoadDue(m))
    <3>1. CASE pc[t] = "walk_alloc" /\ pc'[t] = "walk_load" /\ todo'[t] = loaded
      BY <1>1, <1>2, <2>2, <3>1 DEF AllocDue, LoadDue, Initializing
    <3>2. CASE pc[t] = "walk_load" /\ pc'[t] = "register" /\ todo'[t] = todo[t]
      BY <1>1, <1>2, <2>2, <3>2 DEF AllocDue, LoadDue, Initializing
    <3> QED
      BY <1>2, <3>1, <3>2
  <2>4. \A u \in Thread : /\ pc'[u] = "walk_alloc" => pc[u] = "walk_alloc" /\ todo'[u] = todo[u]
                          /\ pc'[u] = "loaded" <=> pc[u] = "loaded"
                          /\ pc'[u] = "loaded" => todo'[u] = todo[u]
    BY <1>2
  <2> QED
    BY <1>1, <2>1, <2>3, <2>4 DEF Follows
<1> QED
  BY <1>5, <1>6, <1>7, <1>8, <1>9 DEF ImportInv, OrderedInv

LEMMA ReplacesImports ==
    ASSUME ImportInv, Shape', NEW t \in Thread, ReplacesAlloc(t) \/ ReplacesLoad(t)
    PROVE  ImportInv'
<1>1. CASE ReplacesAlloc(t)
  <2>1. /\ pc[t] = "walk_alloc" /\ process = "running" /\ UNCHANGED <<program, hook>>
        /\ \/ Visit(t, IF s_c_lib = "function" THEN AllocName ELSE {}, TRUE)
           \/ todo[t] = {} /\ Walk(t, "walk_load") /\ UNCHANGED imports
    BY <1>1 DEF ReplacesAlloc, At
  <2>2. process' = "running"
    BY <2>1 DEF program
  <2>3. CASE Visit(t, IF s_c_lib = "function" THEN AllocName ELSE {}, TRUE)
    BY <2>1, <2>3, ReplacingVisitImports
  <2>4. CASE todo[t] = {} /\ Walk(t, "walk_load") /\ UNCHANGED imports
    BY <2>1, <2>2, <2>4, TurnsImports
  <2> QED
    BY <2>1, <2>3, <2>4
<1>2. CASE ReplacesLoad(t)
  <2>1. /\ pc[t] = "walk_load" /\ process = "running" /\ UNCHANGED <<program, hook>>
        /\ \/ Visit(t, IF s_loadlib = "function" THEN LoadName ELSE {}, TRUE)
           \/ todo[t] = {} /\ Goto(t, "register") /\ UNCHANGED imports
    BY <1>2 DEF ReplacesLoad, At
  <2>2. process' = "running"
    BY <2>1 DEF program
  <2>3. CASE Visit(t, IF s_loadlib = "function" THEN LoadName ELSE {}, TRUE)
    BY <2>1, <2>3, ReplacingVisitImports
  <2>4. CASE todo[t] = {} /\ Goto(t, "register") /\ UNCHANGED imports
    BY <2>1, <2>2, <2>4, TurnsImports
  <2> QED
    BY <2>1, <2>3, <2>4
<1> QED
  BY <1>1, <1>2

LEMMA EndsInitializeImports ==
    ASSUME TypeOK, ImportInv, Shape', NEW t \in Thread, EndsInitialize(t) PROVE ImportInv'
<1>1. /\ pc[t] = "register" /\ process' = "running"
      /\ handlers' = Append(handlers, "hook") /\ s_nIsInited' = TRUE
      /\ Goto(t, "idle")
      /\ UNCHANGED <<loaded, replaced, origin, s_c_lib, s_loadlib, exiting>>
      /\ disorder \subseteq disorder'
  BY DEF EndsInitialize, Stores, At, imports
<1>2. /\ pc'[t] = "idle" /\ todo' = todo
      /\ \A u \in Thread \ {t} : pc'[u] = pc[u]
  BY <1>1, GotoFacts DEF ImportInv, Others
<1>3. Registered("hook")' /\ (Registered("stdout") => Registered("stdout")')
  BY <1>1, HandlersStay
<1>4. Loads'
  BY <1>1, <1>2 DEF ImportInv, Loads
<1>5. Exits'
  <2>1. \A u \in Thread : pc'[u] \in StdWalking \cup Unwalking => pc'[u] = pc[u]
    BY <1>2 DEF StdWalking, Unwalking
  <2> QED
    BY <1>1, <1>3, <2>1 DEF ImportInv, Exits
<1>6. StdImports'
  <2>1. pc'[Main] = pc[Main] \/ {pc[Main], pc'[Main]} \cap StdWalking = {}
    BY <1>1, <1>2, ImportAssumption DEF ImportAssumption, StdWalking
  <2> QED
    BY <1>1, <1>2, <1>3, <2>1, HookStepKeepsStdout DEF ImportInv
<1>7. ASSUME Punctual' PROVE (Library /\ PutBack)'
  <2>1. Library
    BY <1>1, <1>7 DEF ImportInv, OrderedInv, Punctual
  <2>2. s_c_lib # NULL /\ \A u \in Thread : pc'[u] \notin Initializing \cup Unwalking
    BY <1>1, <1>2, <2>1 DEF Library, Initializing, Unwalking
  <2>3. \A u \in Thread : pc'[u] = "loaded" => pc[u] = "loaded"
    BY <1>2
  <2>4. Library'
    BY <1>1, <2>1, <2>2, <2>3 DEF Library
  <2>5. PutBack'
    BY <1>1, <2>2, ImportAssumption DEF PutBack, Unwalking, ImportAssumption
  <2> QED
    BY <2>4, <2>5
<1>8. ASSUME Punctual', ~exiting' PROVE Follows'
  <2>1. Follows
    BY <1>1, <1>8 DEF ImportInv, OrderedInv, Punctual
  <2>2. \A m \in loaded : AllocDue(m) /\ LoadDue(m)
    BY <1>1 DEF AllocDue, LoadDue
  <2>3. \A u \in Thread : /\ pc'[u] = "walk_alloc" => pc[u] = "walk_alloc"
                          /\ pc'[u] = "loaded" <=> pc[u] = "loaded"
    BY <1>1, <1>2
  <2> QED
    BY <1>1, <1>2, <2>1, <2>2, <2>3 DEF Follows
<1> QED
  BY <1>4, <1>5, <1>6, <1>7, <1>8 DEF ImportInv, OrderedInv

LEMMA CallsImports ==
    ASSUME ImportInv, Shape', NEW t \in Thread, Gets(t) \/ GoesWrong(t) PROVE ImportInv'
<1>1. /\ UNCHANGED <<loaded, replaced, origin, pc, todo, s_c_lib, s_loadlib, s_nIsInited,
                     handlers, exiting>>
      /\ disorder \subseteq disorder' /\ process' \in {"running", "crashed"}
  BY DEF Gets, GoesWrong, Crashes, Acting, At, imports, thread, program, hook
<1>2. \A h : Registered(h)' <=> Registered(h)
  BY <1>1 DEF Registered
<1> QED
  BY <1>1, <1>2, StillKeeps

\* A module is loaded; a hooked LoadLibrary goes on to its imports.
LEMMA LoaderImports ==
    ASSUME ImportInv, Shape', NEW t \in Thread, pc[t] = "idle", process' = "running",
           NEW m \in Plugin, NEW kind \in {"plain", "direct"}, Loader(m, kind),
           IF kind = "plain" THEN UNCHANGED thread
           ELSE /\ s_loadlib = "function"
                /\ pc' = [pc EXCEPT ![t] = "loaded"]
                /\ todo' = [todo EXCEPT ![t] = {m}],
           UNCHANGED <<program, s_c_lib, s_loadlib, s_nIsInited, disorder>>
    PROVE  ImportInv'
<1>1. /\ loaded \subseteq loaded' /\ m \in loaded' /\ m \in Module /\ replaced' = replaced
      /\ handlers' = handlers /\ exiting' = exiting
  BY ImportAssumption DEF Loader, ImportAssumption, program
<1>2. /\ \A d \in Module \ loaded' : d # m /\ origin'[d] = origin[d]
      /\ \A d \in loaded :
            \/ origin'[d] = origin[d]
            \/ kind = "direct" /\ d = m /\ origin[d] # "start" /\ origin'[d] = "direct"
      /\ \A d \in loaded' \ loaded :
            \/ kind = "direct" /\ d = m /\ origin[d] # "start" /\ origin'[d] = "direct"
            \/ /\ origin'[d] = IF s_c_lib = NULL THEN "start" ELSE "other"
               /\ ~(kind = "direct" /\ d = m /\ origin[d] # "start")
      /\ kind = "direct" /\ origin[m] # "start" => origin'[m] = "direct"
  <2>1. \A d \in Module :
           origin'[d] = IF d = m /\ kind = "direct" /\ origin[d] # "start" THEN "direct"
                        ELSE IF d \in loaded' \ loaded
                        THEN IF s_c_lib = NULL THEN "start" ELSE "other"
                        ELSE origin[d]
    BY DEF Loader
  <2>2. loaded' \subseteq Module
    BY DEF Shape
  <2> QED
    BY <1>1, <2>1, <2>2
<1>3. /\ \A u \in Thread \ {t} : pc'[u] = pc[u] /\ todo'[u] = todo[u]
      /\ kind = "plain" => pc'[t] = "idle"
      /\ kind = "direct" => pc'[t] = "loaded" /\ todo'[t] = {m} /\ s_loadlib = "function"
      /\ kind = "plain" => todo'[t] = todo[t]
  BY DEF thread, ImportInv, Shape
<1>4. \A h : Registered(h)' <=> Registered(h)
  BY <1>1 DEF Registered
<1>5. Loads'
  BY <1>1, <1>2, <1>3 DEF ImportInv, Loads, Shape
<1>6. Exits'
  <2>1. \A u \in Thread : /\ pc'[u] \in StdWalking \cup Unwalking => pc'[u] = pc[u]
                          /\ pc[u] \in Unwalking => pc'[u] = pc[u]
    BY <1>3 DEF StdWalking, Unwalking
  <2> QED
    BY <1>1, <1>4, <2>1, ImportAssumption DEF ImportInv, Exits, ImportAssumption
<1>7. StdImports'
  <2>1. /\ pc'[Main] = pc[Main] \/ {pc[Main], pc'[Main]} \cap StdWalking = {}
        /\ pc[Main] = "unwalk_stdout" => todo'[Main] = todo[Main]
    BY <1>3, ImportAssumption DEF ImportAssumption, StdWalking
  <2> QED
    BY <1>1, <1>4, <2>1, HookStepKeepsStdout DEF ImportInv
<1>8. \A u \in Thread, loc \in Initializing \cup Unwalking :
         /\ pc'[u] = loc <=> pc[u] = loc
         /\ pc'[u] = loc => todo'[u] = todo[u]
  BY <1>3 DEF Initializing, Unwalking
<1>9. ASSUME Punctual' PROVE (Library /\ PutBack)'
  <2>1. Library /\ PutBack
    BY <1>9 DEF ImportInv, OrderedInv, Punctual
  <2>2. \A u \in Thread : pc'[u] = "loaded" => pc[u] = "loaded" \/ s_c_lib = "function"
    BY <1>3, <2>1 DEF Library
  <2>3. Library'
    BY <1>1, <1>8, <2>1, <2>2, HookAssumption DEF Library, HookAssumption, Initializing, Unwalking
  <2>4. PutBack'
    BY <1>1, <1>8, <2>1, ImportAssumption DEF PutBack, ImportAssumption, Initializing, Unwalking
  <2> QED
    BY <2>3, <2>4
<1>10. ASSUME Punctual', ~exiting' PROVE Follows'
  <2>1. Library /\ Follows /\ Loads
    BY <1>1, <1>10 DEF ImportInv, OrderedInv, Punctual
  <2>2. kind = "direct" => s_c_lib # NULL
    BY <1>3, <2>1, HookAssumption DEF Library, HookAssumption
  <2>3. \A d \in loaded' \ loaded : replaced[d] = {} /\ origin[d] = "absent"
    BY <2>1 DEF Loads, ImportInv, Shape
  <2>4. \A d \in loaded' :
           /\ origin'[d] = "start" <=> IF d \in loaded THEN origin[d] = "start" ELSE s_c_lib = NULL
           /\ origin'[d] = "other" => IF d \in loaded THEN origin[d] = "other" ELSE TRUE
           /\ origin'[d] = "direct" => \/ d \in loaded /\ origin[d] = "direct"
                                       \/ kind = "direct" /\ d = m
    BY <1>1, <1>2, <2>2, <2>3
  <2>5. s_c_lib' = NULL => \A d \in loaded' : origin'[d] = "start"
    BY <1>1, <1>2, <2>1, <2>2, <2>3 DEF Follows
  <2>6. \A u \in Thread : pc'[u] = "walk_alloc" => \A d \in todo'[u] : origin'[d] = "start"
    <3>1. \A u \in Thread : pc'[u] = "walk_alloc" => pc[u] = "walk_alloc" /\ todo'[u] = todo[u]
      BY <1>8 DEF Initializing
    <3>2. \A u \in Thread : \A d \in todo[u] : d \in loaded /\ d \in loaded'
      BY <1>1, <2>1 DEF Loads
    <3> QED
      BY <2>1, <2>4, <3>1, <3>2 DEF Follows
  <2>7. \A u \in Thread : pc'[u] = "loaded" => \A d \in todo'[u] : origin'[d] \in {"start", "direct"}
    BY <1>1, <1>2, <1>3, <2>1 DEF Follows, Loads
  <2>8. \A d \in Module : (AllocDue(d)' <=> AllocDue(d)) /\ (LoadDue(d)' <=> LoadDue(d))
    BY <1>8 DEF AllocDue, LoadDue, Initializing
  <2>9. s_c_lib = NULL => \A d \in Module : ~AllocDue(d) /\ ~LoadDue(d)
    BY <2>1 DEF Library, AllocDue, LoadDue, Initializing
  <2>10. \A d \in loaded' :
            /\ origin'[d] = "start" /\ AllocDue(d)' => AllocName \subseteq replaced[d]
            /\ origin'[d] = "start" /\ LoadDue(d)' => LoadName \subseteq replaced[d]
    BY <2>1, <2>4, <2>8, <2>9 DEF Follows, Shape
  <2>11. \A d \in loaded' : origin'[d] = "direct" =>
            AllocName \subseteq replaced[d] \/ \E u \in Thread : pc'[u] = "loaded" /\ d \in todo'[u]
    BY <1>3, <2>1, <2>4 DEF Follows
  <2>12. \A d \in loaded' : origin'[d] = "other" => AllocName \cap replaced[d] = {}
    BY <2>1, <2>3, <2>4 DEF Follows
  <2> QED
    BY <1>1, <2>5, <2>6, <2>7, <2>10, <2>11, <2>12 DEF Follows
<1> QED
  BY <1>5, <1>6, <1>7, <1>9, <1>10 DEF ImportInv, OrderedInv

LEMMA LoadsImports ==
    ASSUME ImportInv, Shape', NEW t \in Thread, LoadsPlainly(t) \/ LoadsHooked(t)
    PROVE  ImportInv'
<1>1. CASE LoadsPlainly(t)
  <2>1. PICK m \in Plugin : Loader(m, "plain")
    BY <1>1 DEF LoadsPlainly
  <2>2. pc[t] = "idle" /\ process' = "running"
        /\ UNCHANGED <<thread, program, s_c_lib, s_loadlib, s_nIsInited, disorder>>
    BY <1>1 DEF LoadsPlainly, Acting, At, program
  <2> QED
    BY <2>1, <2>2, LoaderImports
<1>2. CASE LoadsHooked(t)
  <2>1. PICK m \in Plugin :
           \/ /\ s_loadlib = "function"
              /\ Loader(m, "direct")
              /\ pc' = [pc EXCEPT ![t] = "loaded"]
              /\ todo' = [todo EXCEPT ![t] = {m}]
              /\ UNCHANGED program
           \/ /\ Crashes
              /\ UNCHANGED <<imports, thread, origin>>
    BY <1>2 DEF LoadsHooked
  <2>2. pc[t] = "idle" /\ process = "running"
        /\ UNCHANGED <<s_c_lib, s_loadlib, s_nIsInited, disorder>>
    BY <1>2 DEF LoadsHooked, Acting, At
  <2>3. CASE Crashes /\ UNCHANGED <<imports, thread, origin>>
    <3>1. /\ UNCHANGED <<loaded, replaced, origin, pc, todo, handlers, exiting>>
          /\ process' = "crashed"
      BY <2>3 DEF Crashes, imports, thread
    <3>2. \A h : Registered(h)' <=> Registered(h)
      BY <3>1 DEF Registered
    <3> QED
      BY <2>2, <3>1, <3>2, StillKeeps
  <2>4. CASE /\ s_loadlib = "function"
             /\ Loader(m, "direct")
             /\ pc' = [pc EXCEPT ![t] = "loaded"]
             /\ todo' = [todo EXCEPT ![t] = {m}]
             /\ UNCHANGED program
    <3>1. process' = "running"
      BY <2>2, <2>4 DEF program
    <3> QED
      BY <2>2, <2>4, <3>1, LoaderImports
  <2> QED
    BY <2>1, <2>3, <2>4
<1> QED
  BY <1>1, <1>2

LEMMA ReplacesLoadedImports ==
    ASSUME ImportInv, Shape', NEW t \in Thread, ReplacesLoaded(t) PROVE ImportInv'
<1>1. /\ pc[t] = "loaded" /\ process' = "running"
      /\ pc' = [pc EXCEPT ![t] = "idle"] /\ todo' = [todo EXCEPT ![t] = {}]
      /\ replaced' = [m \in Module |-> IF m \in todo[t] /\ s_c_lib = "function"
                                       THEN replaced[m] \cup AllocName ELSE replaced[m]]
      /\ disorder' = (IF exiting THEN disorder \cup {"exit"} ELSE disorder)
      /\ UNCHANGED <<loaded, origin, s_c_lib, s_loadlib, s_nIsInited, handlers, exiting>>
  BY DEF ReplacesLoaded, At, program
<1>2. /\ pc'[t] = "idle" /\ todo'[t] = {}
      /\ \A u \in Thread \ {t} : pc'[u] = pc[u] /\ todo'[u] = todo[u]
  BY <1>1 DEF ImportInv, Shape
<1>3. \A m \in Module : /\ replaced[m] \subseteq replaced'[m]
                        /\ replaced'[m] \subseteq replaced[m] \cup AllocName
                        /\ m \notin todo[t] => replaced'[m] = replaced[m]
                        /\ m \in todo[t] /\ s_c_lib = "function" => AllocName \subseteq replaced'[m]
  BY <1>1
<1>4. \A h : Registered(h)' <=> Registered(h)
  BY <1>1 DEF Registered
<1>5. Loads'
  BY <1>1, <1>2, <1>3 DEF ImportInv, Loads
<1>6. Exits'
  <2>1. \A u \in Thread : /\ pc'[u] \in StdWalking \cup Unwalking => pc'[u] = pc[u]
                          /\ pc[u] \in Unwalking => pc'[u] = pc[u]
    BY <1>1, <1>2 DEF StdWalking, Unwalking
  <2> QED
    BY <1>1, <1>4, <2>1, ImportAssumption DEF ImportInv, Exits, ImportAssumption
<1>7. StdImports'
  <2>1. /\ pc'[Main] = pc[Main] \/ {pc[Main], pc'[Main]} \cap StdWalking = {}
        /\ pc[Main] = "unwalk_stdout" => todo'[Main] = todo[Main]
    BY <1>1, <1>2, ImportAssumption DEF ImportAssumption, StdWalking
  <2>2. \A m \in Module : replaced'[m] \cap StdName = replaced[m] \cap StdName
    BY <1>3, ImportAssumption DEF ImportAssumption
  <2> QED
    BY <1>4, <2>1, <2>2, HookStepKeepsStdout DEF ImportInv
<1>8. \A u \in Thread, loc \in Initializing \cup Unwalking :
         /\ pc'[u] = loc <=> pc[u] = loc
         /\ pc'[u] = loc => todo'[u] = todo[u]
  BY <1>1, <1>2 DEF Initializing, Unwalking
<1>9. Punctual' => ~exiting /\ Punctual
  BY <1>1 DEF Punctual
<1>10. ASSUME Punctual' PROVE (Library /\ PutBack)'
  <2>1. Library /\ PutBack
    BY <1>9, <1>10 DEF ImportInv, OrderedInv
  <2>2. \A u \in Thread : pc'[u] = "loaded" => pc[u] = "loaded"
    BY <1>2
  <2>3. Library'
    BY <1>1, <1>8, <2>1, <2>2 DEF Library, Initializing, Unwalking
  <2>4. s_nIsInited \/ \E u \in Thread : pc[u] \in Initializing
    BY <1>1, <1>9, <1>10, <2>1 DEF Library
  <2>5. \A u \in Thread : pc[u] \notin Unwalking
    BY <1>9, <1>10 DEF ImportInv, Exits
  <2>6. PutBack'
    BY <1>1, <1>8, <2>4, <2>5, ImportAssumption DEF PutBack, ImportAssumption, Initializing, Unwalking
  <2> QED
    BY <2>3, <2>6
<1>11. ASSUME Punctual', ~exiting' PROVE Follows'
  <2>1. Library /\ Follows
    BY <1>1, <1>9, <1>11 DEF ImportInv, OrderedInv
  <2>2. s_c_lib = "function"
    BY <1>1, <2>1 DEF Library
  <2>3. \A m \in Module : (AllocDue(m)' <=> AllocDue(m)) /\ (LoadDue(m)' <=> LoadDue(m))
    BY <1>1, <1>8 DEF AllocDue, LoadDue, Initializing
  <2>4. \A m \in todo[t] : origin[m] # "other"
    BY <1>1, <2>1 DEF Follows
  <2>5. \A m \in loaded : m \in Module
    BY DEF ImportInv, Shape
  <2>6. \A m \in loaded : origin[m] = "direct" =>
           AllocName \subseteq replaced'[m] \/ \E u \in Thread : pc'[u] = "loaded" /\ m \in todo'[u]
    BY <1>1, <1>2, <1>3, <2>1, <2>2, <2>5 DEF Follows
  <2>7. \A m \in loaded : origin[m] = "other" => AllocName \cap replaced'[m] = {}
    BY <1>3, <2>1, <2>4, <2>5 DEF Follows
  <2>8. \A m \in loaded : /\ origin[m] = "start" /\ AllocDue(m)' => AllocName \subseteq replaced'[m]
                          /\ origin[m] = "start" /\ LoadDue(m)' => LoadName \subseteq replaced'[m]
    BY <1>3, <2>1, <2>3, <2>5 DEF Follows
  <2>9. \A u \in Thread : /\ pc'[u] = "walk_alloc" => pc[u] = "walk_alloc" /\ todo'[u] = todo[u]
                          /\ pc'[u] = "loaded" => pc[u] = "loaded" /\ todo'[u] = todo[u]
    BY <1>2
  <2> QED
    BY <1>1, <2>1, <2>6, <2>7, <2>8, <2>9 DEF Follows
<1> QED
  BY <1>5, <1>6, <1>7, <1>10, <1>11 DEF ImportInv, OrderedInv

LEMMA CleanupImports ==
    ASSUME TypeOK, ImportInv, Shape', NEW t \in Thread, Cleanup(t) PROVE ImportInv'
<1>1. /\ pc[t] = "idle" /\ t = Main /\ exiting /\ process' = "running"
      /\ handlers # << >> /\ Last(handlers) = "hook" /\ handlers' = Front(handlers)
      /\ UNCHANGED <<loaded, replaced, origin, s_c_lib, s_loadlib, s_nIsInited, disorder, exiting>>
      /\ \/ s_nIsInited /\ Walk(t, "unwalk_load")
         \/ ~s_nIsInited /\ UNCHANGED <<pc, todo>>
  BY DEF Cleanup, RunsHandler, At, imports, thread, hook
<1>2. Registered("stdout") => Registered("stdout")'
  BY <1>1, HandlersStay
<1>3. CASE ~s_nIsInited /\ UNCHANGED <<pc, todo>>
  BY <1>1, <1>2, <1>3, StillKeeps
<1>4. CASE s_nIsInited /\ Walk(t, "unwalk_load")
  <2>1. /\ pc'[t] = "unwalk_load" /\ todo'[t] = loaded
        /\ \A u \in Thread \ {t} : pc'[u] = pc[u] /\ todo'[u] = todo[u]
    BY <1>4, WalkFacts DEF ImportInv, Others
  <2>2. Loads'
    BY <1>1, <2>1 DEF ImportInv, Loads
  <2>3. Exits'
    BY <1>1, <2>1 DEF ImportInv, Exits, StdWalking, Unwalking
  <2>4. StdImports'
    BY <1>1, <1>2, <2>1, HookStepKeepsStdout DEF ImportInv, StdWalking
  <2>5. ASSUME Punctual' PROVE (Library /\ PutBack)'
    <3>1. Library
      BY <1>1, <2>5 DEF ImportInv, OrderedInv, Punctual
    <3>2. \A u \in Thread : pc[u] \notin Initializing /\ pc'[u] \notin Initializing
      BY <1>4, <2>1, <3>1 DEF Library, Initializing
    <3>3. \A u \in Thread : pc'[u] = "loaded" => pc[u] = "loaded"
      BY <2>1
    <3>4. Library'
      BY <1>1, <1>4, <3>1, <3>2, <3>3 DEF Library
    <3>5. PutBack'
      BY <1>1, <1>4, <2>1 DEF PutBack, ImportInv, Loads
    <3> QED
      BY <3>4, <3>5
  <2> QED
    BY <1>1, <2>2, <2>3, <2>4, <2>5 DEF ImportInv, OrderedInv
<1> QED
  BY <1>1, <1>3, <1>4

\* A visit of the exit handler.
LEMMA RestoringVisitImports ==
    ASSUME ImportInv, Shape', NEW t \in Thread, pc[t] \in Unwalking,
           LET names == IF pc[t] = "unwalk_alloc"
                        THEN IF s_c_lib = "function" THEN AllocName ELSE {}
                        ELSE IF s_loadlib = "function" THEN LoadName ELSE {}
           IN  Visit(t, names, FALSE),
           process' = "running",
           UNCHANGED <<handlers, exiting, origin, s_c_lib, s_loadlib, s_nIsInited, disorder>>
    PROVE  ImportInv'
<1> DEFINE names == IF pc[t] = "unwalk_alloc"
                    THEN IF s_c_lib = "function" THEN AllocName ELSE {}
                    ELSE IF s_loadlib = "function" THEN LoadName ELSE {}
<1>0. Visited(t, names, FALSE)
  BY VisitFacts DEF ImportInv
<1>1. names \subseteq Hooks
  BY DEF Hooks
<1>2. Library => /\ pc[t] = "unwalk_alloc" => names = AllocName
                 /\ pc[t] = "unwalk_load" => names = LoadName
  BY DEF Library
<1> HIDE DEF names
<1>3. /\ pc' = pc /\ loaded' = loaded
      /\ \A u \in Thread \ {t} : pc'[u] = pc[u] /\ todo'[u] = todo[u]
  BY <1>0 DEF Visited, Others
<1>4. PICK m \in todo[t] :
         /\ todo'[t] = todo[t] \ {m}
         /\ replaced'[m] = replaced[m] \ names
         /\ \A d \in Module \ {m} : replaced'[d] = replaced[d]
  BY <1>0 DEF Visited
<1>5. \A h : Registered(h)' <=> Registered(h)
  BY DEF Registered
<1>6. t = Main /\ exiting
  BY DEF ImportInv, Exits
<1>7. m \in loaded /\ m \in Module
  BY <1>4 DEF ImportInv, Loads, Shape
<1>8. \A d \in Module : replaced'[d] \subseteq replaced[d]
  BY <1>4
<1>9. Loads'
  BY <1>3, <1>4, <1>7 DEF ImportInv, Loads
<1>10. Exits'
  BY <1>3, <1>5 DEF ImportInv, Exits
<1>11. StdImports'
  <2>1. \A d \in Module : replaced'[d] \cap StdName = replaced[d] \cap StdName
    BY <1>1, <1>4, ImportAssumption DEF ImportAssumption, Hooks
  <2> QED
    BY <1>3, <1>5, <1>6, <2>1, HookStepKeepsStdout DEF ImportInv, Unwalking
<1>12. ASSUME Punctual' PROVE (Library /\ PutBack)'
  <2>1. Library /\ PutBack
    BY <1>12 DEF ImportInv, OrderedInv, Punctual
  <2>2. Library'
    BY <1>3, <2>1 DEF Library
  <2>3. PutBack'
    <3>1. s_nIsInited
      BY <2>1 DEF Library
    <3>2. CASE pc[t] = "unwalk_load" /\ names = LoadName
      BY <1>3, <1>4, <1>6, <1>8, <2>1, <3>1, <3>2 DEF PutBack
    <3>3. CASE pc[t] = "unwalk_alloc" /\ names = AllocName
      BY <1>3, <1>4, <1>6, <1>8, <2>1, <3>1, <3>3 DEF PutBack
    <3> QED
      BY <1>2, <2>1, <3>2, <3>3 DEF Unwalking
  <2> QED
    BY <2>2, <2>3
<1> QED
  BY <1>6, <1>9, <1>10, <1>11, <1>12 DEF ImportInv, OrderedInv

LEMMA RestoresLoadImports ==
    ASSUME ImportInv, Shape', NEW t \in Thread, RestoresLoad(t) PROVE ImportInv'
<1>1. /\ pc[t] = "unwalk_load" /\ process' = "running"
      /\ UNCHANGED <<handlers, exiting, origin, s_c_lib, s_loadlib, s_nIsInited, disorder>>
      /\ \/ Visit(t, IF s_loadlib = "function" THEN LoadName ELSE {}, FALSE)
         \/ todo[t] = {} /\ Walk(t, "unwalk_alloc") /\ UNCHANGED <<loaded, replaced>>
  BY DEF RestoresLoad, At, program, hook, imports
<1>2. CASE Visit(t, IF s_loadlib = "function" THEN LoadName ELSE {}, FALSE)
  BY <1>1, <1>2, RestoringVisitImports DEF Unwalking
<1>3. CASE todo[t] = {} /\ Walk(t, "unwalk_alloc") /\ UNCHANGED <<loaded, replaced>>
  <2>1. /\ pc'[t] = "unwalk_alloc" /\ todo'[t] = loaded
        /\ \A u \in Thread \ {t} : pc'[u] = pc[u] /\ todo'[u] = todo[u]
    BY <1>3, WalkFacts DEF ImportInv, Others
  <2>2. t = Main /\ exiting
    BY <1>1 DEF ImportInv, Exits, Unwalking
  <2>3. \A h : Registered(h)' <=> Registered(h)
    BY <1>1 DEF Registered
  <2>4. Loads'
    BY <1>1, <1>3, <2>1 DEF ImportInv, Loads
  <2>5. Exits'
    BY <1>1, <2>1, <2>2, <2>3 DEF ImportInv, Exits, StdWalking, Unwalking
  <2>6. StdImports'
    BY <1>1, <1>3, <2>1, <2>2, <2>3, HookStepKeepsStdout DEF ImportInv, StdWalking
  <2>7. ASSUME Punctual' PROVE (Library /\ PutBack)'
    <3>1. Library /\ PutBack
      BY <1>1, <2>7 DEF ImportInv, OrderedInv, Punctual
    <3>2. s_nIsInited
      BY <1>1, <3>1 DEF Library, Unwalking
    <3>3. \A u \in Thread : pc[u] \notin Initializing /\ pc'[u] \notin Initializing
      BY <2>1, <3>1, <3>2 DEF Library, Initializing
    <3>4. \A u \in Thread : pc'[u] = "loaded" => pc[u] = "loaded"
      BY <2>1
    <3>5. Library'
      BY <1>1, <3>1, <3>2, <3>3, <3>4 DEF Library
    <3>6. PutBack'
      BY <1>1, <1>3, <2>1, <2>2, <3>1, <3>2 DEF PutBack, ImportInv, Loads
    <3> QED
      BY <3>5, <3>6
  <2> QED
    BY <1>1, <2>2, <2>4, <2>5, <2>6, <2>7 DEF ImportInv, OrderedInv
<1> QED
  BY <1>1, <1>2, <1>3

LEMMA RestoresAllocImports ==
    ASSUME ImportInv, Shape', NEW t \in Thread, RestoresAlloc(t) PROVE ImportInv'
<1>1. /\ pc[t] = "unwalk_alloc" /\ process' = "running"
      /\ UNCHANGED <<handlers, exiting, origin, s_c_lib, s_loadlib, disorder>>
      /\ \/ /\ Visit(t, IF s_c_lib = "function" THEN AllocName ELSE {}, FALSE)
            /\ s_nIsInited' = s_nIsInited
         \/ /\ todo[t] = {} /\ Goto(t, "idle") /\ s_nIsInited' = FALSE
            /\ UNCHANGED <<loaded, replaced>>
  BY DEF RestoresAlloc, At, program, imports
<1>2. CASE /\ Visit(t, IF s_c_lib = "function" THEN AllocName ELSE {}, FALSE)
           /\ s_nIsInited' = s_nIsInited
  BY <1>1, <1>2, RestoringVisitImports DEF Unwalking
<1>3. CASE /\ todo[t] = {} /\ Goto(t, "idle") /\ s_nIsInited' = FALSE
           /\ UNCHANGED <<loaded, replaced>>
  <2>1. /\ pc'[t] = "idle" /\ todo' = todo
        /\ \A u \in Thread \ {t} : pc'[u] = pc[u]
    BY <1>3, GotoFacts DEF ImportInv, Others
  <2>2. t = Main /\ exiting
    BY <1>1 DEF ImportInv, Exits, Unwalking
  <2>3. \A h : Registered(h)' <=> Registered(h)
    BY <1>1 DEF Registered
  <2>4. Loads'
    BY <1>1, <1>3, <2>1 DEF ImportInv, Loads
  <2>5. Exits'
    BY <1>1, <1>3, <2>1 DEF ImportInv, Exits, StdWalking, Unwalking
  <2>6. StdImports'
    BY <1>1, <1>3, <2>1, <2>2, <2>3, HookStepKeepsStdout DEF ImportInv, StdWalking
  <2>7. ASSUME Punctual' PROVE (Library /\ PutBack)'
    <3>1. Library /\ PutBack
      BY <1>1, <2>7 DEF ImportInv, OrderedInv, Punctual
    <3>2. s_nIsInited /\ \A u \in Thread : pc'[u] \notin Initializing \cup Unwalking
      BY <1>1, <2>1, <2>2, <3>1 DEF Library, Initializing, Unwalking, ImportInv, Exits
    <3>3. \A u \in Thread : pc'[u] = "loaded" => pc[u] = "loaded"
      BY <2>1
    <3>4. Library'
      BY <1>1, <1>3, <2>2, <3>1, <3>2, <3>3 DEF Library
    <3>5. \A m \in Module : replaced[m] \cap Hooks = {}
      BY <1>1, <1>3, <2>2, <3>1 DEF PutBack, Hooks
    <3>6. PutBack'
      BY <1>3, <2>1, <2>2, <3>5 DEF PutBack
    <3> QED
      BY <3>4, <3>6
  <2> QED
    BY <1>1, <2>2, <2>4, <2>5, <2>6, <2>7 DEF ImportInv, OrderedInv
<1> QED
  BY <1>1, <1>2, <1>3

LEMMA InitImports == Init => ImportInv
<1> SUFFICES ASSUME Init PROVE ImportInv
  OBVIOUS
<1>1. /\ loaded = {Self} /\ replaced = [m \in Module |-> {}]
      /\ pc = [t \in Thread |-> "idle"] /\ todo = [t \in Thread |-> {}]
      /\ process = "running" /\ s_nIsInited = FALSE /\ s_c_lib = NULL /\ s_loadlib = NULL
      /\ origin = [m \in Module |-> IF m = Self THEN "start" ELSE "absent"]
  BY DEF Init, ImportInit, HookInit
<1>2. Shape
  BY HookInitHolds DEF HookInv
<1>3. Loads
  BY <1>1 DEF Loads
<1>4. Exits /\ StdImports
  BY <1>1, ImportAssumption DEF Exits, StdImports, StdWalking, Unwalking, ImportAssumption
<1>5. Library
  BY <1>1 DEF Library, Initializing, Unwalking
<1>6. PutBack
  BY <1>1, ImportAssumption DEF PutBack, ImportAssumption
<1>7. Follows
  <2>1. \A m \in loaded : origin[m] = "start" /\ ~AllocDue(m) /\ ~LoadDue(m)
    BY <1>1, ImportAssumption DEF AllocDue, LoadDue, ImportAssumption
  <2>2. \A t \in Thread : pc[t] = "idle"
    BY <1>1
  <2> QED
    BY <2>1, <2>2 DEF Follows
<1> QED
  BY <1>2, <1>3, <1>4, <1>5, <1>6, <1>7 DEF ImportInv, OrderedInv

LEMMA ImportsKept == TypeOK /\ ImportInv /\ Shape' /\ [Next]_vars => ImportInv'
<1> SUFFICES ASSUME TypeOK, ImportInv, Shape', [Next]_vars PROVE ImportInv'
  OBVIOUS
<1>1. CASE HookNext
  BY <1>1, RunsInitializerImports, ReplacesImports, EndsInitializeImports, SetsImports,
     CallsImports, LoadsImports, ReplacesLoadedImports, CleanupImports, RestoresLoadImports,
     RestoresAllocImports DEF HookNext
<1>2. ASSUME process' = "exited" => handlers' = << >>, exiting => exiting',
             UNCHANGED <<imports, thread, handlers, hook>>
      PROVE  ImportInv'
  <2>1. UNCHANGED <<loaded, replaced, origin, pc, todo, s_c_lib, s_loadlib, s_nIsInited, disorder>>
    BY <1>2 DEF imports, thread, hook
  <2>2. \A h : Registered(h)' <=> Registered(h)
    BY <1>2 DEF Registered
  <2> QED
    BY <1>2, <2>1, <2>2, StillKeeps
<1>3. CASE StdoutNext /\ UNCHANGED hook
  <2>1. PICK t \in Thread :
           \/ StdoutInitializer(t) \/ StdoutReplaces(t) \/ StdoutClean(t)
           \/ SetsClbk(t) \/ FWriteStatic(t) \/ Stdio01Static(t) \/ ClbkReturns(t)
    BY <1>3 DEF StdoutNext
  <2>2. SetsClbk(t) \/ FWriteStatic(t) \/ Stdio01Static(t) \/ ClbkReturns(t) =>
           /\ process' \in {"running", "aborted"} /\ exiting' = exiting
           /\ UNCHANGED <<imports, thread, handlers>>
    BY DEF SetsClbk, FWriteStatic, Stdio01Static, ClbkReturns, Writes, Acting, At, program
  <2> QED
    BY <1>2, <1>3, <2>1, <2>2, StdoutInitializerImports, StdoutReplacesImports, StdoutCleanImports
<1>4. CASE (ExitCall \/ Ends) /\ UNCHANGED <<hook, stdout>>
  <2>1. /\ process' = "exited" => handlers' = << >>
        /\ exiting => exiting'
        /\ UNCHANGED <<imports, thread, handlers, hook>>
    BY <1>4 DEF ExitCall, Ends, Acting, At
  <2> QED
    BY <1>2, <2>1
<1>5. CASE UNCHANGED vars
  <2>1. /\ process' = "exited" => handlers' = << >>
        /\ exiting => exiting'
        /\ UNCHANGED <<imports, thread, handlers, hook>>
    BY <1>5 DEF vars, program, ImportInv, Exits
  <2> QED
    BY <1>2, <2>1
<1> QED
  BY <1>1, <1>3, <1>4, <1>5 DEF Next, Halted

\* The inductive invariant, for the walks of CInternalReplaceFunctionsAllModules, the
\* modules loaded meanwhile and the exit handlers.
THEOREM ImportInvHolds == Spec => []ImportInv
<1>1. HookInv => Shape
  BY DEF HookInv
<1>2. HookInv' => Shape'
  BY DEF HookInv
<1>3. TypeOK /\ HookInv' /\ ImportInv /\ [Next]_vars => ImportInv'
  BY <1>2, ImportsKept
<1> QED
  BY <1>3, InitImports, TypesHold, HookInvariant, PTL DEF Spec

\* Imports are replaced too late only by a thread that loads a module during exit.
LEMMA LateIsExiting == Spec => [](("exit" \in disorder) => exiting)
<1> DEFINE Late == ("exit" \in disorder) => exiting
<1>1. Init => Late
  BY DEF Init, HookInit
<1>2. Late /\ [Next]_vars => Late'
  <2> SUFFICES ASSUME Late, [Next]_vars PROVE Late'
    OBVIOUS
  <2>1. ASSUME UNCHANGED <<exiting, disorder>> PROVE Late'
    BY <2>1
  <2>2. CASE HookNext
    <3>1. PICK t \in Thread :
            \/ RunsInitializer(t) \/ ReplacesAlloc(t) \/ ReplacesLoad(t) \/ EndsInitialize(t)
            \/ Sets(t) \/ Gets(t) \/ GoesWrong(t)
            \/ LoadsPlainly(t) \/ LoadsHooked(t) \/ ReplacesLoaded(t)
            \/ Cleanup(t) \/ RestoresLoad(t) \/ RestoresAlloc(t)
      BY <2>2 DEF HookNext
    <3>2. Initializes(t) => ("exit" \in disorder' => "exit" \in disorder)
      BY DEF Initializes
    <3>3. RunsInitializer(t) => exiting' = exiting /\ (Initializes(t) \/ disorder' = disorder)
      BY DEF RunsInitializer
    <3>4. Sets(t) \/ EndsInitialize(t) =>
             /\ exiting' = exiting
             /\ Initializes(t) \/ ("exit" \in disorder' => "exit" \in disorder)
      BY DEF Sets, EndsInitialize, Stores, program
    <3>5. ReplacesLoaded(t) => exiting' = exiting /\ ("exit" \in disorder' => "exit" \in disorder \/ exiting)
      BY DEF ReplacesLoaded, program
    <3>6. ReplacesAlloc(t) \/ ReplacesLoad(t) \/ Gets(t) \/ GoesWrong(t)
          \/ LoadsPlainly(t) \/ LoadsHooked(t) \/ Cleanup(t) \/ RestoresLoad(t)
          \/ RestoresAlloc(t) => UNCHANGED <<exiting, disorder>>
      BY DEF ReplacesAlloc, ReplacesLoad, Gets, GoesWrong, Crashes, LoadsPlainly,
             LoadsHooked, Cleanup, RunsHandler, RestoresLoad, RestoresAlloc, program, hook
    <3> QED
      BY <3>1, <3>2, <3>3, <3>4, <3>5, <3>6
  <2>3. CASE StdoutNext /\ UNCHANGED hook
    <3>1. PICK t \in Thread :
             \/ StdoutInitializer(t) \/ StdoutReplaces(t) \/ StdoutClean(t)
             \/ SetsClbk(t) \/ FWriteStatic(t) \/ Stdio01Static(t) \/ ClbkReturns(t)
      BY <2>3 DEF StdoutNext
    <3>2. StdoutInitializer(t) => exiting' \in {exiting, TRUE}
      BY DEF StdoutInitializer
    <3>3. StdoutReplaces(t) \/ StdoutClean(t) \/ SetsClbk(t) \/ FWriteStatic(t)
          \/ Stdio01Static(t) \/ ClbkReturns(t) => exiting' = exiting
      BY DEF StdoutReplaces, StdoutClean, SetsClbk, FWriteStatic, Stdio01Static, ClbkReturns,
             RunsHandler, program
    <3>4. disorder' = disorder
      BY <2>3 DEF hook
    <3> QED
      BY <3>1, <3>2, <3>3, <3>4
  <2>4. CASE (ExitCall \/ Ends) /\ UNCHANGED <<hook, stdout>>
    BY <2>4 DEF ExitCall, Ends, hook
  <2>5. CASE UNCHANGED vars
    BY <2>5 DEF vars, program, hook
  <2> QED
    BY <2>2, <2>3, <2>4, <2>5 DEF Next, Halted
<1> QED
  BY <1>1, <1>2, PTL DEF Spec

\* Which modules' calls reach the hooks, once these are there, and that none does after
\* exit (CInternalReplaceFunctions*, CinternalLoadLibrary*, alloc_free_hook_cleanup).
THEOREM HookedAreThoseLoaded == Spec => []ImportsFollowLoads
<1> DEFINE Late == ("exit" \in disorder) => exiting
<1>1. ImportInv /\ Late => ImportsFollowLoads
  <2> SUFFICES ASSUME ImportInv, Late PROVE ImportsFollowLoads
    OBVIOUS
  <2>1. ASSUME s_nIsInited, ~exiting, Quiet, "overlap" \notin disorder
        PROVE  \A m \in loaded :
                  /\ origin[m] = "start" => AllocName \cup LoadName \subseteq replaced[m]
                  /\ origin[m] = "direct" => AllocName \subseteq replaced[m]
                  /\ origin[m] = "other" => AllocName \cap replaced[m] = {}
    <3>1. Follows
      BY <2>1 DEF ImportInv, OrderedInv, Punctual
    <3>2. \A m \in loaded : AllocDue(m) /\ LoadDue(m)
      BY <2>1 DEF AllocDue, LoadDue
    <3> QED
      BY <2>1, <3>1, <3>2 DEF Follows, Quiet
  <2>2. ASSUME process = "exited", Quiet, disorder \cap {"overlap", "exit"} = {}
        PROVE  \A m \in loaded : replaced[m] = {}
    <3>1. PutBack
      BY <2>2 DEF ImportInv, OrderedInv, Punctual
    <3>2. handlers = << >> /\ \A t \in Thread : pc[t] = "idle"
      BY <2>2 DEF ImportInv, Exits, Quiet
    <3>3. ~Registered("hook") /\ ~Registered("stdout") /\ pc[Main] = "idle"
      BY <3>2, ImportAssumption DEF Registered, ImportAssumption
    <3>4. ~s_nIsInited /\ \A t \in Thread : pc[t] \notin Initializing
      BY <3>2, <3>3 DEF ImportInv, Exits, Unwalking, Initializing
    <3>5. \A m \in Module : replaced[m] \cap Hooks = {}
      BY <3>1, <3>4 DEF PutBack
    <3>6. \A m \in Module : replaced[m] \cap StdName = {}
      BY <3>3 DEF ImportInv, StdImports, StdWalking
    <3>7. \A m \in loaded : m \in Module /\ replaced[m] \subseteq Hooks \cup StdName
      BY DEF ImportInv, Shape, Name, Hooks
    <3> QED
      BY <3>5, <3>6, <3>7
  <2> QED
    BY <2>1, <2>2 DEF ImportsFollowLoads
<1> QED
  BY <1>1, ImportInvHolds, LateIsExiting, PTL
=============================================================================

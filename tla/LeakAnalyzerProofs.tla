------------------------- MODULE LeakAnalyzerProofs -------------------------
(***************************************************************************)
(* Proofs about LeakAnalyzer for any number of threads, addresses, stacks  *)
(* and requests: the types, the lock discipline and the consistency of the *)
(* hash tables with the lists, for every program and both final actions.   *)
(***************************************************************************)
EXTENDS LeakAnalyzer, FiniteSetTheorems, SequenceTheorems, TLAPS

-----------------------------------------------------------------------------
(* Lists of memory items.                                                  *)

\* The new element joins the set of the elements, and the list stays without
\* repetition if the element is new.
LEMMA AppendElement ==
    ASSUME NEW S, NEW items \in Seq(S), NEW a \in S
    PROVE  /\ Append(items, a) \in Seq(S)
           /\ Len(Append(items, a)) = Len(items) + 1
           /\ ToSet(Append(items, a)) = ToSet(items) \cup {a}
           /\ IsInjective(items) /\ a \notin ToSet(items)
                 => IsInjective(Append(items, a))
<1> DEFINE u == Append(items, a)
<1>1. /\ u \in Seq(S) /\ Len(u) = Len(items) + 1
      /\ DOMAIN items = 1 .. Len(items) /\ DOMAIN u = 1 .. (Len(items) + 1)
      /\ \A i \in 1 .. Len(items) : u[i] = items[i]
  OBVIOUS
<1>2. u[Len(items) + 1] = a
  OBVIOUS
<1>3. Len(items) \in Nat
  OBVIOUS
<1> HIDE DEF u
<1>4. ToSet(u) = ToSet(items) \cup {a}
  BY <1>1, <1>2, <1>3 DEF ToSet
<1>5. ASSUME IsInjective(items), a \notin ToSet(items)
      PROVE  IsInjective(u)
  BY <1>1, <1>2, <1>3, <1>5 DEF IsInjective, ToSet
<1> QED
  BY <1>1, <1>4, <1>5 DEF u

\* RemoveAt as a function: the elements behind the removed one move up.
LEMMA RemoveAtShifts ==
    ASSUME NEW S, NEW items \in Seq(S), NEW i \in 1 .. Len(items)
    PROVE  /\ RemoveAt(items, i) \in Seq(S)
           /\ Len(RemoveAt(items, i)) = Len(items) - 1
           /\ \A j \in 1 .. Len(items) - 1 :
                 RemoveAt(items, i)[j] = IF j < i THEN items[j] ELSE items[j + 1]
<1> DEFINE l == SubSeq(items, 1, i - 1)
           r == SubSeq(items, i + 1, Len(items))
<1>1. l \in Seq(S) /\ r \in Seq(S) /\ Len(l) = i - 1 /\ Len(r) = Len(items) - i
  OBVIOUS
<1>2. \A j \in 1 .. (i - 1) : l[j] = items[j]
  OBVIOUS
<1>3. \A j \in 1 .. (Len(items) - i) : r[j] = items[i + j]
  OBVIOUS
<1> HIDE DEF l, r
<1>4. /\ l \o r \in Seq(S)
      /\ Len(l \o r) = Len(l) + Len(r)
      /\ \A j \in 1 .. Len(l) + Len(r) :
            (l \o r)[j] = IF j <= Len(l) THEN l[j] ELSE r[j - Len(l)]
  BY <1>1, ConcatProperties
<1>5. ASSUME NEW j \in 1 .. Len(items) - 1
      PROVE  (l \o r)[j] = IF j < i THEN items[j] ELSE items[j + 1]
  <2>1. Len(items) \in Nat
    OBVIOUS
  <2>2. CASE j < i
    BY <1>1, <1>2, <1>4, <2>1, <2>2
  <2>3. CASE ~(j < i)
    <3>1. (l \o r)[j] = r[j - (i - 1)]
      BY <1>1, <1>4, <2>1, <2>3
    <3>2. j - (i - 1) \in 1 .. (Len(items) - i) /\ i + (j - (i - 1)) = j + 1
      BY <2>1, <2>3
    <3> QED BY <1>3, <2>3, <3>1, <3>2
  <2> QED BY <2>2, <2>3
<1>6. RemoveAt(items, i) = l \o r
  BY DEF RemoveAt, l, r
<1>7. Len(l \o r) = Len(items) - 1
  BY <1>1, <1>4
<1> QED
  BY <1>4, <1>5, <1>6, <1>7

\* Taking one element out of a list without repetition takes it out of the set
\* of the elements, and repeats nothing.
LEMMA RemoveElement ==
    ASSUME NEW S, NEW items \in Seq(S), IsInjective(items),
           NEW a \in ToSet(items)
    PROVE  LET rest == RemoveAt(items, Position(items, a))
           IN  /\ rest \in Seq(S)
               /\ Len(rest) = Len(items) - 1
               /\ ToSet(rest) = ToSet(items) \ {a}
               /\ IsInjective(rest)
<1> DEFINE i == Position(items, a)
           rest == RemoveAt(items, i)
           n == Len(items)
<1>1. n \in Nat /\ DOMAIN items = 1 .. n
  OBVIOUS
<1>2. i \in 1 .. n /\ items[i] = a
  BY <1>1 DEF Position, ToSet
<1> HIDE DEF i
<1>3. /\ rest \in Seq(S) /\ Len(rest) = n - 1
      /\ \A j \in 1 .. n - 1 :
            rest[j] = IF j < i THEN items[j] ELSE items[j + 1]
  BY <1>2, RemoveAtShifts
<1>4. DOMAIN rest = 1 .. n - 1
  BY <1>3
<1> HIDE DEF rest, n
<1>5. \A j, k \in 1 .. n : items[j] = items[k] => j = k
  BY <1>1 DEF IsInjective
<1>6. IsInjective(rest)
  <2> SUFFICES ASSUME NEW j \in 1 .. n - 1, NEW k \in 1 .. n - 1,
                      rest[j] = rest[k]
               PROVE  j = k
    BY <1>4 DEF IsInjective
  <2>1. CASE j < i /\ k < i
    BY <1>1, <1>3, <1>5, <2>1
  <2>2. CASE j < i /\ ~(k < i)
    <3>1. items[j] = items[k + 1] /\ j \in 1 .. n /\ k + 1 \in 1 .. n
      BY <1>1, <1>3, <2>2
    <3> QED BY <1>1, <1>2, <1>5, <2>2, <3>1
  <2>3. CASE ~(j < i) /\ k < i
    <3>1. items[j + 1] = items[k] /\ j + 1 \in 1 .. n /\ k \in 1 .. n
      BY <1>1, <1>3, <2>3
    <3> QED BY <1>1, <1>2, <1>5, <2>3, <3>1
  <2>4. CASE ~(j < i) /\ ~(k < i)
    <3>1. items[j + 1] = items[k + 1] /\ j + 1 \in 1 .. n /\ k + 1 \in 1 .. n
      BY <1>1, <1>3, <2>4
    <3>2. j + 1 = k + 1
      BY <1>5, <3>1
    <3> QED BY <3>2
  <2> QED BY <2>1, <2>2, <2>3, <2>4
<1>7. ToSet(rest) = ToSet(items) \ {a}
  <2>1. ASSUME NEW j \in 1 .. n - 1
        PROVE  rest[j] \in ToSet(items) \ {a}
    <3>1. CASE j < i
      <4>1. rest[j] = items[j] /\ j \in 1 .. n /\ j # i
        BY <1>1, <1>3, <3>1
      <4> QED BY <1>1, <1>2, <1>5, <4>1 DEF ToSet
    <3>2. CASE ~(j < i)
      <4>1. rest[j] = items[j + 1] /\ j + 1 \in 1 .. n /\ j + 1 # i
        BY <1>1, <1>2, <1>3, <3>2
      <4> QED BY <1>1, <1>2, <1>5, <4>1 DEF ToSet
    <3> QED BY <3>1, <3>2
  <2>2. ASSUME NEW k \in 1 .. n, items[k] # a
        PROVE  items[k] \in ToSet(rest)
    <3>1. k # i
      BY <1>2, <2>2
    <3>2. CASE k < i
      <4>1. k \in 1 .. n - 1 /\ rest[k] = items[k]
        BY <1>1, <1>2, <1>3, <3>2
      <4> QED BY <1>4, <4>1 DEF ToSet
    <3>3. CASE k > i
      <4>1. k - 1 \in 1 .. n - 1 /\ rest[k - 1] = items[k]
        BY <1>1, <1>2, <1>3, <3>3
      <4> QED BY <1>4, <4>1 DEF ToSet
    <3> QED BY <1>2, <3>1, <3>2, <3>3
  <2> QED BY <1>1, <1>4, <2>1, <2>2 DEF ToSet
<1> QED
  BY <1>3, <1>6, <1>7 DEF rest, i, n

\* A list without repetition has as many elements as its set.
LEMMA LengthIsCardinality ==
    ASSUME NEW S, NEW items \in Seq(S), IsInjective(items)
    PROVE  /\ IsFiniteSet(ToSet(items))
           /\ Cardinality(ToSet(items)) = Len(items)
<1>1. Len(items) \in Nat /\ DOMAIN items = 1 .. Len(items)
  OBVIOUS
<1>2. items \in Bijection(1 .. Len(items), ToSet(items))
  BY <1>1 DEF Bijection, Injection, Surjection, ToSet, IsInjective
<1>3. ExistsBijection(1 .. Len(items), ToSet(items))
  BY <1>2 DEF ExistsBijection
<1> QED
  BY <1>1, <1>3, FS_CountingElements, FS_NatBijection

-----------------------------------------------------------------------------
(* The tables.                                                             *)

LedgerType ==
    /\ byAddress \in [DOMAIN byAddress -> MemItem] /\ DOMAIN byAddress \subseteq Addr
    /\ byStack \in [DOMAIN byStack -> StackItem] /\ DOMAIN byStack \subseteq Stack
    /\ hasRecoveryStack \in 0 .. RecoveryModulus - 1

Recovering == {s \in DOMAIN byStack : byStack[s].isRecovery}

\* What the tables say of one stack.
StackConsistent(s) ==
    /\ ToSet(byStack[s].items) = Outstanding(s)
    /\ IsInjective(byStack[s].items)
    /\ byStack[s].count = Len(byStack[s].items)
    /\ byStack[s].count > 0

\* A set of stacks is counted without wrapping around.
LEMMA RecoveryCount ==
    ASSUME NEW T \in SUBSET Stack
    PROVE  /\ IsFiniteSet(T)
           /\ Cardinality(T) \in 0 .. RecoveryModulus - 1
<1>1. IsFiniteSet(T) /\ Cardinality(T) <= Cardinality(Stack)
  BY StackAssumption, FS_Subset
<1>2. Cardinality(T) \in Nat /\ Cardinality(Stack) \in Nat
  BY <1>1, StackAssumption, FS_CardinalityType
<1> QED
  BY <1>1, <1>2, StackAssumption, ConstantsAssumption DEF ConstantsAssumption

\* A number that fits is not changed by the wrap-around.
LEMMA SmallModulus ==
    ASSUME NEW n \in 0 .. RecoveryModulus - 1
    PROVE  n % RecoveryModulus = n
<1>1. RecoveryModulus \in Nat \ {0}
  BY ConstantsAssumption DEF ConstantsAssumption
<1> QED
  BY <1>1

\* Recording a new block under stack s, whose item becomes "item", keeps the
\* tables consistent.
LEMMA RecordKeepsLedger ==
    ASSUME LedgerType, LedgerConsistent,
           NEW a \in Addr \ DOMAIN byAddress, NEW s \in Stack, NEW size \in Nat,
           NEW old \in StackItem,
           old = IF s \in DOMAIN byStack THEN byStack[s] ELSE NewStackItem,
           NEW item \in StackItem,
           item.items = Append(old.items, a),
           item.count = old.count + 1,
           old.isRecovery => item.isRecovery,
           Record(a, size, s),
           byStack' = With(byStack, s, item),
           hasRecoveryStack' = IF item.isRecovery /\ ~old.isRecovery
                               THEN (hasRecoveryStack + 1) % RecoveryModulus
                               ELSE hasRecoveryStack
    PROVE  /\ LedgerType' /\ LedgerConsistent'
           /\ Outstanding(s)' = Outstanding(s) \cup {a}
           /\ \A u \in Stack \ {s} : Outstanding(u)' = Outstanding(u)
           /\ Cardinality(Outstanding(s)') = item.count
           /\ Recovering' = IF item.isRecovery THEN Recovering \cup {s} ELSE Recovering
<1>1. /\ DOMAIN byAddress' = DOMAIN byAddress \cup {a}
      /\ byAddress'[a] = [stack |-> s, size |-> size]
      /\ \A b \in DOMAIN byAddress : byAddress'[b] = byAddress[b]
      /\ byAddress' \in [DOMAIN byAddress' -> MemItem]
  BY DEF Record, With, LedgerType, MemItem
<1>2. /\ DOMAIN byStack' = DOMAIN byStack \cup {s}
      /\ byStack'[s] = item
      /\ \A u \in DOMAIN byStack : u # s => byStack'[u] = byStack[u]
      /\ byStack' \in [DOMAIN byStack' -> StackItem]
  BY DEF With, LedgerType
<1>3. /\ Outstanding(s)' = Outstanding(s) \cup {a}
      /\ \A u \in Stack \ {s} : Outstanding(u)' = Outstanding(u)
  BY <1>1 DEF Outstanding
<1>4. /\ ToSet(old.items) = Outstanding(s)
      /\ IsInjective(old.items)
      /\ old.count = Len(old.items)
      /\ old.items \in Seq(Addr)
      /\ old.count \in Nat
  <2>1. CASE s \in DOMAIN byStack
    BY <2>1 DEF LedgerConsistent, StackItem
  <2>2. CASE s \notin DOMAIN byStack
    <3>1. old.items = << >> /\ old.count = 0
      BY <2>2 DEF NewStackItem
    <3>2. Outstanding(s) = {}
      BY <2>2 DEF LedgerConsistent, Outstanding
    <3>3. Len(<< >>) = 0 /\ << >> \in Seq(Addr) /\ DOMAIN << >> = {}
      OBVIOUS
    <3>4. ToSet(old.items) = {} /\ IsInjective(old.items)
      BY <3>1, <3>3 DEF ToSet, IsInjective
    <3>5. Len(old.items) = 0
      BY <3>1, <3>3
    <3>6. old.items \in Seq(Addr) /\ old.count \in Nat
      BY DEF StackItem
    <3> QED BY <3>1, <3>2, <3>4, <3>5, <3>6
  <2> QED BY <2>1, <2>2
<1>5. StackConsistent(s)'
  <2>1. a \notin ToSet(old.items)
    BY <1>4 DEF Outstanding
  <2>2. /\ ToSet(item.items) = ToSet(old.items) \cup {a}
        /\ IsInjective(item.items)
        /\ Len(item.items) = Len(old.items) + 1
    BY <1>4, <2>1, AppendElement
  <2>3. old.count + 1 = Len(old.items) + 1 /\ old.count + 1 > 0
    BY <1>4
  <2> QED
    BY <1>2, <1>3, <1>4, <2>2, <2>3 DEF StackConsistent
<1>6. \A u \in DOMAIN byStack : u # s => StackConsistent(u)'
  BY <1>2, <1>3 DEF StackConsistent, LedgerConsistent, LedgerType
<1>7. \A b \in DOMAIN byAddress' : byAddress'[b].stack \in DOMAIN byStack'
  BY <1>1, <1>2 DEF LedgerConsistent
<1>8. Recovering' = IF item.isRecovery THEN Recovering \cup {s} ELSE Recovering
  BY <1>2 DEF Recovering, NewStackItem
<1>9. /\ hasRecoveryStack' = Cardinality(Recovering')
      /\ hasRecoveryStack' \in 0 .. RecoveryModulus - 1
  <2>2. s \in Recovering <=> old.isRecovery
    BY DEF Recovering, NewStackItem
  <2>3. Recovering \in SUBSET Stack /\ Recovering' \in SUBSET Stack
    BY <1>2 DEF Recovering, LedgerType
  <2>4. /\ IsFiniteSet(Recovering)
        /\ Cardinality(Recovering) \in 0 .. RecoveryModulus - 1
        /\ Cardinality(Recovering') \in 0 .. RecoveryModulus - 1
    BY <2>3, RecoveryCount
  <2>5. hasRecoveryStack = Cardinality(Recovering)
    BY DEF LedgerConsistent, Recovering
  <2>6. CASE item.isRecovery /\ ~old.isRecovery
    <3>1. Cardinality(Recovering') = Cardinality(Recovering) + 1
      BY <1>8, <2>2, <2>4, <2>6, FS_AddElement
    <3>2. hasRecoveryStack + 1 \in 0 .. RecoveryModulus - 1
      BY <2>4, <2>5, <3>1
    <3>3. (hasRecoveryStack + 1) % RecoveryModulus = hasRecoveryStack + 1
      BY <3>2, SmallModulus
    <3> QED BY <2>4, <2>5, <2>6, <3>1, <3>3
  <2>7. CASE ~(item.isRecovery /\ ~old.isRecovery)
    <3>1. Recovering' = Recovering
      BY <1>8, <2>2, <2>7
    <3> QED BY <2>4, <2>5, <2>7, <3>1
  <2> QED BY <2>6, <2>7
<1>10. LedgerType'
  BY <1>1, <1>2, <1>9 DEF LedgerType
<1>11. LedgerConsistent'
  BY <1>2, <1>5, <1>6, <1>7, <1>9
  DEF LedgerConsistent, StackConsistent, Recovering
<1>12. Cardinality(Outstanding(s)') = item.count
  <2>1. item.items \in Seq(Addr) /\ IsInjective(item.items)
        /\ ToSet(item.items) = Outstanding(s)' /\ item.count = Len(item.items)
    BY <1>2, <1>5 DEF StackConsistent, StackItem
  <2> QED BY <2>1, LengthIsCardinality
<1> QED
  BY <1>3, <1>8, <1>10, <1>11, <1>12

\* The instance brings its own copy of Cardinality.
LEMMA SameCardinality ==
    ASSUME NEW S
    PROVE  Ledger!Cardinality(S) = Cardinality(S)
BY Zenon DEF Ledger!Cardinality, Cardinality

\* A step with the effect of the abstract Record is one.
LEMMA EffectIsRecord ==
    ASSUME NEW a \in Addr \ DOMAIN byAddress, NEW s \in Stack, NEW leak \in BOOLEAN,
           leak <=> /\ Outstanding(s) # {}
                    /\ Cardinality(Outstanding(s) \cup {a}) > CountMax,
           Outstanding(s)' = Outstanding(s) \cup {a},
           \A u \in Stack \ {s} : Outstanding(u)' = Outstanding(u),
           analyzeOngoing' =
               (analyzeOngoing /\ ~(leak /\ FinalAction = "PrintStackAndExit")),
           Recovering' = IF leak /\ FinalAction = "TryFixLeak"
                         THEN Recovering \cup {s} ELSE Recovering
    PROVE  Ledger!Record(a, s)
<1>1. \A u \in Stack : a \notin Outstanding(u)
  BY DEF Outstanding
<1>2. [u \in Stack |-> Outstanding(u)'] =
         [[u \in Stack |-> Outstanding(u)] EXCEPT ![s] = Outstanding(s) \cup {a}]
  OBVIOUS
<1>3. [u \in Stack |-> Outstanding(u)][s] = Outstanding(s)
  OBVIOUS
<1>4. \A u \in Stack : a \notin [v \in Stack |-> Outstanding(v)][u]
  BY <1>1
<1>5. analyzeOngoing' = (analyzeOngoing /\ ~(
          /\ /\ [u \in Stack |-> Outstanding(u)][s] # {}
             /\ Ledger!Cardinality([u \in Stack |-> Outstanding(u)][s] \cup {a}) > CountMax
          /\ FinalAction = "PrintStackAndExit"))
  BY <1>3, SameCardinality
<1>6. Recovering' =
          IF /\ /\ [u \in Stack |-> Outstanding(u)][s] # {}
                /\ Ledger!Cardinality([u \in Stack |-> Outstanding(u)][s] \cup {a}) > CountMax
             /\ FinalAction = "TryFixLeak"
          THEN Recovering \cup {s} ELSE Recovering
  BY <1>3, SameCardinality
<1> QED
  BY <1>2, <1>3, <1>4, <1>5, <1>6, Zenon DEF Ledger!Record, Recovering

\* AddAllocedItemNoLock keeps the tables consistent, whatever final action it
\* calls, and is a Record of the abstract ledger (or the failed assertion).
LEMMA AddKeepsLedger ==
    ASSUME LedgerType, LedgerConsistent, analyzeOngoing \in BOOLEAN,
           NEW t \in Thread, NEW a \in Addr, NEW size \in Nat, NEW s \in Stack,
           AddAllocedItemNoLock(t, a, size, s)
    PROVE  /\ LedgerType' /\ LedgerConsistent'
           /\ UNCHANGED <<ledger, analyzeOngoing>> \/ Ledger!Record(a, s)
<1>1. CASE a \in DOMAIN byAddress
  <2>1. UNCHANGED <<ledger, analyzeOngoing>>
    BY <1>1 DEF AddAllocedItemNoLock
  <2> QED
    BY <2>1 DEF ledger, LedgerType, LedgerConsistent, Outstanding
<1>2. CASE a \notin DOMAIN byAddress /\ s \in DOMAIN byStack
  <2> DEFINE old  == byStack[s]
             item == CreateMemoryItem(old, a)
             mend == [item EXCEPT !.isRecovery = TRUE]
             leak == item.count > CountMax
  <2>1. /\ old \in StackItem
        /\ old.items \in Seq(Addr) /\ old.count \in Nat /\ old.isRecovery \in BOOLEAN
    BY <1>2 DEF LedgerType, StackItem
  <2>2. /\ item \in StackItem
        /\ item.items = Append(old.items, a)
        /\ item.count = old.count + 1
        /\ item.isRecovery = old.isRecovery
    BY <2>1, AppendElement DEF CreateMemoryItem, StackItem
  <2>3. /\ mend \in StackItem
        /\ mend.items = item.items /\ mend.count = item.count /\ mend.isRecovery
    BY <2>2 DEF StackItem
  <2>4. Record(a, size, s)
    BY <1>2 DEF AddAllocedItemNoLock
  <2>5. Outstanding(s) # {}
    <3>1. Len(old.items) > 0 /\ ToSet(old.items) = Outstanding(s)
      BY <1>2 DEF LedgerConsistent
    <3>2. old.items[1] \in ToSet(old.items)
      BY <2>1, <3>1 DEF ToSet
    <3> QED BY <3>1, <3>2
  <2>6. s \in Recovering <=> old.isRecovery
    BY <1>2 DEF Recovering
  <2>7. CASE /\ byStack' = With(byStack, s, item) /\ hasRecoveryStack' = hasRecoveryStack
             /\ analyzeOngoing' = (analyzeOngoing /\ ~leak)
             /\ leak => FinalAction = "PrintStackAndExit"
    <3> HIDE DEF item, old
    <3>1. /\ LedgerType' /\ LedgerConsistent'
          /\ Outstanding(s)' = Outstanding(s) \cup {a}
          /\ \A u \in Stack \ {s} : Outstanding(u)' = Outstanding(u)
          /\ Cardinality(Outstanding(s)') = item.count
          /\ Recovering' = IF item.isRecovery THEN Recovering \cup {s} ELSE Recovering
      BY <1>2, <2>1, <2>2, <2>4, <2>7, RecordKeepsLedger DEF old
    <3>2. Recovering' = Recovering
      BY <2>2, <2>6, <3>1
    <3>3. Ledger!Record(a, s)
      BY <1>2, <2>5, <2>7, <3>1, <3>2, EffectIsRecord
    <3> QED BY <3>1, <3>3
  <2>8. CASE /\ byStack' = With(byStack, s, mend)
             /\ hasRecoveryStack' = IF item.isRecovery THEN hasRecoveryStack
                                    ELSE (hasRecoveryStack + 1) % RecoveryModulus
             /\ analyzeOngoing' = analyzeOngoing
             /\ leak /\ FinalAction = "TryFixLeak"
    <3> HIDE DEF item, old, mend
    <3>1. /\ LedgerType' /\ LedgerConsistent'
          /\ Outstanding(s)' = Outstanding(s) \cup {a}
          /\ \A u \in Stack \ {s} : Outstanding(u)' = Outstanding(u)
          /\ Cardinality(Outstanding(s)') = mend.count
          /\ Recovering' = IF mend.isRecovery THEN Recovering \cup {s} ELSE Recovering
      BY <1>2, <2>1, <2>2, <2>3, <2>4, <2>8, RecordKeepsLedger DEF old
    <3>2. Recovering' = Recovering \cup {s}
      BY <2>3, <3>1
    <3>3. Cardinality(Outstanding(s) \cup {a}) > CountMax
      BY <2>3, <2>8, <3>1
    <3>4. Ledger!Record(a, s)
      BY <1>2, <2>5, <2>8, <3>1, <3>2, <3>3, EffectIsRecord
    <3> QED BY <3>1, <3>4
  <2>9. \/ /\ byStack' = With(byStack, s, item) /\ hasRecoveryStack' = hasRecoveryStack
           /\ leak /\ FinalAction = "PrintStackAndExit" /\ analyzeOngoing' = FALSE
        \/ /\ byStack' = With(byStack, s, item) /\ hasRecoveryStack' = hasRecoveryStack
           /\ ~leak /\ analyzeOngoing' = analyzeOngoing
        \/ /\ byStack' = With(byStack, s, mend)
           /\ hasRecoveryStack' = IF item.isRecovery THEN hasRecoveryStack
                                  ELSE (hasRecoveryStack + 1) % RecoveryModulus
           /\ leak /\ FinalAction = "TryFixLeak" /\ analyzeOngoing' = analyzeOngoing
    BY <1>2 DEF AddAllocedItemNoLock, FinalActionPrintStackAndExit,
                FinalActionTryFixLeak, IsLeak
  <2> HIDE DEF item, old, mend, leak
  <2> QED BY <2>7, <2>8, <2>9
<1>3. CASE a \notin DOMAIN byAddress /\ s \notin DOMAIN byStack
  <2> DEFINE old  == NewStackItem
             item == CreateMemoryItem(old, a)
  <2>1. /\ old \in StackItem
        /\ old.items \in Seq(Addr) /\ old.count \in Nat /\ ~old.isRecovery
        /\ old.isRecovery \in BOOLEAN
    BY DEF NewStackItem, StackItem
  <2>2. /\ item \in StackItem
        /\ item.items = Append(old.items, a)
        /\ item.count = old.count + 1
        /\ item.isRecovery = old.isRecovery
    BY <2>1, AppendElement DEF CreateMemoryItem, StackItem
  <2>3. /\ Record(a, size, s)
        /\ byStack' = With(byStack, s, item)
        /\ hasRecoveryStack' = hasRecoveryStack
        /\ analyzeOngoing' = analyzeOngoing
    BY <1>3 DEF AddAllocedItemNoLock
  <2> HIDE DEF item, old
  <2>4. /\ LedgerType' /\ LedgerConsistent'
        /\ Outstanding(s)' = Outstanding(s) \cup {a}
        /\ \A u \in Stack \ {s} : Outstanding(u)' = Outstanding(u)
        /\ Recovering' = Recovering
    BY <1>3, <2>1, <2>2, <2>3, RecordKeepsLedger DEF old
  <2>5. Outstanding(s) = {}
    BY <1>3 DEF LedgerConsistent, Outstanding
  <2>6. Ledger!Record(a, s)
    BY <1>3, <2>3, <2>4, <2>5, EffectIsRecord
  <2> QED BY <2>4, <2>6
<1> QED
  BY <1>1, <1>2, <1>3

\* RemoveAllocedItemNoLock keeps the tables consistent, and is a Forget of the
\* abstract ledger (or finds nothing to forget).
LEMMA RemoveKeepsLedger ==
    ASSUME LedgerType, LedgerConsistent, NEW a, RemoveAllocedItemNoLock(a),
           UNCHANGED analyzeOngoing
    PROVE  /\ LedgerType' /\ LedgerConsistent'
           /\ UNCHANGED ledger \/ \E s \in Stack : a \in Addr /\ Ledger!Forget(a, s)
<1>1. CASE a \notin DOMAIN byAddress
  <2>1. UNCHANGED ledger
    BY <1>1 DEF RemoveAllocedItemNoLock
  <2> QED
    BY <2>1 DEF ledger, LedgerType, LedgerConsistent, Outstanding
<1>2. CASE a \in DOMAIN byAddress
  <2>0. PICK s \in Stack : s = byAddress[a].stack
    BY <1>2 DEF LedgerType, MemItem
  <2> DEFINE old  == byStack[s]
             item == RemoveMemoryItem(old, a)
             calm == item.count < 3 /\ item.isRecovery
             kept == IF calm THEN [item EXCEPT !.isRecovery = FALSE] ELSE item
  <2>1. s \in DOMAIN byStack /\ s \in Stack /\ old \in StackItem
    BY <1>2, <2>0 DEF LedgerConsistent, LedgerType
  <2>2. /\ ToSet(old.items) = Outstanding(s) /\ IsInjective(old.items)
        /\ old.count = Len(old.items) /\ old.count > 0
        /\ old.items \in Seq(Addr) /\ old.isRecovery \in BOOLEAN
    BY <2>1 DEF LedgerConsistent, StackItem
  <2>3. a \in ToSet(old.items)
    BY <1>2, <2>0, <2>2 DEF Outstanding
  <2>4. /\ item.items \in Seq(Addr)
        /\ Len(item.items) = Len(old.items) - 1
        /\ ToSet(item.items) = Outstanding(s) \ {a}
        /\ IsInjective(item.items)
        /\ item.count = old.count - 1
        /\ item.isRecovery = old.isRecovery
        /\ item = [count |-> item.count, items |-> item.items,
                   isRecovery |-> item.isRecovery]
    <3>1. item = [count |-> old.count - 1,
                  items |-> RemoveAt(old.items, Position(old.items, a)),
                  isRecovery |-> old.isRecovery]
      BY <2>1 DEF RemoveMemoryItem, StackItem
    <3> HIDE DEF item, old
    <3> QED BY <2>2, <2>3, <3>1, RemoveElement
  <2>5. item.count \in Nat /\ item.count = Len(item.items)
    BY <2>2, <2>4
  <2>6. /\ byAddress' = Without(byAddress, a)
        /\ byStack' = IF item.count = 0 THEN Without(byStack, s)
                      ELSE [byStack EXCEPT ![s] = kept]
        /\ hasRecoveryStack' = IF calm
                               THEN (hasRecoveryStack - 1) % RecoveryModulus
                               ELSE hasRecoveryStack
    BY <1>2, <2>0 DEF RemoveAllocedItemNoLock, IsCalm
  <2>7. /\ kept \in StackItem
        /\ kept.items = item.items /\ kept.count = item.count
        /\ kept.isRecovery = (item.isRecovery /\ ~calm)
    <3> HIDE DEF item, old
    <3> QED BY <2>2, <2>4, <2>5 DEF StackItem
  <2> HIDE DEF old, item, kept
  <2>8. /\ DOMAIN byAddress' = DOMAIN byAddress \ {a}
        /\ \A b \in DOMAIN byAddress' : byAddress'[b] = byAddress[b]
        /\ byAddress' \in [DOMAIN byAddress' -> MemItem]
    BY <2>6 DEF Without, Restrict, LedgerType
  <2>9. /\ DOMAIN byStack' = IF item.count = 0 THEN DOMAIN byStack \ {s}
                             ELSE DOMAIN byStack
        /\ item.count # 0 => byStack'[s] = kept
        /\ \A u \in DOMAIN byStack : u # s => byStack'[u] = byStack[u]
        /\ byStack' \in [DOMAIN byStack' -> StackItem]
    BY <2>1, <2>6, <2>7 DEF Without, Restrict, LedgerType
  <2>10. /\ Outstanding(s)' = Outstanding(s) \ {a}
         /\ \A u \in Stack \ {s} : Outstanding(u)' = Outstanding(u)
    BY <1>2, <2>0, <2>8 DEF Outstanding
  <2>11. item.count # 0 => StackConsistent(s)'
    <3>1. item.count # 0 => item.count > 0
      BY <2>5
    <3> QED BY <2>1, <2>4, <2>5, <2>7, <2>9, <2>10, <3>1 DEF StackConsistent
  <2>12. \A u \in DOMAIN byStack : u # s => StackConsistent(u)'
    BY <2>9, <2>10 DEF StackConsistent, LedgerConsistent, LedgerType
  <2>13. \A b \in DOMAIN byAddress' : byAddress'[b].stack \in DOMAIN byStack'
    <3>1. CASE item.count # 0
      BY <2>8, <2>9, <3>1 DEF LedgerConsistent
    <3>2. CASE item.count = 0
      <4>1. ToSet(item.items) = {}
        BY <2>4, <2>5, <3>2 DEF ToSet
      <4>2. Outstanding(s)' = {}
        BY <2>4, <2>10, <4>1
      <4>3. \A b \in DOMAIN byAddress' : byAddress'[b].stack # s
        BY <4>2 DEF Outstanding
      <4> QED BY <2>8, <2>9, <4>3 DEF LedgerConsistent
    <3> QED BY <3>1, <3>2
  <2>14. Recovering' = IF calm THEN Recovering \ {s} ELSE Recovering
    <3>1. s \in Recovering <=> item.isRecovery
      BY <2>1, <2>4 DEF Recovering, old
    <3>2. \A u \in DOMAIN byStack : u # s => (u \in Recovering' <=> u \in Recovering)
      BY <2>9 DEF Recovering
    <3>3. s \in Recovering' <=> item.isRecovery /\ ~calm
      <4>1. CASE item.count = 0
        BY <2>9, <4>1 DEF Recovering
      <4>2. CASE item.count # 0
        BY <2>1, <2>7, <2>9, <4>2 DEF Recovering
      <4> QED BY <4>1, <4>2
    <3>4. Recovering \subseteq DOMAIN byStack /\ Recovering' \subseteq DOMAIN byStack
      BY <2>9 DEF Recovering
    <3> QED BY <3>1, <3>2, <3>3, <3>4
  <2>15. /\ hasRecoveryStack' = Cardinality(Recovering')
         /\ hasRecoveryStack' \in 0 .. RecoveryModulus - 1
    <3>2. Recovering \in SUBSET Stack /\ Recovering' \in SUBSET Stack
      BY <2>9 DEF Recovering, LedgerType
    <3>3. /\ IsFiniteSet(Recovering)
          /\ Cardinality(Recovering) \in 0 .. RecoveryModulus - 1
          /\ Cardinality(Recovering') \in 0 .. RecoveryModulus - 1
      BY <3>2, RecoveryCount
    <3>4. hasRecoveryStack = Cardinality(Recovering)
      BY DEF LedgerConsistent, Recovering
    <3>5. CASE calm
      <4>1. s \in Recovering
        BY <2>1, <2>4, <3>5 DEF Recovering, old
      <4>2. Cardinality(Recovering') = Cardinality(Recovering) - 1
        BY <2>14, <3>3, <3>5, <4>1, FS_RemoveElement
      <4>3. hasRecoveryStack - 1 \in 0 .. RecoveryModulus - 1
        BY <3>3, <3>4, <4>2
      <4>4. (hasRecoveryStack - 1) % RecoveryModulus = hasRecoveryStack - 1
        BY <4>3, SmallModulus
      <4> QED BY <2>6, <3>3, <3>4, <3>5, <4>2, <4>4
    <3>6. CASE ~calm
      BY <2>6, <2>14, <3>3, <3>4, <3>6
    <3> QED BY <3>5, <3>6
  <2>16. LedgerType'
    BY <2>8, <2>9, <2>15 DEF LedgerType
  <2>17. LedgerConsistent'
    BY <2>9, <2>11, <2>12, <2>13, <2>15
    DEF LedgerConsistent, StackConsistent, Recovering
  <2>18. Ledger!Forget(a, s)
    <3> DEFINE blocks == Outstanding(s) \ {a}
    <3>1. Cardinality(blocks) = item.count
      BY <2>4, <2>5, LengthIsCardinality
    <3>2. Recovering' = IF Cardinality(blocks) < 3 THEN Recovering \ {s} ELSE Recovering
      BY <2>1, <2>4, <2>14, <3>1 DEF Recovering, old
    <3>3. [u \in Stack |-> Outstanding(u)'] =
             [[u \in Stack |-> Outstanding(u)] EXCEPT ![s] = blocks]
      BY <2>10
    <3>4. a \in Outstanding(s)
      BY <2>2, <2>3
    <3>5. [u \in Stack |-> Outstanding(u)][s] = Outstanding(s)
      OBVIOUS
    <3>6. Recovering' =
             IF Ledger!Cardinality([u \in Stack |-> Outstanding(u)][s] \ {a}) < 3
             THEN Recovering \ {s} ELSE Recovering
      BY <3>2, <3>5, SameCardinality
    <3> QED BY <3>3, <3>4, <3>5, <3>6, Zenon DEF Ledger!Forget, Recovering
  <2> QED BY <1>2, <2>16, <2>17, <2>18 DEF LedgerType
<1> QED
  BY <1>1, <1>2

-----------------------------------------------------------------------------
(* Threads.                                                                *)

\* The types of everything but the tables.
ThreadType ==
    /\ analyzeOngoing \in BOOLEAN
    /\ bInitializationTimeNotPassed \in BOOLEAN
    /\ mutex \in Thread \cup {NULL}
    /\ ignore \in [Thread -> 0 .. 2]
    /\ pc \in [Thread -> Location]
    /\ frame \in [Thread -> Frame]
    /\ timeOver \in BOOLEAN
    /\ heap \in [DOMAIN heap -> Block] /\ DOMAIN heap \subseteq Addr
    /\ held \in [Addr -> Nat]
    /\ process \in {"running", "exited", "aborted", "crashed"}

\* A thread that records a block knows the block and, when it goes for the
\* mutex, the stack; only realloc records after it removed.
FrameOK ==
    \A t \in Thread :
        /\ pc[t] \in Tracing \cup {"lock"} =>
              /\ frame[t].op \in {"alloc", "realloc"}
              /\ frame[t].op = "realloc" => frame[t].ret \in Addr
        /\ pc[t] = "lock" => frame[t].stack \in Stack
        /\ pc[t] = "addcheck" => frame[t].op = "realloc"

\* The thread-local counter is the depth of a thread's calls in the analyzer.
CounterOK ==
    process = "running" => \A t \in Thread : ignore[t] = Depth(pc[t])

\* The inductive invariant.  It leaves the mutex out: a critical section's body is
\* one step, and what keeps the tables together is that, and the counter.
IInv ==
    /\ ThreadType /\ LedgerType
    /\ CounterOK
    /\ FrameOK
    /\ LedgerConsistent

LEMMA TypeSplits == TypeOK <=> ThreadType /\ LedgerType
  BY DEF TypeOK, ThreadType, LedgerType

LEMMA LedgerUnchanged ==
    ASSUME LedgerType, LedgerConsistent, UNCHANGED ledger
    PROVE  LedgerType' /\ LedgerConsistent'
  BY DEF ledger, LedgerType, LedgerConsistent, Outstanding

\* Where a thread is after it recorded a block: aborted with the mutex, about
\* to release it, or reporting without it.
LEMMA AddMoves ==
    ASSUME IInv, NEW t \in Thread, NEW a, NEW size, NEW s,
           At(t, "lock"), AddAllocedItemNoLock(t, a, size, s)
    PROVE  \/ /\ process' = "aborted" /\ mutex' = t
              /\ UNCHANGED <<analyzeOngoing, ignore, pc>>
           \/ /\ pc' = [pc EXCEPT ![t] = "unlock"] /\ mutex' = t
              /\ UNCHANGED <<analyzeOngoing, ignore, process>>
           \/ /\ pc' = [pc EXCEPT ![t] = "print"] /\ mutex' = NULL
              /\ analyzeOngoing' = FALSE
              /\ ignore' = [ignore EXCEPT ![t] = 0]
              /\ UNCHANGED process
<1>1. ignore[t] = 1 /\ ignore \in [Thread -> 0 .. 2]
  BY DEF IInv, ThreadType, CounterOK, Depth, At
<1>2. CASE a \in DOMAIN byAddress
  BY <1>2 DEF AddAllocedItemNoLock, Stop
<1>3. CASE a \notin DOMAIN byAddress
  BY <1>1, <1>3
  DEF AddAllocedItemNoLock, FinalActionPrintStackAndExit,
      FinalActionTryFixLeak, Goto, StopIgnoring
<1> QED
  BY <1>2, <1>3

\* The steps of malloc and calloc.
LEMMA AllocEarlyKeeps ==
    ASSUME IInv, NEW t \in Thread, AllocEarly(t)
    PROVE  IInv'
<1> USE DEF IInv
<1>1. LedgerType' /\ LedgerConsistent'
  BY LedgerUnchanged DEF AllocEarly
<1>2. ThreadType'
  <2>1. held' \in [Addr -> Nat]
    BY ConstantsAssumption DEF AllocEarly, At, With, Available, Free,
       ThreadType, ConstantsAssumption, Frame
  <2>2. heap' \in [DOMAIN heap' -> Block] /\ DOMAIN heap' \subseteq Addr
    BY ConstantsAssumption DEF AllocEarly, At, With, Available, Free,
       ThreadType, ConstantsAssumption, Block
  <2> QED
    BY <2>1, <2>2, ConstantsAssumption DEF AllocEarly, At, With, Available,
       Free, ThreadType, ConstantsAssumption, gate
<1>3. CounterOK'
  BY ConstantsAssumption DEF AllocEarly, At, With, Available, Free,
     ThreadType, ConstantsAssumption, CounterOK, Depth
<1>4. FrameOK'
  BY ConstantsAssumption DEF AllocEarly, At, With, Available, Free,
     ThreadType, ConstantsAssumption, FrameOK, Tracing, Frame
<1> QED
  BY <1>1, <1>2, <1>3, <1>4

LEMMA AllocCallKeeps ==
    ASSUME IInv, NEW t \in Thread, AllocCall(t)
    PROVE  IInv'
<1> USE DEF IInv
<1>1. LedgerType' /\ LedgerConsistent'
  BY LedgerUnchanged DEF AllocCall
<1>2. ThreadType'
  <2>1. frame' \in [Thread -> Frame]
    BY ConstantsAssumption DEF AllocCall, At, PassedEarlyReturn,
       HasReasonForEarlyReturn, Ignore, Goto, CallFrame, ThreadType,
       ConstantsAssumption, Frame
  <2>2. ignore' \in [Thread -> 0 .. 2]
    BY ConstantsAssumption DEF AllocCall, At, PassedEarlyReturn,
       HasReasonForEarlyReturn, Ignore, Goto, CallFrame, ThreadType,
       ConstantsAssumption, CounterOK, Depth
  <2>3. pc' \in [Thread -> Location]
    BY ConstantsAssumption DEF AllocCall, At, PassedEarlyReturn,
       HasReasonForEarlyReturn, Ignore, Goto, CallFrame, ThreadType,
       ConstantsAssumption, Location, Tracing
  <2> QED
    BY <2>1, <2>2, <2>3, ConstantsAssumption DEF AllocCall, At,
       PassedEarlyReturn, HasReasonForEarlyReturn, Ignore, Goto, CallFrame,
       ThreadType, ConstantsAssumption, gate
<1>3. CounterOK'
  BY ConstantsAssumption DEF AllocCall, At, PassedEarlyReturn,
     HasReasonForEarlyReturn, Ignore, Goto, CallFrame, ThreadType,
     ConstantsAssumption, CounterOK, Depth
<1>4. FrameOK'
  BY ConstantsAssumption DEF AllocCall, At, PassedEarlyReturn,
     HasReasonForEarlyReturn, Ignore, Goto, CallFrame, ThreadType,
     ConstantsAssumption, FrameOK, Tracing, Frame
<1> QED
  BY <1>1, <1>2, <1>3, <1>4

LEMMA TraceAllocatesKeeps ==
    ASSUME IInv, NEW t \in Thread, TraceAllocates(t)
    PROVE  IInv'
<1> USE DEF IInv
<1>1. LedgerType' /\ LedgerConsistent'
  BY LedgerUnchanged DEF TraceAllocates
<1>2. ThreadType'
  <2>1. frame' \in [Thread -> Frame]
    <3>1. PICK a \in Addr : frame' = [frame EXCEPT ![t].scratch = a]
      BY DEF TraceAllocates, Available, Free
    <3> QED BY <3>1 DEF ThreadType, Frame
  <2>2. heap' \in [DOMAIN heap' -> Block] /\ DOMAIN heap' \subseteq Addr
    BY ConstantsAssumption DEF TraceAllocates, At, With, Available, Free,
       ThreadType, ConstantsAssumption, Block
  <2> QED
    BY <2>1, <2>2, ConstantsAssumption DEF TraceAllocates, At, With,
       Available, Free, ThreadType, ConstantsAssumption, gate
<1>3. CounterOK'
  BY ConstantsAssumption DEF TraceAllocates, At, With, Available, Free,
     ThreadType, ConstantsAssumption, CounterOK, Depth
<1>4. FrameOK'
  BY ConstantsAssumption DEF TraceAllocates, At, With, Available, Free,
     ThreadType, ConstantsAssumption, FrameOK, Tracing, Frame
<1> QED
  BY <1>1, <1>2, <1>3, <1>4

LEMMA TraceReleasesKeeps ==
    ASSUME IInv, NEW t \in Thread, TraceReleases(t)
    PROVE  IInv'
<1> USE DEF IInv
<1>1. LedgerType' /\ LedgerConsistent'
  <2>1. RemoveAllocedItemNoLock(frame[t].scratch) /\ UNCHANGED analyzeOngoing
    BY DEF TraceReleases, gate
  <2> QED BY <2>1, RemoveKeepsLedger
<1>2. /\ pc[t] = "trace" /\ pc' = [pc EXCEPT ![t] = "trunlock"]
      /\ ignore[t] = 1 /\ ignore' = [ignore EXCEPT ![t] = 2]
      /\ process = "running" /\ UNCHANGED process
  <2>1. /\ process = "running" /\ pc[t] = "trace" /\ UNCHANGED process
        /\ pc' = [pc EXCEPT ![t] = "trunlock"]
        /\ ignore' = [ignore EXCEPT ![t] = ignore[t] + 1]
    BY DEF TraceReleases, At, Goto, Ignore
  <2>2. ignore[t] = 1
    BY <2>1 DEF CounterOK, Depth
  <2> QED BY <2>1, <2>2
<1>3. ThreadType'
  BY <1>2, ConstantsAssumption
  DEF TraceReleases, Lock, ThreadType, Location, Tracing, gate, ConstantsAssumption
<1>4. CounterOK'
  BY <1>2 DEF ThreadType, CounterOK, Depth
<1>5. FrameOK'
  BY <1>2 DEF TraceReleases, ThreadType, FrameOK, Tracing
<1> QED
  BY <1>1, <1>3, <1>4, <1>5

LEMMA TraceUnlocksKeeps ==
    ASSUME IInv, NEW t \in Thread, TraceUnlocks(t)
    PROVE  IInv'
<1> USE DEF IInv
<1>1. LedgerType' /\ LedgerConsistent'
  BY LedgerUnchanged DEF TraceUnlocks
<1>2. /\ pc[t] = "trunlock" /\ pc' = [pc EXCEPT ![t] = "tfree"]
      /\ ignore[t] = 2 /\ ignore' = [ignore EXCEPT ![t] = 1] /\ mutex' = NULL
      /\ process = "running" /\ UNCHANGED process
  BY DEF TraceUnlocks, At, Goto, Unlock, StopIgnoring, ThreadType, CounterOK, Depth
<1>3. ThreadType'
  BY <1>2 DEF TraceUnlocks, ThreadType, Location, Tracing, gate
<1>4. CounterOK'
  BY <1>2 DEF ThreadType, CounterOK, Depth
<1>5. FrameOK'
  BY <1>2 DEF TraceUnlocks, ThreadType, FrameOK, Tracing
<1> QED
  BY <1>1, <1>3, <1>4, <1>5

LEMMA TraceFreesKeeps ==
    ASSUME IInv, NEW t \in Thread, TraceFrees(t)
    PROVE  IInv'
<1> USE DEF IInv
<1>1. LedgerType' /\ LedgerConsistent'
  BY LedgerUnchanged DEF TraceFrees
<1>2. /\ pc[t] = "tfree" /\ pc' = [pc EXCEPT ![t] = "trace"]
      /\ UNCHANGED <<mutex, ignore, process>>
  BY DEF TraceFrees, At, Goto
<1>3. ThreadType'
  <2>1. frame' \in [Thread -> Frame]
    BY ConstantsAssumption DEF TraceFrees, ThreadType, ConstantsAssumption, Frame
  <2>2. heap' \in [DOMAIN heap' -> Block] /\ DOMAIN heap' \subseteq Addr
    BY DEF TraceFrees, Without, Restrict, ThreadType, Block
  <2> QED
    BY <1>2, <2>1, <2>2 DEF TraceFrees, ThreadType, Location, Tracing, gate
<1>4. CounterOK'
  BY <1>2 DEF ThreadType, CounterOK, Depth
<1>5. FrameOK'
  BY <1>2 DEF TraceFrees, ThreadType, FrameOK, Frame, Tracing
<1> QED
  BY <1>1, <1>3, <1>4, <1>5

LEMMA TraceSucceedsKeeps ==
    ASSUME IInv, NEW t \in Thread, TraceSucceeds(t)
    PROVE  IInv'
<1> USE DEF IInv
<1>1. LedgerType' /\ LedgerConsistent'
  BY LedgerUnchanged DEF TraceSucceeds
<1>2. ThreadType'
  <2>1. frame' \in [Thread -> Frame]
    <3>1. PICK s \in Stack : frame' = [frame EXCEPT ![t].stack = s]
      BY DEF TraceSucceeds
    <3> QED BY <3>1, SMTT(30) DEF ThreadType, Frame
  <2>2. pc' \in [Thread -> Location]
    BY ConstantsAssumption DEF TraceSucceeds, At, Goto, ThreadType,
       ConstantsAssumption, Location, Tracing
  <2> QED
    BY <2>1, <2>2, ConstantsAssumption DEF TraceSucceeds, At, Goto,
       ThreadType, ConstantsAssumption, gate
<1>3. CounterOK'
  BY ConstantsAssumption DEF TraceSucceeds, At, Goto, ThreadType,
     ConstantsAssumption, CounterOK, Depth
<1>4. FrameOK'
  BY ConstantsAssumption DEF TraceSucceeds, At, Goto, ThreadType,
     ConstantsAssumption, FrameOK, Tracing, Frame
<1> QED
  BY <1>1, <1>2, <1>3, <1>4

LEMMA TraceFailsKeeps ==
    ASSUME IInv, NEW t \in Thread, TraceFails(t)
    PROVE  IInv'
<1> USE DEF IInv
<1>1. LedgerType' /\ LedgerConsistent'
  BY LedgerUnchanged DEF TraceFails
<1>2. ThreadType'
  <2>1. frame' \in [Thread -> Frame]
    BY ConstantsAssumption DEF TraceFails, At, Goto, StopIgnoring, Stop,
       Return, Handed, NoFrame, CallFrame, ThreadType, ConstantsAssumption,
       Frame
  <2>2. held' \in [Addr -> Nat]
    BY ConstantsAssumption DEF TraceFails, At, Goto, StopIgnoring, Stop,
       Return, Handed, NoFrame, CallFrame, ThreadType, ConstantsAssumption,
       Frame
  <2>3. ignore' \in [Thread -> 0 .. 2]
    BY ConstantsAssumption DEF TraceFails, At, Goto, StopIgnoring, Stop,
       Return, Handed, NoFrame, CallFrame, ThreadType, ConstantsAssumption,
       CounterOK, Depth
  <2>4. pc' \in [Thread -> Location]
    BY ConstantsAssumption DEF TraceFails, At, Goto, StopIgnoring, Stop,
       Return, Handed, NoFrame, CallFrame, ThreadType, ConstantsAssumption,
       Location, Tracing
  <2> QED
    BY <2>1, <2>2, <2>3, <2>4, ConstantsAssumption DEF TraceFails, At, Goto,
       StopIgnoring, Stop, Return, Handed, NoFrame, CallFrame, ThreadType,
       ConstantsAssumption, gate
<1>3. CounterOK'
  BY ConstantsAssumption DEF TraceFails, At, Goto, StopIgnoring, Stop, Return,
     Handed, NoFrame, CallFrame, ThreadType, ConstantsAssumption,
     CounterOK, Depth
<1>4. FrameOK'
  BY ConstantsAssumption DEF TraceFails, At, Goto, StopIgnoring, Stop, Return,
     Handed, NoFrame, CallFrame, ThreadType, ConstantsAssumption, FrameOK, Tracing,
     Frame
<1> QED
  BY <1>1, <1>2, <1>3, <1>4

LEMMA AllocRecoversKeeps ==
    ASSUME IInv, NEW t \in Thread, AllocRecovers(t)
    PROVE  IInv'
<1> USE DEF IInv
<1>1. LedgerType' /\ LedgerConsistent'
  BY LedgerUnchanged DEF AllocRecovers
<1>2. ThreadType'
  <2>1. frame' \in [Thread -> Frame]
    <3>1. /\ frame[t].stack \in DOMAIN byStack
          /\ frame' = [frame EXCEPT ![t].ret = FirstItem(t)]
      BY DEF AllocRecovers, InRecovery
    <3> DEFINE items == byStack[frame[t].stack].items
    <3>2. items \in Seq(Addr) /\ Len(items) > 0
      BY <3>1 DEF LedgerType, StackItem, LedgerConsistent
    <3>3. FirstItem(t) \in Addr
      BY <3>2 DEF FirstItem
    <3> QED BY <3>1, <3>3 DEF ThreadType, Frame
  <2>2. pc' \in [Thread -> Location]
    BY ConstantsAssumption DEF AllocRecovers, At, Lock, Goto, ThreadType,
       ConstantsAssumption, Location, Tracing
  <2> QED
    BY <2>1, <2>2, ConstantsAssumption DEF AllocRecovers, At, Lock, Goto,
       ThreadType, ConstantsAssumption, gate
<1>3. CounterOK'
  BY ConstantsAssumption DEF AllocRecovers, At, Lock, Goto, ThreadType,
     ConstantsAssumption, CounterOK, Depth
<1>4. FrameOK'
  BY ConstantsAssumption DEF AllocRecovers, At, Lock, Goto, ThreadType,
     ConstantsAssumption, FrameOK, Tracing, Frame
<1> QED
  BY <1>1, <1>2, <1>3, <1>4

LEMMA AllocSpinsKeeps ==
    ASSUME IInv, NEW t \in Thread, AllocSpins(t)
    PROVE  IInv'
<1> USE DEF IInv
<1>1. LedgerType' /\ LedgerConsistent'
  BY LedgerUnchanged DEF AllocSpins
<1>2. ThreadType'
  <2>1. pc' \in [Thread -> Location]
    BY ConstantsAssumption DEF AllocSpins, At, Lock, Goto, ThreadType,
       ConstantsAssumption, Location, Tracing
  <2> QED
    BY <2>1, ConstantsAssumption DEF AllocSpins, At, Lock, Goto, ThreadType,
       ConstantsAssumption, gate
<1>3. CounterOK'
  BY ConstantsAssumption DEF AllocSpins, At, Lock, Goto, ThreadType,
     ConstantsAssumption, CounterOK, Depth
<1>4. FrameOK'
  BY ConstantsAssumption DEF AllocSpins, At, Lock, Goto, ThreadType,
     ConstantsAssumption, FrameOK, Tracing, Frame
<1> QED
  BY <1>1, <1>2, <1>3, <1>4

LEMMA AllocRecordsKeeps ==
    ASSUME IInv, NEW t \in Thread, AllocRecords(t)
    PROVE  IInv'
<1>1. ThreadType /\ LedgerType /\ CounterOK /\ FrameOK /\ LedgerConsistent
  BY DEF IInv
<1>2. PICK a \in Available :
         /\ heap' = With(heap, a, [size |-> frame[t].want, seen |-> TRUE])
         /\ frame' = [frame EXCEPT ![t].ret = a]
         /\ AddAllocedItemNoLock(t, a, SizeAll(t), frame[t].stack)
  BY DEF AllocRecords
<1>3. At(t, "lock") /\ UNCHANGED <<bInitializationTimeNotPassed, timeOver, held>>
  BY DEF AllocRecords
<1>4. a \in Addr /\ frame[t].stack \in Stack /\ SizeAll(t) \in Nat /\ frame[t].want \in Nat
  BY <1>1, <1>3, ConstantsAssumption
  DEF Available, Free, At, FrameOK, Tracing, ThreadType, Frame, SizeAll, ConstantsAssumption
<1>5. LedgerType' /\ LedgerConsistent'
  BY <1>1, <1>2, <1>4, AddKeepsLedger DEF ThreadType
<1>6. \/ /\ process' = "aborted" /\ mutex' = t
         /\ UNCHANGED <<analyzeOngoing, ignore, pc>>
      \/ /\ pc' = [pc EXCEPT ![t] = "unlock"] /\ mutex' = t
         /\ UNCHANGED <<analyzeOngoing, ignore, process>>
      \/ /\ pc' = [pc EXCEPT ![t] = "print"] /\ mutex' = NULL
         /\ analyzeOngoing' = FALSE
         /\ ignore' = [ignore EXCEPT ![t] = 0]
         /\ UNCHANGED process
  BY <1>2, <1>3, AddMoves
<1>7. ThreadType'
  <2>1. frame' \in [Thread -> Frame]
    <3>1. PICK b \in Addr : frame' = [frame EXCEPT ![t].ret = b]
      BY <1>2, <1>4
    <3> QED BY <1>1, <3>1 DEF ThreadType, Frame
  <2>2. heap' \in [DOMAIN heap' -> Block] /\ DOMAIN heap' \subseteq Addr
    BY <1>1, <1>2, <1>4 DEF ThreadType, Block, With
  <2>3. ignore' \in [Thread -> 0 .. 2] /\ pc' \in [Thread -> Location]
    BY <1>1, <1>6 DEF ThreadType, Location, Tracing
  <2> QED
    BY <1>1, <1>3, <1>6, <2>1, <2>2, <2>3 DEF ThreadType
<1>8. CounterOK'
  BY <1>1, <1>3, <1>6, ConstantsAssumption
  DEF ThreadType, CounterOK, Depth, At, ConstantsAssumption, AllocRecords, AddLocks
<1>9. FrameOK'
  BY <1>1, <1>2, <1>3, <1>4, <1>6 DEF ThreadType, Frame, FrameOK, Tracing, At
<1> QED
  BY <1>5, <1>7, <1>8, <1>9 DEF IInv

LEMMA AllocFailsKeeps ==
    ASSUME IInv, NEW t \in Thread, AllocFails(t)
    PROVE  IInv'
<1> USE DEF IInv
<1>1. LedgerType' /\ LedgerConsistent'
  BY LedgerUnchanged DEF AllocFails
<1>2. ThreadType'
  <2>1. pc' \in [Thread -> Location]
    BY ConstantsAssumption DEF AllocFails, At, Lock, Goto, ThreadType,
       ConstantsAssumption, Location, Tracing
  <2> QED
    BY <2>1, ConstantsAssumption DEF AllocFails, At, Lock, Goto, ThreadType,
       ConstantsAssumption, gate
<1>3. CounterOK'
  BY ConstantsAssumption DEF AllocFails, At, Lock, Goto, ThreadType,
     ConstantsAssumption, CounterOK, Depth
<1>4. FrameOK'
  BY ConstantsAssumption DEF AllocFails, At, Lock, Goto, ThreadType,
     ConstantsAssumption, FrameOK, Tracing, Frame
<1> QED
  BY <1>1, <1>2, <1>3, <1>4

LEMMA RecordingFailsKeeps ==
    ASSUME IInv, NEW t \in Thread, RecordingFails(t)
    PROVE  IInv'
<1> USE DEF IInv
<1>1. LedgerType' /\ LedgerConsistent'
  BY LedgerUnchanged DEF RecordingFails
<1>2. ThreadType'
  BY ConstantsAssumption DEF RecordingFails, At, Lock, Stop, ThreadType,
     ConstantsAssumption, gate
<1>3. CounterOK'
  BY ConstantsAssumption DEF RecordingFails, At, Lock, Stop, ThreadType,
     ConstantsAssumption, CounterOK, Depth
<1>4. FrameOK'
  BY ConstantsAssumption DEF RecordingFails, At, Lock, Stop, ThreadType,
     ConstantsAssumption, FrameOK, Tracing, Frame
<1> QED
  BY <1>1, <1>2, <1>3, <1>4

LEMMA UnlocksKeeps ==
    ASSUME IInv, NEW t \in Thread, Unlocks(t)
    PROVE  IInv'
<1> USE DEF IInv
<1>1. LedgerType' /\ LedgerConsistent'
  BY LedgerUnchanged DEF Unlocks
<1>2. ThreadType'
  <2>1. frame' \in [Thread -> Frame]
    BY ConstantsAssumption DEF Unlocks, At, Unlock, Goto, StopIgnoring,
       Return, Handed, NoFrame, CallFrame, ThreadType, ConstantsAssumption,
       Frame
  <2>2. held' \in [Addr -> Nat]
    BY ConstantsAssumption DEF Unlocks, At, Unlock, Goto, StopIgnoring,
       Return, Handed, NoFrame, CallFrame, ThreadType, ConstantsAssumption,
       Frame
  <2>3. ignore' \in [Thread -> 0 .. 2]
    BY ConstantsAssumption DEF Unlocks, At, Unlock, Goto, StopIgnoring,
       Return, Handed, NoFrame, CallFrame, ThreadType, ConstantsAssumption,
       CounterOK, Depth
  <2>4. pc' \in [Thread -> Location]
    BY ConstantsAssumption DEF Unlocks, At, Unlock, Goto, StopIgnoring,
       Return, Handed, NoFrame, CallFrame, ThreadType, ConstantsAssumption,
       Location, Tracing
  <2> QED
    BY <2>1, <2>2, <2>3, <2>4, ConstantsAssumption DEF Unlocks, At, Unlock,
       Goto, StopIgnoring, Return, Handed, NoFrame, CallFrame, ThreadType,
       ConstantsAssumption, gate
<1>3. CounterOK'
  BY ConstantsAssumption DEF Unlocks, At, Unlock, Goto, StopIgnoring, Return,
     Handed, NoFrame, CallFrame, ThreadType, ConstantsAssumption,
     CounterOK, Depth
<1>4. FrameOK'
  BY ConstantsAssumption DEF Unlocks, At, Unlock, Goto, StopIgnoring, Return,
     Handed, NoFrame, CallFrame, ThreadType, ConstantsAssumption, FrameOK, Tracing,
     Frame
<1> QED
  BY <1>1, <1>2, <1>3, <1>4

LEMMA PrintsAndExitsKeeps ==
    ASSUME IInv, NEW t \in Thread, PrintsAndExits(t)
    PROVE  IInv'
<1> USE DEF IInv
<1>1. LedgerType' /\ LedgerConsistent'
  BY LedgerUnchanged DEF PrintsAndExits
<1>2. ThreadType'
  BY ConstantsAssumption DEF PrintsAndExits, At, Stop, ThreadType,
     ConstantsAssumption, gate
<1>3. CounterOK'
  BY ConstantsAssumption DEF PrintsAndExits, At, Stop, ThreadType,
     ConstantsAssumption, CounterOK, Depth
<1>4. FrameOK'
  BY ConstantsAssumption DEF PrintsAndExits, At, Stop, ThreadType,
     ConstantsAssumption, FrameOK, Tracing, Frame
<1> QED
  BY <1>1, <1>2, <1>3, <1>4

\* The steps of free.
LEMMA FreeCallKeeps ==
    ASSUME IInv, NEW t \in Thread, FreeCall(t)
    PROVE  IInv'
<1> USE DEF IInv
<1>1. LedgerType' /\ LedgerConsistent'
  BY LedgerUnchanged DEF FreeCall
<1>2. ThreadType'
  <2>1. frame' \in [Thread -> Frame]
    BY ConstantsAssumption DEF FreeCall, At, Ignore, Goto, RemoveCall,
       CallFrame, GivesUp, ThreadType, ConstantsAssumption, Frame
  <2>2. held' \in [Addr -> Nat]
    BY ConstantsAssumption DEF FreeCall, At, Ignore, Goto, RemoveCall,
       CallFrame, GivesUp, ThreadType, ConstantsAssumption, Frame
  <2>3. ignore' \in [Thread -> 0 .. 2]
    BY ConstantsAssumption DEF FreeCall, At, Ignore, Goto, RemoveCall,
       CallFrame, GivesUp, ThreadType, ConstantsAssumption, CounterOK, Depth
  <2>4. pc' \in [Thread -> Location]
    BY ConstantsAssumption DEF FreeCall, At, Ignore, Goto, RemoveCall,
       CallFrame, GivesUp, ThreadType, ConstantsAssumption, Location, Tracing
  <2> QED
    BY <2>1, <2>2, <2>3, <2>4, ConstantsAssumption DEF FreeCall, At, Ignore,
       Goto, RemoveCall, CallFrame, GivesUp, ThreadType, ConstantsAssumption,
       gate
<1>3. CounterOK'
  BY ConstantsAssumption DEF FreeCall, At, Ignore, Goto, RemoveCall,
     CallFrame, GivesUp, ThreadType, ConstantsAssumption, CounterOK, Depth
<1>4. FrameOK'
  BY ConstantsAssumption DEF FreeCall, At, Ignore, Goto, RemoveCall,
     CallFrame, GivesUp, ThreadType, ConstantsAssumption, FrameOK, Tracing, Frame
<1> QED
  BY <1>1, <1>2, <1>3, <1>4

LEMMA RemoveLocksKeeps ==
    ASSUME IInv, NEW t \in Thread, RemoveLocks(t)
    PROVE  IInv'
<1> USE DEF IInv
<1>1. LedgerType' /\ LedgerConsistent'
  <2>1. RemoveAllocedItemNoLock(frame[t].ptr) /\ UNCHANGED analyzeOngoing
    BY DEF RemoveLocks, gate
  <2> QED BY <2>1, RemoveKeepsLedger
<1>2. ThreadType'
  <2>1. pc' \in [Thread -> Location]
    BY ConstantsAssumption DEF RemoveLocks, At, Lock, Goto, ThreadType,
       ConstantsAssumption, Location, Tracing
  <2> QED
    BY <2>1, ConstantsAssumption DEF RemoveLocks, At, Lock, Goto, ThreadType,
       ConstantsAssumption, gate
<1>3. CounterOK'
  BY ConstantsAssumption DEF RemoveLocks, At, Lock, Goto, ThreadType,
     ConstantsAssumption, CounterOK, Depth
<1>4. FrameOK'
  BY ConstantsAssumption DEF RemoveLocks, At, Lock, Goto, ThreadType,
     ConstantsAssumption, FrameOK, Tracing, Frame
<1> QED
  BY <1>1, <1>2, <1>3, <1>4

LEMMA RemoveUnlocksKeeps ==
    ASSUME IInv, NEW t \in Thread, RemoveUnlocks(t)
    PROVE  IInv'
<1> USE DEF IInv
<1>1. LedgerType' /\ LedgerConsistent'
  BY LedgerUnchanged DEF RemoveUnlocks
<1>2. ThreadType'
  <2>1. frame' \in [Thread -> Frame]
    BY ConstantsAssumption DEF RemoveUnlocks, At, Unlock, Goto, StopIgnoring,
       Return, Handed, NoFrame, CallFrame, ThreadType, ConstantsAssumption,
       Frame
  <2>2. held' \in [Addr -> Nat]
    BY ConstantsAssumption DEF RemoveUnlocks, At, Unlock, Goto, StopIgnoring,
       Return, Handed, NoFrame, CallFrame, ThreadType, ConstantsAssumption,
       Frame
  <2>3. ignore' \in [Thread -> 0 .. 2]
    BY ConstantsAssumption DEF RemoveUnlocks, At, Unlock, Goto, StopIgnoring,
       Return, Handed, NoFrame, CallFrame, ThreadType, ConstantsAssumption,
       CounterOK, Depth
  <2>4. pc' \in [Thread -> Location]
    BY ConstantsAssumption DEF RemoveUnlocks, At, Unlock, Goto, StopIgnoring,
       Return, Handed, NoFrame, CallFrame, ThreadType, ConstantsAssumption,
       Location, Tracing
  <2> QED
    BY <2>1, <2>2, <2>3, <2>4, ConstantsAssumption DEF RemoveUnlocks, At,
       Unlock, Goto, StopIgnoring, Return, Handed, NoFrame, CallFrame,
       ThreadType, ConstantsAssumption, gate
<1>3. CounterOK'
  BY ConstantsAssumption DEF RemoveUnlocks, At, Unlock, Goto, StopIgnoring,
     Return, Handed, NoFrame, CallFrame, ThreadType, ConstantsAssumption,
     CounterOK, Depth
<1>4. FrameOK'
  BY ConstantsAssumption DEF RemoveUnlocks, At, Unlock, Goto, StopIgnoring,
     Return, Handed, NoFrame, CallFrame, ThreadType, ConstantsAssumption,
     FrameOK, Tracing, Frame
<1> QED
  BY <1>1, <1>2, <1>3, <1>4

LEMMA FreesBlockKeeps ==
    ASSUME IInv, NEW t \in Thread, FreesBlock(t)
    PROVE  IInv'
<1> USE DEF IInv
<1>1. LedgerType' /\ LedgerConsistent'
  BY LedgerUnchanged DEF FreesBlock
<1>2. ThreadType'
  <2>1. frame' \in [Thread -> Frame]
    BY ConstantsAssumption DEF FreesBlock, At, Stop, Goto, Return, Handed,
       NoFrame, CallFrame, Without, Restrict, ThreadType, ConstantsAssumption,
       Frame
  <2>2. held' \in [Addr -> Nat]
    BY ConstantsAssumption DEF FreesBlock, At, Stop, Goto, Return, Handed,
       NoFrame, CallFrame, Without, Restrict, ThreadType, ConstantsAssumption,
       Frame
  <2>3. heap' \in [DOMAIN heap' -> Block] /\ DOMAIN heap' \subseteq Addr
    BY ConstantsAssumption DEF FreesBlock, At, Stop, Goto, Return, Handed,
       NoFrame, CallFrame, Without, Restrict, ThreadType, ConstantsAssumption,
       Block
  <2>4. pc' \in [Thread -> Location]
    BY ConstantsAssumption DEF FreesBlock, At, Stop, Goto, Return, Handed,
       NoFrame, CallFrame, Without, Restrict, ThreadType, ConstantsAssumption,
       Location, Tracing
  <2> QED
    BY <2>1, <2>2, <2>3, <2>4, ConstantsAssumption DEF FreesBlock, At, Stop,
       Goto, Return, Handed, NoFrame, CallFrame, Without, Restrict,
       ThreadType, ConstantsAssumption, gate
<1>3. CounterOK'
  BY ConstantsAssumption DEF FreesBlock, At, Stop, Goto, Return, Handed,
     NoFrame, CallFrame, Without, Restrict, ThreadType, ConstantsAssumption,
     CounterOK, Depth
<1>4. FrameOK'
  BY ConstantsAssumption DEF FreesBlock, At, Stop, Goto, Return, Handed,
     NoFrame, CallFrame, Without, Restrict, ThreadType, ConstantsAssumption,
     FrameOK, Tracing, Frame
<1> QED
  BY <1>1, <1>2, <1>3, <1>4

\* The steps of realloc.
LEMMA ReallocMovesKeeps ==
    ASSUME IInv, NEW t \in Thread, ReallocMoves(t)
    PROVE  IInv'
<1> USE DEF IInv
<1>1. LedgerType' /\ LedgerConsistent'
  BY LedgerUnchanged DEF ReallocMoves
<1>2. ThreadType'
  <2>1. frame' \in [Thread -> Frame]
    BY ConstantsAssumption DEF ReallocMoves, At, ReallocArgs, Ignore, Goto,
       RemoveCall, CallFrame, GivesUp, With, Available, Free, Without,
       Restrict, ThreadType, ConstantsAssumption, Frame
  <2>2. held' \in [Addr -> Nat]
    BY ConstantsAssumption DEF ReallocMoves, At, ReallocArgs, Ignore, Goto,
       RemoveCall, CallFrame, GivesUp, With, Available, Free, Without,
       Restrict, ThreadType, ConstantsAssumption, Frame
  <2>3. heap' \in [DOMAIN heap' -> Block] /\ DOMAIN heap' \subseteq Addr
    BY ConstantsAssumption DEF ReallocMoves, At, ReallocArgs, Ignore, Goto,
       RemoveCall, CallFrame, GivesUp, With, Available, Free, Without,
       Restrict, ThreadType, ConstantsAssumption, Block
  <2>4. ignore' \in [Thread -> 0 .. 2]
    BY ConstantsAssumption DEF ReallocMoves, At, ReallocArgs, Ignore, Goto,
       RemoveCall, CallFrame, GivesUp, With, Available, Free, Without,
       Restrict, ThreadType, ConstantsAssumption, CounterOK, Depth
  <2>5. pc' \in [Thread -> Location]
    BY ConstantsAssumption DEF ReallocMoves, At, ReallocArgs, Ignore, Goto,
       RemoveCall, CallFrame, GivesUp, With, Available, Free, Without,
       Restrict, ThreadType, ConstantsAssumption, Location, Tracing
  <2> QED
    BY <2>1, <2>2, <2>3, <2>4, <2>5, ConstantsAssumption DEF ReallocMoves, At,
       ReallocArgs, Ignore, Goto, RemoveCall, CallFrame, GivesUp, With,
       Available, Free, Without, Restrict, ThreadType, ConstantsAssumption,
       gate
<1>3. CounterOK'
  BY ConstantsAssumption DEF ReallocMoves, At, ReallocArgs, Ignore, Goto,
     RemoveCall, CallFrame, GivesUp, With, Available, Free, Without, Restrict,
     ThreadType, ConstantsAssumption, CounterOK, Depth
<1>4. FrameOK'
  BY ConstantsAssumption DEF ReallocMoves, At, ReallocArgs, Ignore, Goto,
     RemoveCall, CallFrame, GivesUp, With, Available, Free, Without, Restrict,
     ThreadType, ConstantsAssumption, FrameOK, Tracing, Frame
<1> QED
  BY <1>1, <1>2, <1>3, <1>4

LEMMA ReallocInPlaceKeeps ==
    ASSUME IInv, NEW t \in Thread, ReallocInPlace(t)
    PROVE  IInv'
<1> USE DEF IInv
<1>1. LedgerType' /\ LedgerConsistent'
  BY LedgerUnchanged DEF ReallocInPlace
<1>2. ThreadType'
  <2>1. heap' \in [DOMAIN heap' -> Block] /\ DOMAIN heap' \subseteq Addr
    BY ConstantsAssumption DEF ReallocInPlace, At, ThreadType,
       ConstantsAssumption, Block
  <2> QED
    BY <2>1, ConstantsAssumption DEF ReallocInPlace, At, ThreadType,
       ConstantsAssumption, gate
<1>3. CounterOK'
  BY ConstantsAssumption DEF ReallocInPlace, At, ThreadType,
     ConstantsAssumption, CounterOK, Depth
<1>4. FrameOK'
  BY ConstantsAssumption DEF ReallocInPlace, At, ThreadType,
     ConstantsAssumption, FrameOK, Tracing, Frame
<1> QED
  BY <1>1, <1>2, <1>3, <1>4

LEMMA ReallocFailsKeeps ==
    ASSUME IInv, NEW t \in Thread, ReallocFails(t)
    PROVE  IInv'
<1> USE DEF IInv
<1>1. LedgerType' /\ LedgerConsistent'
  BY LedgerUnchanged DEF ReallocFails
<1>2. ThreadType'
  <2>1. frame' \in [Thread -> Frame]
    BY ConstantsAssumption DEF ReallocFails, At, ReallocArgs, Ignore, Goto,
       RemoveCall, CallFrame, GivesUp, ThreadType, ConstantsAssumption, Frame
  <2>2. held' \in [Addr -> Nat]
    BY ConstantsAssumption DEF ReallocFails, At, ReallocArgs, Ignore, Goto,
       RemoveCall, CallFrame, GivesUp, ThreadType, ConstantsAssumption, Frame
  <2>3. ignore' \in [Thread -> 0 .. 2]
    BY ConstantsAssumption DEF ReallocFails, At, ReallocArgs, Ignore, Goto,
       RemoveCall, CallFrame, GivesUp, ThreadType, ConstantsAssumption,
       CounterOK, Depth
  <2>4. pc' \in [Thread -> Location]
    BY ConstantsAssumption DEF ReallocFails, At, ReallocArgs, Ignore, Goto,
       RemoveCall, CallFrame, GivesUp, ThreadType, ConstantsAssumption,
       Location, Tracing
  <2> QED
    BY <2>1, <2>2, <2>3, <2>4, ConstantsAssumption DEF ReallocFails, At,
       ReallocArgs, Ignore, Goto, RemoveCall, CallFrame, GivesUp, ThreadType,
       ConstantsAssumption, gate
<1>3. CounterOK'
  BY ConstantsAssumption DEF ReallocFails, At, ReallocArgs, Ignore, Goto,
     RemoveCall, CallFrame, GivesUp, ThreadType, ConstantsAssumption,
     CounterOK, Depth
<1>4. FrameOK'
  BY ConstantsAssumption DEF ReallocFails, At, ReallocArgs, Ignore, Goto,
     RemoveCall, CallFrame, GivesUp, ThreadType, ConstantsAssumption, FrameOK, Tracing,
     Frame
<1> QED
  BY <1>1, <1>2, <1>3, <1>4

LEMMA ReallocToZeroKeeps ==
    ASSUME IInv, NEW t \in Thread, ReallocToZero(t)
    PROVE  IInv'
<1> USE DEF IInv
<1>1. LedgerType' /\ LedgerConsistent'
  BY LedgerUnchanged DEF ReallocToZero
<1>a. PICK ptr \in Addr \cup {NULL}, ret \in Addr \cup {NULL} :
         /\ GivesUp(ptr)
         /\ RemoveCall(t, CallFrame("realloc", ptr, 0, ret))
  BY ConstantsAssumption DEF ReallocToZero, ReallocArgs, Available, Free, ConstantsAssumption
<1>b. At(t, "idle") /\ UNCHANGED <<gate, mutex, timeOver, process>>
  BY DEF ReallocToZero, ReallocArgs
<1>c. heap' \in [DOMAIN heap' -> Block] /\ DOMAIN heap' \subseteq Addr
  <2>1. CASE \E b \in Addr \cup {NULL} : heap' = Without(heap, b)
    BY <2>1 DEF Without, Restrict, ThreadType
  <2>2. CASE \E b \in Addr : heap' = With(heap, b, [size |-> 0, seen |-> FALSE])
    BY <2>2 DEF With, ThreadType, Block
  <2> QED BY <2>1, <2>2 DEF ReallocToZero, Available, Free
<1>2. ThreadType'
  <2>1. frame' \in [Thread -> Frame]
    BY <1>a DEF RemoveCall, CallFrame, Frame, ThreadType
  <2>2. held' \in [Addr -> Nat]
    BY <1>a DEF GivesUp, ThreadType
  <2>3. ignore' \in [Thread -> 0 .. 2]
    BY <1>a, <1>b DEF RemoveCall, Ignore, At, CounterOK, Depth, ThreadType
  <2>4. pc' \in [Thread -> Location]
    BY <1>a DEF RemoveCall, Goto, Location, Tracing, ThreadType
  <2> QED
    BY <1>b, <1>c, <2>1, <2>2, <2>3, <2>4 DEF ThreadType, gate
<1>3. CounterOK'
  BY <1>a, <1>b
  DEF RemoveCall, Ignore, Goto, At, CounterOK, Depth, ThreadType
<1>4. FrameOK'
  BY <1>a, <1>b
  DEF RemoveCall, CallFrame, Goto, At, FrameOK, Tracing, ThreadType
<1> QED
  BY <1>1, <1>2, <1>3, <1>4

LEMMA AddReturnsEarlyKeeps ==
    ASSUME IInv, NEW t \in Thread, AddReturnsEarly(t)
    PROVE  IInv'
<1> USE DEF IInv
<1>1. LedgerType' /\ LedgerConsistent'
  BY LedgerUnchanged DEF AddReturnsEarly
<1>2. ThreadType'
  <2>1. frame' \in [Thread -> Frame]
    BY ConstantsAssumption DEF AddReturnsEarly, At, Goto, Return, Handed,
       NoFrame, CallFrame, ThreadType, ConstantsAssumption, Frame
  <2>2. held' \in [Addr -> Nat]
    BY ConstantsAssumption DEF AddReturnsEarly, At, Goto, Return, Handed,
       NoFrame, CallFrame, ThreadType, ConstantsAssumption, Frame
  <2>3. heap' \in [DOMAIN heap' -> Block] /\ DOMAIN heap' \subseteq Addr
    <3>1. CASE heap' = heap
      BY <3>1 DEF ThreadType
    <3>2. CASE heap' = [heap EXCEPT ![frame[t].ret].seen = FALSE]
      <4>1. DOMAIN heap' = DOMAIN heap
        BY <3>2
      <4>2. \A b \in DOMAIN heap : heap'[b] \in Block
        BY <3>2 DEF ThreadType, Block
      <4> QED BY <3>2, <4>1, <4>2 DEF ThreadType
    <3> QED BY <3>1, <3>2 DEF AddReturnsEarly
  <2>4. pc' \in [Thread -> Location]
    BY ConstantsAssumption DEF AddReturnsEarly, At, Goto, Return, Handed,
       NoFrame, CallFrame, ThreadType, ConstantsAssumption, Location, Tracing
  <2> QED
    BY <2>1, <2>2, <2>3, <2>4, ConstantsAssumption DEF AddReturnsEarly, At,
       Goto, Return, Handed, NoFrame, CallFrame, ThreadType,
       ConstantsAssumption, gate
<1>3. CounterOK'
  BY ConstantsAssumption DEF AddReturnsEarly, At, Goto, Return, Handed,
     NoFrame, CallFrame, ThreadType, ConstantsAssumption, CounterOK, Depth
<1>4. FrameOK'
  BY ConstantsAssumption DEF AddReturnsEarly, At, Goto, Return, Handed,
     NoFrame, CallFrame, ThreadType, ConstantsAssumption, FrameOK, Tracing, Frame
<1> QED
  BY <1>1, <1>2, <1>3, <1>4

LEMMA AddCallKeeps ==
    ASSUME IInv, NEW t \in Thread, AddCall(t)
    PROVE  IInv'
<1> USE DEF IInv
<1>1. LedgerType' /\ LedgerConsistent'
  BY LedgerUnchanged DEF AddCall
<1>2. ThreadType'
  <2>1. ignore' \in [Thread -> 0 .. 2]
    BY ConstantsAssumption DEF AddCall, At, PassedEarlyReturn,
       HasReasonForEarlyReturn, Ignore, Goto, ThreadType, ConstantsAssumption,
       CounterOK, Depth
  <2>2. pc' \in [Thread -> Location]
    BY ConstantsAssumption DEF AddCall, At, PassedEarlyReturn,
       HasReasonForEarlyReturn, Ignore, Goto, ThreadType, ConstantsAssumption,
       Location, Tracing
  <2> QED
    BY <2>1, <2>2, ConstantsAssumption DEF AddCall, At, PassedEarlyReturn,
       HasReasonForEarlyReturn, Ignore, Goto, ThreadType, ConstantsAssumption,
       gate
<1>3. CounterOK'
  BY ConstantsAssumption DEF AddCall, At, PassedEarlyReturn,
     HasReasonForEarlyReturn, Ignore, Goto, ThreadType, ConstantsAssumption,
     CounterOK, Depth
<1>4. FrameOK'
  BY ConstantsAssumption DEF AddCall, At, PassedEarlyReturn,
     HasReasonForEarlyReturn, Ignore, Goto, ThreadType, ConstantsAssumption,
     FrameOK, Tracing, Frame
<1> QED
  BY <1>1, <1>2, <1>3, <1>4

LEMMA AddLocksKeeps ==
    ASSUME IInv, NEW t \in Thread, AddLocks(t)
    PROVE  IInv'
<1>1. ThreadType /\ LedgerType /\ CounterOK /\ FrameOK /\ LedgerConsistent
  BY DEF IInv
<1>2. AddAllocedItemNoLock(t, frame[t].ret, SizeAll(t), frame[t].stack)
  BY DEF AddLocks
<1>3. At(t, "lock") /\ UNCHANGED <<bInitializationTimeNotPassed, frame, timeOver, heap, held>>
  BY DEF AddLocks
<1>4. frame[t].ret \in Addr /\ frame[t].stack \in Stack /\ SizeAll(t) \in Nat
  BY <1>1, <1>3, ConstantsAssumption
  DEF AddLocks, At, FrameOK, Tracing, ThreadType, Frame, SizeAll, ConstantsAssumption
<1>5. LedgerType' /\ LedgerConsistent'
  BY <1>1, <1>2, <1>4, AddKeepsLedger DEF ThreadType
<1>6. \/ /\ process' = "aborted" /\ mutex' = t
         /\ UNCHANGED <<analyzeOngoing, ignore, pc>>
      \/ /\ pc' = [pc EXCEPT ![t] = "unlock"] /\ mutex' = t
         /\ UNCHANGED <<analyzeOngoing, ignore, process>>
      \/ /\ pc' = [pc EXCEPT ![t] = "print"] /\ mutex' = NULL
         /\ analyzeOngoing' = FALSE
         /\ ignore' = [ignore EXCEPT ![t] = 0]
         /\ UNCHANGED process
  BY <1>2, <1>3, AddMoves
<1>7. ThreadType'
  <2>1. frame' \in [Thread -> Frame]
    BY <1>1, <1>3 DEF ThreadType
  <2>2. heap' \in [DOMAIN heap' -> Block] /\ DOMAIN heap' \subseteq Addr
    BY <1>1, <1>3 DEF ThreadType
  <2>3. ignore' \in [Thread -> 0 .. 2] /\ pc' \in [Thread -> Location]
    BY <1>1, <1>6 DEF ThreadType, Location, Tracing
  <2> QED
    BY <1>1, <1>3, <1>6, <2>1, <2>2, <2>3 DEF ThreadType
<1>8. CounterOK'
  BY <1>1, <1>3, <1>6, ConstantsAssumption
  DEF ThreadType, CounterOK, Depth, At, ConstantsAssumption, AllocRecords, AddLocks
<1>9. FrameOK'
  BY <1>1, <1>2, <1>3, <1>4, <1>6 DEF ThreadType, Frame, FrameOK, Tracing, At
<1> QED
  BY <1>5, <1>7, <1>8, <1>9 DEF IInv

\* Every step keeps the invariant.
LEMMA NextKeeps == IInv /\ [Next]_vars => IInv'
<1> SUFFICES ASSUME IInv, [Next]_vars PROVE IInv'
  OBVIOUS
<1>1. CASE UNCHANGED vars
  BY <1>1
  DEF vars, IInv, ThreadType, LedgerType, CounterOK, Depth, FrameOK, Tracing,
      LedgerConsistent, Outstanding
<1>2. CASE TimePasses
  <2>1. /\ UNCHANGED <<gate, ledger, mutex, ignore, pc, frame, heap, held, process>>
        /\ timeOver' \in BOOLEAN
    BY <1>2 DEF TimePasses
  <2> QED
    BY <2>1
    DEF gate, ledger, IInv, ThreadType, LedgerType, CounterOK, Depth, FrameOK, Tracing,
        LedgerConsistent, Outstanding
<1>3. ASSUME NEW t \in Thread, Begin(t) PROVE IInv'
  BY <1>3, AllocEarlyKeeps, AllocCallKeeps, FreeCallKeeps,
     TraceAllocatesKeeps, ReallocMovesKeeps, ReallocInPlaceKeeps,
     ReallocFailsKeeps, ReallocToZeroKeeps DEF Begin
<1>4. ASSUME NEW t \in Thread, Continue(t) PROVE IInv'
  BY <1>4, TraceReleasesKeeps, TraceUnlocksKeeps, TraceFreesKeeps,
     TraceSucceedsKeeps, TraceFailsKeeps,
     AllocRecoversKeeps, AllocSpinsKeeps, AllocRecordsKeeps, AllocFailsKeeps,
     RecordingFailsKeeps, AddLocksKeeps, UnlocksKeeps, PrintsAndExitsKeeps,
     RemoveLocksKeeps, RemoveUnlocksKeeps, FreesBlockKeeps,
     AddReturnsEarlyKeeps, AddCallKeeps DEF Continue
<1> QED
  BY <1>1, <1>2, <1>3, <1>4 DEF Next, Halted, Spins

\* ... and it holds initially.
LEMMA InitHolds == Init => IInv
<1> SUFFICES ASSUME Init PROVE IInv
  OBVIOUS
<1>1. DOMAIN byAddress = {} /\ DOMAIN byStack = {} /\ DOMAIN heap = {}
  BY DEF Init
<1>2. ThreadType
  <2>1. frame \in [Thread -> Frame]
    BY DEF Init, Frame, NoFrame, CallFrame
  <2>2. heap \in [DOMAIN heap -> Block] /\ DOMAIN heap \subseteq Addr
    BY <1>1
  <2>3. /\ ignore \in [Thread -> 0 .. 2] /\ pc \in [Thread -> Location]
        /\ held \in [Addr -> Nat]
    BY DEF Init, Location, Tracing
  <2> QED
    BY <2>1, <2>2, <2>3 DEF Init, ThreadType
<1>3. LedgerType
  BY <1>1, ConstantsAssumption DEF Init, LedgerType, ConstantsAssumption
<1>4. CounterOK
  BY ConstantsAssumption DEF Init, CounterOK, Depth, ConstantsAssumption
<1>5. FrameOK
  BY DEF Init, FrameOK, Tracing
<1>6. LedgerConsistent
  <2>1. {s \in DOMAIN byStack : byStack[s].isRecovery} = {}
    BY <1>1
  <2> QED BY <1>1, <2>1, FS_EmptySet DEF Init, LedgerConsistent
<1> QED
  BY <1>2, <1>3, <1>4, <1>5, <1>6 DEF IInv

-----------------------------------------------------------------------------
(* The mutex.                                                              *)

Critical == {"unlock", "rmunlock", "trunlock", "spin"}

MutexOK ==
    process = "running" => \A t \in Thread : (mutex = t) <=> (pc[t] \in Critical)

\* A step of t stays out of the critical sections, enters one, leaves one, or ends
\* the process.
LEMMA MutexMoves ==
    ASSUME IInv, MutexOK, NEW t \in Thread, process = "running",
           \A u \in Thread \ {t} : pc'[u] = pc[u],
           \/ mutex' = mutex /\ (pc'[t] \in Critical <=> pc[t] \in Critical)
           \/ mutex = NULL /\ mutex' = t /\ pc'[t] \in Critical
           \/ mutex' = NULL /\ pc[t] \in Critical /\ pc'[t] \notin Critical
           \/ process' # "running"
    PROVE  MutexOK'
BY ConstantsAssumption DEF ConstantsAssumption, MutexOK

LEMMA MutexKept == ASSUME IInv, MutexOK, [Next]_vars PROVE MutexOK'
<1> USE DEF IInv, ThreadType, At, Goto, Critical
<1>1. ASSUME NEW t \in Thread, Begin(t) PROVE MutexOK'
  <2>1. /\ process = "running" /\ mutex' = mutex
        /\ \/ pc' = pc
           \/ pc[t] = "idle" /\ pc' = [pc EXCEPT ![t] = "trace"]
           \/ pc[t] = "idle" /\ pc' = [pc EXCEPT ![t] = "rmlock"]
    BY <1>1
    DEF Begin, AllocEarly, AllocCall, FreeCall, TraceAllocates, ReallocMoves, ReallocInPlace,
        ReallocFails, ReallocToZero, ReallocArgs, RemoveCall
  <2> QED BY <2>1, MutexMoves
<1>2. ASSUME NEW t \in Thread, Continue(t) PROVE MutexOK'
  <2>1. CASE \/ TraceFrees(t) \/ TraceSucceeds(t) \/ FreesBlock(t)
             \/ AddReturnsEarly(t) \/ AddCall(t)
    BY <2>1, MutexMoves
    DEF TraceFrees, TraceSucceeds, FreesBlock, AddReturnsEarly, AddCall, Return
  <2>2. CASE TraceFails(t) \/ RecordingFails(t) \/ PrintsAndExits(t)
    BY <2>2, MutexMoves DEF TraceFails, RecordingFails, PrintsAndExits, Return, Stop
  <2>3. CASE \/ AllocRecovers(t) \/ AllocSpins(t) \/ AllocFails(t) \/ RemoveLocks(t)
             \/ TraceReleases(t)
    BY <2>3, MutexMoves
    DEF AllocRecovers, AllocSpins, AllocFails, RemoveLocks, TraceReleases, Lock
  <2>4. CASE AllocRecords(t) \/ AddLocks(t)
    <3>1. PICK a, size, s :
             At(t, "lock") /\ mutex = NULL /\ AddAllocedItemNoLock(t, a, size, s)
      BY <2>4 DEF AllocRecords, AddLocks
    <3> QED BY <3>1, AddMoves, MutexMoves
  <2>5. CASE Unlocks(t) \/ RemoveUnlocks(t) \/ TraceUnlocks(t)
    <3>1. ignore[t] # 0
      BY <2>5 DEF Unlocks, RemoveUnlocks, TraceUnlocks, CounterOK, Depth
    <3>2. /\ process = "running" /\ mutex' = NULL /\ pc[t] \in Critical
          /\ \E loc \in {"idle", "mfree", "addcheck", "tfree"} :
                pc' = [pc EXCEPT ![t] = loc]
      BY <2>5, <3>1 DEF Unlocks, RemoveUnlocks, TraceUnlocks, Unlock, Return
    <3> QED BY <3>2, MutexMoves
  <2> QED BY <1>2, <2>1, <2>2, <2>3, <2>4, <2>5 DEF Continue
<1>3. CASE TimePasses \/ UNCHANGED vars
  BY <1>3 DEF TimePasses, vars, MutexOK
<1> QED
  BY <1>1, <1>2, <1>3 DEF Next, Halted, Spins

-----------------------------------------------------------------------------
(* The theorems.                                                           *)

LEMMA InvariantHolds == Spec => []IInv
<1>1. Init => IInv
  BY InitHolds
<1>2. IInv /\ [Next]_vars => IInv'
  BY NextKeeps
<1> QED
  BY <1>1, <1>2, PTL DEF Spec

\* Type correctness of the analyzer, for any program that calls it.
THEOREM TypeCorrect == Spec => []TypeOK
<1>1. IInv => TypeOK
  BY TypeSplits DEF IInv
<1> QED
  BY <1>1, InvariantHolds, PTL

\* hashByAddress, hashByStack, the lists of memory items, their counts and
\* hasRecoveryStack agree whenever the program can look at them, under any
\* interleaving of malloc, calloc, realloc and free.
THEOREM LedgerStaysConsistent == Spec => []LedgerConsistent
<1>1. IInv => LedgerConsistent
  BY DEF IInv
<1> QED
  BY <1>1, InvariantHolds, PTL

\* The mutex belongs to the thread inside the critical section and the
\* thread-local counter never leaves a call behind.
THEOREM LockIsDisciplined == Spec => []LockDiscipline
<1>1. Init => MutexOK
  BY ConstantsAssumption DEF Init, MutexOK, Critical, ConstantsAssumption
<1>2. IInv /\ MutexOK /\ [Next]_vars => MutexOK'
  BY MutexKept
<1>3. IInv /\ MutexOK => LockDiscipline
  BY DEF IInv, CounterOK, Depth, MutexOK, Critical, LockDiscipline
<1> QED
  BY <1>1, <1>2, <1>3, InvariantHolds, PTL DEF Spec
=============================================================================

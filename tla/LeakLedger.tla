----------------------------- MODULE LeakLedger -----------------------------
(***************************************************************************)
(* What the leak analyzer promises, without hash tables, lists, counters,  *)
(* threads or locks: the set of outstanding blocks of every call stack, one*)
(* block at a time, and what happens in the very step in which a stack gets*)
(* past the limit.  LeakAnalyzer implements this specification.            *)
(***************************************************************************)
EXTENDS Integers, FiniteSets

CONSTANTS
    Addr, Stack,  \* addresses and call stacks
    Limit,        \* how many blocks of a stack may be outstanding
    Policy        \* "PrintStackAndExit" or "TryFixLeak"

VARIABLES
    outstanding,  \* the blocks of each stack
    watching,     \* no leak was reported yet
    recovering    \* the stacks whose blocks are handed out again

Init ==
    /\ outstanding = [s \in Stack |-> {}]
    /\ watching = TRUE
    /\ recovering = {}

\* A block is recorded under one stack.  The first block of a stack is free;
\* any other one that goes past the limit is answered at once.
Record(a, s) ==
    LET blocks == outstanding[s] \cup {a}
        leak   == outstanding[s] # {} /\ Cardinality(blocks) > Limit
    IN  /\ \A u \in Stack : a \notin outstanding[u]
        /\ outstanding' = [outstanding EXCEPT ![s] = blocks]
        /\ watching' = (watching /\ ~(leak /\ Policy = "PrintStackAndExit"))
        /\ recovering' = IF leak /\ Policy = "TryFixLeak"
                         THEN recovering \cup {s} ELSE recovering

\* A block is forgotten; below three blocks a stack has recovered.
Forget(a, s) ==
    LET blocks == outstanding[s] \ {a}
    IN  /\ a \in outstanding[s]
        /\ outstanding' = [outstanding EXCEPT ![s] = blocks]
        /\ recovering' = IF Cardinality(blocks) < 3
                         THEN recovering \ {s} ELSE recovering
        /\ UNCHANGED watching

Next == \E a \in Addr, s \in Stack : Record(a, s) \/ Forget(a, s)

Spec == Init /\ [][Next]_<<outstanding, watching, recovering>>
=============================================================================

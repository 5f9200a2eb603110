---------------------------- MODULE LeakRecovery ----------------------------
(***************************************************************************)
(* LeakAnalyzer with a history of the limits: which stacks went past the   *)
(* limit and were not brought below three blocks since.  The history looks *)
(* at the recorded blocks only, the analyzer at its counts and its flags.  *)
(***************************************************************************)
EXTENDS LeakAnalyzer

VARIABLE
    pastLimit  \* history: stacks that passed the limit and have not recovered

Count(s) == Cardinality(Outstanding(s))

\* A block more takes the stack past the limit (the first one never does) ...
GoesPast(s) == Count(s)' > Count(s) /\ Count(s)' > CountMax /\ Count(s)' > 1

\* ... and a block less leaves fewer than three.
ComesBack(s) == Count(s)' < Count(s) /\ Count(s)' < 3

Remembers ==
    pastLimit' = {s \in Stack : GoesPast(s) \/ (s \in pastLimit /\ ~ComesBack(s))}

HistorySpec == Init /\ pastLimit = {} /\ [][Next /\ Remembers]_<<vars, pastLimit>>

\* TryFixLeak.  A stack is in recovery from the block that takes it past the
\* limit to the release that leaves fewer than three, and at no other time:
\* between the two limits it is in recovery if it was past the larger one since
\* it was last below the smaller one.
RecoveryHysteresis ==
    {s \in DOMAIN byStack : byStack[s].isRecovery} = pastLimit
=============================================================================

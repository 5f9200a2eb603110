--------------------------- MODULE MCLeakAnalyzer ---------------------------
(* LeakAnalyzer for TLC: symmetry of threads, addresses and stacks.        *)
EXTENDS LeakAnalyzer

Symmetry == Permutations(Thread) \cup Permutations(Addr) \cup Permutations(Stack)

\* malloc(1).
OneByte == {<<1, 1>>}

\* malloc(1) and calloc(1, 2).
OneOrTwoBytes == {<<1, 1>>, <<1, 2>>}

\* ... and a calloc whose size wraps around to 0.
MixedSizes == {<<1, 1>>, <<1, 2>>, <<2, 2>>}
=============================================================================

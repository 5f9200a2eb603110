--------------------------- MODULE MCLeakRecovery ---------------------------
(* LeakRecovery for TLC: the symmetry of LeakAnalyzer.                     *)
EXTENDS MCLeakAnalyzer, LeakRecovery
=============================================================================

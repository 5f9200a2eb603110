---------------------------- MODULE MCWindowsBuild ----------------------------
(* WindowsBuild on a small instance. *)
EXTENDS WindowsBuild

\* dll comes with dep.
PluginNeeds == [m \in Module |-> IF m = "dll" THEN {"dep"} ELSE {}]

TwoThreads == {"main", "other"}
=============================================================================

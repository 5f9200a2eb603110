----------------------------- MODULE MCMemoryLeak -----------------------------
(* MemoryLeak for TLC. *)
EXTENDS MemoryLeak

OneByte == {<<1, 1>>}
=============================================================================

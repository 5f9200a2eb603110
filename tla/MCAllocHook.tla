----------------------------- MODULE MCAllocHook -----------------------------
(* AllocHook on small instances, with the sizes of the code and 16 bit size_t. *)
EXTENDS AllocHook

Symmetry == Permutations(Thread) \cup Permutations(Id)
IdSymmetry == Permutations(Id)

\* Nothing, an ordinary size, the last one that fits and the first that does
\* not, one that would fit without its header, and a product that wraps around
\* to a small one.
Boundary == {<<1, 0>>, <<1, 100>>, <<1, 16359>>, <<1, 16360>>, <<1, 16375>>,
             <<256, 257>>}
Ordinary == {<<1, 100>>}

AllHooks  == {"g_malloc", "g_calloc", "s_realloc_user", "s_free_user"}
FreeHook  == {"s_free_user"}
=============================================================================

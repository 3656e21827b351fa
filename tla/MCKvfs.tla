-------------------------------- MODULE MCKvfs --------------------------------
(* Model-checking instances of Kvfs. *)
EXTENDS KvfsProps

(* No name and no time is treated in a way of its own. *)
Symmetry == Permutations(Names) \cup Permutations(Times)
=============================================================================

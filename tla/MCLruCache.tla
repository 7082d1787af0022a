------------------------------ MODULE MCLruCache ------------------------------
(* LruCache with a least capacity of two, one key more than fit, and a node  *)
(* for each put that may fail.                                               *)
EXTENDS LruCacheProps, TLC

CONSTANTS k1, k2, k3, v1, v2, n1, n2, n3, n4

MCKeys == {k1, k2, k3}
MCValues == {v1, v2}
MCNodes == {n1, n2, n3, n4}
Symmetry == Permutations(MCKeys) \cup Permutations(MCValues) \cup Permutations(MCNodes)
=============================================================================

----------------------------- MODULE MCSessions -----------------------------
(* Three callers on two connections, two tenants; each interchangeable.      *)
EXTENDS Sessions, TLC

Symmetry == Permutations(Tenants) \cup Permutations(Callers) \cup Permutations(Pool)
=============================================================================

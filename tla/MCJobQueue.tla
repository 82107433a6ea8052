----------------------------- MODULE MCJobQueue -----------------------------
(* JobQueue with two messages of one sender; j3, if there, is another's. *)
EXTENDS JobQueue, TLC

CONSTANTS j1, j2, j3, ann, bob

Senders == j1 :> ann @@ j2 :> ann @@ j3 :> bob

Symmetry == Permutations(Workers)
=============================================================================

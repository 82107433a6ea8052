------------------------------ MODULE MCOutbox ------------------------------
(* Outbox on a few runs and sends, which are interchangeable. *)
EXTENDS Outbox, TLC

Symmetry == Permutations(Runs) \cup Permutations(Sends)
=============================================================================

---------------------------- MODULE MCConnectLinks ----------------------------
(* Two messages at a time, two visits; runs and visits are interchangeable.   *)
EXTENDS ConnectLinks, TLC

Symmetry == Permutations(Runs) \cup Permutations(Visits)
=============================================================================

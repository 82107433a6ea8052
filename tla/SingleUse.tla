------------------------------ MODULE SingleUse ------------------------------
(***************************************************************************)
(* What onboarding/links.py promises of a connect link: it is issued once, *)
(* spent by one tap at most, and only the tap that spent it is sent on.    *)
(***************************************************************************)
CONSTANTS
  Nonces,  \* the links there may be
  Taps     \* attempts to use one

VARIABLES
  issued,  \* the links that exist
  owner,   \* owner[n]: the taps that spent link n, at most one
  through  \* through[n]: the taps that link n sent on

vars == <<issued, owner, through>>

Init ==
  /\ issued = {}
  /\ owner = [n \in Nonces |-> {}]
  /\ through = [n \in Nonces |-> {}]

Issue(n) ==
  /\ issued' = issued \cup {n}
  /\ UNCHANGED <<owner, through>>

Spend(n, tap) ==
  /\ n \in issued
  /\ owner[n] = {}
  /\ owner' = [owner EXCEPT ![n] = {tap}]
  /\ UNCHANGED <<issued, through>>

SendOn(n, tap) ==
  /\ owner[n] = {tap}
  /\ through' = [through EXCEPT ![n] = {tap}]
  /\ UNCHANGED <<issued, owner>>

Next ==
  \E n \in Nonces : Issue(n) \/ \E tap \in Taps : Spend(n, tap) \/ SendOn(n, tap)

Spec == Init /\ [][Next]_vars
=============================================================================

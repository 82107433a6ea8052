----------------------------- MODULE AtMostOnce -----------------------------
(***************************************************************************)
(* What the outbox promises for each send (ADR 0003), with nothing of how: *)
(* the person gets the message at most once; an outcome, once given, is    *)
(* final; "confirmed" is only said of a message the provider has, and      *)
(* "refused" only of one it does not have and never will.                  *)
(***************************************************************************)
CONSTANTS
  Sends,    \* the things to send, each named by its outbox key
  Copies    \* identities for the copies of a message a provider may hold

VARIABLES
  copies,   \* copies[s]: the copies of s the provider has taken
  outcome   \* outcome[s]: what the ledger says of s

vars == <<copies, outcome>>

Outcome == {"open", "confirmed", "refused"}

TypeOK ==
  /\ copies \in [Sends -> SUBSET Copies]
  /\ outcome \in [Sends -> Outcome]

Init ==
  /\ copies = [s \in Sends |-> {}]
  /\ outcome = [s \in Sends |-> "open"]

(* The provider takes the message: its first and only copy. *)
Take(s) ==
  /\ copies[s] = {}
  /\ outcome[s] = "open"
  /\ \E c \in Copies : copies' = [copies EXCEPT ![s] = {c}]
  /\ UNCHANGED outcome

Confirm(s) ==
  /\ copies[s] # {}
  /\ outcome[s] = "open"
  /\ outcome' = [outcome EXCEPT ![s] = "confirmed"]
  /\ UNCHANGED copies

Refuse(s) ==
  /\ copies[s] = {}
  /\ outcome[s] = "open"
  /\ outcome' = [outcome EXCEPT ![s] = "refused"]
  /\ UNCHANGED copies

Next == \E s \in Sends : Take(s) \/ Confirm(s) \/ Refuse(s)

Spec == Init /\ [][Next]_vars
=============================================================================

------------------------------- MODULE Outbox -------------------------------
(***************************************************************************)
(* messaging/outbox.py: send_once, called by any number of job runs that   *)
(* may overlap (a worker that stopped heartbeating is not always dead) and *)
(* may die at any point; the provider behind channel.send_text; and the    *)
(* delivery-status webhook (messaging/ingress.py) that writes the same     *)
(* rows. One step per transaction and per network event.                   *)
(*                                                                         *)
(* A run makes at most one send_once call, which is what every caller in   *)
(* messaging/ does; a retry of a job is another run.                       *)
(***************************************************************************)
EXTENDS Sequences, Naturals

(* A definition named for a slip (ClaimableMidSend, ..) is the next one as   *)
(* it would be with a bug in it: README.md, "What would be caught".          *)

CONSTANTS
  Sends,    \* outbox keys: (inbox_id, kind) or an idempotency_key
  Runs,     \* runs of jobs; each calls send_once at most once
  Receipts  \* the delivery statuses the provider reports in this instance

VARIABLES
  outbox,   \* outbox[s]: the row's status, "absent" before the first claim
  linked,   \* linked[s]: the row holds a provider_message_id
  at,       \* at[r]: how far run r got in send_once
  send,     \* send[r]: the send run r is making
  request,  \* request[r]: where the HTTP request of run r is
  reported  \* reported[s]: statuses of s that the webhook answered 200 to

vars == <<outbox, linked, at, send, request, reported>>

OUTBOX_STATUS_ORDER ==
  <<"pending", "sending", "unknown", "accepted", "sent", "delivered", "read", "failed">>

Status == {OUTBOX_STATUS_ORDER[i] : i \in DOMAIN OUTBOX_STATUS_ORDER}

DeliveryStatus == {"sent", "delivered", "read", "failed"}

ASSUME ReceiptsAssumption == Receipts \subseteq DeliveryStatus

(* array_position(order, a) < array_position(order, b) *)
Before(a, b) ==
  \E i, j \in DOMAIN OUTBOX_STATUS_ORDER :
    i < j /\ OUTBOX_STATUS_ORDER[i] = a /\ OUTBOX_STATUS_ORDER[j] = b

(* What send_text returned or raised, before it is recorded in the row. *)
Answer == {"accepted", "transient", "rejected", "ambiguous"}

(* The run that holds the row at "sending" and may still act on it. *)
InCall == {"sending", "waiting"} \cup Answer

At == {"ready"} \cup InCall \cup {"returned", "raised", "dead"}

Init ==
  /\ outbox = [s \in Sends |-> "absent"]
  /\ linked = [s \in Sends |-> FALSE]
  /\ at = [r \in Runs |-> "ready"]
  /\ send \in [Runs -> Sends]
  /\ request = [r \in Runs |-> "none"]
  /\ reported = [s \in Sends |-> {}]

-----------------------------------------------------------------------------
(* The worker's side: send_once. *)

(***************************************************************************)
(* _claim, one transaction: INSERT .. ON CONFLICT DO NOTHING, then SELECT  *)
(* .. FOR UPDATE, so two claims of one send are serial. The inserted row   *)
(* is "pending" and is ours; "sending" was left by another run and becomes *)
(* "unknown"; anything else is settled and send_once returns it.           *)
(***************************************************************************)
ClaimableMidSend == {"absent", "pending", "sending"}
Claimable == {"absent", "pending"}

Claim(r) ==
  LET s == send[r]
      ours == outbox[s] \in Claimable
  IN /\ at[r] = "ready"
     /\ outbox' = [outbox EXCEPT ![s] =
                     IF ours THEN "sending" ELSE IF @ = "sending" THEN "unknown" ELSE @]
     /\ at' = [at EXCEPT ![r] = IF ours THEN "sending" ELSE "returned"]
     /\ UNCHANGED <<linked, send, request, reported>>

(* The request never left: _NOT_SENT errors are transient; a recipient that *)
(* is not a phone number is rejected by the GOWA client itself.             *)
NotPosted(r) ==
  /\ at[r] = "sending"
  /\ \E answer \in {"transient", "rejected"} : at' = [at EXCEPT ![r] = answer]
  /\ UNCHANGED <<outbox, linked, send, request, reported>>

Post(r) ==
  /\ at[r] = "sending"
  /\ at' = [at EXCEPT ![r] = "waiting"]
  /\ request' = [request EXCEPT ![r] = "wire"]
  /\ UNCHANGED <<outbox, linked, send, reported>>

(***************************************************************************)
(* send_text ends and classifies what it saw. A taken message is answered  *)
(* 2xx, or its answer is lost or has no message id; a refused one is       *)
(* throttled (429, 5xx, a throttling code: transient), refused for good    *)
(* (any other 4xx) or, from the gateway, an unclassified 5xx (ambiguous);  *)
(* a request still on the wire can only time out.                          *)
(***************************************************************************)
Classify(r) ==
  /\ at[r] = "waiting"
  /\ \E answer \in Answer :
       /\ answer = "accepted" => request[r] = "taken"
       /\ answer \in {"transient", "rejected"} => request[r] = "refused"
       /\ at' = [at EXCEPT ![r] = answer]
  /\ UNCHANGED <<outbox, linked, send, request, reported>>

(* send_once's except clauses: the status each answer is recorded as. *)
RecordedVerbatim(answer) == answer
RecordedAsNotSent(answer) == IF answer = "accepted" THEN "accepted" ELSE "pending"
Recorded(answer) ==
  CASE answer = "accepted"  -> "accepted"
    [] answer = "transient" -> "pending"
    [] answer = "rejected"  -> "failed"
    [] answer = "ambiguous" -> "unknown"

(* _set, one transaction keyed on the row id alone: whatever the row says. *)
Record(r) ==
  LET s == send[r]
  IN /\ at[r] \in Answer
     /\ outbox' = [outbox EXCEPT ![s] = Recorded(at[r])]
     /\ linked' = [linked EXCEPT ![s] = @ \/ at[r] = "accepted"]
     /\ at' = [at EXCEPT ![r] = IF @ = "transient" THEN "raised" ELSE "returned"]
     /\ UNCHANGED <<send, request, reported>>

(* The worker is killed, loses its database connection, or the body is too *)
(* long for send_text: the run stops where it is. A request on the wire    *)
(* stays there.                                                            *)
Die(r) ==
  /\ at[r] \in InCall
  /\ at' = [at EXCEPT ![r] = "dead"]
  /\ UNCHANGED <<outbox, linked, send, request, reported>>

-----------------------------------------------------------------------------
(* The provider's side. *)

(* It takes the message, perhaps after the client stopped waiting. *)
Take(r) ==
  /\ request[r] = "wire"
  /\ request' = [request EXCEPT ![r] = "taken"]
  /\ UNCHANGED <<outbox, linked, at, send, reported>>

Refuse(r) ==
  /\ request[r] = "wire"
  /\ request' = [request EXCEPT ![r] = "refused"]
  /\ UNCHANGED <<outbox, linked, at, send, reported>>

Taken(r, s) == send[r] = s /\ request[r] = "taken"

(* The WHERE of _APPLY_STATUS. *)
MovesUnlinked(s, status) == Before(outbox[s], status)
MovesUnordered(s, status) == linked[s]
Moves(s, status) == linked[s] /\ Before(outbox[s], status)

(***************************************************************************)
(* _APPLY_STATUS: one status of one taken message, in any order and any    *)
(* number of times. It matches on the provider's message id, so a row that *)
(* does not hold the id yet is not found; the webhook answers 200 all the  *)
(* same and the status is not sent again.                                  *)
(***************************************************************************)
ApplyStatus(s, status) ==
  /\ \E r \in Runs : Taken(r, s)
  /\ outbox' = [outbox EXCEPT ![s] = IF Moves(s, status) THEN status ELSE @]
  /\ reported' = [reported EXCEPT ![s] = @ \cup {status}]
  /\ UNCHANGED <<linked, at, send, request>>

-----------------------------------------------------------------------------
Worker(r) ==
  Claim(r) \/ NotPosted(r) \/ Post(r) \/ Classify(r) \/ Record(r) \/ Die(r)

Next ==
  \/ \E r \in Runs : Worker(r) \/ Take(r) \/ Refuse(r)
  \/ \E s \in Sends, status \in Receipts : ApplyStatus(s, status)

Spec == Init /\ [][Next]_vars

-----------------------------------------------------------------------------
(* Properties. *)

TypeOK ==
  /\ outbox \in [Sends -> Status \cup {"absent"}]
  /\ linked \in [Sends -> BOOLEAN]
  /\ at \in [Runs -> At]
  /\ send \in [Runs -> Sends]
  /\ request \in [Runs -> {"none", "wire", "taken", "refused"}]
  /\ reported \in [Sends -> SUBSET Receipts]

(* ADR 0003, "a reply whose delivery is uncertain is not sent again": the  *)
(* provider never takes one send twice, however many runs call send_once   *)
(* for it, overlap, die and are retried.                                   *)
SentAtMostOnce ==
  \A s \in Sends, p, q \in Runs : Taken(p, s) /\ Taken(q, s) => p = q

(* "pending (definitely not sent; the job retries)" and "failed (Meta      *)
(* refused)": neither is ever recorded of a message that was taken or that *)
(* a request still on the wire could make the provider take.               *)
NotSentIsTrue ==
  \A s \in Sends :
    outbox[s] = "pending" \/ (outbox[s] = "failed" /\ ~linked[s]) =>
      \A r \in Runs : send[r] = s => request[r] \notin {"wire", "taken"}

(* "accepted (Meta took it)" and every status after it are only recorded   *)
(* of a message the provider has.                                          *)
AcceptedIsTrue ==
  \A s \in Sends :
    linked[s] \/ outbox[s] \in {"accepted", "sent", "delivered", "read"} =>
      linked[s] /\ \E r \in Runs : Taken(r, s)

(* OUTBOX_STATUS_ORDER, "a status write only ever moves forward": once the *)
(* row holds the provider's id, neither a late status nor a straggling run *)
(* moves it back.                                                          *)
AcceptedMovesForward ==
  [][\A s \in Sends : linked[s] =>
       linked'[s] /\ (outbox'[s] = outbox[s] \/ Before(outbox[s], outbox'[s]))]_vars

(* "accepted (Meta took it; its statuses follow)": the row of an accepted  *)
(* message tells at least as much as the statuses the webhook took in.     *)
ReportsAreKept ==
  \A s \in Sends : linked[s] =>
    \A status \in reported[s] : ~Before(outbox[s], status)

-----------------------------------------------------------------------------
(* The send_once the callers see is AtMostOnce. *)
Promise == INSTANCE AtMostOnce WITH
  Copies <- Runs,
  copies <- [s \in Sends |-> {r \in Runs : Taken(r, s)}],
  outcome <- [s \in Sends |->
                IF linked[s] THEN "confirmed"
                ELSE IF outbox[s] = "failed" THEN "refused"
                ELSE "open"]

PromiseSpec == Promise!Spec
=============================================================================

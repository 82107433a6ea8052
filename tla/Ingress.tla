------------------------------- MODULE Ingress -------------------------------
(***************************************************************************)
(* The webhook (api/routers/webhooks.py) and the one transaction it runs   *)
(* (messaging/ingress.py), in front of the queue: every batch is inserted, *)
(* row by row, its jobs deferred on the same connection, and committed.    *)
(* The provider posts a batch again until it sees a 200, and may post it   *)
(* again after that. Delivery statuses in a batch are in Outbox.           *)
(*                                                                         *)
(* A definition named for a slip is the next one as it would be with a     *)
(* bug: README.md, "What would be caught".                                 *)
(***************************************************************************)
EXTENDS JobQueue, Sequences

CONSTANTS
  Messages,     \* (channel, provider_message_id) of the messages sent to us
  Requests,     \* deliveries: each is one batch, posted until it is answered
  BatchOf,      \* BatchOf[r]: the sequence of messages r carries
  JobsOf,       \* JobsOf[m]: job rows m could have, were it stored twice
  MaxFailures   \* how often a delivery may fail, or its answer be lost

ASSUME IngressAssumption ==
  /\ BatchOf \in [Requests -> Seq(Messages)]
  /\ JobsOf \in [Messages -> (SUBSET Jobs) \ {{}}]
  /\ \A m, n \in Messages : m # n => JobsOf[m] \cap JobsOf[n] = {}
  /\ MaxFailures \in Nat

VARIABLES
  rows,       \* the messages with a committed channel_inbox row
  next,       \* next[r]: the place in its batch of the message r handles next
  inserted,   \* inserted[r]: rows r has inserted and not committed
  deferring,  \* deferring[r]: jobs r has deferred and not committed
  answered,   \* the deliveries the provider has seen answered with 200
  failures

webhook == <<rows, next, inserted, deferring, answered, failures>>
system == <<vars, webhook>>

First == 1

IngressInit ==
  /\ Init
  /\ rows = {}
  /\ next = [r \in Requests |-> First]
  /\ inserted = [r \in Requests |-> {}]
  /\ deferring = [r \in Requests |-> {}]
  /\ answered = {}
  /\ failures = 0

Message(r) == BatchOf[r][next[r]]

Handling(r) == r \notin answered /\ next[r] <= Len(BatchOf[r])

-----------------------------------------------------------------------------
(* INSERT .. ON CONFLICT DO NOTHING finds a row, or waits for whoever has   *)
(* inserted it and not committed.                                           *)
FoundUncommitted(r, m) == m \in rows \cup UNION {inserted[q] : q \in Requests}
Found(r, m) == m \in rows \cup inserted[r]

Waits(r, m) == \E q \in Requests \ {r} : m \in inserted[q]

(* It takes the row: the job is deferred on the same connection. *)
InsertNew(r) ==
  /\ Handling(r)
  /\ ~Found(r, Message(r))
  /\ ~Waits(r, Message(r))
  /\ LET j == CHOOSE k \in JobsOf[Message(r)] : k \notin drawn
     IN  Draw(j) /\ deferring' = [deferring EXCEPT ![r] = @ \cup {j}]
  /\ inserted' = [inserted EXCEPT ![r] = @ \cup {Message(r)}]
  /\ next' = [next EXCEPT ![r] = @ + 1]
  /\ UNCHANGED <<rows, answered, failures>>

SkipDuplicate(r) ==
  /\ Handling(r)
  /\ Found(r, Message(r))
  /\ next' = [next EXCEPT ![r] = @ + 1]
  /\ UNCHANGED <<vars, rows, inserted, deferring, answered, failures>>

Release(r) ==
  /\ inserted' = [inserted EXCEPT ![r] = {}]
  /\ deferring' = [deferring EXCEPT ![r] = {}]

(* COMMIT, and 200. The answer may be lost, and the batch posted again. *)
Commit(r) ==
  /\ r \notin answered
  /\ next[r] = Len(BatchOf[r]) + 1
  /\ Defer(deferring[r])
  /\ rows' = rows \cup inserted[r]
  /\ Release(r)
  /\ \/ answered' = answered \cup {r} /\ UNCHANGED <<next, failures>>
     \/ /\ failures < MaxFailures
        /\ failures' = failures + 1
        /\ next' = [next EXCEPT ![r] = First]
        /\ UNCHANGED answered

(* The api or the database dies: neither rows nor jobs remain, the provider *)
(* sees no 200.                                                             *)
RollBackRows(r) ==
  /\ UNCHANGED <<vars, rows, answered>>
  /\ inserted' = [inserted EXCEPT ![r] = {}]
  /\ next' = [next EXCEPT ![r] = First]
  /\ UNCHANGED deferring

RollBack(r) ==
  /\ Undraw(deferring[r])
  /\ Release(r)
  /\ next' = [next EXCEPT ![r] = First]
  /\ UNCHANGED <<rows, answered>>

Fail(r) ==
  /\ r \notin answered
  /\ next[r] > First
  /\ failures < MaxFailures
  /\ failures' = failures + 1
  /\ RollBack(r)

(* Two batches that wait for each other's rows: the database breaks the     *)
(* deadlock by failing one of them.                                         *)
Deadlocked(r) ==
  /\ Handling(r)
  /\ \E q \in Requests \ {r} :
       /\ Handling(q)
       /\ Message(r) \in inserted[q]
       /\ Message(q) \in inserted[r]

FailVictim(r) ==
  /\ Deadlocked(r)
  /\ RollBack(r)
  /\ UNCHANGED failures

Webhook(r) == InsertNew(r) \/ SkipDuplicate(r) \/ Commit(r)

-----------------------------------------------------------------------------
IngressNext ==
  \/ \E r \in Requests : Webhook(r) \/ Fail(r) \/ FailVictim(r)
  \/ Work /\ UNCHANGED webhook

(* A delivery that fails is posted again, an insert that waits is granted   *)
(* when its turn comes, and a deadlock is broken.                           *)
DeliveryGoesOn ==
  \A r \in Requests :
    SF_system(Webhook(r)) /\ WF_system(\E q \in Requests : FailVictim(q))

IngressSpec == IngressInit /\ [][IngressNext]_system

FairIngressSpec == IngressSpec /\ DeliveryGoesOn /\ WorkIsDone

-----------------------------------------------------------------------------
(* Properties. *)

IngressTypeOK ==
  /\ rows \subseteq Messages
  /\ next \in [Requests -> Nat]
  /\ \A r \in Requests : next[r] \in 1..Len(BatchOf[r]) + 1
  /\ inserted \in [Requests -> SUBSET Messages]
  /\ deferring \in [Requests -> SUBSET Jobs]
  /\ answered \subseteq Requests
  /\ failures \in 0..MaxFailures

Batch(r) == {BatchOf[r][i] : i \in DOMAIN BatchOf[r]}

(* ADR 0002, "a row exists if and only if its job exists", and "replaying   *)
(* the same webhook ten times creates one job".                             *)
RowIffItsOneJob ==
  \A m \in Messages :
    LET jobs == {j \in JobsOf[m] : job[j] # "absent"}
    IN  IF m \in rows THEN \E j \in jobs : jobs = {j} ELSE jobs = {}

(* A message counts as a duplicate only of one that stays: when a batch is  *)
(* answered with 200, and is not posted again, all of it is stored.         *)
AnsweredIsStored == \A r \in answered : Batch(r) \subseteq rows

(* Whatever fails and whatever is posted twice, an answered batch is        *)
(* handled, message by message, unless a job fails.                         *)
Ended(m) == \E j \in JobsOf[m] : j \in handled \/ job[j] = "failed"

AnsweredIsHandled ==
  \A r \in Requests : r \in answered ~> \A m \in Batch(r) : Ended(m)
=============================================================================

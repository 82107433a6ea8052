--------------------------- MODULE AnnounceProofs ---------------------------
(* Proofs about Outbox, for any sets of sends, runs and receipts, and about  *)
(* Announce, which composes with it, for any jobs, attempts and channels.    *)
(* Nothing before the last part uses an assumption of Announce.              *)
EXTENDS Announce, TLAPS

(* The request of a run can still make the provider take the message, or has. *)
OutThere == {"wire", "taken"}

-----------------------------------------------------------------------------
(* The inductive invariant. A row at "sending" is held by one run, and no   *)
(* other run's request for it is out: that run alone can still act on it.   *)

(* One run at most is inside the call for a send. *)
OneHolder ==
  \A p, q \in Runs :
    at[p] \in InCall /\ at[q] \in InCall /\ send[p] = send[q] => p = q

(* Another run may have given the holder's row up as unknown, nothing more. *)
HeldRow ==
  \A r \in Runs : at[r] \in InCall =>
    ~linked[send[r]] /\ outbox[send[r]] \in {"sending", "unknown"}

(* One request at most is out for a send, and it is the holder's if the send has one. *)
OneRequest ==
  \A p, q \in Runs :
    /\ request[p] \in OutThere
    /\ request[q] \in OutThere \/ at[q] \in InCall
    /\ send[p] = send[q]
    => p = q

(* What a run saw is what happened to its request. *)
RunMatchesRequest ==
  \A r \in Runs :
    /\ at[r] \in {"ready", "sending"} => request[r] = "none"
    /\ at[r] = "accepted" => request[r] = "taken"
    /\ at[r] \in {"transient", "rejected"} => request[r] \in {"none", "refused"}

(* A row that may be claimed, or that was refused, has no request out. *)
NothingOut ==
  \A r \in Runs :
    LET s == send[r]
    IN outbox[s] \in {"absent", "pending"} \/ (outbox[s] = "failed" /\ ~linked[s])
         => request[r] \notin OutThere

(* The row holds the provider's id exactly when it says the provider took it. *)
LinkedRow ==
  \A s \in Sends :
    /\ linked[s] =>
         /\ outbox[s] \in {"accepted", "sent", "delivered", "read", "failed"}
         /\ \E r \in Runs : Taken(r, s)
    /\ outbox[s] \in {"accepted", "sent", "delivered", "read"} => linked[s]

IInv ==
  /\ TypeOK
  /\ OneHolder
  /\ HeldRow
  /\ OneRequest
  /\ RunMatchesRequest
  /\ NothingOut
  /\ LinkedRow

-----------------------------------------------------------------------------
LEMMA InitIInv == Init => IInv
  BY DEF Init, IInv, TypeOK, OneHolder, HeldRow, OneRequest, RunMatchesRequest, NothingOut,
         LinkedRow, InCall, OutThere, Answer, Status, OUTBOX_STATUS_ORDER, At

(* The values the statuses, places and answers range over, spelled out. *)
LEMMA Values ==
  /\ Status = {"pending", "sending", "unknown", "accepted", "sent", "delivered", "read", "failed"}
  /\ InCall = {"sending", "waiting", "accepted", "transient", "rejected", "ambiguous"}
  /\ At = InCall \cup {"ready", "returned", "raised", "dead"}
  BY DEF Status, OUTBOX_STATUS_ORDER, InCall, Answer, At

LEMMA StepTypeOK == TypeOK /\ [Next]_vars => TypeOK'
  <1> SUFFICES ASSUME TypeOK, [Next]_vars PROVE TypeOK'
    OBVIOUS
  <1> USE Values DEF TypeOK
  <1>1. ASSUME NEW r \in Runs, Claim(r) PROVE TypeOK'
    BY <1>1 DEF Claim, Claimable
  <1>2. ASSUME NEW r \in Runs, NotPosted(r) PROVE TypeOK'
    BY <1>2 DEF NotPosted
  <1>3. ASSUME NEW r \in Runs, Post(r) PROVE TypeOK'
    BY <1>3 DEF Post
  <1>4. ASSUME NEW r \in Runs, Classify(r) PROVE TypeOK'
    BY <1>4 DEF Classify, Answer
  <1>5. ASSUME NEW r \in Runs, Record(r) PROVE TypeOK'
    BY <1>5 DEF Record, Recorded, Answer
  <1>6. ASSUME NEW r \in Runs, Die(r) PROVE TypeOK'
    BY <1>6 DEF Die
  <1>7. ASSUME NEW r \in Runs, Take(r) \/ Refuse(r) PROVE TypeOK'
    BY <1>7 DEF Take, Refuse
  <1>8. ASSUME NEW s \in Sends, NEW receipt \in Receipts, ApplyStatus(s, receipt) PROVE TypeOK'
    BY <1>8, ReceiptsAssumption DEF ApplyStatus, Moves, DeliveryStatus
  <1>9. CASE UNCHANGED vars
    BY <1>9 DEF vars
  <1>10. QED
    BY <1>1, <1>2, <1>3, <1>4, <1>5, <1>6, <1>7, <1>8, <1>9 DEF Next, Worker

LEMMA StepIInv == IInv /\ [Next]_vars => IInv'
  <1> SUFFICES ASSUME IInv, [Next]_vars PROVE IInv'
    OBVIOUS
  <1>0. TypeOK'
    BY StepTypeOK DEF IInv
  <1> USE Values DEF TypeOK, OutThere
  <1>1. ASSUME NEW r \in Runs, Claim(r) PROVE IInv'
    <2> USE <1>0, <1>1 DEF IInv, Claim, Claimable
    <2>1. OneHolder'
      BY DEF OneHolder, HeldRow
    <2>2. HeldRow'
      BY DEF OneHolder, HeldRow, LinkedRow
    <2>3. OneRequest'
      BY DEF OneRequest, NothingOut
    <2>4. RunMatchesRequest'
      BY DEF RunMatchesRequest
    <2>5. NothingOut'
      BY DEF NothingOut
    <2>6. LinkedRow'
      BY DEF LinkedRow, Taken
    <2> QED
      BY <2>1, <2>2, <2>3, <2>4, <2>5, <2>6
  <1>2. ASSUME NEW r \in Runs, NotPosted(r) PROVE IInv'
    BY <1>0, <1>2 DEF IInv, NotPosted, OneHolder, HeldRow, OneRequest, RunMatchesRequest, NothingOut,
           LinkedRow, Taken
  <1>3. ASSUME NEW r \in Runs, Post(r) PROVE IInv'
    <2> USE <1>0, <1>3 DEF IInv, Post
    <2>1. OneHolder' /\ HeldRow'
      BY DEF OneHolder, HeldRow
    <2>2. OneRequest'
      BY DEF OneRequest, OneHolder
    <2>3. RunMatchesRequest'
      BY DEF RunMatchesRequest
    <2>4. NothingOut' /\ LinkedRow'
      BY DEF NothingOut, HeldRow, LinkedRow, Taken
    <2> QED
      BY <2>1, <2>2, <2>3, <2>4
  <1>4. ASSUME NEW r \in Runs, Classify(r) PROVE IInv'
    <2> USE <1>0, <1>4 DEF IInv, Classify, Answer
    <2>1. OneHolder' /\ HeldRow'
      BY DEF OneHolder, HeldRow
    <2>2. OneRequest' /\ RunMatchesRequest'
      BY DEF OneRequest, RunMatchesRequest
    <2>3. NothingOut' /\ LinkedRow'
      BY DEF NothingOut, LinkedRow, Taken
    <2> QED
      BY <2>1, <2>2, <2>3
  <1>5. ASSUME NEW r \in Runs, Record(r) PROVE IInv'
    <2> USE <1>0, <1>5 DEF IInv, Record, Recorded, Answer
    <2>1. OneHolder' /\ HeldRow'
      BY DEF OneHolder, HeldRow
    <2>2. OneRequest' /\ RunMatchesRequest'
      BY DEF OneRequest, RunMatchesRequest
    <2>3. NothingOut'
      BY DEF NothingOut, OneRequest, RunMatchesRequest, HeldRow
    <2>4. LinkedRow'
      <3>1. CASE at[r] = "accepted"
        <4>1. outbox' = [outbox EXCEPT ![send[r]] = "accepted"]
          BY <3>1
        <4>2. linked' = [linked EXCEPT ![send[r]] = TRUE]
          BY <3>1
        <4>3. Taken(r, send[r])'
          BY <3>1 DEF Taken, RunMatchesRequest
        <4> QED
          BY <4>1, <4>2, <4>3 DEF LinkedRow, Taken
      <3>2. CASE at[r] # "accepted"
        <4>1. linked' = linked
          BY <3>2
        <4>2. outbox'[send[r]] \in {"pending", "failed", "unknown"}
          BY <3>2
        <4>3. \A s \in Sends \ {send[r]} : outbox'[s] = outbox[s]
          OBVIOUS
        <4> QED
          BY <4>1, <4>2, <4>3 DEF LinkedRow, Taken, HeldRow
      <3> QED
        BY <3>1, <3>2
    <2> QED
      BY <2>1, <2>2, <2>3, <2>4
  <1>6. ASSUME NEW r \in Runs, Die(r) PROVE IInv'
    BY <1>0, <1>6 DEF IInv, Die, OneHolder, HeldRow, OneRequest, RunMatchesRequest, NothingOut,
           LinkedRow, Taken
  <1>7. ASSUME NEW r \in Runs, Take(r) \/ Refuse(r) PROVE IInv'
    <2> USE <1>0, <1>7 DEF IInv, Take, Refuse
    <2>1. OneHolder' /\ HeldRow'
      BY DEF OneHolder, HeldRow
    <2>2. OneRequest' /\ RunMatchesRequest'
      BY DEF OneRequest, RunMatchesRequest
    <2>3. NothingOut' /\ LinkedRow'
      BY DEF NothingOut, LinkedRow, Taken
    <2> QED
      BY <2>1, <2>2, <2>3
  <1>8. ASSUME NEW s \in Sends, NEW receipt \in Receipts, ApplyStatus(s, receipt) PROVE IInv'
    <2> USE <1>0, <1>8, ReceiptsAssumption DEF IInv, ApplyStatus, Moves, DeliveryStatus
    <2>1. OneHolder' /\ HeldRow'
      BY DEF OneHolder, HeldRow
    <2>2. OneRequest' /\ RunMatchesRequest'
      BY DEF OneRequest, RunMatchesRequest
    <2>3. NothingOut' /\ LinkedRow'
      BY DEF NothingOut, LinkedRow, Taken
    <2> QED
      BY <2>1, <2>2, <2>3
  <1>9. CASE UNCHANGED vars
    BY <1>9 DEF vars, IInv, OneHolder, HeldRow, OneRequest, RunMatchesRequest, NothingOut,
           LinkedRow, Taken
  <1>10. QED
    BY <1>1, <1>2, <1>3, <1>4, <1>5, <1>6, <1>7, <1>8, <1>9 DEF Next, Worker

(* The state of every row, run and request is one the code can name, and    *)
(* the invariant above holds throughout.                                    *)
THEOREM Invariance == Spec => []IInv
  BY InitIInv, StepIInv, PTL DEF Spec

THEOREM TypeCorrect == Spec => []TypeOK
  BY Invariance, PTL DEF IInv

(* send_once is at most once: whatever dies, overlaps or is retried, the    *)
(* provider takes a send from one request at most.                          *)
THEOREM AtMostOneCopy == Spec => []SentAtMostOnce
  <1>1. IInv => SentAtMostOnce
    BY DEF IInv, OneRequest, SentAtMostOnce, Taken, OutThere
  <1>2. QED
    BY <1>1, Invariance, PTL

(* "pending" and an unlinked "failed" are true: the person has not got it   *)
(* and will not from any request already made.                              *)
THEOREM NotSentRowsAreTrue == Spec => []NotSentIsTrue
  <1>1. IInv => NotSentIsTrue
    BY DEF IInv, NothingOut, NotSentIsTrue, OutThere
  <1>2. QED
    BY <1>1, Invariance, PTL

(* "accepted" and what follows it are true: the provider has the message.   *)
THEOREM AcceptedRowsAreTrue == Spec => []AcceptedIsTrue
  <1>1. IInv => AcceptedIsTrue
    BY DEF IInv, LinkedRow, AcceptedIsTrue
  <1>2. QED
    BY <1>1, Invariance, PTL

(* The row of an accepted message never moves back: a straggling run no     *)
(* longer holds it, and the webhook's UPDATE only matches a later status.   *)
THEOREM AcceptedRowsMoveForward == Spec => AcceptedMovesForward
  <1> DEFINE Forward(s) ==
        linked[s] => linked'[s] /\ (outbox'[s] = outbox[s] \/ Before(outbox[s], outbox'[s]))
  <1>1. ASSUME IInv, [Next]_vars, NEW s \in Sends PROVE Forward(s)
    <2> USE <1>1 DEF IInv, TypeOK
    <2>1. ASSUME NEW r \in Runs, Claim(r) PROVE Forward(s)
      BY <2>1 DEF Claim, Claimable, LinkedRow
    <2>2. ASSUME NEW r \in Runs, Record(r) PROVE Forward(s)
      <3>1. linked[s] => s # send[r]
        BY <2>2 DEF HeldRow, Record, Recorded, InCall
      <3>2. QED
        BY <3>1, <2>2 DEF Record, Recorded
    <2>3. ASSUME NEW t \in Sends, NEW receipt \in Receipts, ApplyStatus(t, receipt)
          PROVE  Forward(s)
      BY <2>3 DEF ApplyStatus, Moves
    <2>4. ASSUME UNCHANGED <<outbox, linked>> PROVE Forward(s)
      BY <2>4
    <2>5. QED
      BY <2>1, <2>2, <2>3, <2>4
      DEF Next, Worker, NotPosted, Post, Classify, Die, Take, Refuse, vars
  <1>2. IInv /\ [Next]_vars => [\A s \in Sends : Forward(s)]_vars
    BY <1>1
  <1>3. QED
    BY <1>2, Invariance, PTL DEF Spec, AcceptedMovesForward

-----------------------------------------------------------------------------
(* Outbox implements AtMostOnce. *)

CopiesOf(s) == {r \in Runs : Taken(r, s)}

OutcomeOf(s) ==
  IF linked[s] THEN "confirmed" ELSE IF outbox[s] = "failed" THEN "refused" ELSE "open"

LEMMA InitPromise == Init => Promise!Init
  BY DEF Init, Promise!Init, Taken

(* A step that changes no copies and no outcome is a stutter of the promise. *)
LEMMA PromiseStutter ==
  ASSUME \A s \in Sends : CopiesOf(s)' = CopiesOf(s),
         \A s \in Sends : OutcomeOf(s)' = OutcomeOf(s)
  PROVE  UNCHANGED Promise!vars
  BY DEF CopiesOf, OutcomeOf, Promise!vars

LEMMA StepPromise == IInv /\ [Next]_vars => [Promise!Next]_(Promise!vars)
  <1> SUFFICES ASSUME IInv, [Next]_vars PROVE [Promise!Next]_(Promise!vars)
    OBVIOUS
  <1> USE DEF IInv, TypeOK
  <1>1. ASSUME NEW r \in Runs, Claim(r) PROVE UNCHANGED Promise!vars
    <2>1. \A s \in Sends : OutcomeOf(s)' = OutcomeOf(s)
      BY <1>1 DEF Claim, Claimable, OutcomeOf, LinkedRow
    <2>2. \A s \in Sends : CopiesOf(s)' = CopiesOf(s)
      BY <1>1 DEF Claim, Claimable, CopiesOf, Taken
    <2>3. QED
      BY <2>1, <2>2, PromiseStutter
  <1>2. ASSUME NEW r \in Runs, Take(r) PROVE Promise!Next
    <2> PICK s \in Sends : s = send[r]
      OBVIOUS
    <2>1. request[r] = "wire" /\ request' = [request EXCEPT ![r] = "taken"]
          /\ UNCHANGED <<outbox, linked, send>>
      BY <1>2 DEF Take
    <2>3. CopiesOf(s) = {}
      BY <2>1 DEF CopiesOf, Taken, OneRequest, OutThere
    <2>4. OutcomeOf(s) = "open"
      BY <2>1, <2>3 DEF OutcomeOf, CopiesOf, LinkedRow, NothingOut, OutThere
    <2>5. CopiesOf(s)' = {r}
      BY <2>1, <2>3 DEF CopiesOf, Taken
    <2>6. \A t \in Sends \ {s} : CopiesOf(t)' = CopiesOf(t)
      BY <2>1 DEF CopiesOf, Taken
    <2>7. [t \in Sends |-> CopiesOf(t)'] = [[t \in Sends |-> CopiesOf(t)] EXCEPT ![s] = {r}]
      BY <2>5, <2>6
    <2>8. [t \in Sends |-> OutcomeOf(t)'] = [t \in Sends |-> OutcomeOf(t)]
      BY <2>1 DEF OutcomeOf
    <2>9. Promise!Take(s)
      BY <2>3, <2>4, <2>7, <2>8 DEF Promise!Take, CopiesOf, OutcomeOf
    <2>10. QED
      BY <2>9 DEF Promise!Next
  <1>3. ASSUME NEW r \in Runs, Record(r) PROVE [Promise!Next]_(Promise!vars)
    <2> PICK s \in Sends : s = send[r]
      OBVIOUS
    <2>1. at[r] \in Answer /\ at[r] \in InCall
      BY <1>3 DEF Record, Recorded, InCall
    <2>2. \A t \in Sends : CopiesOf(t)' = CopiesOf(t)
      BY <1>3 DEF Record, Recorded, CopiesOf, Taken
    <2>3. OutcomeOf(s) = "open"
      BY <2>1 DEF HeldRow, OutcomeOf
    <2>4. \A t \in Sends \ {s} : OutcomeOf(t)' = OutcomeOf(t)
      BY <1>3 DEF Record, Recorded, OutcomeOf
    <2>5. CASE at[r] = "accepted"
      <3>1. OutcomeOf(s)' = "confirmed"
        BY <1>3, <2>1, <2>5 DEF Record, Recorded, OutcomeOf
      <3>2. CopiesOf(s) # {}
        BY <2>5 DEF CopiesOf, Taken, RunMatchesRequest
      <3>3. [t \in Sends |-> OutcomeOf(t)'] =
              [[t \in Sends |-> OutcomeOf(t)] EXCEPT ![s] = "confirmed"]
        BY <3>1, <2>4
      <3>4. Promise!Confirm(s)
        BY <2>1, <2>2, <2>3, <3>2, <3>3 DEF Promise!Confirm, CopiesOf, OutcomeOf
      <3>5. QED
        BY <2>1, <3>4 DEF Promise!Next
    <2>6. CASE at[r] = "rejected"
      <3>1. OutcomeOf(s)' = "refused"
        BY <1>3, <2>1, <2>6 DEF Record, Recorded, OutcomeOf, HeldRow
      <3>2. CopiesOf(s) = {}
        BY <2>1, <2>6 DEF CopiesOf, Taken, OneRequest, RunMatchesRequest, OutThere
      <3>3. [t \in Sends |-> OutcomeOf(t)'] =
              [[t \in Sends |-> OutcomeOf(t)] EXCEPT ![s] = "refused"]
        BY <3>1, <2>4
      <3>4. Promise!Refuse(s)
        BY <2>1, <2>2, <2>3, <3>2, <3>3 DEF Promise!Refuse, CopiesOf, OutcomeOf
      <3>5. QED
        BY <2>1, <3>4 DEF Promise!Next
    <2>7. CASE at[r] \in {"transient", "ambiguous"}
      <3>1. OutcomeOf(s)' = "open"
        BY <1>3, <2>1, <2>7 DEF Record, Recorded, OutcomeOf, HeldRow
      <3>2. UNCHANGED Promise!vars
        BY <3>1, <2>2, <2>3, <2>4, PromiseStutter
      <3>3. QED
        BY <3>2
    <2>8. QED
      BY <2>1, <2>5, <2>6, <2>7 DEF Answer
  <1>4. ASSUME NEW r \in Runs, Refuse(r) PROVE UNCHANGED Promise!vars
    BY <1>4, PromiseStutter DEF Refuse, CopiesOf, OutcomeOf, Taken
  <1>5. ASSUME NEW s \in Sends, NEW receipt \in Receipts, ApplyStatus(s, receipt)
        PROVE  UNCHANGED Promise!vars
    <2>1. \A t \in Sends : OutcomeOf(t)' = OutcomeOf(t)
      BY <1>5 DEF ApplyStatus, Moves, OutcomeOf
    <2>2. \A t \in Sends : CopiesOf(t)' = CopiesOf(t)
      BY <1>5 DEF ApplyStatus, Moves, CopiesOf, Taken
    <2>3. QED
      BY <2>1, <2>2, PromiseStutter
  <1>6. ASSUME NEW r \in Runs, Post(r) PROVE UNCHANGED Promise!vars
    BY <1>6, PromiseStutter DEF Post, CopiesOf, OutcomeOf, Taken, RunMatchesRequest
  <1>7. ASSUME UNCHANGED <<outbox, linked, send, request>> PROVE UNCHANGED Promise!vars
    BY <1>7, PromiseStutter DEF CopiesOf, OutcomeOf, Taken
  <1>8. ASSUME NEW r \in Runs, NotPosted(r) \/ Classify(r) \/ Die(r)
        PROVE  UNCHANGED Promise!vars
    BY <1>7, <1>8 DEF NotPosted, Classify, Die
  <1>9. CASE UNCHANGED vars
    BY <1>7, <1>9 DEF vars
  <1>10. QED
    BY <1>1, <1>2, <1>3, <1>4, <1>5, <1>6, <1>8, <1>9 DEF Next, Worker

(* Every behaviour of send_once, its callers, the provider and the status   *)
(* webhook is one the callers of AtMostOnce may rely on.                     *)
THEOREM ImplementsPromise == Spec => PromiseSpec
  BY InitPromise, StepPromise, Invariance, PTL DEF Spec, PromiseSpec, Promise!Spec

-----------------------------------------------------------------------------
(* Announce: what a callback defers is one send of Outbox, which its own     *)
(* reading of the tenant and of the channel never touches.                   *)

LEMMA AnnounceStepsAreOutboxSteps == [AnnounceNext]_announceVars => [Next]_vars
  <1> SUFFICES ASSUME [AnnounceNext]_announceVars PROVE [Next]_vars
    OBVIOUS
  <1>1. ASSUME NEW j \in Jobs, Bound(j) \/ Defer(j) PROVE UNCHANGED vars
    BY <1>1 DEF Bound, Defer
  <1>2. ASSUME NEW r \in Runs, NEW registered \in Fleet, Read(r, registered)
        PROVE  UNCHANGED vars
    BY <1>2 DEF Read
  <1>3. ASSUME NEW r \in Runs, ClaimRow(r) \/ SendOnce(r) \/ Provider(r) PROVE Next
    BY <1>3 DEF ClaimRow, SendOnce, Provider, Next, Worker
  <1>4. ASSUME NEW s \in Sends, NEW receipt \in Receipts, Hear(s, receipt) PROVE Next
    BY <1>4 DEF Hear, Next
  <1>5. CASE Write \/ Suspend
    BY <1>5 DEF Write, Suspend
  <1>6. CASE UNCHANGED announceVars
    BY <1>6 DEF announceVars
  <1> QED
    BY <1>1, <1>2, <1>3, <1>4, <1>5, <1>6 DEF AnnounceNext, Attempt

(* The attempts at an announcement call send_once as any other run does.     *)
THEOREM AnnounceUsesTheOutbox == AnnounceSpec => Spec
  <1>1. AnnounceInit => Init
    BY DEF AnnounceInit
  <1> QED
    BY <1>1, AnnounceStepsAreOutboxSteps, PTL DEF AnnounceSpec, Spec

(* What is shown of the outbox holds of it behind the announcement.          *)
THEOREM OutboxBehindTheAnnouncement ==
  AnnounceSpec =>
    /\ [](TypeOK /\ SentAtMostOnce /\ NotSentIsTrue /\ AcceptedIsTrue)
    /\ AcceptedMovesForward
    /\ PromiseSpec
  BY AnnounceUsesTheOutbox, TypeCorrect, AtMostOneCopy, NotSentRowsAreTrue,
     AcceptedRowsAreTrue, AcceptedRowsMoveForward, ImplementsPromise, PTL

-----------------------------------------------------------------------------
(* The inductive invariant of the announcement itself. *)

ContextOK ==
  /\ of \in [Jobs -> Jobs]
  /\ status \in {"onboarding", "active", "suspended"}
  /\ wrote \in Channels
  /\ callback \in [Jobs -> {"none", "bound", "deferred"}]
  /\ attempts \in [Jobs -> Nat]
  /\ skipped \subseteq Runs
  /\ via \in [Runs -> Channels \cup {Nowhere}]
  /\ recorded \in [Sends -> Channels \cup {Nowhere}]
  /\ suspended \in BOOLEAN

(* The idempotency key of every attempt is its connection's. *)
KeyedByConnection == \A r \in Runs : send[r] = AllSetKey(r[1])

(* complete_connect has activated the tenant when a job is deferred, and who *)
(* is suspended was.                                                         *)
DeferredIsActive ==
  /\ \A j \in Jobs : callback[j] # "none" => status # "onboarding"
  /\ status = "suspended" => suspended

AnnounceIInv ==
  /\ ContextOK
  /\ KeyedByConnection
  /\ DeferredIsActive
  /\ SkippedForCause

LEMMA InitAnnounceIInv == AnnounceInit => AnnounceIInv
  <1> SUFFICES ASSUME AnnounceInit PROVE AnnounceIInv
    OBVIOUS
  <1>1. ContextOK
    BY DEF AnnounceInit, ContextOK
  <1>2. KeyedByConnection /\ DeferredIsActive
    BY FleetAssumption DEF AnnounceInit, KeyedByConnection, DeferredIsActive
  <1>3. SkippedForCause
    BY DEF AnnounceInit, SkippedForCause
  <1> QED
    BY <1>1, <1>2, <1>3 DEF AnnounceIInv

LEMMA StepAnnounceIInv ==
  TypeOK /\ AnnounceIInv /\ [AnnounceNext]_announceVars => AnnounceIInv'
  <1> SUFFICES ASSUME TypeOK, AnnounceIInv, [AnnounceNext]_announceVars PROVE AnnounceIInv'
    OBVIOUS
  <1> USE DEF AnnounceIInv, KeyedByConnection, DeferredIsActive, AllSetKey
  <1>1. ASSUME NEW j \in Jobs, Bound(j) PROVE AnnounceIInv'
    <2>1. ContextOK'
      BY <1>1 DEF Bound, ContextOK, vars
    <2>2. KeyedByConnection' /\ DeferredIsActive' /\ SkippedForCause'
      BY <1>1 DEF Bound, SkippedForCause, vars
    <2> QED
      BY <2>1, <2>2
  <1>2. ASSUME NEW j \in Jobs, Defer(j) PROVE AnnounceIInv'
    <2>1. ContextOK'
      BY <1>2 DEF Defer, ContextOK, vars
    <2>2. KeyedByConnection' /\ DeferredIsActive' /\ SkippedForCause'
      BY <1>2 DEF Defer, Deferrable, ContextOK, SkippedForCause, vars
    <2> QED
      BY <2>1, <2>2
  <1>3. ASSUME NEW r \in Runs, NEW registered \in Fleet, Read(r, registered)
        PROVE  AnnounceIInv'
    <2>1. r[1] \in Jobs /\ r[2] \in Nat
      BY FleetAssumption
    <2>2. UNCHANGED <<vars, of, status, wrote, callback, recorded, suspended>>
      BY <1>3 DEF Read
    <2>3. callback[r[1]] = "deferred" /\ attempts' = [attempts EXCEPT ![r[1]] = r[2]]
      BY <1>3 DEF Read
    <2>4. \/ /\ status = "active" /\ wrote \in registered
             /\ via' = [via EXCEPT ![r] = wrote] /\ UNCHANGED skipped
          \/ /\ ~(status = "active" /\ wrote \in registered)
             /\ skipped' = skipped \cup {r} /\ UNCHANGED via
      BY <1>3 DEF Read
    <2>5. ContextOK'
      BY <2>1, <2>2, <2>3, <2>4 DEF ContextOK
    <2>6. SkippedForCause'
      \* The worker runs the channel, so the tenant is not active; a deferred
      \* job says they were, so they are suspended.
      BY <2>1, <2>2, <2>3, <2>4 DEF ContextOK, SkippedForCause
    <2> QED
      BY <2>2, <2>5, <2>6 DEF vars
  <1>4. ASSUME NEW r \in Runs, ClaimRow(r) PROVE AnnounceIInv'
    <2>1. UNCHANGED <<of, status, wrote, callback, attempts, skipped, via, suspended, send>>
      BY <1>4 DEF ClaimRow, Claim
    <2>2. recorded' \in [Sends -> Channels \cup {Nowhere}]
      BY <1>4 DEF ClaimRow, ContextOK, TypeOK
    <2>3. ContextOK'
      BY <2>1, <2>2 DEF ContextOK
    <2> QED
      BY <2>1, <2>3 DEF SkippedForCause
  <1>5. ASSUME UNCHANGED <<context, send>> PROVE AnnounceIInv'
    BY <1>5 DEF context, ContextOK, SkippedForCause
  <1>6. ASSUME NEW r \in Runs, SendOnce(r) \/ Provider(r) PROVE AnnounceIInv'
    BY <1>5, <1>6
    DEF SendOnce, Provider, NotPosted, Post, Classify, Record, Die, Take, Refuse
  <1>7. ASSUME NEW s \in Sends, NEW receipt \in Receipts, Hear(s, receipt) PROVE AnnounceIInv'
    BY <1>5, <1>7 DEF Hear, ApplyStatus
  <1>8. CASE Write \/ Suspend
    <2>1. ContextOK'
      BY <1>8 DEF Write, Suspend, ContextOK, vars
    <2>2. KeyedByConnection' /\ DeferredIsActive' /\ SkippedForCause'
      BY <1>8 DEF Write, Suspend, SkippedForCause, vars
    <2> QED
      BY <2>1, <2>2
  <1>9. CASE UNCHANGED announceVars
    BY <1>5, <1>9 DEF announceVars, vars
  <1> QED
    BY <1>1, <1>2, <1>3, <1>4, <1>6, <1>7, <1>8, <1>9 DEF AnnounceNext, Attempt

THEOREM AnnounceInvariance == AnnounceSpec => []AnnounceIInv
  BY InitAnnounceIInv, StepAnnounceIInv, AnnounceUsesTheOutbox, TypeCorrect, PTL
  DEF AnnounceSpec

(* However many callbacks of a connection defer the announcement, and        *)
(* however many attempts of them overlap, the person gets one.               *)
THEOREM AnnouncedOnce == AnnounceSpec => []AllSetOnce
  <1>1. TypeOK /\ SentAtMostOnce /\ KeyedByConnection => AllSetOnce
    BY DEF TypeOK, SentAtMostOnce, KeyedByConnection, AllSetKey, AllSetOnce, Taken
  <1> QED
    BY <1>1, AnnounceInvariance, OutboxBehindTheAnnouncement, PTL DEF AnnounceIInv

(* Where every worker runs every channel, an attempt sends nothing only to a *)
(* tenant po-admin suspended.                                                *)
THEOREM SkipsHaveACause == AnnounceSpec => []SkippedForCause
  BY AnnounceInvariance, PTL DEF AnnounceIInv
=============================================================================

--------------------------- MODULE IngressProofs ---------------------------
(* Proofs about JobQueue, for any jobs, locks, workers and bounds, and about *)
(* Ingress in front of it, for any messages, batches and deliveries.         *)
EXTENDS Ingress, TLAPS

-----------------------------------------------------------------------------
(* The queue's inductive invariant. *)

NoneSilent == \A w \in Workers : heart[w] # "silent"

(* Whoever runs a job holds it: nothing else can move it on. *)
RunsAreOwned ==
  \A w \in Workers, j \in Jobs : run[w][j] \in Running =>
    job[j] = "doing" /\ owner[j] = w /\ heart[w] = "beating"

OneDoing ==
  \A j, k \in Jobs :
    job[j] = "doing" /\ job[k] = "doing" /\ LockOf[j] = LockOf[k] => j = k

DoingIsOwned == \A j \in Jobs : job[j] = "doing" => owner[j] \in Workers

(* A listed job was left behind by a dead worker, and still is. *)
ListedAreLost ==
  \A j \in listed : job[j] = "doing" /\ heart[owner[j]] = "dead"

(* Ids are drawn before the commit; what had committed then has a lower id. *)
DrawnFirst ==
  \A j \in Jobs :
    /\ job[j] # "absent" => j \in drawn
    /\ ahead[j] \subseteq Siblings(j)
    /\ earlier[j] \subseteq ahead[j]
    /\ \A k \in earlier[j] : job[k] # "absent"

DoneIsHandled ==
  \A w \in Workers, j \in Jobs : run[w][j] = "done" => j \in handled

(* Once a job is fetched, its predecessors are over. *)
PredecessorsOver ==
  \A j \in Jobs : job[j] = "doing" =>
    \A k \in earlier[j] : k \in handled \/ job[k] = "failed"

(* What holds of the queue's rows however the workers lapse .. *)
Rows ==
  /\ OneDoing
  /\ DoingIsOwned
  /\ DrawnFirst
  /\ DoneIsHandled
  /\ SucceededIsHandled

(* .. and what holds of the runs until one does. *)
Undisturbed ==
  /\ NoneSilent
  /\ RunsAreOwned
  /\ ListedAreLost
  /\ PredecessorsOver

IInv == TypeOK /\ Rows /\ (lapses = 0 => Undisturbed)

-----------------------------------------------------------------------------
LEMMA InitIInv == Init => IInv
  BY ConstantsAssumption DEF Init, IInv, Rows, Undisturbed, TypeOK, NoneSilent,
     RunsAreOwned, OneDoing, DoingIsOwned, ListedAreLost, DrawnFirst, DoneIsHandled,
     SucceededIsHandled, PredecessorsOver, Status, Outcome, Running

LEMMA CountedType == \A n \in 0..MaxAttempts : Counted(n) \in 0..MaxAttempts
  BY ConstantsAssumption DEF Counted

LEMMA StepTypeOK == TypeOK /\ [Next]_vars => TypeOK'
  <1> SUFFICES ASSUME TypeOK, [Next]_vars PROVE TypeOK'
    OBVIOUS
  <1> USE ConstantsAssumption DEF TypeOK, Status, Outcome, Running, deferral, queue, workers
  <1>1. ASSUME NEW j \in Jobs, Draw(j) PROVE TypeOK'
    BY <1>1 DEF Draw, Siblings
  <1>2. ASSUME NEW js \in SUBSET Uncommitted, Defer(js) PROVE TypeOK'
    BY <1>2 DEF Defer
  <1>3. ASSUME NEW js \in SUBSET Uncommitted, Undraw(js) PROVE TypeOK'
    BY <1>3 DEF Undraw
  <1>4. ASSUME NEW w \in Workers, NEW j \in Jobs, Fetch(w, j) PROVE TypeOK'
    BY <1>4 DEF Fetch
  <1>5. ASSUME NEW w \in Workers, NEW j \in Jobs, Handle(w, j) \/ Raise(w, j) PROVE TypeOK'
    <2>1. \E outcome \in Outcome : run' = [run EXCEPT ![w][j] = outcome]
      BY <1>5 DEF Handle, Raise
    <2>2. run' \in [Workers -> [Jobs -> {"none"} \cup Running]]
      BY <2>1
    <2> QED
      BY <1>5, <2>2 DEF Handle, Raise
  <1>6. ASSUME NEW w \in Workers, NEW j \in Jobs, Finish(w, j) PROVE TypeOK'
    <2>0. Counted(attempts[j]) \in 0..MaxAttempts
      BY CountedType
    <2>1. attempts' \in [Jobs -> 0..MaxAttempts] /\ job' \in [Jobs -> Status]
      <3>1. CASE job[j] \in {"todo", "doing"}
        <4>1. attempts' \in [Jobs -> 0..MaxAttempts]
          <5>1. PICK n \in 0..MaxAttempts : attempts' = [attempts EXCEPT ![j] = n]
            <6> DEFINE n == IF job[j] = "doing" THEN Counted(attempts[j]) ELSE attempts[j]
            <6>1. n \in 0..MaxAttempts
              BY <2>0
            <6>2. attempts' = [attempts EXCEPT ![j] = n]
              BY <1>6, <3>1 DEF Finish
            <6> QED
              BY <6>1, <6>2
          <5> QED
            BY <5>1
        <4>2. job' \in [Jobs -> Status]
          BY <1>6, <3>1 DEF Finish, EndedAs
        <4> QED
          BY <4>1, <4>2
      <3>2. CASE UNCHANGED <<job, attempts>>
        BY <3>2
      <3> QED
        BY <1>6, <3>1, <3>2 DEF Finish
    <2>2. /\ run' \in [Workers -> [Jobs -> {"none"} \cup Running]]
          /\ tries' \in [Workers -> [Jobs -> 0..MaxAttempts]]
      BY <1>6 DEF Finish
    <2> QED
      BY <1>6, <2>1, <2>2 DEF Finish
  <1>7. ASSUME NEW w \in Workers, NEW j \in Jobs, Retry(w, j) PROVE TypeOK'
    BY <1>7, CountedType DEF Retry, Requeue
  <1>11. ASSUME NEW w \in Workers, GoSilent(w) PROVE TypeOK'
    BY <1>11 DEF GoSilent
  <1>12. ASSUME NEW w \in Workers, BeatAgain(w) PROVE TypeOK'
    BY <1>12 DEF BeatAgain
  <1>13. ASSUME NEW w \in Workers, Die(w) PROVE TypeOK'
    BY <1>13 DEF Die
  <1>8. CASE ListStalled
    BY <1>8 DEF ListStalled, Stalled
  <1>9. ASSUME NEW j \in Jobs, RetryStalled(j) PROVE TypeOK'
    <2>0. Counted(attempts[j]) \in 0..MaxAttempts
      BY CountedType
    <2>1. attempts' \in [Jobs -> 0..MaxAttempts] /\ job' \in [Jobs -> Status]
      <3>1. CASE Requeue(j)
        BY <2>0, <3>1 DEF Requeue
      <3>2. CASE UNCHANGED <<job, attempts>>
        BY <3>2
      <3> QED
        BY <1>9, <3>1, <3>2 DEF RetryStalled
    <2> QED
      BY <1>9, <2>1 DEF RetryStalled
  <1>10. CASE UNCHANGED vars
    BY <1>10 DEF vars
  <1> QED
    BY <1>1, <1>2, <1>3, <1>4, <1>5, <1>6, <1>7, <1>8, <1>9, <1>10, <1>11, <1>12, <1>13
       DEF Next, Work, Run

LEMMA StepRows == TypeOK /\ Rows /\ [Next]_vars => Rows'
  <1> SUFFICES ASSUME TypeOK, Rows, [Next]_vars PROVE Rows'
    OBVIOUS
  <1>0. TypeOK'
    BY StepTypeOK
  <1> USE <1>0 DEF TypeOK, Rows, OneDoing, DoingIsOwned, DrawnFirst, DoneIsHandled,
                   SucceededIsHandled, deferral, queue, workers
  <1>1. ASSUME NEW j \in Jobs, Draw(j) PROVE Rows'
    BY <1>1 DEF Draw, Siblings
  <1>2. ASSUME NEW js \in SUBSET Uncommitted, Defer(js) \/ Undraw(js) PROVE Rows'
    <2>1. CASE Defer(js)
      BY <2>1 DEF Defer, Uncommitted
    <2>2. CASE Undraw(js)
      BY <2>2 DEF Undraw, Uncommitted
    <2> QED
      BY <1>2, <2>1, <2>2
  <1>3. ASSUME NEW w \in Workers, NEW j \in Jobs, Fetch(w, j) PROVE Rows'
    <2>1. OneDoing' /\ DoingIsOwned'
      BY <1>3 DEF Fetch, LockIsFree, FreeOfRunning, Siblings
    <2>2. DrawnFirst' /\ DoneIsHandled' /\ SucceededIsHandled'
      BY <1>3 DEF Fetch
    <2> QED
      BY <2>1, <2>2
  <1>4. ASSUME NEW w \in Workers, NEW j \in Jobs, Handle(w, j) \/ Raise(w, j) PROVE Rows'
    <2>1. CASE Handle(w, j)
      BY <2>1 DEF Handle
    <2>2. CASE Raise(w, j)
      BY <2>2 DEF Raise
    <2> QED
      BY <1>4, <2>1, <2>2
  <1>5. ASSUME NEW w \in Workers, NEW j \in Jobs, Finish(w, j) \/ Retry(w, j) PROVE Rows'
    <2>1. /\ run' = [run EXCEPT ![w][j] = "none"]
          /\ UNCHANGED <<deferral, owner, handled>>
      BY <1>5 DEF Finish, Retry
    <2>2. \/ UNCHANGED job
          \/ /\ job[j] # "absent"
             /\ \E end \in {"todo", "succeeded", "failed"} :
                  /\ job' = [job EXCEPT ![j] = end]
                  /\ end = "succeeded" => run[w][j] = "done"
      BY <1>5 DEF Finish, Retry, Requeue, EndedAs
    <2>3. \A k \in Jobs : /\ job'[k] = "doing" => job[k] = "doing"
                          /\ job'[k] = "absent" <=> job[k] = "absent"
      BY <2>2
    <2>5. OneDoing' /\ DoingIsOwned'
      BY <2>1, <2>3
    <2>6. DrawnFirst'
      BY <2>1, <2>3 DEF Siblings
    <2>4. DoneIsHandled'
      BY <2>1
    <2>7. SucceededIsHandled'
      <3>1. \A k \in Jobs : job'[k] = "succeeded" => job[k] = "succeeded" \/ run[w][k] = "done"
        BY <2>2
      <3> QED
        BY <2>1, <3>1
    <2> QED
      BY <2>4, <2>5, <2>6, <2>7
  <1>6. ASSUME NEW w \in Workers, GoSilent(w) \/ BeatAgain(w) \/ Die(w) PROVE Rows'
    <2>1. /\ UNCHANGED <<deferral, queue, handled>>
          /\ run' = run \/ run' = [run EXCEPT ![w] = [j \in Jobs |-> "none"]]
      BY <1>6 DEF GoSilent, BeatAgain, Die
    <2>2. \A v \in Workers, j \in Jobs : run'[v][j] \in {run[v][j], "none"}
      <3>1. ASSUME NEW v \in Workers PROVE run'[v] \in {run[v], [j \in Jobs |-> "none"]}
        <4>1. DOMAIN run = Workers
          OBVIOUS
        <4> HIDE DEF TypeOK, Rows, OneDoing, DoingIsOwned, DrawnFirst, DoneIsHandled, SucceededIsHandled
        <4> QED
          BY <2>1, <4>1
      <3> HIDE DEF TypeOK, Rows, OneDoing, DoingIsOwned, DrawnFirst, DoneIsHandled, SucceededIsHandled
      <3> QED
        BY <3>1
    <2> QED
      BY <2>1, <2>2
  <1>7. CASE ListStalled
    BY <1>7 DEF ListStalled
  <1>8. ASSUME NEW j \in Jobs, RetryStalled(j) PROVE Rows'
    <2>1. UNCHANGED <<deferral, owner, workers, handled>>
      BY <1>8 DEF RetryStalled
    <2>2. UNCHANGED job \/ (job[j] # "absent" /\ job' = [job EXCEPT ![j] = "todo"])
      BY <1>8 DEF RetryStalled, Requeue
    <2> QED
      BY <2>1, <2>2
  <1>9. CASE UNCHANGED vars
    BY <1>9 DEF vars
  <1> QED
    BY <1>1, <1>2, <1>3, <1>4, <1>5, <1>6, <1>7, <1>8, <1>9 DEF Next, Work, Run

LEMMA StepLapses == TypeOK /\ [Next]_vars /\ lapses' = 0 => lapses = 0
  <1> SUFFICES ASSUME TypeOK, [Next]_vars, lapses' # lapses PROVE lapses' # 0
    OBVIOUS
  <1>1. PICK w \in Workers : GoSilent(w)
    BY DEF Next, Work, Run, Draw, Defer, Undraw, Fetch, Handle, Raise, Finish, Retry,
           BeatAgain, Die, ListStalled, RetryStalled, vars, workers
  <1> QED
    BY <1>1, ConstantsAssumption DEF GoSilent, TypeOK

LEMMA StepUndisturbed ==
  ASSUME IInv, [Next]_vars, lapses = 0, lapses' = 0 PROVE Undisturbed'
  <1>0. TypeOK /\ TypeOK' /\ Rows /\ Rows' /\ Undisturbed
    BY StepTypeOK, StepRows DEF IInv
  <1> USE <1>0 DEF TypeOK, Undisturbed, NoneSilent, deferral, queue, workers
  <1>1. ASSUME NEW j \in Jobs, Draw(j) PROVE Undisturbed'
    <2>1. RunsAreOwned' /\ ListedAreLost'
      BY <1>1 DEF Draw, RunsAreOwned, ListedAreLost
    <2>2. PredecessorsOver'
      BY <1>1 DEF Draw, PredecessorsOver, Rows, DrawnFirst
    <2>3. NoneSilent'
      BY <1>1 DEF Draw
    <2> QED
      BY <2>1, <2>2, <2>3
  <1>2. ASSUME NEW js \in SUBSET Uncommitted, Defer(js) \/ Undraw(js) PROVE Undisturbed'
    <2> USE <1>2 DEF Defer, Undraw, Uncommitted
    <2>1. RunsAreOwned' /\ ListedAreLost' /\ NoneSilent'
      BY DEF RunsAreOwned, ListedAreLost
    <2>3. PredecessorsOver'
      <3>1. CASE Defer(js)
        BY <3>1 DEF PredecessorsOver, Rows, DrawnFirst
      <3>2. CASE Undraw(js)
        BY <3>2 DEF PredecessorsOver
      <3> QED
        BY <1>2, <3>1, <3>2
    <2> QED
      BY <2>1, <2>3
  <1>3. ASSUME NEW w \in Workers, NEW j \in Jobs, Fetch(w, j) PROVE Undisturbed'
    <2> USE <1>3 DEF Fetch
    <2>2. RunsAreOwned'
      BY DEF RunsAreOwned, Alive, Running
    <2>3. ListedAreLost' /\ NoneSilent'
      BY DEF ListedAreLost
    <2>4. PredecessorsOver'
      <3>1. \A k \in earlier[j] : k \in Jobs /\ job[k] \in {"succeeded", "failed"}
        BY DEF Rows, DrawnFirst, LockIsFree, FreeOfRunning, FreeOfOlder, Siblings, Status
      <3> QED
        BY <3>1 DEF PredecessorsOver, Rows, SucceededIsHandled
    <2> QED
      BY <2>2, <2>3, <2>4
  <1>4. ASSUME NEW w \in Workers, NEW j \in Jobs, Handle(w, j) \/ Raise(w, j)
        PROVE Undisturbed'
    <2> USE <1>4 DEF Handle, Raise
    <2>0. run[w][j] \in Running /\ \E outcome : run' = [run EXCEPT ![w][j] = outcome]
      BY DEF Running
    <2>1. RunsAreOwned'
      <3>1. \A v \in Workers, k \in Jobs : run'[v][k] \in Running => run[v][k] \in Running
        BY <2>0
      <3> QED
        BY <3>1 DEF RunsAreOwned
    <2>2. ListedAreLost' /\ PredecessorsOver' /\ NoneSilent'
      BY DEF ListedAreLost, PredecessorsOver
    <2> QED
      BY <2>1, <2>2
  <1>5. ASSUME NEW w \in Workers, NEW j \in Jobs, Finish(w, j) \/ Retry(w, j)
        PROVE Undisturbed'
    <2>1. run[w][j] \in Outcome /\ job[j] = "doing" /\ owner[j] = w /\ heart[w] = "beating"
      BY <1>5 DEF Finish, Retry, MayRetry, RunsAreOwned, Running, Outcome
    <2>2. /\ run' = [run EXCEPT ![w][j] = "none"]
          /\ \E end \in {"todo", "succeeded", "failed"} : job' = [job EXCEPT ![j] = end]
          /\ UNCHANGED <<deferral, owner, heart, lapses, handled, listed>>
      BY <1>5, <2>1 DEF Finish, Retry, Requeue, EndedAs
    <2>3. RunsAreOwned'
      <3> SUFFICES ASSUME NEW v \in Workers, NEW k \in Jobs, run'[v][k] \in Running
                   PROVE job'[k] = "doing" /\ owner'[k] = v /\ heart'[v] = "beating"
        BY DEF RunsAreOwned
      <3>1. ~(v = w /\ k = j) /\ run[v][k] \in Running
        BY <2>2 DEF Running, Outcome
      <3>2. job[k] = "doing" /\ owner[k] = v /\ heart[v] = "beating"
        BY <3>1 DEF RunsAreOwned
      <3>3. k # j
        BY <2>1, <3>1, <3>2
      <3> QED
        BY <2>2, <3>2, <3>3
    <2>4. ListedAreLost' /\ PredecessorsOver' /\ NoneSilent'
      BY <2>1, <2>2 DEF ListedAreLost, PredecessorsOver
    <2> QED
      BY <2>3, <2>4
  <1>6. ASSUME NEW w \in Workers, GoSilent(w) \/ BeatAgain(w) \/ Die(w)
        PROVE Undisturbed'
    <2>1. Die(w)
      BY <1>6 DEF GoSilent, BeatAgain
    <2> USE <2>1 DEF Die
    <2>2. \A v \in Workers, j \in Jobs : run'[v][j] = IF v = w THEN "none" ELSE run[v][j]
      OBVIOUS
    <2>3. RunsAreOwned'
      BY <2>2 DEF RunsAreOwned, Running, Outcome
    <2>4. ListedAreLost'
      BY DEF ListedAreLost, Rows, DoingIsOwned
    <2>5. PredecessorsOver' /\ NoneSilent'
      BY DEF PredecessorsOver
    <2> QED
      BY <2>3, <2>4, <2>5
  <1>7. CASE ListStalled
    <2>1. ListedAreLost'
      BY <1>7 DEF ListStalled, ListedAreLost, Stalled, Rows, DoingIsOwned
    <2>2. RunsAreOwned' /\ PredecessorsOver' /\ NoneSilent'
      BY <1>7 DEF ListStalled, RunsAreOwned, PredecessorsOver
    <2> QED
      BY <2>1, <2>2
  <1>8. ASSUME NEW j \in Jobs, RetryStalled(j) PROVE Undisturbed'
    <2> USE <1>8 DEF RetryStalled, Requeue
    <2>1. job[j] = "doing" /\ heart[owner[j]] = "dead"
      BY DEF ListedAreLost
    <2>2. RunsAreOwned' /\ NoneSilent'
      BY <2>1 DEF RunsAreOwned
    <2>3. ListedAreLost' /\ PredecessorsOver'
      BY <2>1 DEF ListedAreLost, PredecessorsOver
    <2> QED
      BY <2>2, <2>3
  <1>9. CASE UNCHANGED vars
    BY <1>9 DEF vars, RunsAreOwned, ListedAreLost, PredecessorsOver
  <1> QED
    BY <1>1, <1>2, <1>3, <1>4, <1>5, <1>6, <1>7, <1>8, <1>9 DEF IInv, Next, Work, Run

(* The strengthening holds in every reachable state. *)
LEMMA Invariance == Spec => []IInv
  <1>1. IInv /\ [Next]_vars => IInv'
    <2> SUFFICES ASSUME IInv, [Next]_vars PROVE IInv'
      OBVIOUS
    <2>1. TypeOK' /\ Rows'
      BY StepTypeOK, StepRows DEF IInv
    <2>2. ASSUME lapses' = 0 PROVE Undisturbed'
      <3>1. lapses = 0
        BY <2>2, StepLapses DEF IInv
      <3> QED
        BY <2>2, <3>1, StepUndisturbed
    <2> QED
      BY <2>1, <2>2 DEF IInv
  <1> QED
    BY InitIInv, <1>1, PTL DEF Spec

(* Every variable keeps its type, for any jobs, locks and workers. *)
THEOREM TypeCorrect == Spec => []TypeOK
  <1>1. Init => TypeOK
    BY ConstantsAssumption DEF Init, TypeOK, Status
  <1> QED
    BY <1>1, StepTypeOK, PTL DEF Spec

-----------------------------------------------------------------------------
(* However the workers lapse, no job succeeds without its message handled.  *)
THEOREM SucceededJobsAreHandled == Spec => []SucceededIsHandled
  <1>1. IInv => SucceededIsHandled
    BY DEF IInv, Rows
  <1> QED
    BY <1>1, Invariance, PTL

(* "a sender's messages are handled one at a time", while every stalled worker is dead.  *)
THEOREM OneRunPerSender == Spec => []OneAtATime
  <1>1. IInv => OneAtATime
    BY DEF IInv, Rows, Undisturbed, OneAtATime, RunsAreOwned, OneDoing
  <1> QED
    BY <1>1, Invariance, PTL

(* ".. in arrival order", while every stalled worker is dead: fetch_job_v2's lock rule   *)
(* and the re-queueing of stalled jobs keep a sender's messages in order.   *)
THEOREM ArrivalOrder == Spec => InArrivalOrder
  <1> DEFINE Ordered ==
        lapses = 0 =>
          \A j \in handled' \ handled :
            \A k \in earlier[j] : k \in handled \/ job[k] = "failed"
  <1>1. IInv /\ [Next]_vars => [Ordered]_vars
    <2> SUFFICES ASSUME IInv, Next PROVE Ordered
      OBVIOUS
    <2>1. ASSUME NEW w \in Workers, NEW j \in Jobs, Handle(w, j) PROVE Ordered
      BY <2>1 DEF Handle, IInv, Undisturbed, RunsAreOwned, PredecessorsOver, Running
    <2>2. CASE \A w \in Workers, j \in Jobs : ~Handle(w, j)
      <3>1. handled' = handled
        BY <2>2 DEF Next, Work, Run, Draw, Defer, Undraw, Fetch, Raise, Finish, Retry,
                    GoSilent, BeatAgain, Die, ListStalled, RetryStalled
      <3> QED
        BY <3>1
    <2> QED
      BY <2>1, <2>2
  <1> QED
    BY <1>1, Invariance, PTL DEF Spec, InArrivalOrder

-----------------------------------------------------------------------------
(* The webhook's inductive invariant. *)

(* A message is inserted by one delivery at a time, and not once stored. *)
OneHolder ==
  \A r \in Requests :
    /\ inserted[r] \cap rows = {}
    /\ \A q \in Requests \ {r} : inserted[r] \cap inserted[q] = {}

(* The jobs a delivery has deferred are those of the rows it has inserted, *)
(* and none has committed.                                                 *)
DeferredAreItsRows ==
  \A r \in Requests : \A j \in deferring[r] :
    j \in Uncommitted /\ \E m \in inserted[r] : j \in JobsOf[m]

(* A row, committed or not, has drawn one job: a committed row a job that  *)
(* has committed, an inserted one a job its delivery has deferred.         *)
OneJobDrawn ==
  \A m \in Messages :
    /\ m \in rows =>
         \E j \in Jobs : JobsOf[m] \cap drawn = {j} /\ job[j] # "absent"
    /\ \A r \in Requests : m \in inserted[r] =>
         \E j \in deferring[r] : JobsOf[m] \cap drawn = {j}
    /\ (m \notin rows /\ \A r \in Requests : m \notin inserted[r]) =>
         JobsOf[m] \cap drawn = {}

(* What a delivery is past is stored, or will be when it commits. *)
PassedIsKept ==
  \A r \in Requests : \A i \in 1..(next[r] - 1) : BatchOf[r][i] \in rows \cup inserted[r]

IngressIInv ==
  /\ TypeOK
  /\ IngressTypeOK
  /\ \A j \in Jobs : job[j] # "absent" => j \in drawn
  /\ OneHolder
  /\ DeferredAreItsRows
  /\ OneJobDrawn
  /\ PassedIsKept
  /\ AnsweredIsStored

LEMMA InitIngressIInv == IngressInit => IngressIInv
  <1> SUFFICES ASSUME IngressInit PROVE IngressIInv
    OBVIOUS
  <1>1. TypeOK
    BY ConstantsAssumption DEF IngressInit, Init, TypeOK, Status
  <1>2. IngressTypeOK
    <2>1. \A r \in Requests : First \in 1..Len(BatchOf[r]) + 1
      BY IngressAssumption DEF First
    <2> QED
      BY <2>1, IngressAssumption DEF IngressInit, IngressTypeOK
  <1>3. \A j \in Jobs : job[j] = "absent"
    BY DEF IngressInit, Init
  <1>4. OneHolder /\ DeferredAreItsRows /\ OneJobDrawn /\ AnsweredIsStored
    BY DEF IngressInit, Init, OneHolder, DeferredAreItsRows, OneJobDrawn, AnsweredIsStored
  <1>5. PassedIsKept
    BY DEF IngressInit, First, PassedIsKept
  <1> QED
    BY <1>1, <1>2, <1>3, <1>4, <1>5 DEF IngressIInv

LEMMA MessageType ==
  ASSUME IngressTypeOK, NEW r \in Requests, Handling(r)
  PROVE  Message(r) \in Messages /\ next[r] + 1 \in 1..Len(BatchOf[r]) + 1
  BY IngressAssumption DEF IngressTypeOK, Handling, Message

(* The worker neither draws a job nor commits nor removes one. *)
LEMMA WorkKeepsRows ==
  ASSUME TypeOK, Work
  PROVE  /\ UNCHANGED drawn
         /\ \A j \in Jobs : job'[j] = "absent" <=> job[j] = "absent"
  <1> USE DEF TypeOK, deferral, queue
  <1>1. ASSUME NEW w \in Workers, NEW j \in Jobs, Finish(w, j)
        PROVE  /\ UNCHANGED drawn
               /\ \A k \in Jobs : job'[k] = "absent" <=> job[k] = "absent"
    BY <1>1 DEF Finish, EndedAs
  <1>2. ASSUME NEW w \in Workers, NEW j \in Jobs,
               Fetch(w, j) \/ Handle(w, j) \/ Raise(w, j) \/ Retry(w, j)
        PROVE  /\ UNCHANGED drawn
               /\ \A k \in Jobs : job'[k] = "absent" <=> job[k] = "absent"
    BY <1>2 DEF Fetch, Handle, Raise, Retry, Requeue
  <1>3. ASSUME NEW w \in Workers, GoSilent(w) \/ BeatAgain(w) \/ Die(w)
        PROVE  UNCHANGED <<drawn, job>>
    BY <1>3 DEF GoSilent, BeatAgain, Die
  <1>4. CASE ListStalled
    BY <1>4 DEF ListStalled
  <1>5. ASSUME NEW j \in Jobs, RetryStalled(j)
        PROVE  /\ UNCHANGED drawn
               /\ \A k \in Jobs : job'[k] = "absent" <=> job[k] = "absent"
    BY <1>5 DEF RetryStalled, Requeue
  <1> QED
    BY <1>1, <1>2, <1>3, <1>4, <1>5 DEF Work, Run

(* A message nobody has inserted has a job left to draw, and only then.     *)
LEMMA InsertDraws ==
  ASSUME IngressIInv, NEW r \in Requests, InsertNew(r)
  PROVE  /\ Message(r) \in Messages
         /\ Message(r) \notin rows
         /\ \A q \in Requests : Message(r) \notin inserted[q]
         /\ JobsOf[Message(r)] \cap drawn = {}
         /\ \E j \in JobsOf[Message(r)] \cap Jobs :
              Draw(j) /\ deferring' = [deferring EXCEPT ![r] = @ \cup {j}]
  <1>1. Message(r) \in Messages
    BY MessageType DEF InsertNew, IngressIInv
  <1>2. /\ Message(r) \notin rows
        /\ \A q \in Requests : Message(r) \notin inserted[q]
    BY DEF InsertNew, Found, Waits
  <1>3. JobsOf[Message(r)] \cap drawn = {}
    BY <1>1, <1>2 DEF IngressIInv, OneJobDrawn
  <1>4. PICK k \in JobsOf[Message(r)] : k \notin drawn
    BY <1>1, <1>3, IngressAssumption
  <1> DEFINE j == CHOOSE k2 \in JobsOf[Message(r)] : k2 \notin drawn
  <1>5. j \in JobsOf[Message(r)] \cap Jobs
    BY <1>1, <1>4, IngressAssumption
  <1>6. Draw(j) /\ deferring' = [deferring EXCEPT ![r] = @ \cup {j}]
    BY DEF InsertNew
  <1> QED
    BY <1>1, <1>2, <1>3, <1>5, <1>6

(* Every step of the webhook is one the queue's specification allows. *)
LEMMA StepQueue == IngressIInv /\ [IngressNext]_system => [Next]_vars
  <1> SUFFICES ASSUME IngressIInv, [IngressNext]_system PROVE [Next]_vars
    OBVIOUS
  <1>1. ASSUME NEW r \in Requests, InsertNew(r) PROVE Next
    BY <1>1, InsertDraws DEF Next
  <1>2. ASSUME NEW js, js \subseteq Uncommitted, Defer(js) PROVE [Next]_vars
    <2>1. CASE js = {}
      BY <1>2, <2>1 DEF IngressIInv, TypeOK, Defer, vars, deferral, queue, workers
    <2> QED
      BY <1>2, <2>1 DEF Next
  <1>3. ASSUME NEW js, js \subseteq Uncommitted, Undraw(js) PROVE [Next]_vars
    <2>1. CASE js = {}
      <3>1. \A j \in Jobs : ahead'[j] = ahead[j] /\ earlier'[j] = earlier[j]
        BY <1>3, <2>1 DEF Undraw
      <3>2. ahead' = ahead /\ earlier' = earlier
        BY <1>3, <3>1 DEF Undraw, IngressIInv, TypeOK
      <3> QED
        BY <1>3, <2>1, <3>2 DEF Undraw, vars, deferral
    <2> QED
      BY <1>3, <2>1 DEF Next
  <1>4. ASSUME NEW r \in Requests, SkipDuplicate(r) PROVE UNCHANGED vars
    BY <1>4 DEF SkipDuplicate
  <1>5. ASSUME NEW r \in Requests, Commit(r) PROVE [Next]_vars
    BY <1>5, <1>2 DEF Commit, Defer
  <1>6. ASSUME NEW r \in Requests, Fail(r) \/ FailVictim(r) PROVE [Next]_vars
    BY <1>6, <1>3 DEF Fail, FailVictim, RollBack, Undraw
  <1>7. CASE Work
    BY <1>7 DEF Next
  <1>8. CASE UNCHANGED system
    BY <1>8 DEF system
  <1> QED
    BY <1>1, <1>4, <1>5, <1>6, <1>7, <1>8 DEF IngressNext, Webhook


LEMMA StepInsertNew ==
  ASSUME IngressIInv, TypeOK', NEW r \in Requests, InsertNew(r) PROVE IngressIInv'
  <1> DEFINE m == Message(r)
  <1>0. /\ m \in Messages /\ next[r] + 1 \in 1..Len(BatchOf[r]) + 1
        /\ m \notin rows
        /\ \A q \in Requests : m \notin inserted[q]
        /\ JobsOf[m] \cap drawn = {}
    BY InsertDraws, MessageType DEF InsertNew, IngressIInv
  <1>1. PICK j \in JobsOf[m] \cap Jobs :
          Draw(j) /\ deferring' = [deferring EXCEPT ![r] = @ \cup {j}]
    BY InsertDraws
  <1>2. /\ j \notin drawn /\ drawn' = drawn \cup {j} /\ job' = job
        /\ inserted' = [inserted EXCEPT ![r] = @ \cup {m}]
        /\ next' = [next EXCEPT ![r] = @ + 1]
        /\ UNCHANGED <<rows, answered, failures>>
    BY <1>1 DEF InsertNew, Draw, queue
  <1> USE DEF IngressIInv, IngressTypeOK
  <1>3. IngressTypeOK'
    BY <1>0, <1>1, <1>2
  <1>4. \A k \in Jobs : job'[k] # "absent" => k \in drawn'
    BY <1>2
  <1>5. OneHolder'
    BY <1>0, <1>2 DEF OneHolder
  <1>6. DeferredAreItsRows'
    <2> SUFFICES ASSUME NEW q \in Requests, NEW k \in deferring'[q]
                 PROVE  k \in Uncommitted' /\ \E n \in inserted'[q] : k \in JobsOf[n]
      BY DEF DeferredAreItsRows
    <2>1. CASE k \in deferring[q]
      BY <1>2, <2>1 DEF DeferredAreItsRows, Uncommitted
    <2>2. CASE k = j /\ q = r
      BY <1>1, <1>2, <2>2 DEF Uncommitted
    <2> QED
      BY <1>1, <2>1, <2>2
  <1>7. OneJobDrawn'
    <2> SUFFICES ASSUME NEW n \in Messages
                 PROVE  /\ n \in rows' =>
                             \E k \in Jobs : JobsOf[n] \cap drawn' = {k} /\ job'[k] # "absent"
                        /\ \A q \in Requests : n \in inserted'[q] =>
                             \E k \in deferring'[q] : JobsOf[n] \cap drawn' = {k}
                        /\ (n \notin rows' /\ \A q \in Requests : n \notin inserted'[q]) =>
                             JobsOf[n] \cap drawn' = {}
      BY DEF OneJobDrawn
    <2>1. CASE n = m
      <3>1. JobsOf[m] \cap drawn' = {j}
        BY <1>0, <1>1, <1>2
      <3>2. j \in deferring'[r]
        BY <1>1
      <3>3. m \notin rows' /\ \A q \in Requests : m \in inserted'[q] <=> q = r
        BY <1>0, <1>2
      <3> QED
        BY <2>1, <3>1, <3>2, <3>3
    <2>2. CASE n # m
      <3>1. JobsOf[n] \cap drawn' = JobsOf[n] \cap drawn
        BY <1>0, <1>1, <1>2, <2>2, IngressAssumption
      <3>2. \A q \in Requests : /\ n \in inserted'[q] <=> n \in inserted[q]
                                /\ deferring[q] \subseteq deferring'[q]
        BY <1>1, <1>2, <2>2
      <3> QED
        BY <1>2, <3>1, <3>2 DEF OneJobDrawn
    <2> QED
      BY <2>1, <2>2
  <1>8. PassedIsKept'
    <2> SUFFICES ASSUME NEW q \in Requests, NEW i \in 1..(next'[q] - 1)
                 PROVE  BatchOf[q][i] \in rows' \cup inserted'[q]
      BY DEF PassedIsKept
    <2>1. CASE q = r /\ i = next[r]
      BY <1>0, <1>2, <2>1 DEF Message
    <2>2. CASE ~(q = r /\ i = next[r])
      <3>1. i \in 1..(next[q] - 1)
        BY <1>0, <1>2, <2>2
      <3> QED
        BY <1>2, <3>1 DEF PassedIsKept
    <2> QED
      BY <2>1, <2>2
  <1>9. AnsweredIsStored'
    BY <1>2 DEF AnsweredIsStored
  <1> QED
    BY <1>3, <1>4, <1>5, <1>6, <1>7, <1>8, <1>9

LEMMA StepCommit ==
  ASSUME IngressIInv, TypeOK', NEW r \in Requests, Commit(r) PROVE IngressIInv'
  <1>1. /\ r \notin answered
        /\ next[r] = Len(BatchOf[r]) + 1
        /\ job' = [j \in Jobs |-> IF j \in deferring[r] THEN "todo" ELSE job[j]]
        /\ drawn' = drawn
        /\ rows' = rows \cup inserted[r]
        /\ inserted' = [inserted EXCEPT ![r] = {}]
        /\ deferring' = [deferring EXCEPT ![r] = {}]
    BY DEF Commit, Defer, Release, deferral
  <1>2. \/ answered' = answered \cup {r} /\ UNCHANGED <<next, failures>>
        \/ /\ failures < MaxFailures
           /\ failures' = failures + 1
           /\ next' = [next EXCEPT ![r] = First]
           /\ UNCHANGED answered
    BY DEF Commit
  <1> USE DEF IngressIInv, IngressTypeOK
  <1>3. IngressTypeOK'
    <2>1. \A q \in Requests : First \in 1..Len(BatchOf[q]) + 1
      BY IngressAssumption DEF First
    <2>2. next' \in [Requests -> Nat] /\ \A q \in Requests : next'[q] \in {next[q], First}
      <3>1. next' = next \/ next' = [next EXCEPT ![r] = First]
        BY <1>2
      <3>2. First \in Nat
        BY DEF First
      <3> HIDE DEF IngressIInv, IngressTypeOK
      <3>3. next \in [Requests -> Nat]
        BY DEF IngressIInv, IngressTypeOK
      <3> QED
        BY <3>1, <3>2, <3>3
    <2>3. failures' \in 0..MaxFailures
      BY <1>2, IngressAssumption
    <2> QED
      BY <1>1, <1>2, <2>1, <2>2, <2>3
  <1>4. \A j \in Jobs : job'[j] # "absent" => j \in drawn'
    BY <1>1 DEF DeferredAreItsRows, Uncommitted
  <1>5. OneHolder'
    BY <1>1 DEF OneHolder
  <1>6. DeferredAreItsRows'
    <2> SUFFICES ASSUME NEW q \in Requests, NEW j \in deferring'[q]
                 PROVE  j \in Uncommitted' /\ \E m \in inserted'[q] : j \in JobsOf[m]
      BY DEF DeferredAreItsRows
    <2>1. q # r /\ j \in deferring[q]
      BY <1>1
    <2>2. PICK m \in inserted[q] : j \in JobsOf[m]
      BY <2>1 DEF DeferredAreItsRows
    <2>3. j \notin deferring[r]
      <3> SUFFICES ASSUME j \in deferring[r] PROVE FALSE
        OBVIOUS
      <3>1. PICK n \in inserted[r] : j \in JobsOf[n]
        BY DEF DeferredAreItsRows
      <3> QED
        BY <2>1, <2>2, <3>1, IngressAssumption DEF OneHolder
    <2> QED
      BY <1>1, <2>1, <2>2, <2>3 DEF DeferredAreItsRows, Uncommitted
  <1>7. OneJobDrawn'
    <2> SUFFICES ASSUME NEW m \in Messages
                 PROVE  /\ m \in rows' =>
                             \E j \in Jobs : JobsOf[m] \cap drawn' = {j} /\ job'[j] # "absent"
                        /\ \A q \in Requests : m \in inserted'[q] =>
                             \E j \in deferring'[q] : JobsOf[m] \cap drawn' = {j}
                        /\ (m \notin rows' /\ \A q \in Requests : m \notin inserted'[q]) =>
                             JobsOf[m] \cap drawn' = {}
      BY DEF OneJobDrawn
    <2>1. CASE m \in inserted[r]
      <3>1. PICK j \in deferring[r] : JobsOf[m] \cap drawn = {j}
        BY <2>1 DEF OneJobDrawn
      <3>2. j \in Jobs /\ job'[j] = "todo"
        BY <1>1
      <3> QED
        BY <1>1, <2>1, <3>1, <3>2 DEF OneHolder
    <2>2. CASE m \notin inserted[r]
      BY <1>1, <2>2 DEF OneJobDrawn
    <2> QED
      BY <2>1, <2>2
  <1>8. PassedIsKept'
    <2> SUFFICES ASSUME NEW q \in Requests, NEW i \in 1..(next'[q] - 1)
                 PROVE  BatchOf[q][i] \in rows' \cup inserted'[q]
      BY DEF PassedIsKept
    <2>1. i \in 1..(next[q] - 1)
      <3>1. next'[q] \in {next[q], First}
        BY <1>2
      <3>2. next'[q] # First
        BY DEF First
      <3> QED
        BY <3>1, <3>2
    <2>2. BatchOf[q][i] \in rows \cup inserted[q]
      BY <2>1 DEF PassedIsKept
    <2> QED
      BY <1>1, <2>2
  <1>9. AnsweredIsStored'
    <2>1. Batch(r) \subseteq rows'
      <3>1. \A i \in 1..Len(BatchOf[r]) : BatchOf[r][i] \in rows \cup inserted[r]
        BY <1>1, IngressAssumption DEF PassedIsKept
      <3>2. DOMAIN BatchOf[r] = 1..Len(BatchOf[r])
        BY IngressAssumption
      <3> QED
        BY <1>1, <3>1, <3>2 DEF Batch
    <2> QED
      BY <1>1, <1>2, <2>1 DEF AnsweredIsStored
  <1> QED
    BY <1>3, <1>4, <1>5, <1>6, <1>7, <1>8, <1>9

LEMMA StepRollBack ==
  ASSUME IngressIInv, TypeOK', NEW r \in Requests, RollBack(r), failures' \in 0..MaxFailures
  PROVE  IngressIInv'
  <1>1. /\ drawn' = drawn \ deferring[r]
        /\ job' = job
        /\ inserted' = [inserted EXCEPT ![r] = {}]
        /\ deferring' = [deferring EXCEPT ![r] = {}]
        /\ next' = [next EXCEPT ![r] = First]
        /\ UNCHANGED <<rows, answered>>
    BY DEF RollBack, Undraw, Release, queue
  <1> USE DEF IngressIInv, IngressTypeOK
  <1>3. IngressTypeOK'
    <2>1. \A q \in Requests : First \in 1..Len(BatchOf[q]) + 1
      BY IngressAssumption DEF First
    <2>2. next' \in [Requests -> Nat] /\ \A q \in Requests : next'[q] \in {next[q], First}
      BY <1>1 DEF First
    <2> QED
      BY <1>1, <2>1, <2>2
  <1>4. \A j \in Jobs : job'[j] # "absent" => j \in drawn'
    BY <1>1 DEF DeferredAreItsRows, Uncommitted
  <1>5. OneHolder'
    BY <1>1 DEF OneHolder
  (* Another message's job is not among those taken back. *)
  <1>2. \A m \in Messages : m \notin inserted[r] => JobsOf[m] \cap deferring[r] = {}
    <2> SUFFICES ASSUME NEW m \in Messages, m \notin inserted[r],
                        NEW j \in JobsOf[m] \cap deferring[r]
                 PROVE  FALSE
      OBVIOUS
    <2>1. PICK n \in inserted[r] : j \in JobsOf[n]
      BY DEF DeferredAreItsRows
    <2>2. n \in Messages /\ n # m
      BY <2>1
    <2> QED
      BY <2>1, <2>2, IngressAssumption
  <1>6. DeferredAreItsRows'
    <2> SUFFICES ASSUME NEW q \in Requests, NEW j \in deferring'[q]
                 PROVE  j \in Uncommitted' /\ \E m \in inserted'[q] : j \in JobsOf[m]
      BY DEF DeferredAreItsRows
    <2>1. q # r /\ j \in deferring[q]
      BY <1>1
    <2>2. PICK m \in inserted[q] : j \in JobsOf[m]
      BY <2>1 DEF DeferredAreItsRows
    <2>3. j \notin deferring[r]
      BY <1>2, <2>1, <2>2 DEF OneHolder
    <2> QED
      BY <1>1, <2>1, <2>2, <2>3 DEF DeferredAreItsRows, Uncommitted
  <1>7. OneJobDrawn'
    <2> SUFFICES ASSUME NEW m \in Messages
                 PROVE  /\ m \in rows' =>
                             \E j \in Jobs : JobsOf[m] \cap drawn' = {j} /\ job'[j] # "absent"
                        /\ \A q \in Requests : m \in inserted'[q] =>
                             \E j \in deferring'[q] : JobsOf[m] \cap drawn' = {j}
                        /\ (m \notin rows' /\ \A q \in Requests : m \notin inserted'[q]) =>
                             JobsOf[m] \cap drawn' = {}
      BY DEF OneJobDrawn
    <2>1. CASE m \in inserted[r]
      <3>1. PICK j \in deferring[r] : JobsOf[m] \cap drawn = {j}
        BY <2>1 DEF OneJobDrawn
      <3>2. JobsOf[m] \cap drawn' = {}
        BY <1>1, <3>1
      <3> QED
        BY <1>1, <2>1, <3>2 DEF OneHolder
    <2>2. CASE m \notin inserted[r]
      <3>1. JobsOf[m] \cap drawn' = JobsOf[m] \cap drawn
        BY <1>1, <1>2, <2>2
      <3> QED
        BY <1>1, <2>2, <3>1 DEF OneJobDrawn
    <2> QED
      BY <2>1, <2>2
  <1>8. PassedIsKept'
    <2>1. \A q \in Requests : q # r => next'[q] = next[q] /\ inserted'[q] = inserted[q]
      BY <1>1
    <2>2. next'[r] = 1
      BY <1>1 DEF First
    <2> QED
      BY <1>1, <2>1, <2>2 DEF PassedIsKept
  <1>9. AnsweredIsStored'
    BY <1>1 DEF AnsweredIsStored
  <1> QED
    BY <1>3, <1>4, <1>5, <1>6, <1>7, <1>8, <1>9

LEMMA StepIngressIInv == IngressIInv /\ [IngressNext]_system => IngressIInv'
  <1> SUFFICES ASSUME IngressIInv, [IngressNext]_system PROVE IngressIInv'
    OBVIOUS
  <1>0. TypeOK'
    BY StepQueue, StepTypeOK DEF IngressIInv
  <1>1. ASSUME NEW r \in Requests, InsertNew(r) PROVE IngressIInv'
    BY <1>0, <1>1, StepInsertNew
  <1>2. ASSUME NEW r \in Requests, SkipDuplicate(r) PROVE IngressIInv'
    <2>0. next[r] + 1 \in 1..Len(BatchOf[r]) + 1
      BY <1>2, MessageType DEF SkipDuplicate, IngressIInv
    <2>1. /\ BatchOf[r][next[r]] \in rows \cup inserted[r]
          /\ next' = [next EXCEPT ![r] = @ + 1]
          /\ UNCHANGED <<drawn, job, rows, inserted, deferring, answered, failures>>
      BY <1>2 DEF SkipDuplicate, Found, Message, vars, deferral, queue
    <2>2. IngressTypeOK'
      BY <2>0, <2>1 DEF IngressIInv, IngressTypeOK
    <2>3. PassedIsKept'
      <3> SUFFICES ASSUME NEW q \in Requests, NEW i \in 1..(next'[q] - 1)
                   PROVE  BatchOf[q][i] \in rows \cup inserted[q]
        BY <2>1 DEF PassedIsKept
      <3>1. CASE q = r /\ i = next[r]
        BY <2>1, <3>1
      <3>2. CASE ~(q = r /\ i = next[r])
        <4>1. i \in 1..(next[q] - 1)
          BY <2>0, <2>1, <3>2 DEF IngressIInv, IngressTypeOK
        <4> QED
          BY <4>1 DEF IngressIInv, PassedIsKept
      <3> QED
        BY <3>1, <3>2
    <2> QED
      BY <1>0, <2>1, <2>2, <2>3 DEF IngressIInv, OneHolder, DeferredAreItsRows, Uncommitted,
         OneJobDrawn, AnsweredIsStored
  <1>3. ASSUME NEW r \in Requests, Commit(r) PROVE IngressIInv'
    BY <1>0, <1>3, StepCommit
  <1>4. ASSUME NEW r \in Requests, Fail(r) \/ FailVictim(r) PROVE IngressIInv'
    <2>1. RollBack(r) /\ failures' \in 0..MaxFailures
      BY <1>4, IngressAssumption DEF Fail, FailVictim, IngressIInv, IngressTypeOK
    <2> QED
      BY <1>0, <2>1, StepRollBack
  <1>5. ASSUME Work, UNCHANGED webhook PROVE IngressIInv'
    <2>1. /\ UNCHANGED drawn
          /\ \A j \in Jobs : job'[j] = "absent" <=> job[j] = "absent"
      BY <1>5, WorkKeepsRows DEF IngressIInv
    <2>2. UNCHANGED <<rows, next, inserted, deferring, answered, failures>>
      BY <1>5 DEF webhook
    <2>3. Uncommitted' = Uncommitted
      BY <2>1 DEF Uncommitted, IngressIInv, TypeOK
    <2>4. OneJobDrawn'
      BY <2>1, <2>2 DEF IngressIInv, OneJobDrawn
    <2>5. IngressTypeOK' /\ OneHolder' /\ DeferredAreItsRows' /\ PassedIsKept' /\ AnsweredIsStored'
      BY <2>2, <2>3 DEF IngressIInv, IngressTypeOK, OneHolder, DeferredAreItsRows,
         PassedIsKept, AnsweredIsStored
    <2> QED
      BY <1>0, <2>1, <2>4, <2>5 DEF IngressIInv
  <1>6. CASE UNCHANGED system
    BY <1>0, <1>6 DEF system, webhook, vars, deferral, queue, IngressIInv, IngressTypeOK,
       OneHolder, DeferredAreItsRows, Uncommitted, OneJobDrawn, PassedIsKept, AnsweredIsStored
  <1> QED
    BY <1>1, <1>2, <1>3, <1>4, <1>5, <1>6 DEF IngressNext, Webhook

LEMMA IngressInvariance == IngressSpec => []IngressIInv
  BY InitIngressIInv, StepIngressIInv, PTL DEF IngressSpec

(* The webhook's variables keep their types, and so do the queue's. *)
THEOREM IngressTypeCorrect == IngressSpec => [](IngressTypeOK /\ TypeOK)
  <1>1. IngressIInv => IngressTypeOK /\ TypeOK
    BY DEF IngressIInv
  <1> QED
    BY <1>1, IngressInvariance, PTL

(* The webhook and the worker together only ever do what the queue alone    *)
(* may do, so whatever is proved of the queue holds behind the webhook.     *)
THEOREM IngressUsesTheQueue == IngressSpec => Spec
  <1>1. IngressInit => Init
    BY DEF IngressInit
  <1> QED
    BY <1>1, StepQueue, IngressInvariance, PTL DEF IngressSpec, Spec

(* ADR 0002's "a row exists if and only if its job exists", one job each,   *)
(* for any batches, deliveries, failures and replays.                       *)
THEOREM OneJobPerRow == IngressSpec => []RowIffItsOneJob
  <1>1. IngressIInv => RowIffItsOneJob
    <2> SUFFICES ASSUME IngressIInv, NEW m \in Messages
                 PROVE  LET jobs == {j \in JobsOf[m] : job[j] # "absent"}
                        IN  IF m \in rows THEN \E j \in jobs : jobs = {j} ELSE jobs = {}
      BY DEF RowIffItsOneJob
    <2> DEFINE jobs == {j \in JobsOf[m] : job[j] # "absent"}
    <2>0. jobs \subseteq JobsOf[m] \cap drawn
      BY IngressAssumption DEF IngressIInv
    <2>1. CASE m \in rows
      <3>1. PICK j \in Jobs : JobsOf[m] \cap drawn = {j} /\ job[j] # "absent"
        BY <2>1 DEF IngressIInv, OneJobDrawn
      <3>2. jobs = {j}
        BY <2>0, <3>1
      <3> QED
        BY <2>1, <3>2
    <2>2. CASE \E r \in Requests : m \in inserted[r]
      <3>1. PICK r \in Requests : m \in inserted[r]
        BY <2>2
      <3>2. PICK j \in deferring[r] : JobsOf[m] \cap drawn = {j}
        BY <3>1 DEF IngressIInv, OneJobDrawn
      <3>3. job[j] = "absent" /\ m \notin rows
        BY <3>1, <3>2 DEF IngressIInv, DeferredAreItsRows, Uncommitted, OneHolder
      <3>4. jobs = {}
        BY <2>0, <3>2, <3>3
      <3> QED
        BY <3>3, <3>4
    <2>3. CASE m \notin rows /\ \A r \in Requests : m \notin inserted[r]
      <3>1. jobs = {}
        BY <2>0, <2>3 DEF IngressIInv, OneJobDrawn
      <3> QED
        BY <2>3, <3>1
    <2> QED
      BY <2>1, <2>2, <2>3
  <1> QED
    BY <1>1, IngressInvariance, PTL

(* A batch answered with 200 is stored in full: a message only counts as a  *)
(* duplicate of one that stays.                                             *)
THEOREM AnsweredBatchesAreStored == IngressSpec => []AnsweredIsStored
  <1>1. IngressIInv => AnsweredIsStored
    BY DEF IngressIInv
  <1> QED
    BY <1>1, IngressInvariance, PTL

(* So the queue's guarantees hold of what the webhook stores: a sender's    *)
(* messages are handled one at a time and in arrival order, while every     *)
(* stalled worker is dead.                                                  *)
THEOREM QueueBehindTheWebhook ==
  IngressSpec => [](OneAtATime /\ SucceededIsHandled) /\ InArrivalOrder
  BY IngressUsesTheQueue, OneRunPerSender, SucceededJobsAreHandled, ArrivalOrder, PTL
=============================================================================

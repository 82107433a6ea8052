------------------------------ MODULE JobQueue ------------------------------
(***************************************************************************)
(* The job queue behind the worker: procrastinate 3.10's SQL functions     *)
(* (alembic/vendor/procrastinate_3.10.sql) as the inbound task             *)
(* (worker/tasks/channel.py) and retry_stalled_jobs                        *)
(* (worker/tasks/system.py) use them. A job's id is drawn from a sequence  *)
(* when the job is inserted, before its transaction commits; ids are only  *)
(* compared with those of the same lock, which is all that is kept here.   *)
(*                                                                         *)
(* A worker that misses its heartbeats looks the same whether it is dead   *)
(* or only silent: its jobs are retried either way.                        *)
(*                                                                         *)
(* A definition named for a slip (FreeOfRunning, ..) is the next one as it *)
(* would be with a bug: README.md, "What would be caught".                 *)
(***************************************************************************)
EXTENDS Naturals

CONSTANTS
  Jobs,         \* one job per stored message
  LockOf,       \* LockOf[j]: the lock of job j, its sender's
  Workers,      \* registered workers; a restarted worker is another one
  MaxAttempts,  \* INBOUND_RETRY's max_attempts
  MaxLapses     \* how often a worker that is not dead may miss its heartbeats

ASSUME ConstantsAssumption ==
  /\ MaxAttempts \in Nat \ {0}
  /\ MaxLapses \in Nat

VARIABLES
  drawn,     \* the jobs that have an id
  ahead,     \* ahead[j]: the jobs of its lock with a lower id
  earlier,   \* earlier[j]: those that had committed when its id was drawn
  job,       \* job[j]: its status, "absent" until its transaction commits
  attempts,  \* attempts[j], counted up to MaxAttempts, which is all that is asked
  owner,     \* owner[j]: worker_id, set by the last fetch; "nobody" for NULL
  heart,     \* heart[w]: "beating", "silent" or "dead"
  run,       \* run[w][j]: where w's run of j is
  tries,     \* tries[w][j]: attempts as fetched with the run
  handled,   \* the jobs whose message has processed_at set
  listed,    \* the stalled jobs a retry_stalled_jobs run has read
  lapses

deferral == <<drawn, ahead, earlier>>
queue == <<job, attempts, owner>>
workers == <<heart, run, tries, lapses>>
vars == <<deferral, queue, workers, handled, listed>>

Status == {"absent", "todo", "doing", "succeeded", "failed"}

Outcome == {"done", "transient", "broken"}

Running == {"running"} \cup Outcome

Counted(n) == IF n < MaxAttempts THEN n + 1 ELSE n

Siblings(j) == {k \in Jobs \ {j} : LockOf[k] = LockOf[j]}

Alive(w) == heart[w] # "dead"

Init ==
  /\ drawn = {}
  /\ ahead = [j \in Jobs |-> {}]
  /\ earlier = [j \in Jobs |-> {}]
  /\ job = [j \in Jobs |-> "absent"]
  /\ attempts = [j \in Jobs |-> 0]
  /\ owner = [j \in Jobs |-> "nobody"]
  /\ heart = [w \in Workers |-> "beating"]
  /\ run = [w \in Workers |-> [j \in Jobs |-> "none"]]
  /\ tries = [w \in Workers |-> [j \in Jobs |-> 0]]
  /\ handled = {}
  /\ listed = {}
  /\ lapses = 0

-----------------------------------------------------------------------------
(* Deferring, inside the caller's transaction. *)

(* procrastinate_defer_jobs_v1 inserts the row with the next id. *)
Draw(j) ==
  /\ j \notin drawn
  /\ drawn' = drawn \cup {j}
  /\ ahead' = [ahead EXCEPT ![j] = Siblings(j) \cap drawn]
  /\ earlier' = [earlier EXCEPT ![j] = {k \in Siblings(j) : job[k] # "absent"}]
  /\ UNCHANGED <<queue, workers, handled, listed>>

Uncommitted == {j \in drawn : job[j] = "absent"}

(* The transaction of the jobs in js commits .. *)
Defer(js) ==
  /\ js \subseteq Uncommitted
  /\ job' = [j \in Jobs |-> IF j \in js THEN "todo" ELSE job[j]]
  /\ UNCHANGED <<deferral, attempts, owner, workers, handled, listed>>

(* .. or is rolled back. *)
Undraw(js) ==
  /\ js \subseteq Uncommitted
  /\ drawn' = drawn \ js
  /\ ahead' = [j \in Jobs |-> IF j \in js THEN {} ELSE ahead[j] \ js]
  /\ earlier' = [j \in Jobs |-> IF j \in js THEN {} ELSE earlier[j]]
  /\ UNCHANGED <<queue, workers, handled, listed>>

-----------------------------------------------------------------------------
(* A worker. *)

(* fetch_job_v2: a lock with a running job, or with an older one waiting,   *)
(* even one waiting out its retry delay, offers no other.                   *)
FreeOfRunning(j) == \A k \in Siblings(j) : job[k] # "doing"
FreeOfOlder(j) == \A k \in ahead[j] : job[k] # "todo"
LockIsFree(j) == FreeOfRunning(j) /\ FreeOfOlder(j)

Fetch(w, j) ==
  /\ Alive(w)
  /\ run[w][j] = "none"
  /\ job[j] = "todo"
  /\ LockIsFree(j)
  /\ job' = [job EXCEPT ![j] = "doing"]
  /\ owner' = [owner EXCEPT ![j] = w]
  /\ run' = [run EXCEPT ![w][j] = "running"]
  /\ tries' = [tries EXCEPT ![w][j] = attempts[j]]
  /\ UNCHANGED <<deferral, attempts, heart, lapses, handled, listed>>

(* The task sets processed_at, or finds it set, and returns. The commit may *)
(* also be done and its answer lost: a database error, which is transient.  *)
Handle(w, j) ==
  /\ Alive(w)
  /\ run[w][j] = "running"
  /\ handled' = handled \cup {j}
  /\ \E outcome \in {"done", "transient"} : run' = [run EXCEPT ![w][j] = outcome]
  /\ UNCHANGED <<deferral, queue, heart, tries, lapses, listed>>

(* The task raises one of retry_exceptions ("transient"), or anything else. *)
Raise(w, j) ==
  /\ Alive(w)
  /\ run[w][j] = "running"
  /\ \E outcome \in {"transient", "broken"} : run' = [run EXCEPT ![w][j] = outcome]
  /\ UNCHANGED <<deferral, queue, heart, tries, lapses, handled, listed>>

(* INBOUND_RETRY allows another attempt after the one that just failed. *)
MayRetry(w, j) == run[w][j] = "transient" /\ tries[w][j] + 1 < MaxAttempts

EndedAsDone(w, j) == "succeeded"
EndedAs(w, j) == IF run[w][j] = "done" THEN "succeeded" ELSE "failed"

(* finish_job_v1 asks for a job that is "todo" or "doing", whoever runs it; *)
(* finding none it raises, and the run is over all the same.                *)
Finish(w, j) ==
  /\ Alive(w)
  /\ run[w][j] \in Outcome
  /\ ~MayRetry(w, j)
  /\ IF job[j] \in {"todo", "doing"}
     THEN /\ job' = [job EXCEPT ![j] = EndedAs(w, j)]
          /\ attempts' = [attempts EXCEPT ![j] = IF job[j] = "doing" THEN Counted(@) ELSE @]
     ELSE UNCHANGED <<job, attempts>>
  /\ run' = [run EXCEPT ![w][j] = "none"]
  /\ tries' = [tries EXCEPT ![w][j] = 0]
  /\ UNCHANGED <<deferral, owner, heart, lapses, handled, listed>>

(* retry_job_v2, for the task's retry policy and for stalled jobs. *)
Requeue(j) ==
  /\ job[j] \in {"doing", "failed"}
  /\ job' = [job EXCEPT ![j] = "todo"]
  /\ attempts' = [attempts EXCEPT ![j] = Counted(@)]

Retry(w, j) ==
  /\ Alive(w)
  /\ MayRetry(w, j)
  /\ Requeue(j) \/ (job[j] \notin {"doing", "failed"} /\ UNCHANGED <<job, attempts>>)
  /\ run' = [run EXCEPT ![w][j] = "none"]
  /\ tries' = [tries EXCEPT ![w][j] = 0]
  /\ UNCHANGED <<deferral, owner, heart, lapses, handled, listed>>

-----------------------------------------------------------------------------
(* Heartbeats and retry_stalled_jobs. *)

(* The platform keeps a worker running: one is always beating. *)
Replaced(w) == \E v \in Workers \ {w} : heart[v] = "beating"

GoSilent(w) ==
  /\ heart[w] = "beating"
  /\ Replaced(w)
  /\ lapses < MaxLapses
  /\ heart' = [heart EXCEPT ![w] = "silent"]
  /\ lapses' = lapses + 1
  /\ UNCHANGED <<deferral, queue, run, tries, handled, listed>>

BeatAgain(w) ==
  /\ heart[w] = "silent"
  /\ heart' = [heart EXCEPT ![w] = "beating"]
  /\ UNCHANGED <<deferral, queue, run, tries, lapses, handled, listed>>

(* A deploy or a crash ends the process and all its runs. *)
Die(w) ==
  /\ Alive(w)
  /\ Replaced(w)
  /\ heart' = [heart EXCEPT ![w] = "dead"]
  /\ run' = [run EXCEPT ![w] = [j \in Jobs |-> "none"]]
  /\ tries' = [tries EXCEPT ![w] = [j \in Jobs |-> 0]]
  /\ UNCHANGED <<deferral, queue, lapses, handled, listed>>

NeverStalled == {}
Stalled == {j \in Jobs : job[j] = "doing" /\ heart[owner[j]] # "beating"}

ListStalled ==
  /\ listed = {}
  /\ Stalled # {}
  /\ listed' = Stalled
  /\ UNCHANGED <<deferral, queue, workers, handled>>

(* One listed job, by then perhaps no longer stalled. A job that cannot be  *)
(* retried any more raises, and the rest waits for the next minute's run.   *)
RetryStalled(j) ==
  /\ j \in listed
  /\ \/ Requeue(j) /\ listed' = listed \ {j}
     \/ /\ job[j] \notin {"doing", "failed"}
        /\ listed' = {}
        /\ UNCHANGED <<job, attempts>>
  /\ UNCHANGED <<deferral, owner, workers, handled>>

-----------------------------------------------------------------------------
Run(w, j) == Handle(w, j) \/ Raise(w, j) \/ Finish(w, j) \/ Retry(w, j)

Work ==
  \/ \E w \in Workers, j \in Jobs : Fetch(w, j) \/ Run(w, j)
  \/ \E w \in Workers : GoSilent(w) \/ BeatAgain(w) \/ Die(w)
  \/ ListStalled
  \/ \E j \in Jobs : RetryStalled(j)

Next ==
  \/ \E j \in Jobs : Draw(j)
  \/ \E js \in (SUBSET Uncommitted) \ {{}} : Defer(js) \/ Undraw(js)
  \/ Work

(* A beating worker keeps fetching and runs what it fetched; the periodic   *)
(* task comes round every minute and gets through its list.                 *)
WorkIsDone ==
  /\ \A j \in Jobs : WF_vars(\E w \in Workers : heart[w] = "beating" /\ Fetch(w, j))
  /\ \A w \in Workers, j \in Jobs : WF_vars(heart[w] = "beating" /\ Run(w, j))
  /\ WF_vars(ListStalled \/ \E j \in Jobs : RetryStalled(j))

Spec == Init /\ [][Next]_vars

FairSpec == Spec /\ WorkIsDone

-----------------------------------------------------------------------------
(* Properties. *)

TypeOK ==
  /\ drawn \subseteq Jobs
  /\ ahead \in [Jobs -> SUBSET Jobs]
  /\ earlier \in [Jobs -> SUBSET Jobs]
  /\ job \in [Jobs -> Status]
  /\ attempts \in [Jobs -> 0..MaxAttempts]
  /\ owner \in [Jobs -> Workers \cup {"nobody"}]
  /\ heart \in [Workers -> {"beating", "silent", "dead"}]
  /\ run \in [Workers -> [Jobs -> {"none"} \cup Running]]
  /\ tries \in [Workers -> [Jobs -> 0..MaxAttempts]]
  /\ handled \subseteq Jobs
  /\ listed \subseteq Jobs
  /\ lapses \in 0..MaxLapses

(* "a sender's messages are handled one at a time": while every stalled     *)
(* worker is a dead one, no two runs of one lock's jobs are under way,      *)
(* whichever workers die and whatever is retried.                           *)
OneAtATime ==
  lapses = 0 =>
    \A w, v \in Workers, j, k \in Jobs :
      run[w][j] \in Running /\ run[v][k] \in Running /\ LockOf[j] = LockOf[k]
        => w = v /\ j = k

(* "one at a time" as it is written: of different messages only, whatever a *)
(* worker that is only silent still does with a message taken from it.      *)
OneMessageAtATime ==
  \A w, v \in Workers, j, k \in Jobs :
    run[w][j] \in Running /\ run[v][k] \in Running /\ LockOf[j] = LockOf[k] => j = k

(* ".. in arrival order": while every stalled worker is a dead one, a       *)
(* message is handled only once every message of the sender stored before   *)
(* it came is handled, or its job has failed.                               *)
InArrivalOrder ==
  [][lapses = 0 =>
       \A j \in handled' \ handled :
         \A k \in earlier[j] : k \in handled \/ job[k] = "failed"]_vars

(* A job is only ever marked as succeeded with its message handled, even by *)
(* a run that was given up and goes on.                                     *)
SucceededIsHandled == \A j \in Jobs : job[j] = "succeeded" => j \in handled
=============================================================================

------------------------------- MODULE Startup -------------------------------
(***************************************************************************)
(* One process of the deploy, the api or the worker, from its first probe  *)
(* of the database to its exit (api/lifespan.py, worker/main.py,           *)
(* db/engine.py): it waits for a network that comes up late, acquires its  *)
(* resources in order and releases them in reverse, whatever fails. Deploy *)
(* is what the database is like meanwhile.                                 *)
(***************************************************************************)
EXTENDS Deploy, Sequences

CONSTANTS
  Budget,    \* DATABASE__STARTUP_TIMEOUT, in ticks
  ProbeTime, \* READY_TIMEOUT_S
  First,     \* _RETRY_INITIAL_S
  Longest    \* _RETRY_MAX_S

ASSUME StartupAssumption ==
  /\ {Budget, ProbeTime, First, Longest} \subseteq Nat \ {0}
  /\ First <= Longest

VARIABLES
  kind,     \* "api" or "worker"
  phase,
  now,      \* since the first probe
  backoff,
  cold,     \* when the network becomes routable
  wrong,    \* the password, the role or the database is
  engine,   \* an engine, and its pool, is built
  held,     \* the resources on the exit stack
  outcome   \* how the process ended

process == <<kind, phase, now, backoff, cold, wrong, engine, held, outcome>>
startupVars == <<deployVars, process>>

(* What each pushes on its stack; "composio" is built and holds nothing.    *)
Order == [api |-> <<"database", "langfuse", "queue">>,
          worker |-> <<"database", "langfuse", "whatsapp", "gowa", "queue">>]

StartupInit ==
  /\ DeployInit
  /\ kind \in {"api", "worker"}
  /\ phase = "off"
  /\ now = 0
  /\ backoff = First
  /\ cold \in 0..(Budget + ProbeTime + 1)
  /\ wrong \in BOOLEAN
  /\ engine = FALSE
  /\ held = <<>>
  /\ outcome = "none"

Least(m, n) == IF m <= n THEN m ELSE n

-----------------------------------------------------------------------------
(* The database's disposal is on the stack before anything connects.         *)
Pushed == <<"database">>

Begin ==
  /\ phase = "off"
  /\ deploy = "done"
  /\ phase' = "probing"
  /\ held' = Pushed
  /\ UNCHANGED <<deployVars, kind, now, backoff, cold, wrong, engine, outcome>>

Fail(why) == phase' = "unwinding" /\ outcome' = why

(* retry_until_ready around check: a probe that gets through may be told it  *)
(* is fatal, _fatal_sqlstate; one that does not takes up to ProbeTime.       *)
Rejected == wrong

Reached ==
  /\ phase = "probing"
  /\ now >= cold
  /\ engine' = TRUE
  /\ now' = 0 /\ backoff' = First /\ cold' = 0
  /\ IF Rejected THEN Fail("rejected") ELSE phase' = "acquiring" /\ UNCHANGED outcome
  /\ UNCHANGED <<deployVars, kind, wrong, held>>

(* .. and is followed by another after a pause, the last at the deadline.    *)
OutOfTimeForAll(ended) == ended + backoff >= Budget
OutOfTime(ended) == ended >= Budget

Missed ==
  /\ phase = "probing"
  /\ now < cold
  /\ engine' = TRUE
  /\ \E ended \in now..(now + ProbeTime) :
       IF OutOfTime(ended)
       THEN Fail("timeout") /\ now' = 0 /\ backoff' = First
       ELSE /\ now' = ended + Least(backoff, Budget - ended)
            /\ backoff' = Least(2 * backoff, Longest)
            /\ UNCHANGED <<phase, outcome>>
  /\ UNCHANGED <<deployVars, kind, cold, wrong, held>>

(* One resource after the other; opening any of them may fail. A worker has *)
(* the channels that are enabled.                                           *)
Optional == {"whatsapp", "gowa"}

Position ==
  IF held = <<>> THEN 0 ELSE CHOOSE i \in DOMAIN Order[kind] : Order[kind][i] = held[Len(held)]

Following ==
  {j \in DOMAIN Order[kind] :
     j > Position /\ \A i \in (Position + 1)..(j - 1) : Order[kind][i] \in Optional}

Acquire ==
  /\ phase = "acquiring"
  /\ \/ /\ \E j \in Following : held' = Append(held, Order[kind][j])
        /\ UNCHANGED <<phase, outcome>>
     \/ Fail("error") /\ UNCHANGED held
  /\ UNCHANGED <<deployVars, kind, now, backoff, cold, wrong, engine>>

(* The api answers and the worker fetches once the queue is open; building   *)
(* the Composio connector may still fail.                                    *)
Serve ==
  /\ phase = "acquiring"
  /\ Position = Len(Order[kind])
  /\ phase' = "serving"
  /\ UNCHANGED <<deployVars, kind, now, backoff, cold, wrong, engine, held, outcome>>

Stop ==
  /\ phase = "serving"
  /\ Fail("stopped")
  /\ UNCHANGED <<deployVars, kind, now, backoff, cold, wrong, engine, held>>

(* The stack unwinds; the database's entry is dispose. *)
Release ==
  /\ phase = "unwinding"
  /\ held # <<>>
  /\ held' = SubSeq(held, 1, Len(held) - 1)
  /\ engine' = (engine /\ held[Len(held)] # "database")
  /\ UNCHANGED <<deployVars, kind, phase, now, backoff, cold, wrong, outcome>>

Exit ==
  /\ phase = "unwinding"
  /\ held = <<>>
  /\ phase' = "exited"
  /\ UNCHANGED <<deployVars, kind, now, backoff, cold, wrong, engine, held, outcome>>

Lifespan == Begin \/ Reached \/ Missed \/ Acquire \/ Serve \/ Release \/ Exit

-----------------------------------------------------------------------------
(* Properties. *)

(* "Nothing recovers from that on its own": a start is only given up when    *)
(* the network was not there in the last ProbeTime before the deadline; what *)
(* "no amount of waiting fixes" is not waited for, and nothing is served     *)
(* without it; and whatever failed, the process leaves no connection open.   *)
EndsForCause ==
  /\ outcome = "timeout" => cold > Budget - ProbeTime
  /\ outcome = "rejected" => wrong
  /\ phase = "serving" => ~wrong
  /\ phase = "exited" => ~engine
=============================================================================

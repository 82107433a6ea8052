------------------------------- MODULE Announce -------------------------------
(***************************************************************************)
(* "You're all set": the job a connect callback defers once its connection *)
(* is bound (api/routers/connect.py), the attempts the worker makes at it  *)
(* (worker/tasks/onboarding.py, onboarding/connected.py), each of which    *)
(* reads the tenant and then goes through send_once (Outbox), and the      *)
(* tenant, who is suspended or writes on another channel meanwhile. The    *)
(* other sends of Outbox differ in this: theirs keep to one channel.       *)
(*                                                                         *)
(* Members shows that every tenant has a number, so an announcement is     *)
(* never skipped for want of one.                                          *)
(***************************************************************************)
EXTENDS Outbox

CONSTANTS
  Jobs,        \* the callback of a visit and its reloads, each with one job; the
               \* connection, and its key, is named after one of them
  MaxAttempts, \* INBOUND_RETRY's six, fewer to bound the runs
  Channels,
  Nowhere,     \* a value that is no channel
  Fleet        \* Fleet: for each worker, the channels it has registered

ASSUME FleetAssumption ==
  /\ MaxAttempts \in Nat
  /\ Runs = Jobs \X (1..MaxAttempts)
  /\ Sends = Jobs
  /\ Fleet \subseteq SUBSET Channels
  /\ Nowhere \notin Channels

VARIABLES
  of,        \* of[j]: the connection that callback j bound
  status,    \* tenants.status
  wrote,     \* the channel of the tenant's latest inbound message
  callback,  \* callback[j]: how far the callback got
  attempts,  \* attempts[j]: the attempts begun
  skipped,   \* the runs that sent nothing
  via,       \* via[r]: the channel run r sends on
  recorded,  \* recorded[s]: the row's channel
  suspended  \* for the properties: po-admin suspended the tenant

context == <<of, status, wrote, callback, attempts, skipped, via, recorded, suspended>>
announceVars == <<vars, context>>

(* all_set_key: by the connection. *)
KeyPerJob(j) == j
AllSetKey(j) == of[j]

AnnounceInit ==
  /\ Init
  /\ \E first \in Jobs : of = [j \in Jobs |-> first]
  /\ \A r \in Runs : send[r] = AllSetKey(r[1])
  /\ status = "onboarding"
  /\ wrote \in Channels
  /\ callback = [j \in Jobs |-> "none"]
  /\ attempts = [j \in Jobs |-> 0]
  /\ skipped = {}
  /\ via = [r \in Runs |-> Nowhere]
  /\ recorded = [s \in Sends |-> Nowhere]
  /\ suspended = FALSE

-----------------------------------------------------------------------------
(* The callback: complete_connect binds and activates, _defer_all_set then   *)
(* defers, or fails to; the page says "connected" either way.                *)

Bound(j) ==
  /\ callback[j] = "none"
  /\ status \in {"onboarding", "active"}
  /\ status' = "active"
  /\ callback' = [callback EXCEPT ![j] = "bound"]
  /\ UNCHANGED <<vars, of, wrote, attempts, skipped, via, recorded, suspended>>

DeferredEarly(j) == callback[j] \in {"none", "bound"}
Deferrable(j) == callback[j] = "bound"

Defer(j) ==
  /\ Deferrable(j)
  /\ callback' = [callback EXCEPT ![j] = "deferred"]
  /\ UNCHANGED <<vars, of, status, wrote, attempts, skipped, via, recorded, suspended>>

-----------------------------------------------------------------------------
(* An attempt. *)

(* It raised, and INBOUND_RETRY has it again; or its worker died, or is no   *)
(* longer heard from, and retry_stalled_jobs has. It has not ended.          *)
Retried(r) == r \notin skipped /\ at[r] # "returned"

(* announce_connected's transaction: nothing to send, or the channel.       *)
Read(r, registered) ==
  LET j == r[1]
      channel == wrote
  IN /\ callback[j] = "deferred"
     /\ attempts[j] = r[2] - 1
     /\ r[2] > 1 => Retried(<<j, r[2] - 1>>)
     /\ attempts' = [attempts EXCEPT ![j] = r[2]]
     /\ IF status = "active" /\ channel \in registered
        THEN via' = [via EXCEPT ![r] = channel] /\ UNCHANGED skipped
        ELSE skipped' = skipped \cup {r} /\ UNCHANGED via
     /\ UNCHANGED <<vars, of, status, wrote, callback, recorded, suspended>>

(* _claim's INSERT is what names the row's channel. *)
ClaimRow(r) ==
  /\ via[r] # Nowhere
  /\ Claim(r)
  /\ recorded' = [recorded EXCEPT ![send[r]] = IF outbox[send[r]] = "absent" THEN via[r] ELSE @]
  /\ UNCHANGED <<of, status, wrote, callback, attempts, skipped, via, suspended>>

SendOnce(r) ==
  /\ NotPosted(r) \/ Post(r) \/ Classify(r) \/ Record(r) \/ Die(r)
  /\ UNCHANGED context

Provider(r) == (Take(r) \/ Refuse(r)) /\ UNCHANGED context

(* _APPLY_STATUS finds the row by the channel the status came in on; else    *)
(* nothing happens.                                                          *)
Hear(s, receipt) ==
  /\ \E r \in Runs : Taken(r, s) /\ via[r] = recorded[s]
  /\ ApplyStatus(s, receipt)
  /\ UNCHANGED context

-----------------------------------------------------------------------------
(* The tenant and po-admin. *)

Write ==
  /\ wrote' \in Channels \ {wrote}
  /\ UNCHANGED <<vars, of, status, callback, attempts, skipped, via, recorded, suspended>>

Suspend ==
  /\ status # "suspended"
  /\ status' = "suspended"
  /\ suspended' = TRUE
  /\ UNCHANGED <<vars, of, wrote, callback, attempts, skipped, via, recorded>>

Attempt(r) ==
  \/ \E registered \in Fleet : Read(r, registered)
  \/ ClaimRow(r) \/ SendOnce(r)

AnnounceNext ==
  \/ \E j \in Jobs : Bound(j) \/ Defer(j)
  \/ \E r \in Runs : Attempt(r) \/ Provider(r)
  \/ \E s \in Sends, receipt \in Receipts : Hear(s, receipt)
  \/ Write \/ Suspend

AnnounceSpec == AnnounceInit /\ [][AnnounceNext]_announceVars

-----------------------------------------------------------------------------
(* Properties. *)

(* "A retry would find the same thing": where every worker runs every        *)
(* channel, nothing but po-admin's suspension keeps a bound connection from  *)
(* being announced.                                                          *)
SkippedForCause == Fleet = {Channels} /\ skipped # {} => suspended

(* "A refreshed callback, and so two jobs, one message": whatever attempts   *)
(* overlap, on whichever channel, a connection is announced once.            *)
AllSetOnce ==
  \A p, r \in Runs :
    request[p] = "taken" /\ request[r] = "taken" /\ of[p[1]] = of[r[1]] => p = r

(* "accepted (Meta took it; its statuses follow)": the row of an announcement *)
(* that was taken names the channel its statuses will come in on.             *)
StatusesFindTheirRow ==
  \A s \in Sends, r \in Runs : linked[s] /\ Taken(r, s) => recorded[s] = via[r]
=============================================================================

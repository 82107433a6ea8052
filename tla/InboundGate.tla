----------------------------- MODULE InboundGate -----------------------------
(***************************************************************************)
(* handle_inbound with Composio on (messaging/inbound.py, _tenant_gate):   *)
(* the messages of one person, from the stored row to the finished one,    *)
(* with the onboarding conversation (messaging/onboarding.py), the connect *)
(* callback that ends it and po-admin at the same tenant. One step per     *)
(* transaction and per request to the provider.                            *)
(*                                                                         *)
(* A job runs again after a transient failure, after its worker died, and  *)
(* while a worker that only missed its heartbeats still runs it: a worker  *)
(* may take a message another one still works on. So send_once is three    *)
(* steps here as it is in Outbox: the claim of the row, the request, and   *)
(* the record of its answer, by the row's id and whatever it says by then. *)
(* All messages have one sender key, by which resolve_sender finds the     *)
(* person: their user id, when some messages lack their number, or their   *)
(* number.                                                                 *)
(*                                                                         *)
(* A definition named for a slip (Unclaimed, ..) is the next one as it     *)
(* would be with a bug: README.md, "What would be caught".                 *)
(***************************************************************************)
EXTENDS Naturals, FiniteSets

CONSTANTS
  Messages,   \* stored messages: numbers, in the order of arrival
  ChannelOf,  \* ChannelOf[m]: the channel m came in on
  Nameless,   \* the messages that may lack the sender's number
  Late,       \* the messages whose reply window may close before they are answered
  Workers,    \* as many runs may be under way together
  MaxFaults,  \* bound: requests that do not succeed, and runs that break off
  MaxChanges  \* bound: calls of po-admin

ASSUME ConstantsAssumption ==
  /\ Messages \subseteq Nat \ {0}
  /\ MaxFaults \in Nat
  /\ MaxChanges \in Nat

VARIABLES
  says,         \* says[m]: what m means as an answer to the zone question
  numbered,     \* the messages that carry the person's number
  invite,       \* "never", "open", "closed" (used or revoked), or "listed"
  tenant,       \* tenants.status, "none" before enrol
  step,         \* tenants.onboarding_step
  zone,         \* the message tenants.timezone was taken from, or 0
  bound,        \* the tenant has had a calendar connection
  disposition,  \* disposition[m]: "open" until m is processed
  kept,         \* the messages whose content is still in channel_inbox
  copies,       \* copies[m]: rows of messages copied from m
  outbox,       \* outbox[m][kind]: the status of the row, "none" before it is there
  mistaken,     \* the messages of which a run at work was taken for one that died
  offered,      \* a link to connect has reached the person
  old,          \* the messages whose reply window has closed
  job,          \* job[m]: "todo", "done" or "failed"
  run,          \* run[w]: the run w has under way, as far as it got
  faults,       \* how many there were
  callback,     \* a connect callback that has seen a tenant it may bind
  admin         \* what po-admin has read and not yet written

person == <<says, numbered>>
tenants == <<invite, tenant, step, zone, bound>>
inbox == <<disposition, kept, copies>>
replies == <<outbox, mistaken, offered>>
outside == <<callback, admin>>
vars == <<person, tenants, inbox, replies, old, job, run, faults, outside>>

NobodyYet == "none"
Bindable == {"onboarding", "active"}
Served == {"active", "onboarding"}

Kinds == {"ack", "invite_only", "welcome", "ask", "connect", "resend"}
Links == {"connect", "resend"}
(* SETTLED, and _MUTING_STATUSES. *)
SettledStatuses == {"unknown", "accepted", "failed"}
MutingStatuses == {"sending", "unknown", "accepted"}
(* "zone": it confirms the zone their number's country has, or names one. *)
Says == {"zone", "other"}
Dispositions == {"allowed", "stranger", "stranger_muted", "stale", "onboarding"}

(* A run that is not under way. "as" is the disposition it will finish with, *)
(* "got" the status that the provider's answer puts its row in.              *)
Idle ==
  [at |-> "idle", of |-> 0, stale |-> FALSE, kind |-> "none", as |-> "none", got |-> "none"]

Init ==
  /\ says \in [Messages -> Says]
  /\ \E hidden \in SUBSET Nameless : numbered = Messages \ hidden
  /\ invite \in {"never", "open", "listed"}
  /\ tenant = NobodyYet
  /\ step = "none"
  /\ zone = 0
  /\ bound = FALSE
  /\ disposition = [m \in Messages |-> "open"]
  /\ kept = Messages
  /\ copies = [m \in Messages |-> 0]
  /\ outbox = [m \in Messages |-> [kind \in Kinds |-> "none"]]
  /\ mistaken = {}
  /\ offered = FALSE
  /\ old = {}
  /\ job = [m \in Messages |-> "todo"]
  /\ run = [w \in Workers |-> Idle]
  /\ faults = 0
  /\ callback = FALSE
  /\ admin = [writes |-> "nothing", left |-> MaxChanges]

At(m, w, place) == run[w].of = m /\ run[w].at = place

Go(w, place) == run' = [run EXCEPT ![w].at = place]

GoAs(w, place, kind, as) ==
  run' = [run EXCEPT ![w].at = place, ![w].kind = kind, ![w].as = as]

(* The run is over: its job is done with, fails for good, or runs again. *)
End(w, outcomes) ==
  /\ run' = [run EXCEPT ![w] = Idle]
  /\ \E outcome \in outcomes :
       job' = [job EXCEPT ![run[w].of] = IF @ = "todo" THEN outcome ELSE @]

Fault == faults < MaxFaults /\ faults' = faults + 1

-----------------------------------------------------------------------------
(* One run of a message. *)

(* The queue offers a message once the channel's older ones are over. *)
Turn(m) ==
  /\ job[m] = "todo"
  /\ \A n \in Messages : n < m /\ ChannelOf[n] = ChannelOf[m] => job[n] # "todo"

(* load_row; the reply window may have closed since m was last looked at. *)
Begin(m, w) ==
  /\ run[w] = Idle
  /\ Turn(m)
  /\ IF disposition[m] = "open"
     THEN /\ old' \in {old, old \cup ({m} \cap Late)}
          /\ run' = [run EXCEPT ![w] = [at |-> "resolve", of |-> m, stale |-> m \in old',
                                        kind |-> "none", as |-> "none", got |-> "none"]]
          /\ UNCHANGED job
     ELSE /\ job' = [job EXCEPT ![m] = "done"]
          /\ UNCHANGED <<run, old>>
  /\ UNCHANGED <<person, tenants, inbox, replies, faults, outside>>

(* resolve_sender; is_invited and _turn_away stop early without a number. *)
Resolve(m, w) ==
  /\ At(m, w, "resolve")
  /\ \/ tenant # NobodyYet /\ Go(w, "load")
     \/ tenant = NobodyYet /\ run[w].stale /\ GoAs(w, "finish", "none", "stale")
     \/ /\ tenant = NobodyYet /\ ~run[w].stale
        /\ IF m \in numbered
           THEN Go(w, "invited")
           ELSE GoAs(w, "finish", "none", "stranger")
  /\ UNCHANGED <<person, tenants, inbox, replies, old, job, faults, outside>>

InvitedAnyone == TRUE
Invited == invite \in {"open", "listed"}

AskInvite(m, w) ==
  /\ At(m, w, "invited")
  /\ Go(w, IF Invited THEN "enrol" ELSE "told")
  /\ UNCHANGED <<person, tenants, inbox, replies, old, job, faults, outside>>

(* create_tenant and mark_used, in one transaction. *)
Enrol(m, w) ==
  /\ At(m, w, "enrol")
  /\ IF tenant = NobodyYet
     THEN tenant' = "onboarding" /\ step' = "zone"
     ELSE UNCHANGED <<tenant, step>>
  /\ invite' = IF invite = "open" THEN "closed" ELSE invite
  /\ Go(w, "load")
  /\ UNCHANGED <<person, zone, bound, inbox, replies, old, job, faults, outside>>

(* onboarding_step: the kind of the reply. "connect" also sets the zone and *)
(* moves the step on; every other kind changes nothing ("ask" is ask_city   *)
(* and retry, which differ in their text).                                  *)
FirstMessage == \A m \in Messages : copies[m] = 0

Decision(m) ==
  CASE step # "zone" -> "resend"
    [] step = "zone" /\ FirstMessage -> "welcome"
    [] OTHER -> [zone |-> "connect", other |-> "ask"][says[m]]

(* load_state, and what _tenant_gate makes of it. *)
LoadState(m, w) ==
  /\ At(m, w, "load")
  /\ CASE tenant \notin Served /\ run[w].stale -> GoAs(w, "finish", "none", "stale")
       [] tenant \notin Served /\ ~run[w].stale ->
            IF m \in numbered
            THEN Go(w, "told")
            ELSE GoAs(w, "finish", "none", "stranger")
       [] tenant \in Served /\ run[w].stale -> GoAs(w, "finish_known", "none", "stale")
       [] tenant = "active" /\ ~run[w].stale ->
            GoAs(w, IF m \in numbered THEN "send" ELSE "finish_known", "ack", "allowed")
       [] OTHER -> GoAs(w, "send", Decision(m), "onboarding")
  /\ UNCHANGED <<person, tenants, inbox, replies, old, job, faults, outside>>

(* _already_told: another message of theirs has the invite-only reply, on *)
(* its way at least.                                                      *)
Told(m) == \E n \in Messages \ {m} : outbox[n]["invite_only"] \in MutingStatuses

TurnAway(m, w) ==
  /\ At(m, w, "told")
  /\ IF Told(m)
     THEN GoAs(w, "finish", "none", "stranger_muted")
     ELSE GoAs(w, "send", "invite_only", "stranger")
  /\ UNCHANGED <<person, tenants, inbox, replies, old, job, faults, outside>>

(* send_once's claim: a settled send is not made again, and one that is still *)
(* "sending" is taken for an attempt that died.                               *)
Settled(m, kind) == outbox[m][kind] \in SettledStatuses

Replied(w) == IF run[w].kind = "invite_only" THEN "finish" ELSE "finish_known"

UnderWay(m, kind) ==
  \E w \in Workers : run[w].of = m /\ run[w].at \in {"post", "record"} /\ run[w].kind = kind

Claim(m, w) ==
  LET kind == run[w].kind
  IN /\ At(m, w, "send")
     /\ \/ /\ ~Settled(m, kind)
           /\ outbox[m][kind] # "sending"
           /\ outbox' = [outbox EXCEPT ![m][kind] = "sending"]
           /\ UNCHANGED mistaken
           /\ Go(w, "post")
        \/ /\ ~Settled(m, kind)
           /\ outbox[m][kind] = "sending"
           /\ outbox' = [outbox EXCEPT ![m][kind] = "unknown"]
           /\ mistaken' = IF UnderWay(m, kind) THEN mistaken \cup {m} ELSE mistaken
           /\ Go(w, Replied(w))
        \/ Settled(m, kind) /\ UNCHANGED <<outbox, mistaken>> /\ Go(w, Replied(w))
     /\ UNCHANGED <<person, tenants, inbox, offered, old, job, faults, outside>>

(* The request: taken, refused, without an answer, or not made. *)
Answers == {"accepted", "failed", "unknown", "pending"}

Post(m, w) ==
  /\ At(m, w, "post")
  /\ \E answer \in Answers :
       /\ IF answer = "accepted" THEN UNCHANGED faults ELSE Fault
       /\ run' = [run EXCEPT ![w].at = "record", ![w].got = answer]
       /\ \/ UNCHANGED offered
          \/ answer \in {"accepted", "unknown"} /\ run[w].kind \in Links /\ offered' = TRUE
  /\ UNCHANGED <<person, tenants, inbox, outbox, mistaken, old, job, outside>>

(* _set, by the row's id. Put back to "pending", the error goes on to the   *)
(* job, which is to send it again.                                          *)
Swallowed(w) == FALSE
Raises(w) == run[w].got = "pending"

Record(m, w) ==
  /\ At(m, w, "record")
  /\ outbox' = [outbox EXCEPT ![m][run[w].kind] = run[w].got]
  /\ IF Raises(w)
     THEN End(w, {"todo", "failed"})
     ELSE run' = [run EXCEPT ![w].at = Replied(w), ![w].got = "none"] /\ UNCHANGED job
  /\ UNCHANGED <<person, tenants, inbox, mistaken, offered, old, faults, outside>>

(* The commit's answer may be lost, and the job run again. *)
Committed == {"done", "todo"}

(* _finish, with the purge: whatever the row says by now. *)
Finish(m, w) ==
  /\ At(m, w, "finish")
  /\ disposition' = [disposition EXCEPT ![m] = run[w].as]
  /\ kept' = kept \ {m}
  /\ End(w, Committed)
  /\ UNCHANGED <<person, tenants, copies, replies, old, faults, outside>>

Unclaimed(m) == TRUE
Claimed(m) == disposition[m] = "open"

(* The answer the step moves on with: confirm's. *)
AdvancesAnyway(kind) == kind \in {"connect", "ask"}
Advances(kind) == kind = "connect"

(* _finish_known: claims the row, then applies the advance and the copy. *)
FinishKnown(m, w) ==
  /\ At(m, w, "finish_known")
  /\ IF Claimed(m)
     THEN /\ disposition' = [disposition EXCEPT ![m] = run[w].as]
          /\ kept' = kept \ {m}
          /\ copies' = [copies EXCEPT ![m] = @ + 1]
          /\ zone' = IF Advances(run[w].kind) THEN m ELSE zone
          /\ step' = IF Advances(run[w].kind) THEN "connect" ELSE step
     ELSE UNCHANGED <<inbox, zone, step>>
  /\ End(w, Committed)
  /\ UNCHANGED <<person, invite, tenant, bound, replies, old, faults, outside>>

(* A transient error, the last one, any other error, or the worker's end. *)
Break(m, w) ==
  /\ run[w].of = m
  /\ Fault
  /\ End(w, {"todo", "failed"})
  /\ UNCHANGED <<person, tenants, inbox, replies, old, outside>>

Handle(m, w) ==
  \/ Begin(m, w) \/ Resolve(m, w) \/ AskInvite(m, w) \/ Enrol(m, w) \/ LoadState(m, w)
  \/ TurnAway(m, w) \/ Claim(m, w) \/ Post(m, w) \/ Record(m, w) \/ Finish(m, w) \/ FinishKnown(m, w) \/ Break(m, w)

-----------------------------------------------------------------------------
(* Around it. *)

(* The person follows a link that reached them, and comes back: the callback *)
(* (see BindConnection) looks at the tenant's status, and commits later,     *)
(* whatever the status is by then, or not at all.                            *)
CheckTenant ==
  /\ offered
  /\ tenant \in Bindable
  /\ callback' = TRUE
  /\ UNCHANGED <<person, tenants, inbox, replies, old, job, run, faults, admin>>

Activate ==
  /\ callback
  /\ callback' = FALSE
  /\ bound' = TRUE
  /\ tenant' = "active"
  /\ step' = "none"
  /\ UNCHANGED <<person, invite, zone, inbox, replies, old, job, run, faults, admin>>

GiveUp ==
  /\ callback
  /\ callback' = FALSE
  /\ UNCHANGED <<person, tenants, inbox, replies, old, job, run, faults, admin>>

RevokeInvite ==
  /\ invite = "open"
  /\ invite' = "closed"
  /\ UNCHANGED <<person, tenant, step, zone, bound, inbox, replies, old, job, run, faults, outside>>

RestoredStep == IF step = "none" THEN "active" ELSE step
Restored == IF step = "none" THEN "active" ELSE "onboarding"

(* suspend and unsuspend: the status to write is chosen from a read that is *)
(* over by the time it is written. A number on the allowlist is refused.    *)
AdminRead ==
  /\ admin.writes = "nothing"
  /\ admin.left > 0
  /\ \E status \in {"suspended", Restored} :
       /\ IF status = "suspended" THEN tenant \in Served /\ invite # "listed"
                                  ELSE tenant = "suspended"
       /\ admin' = [writes |-> status, left |-> admin.left - 1]
  /\ UNCHANGED <<person, tenants, inbox, replies, old, job, run, faults, callback>>

AdminWrite ==
  /\ admin.writes # "nothing"
  /\ tenant' = admin.writes
  /\ admin' = [admin EXCEPT !.writes = "nothing"]
  /\ UNCHANGED <<person, invite, step, zone, bound, inbox, replies, old, job, run, faults, callback>>

-----------------------------------------------------------------------------
Next ==
  \/ \E m \in Messages, w \in Workers : Handle(m, w)
  \/ CheckTenant
  \/ Activate
  \/ GiveUp
  \/ RevokeInvite
  \/ AdminRead
  \/ AdminWrite

Spec == Init /\ [][Next]_vars

-----------------------------------------------------------------------------
(* Properties. *)

Places ==
  {"idle", "resolve", "invited", "enrol", "load", "told", "send", "post", "record",
   "finish", "finish_known"}

RunState ==
  [at : Places, of : Messages \cup {0}, stale : BOOLEAN,
   kind : Kinds \cup {"none"}, as : Dispositions \cup {"none"}, got : Answers \cup {"none"}]

Statuses == {"none", "pending", "sending"} \cup SettledStatuses

TypeOK ==
  /\ says \in [Messages -> Says]
  /\ numbered \subseteq Messages
  /\ invite \in {"never", "open", "closed", "listed"}
  /\ tenant \in {NobodyYet, "onboarding", "active", "suspended"}
  /\ step \in {"none", "zone", "connect"}
  /\ zone \in Messages \cup {0}
  /\ bound \in BOOLEAN
  /\ disposition \in [Messages -> Dispositions \cup {"open"}]
  /\ kept \subseteq Messages
  /\ copies \in [Messages -> Nat]
  /\ outbox \in [Messages -> [Kinds -> Statuses]]
  /\ mistaken \subseteq Messages
  /\ offered \in BOOLEAN
  /\ old \subseteq Messages
  /\ job \in [Messages -> {"todo", "done", "failed"}]
  /\ run \in [Workers -> RunState]
  /\ faults \in 0..MaxFaults
  /\ callback \in BOOLEAN
  /\ admin \in [writes : {"nothing", "onboarding", "active", "suspended"}, left : 0..MaxChanges]

(* D7: a known tenant's message is copied once, and is in one place: under  *)
(* row-level security if it was copied, in channel_inbox until then, and    *)
(* nowhere if it was a stranger's, however many runs reach the commit.      *)
ContentIsMovedOnce ==
  \A m \in Messages :
    /\ copies[m] <= 1
    /\ m \in kept <=> disposition[m] = "open"
    /\ copies[m] = 1 => m \notin kept
    /\ disposition[m] \in {"allowed", "onboarding"} => copies[m] = 1

(* "A sender who is not invited never reaches on_allowed": nobody is served *)
(* who was not invited, nor acknowledged who has not connected.             *)
ServedWereInvited ==
  /\ invite = "never" => \A m \in Messages : copies[m] = 0
  /\ \A m \in Messages : outbox[m]["ack"] # "none" => bound

(* A processed message has its reply, sent, refused or lost: the one its     *)
(* disposition names, or, muted, one that was claimed for another message.   *)
(* send_once keeps this through retries and deaths, as long as "the previous *)
(* attempt died" where it concludes so.                                      *)
FinishedIsAnswered ==
  LET Answered(m, kinds) == \E kind \in kinds : Settled(m, kind)
  IN /\ \A m \in Messages : disposition[m] = "stranger_muted" =>
          \E n \in Messages \ {m} : outbox[n]["invite_only"] # "none"
     /\ \A m \in Messages \ mistaken :
          /\ disposition[m] = "stranger" /\ m \in numbered => Answered(m, {"invite_only"})
          /\ disposition[m] = "allowed" /\ m \in numbered => Answered(m, {"ack"})
          /\ disposition[m] = "onboarding" => Answered(m, {"welcome", "ask", "connect", "resend"})

(* "Send first, return the change": a tenant only ever waits in the connect  *)
(* step with a zone, and once the send of the link that goes with the zone   *)
(* is over, as long as "the previous attempt died" where send_once says so.  *)
StepIsOffered == step = "connect" => zone # 0 /\ (zone \in mistaken \/ Settled(zone, "connect"))

(* "definitely not sent; the job retries": a run that is to put its row back *)
(* to pending has a job that is not done.                                    *)
ReleasedIsRetried ==
  \A w \in Workers :
    run[w].at = "record" /\ run[w].got = "pending" => job[run[w].of] # "done"

(* "NULL once onboarding is over", and a zone confirmed on the way: an      *)
(* active tenant has no open step and has a zone.                           *)
ActiveIsComplete == tenant = "active" => step = "none" /\ zone # 0

(* "Identity wins over the invite list": no message of a member is finished *)
(* as a stranger's.                                                         *)
MembersAreServed ==
  [][\A m \in Messages :
       disposition[m] = "open" /\ disposition'[m] \in {"stranger", "stranger_muted"}
         => tenant \notin Served]_vars

(* "a stranger who writes to two of our numbers is told once".              *)
ToldOnce ==
  \A m, n \in Messages :
    outbox[m]["invite_only"] = "accepted" /\ outbox[n]["invite_only"] = "accepted" => m = n

(* "A reply .. that Meta refused does not mute the next one".                *)
MutedByAReply ==
  \A m \in Messages : disposition[m] = "stranger_muted" =>
    \E n \in Messages \ {m} : outbox[n]["invite_only"] \in MutingStatuses
=============================================================================

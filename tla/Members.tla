------------------------------- MODULE Members -------------------------------
(***************************************************************************)
(* How one person becomes one tenant: the messages they send, over two     *)
(* channels and with their user id, their number or both, looked up and    *)
(* enrolled by runs that overlap (messaging/tenancy.py, invites.py, with   *)
(* create_tenant of alembic 0004), while po-admin invites and revokes      *)
(* (admin/cli.py). One step per statement where a transaction has several. *)
(*                                                                         *)
(* InboundGate is what the gate then does with a tenant. A definition      *)
(* named for a slip (StrongestKey, ..) is the next one as it would be with *)
(* a bug: README.md, "What would be caught".                               *)
(***************************************************************************)
EXTENDS Naturals, FiniteSets

CONSTANTS
  Messages,    \* runs of messages of the person, each run once at a time
  Carries,     \* Carries[m]: the keys in message m, "uid" and "tel"
  MaxInvites,  \* bound: invites ever opened
  MaxAborts    \* bound: runs that break off and start again

ASSUME ConstantsAssumption ==
  /\ Carries \in [Messages -> SUBSET {"uid", "tel"}]
  /\ 0 \notin Messages
  /\ MaxInvites \in Nat \ {0}
  /\ MaxAborts \in Nat

VARIABLES
  listed,    \* the number is on WHATSAPP__ALLOWED_PHONES
  owner,     \* owner[k]: the tenant of tenant_identities' row for key k, or 0
  tenants,   \* the rows of tenants
  open,      \* the number's invites, by state
  used,
  revoked,
  at,        \* at[m]: how far the run of m got
  found,     \* found[m]: the tenant it goes on with, or 0
  new,       \* the runs whose tenant and identity are not committed yet
  closing,   \* closing[m]: the invites m's open transaction marks as used
  admin,     \* po-admin invite has found no member and is about to write
  aborts,
  hopeful    \* the runs that began invited or a member, and lost no invite since

tables == <<owner, tenants, open, used, revoked>>
vars == <<listed, tables, at, found, new, closing, admin, aborts, hopeful>>

Keys == {"uid", "tel"}
NoTenant == 0
Invites == 1..MaxInvites
InTransaction == {"insert", "mark", "commit"}
Ended == {"served", "away"}

Init ==
  /\ listed \in BOOLEAN
  /\ owner = [k \in Keys |-> NoTenant]
  /\ tenants = {}
  /\ open \in {{}, {1}}
  /\ used = {}
  /\ revoked = {}
  /\ at = [m \in Messages |-> "start"]
  /\ found = [m \in Messages |-> NoTenant]
  /\ new = {}
  /\ closing = [m \in Messages |-> {}]
  /\ admin = FALSE
  /\ aborts = 0
  /\ hopeful = {}

Member == owner["tel"] # NoTenant \/ owner["uid"] # NoTenant

Go(m, place) == at' = [at EXCEPT ![m] = place]

-----------------------------------------------------------------------------
(* resolve_sender: identity_keys, strongest first, one look-up after the    *)
(* other, and the keys that did not match linked.                           *)

MatchedByUid(m, k) == k \in Carries[m] /\ k = "uid" /\ owner[k] # NoTenant
Matched(m, k) == k \in Carries[m] /\ owner[k] # NoTenant

(* is_invited: the list first, then an open invite. *)
Invited == listed \/ open # {}

Begin(m) ==
  /\ at[m] = "start"
  /\ hopeful' = IF Member \/ Invited THEN hopeful \cup {m} ELSE hopeful
  /\ IF Matched(m, "uid")
     THEN Go(m, "link") /\ found' = [found EXCEPT ![m] = owner["uid"]]
     ELSE Go(m, "resolve_tel") /\ UNCHANGED found
  /\ UNCHANGED <<listed, tables, new, closing, admin, aborts>>

(* The second look-up, by number. *)
ResolveTel(m) ==
  /\ at[m] = "resolve_tel"
  /\ IF Matched(m, "tel")
     THEN Go(m, "link") /\ found' = [found EXCEPT ![m] = owner["tel"]]
     ELSE Go(m, "invited") /\ UNCHANGED found
  /\ UNCHANGED <<listed, tables, new, closing, admin, aborts, hopeful>>

(* Without a number nobody is invited. *)
AskInvite(m) ==
  /\ at[m] = "invited"
  /\ Go(m, IF "tel" \in Carries[m] /\ Invited THEN "create" ELSE "away")
  /\ UNCHANGED <<listed, tables, found, new, closing, admin, aborts, hopeful>>

-----------------------------------------------------------------------------
(* enrol: create_tenant and mark_used in one transaction. *)

(* The key the tenant is created on. *)
StrongestKey(m) == IF "uid" \in Carries[m] THEN "uid" ELSE "tel"
First(m) == IF "tel" \in Carries[m] THEN "tel" ELSE "uid"

(* create_tenant's fast path. *)
CreateFast(m) ==
  /\ at[m] = "create"
  /\ IF owner[First(m)] # NoTenant
     THEN Go(m, "mark") /\ found' = [found EXCEPT ![m] = owner[First(m)]]
     ELSE Go(m, "insert") /\ UNCHANGED found
  /\ UNCHANGED <<listed, tables, new, closing, admin, aborts, hopeful>>

(* _link's keys: each remaining one, unless somebody has it. *)
Linked(m) == {k \in Carries[m] : owner[k] = NoTenant}

(* The runs whose transactions m's next statement waits for: an INSERT waits *)
(* for an uncommitted identity with its key, an UPDATE of the open invite    *)
(* for who is about to close it.                                             *)
HeldUpBy(m) ==
  {n \in Messages \ {m} :
     \/ at[m] = "insert" /\ n \in new /\ First(n) = First(m)
     \/ at[m] = "mark" /\ closing[n] # {}
     \/ at[m] = "link" /\ n \in new /\ First(n) \in Linked(m)}

(* The slow path: both rows, or on a unique violation neither, and the winner's id. *)
CreateSlow(m) ==
  /\ at[m] = "insert"
  /\ HeldUpBy(m) = {}
  /\ IF owner[First(m)] = NoTenant
     THEN new' = new \cup {m} /\ found' = [found EXCEPT ![m] = m]
     ELSE found' = [found EXCEPT ![m] = owner[First(m)]] /\ UNCHANGED new
  /\ Go(m, "mark")
  /\ UNCHANGED <<listed, tables, closing, admin, aborts, hopeful>>

MarkUsed(m) ==
  /\ at[m] = "mark"
  /\ HeldUpBy(m) = {}
  /\ closing' = [closing EXCEPT ![m] = open]
  /\ Go(m, "commit")
  /\ UNCHANGED <<listed, tables, found, new, admin, aborts, hopeful>>

(* A closed invite: whoever counted on it no longer can. *)
Hopeless(closed) == IF closed = {} THEN hopeful ELSE {}

(* Both rows of a new tenant, or neither. *)
IdentityOnly(m) == {}
TenantRow(m) == {m} \cap new

Commit(m) ==
  /\ at[m] = "commit"
  /\ tenants' = tenants \cup TenantRow(m)
  /\ owner' = IF m \in new THEN [owner EXCEPT ![First(m)] = m] ELSE owner
  /\ open' = open \ closing[m]
  /\ used' = used \cup closing[m]
  /\ hopeful' = Hopeless(closing[m])
  /\ new' = new \ {m}
  /\ closing' = [closing EXCEPT ![m] = {}]
  /\ Go(m, "link")
  /\ UNCHANGED <<listed, revoked, found, admin, aborts>>

(* _link. *)
Link(m) ==
  /\ at[m] = "link"
  /\ HeldUpBy(m) = {}
  /\ owner' = [k \in Keys |-> IF k \in Linked(m) THEN found[m] ELSE owner[k]]
  /\ Go(m, "served")
  /\ UNCHANGED <<listed, tenants, open, used, revoked, found, new, closing, admin, aborts, hopeful>>

(* The worker dies, or the database does; what is open is rolled back, and  *)
(* the message's job runs again.                                            *)
RollBackNothing(m) == UNCHANGED <<new, used>>
RollBackRowsOnly(m) == new' = new \ {m} /\ used' = used \cup closing[m]
RollBack(m) == new' = new \ {m} /\ UNCHANGED used

Abort(m) ==
  /\ at[m] \notin {"start"} \cup Ended
  /\ aborts < MaxAborts
  /\ aborts' = aborts + 1
  /\ RollBack(m)
  /\ closing' = [closing EXCEPT ![m] = {}]
  /\ found' = [found EXCEPT ![m] = NoTenant]
  /\ hopeful' = hopeful \ {m}
  /\ Go(m, "start")
  /\ UNCHANGED <<listed, owner, tenants, open, revoked, admin>>

Handle(m) ==
  \/ Begin(m) \/ ResolveTel(m) \/ AskInvite(m) \/ CreateFast(m) \/ CreateSlow(m)
  \/ MarkUsed(m) \/ Commit(m) \/ Link(m) \/ Abort(m)

-----------------------------------------------------------------------------
(* po-admin. *)

(* invite: tenant_of finds no member .. *)
InviteRead ==
  /\ ~admin
  /\ owner["tel"] = NoTenant
  /\ Cardinality(open \cup used \cup revoked) < MaxInvites
  /\ admin' = TRUE
  /\ UNCHANGED <<listed, tables, at, found, new, closing, aborts, hopeful>>

(* The INSERT under the partial index, and revoke's UPDATE, wait as well. *)
InviteIsFree == \A m \in Messages : closing[m] = {}

(* .. and create_invite: nothing, if one is open.                           *)
MayOpen == open = {}

InviteWrite ==
  /\ admin
  /\ InviteIsFree
  /\ admin' = FALSE
  /\ open' = IF MayOpen
             THEN open \cup {CHOOSE i \in Invites \ (open \cup used \cup revoked) : TRUE}
             ELSE open
  /\ UNCHANGED <<listed, owner, tenants, used, revoked, at, found, new, closing, aborts, hopeful>>

(* revoke: the open invite, and never a used one. *)
Revoke ==
  /\ open # {}
  /\ InviteIsFree
  /\ revoked' = revoked \cup open
  /\ open' = {}
  /\ hopeful' = Hopeless(open)
  /\ UNCHANGED <<listed, owner, tenants, used, at, found, new, closing, admin, aborts>>

Next ==
  \/ \E m \in Messages : Handle(m)
  \/ InviteRead \/ InviteWrite \/ Revoke

(* The worker runs each message to its end. *)
Fairness == \A m \in Messages : WF_vars(Handle(m) /\ ~Abort(m))

Spec == Init /\ [][Next]_vars

FairSpec == Spec /\ Fairness

-----------------------------------------------------------------------------
(* Properties. *)

TypeOK ==
  /\ listed \in BOOLEAN
  /\ tenants \subseteq Messages
  /\ owner \in [Keys -> tenants \cup {NoTenant}]
  /\ open \cup used \cup revoked \subseteq Invites
  /\ at \in [Messages -> {"start", "resolve_tel", "invited", "create", "link"}
                         \cup InTransaction \cup Ended]
  /\ found \in [Messages -> Messages \cup {NoTenant}]
  /\ new \subseteq Messages
  /\ closing \in [Messages -> SUBSET Invites]
  /\ admin \in BOOLEAN
  /\ aborts \in 0..MaxAborts
  /\ hopeful \subseteq Messages

(* "Two first messages racing on different channels must meet": whatever    *)
(* keys the messages of a person come with, they are served as one tenant,  *)
(* whose identities they all are, and no tenant is left without one.        *)
OnePersonOneTenant ==
  /\ \A m, n \in Messages : at[m] = "served" /\ at[n] = "served" => found[m] = found[n]
  /\ \A k, l \in Keys : NoTenant \notin {owner[k], owner[l]} => owner[k] = owner[l]
  /\ \A t \in tenants : \E k \in Keys : owner[k] = t

(* ADR 0006: an invite is open, used or revoked, one is open at most, and a *)
(* used one has brought its tenant in, "so the two commit together".        *)
InvitesBringTheirs ==
  /\ Cardinality(open) <= 1
  /\ open \cap used = {} /\ open \cap revoked = {} /\ used \cap revoked = {}
  /\ used # {} => owner["tel"] # NoTenant

(* A message is only turned away if it has no number, or its sender was     *)
(* neither invited nor a member when its run began, or lost their invite    *)
(* while it ran.                                                            *)
TurnedAwayForCause ==
  \A m \in Messages : at[m] = "away" => "tel" \notin Carries[m] \/ m \notin hopeful

(* Identities and invites are waited for in one order only: whoever holds   *)
(* one is further on in its transaction than whoever waits for it.          *)
Left(m) ==
  CASE at[m] = "commit" -> 0
    [] at[m] = "mark" -> 1
    [] at[m] \in {"insert", "link"} -> 2
    [] OTHER -> 3

WaitsAreOrdered ==
  \A m \in Messages : \A n \in HeldUpBy(m) : Left(n) < Left(m)

(* However the transactions wait for each other, every message gets its     *)
(* tenant, or is turned away.                                               *)
RunsEnd == \A m \in Messages : <>(at[m] \in Ended)
=============================================================================

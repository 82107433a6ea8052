--------------------------- MODULE BindConnection ---------------------------
(***************************************************************************)
(* The Composio callback: complete_connect (onboarding/connect.py) and     *)
(* bind_connection (db/repositories/connections.py), SQL statement by SQL  *)
(* statement, with po-admin's suspend and unsuspend on the same tenants.   *)
(*                                                                         *)
(* Transactions are READ COMMITTED: a statement sees what was committed    *)
(* when it starts; an UPDATE waits for a row another transaction has       *)
(* updated and then looks at that row again; an INSERT waits for an        *)
(* uncommitted row it would collide with.                                  *)
(*                                                                         *)
(* A definition named for a slip (NamedByAnyone, WithoutTheIndex, ..) is   *)
(* the next one as it would be with a bug: README.md, "What would be       *)
(* caught".                                                                *)
(***************************************************************************)
EXTENDS Naturals, FiniteSets

CONSTANTS
  Tenants,
  Accounts,    \* Composio connected accounts
  Callbacks,   \* requests to GET /connect/callback
  UserOf,      \* UserOf[a]: the tenant Composio's API names for account a
  TenantOf,    \* TenantOf[c]: the tenant in the signed state of callback c
  AccountOf,   \* AccountOf[c]: the account id in the query of callback c
  NoTenant

ASSUME ConstantsAssumption ==
  /\ UserOf \in [Accounts -> Tenants]
  /\ TenantOf \in [Callbacks -> Tenants]
  /\ AccountOf \in [Callbacks -> Accounts]
  /\ NoTenant \notin Tenants

VARIABLES
  status,      \* status[t]: tenants.status
  step,        \* step[t]: tenants.onboarding_step, "none" for NULL
  holder,      \* holder[a]: the tenant of a's calendar_connections row, if any
  live,        \* the accounts whose row is active
  at,          \* at[c]: how far callback c got
  seen,        \* seen[c]: rows c's revoking UPDATE found, not yet locked
  revoking,    \* revoking[c]: rows c has revoked and not committed
  inserting,   \* inserting[c]: c has inserted its row and not committed
  deferred,    \* the onboarding:connected jobs, <<tenant, account>>
  admin        \* what po-admin has read and not yet written

tables == <<status, step, holder, live>>
locals == <<seen, revoking, inserting>>
vars == <<status, step, holder, live, at, seen, revoking, inserting, deferred, admin>>

Bindable == {"onboarding", "active"}
InTransaction == {"lookup", "revoke", "revoking", "insert", "readback", "bound"}
Answered == {"refused", "done"}
Idle == [does |-> "nothing"]

Init ==
  /\ status = [t \in Tenants |-> "onboarding"]
  /\ step = [t \in Tenants |-> "connect"]
  /\ holder = [a \in Accounts |-> NoTenant]
  /\ live = {}
  /\ at = [c \in Callbacks |-> "start"]
  /\ seen = [c \in Callbacks |-> {}]
  /\ revoking = [c \in Callbacks |-> {}]
  /\ inserting = [c \in Callbacks |-> FALSE]
  /\ deferred = {}
  /\ admin = Idle

LiveOf(t) == {a \in live : holder[a] = t}

Go(c, place) == at' = [at EXCEPT ![c] = place]

(* The callbacks whose transactions c's next statement waits for: they have *)
(* updated a row it is to update, or written or revoked one that its own    *)
(* could collide with under either unique index.                            *)
HeldUpBy(c) ==
  LET t == TenantOf[c]
      a == AccountOf[c]
  IN {d \in Callbacks \ {c} :
        \/ at[c] = "revoking" /\ seen[c] \cap revoking[d] # {}
        \/ /\ at[c] = "insert"
           /\ holder[a] = NoTenant
           /\ \/ inserting[d] /\ (AccountOf[d] = a \/ TenantOf[d] = t)
              \/ revoking[d] \cap LiveOf(t) # {}}

-----------------------------------------------------------------------------
(* complete_connect up to the transaction: the state is ours (TenantOf), and *)
(* Composio's API must name that tenant as the account's user. It may also   *)
(* say the account is not ACTIVE, or not answer.                             *)
NamedByAnyone(c) == TRUE
NamedAsUser(c) == UserOf[AccountOf[c]] = TenantOf[c]

Fetch(c) ==
  /\ at[c] = "start"
  /\ \/ NamedAsUser(c) /\ Go(c, "verified")
     \/ Go(c, "refused")
  /\ UNCHANGED <<tables, locals, deferred, admin>>

CheckTenant(c) ==
  /\ at[c] = "verified"
  /\ Go(c, IF status[TenantOf[c]] \in Bindable THEN "lookup" ELSE "refused")
  /\ UNCHANGED <<tables, locals, deferred, admin>>

(* bind_connection's first SELECT, under the tenant's RLS. *)
Lookup(c) ==
  /\ at[c] = "lookup"
  /\ Go(c, IF holder[AccountOf[c]] = TenantOf[c] THEN "bound" ELSE "revoke")
  /\ UNCHANGED <<tables, locals, deferred, admin>>

(* UPDATE .. SET status = 'revoked' WHERE status = 'active': its snapshot, *)
(* then, once nobody else has the rows, the rows still active.             *)
RevokeScan(c) ==
  /\ at[c] = "revoke"
  /\ seen' = [seen EXCEPT ![c] = LiveOf(TenantOf[c])]
  /\ Go(c, "revoking")
  /\ UNCHANGED <<tables, revoking, inserting, deferred, admin>>

RevokeApply(c) ==
  /\ at[c] = "revoking"
  /\ HeldUpBy(c) = {}
  /\ revoking' = [revoking EXCEPT ![c] = seen[c] \cap live]
  /\ seen' = [seen EXCEPT ![c] = {}]
  /\ Go(c, "insert")
  /\ UNCHANGED <<tables, inserting, deferred, admin>>

(* ROLLBACK TO SAVEPOINT, or of the transaction. *)
UndoKeepingLocks(c) ==
  /\ seen' = [seen EXCEPT ![c] = {}]
  /\ inserting' = [inserting EXCEPT ![c] = FALSE]
  /\ UNCHANGED revoking

Undo(c) ==
  /\ seen' = [seen EXCEPT ![c] = {}]
  /\ revoking' = [revoking EXCEPT ![c] = {}]
  /\ inserting' = [inserting EXCEPT ![c] = FALSE]

(* INSERT .. ON CONFLICT (connected_account_id) DO NOTHING, its row taken.  *)
InsertNothing(c) ==
  /\ at[c] = "insert"
  /\ holder[AccountOf[c]] # NoTenant
  /\ Go(c, "readback")
  /\ UNCHANGED <<tables, locals, deferred, admin>>

(* .. its row free, now that no transaction holds a row it could collide    *)
(* with, under either unique index. A second active row of the tenant is    *)
(* ConcurrentBindError: the savepoint is undone, nothing is bound.          *)
WithoutTheIndex(c) == TRUE
OnlyActiveRow(c) == LiveOf(TenantOf[c]) \subseteq revoking[c]

InsertRow(c) ==
  /\ at[c] = "insert"
  /\ holder[AccountOf[c]] = NoTenant
  /\ HeldUpBy(c) = {}
  /\ IF OnlyActiveRow(c)
     THEN /\ inserting' = [inserting EXCEPT ![c] = TRUE]
          /\ Go(c, "readback")
          /\ UNCHANGED <<seen, revoking>>
     ELSE Undo(c) /\ Go(c, "refused")
  /\ UNCHANGED <<tables, deferred, admin>>

(* The second SELECT: our row or one of this tenant's, or else LookupError. *)
ReadBack(c) ==
  /\ at[c] = "readback"
  /\ IF inserting[c] \/ holder[AccountOf[c]] = TenantOf[c]
     THEN Go(c, "bound") /\ UNCHANGED locals
     ELSE Go(c, "refused") /\ Undo(c)
  /\ UNCHANGED <<tables, deferred, admin>>

(* activate, and the COMMIT that ends the transaction. *)
Commit(c) ==
  LET t == TenantOf[c]
      a == AccountOf[c]
      new == IF inserting[c] THEN {a} ELSE {}
  IN /\ at[c] = "bound"
     /\ live' = (live \ revoking[c]) \cup new
     /\ holder' = [b \in Accounts |-> IF b \in new THEN t ELSE holder[b]]
     /\ status' = [status EXCEPT ![t] = "active"]
     /\ step' = [step EXCEPT ![t] = "none"]
     /\ Undo(c)
     /\ Go(c, "connected")
     /\ UNCHANGED <<deferred, admin>>

(* _defer_all_set: a failure is reported, and the page is shown all the same. *)
Defer(c) ==
  /\ at[c] = "connected"
  /\ \/ deferred' = deferred \cup {<<TenantOf[c], AccountOf[c]>>}
     \/ UNCHANGED deferred
  /\ Go(c, "done")
  /\ UNCHANGED <<tables, locals, admin>>

(* The api dies, or the database does: the transaction is rolled back. *)
Abort(c) ==
  /\ at[c] \in InTransaction
  /\ Undo(c)
  /\ Go(c, "refused")
  /\ UNCHANGED <<tables, deferred, admin>>

Handle(c) ==
  \/ Fetch(c) \/ CheckTenant(c) \/ Lookup(c) \/ RevokeScan(c) \/ RevokeApply(c)
  \/ InsertNothing(c) \/ InsertRow(c) \/ ReadBack(c) \/ Commit(c) \/ Defer(c)

-----------------------------------------------------------------------------
(* po-admin reads the tenant in one transaction and writes it in another. *)

SuspendRead(t) ==
  /\ admin = Idle
  /\ status[t] # "suspended"
  /\ admin' = [does |-> "suspend", tenant |-> t]
  /\ UNCHANGED <<tables, at, locals, deferred>>

Restored(t) == IF step[t] = "none" THEN "active" ELSE "onboarding"

UnsuspendRead(t) ==
  /\ admin = Idle
  /\ status[t] = "suspended"
  /\ admin' = [does |-> "unsuspend", tenant |-> t, restored |-> Restored(t)]
  /\ UNCHANGED <<tables, at, locals, deferred>>

SuspendWrite ==
  /\ admin.does = "suspend"
  /\ status' = [status EXCEPT ![admin.tenant] = "suspended"]
  /\ admin' = Idle
  /\ UNCHANGED <<step, holder, live, at, locals, deferred>>

UnsuspendWrite ==
  /\ admin.does = "unsuspend"
  /\ status' = [status EXCEPT ![admin.tenant] = admin.restored]
  /\ admin' = Idle
  /\ UNCHANGED <<step, holder, live, at, locals, deferred>>

Admin ==
  \/ \E t \in Tenants : SuspendRead(t) \/ UnsuspendRead(t)
  \/ SuspendWrite
  \/ UnsuspendWrite

-----------------------------------------------------------------------------
Next == (\E c \in Callbacks : Handle(c) \/ Abort(c)) \/ Admin

(* The api runs every request it has taken to its answer. *)
Fairness == \A c \in Callbacks : WF_vars(Handle(c))

Spec == Init /\ [][Next]_vars

FairSpec == Spec /\ Fairness

-----------------------------------------------------------------------------
(* Properties. *)

AdminStates ==
  {Idle} \cup [does : {"suspend"}, tenant : Tenants]
  \cup [does : {"unsuspend"}, tenant : Tenants, restored : Bindable]

TypeOK ==
  /\ status \in [Tenants -> {"onboarding", "active", "suspended"}]
  /\ step \in [Tenants -> {"connect", "none"}]
  /\ holder \in [Accounts -> Tenants \cup {NoTenant}]
  /\ live \subseteq Accounts
  /\ at \in [Callbacks -> {"start", "verified", "connected"} \cup InTransaction \cup Answered]
  /\ seen \in [Callbacks -> SUBSET Accounts]
  /\ revoking \in [Callbacks -> SUBSET Accounts]
  /\ inserting \in [Callbacks -> BOOLEAN]
  /\ deferred \subseteq Tenants \X Accounts
  /\ admin \in AdminStates

(* "never a moment with two active rows": however the callbacks interleave, *)
(* a tenant has one active connection at most.                              *)
OneActiveConnection ==
  \A a, b \in live : holder[a] = holder[b] => a = b

(* D5: an account is only ever bound to the tenant Composio names as its    *)
(* user, whatever the query string says.                                    *)
BoundToItsUser ==
  \A a \in Accounts : holder[a] \in {NoTenant, UserOf[a]}

(* "Reconnecting revokes the old row and inserts the new one .. never a     *)
(* moment with .. none": a tenant whose onboarding is over has an active    *)
(* connection.                                                              *)
NeverNone ==
  \A t \in Tenants : step[t] = "none" => LiveOf(t) # {}

(* "A suspended tenant is not bound": only unsuspend ends a suspension.     *)
SuspensionHolds ==
  [][\A t \in Tenants :
       status[t] = "suspended" /\ status'[t] # "suspended" => UnsuspendWrite]_vars

(* "activate() clears the step, so no step means onboarding was finished":  *)
(* unsuspend sends nobody back to onboarding who has finished it.           *)
UnsuspendRestores == \A t \in Tenants : status[t] = "onboarding" => step[t] # "none"

(* Two unique indexes and a savepoint, and yet no circle of waits for       *)
(* Postgres to break: whoever is waited for is further on in its            *)
(* transaction, and the furthest wait for nobody.                           *)
Left(c) ==
  CASE at[c] \in {"readback", "bound"} -> 0
    [] at[c] = "insert" -> IF revoking[c] # {} THEN 1 ELSE 2
    [] at[c] = "revoking" -> 3
    [] OTHER -> 4

WaitsAreOrdered ==
  \A c \in Callbacks : \A d \in HeldUpBy(c) : Left(d) < Left(c)

(* Whatever rows and locks the transactions wait on, every callback is      *)
(* answered.                                                                *)
CallbacksAreAnswered == \A c \in Callbacks : <>(at[c] \in Answered)
=============================================================================

-------------------------------- MODULE Deploy --------------------------------
(***************************************************************************)
(* What a deploy does to the database before the processes start:          *)
(* "po-db bootstrap && alembic upgrade head" (db/cli.py, db/bootstrap.py,  *)
(* alembic/bootstrap.sql, alembic/env.py, rls.py and the five revisions),  *)
(* from an empty database or an older environment, broken off anywhere and *)
(* run again, with roles an operator changed by hand. One step per         *)
(* transaction.                                                            *)
(*                                                                         *)
(* A definition named for a slip (ForgottenTable, ..) is the next one as   *)
(* it would be with a bug: README.md, "What would be caught".              *)
(***************************************************************************)
EXTENDS Naturals

CONSTANTS
  MaxByHand,  \* bound: changes by hand
  MaxDown     \* bound: alembic downgrades

ASSUME DeployAssumption == {MaxByHand, MaxDown} \subseteq Nat

VARIABLES
  app,       \* what app_user is: "exists", "super", "bypass", "held" (a member
             \* of app_definer), "creates" (in schema public)
  definer,   \* what app_definer is: "exists", "login", "bypass", "granted" to
             \* app_owner
  defaults,  \* app_owner's default privileges for app_user
  revision,  \* alembic_version: revisions 1..revision are applied
  usable,    \* the tables app_user may read and write
  kept,      \* the tables app_user may not DELETE from
  guarded,   \* the tables under ENABLE and FORCE ROW LEVEL SECURITY
  deploy,    \* how far this deploy got
  byHand,
  down

catalog == <<app, definer, defaults, revision, usable, kept, guarded>>
deployVars == <<catalog, deploy, byHand, down>>

ChildTables == {"messages", "onboarding_links", "calendar_connections", "tenant_identities"}
TenantTables == ChildTables \cup {"tenants"}

(* The tables each revision creates; the queue's and the ledgers' stand for  *)
(* their groups.                                                             *)
CreatedBy == <<{}, {"procrastinate"}, {"ledgers"}, TenantTables, {"invites"}>>
Latest == 5

Tables == UNION {CreatedBy[r] : r \in 1..revision}

AppAttributes == {"exists", "super", "bypass", "held", "creates"}
DefinerAttributes == {"exists", "login", "bypass", "granted"}

(* An empty database, or one as an older release of bootstrap left it,      *)
(* without app_definer and perhaps without the default privileges.          *)
DeployInit ==
  /\ \/ /\ app = {} /\ defaults = FALSE /\ revision = 0 /\ usable = {}
     \/ /\ app = {"exists"} /\ defaults \in BOOLEAN /\ revision \in {0, 3}
        /\ usable = IF revision = 0 THEN {} ELSE {"procrastinate", "ledgers"}
        /\ revision = 3 => defaults
  /\ definer = {}
  /\ kept = {}
  /\ guarded = {}
  /\ deploy = "none"
  /\ byHand = 0
  /\ down = 0

-----------------------------------------------------------------------------
(* bootstrap.sql, one transaction. What exists is not created again: of the  *)
(* attributes only app_definer's are put back.                               *)

AsCreated(role) == IF "exists" \in role THEN role ELSE {"exists"}

Reasserted == {"exists", "bypass", "granted"}

Bootstrap ==
  /\ deploy \in {"none", "broken"}
  /\ app' = AsCreated(app)
  /\ definer' = Reasserted
  /\ defaults' = TRUE
  /\ deploy' = "bootstrapped"
  /\ UNCHANGED <<revision, usable, kept, guarded, byHand, down>>

-----------------------------------------------------------------------------
(* alembic upgrade head, one transaction for each revision.                  *)

(* 0004 hands its two functions to app_definer. *)
CanRun(next) == next = 4 => {"exists", "granted"} \subseteq definer

(* 0002 grants on what there is by then, besides. *)
Granted(next) == IF next = 2 THEN Tables \cup CreatedBy[2] ELSE {}

(* 0004 puts "tenants" and _CHILD_TABLES under the policy. *)
ForgottenTable(next) == CreatedBy[next] \cap ChildTables
Guarded(next) == CreatedBy[next] \cap TenantTables

Upgrade ==
  LET next == revision + 1
  IN /\ deploy = "bootstrapped"
     /\ revision < Latest
     /\ CanRun(next)
     /\ revision' = next
     /\ usable' = usable \cup Granted(next) \cup (IF defaults THEN CreatedBy[next] ELSE {})
     /\ guarded' = guarded \cup Guarded(next)
     /\ kept' = kept \cup (CreatedBy[next] \cap {"invites"})
     /\ UNCHANGED <<app, definer, defaults, deploy, byHand, down>>

Deployed ==
  /\ deploy = "bootstrapped"
  /\ revision = Latest
  /\ deploy' = "done"
  /\ UNCHANGED <<catalog, byHand, down>>

(* The container, or the database, dies: what was committed stays. *)
BreakOff ==
  /\ deploy = "bootstrapped"
  /\ deploy' = "broken"
  /\ UNCHANGED <<catalog, byHand, down>>

(* A later release is deployed in the same way. *)
Redeploy ==
  /\ deploy = "done"
  /\ deploy' = "none"
  /\ UNCHANGED <<catalog, byHand, down>>

-----------------------------------------------------------------------------
(* An operator: alembic downgrade, a role changed by hand.                   *)

Downgrade ==
  /\ deploy = "broken"
  /\ down < MaxDown
  /\ revision > 1
  /\ down' = down + 1
  /\ revision' = revision - 1
  /\ usable' = usable \ CreatedBy[revision]
  /\ guarded' = guarded \ CreatedBy[revision]
  /\ kept' = kept \ CreatedBy[revision]
  /\ UNCHANGED <<app, definer, defaults, deploy, byHand>>

ByHand ==
  /\ byHand < MaxByHand
  /\ byHand' = byHand + 1
  /\ \/ /\ "exists" \in app
        /\ UNCHANGED definer
        /\ \E a \in {"super", "bypass", "creates"} : app' = app \cup {a}
     \/ /\ {"exists"} \subseteq app \cap definer
        /\ app' = app \cup {"held"}
        /\ UNCHANGED definer
     \/ /\ "exists" \in definer
        /\ UNCHANGED app
        /\ definer' \in {definer \cup {"login"}, definer \ {"bypass"}}
  /\ UNCHANGED <<defaults, revision, usable, kept, guarded, deploy, down>>

(* What po-db check, as app_user, reports. *)
Problems ==
  (app \cap {"super", "bypass", "creates", "held"}) \cup (definer \cap {"login"})
  \cup ({"exists", "bypass"} \ definer)

DeployNext ==
  \/ Bootstrap \/ Upgrade \/ Deployed \/ BreakOff \/ Redeploy
  \/ Downgrade \/ ByHand

-----------------------------------------------------------------------------
(* What a statement of app_user sees of a tenant table, under a tenant or     *)
(* none: the policy's USING, unless it is not there or does not bind.         *)
Everyone(table) == table \notin guarded \/ app \cap {"super", "bypass"} # {}

-----------------------------------------------------------------------------
(* Properties. *)

(* "Why bootstrap must precede Alembic": whatever was broken off, run again   *)
(* or downgraded, app_user can use every table there is, but DELETE from      *)
(* invites; every tenant table is behind the policy from the commit that made *)
(* it; and resolve_tenant's owner sees past it.                               *)
SchemaIsWhole ==
  /\ usable = Tables
  /\ kept = Tables \cap {"invites"}
  /\ TenantTables \cap Tables \subseteq guarded
  /\ deploy = "done" /\ byHand = 0 => {"exists", "bypass"} \subseteq definer
=============================================================================

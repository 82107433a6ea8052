------------------------------- MODULE Sessions -------------------------------
(***************************************************************************)
(* The sessions of a serving process (db/engine.py, db/session.py): each   *)
(* a transaction on a pooled connection, of one tenant or of none, and     *)
(* what its statements see of a tenant table through the policy            *)
(* (alembic/rls.py). Connections go from tenant to tenant, die with the    *)
(* server or are ended by it for idling, and run out. One step per         *)
(* statement. The tables are tenants' own: one row for each.               *)
(*                                                                         *)
(* The repositories' own filter (scope.py) is left out: "RLS is the        *)
(* guarantee; this is the belt to its braces".                             *)
(***************************************************************************)
EXTENDS Startup

CONSTANTS
  Tenants,
  System,     \* in the place of a tenant: system_session
  Callers,    \* requests, or jobs, that use the database
  Pool,       \* connections: pool_size + max_overflow
  Nobody      \* a value that is no caller

(* A tenant's id is a UUID, and no text that the setting holds besides.      *)
ASSUME SessionsAssumption ==
  /\ System \notin Tenants
  /\ {"unset", "empty"} \cap Tenants = {}
  /\ Nobody \notin Callers

VARIABLES
  user,     \* user[c]: the caller that has connection c
  guc,      \* guc[c]: app.tenant_id: "unset", "empty", or a tenant
  up,       \* up[c]: the server still has c
  session,  \* session[s]: how far the caller's session got
  tenant,   \* tenant[s]: whose session it is
  saw       \* saw[s]: the tenants whose rows its statements returned

pool == <<user, guc, up>>
sessions == <<session, tenant, saw>>
sessionVars == <<startupVars, pool, sessions>>

SessionsInit ==
  /\ StartupInit
  /\ user = [c \in Pool |-> Nobody]
  /\ guc = [c \in Pool |-> "unset"]
  /\ up = [c \in Pool |-> FALSE]
  /\ session = [s \in Callers |-> "none"]
  /\ tenant = [s \in Callers |-> System]
  /\ saw = [s \in Callers |-> {}]

-----------------------------------------------------------------------------
Ask(s) ==
  /\ phase = "serving"
  /\ session[s] = "none"
  /\ session' = [session EXCEPT ![s] = "waiting"]
  /\ \E t \in Tenants \cup {System} : tenant' = [tenant EXCEPT ![s] = t]
  /\ UNCHANGED <<startupVars, pool, saw>>

(* A free connection; pool_pre_ping replaces a dead one. *)
Found(c) == IF up[c] THEN guc[c] ELSE "unset"

(* BEGIN, and the after_begin listener's set_config(.., true).               *)
CheckOut(s, c) ==
  /\ session[s] = "waiting"
  /\ user[c] = Nobody
  /\ user' = [user EXCEPT ![c] = s]
  /\ up' = [up EXCEPT ![c] = TRUE]
  /\ guc' = [guc EXCEPT ![c] = IF tenant[s] = System THEN Found(c) ELSE tenant[s]]
  /\ session' = [session EXCEPT ![s] = "open"]
  /\ UNCHANGED <<startupVars, tenant, saw>>

(* pool_timeout: all are in use. *)
TimeOut(s) ==
  /\ session[s] = "waiting"
  /\ \A c \in Pool : user[c] # Nobody
  /\ session' = [session EXCEPT ![s] = "none"]
  /\ tenant' = [tenant EXCEPT ![s] = System]
  /\ UNCHANGED <<startupVars, pool, saw>>

(* The policy's predicate: id = NULLIF(current_setting(..), '')::uuid.       *)
Visible(c) == {guc[c]} \ {"unset", "empty"}

Select(s, c) ==
  /\ user[c] = s /\ up[c]
  /\ "tenants" \in Tables
  /\ saw' = [saw EXCEPT ![s] = IF Everyone("tenants") THEN Tenants ELSE Visible(c)]
  /\ session' = [session EXCEPT ![s] = "read"]
  /\ UNCHANGED <<startupVars, pool, tenant>>

(* COMMIT or ROLLBACK, on leaving the block: what was set locally reverts to *)
(* the empty string, which is not what it was.                               *)
RevertedNot(c) == guc[c]
Reverted(c) == IF guc[c] = "unset" THEN "unset" ELSE "empty"

End(s, c) ==
  /\ user[c] = s
  /\ user' = [user EXCEPT ![c] = Nobody]
  /\ guc' = [guc EXCEPT ![c] = Reverted(c)]
  /\ session' = [session EXCEPT ![s] = "none"]
  /\ tenant' = [tenant EXCEPT ![s] = System]
  /\ saw' = [saw EXCEPT ![s] = {}]
  /\ UNCHANGED <<startupVars, up>>

(* idle_in_transaction_session_timeout, or the server restarts. *)
Terminate(c) ==
  /\ up[c]
  /\ up' = [up EXCEPT ![c] = FALSE]
  /\ UNCHANGED <<startupVars, user, guc, sessions>>

(* Requests and jobs that are under way end or are cancelled first.          *)
StopServing ==
  /\ Stop
  /\ user' = [c \in Pool |-> Nobody]
  /\ guc' = [c \in Pool |-> "unset"]
  /\ up' = [c \in Pool |-> FALSE]
  /\ session' = [s \in Callers |-> "none"]
  /\ tenant' = [s \in Callers |-> System]
  /\ saw' = [s \in Callers |-> {}]

Session(s) ==
  \/ Ask(s) \/ TimeOut(s)
  \/ \E c \in Pool : CheckOut(s, c) \/ Select(s, c) \/ End(s, c)

SessionsNext ==
  \/ DeployNext /\ UNCHANGED <<process, pool, sessions>>
  \/ Lifespan /\ UNCHANGED <<pool, sessions>>
  \/ StopServing
  \/ \E s \in Callers : Session(s)
  \/ \E c \in Pool : Terminate(c)

SessionsSpec == SessionsInit /\ [][SessionsNext]_sessionVars

-----------------------------------------------------------------------------
(* Properties. *)

(* "A session with no tenant sees zero rows": on whatever connection, and    *)
(* after whichever tenant, a tenant's statements return all of its rows and  *)
(* no other's, and a system session's none, as long as po-db check would     *)
(* find nothing wrong.                                                       *)
SeesItsOwn ==
  Problems = {} =>
    \A s \in Callers :
      session[s] = "read" => saw[s] = {tenant[s]} \ {System}
=============================================================================

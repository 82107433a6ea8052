---------------------------- MODULE SessionsProofs ----------------------------
(* Proofs about Deploy, Startup and Sessions, which make up SessionsSpec, for *)
(* any tenants, callers and connections, and any times and bounds.            *)
EXTENDS Sessions, SequenceTheorems, TLAPS

-----------------------------------------------------------------------------
(* The inductive invariant, a part for each of the three modules.            *)

(* Deploy: every table there is was granted by the revision that created it, *)
(* and no revision runs before bootstrap set the default privileges.         *)
DeployTypeOK ==
  /\ revision \in 0..Latest
  /\ app \subseteq AppAttributes /\ (app # {} => "exists" \in app)
  /\ definer \subseteq DefinerAttributes
  /\ deploy \in {"none", "bootstrapped", "broken", "done"}
  /\ byHand \in Nat /\ down \in Nat

DefaultsBeforeTables ==
  /\ deploy = "bootstrapped" => defaults = TRUE
  /\ deploy \in {"bootstrapped", "done"} /\ byHand = 0 => definer = Reasserted

DeployIInv == DeployTypeOK /\ DefaultsBeforeTables /\ SchemaIsWhole

(* Startup: the database's disposal is the bottom of the stack as long as    *)
(* there is a stack, and there is one as long as there is an engine.         *)
Resources == {"database", "langfuse", "whatsapp", "gowa", "queue"}

StartupTypeOK ==
  /\ kind \in {"api", "worker"}
  /\ phase \in {"off", "probing", "acquiring", "serving", "unwinding", "exited"}
  /\ now \in Nat /\ backoff \in Nat /\ cold \in Nat
  /\ wrong \in BOOLEAN
  /\ engine \in BOOLEAN
  /\ held \in Seq(Resources)
  /\ outcome \in {"none", "timeout", "rejected", "error", "stopped"}

DatabaseFirst ==
  /\ held # <<>> => held[1] = "database"
  /\ engine \/ phase \in {"probing", "acquiring", "serving"} => held # <<>>
  /\ phase \in {"off", "exited"} => held = <<>>

EndedIsOver ==
  /\ outcome # "none" => phase \in {"unwinding", "exited"}
  /\ phase \in {"acquiring", "serving"} => ~wrong

StartupIInv == StartupTypeOK /\ DatabaseFirst /\ EndedIsOver /\ EndsForCause

(* Sessions: a caller that has a connection is in a session, of one          *)
(* connection, which holds the session's tenant; a free one holds none.      *)
SessionsTypeOK ==
  /\ user \in [Pool -> Callers \cup {Nobody}]
  /\ guc \in [Pool -> Tenants \cup {"unset", "empty"}]
  /\ up \in [Pool -> BOOLEAN]
  /\ session \in [Callers -> {"none", "waiting", "open", "read"}]
  /\ tenant \in [Callers -> Tenants \cup {System}]
  /\ saw \in [Callers -> SUBSET Tenants]

OneConnection ==
  \A c \in Pool : user[c] # Nobody =>
    /\ session[user[c]] \in {"open", "read"}
    /\ \A d \in Pool : user[d] = user[c] => d = c

HoldsTheTenant ==
  \A c \in Pool :
    guc[c] \in IF user[c] = Nobody \/ tenant[user[c]] = System
               THEN {"unset", "empty"} ELSE {tenant[user[c]]}

(* Without the assumption about what po-db check would find of app_definer,  *)
(* and of what only lets app_user become more than it is.                    *)
SeesItsOwnTables ==
  app \cap {"super", "bypass"} = {} =>
    \A s \in Callers : session[s] = "read" => saw[s] = {tenant[s]} \ {System}

SessionsIInv == SessionsTypeOK /\ OneConnection /\ HoldsTheTenant /\ SeesItsOwnTables

IInv == DeployIInv /\ StartupIInv /\ SessionsIInv

-----------------------------------------------------------------------------
(* Deploy. *)

TablesOf(n) == UNION {CreatedBy[r] : r \in 1..n}

(* No two revisions create a table of one name.                              *)
LEMMA RevisionsAreApart ==
  /\ \A m, n \in 1..Latest : m # n => CreatedBy[m] \cap CreatedBy[n] = {}
  BY DEF Latest, CreatedBy, TenantTables, ChildTables

LEMMA NextTables ==
  ASSUME NEW n \in 1..Latest
  PROVE  /\ TablesOf(n) = TablesOf(n - 1) \cup CreatedBy[n]
         /\ TablesOf(n - 1) \cap CreatedBy[n] = {}
  <1>1. n \in Nat /\ n >= 1 /\ n <= Latest /\ Latest \in Nat
    BY DEF Latest
  <1>2. 1..n = (1..(n - 1)) \cup {n}
    BY <1>1
  <1>3. \A r \in 1..(n - 1) : r \in 1..Latest /\ r # n
    BY <1>1
  <1> QED
    BY <1>2, <1>3, RevisionsAreApart DEF TablesOf

LEMMA InitDeployIInv == DeployInit => DeployIInv
  <1> SUFFICES ASSUME DeployInit PROVE DeployIInv
    OBVIOUS
  <1>1. CASE revision = 0
    <2>1. Tables = {}
      BY <1>1 DEF Tables
    <2> QED
      BY <1>1, <2>1, DeployAssumption DEF DeployInit, DeployIInv, DeployTypeOK, DefaultsBeforeTables,
        SchemaIsWhole, AppAttributes, Latest
  <1>2. CASE revision = 3
    <2>1. 1..3 = {1, 2, 3}
      OBVIOUS
    <2>2. Tables = {"procrastinate", "ledgers"}
      BY <1>2, <2>1 DEF Tables, CreatedBy
    <2> QED
      BY <1>2, <2>2 DEF DeployInit, DeployIInv, DeployTypeOK, DefaultsBeforeTables,
        SchemaIsWhole, AppAttributes, Latest, TenantTables, ChildTables
  <1> QED
    BY <1>1, <1>2 DEF DeployInit

LEMMA StepDeployIInv == ASSUME DeployIInv, DeployNext PROVE DeployIInv'
  <1> USE DEF DeployIInv
  <1>0. revision \in Nat /\ revision <= 5 /\ Tables = TablesOf(revision)
        /\ Tables' = TablesOf(revision')
    BY DEF DeployTypeOK, Latest, Tables, TablesOf
  <1>1. CASE Bootstrap
    <2>1. DeployTypeOK'
      BY <1>1 DEF Bootstrap, DeployTypeOK, AsCreated, Reasserted, AppAttributes, DefinerAttributes
    <2>2. DefaultsBeforeTables'
      BY <1>1 DEF Bootstrap, DefaultsBeforeTables, Reasserted
    <2>3. SchemaIsWhole'
      BY <1>1 DEF Bootstrap, SchemaIsWhole, Tables, Reasserted
    <2> QED
      BY <2>1, <2>2, <2>3
  <1>2. CASE Upgrade
    <2> DEFINE next == revision + 1
    <2>1. next \in 1..Latest /\ revision = next - 1 /\ revision' = next /\ next \in Nat
      BY <1>0, <1>2 DEF Upgrade, Latest
    <2>2. /\ Tables' = Tables \cup CreatedBy[next]
          /\ Tables \cap CreatedBy[next] = {}
      BY <1>0, <2>1, NextTables
    <2>3. /\ UNCHANGED <<app, definer, defaults, deploy, byHand, down>>
          /\ usable' = usable \cup Granted(next) \cup (IF defaults THEN CreatedBy[next] ELSE {})
          /\ guarded' = guarded \cup Guarded(next)
          /\ kept' = kept \cup (CreatedBy[next] \cap {"invites"})
          /\ deploy = "bootstrapped"
      BY <1>2 DEF Upgrade
    <2>4. Granted(next) \subseteq Tables \cup CreatedBy[next]
      BY DEF Granted
    <2>5. DeployTypeOK' /\ DefaultsBeforeTables'
      BY <2>1, <2>3 DEF DeployTypeOK, DefaultsBeforeTables
    <2>6. usable' = Tables'
      BY <2>2, <2>3, <2>4 DEF SchemaIsWhole, DefaultsBeforeTables
    <2>7. kept' = Tables' \cap {"invites"} /\ TenantTables \cap Tables' \subseteq guarded'
      BY <2>2, <2>3 DEF SchemaIsWhole, Guarded
    <2> QED
      BY <2>3, <2>5, <2>6, <2>7 DEF SchemaIsWhole
  <1>3. CASE Deployed \/ BreakOff \/ Redeploy
    <2>1. UNCHANGED <<app, definer, defaults, revision, usable, kept, guarded, byHand, down>>
      BY <1>3 DEF Deployed, BreakOff, Redeploy, catalog
    <2>2. DeployTypeOK' /\ DefaultsBeforeTables'
      BY <1>3, <2>1
      DEF Deployed, BreakOff, Redeploy, DeployTypeOK, DefaultsBeforeTables
    <2>3. SchemaIsWhole'
      BY <2>1, <2>2 DEF SchemaIsWhole, DefaultsBeforeTables, Tables, Reasserted
    <2> QED
      BY <2>2, <2>3
  <1>4. CASE Downgrade
    <2>1. revision \in 1..Latest /\ revision' = revision - 1
      BY <1>0, <1>4 DEF Downgrade, Latest
    <2>2. /\ Tables = Tables' \cup CreatedBy[revision]
          /\ Tables' \cap CreatedBy[revision] = {}
      BY <1>0, <2>1, NextTables
    <2>3. /\ UNCHANGED <<app, definer, defaults, deploy, byHand>>
          /\ usable' = usable \ CreatedBy[revision]
          /\ guarded' = guarded \ CreatedBy[revision]
          /\ kept' = kept \ CreatedBy[revision]
          /\ deploy = "broken" /\ down' = down + 1
      BY <1>4 DEF Downgrade
    <2>4. DeployTypeOK' /\ DefaultsBeforeTables'
      BY <2>1, <2>3, <1>0 DEF DeployTypeOK, DefaultsBeforeTables, Latest
    <2>5. usable' = Tables' /\ kept' = Tables' \cap {"invites"}
          /\ TenantTables \cap Tables' \subseteq guarded'
      BY <2>2, <2>3 DEF SchemaIsWhole
    <2> QED
      BY <2>3, <2>4, <2>5 DEF SchemaIsWhole
  <1>5. CASE ByHand
    <2>1. byHand' = byHand + 1 /\ byHand' # 0
          /\ UNCHANGED <<defaults, revision, usable, kept, guarded, deploy, down>>
      BY <1>5 DEF ByHand, DeployTypeOK
    <2>2. /\ app' \subseteq AppAttributes /\ (app' # {} => "exists" \in app')
          /\ definer' \subseteq DefinerAttributes
      BY <1>5 DEF ByHand, DeployTypeOK, AppAttributes, DefinerAttributes
    <2>3. DeployTypeOK' /\ DefaultsBeforeTables'
      BY <2>1, <2>2 DEF DeployTypeOK, DefaultsBeforeTables
    <2>4. SchemaIsWhole'
      BY <2>1 DEF SchemaIsWhole, Tables
    <2> QED
      BY <2>3, <2>4
  <1> QED
    BY <1>1, <1>2, <1>3, <1>4, <1>5 DEF DeployNext

-----------------------------------------------------------------------------
(* Startup. *)

LEMMA InitStartupIInv == StartupInit => StartupIInv
  <1> SUFFICES ASSUME StartupInit PROVE StartupIInv
    OBVIOUS
  <1>1. StartupTypeOK
    <2>1. held \in Seq(Resources)
      BY EmptySeq DEF StartupInit
    <2>2. First \in Nat /\ Budget \in Nat /\ ProbeTime \in Nat
      BY StartupAssumption
    <2>3. cold \in Nat
      BY <2>2 DEF StartupInit
    <2> QED
      BY <2>1, <2>2, <2>3 DEF StartupInit, StartupTypeOK
  <1> QED
    BY <1>1 DEF StartupInit, StartupIInv, DatabaseFirst, EndedIsOver, EndsForCause

LEMMA StepStartupIInv == ASSUME StartupIInv, Lifespan \/ Stop PROVE StartupIInv'
  <1> USE DEF StartupIInv
  <1>0. Budget \in Nat /\ ProbeTime \in Nat /\ First \in Nat /\ Longest \in Nat
    BY StartupAssumption
  <1>1. CASE Begin
    <2>1. held' \in Seq(Resources) /\ held'[1] = "database" /\ held' # <<>>
      BY <1>1 DEF Begin, Pushed, Resources
    <2>2. phase = "off" /\ phase' = "probing"
          /\ UNCHANGED <<kind, now, backoff, cold, wrong, engine, outcome>>
      BY <1>1 DEF Begin
    <2> QED
      BY <2>1, <2>2 DEF StartupTypeOK, DatabaseFirst, EndedIsOver, EndsForCause
  <1>2. CASE Reached
    <2>1. /\ phase = "probing" /\ now' = 0 /\ backoff' = First /\ cold' = 0 /\ engine' = TRUE
          /\ UNCHANGED <<kind, wrong, held>>
          /\ \/ wrong /\ phase' = "unwinding" /\ outcome' = "rejected"
             \/ ~wrong /\ phase' = "acquiring" /\ UNCHANGED outcome
      BY <1>2 DEF Reached, Rejected, Fail
    <2> QED
      BY <1>0, <2>1 DEF StartupTypeOK, DatabaseFirst, EndedIsOver, EndsForCause
  <1>3. CASE Missed
    <2>1. /\ phase = "probing" /\ now < cold /\ engine' = TRUE
          /\ UNCHANGED <<kind, cold, wrong, held>>
      BY <1>3 DEF Missed
    <2>2. PICK ended \in now..(now + ProbeTime) :
            IF OutOfTime(ended)
            THEN Fail("timeout") /\ now' = 0 /\ backoff' = First
            ELSE /\ now' = ended + Least(backoff, Budget - ended)
                 /\ backoff' = Least(2 * backoff, Longest)
                 /\ UNCHANGED <<phase, outcome>>
      BY <1>3 DEF Missed
    <2>3. ended \in Nat /\ ended <= now + ProbeTime /\ now \in Nat /\ cold \in Nat /\ backoff \in Nat
      BY <1>0 DEF StartupTypeOK
    <2>4. CASE ended >= Budget
      <3>1. phase' = "unwinding" /\ outcome' = "timeout" /\ now' = 0 /\ backoff' = First
        BY <2>2, <2>4 DEF OutOfTime, Fail
      <3>2. cold' > Budget - ProbeTime
        BY <1>0, <2>1, <2>3, <2>4
      <3> QED
        BY <1>0, <2>1, <3>1, <3>2 DEF StartupTypeOK, DatabaseFirst, EndedIsOver, EndsForCause
    <2>5. CASE ~(ended >= Budget)
      <3>1. /\ now' = ended + Least(backoff, Budget - ended)
            /\ backoff' = Least(2 * backoff, Longest)
            /\ UNCHANGED <<phase, outcome>>
        BY <2>2, <2>5 DEF OutOfTime
      <3>2. now' \in Nat /\ backoff' \in Nat
        BY <1>0, <2>3, <2>5, <3>1 DEF Least
      <3> QED
        BY <2>1, <3>1, <3>2 DEF StartupTypeOK, DatabaseFirst, EndedIsOver, EndsForCause
    <2> QED
      BY <2>4, <2>5
  <1>4. CASE Acquire
    <2>1. /\ phase = "acquiring"
          /\ UNCHANGED <<kind, now, backoff, cold, wrong, engine>>
      BY <1>4 DEF Acquire
    <2>2. CASE UNCHANGED <<phase, outcome>> /\ \E j \in Following : held' = Append(held, Order[kind][j])
      <3>1. PICK j \in Following : held' = Append(held, Order[kind][j])
        BY <2>2
      <3>2. j \in DOMAIN Order[kind]
        BY DEF Following
      <3>3. Order[kind][j] \in Resources
        <4>1. CASE kind = "api"
          BY <3>2, <4>1 DEF Order, Resources
        <4>2. CASE kind = "worker"
          BY <3>2, <4>2 DEF Order, Resources
        <4> QED
          BY <4>1, <4>2 DEF StartupTypeOK
      <3>4. held' \in Seq(Resources) /\ held' # <<>> /\ held'[1] = "database"
        BY <2>1, <3>1, <3>3 DEF StartupTypeOK, DatabaseFirst
      <3> QED
        BY <2>1, <2>2, <3>4 DEF StartupTypeOK, DatabaseFirst, EndedIsOver, EndsForCause
    <2>3. CASE UNCHANGED held /\ phase' = "unwinding" /\ outcome' = "error"
      BY <2>1, <2>3 DEF StartupTypeOK, DatabaseFirst, EndedIsOver, EndsForCause
    <2> QED
      BY <1>4, <2>2, <2>3 DEF Acquire, Fail
  <1>5. CASE Serve
    BY <1>5 DEF Serve, StartupTypeOK, DatabaseFirst, EndedIsOver, EndsForCause
  <1>6. CASE Stop
    BY <1>6 DEF Stop, Fail, StartupTypeOK, DatabaseFirst, EndedIsOver, EndsForCause
  <1>7. CASE Release
    <2>1. /\ phase = "unwinding" /\ held # <<>> /\ held \in Seq(Resources)
          /\ held' = SubSeq(held, 1, Len(held) - 1)
          /\ engine' = (engine /\ held[Len(held)] # "database")
          /\ UNCHANGED <<kind, phase, now, backoff, cold, wrong, outcome>>
      BY <1>7 DEF Release, StartupTypeOK
    <2>2. engine' \in BOOLEAN
      BY <2>1 DEF StartupTypeOK
    <2>3. PICK n \in Nat : n + 1 = Len(held)
      <3>1. Len(held) \in Nat \ {0}
        BY <2>1, EmptySeq
      <3> QED
        BY <3>1
    <2>4. held' \in Seq(Resources) /\ Len(held') = n /\ \A i \in 1..n : held'[i] = held[i]
      <3>1. held' = SubSeq(held, 1, n)
        BY <2>1, <2>3
      <3>2. \A i \in 1..n : held[i] \in Resources
        BY <2>1, <2>3, ElementOfSeq
      <3>3. /\ SubSeq(held, 1, n) \in Seq(Resources)
            /\ Len(SubSeq(held, 1, n)) = IF 1 <= n THEN n - 1 + 1 ELSE 0
            /\ \A i \in 1..(n - 1 + 1) : SubSeq(held, 1, n)[i] = held[1 + i - 1]
        BY <3>2, SubSeqProperties
      <3> QED
        BY <3>1, <3>3
    <2>5. CASE n = 0
      <3>1. Len(held) = 1
        BY <2>3, <2>5
      <3>2. held[Len(held)] = "database"
        BY <2>1, <3>1 DEF DatabaseFirst
      <3>3. ~engine'
        BY <2>1, <3>2, Zenon
      <3>4. held' = <<>>
        BY <2>4, <2>5, EmptySeq
      <3> QED
        BY <2>1, <2>2, <2>4, <3>3, <3>4 DEF StartupTypeOK, DatabaseFirst, EndedIsOver, EndsForCause
    <2>6. CASE n # 0
      <3>1. 1 \in 1..n
        BY <2>6
      <3>2. held'[1] = "database"
        BY <2>1, <2>4, <3>1 DEF DatabaseFirst
      <3>3. held' # <<>>
        BY <2>4, <2>6, EmptySeq
      <3> QED
        BY <2>1, <2>2, <2>4, <3>2, <3>3 DEF StartupTypeOK, DatabaseFirst, EndedIsOver, EndsForCause
    <2> QED
      BY <2>5, <2>6
  <1>8. CASE Exit
    BY <1>8 DEF Exit, StartupTypeOK, DatabaseFirst, EndedIsOver, EndsForCause
  <1> QED
    BY <1>1, <1>2, <1>3, <1>4, <1>5, <1>6, <1>7, <1>8 DEF Lifespan

-----------------------------------------------------------------------------
(* Sessions. *)

LEMMA InitSessionsIInv == SessionsInit => SessionsIInv
  BY SessionsAssumption
  DEF SessionsInit, SessionsIInv, SessionsTypeOK, OneConnection, HoldsTheTenant, SeesItsOwnTables

(* What the deploy and the process do to the database leaves every session    *)
(* as it was, and app_user no less than it was.                               *)
LEMMA Undisturbed ==
  ASSUME SessionsIInv, UNCHANGED <<pool, sessions>>, app \subseteq app' PROVE SessionsIInv'
  BY DEF pool, sessions, SessionsIInv, SessionsTypeOK, OneConnection, HoldsTheTenant,
         SeesItsOwnTables

LEMMA AppOnlyGrows == ASSUME DeployIInv, DeployNext \/ UNCHANGED deployVars PROVE app \subseteq app'
  <1>1. CASE Bootstrap
    BY <1>1 DEF Bootstrap, AsCreated, DeployIInv, DeployTypeOK
  <1>2. CASE ByHand
    BY <1>2 DEF ByHand
  <1>3. CASE Upgrade \/ Deployed \/ BreakOff \/ Redeploy \/ Downgrade \/ UNCHANGED deployVars
    <2>1. UNCHANGED app
      BY <1>3 DEF Upgrade, Deployed, BreakOff, Redeploy, Downgrade, catalog, deployVars
    <2> QED
      BY <2>1
  <1> QED
    BY <1>1, <1>2, <1>3 DEF DeployNext

LEMMA StepSession ==
  ASSUME DeployIInv, SessionsIInv, NEW s \in Callers, Session(s) PROVE SessionsIInv'
  <1> USE SessionsAssumption DEF SessionsIInv, SessionsTypeOK
  <1>0. UNCHANGED <<app, guarded, revision>>
    BY DEF Session, Ask, TimeOut, CheckOut, Select, End, startupVars, deployVars, catalog
  <1>1. CASE Ask(s)
    <2>1. /\ session[s] = "none" /\ session' = [session EXCEPT ![s] = "waiting"]
          /\ UNCHANGED <<user, guc, up, saw>>
      BY <1>1 DEF Ask, pool
    <2>2. PICK t \in Tenants \cup {System} : tenant' = [tenant EXCEPT ![s] = t]
      BY <1>1 DEF Ask
    <2>3. \A c \in Pool : user[c] # s
      BY <2>1 DEF OneConnection
    <2> QED
      BY <1>0, <2>1, <2>2, <2>3 DEF OneConnection, HoldsTheTenant, SeesItsOwnTables
  <1>2. CASE TimeOut(s)
    <2>1. /\ session[s] = "waiting" /\ session' = [session EXCEPT ![s] = "none"]
          /\ tenant' = [tenant EXCEPT ![s] = System]
          /\ UNCHANGED <<user, guc, up, saw>>
      BY <1>2 DEF TimeOut, pool
    <2>2. \A c \in Pool : user[c] # s
      BY <2>1 DEF OneConnection
    <2> QED
      BY <1>0, <2>1, <2>2 DEF OneConnection, HoldsTheTenant, SeesItsOwnTables
  <1>3. ASSUME NEW c \in Pool, CheckOut(s, c) PROVE SessionsIInv'
    <2>1. /\ session[s] = "waiting" /\ user[c] = Nobody
          /\ user' = [user EXCEPT ![c] = s]
          /\ up' = [up EXCEPT ![c] = TRUE]
          /\ guc' = [guc EXCEPT ![c] = IF tenant[s] = System THEN Found(c) ELSE tenant[s]]
          /\ session' = [session EXCEPT ![s] = "open"]
          /\ UNCHANGED <<tenant, saw>>
      BY <1>3 DEF CheckOut
    <2>2. \A d \in Pool : user[d] # s
      BY <2>1 DEF OneConnection
    <2>3. Found(c) \in {"unset", "empty"}
      BY <2>1 DEF Found, HoldsTheTenant
    <2>4. SessionsTypeOK'
      BY <2>1, <2>3
    <2>5. OneConnection'
      BY <2>1, <2>2 DEF OneConnection
    <2>6. HoldsTheTenant'
      BY <2>1, <2>2, <2>3 DEF HoldsTheTenant
    <2> QED
      BY <1>0, <2>1, <2>4, <2>5, <2>6 DEF SeesItsOwnTables
  <1>4. ASSUME NEW c \in Pool, Select(s, c) PROVE SessionsIInv'
    <2>1. /\ user[c] = s /\ "tenants" \in Tables
          /\ saw' = [saw EXCEPT ![s] = IF Everyone("tenants") THEN Tenants ELSE Visible(c)]
          /\ session' = [session EXCEPT ![s] = "read"]
          /\ UNCHANGED <<user, guc, up, tenant>>
      BY <1>4 DEF Select, pool
    <2>2. "tenants" \in guarded
      BY <2>1 DEF DeployIInv, SchemaIsWhole, TenantTables
    <2>3. app \cap {"super", "bypass"} = {} => ~Everyone("tenants")
      BY <2>2 DEF Everyone
    <2>4. Visible(c) = {tenant[s]} \ {System} /\ Visible(c) \subseteq Tenants
      BY <2>1 DEF Visible, HoldsTheTenant
    <2>5. SessionsTypeOK'
      BY <2>1, <2>4
    <2>6. OneConnection' /\ HoldsTheTenant'
      BY <2>1 DEF OneConnection, HoldsTheTenant
    <2>7. SeesItsOwnTables'
      BY <1>0, <2>1, <2>3, <2>4 DEF SeesItsOwnTables
    <2> QED
      BY <2>5, <2>6, <2>7
  <1>5. ASSUME NEW c \in Pool, End(s, c) PROVE SessionsIInv'
    <2>1. /\ user[c] = s
          /\ user' = [user EXCEPT ![c] = Nobody]
          /\ guc' = [guc EXCEPT ![c] = Reverted(c)]
          /\ session' = [session EXCEPT ![s] = "none"]
          /\ tenant' = [tenant EXCEPT ![s] = System]
          /\ saw' = [saw EXCEPT ![s] = {}]
          /\ UNCHANGED up
      BY <1>5 DEF End
    <2>2. \A d \in Pool : user[d] = s => d = c
      BY <2>1 DEF OneConnection
    <2>3. Reverted(c) \in {"unset", "empty"}
      BY DEF Reverted
    <2>4. SessionsTypeOK'
      BY <2>1, <2>3
    <2>5. OneConnection'
      BY <2>1, <2>2 DEF OneConnection
    <2>6. HoldsTheTenant'
      BY <2>1, <2>2, <2>3 DEF HoldsTheTenant
    <2> QED
      BY <1>0, <2>1, <2>4, <2>5, <2>6 DEF SeesItsOwnTables
  <1> QED
    BY <1>1, <1>2, <1>3, <1>4, <1>5 DEF Session

LEMMA StepIInv == IInv /\ [SessionsNext]_sessionVars => IInv'
  <1> SUFFICES ASSUME IInv, [SessionsNext]_sessionVars PROVE IInv'
    OBVIOUS
  <1>0. DeployIInv /\ StartupIInv /\ SessionsIInv
    BY DEF IInv
  <1>1. ASSUME UNCHANGED deployVars PROVE DeployIInv'
    BY <1>0, <1>1 DEF DeployIInv, DeployTypeOK, DefaultsBeforeTables, SchemaIsWhole, Tables,
      deployVars, catalog
  <1>2. ASSUME UNCHANGED process PROVE StartupIInv'
    BY <1>0, <1>2 DEF StartupIInv, StartupTypeOK, DatabaseFirst, EndedIsOver, EndsForCause, process
  <1>3. CASE DeployNext /\ UNCHANGED <<process, pool, sessions>>
    BY <1>0, <1>2, <1>3, StepDeployIInv, AppOnlyGrows, Undisturbed DEF IInv
  <1>4. CASE Lifespan /\ UNCHANGED <<pool, sessions>>
    <2>1. UNCHANGED deployVars
      BY <1>4 DEF Lifespan, Begin, Reached, Missed, Acquire, Serve, Release, Exit
    <2> QED
      BY <1>0, <1>1, <1>4, <2>1, StepStartupIInv, AppOnlyGrows, Undisturbed DEF IInv
  <1>5. CASE StopServing
    <2>1. Stop /\ UNCHANGED deployVars
      BY <1>5 DEF StopServing, Stop
    <2>2. SessionsIInv'
      BY <1>5, SessionsAssumption
      DEF StopServing, SessionsIInv, SessionsTypeOK, OneConnection, HoldsTheTenant,
          SeesItsOwnTables
    <2> QED
      BY <1>0, <1>1, <2>1, <2>2, StepStartupIInv DEF IInv
  <1>6. ASSUME NEW s \in Callers, Session(s) PROVE IInv'
    <2>1. UNCHANGED <<deployVars, process>>
      BY <1>6 DEF Session, Ask, TimeOut, CheckOut, Select, End, startupVars
    <2> QED
      BY <1>0, <1>1, <1>2, <1>6, <2>1, StepSession DEF IInv
  <1>7. ASSUME NEW c \in Pool, Terminate(c) PROVE IInv'
    <2>1. UNCHANGED <<deployVars, process, user, guc, sessions>>
          /\ up' = [up EXCEPT ![c] = FALSE]
      BY <1>7 DEF Terminate, startupVars
    <2>2. SessionsIInv'
      BY <1>0, <2>1 DEF SessionsIInv, SessionsTypeOK, OneConnection, HoldsTheTenant,
        SeesItsOwnTables, sessions, deployVars, catalog
    <2> QED
      BY <1>0, <1>1, <1>2, <2>1, <2>2 DEF IInv
  <1>8. CASE UNCHANGED sessionVars
    <2>1. UNCHANGED <<deployVars, process, pool, sessions>>
      BY <1>8 DEF sessionVars, startupVars
    <2> QED
      BY <1>0, <1>1, <1>2, <2>1, AppOnlyGrows, Undisturbed DEF IInv
  <1> QED
    BY <1>3, <1>4, <1>5, <1>6, <1>7, <1>8 DEF SessionsNext

THEOREM Invariance == SessionsSpec => []IInv
  <1>1. SessionsInit => IInv
    BY InitDeployIInv, InitStartupIInv, InitSessionsIInv DEF SessionsInit, StartupInit, IInv
  <1> QED
    BY <1>1, StepIInv, PTL DEF SessionsSpec

(* The catalog, the process and every session keep their types.              *)
THEOREM TypesCorrect == SessionsSpec => [](DeployTypeOK /\ StartupTypeOK /\ SessionsTypeOK)
  <1>1. IInv => DeployTypeOK /\ StartupTypeOK /\ SessionsTypeOK
    BY DEF IInv, DeployIInv, StartupIInv, SessionsIInv
  <1> QED
    BY <1>1, Invariance, PTL

(* Whatever deploys break off, are run again or are taken back, every table  *)
(* has its grants and its policy, from the commit that made it.              *)
THEOREM SchemaStaysWhole == SessionsSpec => []SchemaIsWhole
  <1>1. IInv => SchemaIsWhole
    BY DEF IInv, DeployIInv
  <1> QED
    BY <1>1, Invariance, PTL

(* A process gives up no sooner than its budget says, does not wait for what *)
(* waiting cannot mend, and leaves no connection behind, however long its    *)
(* probes hang, its pauses grow and whatever fails to open.                  *)
THEOREM ProcessesEndForCause == SessionsSpec => []EndsForCause
  <1>1. IInv => EndsForCause
    BY DEF IInv, StartupIInv
  <1> QED
    BY <1>1, Invariance, PTL

(* No session sees another tenant's rows, whichever connection it is given   *)
(* and whoever had it before, while deploys go on and connections die.       *)
THEOREM SessionsSeeTheirOwn == SessionsSpec => []SeesItsOwn
  <1>1. IInv => SeesItsOwn
    <2>1. Problems = {} => app \cap {"super", "bypass"} = {}
      BY DEF Problems
    <2> QED
      BY <2>1 DEF IInv, SessionsIInv, SeesItsOwnTables, SeesItsOwn
  <1> QED
    BY <1>1, Invariance, PTL
=============================================================================

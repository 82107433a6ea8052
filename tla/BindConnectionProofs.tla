------------------------ MODULE BindConnectionProofs ------------------------
(* Proofs about BindConnection, for any tenants, accounts and callbacks. *)
EXTENDS BindConnection, TLAPS

(* The inductive invariant. What the two unique indexes guarantee of the    *)
(* committed rows is kept by what each open transaction holds: the rows it  *)
(* has revoked are locked, and its own row blocks every row it excludes.    *)

(* Past Fetch, Composio has named the state's tenant as the account's user. *)
Fetched ==
  \A c \in Callbacks :
    at[c] \in {"verified", "connected"} \cup InTransaction =>
      UserOf[AccountOf[c]] = TenantOf[c]

LiveIsHeld == \A a \in live : holder[a] # NoTenant

(* A transaction holds rows only between its revoke and its end. *)
LocalsAreOpen ==
  \A c \in Callbacks :
    /\ at[c] # "revoking" => seen[c] = {}
    /\ at[c] \notin {"insert", "readback", "bound"} => revoking[c] = {}
    /\ at[c] \notin {"readback", "bound"} => ~inserting[c]

(* Revoked and uncommitted rows are the tenant's own, active, and locked. *)
RowsAreLocked ==
  \A c \in Callbacks :
    /\ \A a \in seen[c] : holder[a] = TenantOf[c]
    /\ revoking[c] \subseteq LiveOf(TenantOf[c])
    /\ \A d \in Callbacks \ {c} : revoking[c] \cap revoking[d] = {}

(* An uncommitted row is the only one of its account and its tenant to come. *)
InsertExcludes ==
  \A c \in Callbacks : inserting[c] =>
    /\ holder[AccountOf[c]] = NoTenant
    /\ LiveOf(TenantOf[c]) \subseteq revoking[c]
    /\ \A d \in Callbacks \ {c} :
         inserting[d] => AccountOf[d] # AccountOf[c] /\ TenantOf[d] # TenantOf[c]

IInv ==
  /\ TypeOK
  /\ Fetched
  /\ LiveIsHeld
  /\ LocalsAreOpen
  /\ RowsAreLocked
  /\ InsertExcludes
  /\ BoundToItsUser
  /\ OneActiveConnection

-----------------------------------------------------------------------------
LEMMA InitIInv == Init => IInv
  BY ConstantsAssumption DEF Init, IInv, TypeOK, AdminStates, Idle, Fetched, LiveIsHeld,
     LocalsAreOpen, RowsAreLocked, InsertExcludes, BoundToItsUser, OneActiveConnection,
     LiveOf, InTransaction, Answered

LEMMA StepTypeOK == TypeOK /\ [Next]_vars => TypeOK'
  <1> SUFFICES ASSUME TypeOK, [Next]_vars PROVE TypeOK'
    OBVIOUS
  <1> USE ConstantsAssumption DEF TypeOK, InTransaction, Answered, Go, Undo, tables, locals
  <1>1. ASSUME NEW c \in Callbacks, Fetch(c) PROVE TypeOK'
    BY <1>1 DEF Fetch, NamedAsUser
  <1>2. ASSUME NEW c \in Callbacks, CheckTenant(c) PROVE TypeOK'
    BY <1>2 DEF CheckTenant
  <1>3. ASSUME NEW c \in Callbacks, Lookup(c) PROVE TypeOK'
    BY <1>3 DEF Lookup
  <1>4. ASSUME NEW c \in Callbacks, RevokeScan(c) PROVE TypeOK'
    BY <1>4 DEF RevokeScan, LiveOf
  <1>5. ASSUME NEW c \in Callbacks, RevokeApply(c) PROVE TypeOK'
    BY <1>5 DEF RevokeApply
  <1>6. ASSUME NEW c \in Callbacks, InsertNothing(c) PROVE TypeOK'
    BY <1>6 DEF InsertNothing
  <1>7. ASSUME NEW c \in Callbacks, InsertRow(c) PROVE TypeOK'
    <2>1. \/ Go(c, "readback") /\ inserting' = [inserting EXCEPT ![c] = TRUE] /\ UNCHANGED <<seen, revoking>>
          \/ Go(c, "refused") /\ Undo(c)
      BY <1>7 DEF InsertRow
    <2>2. UNCHANGED <<tables, deferred, admin>>
      BY <1>7 DEF InsertRow
    <2> QED
      BY <2>1, <2>2
  <1>8. ASSUME NEW c \in Callbacks, ReadBack(c) PROVE TypeOK'
    BY <1>8 DEF ReadBack
  <1>9. ASSUME NEW c \in Callbacks, Commit(c) PROVE TypeOK'
    BY <1>9 DEF Commit
  <1>10. ASSUME NEW c \in Callbacks, Defer(c) PROVE TypeOK'
    <2>1. <<TenantOf[c], AccountOf[c]>> \in Tenants \X Accounts
      OBVIOUS
    <2> QED
      BY <1>10, <2>1 DEF Defer
  <1>11. ASSUME NEW c \in Callbacks, Abort(c) PROVE TypeOK'
    BY <1>11 DEF Abort
  <1>12. CASE Admin
    <2>1. ASSUME NEW t \in Tenants, SuspendRead(t) \/ UnsuspendRead(t) PROVE TypeOK'
      <3>1. admin' \in AdminStates
        BY <2>1 DEF SuspendRead, UnsuspendRead, Restored, AdminStates, Bindable
      <3> QED
        BY <2>1, <3>1 DEF SuspendRead, UnsuspendRead
    <2>2. CASE SuspendWrite
      <3>1. Idle \in AdminStates
        BY DEF AdminStates
      <3> QED
        BY <2>2, <3>1 DEF SuspendWrite
    <2>3. CASE UnsuspendWrite
      <3>1. Idle \in AdminStates
        BY DEF AdminStates
      <3>2. admin.restored \in Bindable
        BY <2>3 DEF UnsuspendWrite, AdminStates, Idle
      <3> QED
        BY <2>3, <3>1, <3>2 DEF UnsuspendWrite, Bindable
    <2> QED
      BY <1>12, <2>1, <2>2, <2>3 DEF Admin
  <1>13. CASE UNCHANGED vars
    BY <1>13 DEF vars
  <1> QED
    BY <1>1, <1>2, <1>3, <1>4, <1>5, <1>6, <1>7, <1>8, <1>9, <1>10, <1>11, <1>12, <1>13
       DEF Next, Handle

(* A step that leaves the committed rows alone keeps what is said of them alone. *)
LEMMA SameRows ==
  ASSUME IInv, holder' = holder, live' = live
  PROVE  LiveIsHeld' /\ BoundToItsUser' /\ OneActiveConnection'
  BY DEF IInv, LiveIsHeld, BoundToItsUser, OneActiveConnection

(* So does one that only moves a callback along, for the rest of the invariant. *)
LEMMA SameLocals ==
  ASSUME IInv, holder' = holder, live' = live, UNCHANGED locals
  PROVE  RowsAreLocked' /\ InsertExcludes'
  BY DEF IInv, RowsAreLocked, InsertExcludes, LiveOf, locals

LEMMA StepIInv == IInv /\ [Next]_vars => IInv'
  <1> SUFFICES ASSUME IInv, [Next]_vars PROVE IInv'
    OBVIOUS
  <1>0. TypeOK'
    BY StepTypeOK DEF IInv
  <1> USE ConstantsAssumption DEF Go
  <1>1. ASSUME NEW c \in Callbacks,
               Fetch(c) \/ CheckTenant(c) \/ Lookup(c) \/ InsertNothing(c) \/ Defer(c)
        PROVE  IInv'
    <2>1. holder' = holder /\ live' = live /\ UNCHANGED locals
      BY <1>1 DEF Fetch, CheckTenant, Lookup, InsertNothing, Defer, tables, locals
    <2>2. Fetched'
      BY <1>1 DEF IInv, TypeOK, Fetched, Fetch, NamedAsUser, CheckTenant, Lookup, InsertNothing, Defer,
                  InTransaction
    <2>3. LocalsAreOpen'
      BY <1>1, <2>1 DEF IInv, TypeOK, LocalsAreOpen, Fetch, CheckTenant, Lookup,
                        InsertNothing, Defer, locals
    <2> QED
      BY <1>0, <2>1, <2>2, <2>3, SameRows, SameLocals DEF IInv
  <1>2. ASSUME NEW c \in Callbacks, RevokeScan(c) PROVE IInv'
    <2>1. holder' = holder /\ live' = live
      BY <1>2 DEF RevokeScan, tables
    <2>2. Fetched'
      BY <1>2 DEF IInv, TypeOK, Fetched, RevokeScan, InTransaction
    <2>3. LocalsAreOpen'
      BY <1>2 DEF IInv, TypeOK, LocalsAreOpen, RevokeScan
    <2>4. RowsAreLocked'
      BY <1>2, <2>1 DEF IInv, TypeOK, RowsAreLocked, RevokeScan, LiveOf
    <2>5. InsertExcludes'
      BY <1>2, <2>1 DEF IInv, TypeOK, InsertExcludes, RevokeScan, LiveOf
    <2> QED
      BY <1>0, <2>1, <2>2, <2>3, <2>4, <2>5, SameRows DEF IInv
  <1>3. ASSUME NEW c \in Callbacks, RevokeApply(c) PROVE IInv'
    <2>1. holder' = holder /\ live' = live
      BY <1>3 DEF RevokeApply, tables
    <2>2. Fetched'
      BY <1>3 DEF IInv, TypeOK, Fetched, RevokeApply, InTransaction
    <2>3. LocalsAreOpen'
      BY <1>3 DEF IInv, TypeOK, LocalsAreOpen, RevokeApply
    <2>4. RowsAreLocked'
      <3>1. \A d \in Callbacks \ {c} : seen[c] \cap revoking[d] = {}
        BY <1>3 DEF RevokeApply, HeldUpBy
      <3> QED
        BY <1>3, <2>1, <3>1 DEF IInv, TypeOK, RowsAreLocked, RevokeApply, LiveOf
    <2>5. InsertExcludes'
      BY <1>3, <2>1 DEF IInv, TypeOK, InsertExcludes, LocalsAreOpen, RevokeApply, LiveOf
    <2> QED
      BY <1>0, <2>1, <2>2, <2>3, <2>4, <2>5, SameRows DEF IInv
  <1>4. ASSUME NEW c \in Callbacks, InsertRow(c) PROVE IInv'
    <2>1. holder' = holder /\ live' = live
      BY <1>4 DEF InsertRow, tables
    <2>2. Fetched'
      BY <1>4 DEF IInv, TypeOK, Fetched, InsertRow, InTransaction, Undo
    <2>3. LocalsAreOpen'
      BY <1>4 DEF IInv, TypeOK, LocalsAreOpen, InsertRow, Undo
    <2>4. RowsAreLocked'
      <3>1. UNCHANGED <<seen, revoking>> \/ Undo(c)
        BY <1>4 DEF InsertRow
      <3> QED
        BY <2>1, <3>1 DEF IInv, TypeOK, RowsAreLocked, LiveOf, Undo
    <2>5. InsertExcludes'
      <3>1. /\ holder[AccountOf[c]] = NoTenant
            /\ \A d \in Callbacks \ {c} :
                 inserting[d] => AccountOf[d] # AccountOf[c] /\ TenantOf[d] # TenantOf[c]
        BY <1>4 DEF InsertRow, HeldUpBy
      <3>2. CASE OnlyActiveRow(c)
        <4>1. inserting' = [inserting EXCEPT ![c] = TRUE] /\ revoking' = revoking
          BY <1>4, <3>2 DEF InsertRow
        <4> QED
          BY <2>1, <3>1, <3>2, <4>1 DEF IInv, TypeOK, InsertExcludes, OnlyActiveRow, LiveOf
      <3>3. CASE ~OnlyActiveRow(c)
        <4>1. Undo(c)
          BY <1>4, <3>3 DEF InsertRow
        <4> QED
          BY <2>1, <4>1 DEF IInv, TypeOK, InsertExcludes, RowsAreLocked, LiveOf, Undo
      <3> QED
        BY <3>2, <3>3
    <2> QED
      BY <1>0, <2>1, <2>2, <2>3, <2>4, <2>5, SameRows DEF IInv
  <1>5. ASSUME NEW c \in Callbacks, ReadBack(c) \/ Abort(c) PROVE IInv'
    <2>1. holder' = holder /\ live' = live
      BY <1>5 DEF ReadBack, Abort, tables
    <2>2. UNCHANGED locals \/ Undo(c)
      BY <1>5 DEF ReadBack, Abort
    <2>3. Fetched'
      BY <1>5 DEF IInv, TypeOK, Fetched, ReadBack, Abort, InTransaction
    <2>4. LocalsAreOpen'
      BY <1>5 DEF IInv, TypeOK, LocalsAreOpen, ReadBack, Abort, Undo, locals
    <2>5. RowsAreLocked'
      BY <2>1, <2>2 DEF IInv, TypeOK, RowsAreLocked, LiveOf, Undo, locals
    <2>6. InsertExcludes'
      BY <2>1, <2>2 DEF IInv, TypeOK, InsertExcludes, LiveOf, Undo, locals
    <2> QED
      BY <1>0, <2>1, <2>3, <2>4, <2>5, <2>6, SameRows DEF IInv
  <1>6. ASSUME NEW c \in Callbacks, Commit(c) PROVE IInv'
    <2> DEFINE t == TenantOf[c]
               new == IF inserting[c] THEN {AccountOf[c]} ELSE {}
    <2>1. /\ at[c] = "bound"
          /\ live' = (live \ revoking[c]) \cup new
          /\ \A b \in Accounts : holder'[b] = IF b \in new THEN t ELSE holder[b]
          /\ Undo(c)
          /\ at' = [at EXCEPT ![c] = "connected"]
      BY <1>6 DEF Commit
    <2>2. /\ new \subseteq Accounts /\ t \in Tenants /\ t # NoTenant
          /\ live \subseteq Accounts
      BY DEF IInv, TypeOK
    <2>3. \A a \in new : holder[a] = NoTenant /\ a \notin live
      BY DEF IInv, InsertExcludes, LiveIsHeld
    <2>4. \A a \in new : \A b \in live \ revoking[c] : holder[b] # t
      BY DEF IInv, InsertExcludes, LiveOf
    <2>5. \A a \in new : UserOf[a] = t
      BY <2>1 DEF IInv, Fetched, InTransaction
    <2> HIDE DEF t, new
    <2>6. Fetched'
      BY <2>1 DEF IInv, TypeOK, Fetched, InTransaction
    <2>7. LiveIsHeld'
      BY <2>1, <2>2, <2>3 DEF IInv, LiveIsHeld
    <2>8. LocalsAreOpen'
      BY <2>1 DEF IInv, TypeOK, LocalsAreOpen, Undo
    <2>9. RowsAreLocked'
      BY <2>1, <2>2, <2>3 DEF IInv, TypeOK, RowsAreLocked, LiveOf, Undo
    <2>10. InsertExcludes'
      BY <2>1, <2>2, <2>3 DEF IInv, TypeOK, InsertExcludes, LiveOf, Undo, t, new
    <2>11. BoundToItsUser'
      BY <2>1, <2>5 DEF IInv, BoundToItsUser
    <2>12. OneActiveConnection'
      <3> SUFFICES ASSUME NEW a \in live', NEW b \in live', holder'[a] = holder'[b]
                   PROVE  a = b
        BY DEF OneActiveConnection
      <3>1. CASE a \in new /\ b \in new
        BY <3>1 DEF new
      <3>2. CASE a \notin new /\ b \notin new
        BY <2>1, <2>2, <3>2 DEF IInv, OneActiveConnection
      <3>3. CASE (a \in new) # (b \in new)
        BY <2>1, <2>2, <2>4, <3>3
      <3> QED
        BY <3>1, <3>2, <3>3
    <2> QED
      BY <1>0, <2>6, <2>7, <2>8, <2>9, <2>10, <2>11, <2>12 DEF IInv
  <1>7. CASE Admin \/ UNCHANGED vars
    <2>1. holder' = holder /\ live' = live /\ UNCHANGED locals /\ at' = at
      BY <1>7 DEF Admin, SuspendRead, UnsuspendRead, SuspendWrite, UnsuspendWrite,
                  vars, tables, locals
    <2>2. Fetched' /\ LocalsAreOpen'
      BY <2>1 DEF IInv, Fetched, LocalsAreOpen, locals
    <2> QED
      BY <1>0, <2>1, <2>2, SameRows, SameLocals DEF IInv
  <1> QED
    BY <1>1, <1>2, <1>3, <1>4, <1>5, <1>6, <1>7 DEF Next, Handle

(* The strengthening holds in every reachable state. *)
THEOREM Invariance == Spec => []IInv
  BY InitIInv, StepIInv, PTL DEF Spec

(* Every variable keeps its type, for any tenants, accounts and callbacks. *)
THEOREM TypeCorrect == Spec => []TypeOK
  BY Invariance, PTL DEF IInv

(* "never a moment with two active rows": connections.py's one-active index,  *)
(* savepoint and revoke keep one active connection per tenant.                *)
THEOREM OneActive == Spec => []OneActiveConnection
  BY Invariance, PTL DEF IInv

(* D5: no callback binds an account to a tenant other than its Composio user. *)
THEOREM AccountsStayWithTheirUser == Spec => []BoundToItsUser
  BY Invariance, PTL DEF IInv

LEMMA LeftByPlace ==
  ASSUME NEW c \in Callbacks
  PROVE  /\ at[c] \in {"readback", "bound"} => Left(c) = 0
         /\ at[c] = "insert" => Left(c) = IF revoking[c] # {} THEN 1 ELSE 2
         /\ at[c] = "revoking" => Left(c) = 3
  BY Zenon DEF Left

(* No transaction of bind_connection waits, through others, for itself:     *)
(* Postgres has no deadlock among callbacks to break, however many race.    *)
THEOREM NoCircleOfWaits == Spec => []WaitsAreOrdered
  <1>1. IInv => WaitsAreOrdered
    <2> SUFFICES ASSUME IInv, NEW c \in Callbacks, NEW d \in HeldUpBy(c) PROVE Left(d) < Left(c)
      BY DEF WaitsAreOrdered
    <2>1. d \in Callbacks \ {c} /\ at[c] \in {"revoking", "insert"}
      BY DEF HeldUpBy
    <2>2. inserting[d] => Left(d) = 0
      BY <2>1, LeftByPlace DEF IInv, LocalsAreOpen
    <2>3. revoking[d] # {} => Left(d) \in {0, 1}
      BY <2>1, LeftByPlace DEF IInv, LocalsAreOpen
    <2>4. CASE at[c] = "revoking"
      BY <2>1, <2>3, <2>4, LeftByPlace DEF HeldUpBy
    <2>5. CASE at[c] = "insert" /\ inserting[d]
      BY <2>1, <2>2, <2>5, LeftByPlace
    <2>6. CASE at[c] = "insert" /\ ~inserting[d]
      (* One active row at most: what d has revoked of c's tenant is all there is. *)
      <3>1. revoking[d] \cap LiveOf(TenantOf[c]) # {}
        BY <2>6 DEF HeldUpBy
      <3>2. PICK a \in revoking[d] : a \in LiveOf(TenantOf[c])
        BY <3>1
      <3>3. revoking[c] \subseteq {a} /\ a \notin revoking[c]
        BY <2>1, <3>2 DEF IInv, RowsAreLocked, OneActiveConnection, LiveOf
      <3>4. Left(c) = 2
        BY <2>6, <3>3, LeftByPlace
      <3> QED
        BY <2>3, <3>2, <3>4
    <2> QED
      BY <2>1, <2>4, <2>5, <2>6
  <1> QED
    BY <1>1, Invariance, PTL
=============================================================================

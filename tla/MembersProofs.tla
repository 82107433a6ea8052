---------------------------- MODULE MembersProofs ----------------------------
(* Proofs about Members, for any messages, whichever keys they carry, and     *)
(* any bounds.                                                                *)
EXTENDS Members, FiniteSetTheorems, TLAPS

-----------------------------------------------------------------------------
(* The inductive invariant. *)

Tenant == owner["tel"]

(* A tenant is only ever created on the number, and there is one at most.    *)
OneTenant ==
  /\ tenants = IF Tenant = NoTenant THEN {} ELSE {Tenant}
  /\ owner["uid"] \in {NoTenant, Tenant}

Enrolling == {"create"} \cup InTransaction

EnrolledByNumber == \A m \in Messages : at[m] \in Enrolling => "tel" \in Carries[m]

(* One transaction at most is creating the tenant, and only while there is  *)
(* none.                                                                    *)
OneCreator ==
  \A m \in new :
    /\ at[m] \in {"mark", "commit"}
    /\ found[m] = m
    /\ Tenant = NoTenant
    /\ \A n \in new : n = m

FoundIsTheTenant ==
  \A m \in Messages :
    at[m] \in {"link", "served"} \/ (at[m] \in {"mark", "commit"} /\ m \notin new) =>
      found[m] = Tenant /\ Tenant # NoTenant

(* The open invite, and who holds it. *)
OneInvite ==
  /\ \A i, j \in open : i = j
  /\ open \cap used = {} /\ open \cap revoked = {} /\ used \cap revoked = {}
  /\ used # {} => Tenant # NoTenant

OneCloser ==
  \A m \in Messages :
    /\ closing[m] \subseteq open
    /\ closing[m] # {} => at[m] = "commit" /\ \A n \in Messages \ {m} : closing[n] = {}

(* po-admin has an invite left to open. *)
RoomForOne == admin => \E i \in Invites : i \notin open \cup used \cup revoked

(* Who began invited, or a member, and lost no invite still is.              *)
HopesAreFounded ==
  \A m \in hopeful :
    /\ at[m] # "start"
    /\ "tel" \in Carries[m] =>
         /\ at[m] = "resolve_tel" => Tenant # NoTenant \/ Invited
         /\ at[m] = "invited" => Invited

IInv ==
  /\ TypeOK
  /\ OneTenant
  /\ EnrolledByNumber
  /\ OneCreator
  /\ FoundIsTheTenant
  /\ OneInvite
  /\ OneCloser
  /\ RoomForOne
  /\ HopesAreFounded
  /\ TurnedAwayForCause

-----------------------------------------------------------------------------
(* Lemmas about the operators. *)

Places == {"start", "resolve_tel", "invited", "create", "link"} \cup InTransaction \cup Ended

(* Whoever enrols has a number, which is the key the tenant is created on.   *)
LEMMA CreatedOnTheNumber ==
  ASSUME EnrolledByNumber, NEW m \in Messages, at[m] \in Enrolling PROVE First(m) = "tel"
  BY DEF EnrolledByNumber, First

LEMMA InitIInv == Init => IInv
  <1> SUFFICES ASSUME Init PROVE IInv
    OBVIOUS
  <1>1. TypeOK
    <2>1. open \cup used \cup revoked \subseteq Invites
      BY ConstantsAssumption DEF Init, Invites
    <2>2. aborts \in 0..MaxAborts
      BY ConstantsAssumption DEF Init
    <2> QED
      BY <2>1, <2>2 DEF Init, TypeOK, Keys, NoTenant, InTransaction, Ended
  <1>2. OneTenant
    BY DEF Init, OneTenant, Tenant, Keys
  <1>3. EnrolledByNumber /\ FoundIsTheTenant /\ TurnedAwayForCause
    BY DEF Init, EnrolledByNumber, FoundIsTheTenant, TurnedAwayForCause, Enrolling, InTransaction
  <1>4. OneCreator /\ OneInvite /\ OneCloser /\ RoomForOne /\ HopesAreFounded
    BY DEF Init, OneCreator, OneInvite, OneCloser, RoomForOne, HopesAreFounded
  <1> QED
    BY <1>1, <1>2, <1>3, <1>4 DEF IInv

-----------------------------------------------------------------------------
(* A step of one run that writes no table and takes no lock.                 *)
LEMMA StepOfLookup ==
  ASSUME IInv, NEW m \in Messages, NEW place \in Places \ {"start", "commit"},
         at' = [at EXCEPT ![m] = place],
         at[m] \in {"start", "resolve_tel", "invited", "create"},
         NEW t \in Messages \cup {NoTenant}, found' = [found EXCEPT ![m] = t],
         hopeful' \in {hopeful, hopeful \cup {m}},
         m \in hopeful' \ hopeful => place \in {"resolve_tel", "link"},
         place \in Enrolling => "tel" \in Carries[m],
         place \in {"link", "served", "mark"} => t = Tenant /\ Tenant # NoTenant,
         m \in hopeful' /\ "tel" \in Carries[m] =>
           /\ place = "resolve_tel" => Tenant # NoTenant \/ Invited
           /\ place = "invited" => Invited
           /\ place # "away",
         UNCHANGED <<listed, tables, new, closing, admin, aborts>>
  PROVE  IInv'
  <1> USE DEF IInv, tables
  <1>1. TypeOK'
    BY DEF TypeOK, Places
  <1>2. at'[m] = place /\ found'[m] = t
    BY DEF TypeOK
  <1>3. \A n \in Messages : n # m => at'[n] = at[n] /\ found'[n] = found[n]
    BY DEF TypeOK
  <1>4. OneTenant' /\ OneInvite' /\ RoomForOne'
    BY DEF OneTenant, Tenant, OneInvite, RoomForOne
  <1>5. EnrolledByNumber'
    BY <1>2, <1>3 DEF EnrolledByNumber
  <1>6. m \notin new /\ closing[m] = {}
    BY DEF OneCreator, OneCloser
  <1>7. OneCreator'
    BY <1>3, <1>6 DEF OneCreator, Tenant, TypeOK
  <1>8. FoundIsTheTenant'
    BY <1>2, <1>3 DEF FoundIsTheTenant, Tenant
  <1>9. OneCloser'
    BY <1>2, <1>3, <1>6 DEF OneCloser
  <1>10. HopesAreFounded'
    BY <1>2, <1>3 DEF HopesAreFounded, Tenant, Invited, TypeOK
  <1>11. TurnedAwayForCause'
    BY <1>2, <1>3 DEF TurnedAwayForCause
  <1> QED
    BY <1>1, <1>4, <1>5, <1>7, <1>8, <1>9, <1>10, <1>11

LEMMA StepBegin == ASSUME IInv, NEW m \in Messages, Begin(m) PROVE IInv'
  <1>1. /\ at[m] = "start" /\ UNCHANGED <<listed, tables, new, closing, admin, aborts>>
        /\ hopeful' = IF Member \/ Invited THEN hopeful \cup {m} ELSE hopeful
        /\ hopeful' \in {hopeful, hopeful \cup {m}}
    BY DEF Begin
  <1>2. Member => Tenant # NoTenant
    BY DEF Member, IInv, OneTenant, Tenant
  <1>3. m \in hopeful' => Tenant # NoTenant \/ Invited
    BY <1>1, <1>2 DEF IInv, HopesAreFounded
  <1>4. CASE Matched(m, "uid")
    <2>1. owner["uid"] = Tenant /\ Tenant # NoTenant /\ Tenant \in Messages \cup {NoTenant}
      BY <1>4 DEF Matched, IInv, TypeOK, OneTenant, Tenant, Keys
    <2>2. at' = [at EXCEPT ![m] = "link"] /\ found' = [found EXCEPT ![m] = Tenant]
      BY <1>4, <2>1 DEF Begin, Go
    <2>3. "link" \in Places \ {"start", "commit"} /\ "link" \notin Enrolling
      BY DEF Places, Enrolling, InTransaction
    <2> QED
      BY <1>1, <2>1, <2>2, <2>3, StepOfLookup
  <1>5. CASE ~Matched(m, "uid")
    <2>1. at' = [at EXCEPT ![m] = "resolve_tel"] /\ found' = [found EXCEPT ![m] = found[m]]
      BY <1>5 DEF Begin, Go, IInv, TypeOK
    <2>2. /\ "resolve_tel" \in Places \ {"start", "commit"} /\ "resolve_tel" \notin Enrolling
          /\ found[m] \in Messages \cup {NoTenant}
      BY DEF Places, Enrolling, InTransaction, IInv, TypeOK
    <2> QED
      BY <1>1, <1>3, <2>1, <2>2, StepOfLookup
  <1> QED
    BY <1>4, <1>5

LEMMA StepResolveTel == ASSUME IInv, NEW m \in Messages, ResolveTel(m) PROVE IInv'
  <1>1. /\ at[m] = "resolve_tel"
        /\ UNCHANGED <<listed, tables, new, closing, admin, aborts>> /\ hopeful' = hopeful
    BY DEF ResolveTel
  <1>2. CASE Matched(m, "tel")
    <2>1. Tenant # NoTenant /\ Tenant \in Messages \cup {NoTenant}
      BY <1>2 DEF Matched, IInv, TypeOK, Tenant, Keys
    <2>2. at' = [at EXCEPT ![m] = "link"] /\ found' = [found EXCEPT ![m] = Tenant]
      BY <1>2 DEF ResolveTel, Go, Tenant
    <2>3. "link" \in Places \ {"start", "commit"} /\ "link" \notin Enrolling
      BY DEF Places, Enrolling, InTransaction
    <2> QED
      BY <1>1, <2>1, <2>2, <2>3, StepOfLookup
  <1>3. CASE ~Matched(m, "tel")
    <2>1. at' = [at EXCEPT ![m] = "invited"] /\ found' = [found EXCEPT ![m] = found[m]]
      BY <1>3 DEF ResolveTel, Go, IInv, TypeOK
    <2>2. /\ "invited" \in Places \ {"start", "commit"} /\ "invited" \notin Enrolling
          /\ found[m] \in Messages \cup {NoTenant}
      BY DEF Places, Enrolling, InTransaction, IInv, TypeOK
    <2>3. m \in hopeful /\ "tel" \in Carries[m] => Invited
      BY <1>1, <1>3 DEF Matched, Tenant, IInv, HopesAreFounded
    <2> QED
      BY <1>1, <2>1, <2>2, <2>3, StepOfLookup
  <1> QED
    BY <1>2, <1>3

LEMMA StepAskInvite == ASSUME IInv, NEW m \in Messages, AskInvite(m) PROVE IInv'
  <1>1. /\ at[m] = "invited" /\ hopeful' = hopeful
        /\ UNCHANGED <<listed, tables, new, closing, admin, aborts>>
        /\ found' = [found EXCEPT ![m] = found[m]] /\ found[m] \in Messages \cup {NoTenant}
    BY DEF AskInvite, IInv, TypeOK
  <1>2. m \in hopeful /\ "tel" \in Carries[m] => Invited
    BY <1>1 DEF IInv, HopesAreFounded
  <1>3. CASE "tel" \in Carries[m] /\ Invited
    <2>1. at' = [at EXCEPT ![m] = "create"]
      BY <1>3 DEF AskInvite, Go
    <2>2. "create" \in Places \ {"start", "commit"}
      BY DEF Places
    <2> QED
      BY <1>1, <1>3, <2>1, <2>2, StepOfLookup
  <1>4. CASE ~("tel" \in Carries[m] /\ Invited)
    <2>1. at' = [at EXCEPT ![m] = "away"]
      BY <1>4 DEF AskInvite, Go
    <2>2. "away" \in Places \ {"start", "commit"} /\ "away" \notin Enrolling
      BY DEF Places, Ended, Enrolling, InTransaction
    <2> QED
      BY <1>1, <1>2, <1>4, <2>1, <2>2, StepOfLookup
  <1> QED
    BY <1>3, <1>4

LEMMA StepCreateFast == ASSUME IInv, NEW m \in Messages, CreateFast(m) PROVE IInv'
  <1>1. /\ at[m] = "create" /\ hopeful' = hopeful
        /\ UNCHANGED <<listed, tables, new, closing, admin, aborts>>
    BY DEF CreateFast
  <1>2. "tel" \in Carries[m] /\ First(m) = "tel"
    BY <1>1, CreatedOnTheNumber DEF IInv, EnrolledByNumber, Enrolling
  <1>3. CASE Tenant # NoTenant
    <2>1. at' = [at EXCEPT ![m] = "mark"] /\ found' = [found EXCEPT ![m] = Tenant]
      BY <1>2, <1>3 DEF CreateFast, Go, Tenant
    <2>2. "mark" \in Places \ {"start", "commit"} /\ Tenant \in Messages \cup {NoTenant}
      BY DEF Places, InTransaction, IInv, TypeOK, Tenant, Keys
    <2> QED
      BY <1>1, <1>2, <1>3, <2>1, <2>2, StepOfLookup
  <1>4. CASE Tenant = NoTenant
    <2>1. at' = [at EXCEPT ![m] = "insert"] /\ found' = [found EXCEPT ![m] = found[m]]
      BY <1>2, <1>4 DEF CreateFast, Go, Tenant, IInv, TypeOK
    <2>2. "insert" \in Places \ {"start", "commit"} /\ found[m] \in Messages \cup {NoTenant}
      BY DEF Places, InTransaction, IInv, TypeOK
    <2> QED
      BY <1>1, <1>2, <2>1, <2>2, StepOfLookup
  <1> QED
    BY <1>3, <1>4

-----------------------------------------------------------------------------
(* The transaction of enrol. *)

(* An INSERT that finds no tenant waited for whoever was creating one.       *)
LEMMA StepCreateSlow == ASSUME IInv, NEW m \in Messages, CreateSlow(m) PROVE IInv'
  <1> USE DEF IInv, tables
  <1>0. /\ at[m] = "insert" /\ at' = [at EXCEPT ![m] = "mark"]
        /\ UNCHANGED <<listed, tables, closing, admin, aborts, hopeful>>
    BY DEF CreateSlow, Go
  <1>1. "tel" \in Carries[m] /\ First(m) = "tel"
    BY <1>0, CreatedOnTheNumber DEF EnrolledByNumber, Enrolling, InTransaction
  <1>2. \/ Tenant = NoTenant /\ new' = new \cup {m} /\ found' = [found EXCEPT ![m] = m]
        \/ Tenant # NoTenant /\ new' = new /\ found' = [found EXCEPT ![m] = Tenant]
    BY <1>1 DEF CreateSlow, Tenant
  <1>3. m \notin new /\ closing[m] = {}
    BY <1>0 DEF OneCreator, OneCloser
  <1>4. new = {}
    <2>1. \A n \in new : n # m /\ n \in Messages /\ at[n] \in Enrolling
      BY <1>3 DEF OneCreator, Enrolling, InTransaction, TypeOK
    <2>2. \A n \in new : First(n) = "tel"
      BY <2>1, CreatedOnTheNumber
    <2> QED
      BY <1>1, <2>1, <2>2 DEF CreateSlow, HeldUpBy, TypeOK
  <1>5. at'[m] = "mark" /\ \A n \in Messages : n # m => at'[n] = at[n] /\ found'[n] = found[n]
    BY <1>0, <1>2 DEF TypeOK
  <1>6. found'[m] = IF Tenant = NoTenant THEN m ELSE Tenant
    BY <1>2 DEF TypeOK
  <1>7. TypeOK'
    BY <1>0, <1>2 DEF TypeOK, Tenant, Keys, InTransaction
  <1>8. OneTenant' /\ OneInvite' /\ RoomForOne'
    BY <1>0 DEF OneTenant, Tenant, OneInvite, RoomForOne
  <1>9. EnrolledByNumber'
    BY <1>1, <1>5 DEF EnrolledByNumber
  <1>10. OneCreator'
    BY <1>0, <1>2, <1>4, <1>5, <1>6 DEF OneCreator, Tenant
  <1>11. FoundIsTheTenant'
    <2> SUFFICES ASSUME NEW n \in Messages,
                        \/ at'[n] \in {"link", "served"}
                        \/ at'[n] \in {"mark", "commit"} /\ n \notin new'
                 PROVE  found'[n] = Tenant /\ Tenant # NoTenant
      BY <1>0 DEF FoundIsTheTenant, Tenant
    <2>1. CASE n = m
      BY <1>2, <1>5, <1>6, <2>1
    <2>2. CASE n # m
      BY <1>2, <1>5, <2>2 DEF FoundIsTheTenant
    <2> QED
      BY <2>1, <2>2
  <1>12. OneCloser'
    BY <1>0, <1>3, <1>5 DEF OneCloser
  <1>13. HopesAreFounded' /\ TurnedAwayForCause'
    BY <1>0, <1>5 DEF HopesAreFounded, TurnedAwayForCause, Tenant, Invited, TypeOK
  <1> QED
    BY <1>7, <1>8, <1>9, <1>10, <1>11, <1>12, <1>13

LEMMA StepMarkUsed == ASSUME IInv, NEW m \in Messages, MarkUsed(m) PROVE IInv'
  <1> USE DEF IInv, tables
  <1>0. /\ at[m] = "mark" /\ at' = [at EXCEPT ![m] = "commit"]
        /\ closing' = [closing EXCEPT ![m] = open]
        /\ \A n \in Messages \ {m} : closing[n] = {}
        /\ UNCHANGED <<listed, tables, found, new, admin, aborts, hopeful>>
    BY DEF MarkUsed, Go, HeldUpBy
  <1>1. at'[m] = "commit" /\ \A n \in Messages : n # m => at'[n] = at[n]
    BY <1>0 DEF TypeOK
  <1>2. closing'[m] = open /\ \A n \in Messages : n # m => closing'[n] = {}
    BY <1>0 DEF TypeOK
  <1>3. TypeOK'
    <2>1. closing' \in [Messages -> SUBSET Invites]
      BY <1>0 DEF TypeOK
    <2> QED
      BY <1>0, <2>1 DEF TypeOK, InTransaction
  <1>4. OneTenant' /\ OneInvite' /\ RoomForOne'
    BY <1>0 DEF OneTenant, Tenant, OneInvite, RoomForOne
  <1>5. EnrolledByNumber'
    BY <1>0, <1>1 DEF EnrolledByNumber, Enrolling, InTransaction
  <1>6. OneCreator'
    BY <1>0, <1>1 DEF OneCreator, Tenant, TypeOK
  <1>7. FoundIsTheTenant'
    BY <1>0, <1>1 DEF FoundIsTheTenant, Tenant
  <1>8. OneCloser'
    BY <1>0, <1>1, <1>2 DEF OneCloser
  <1>9. HopesAreFounded' /\ TurnedAwayForCause'
    BY <1>0, <1>1 DEF HopesAreFounded, TurnedAwayForCause, Tenant, Invited, TypeOK
  <1> QED
    BY <1>3, <1>4, <1>5, <1>6, <1>7, <1>8, <1>9

(* Tenant, identity and the end of the invite, all at once.                  *)
LEMMA StepCommit == ASSUME IInv, NEW m \in Messages, Commit(m) PROVE IInv'
  <1> USE DEF IInv
  <1>0. /\ at[m] = "commit" /\ at' = [at EXCEPT ![m] = "link"]
        /\ tenants' = tenants \cup ({m} \cap new)
        /\ open' = open \ closing[m] /\ used' = used \cup closing[m]
        /\ hopeful' = Hopeless(closing[m])
        /\ new' = new \ {m} /\ closing' = [closing EXCEPT ![m] = {}]
        /\ UNCHANGED <<listed, revoked, found, admin, aborts>>
    BY DEF Commit, Go, TenantRow
  <1>1. First(m) = "tel"
    BY <1>0, CreatedOnTheNumber DEF Enrolling, InTransaction
  <1>2. owner' = IF m \in new THEN [owner EXCEPT !["tel"] = m] ELSE owner
    BY <1>1 DEF Commit
  <1>3. at'[m] = "link" /\ \A n \in Messages : n # m => at'[n] = at[n]
    BY <1>0 DEF TypeOK
  <1>4. closing'[m] = {} /\ \A n \in Messages : n # m => closing'[n] = closing[n]
    BY <1>0 DEF TypeOK
  <1>5. m # NoTenant /\ closing[m] \subseteq open
    BY ConstantsAssumption DEF OneCloser, NoTenant
  <1>6. /\ owner'["tel"] = IF m \in new THEN m ELSE owner["tel"]
        /\ owner'["uid"] = owner["uid"]
        /\ DOMAIN owner' = Keys
    BY <1>2 DEF TypeOK, Keys
  <1>7. m \in new => tenants = {} /\ Tenant = NoTenant /\ owner["uid"] = NoTenant /\ found[m] = m
    BY DEF OneCreator, OneTenant
  <1>8. Tenant' # NoTenant
    <2>1. m \notin new => Tenant # NoTenant
      BY <1>0 DEF FoundIsTheTenant
    <2> QED
      BY <1>5, <1>6, <2>1 DEF Tenant
  <1>9. TypeOK'
    <2>1. tenants' \subseteq Messages
      BY <1>0 DEF TypeOK
    <2>2. owner' \in [Keys -> tenants' \cup {NoTenant}]
      BY <1>0, <1>2 DEF TypeOK
    <2>3. open' \cup used' \cup revoked' \subseteq Invites
      BY <1>0, <1>5 DEF TypeOK
    <2>4. hopeful' \subseteq Messages
      BY <1>0 DEF TypeOK, Hopeless
    <2> QED
      BY <1>0, <2>1, <2>2, <2>3, <2>4 DEF TypeOK
  <1>10. OneTenant'
    <2>1. CASE m \in new
      BY <1>0, <1>5, <1>6, <1>7, <2>1 DEF OneTenant, Tenant
    <2>2. CASE m \notin new
      <3>1. tenants' = tenants /\ owner' = owner
        BY <1>0, <1>2, <2>2
      <3> QED
        BY <3>1 DEF OneTenant, Tenant
    <2> QED
      BY <2>1, <2>2
  <1>11. EnrolledByNumber'
    BY <1>3 DEF EnrolledByNumber, Enrolling, InTransaction
  <1>12. OneCreator'
    <2>1. m \in new => new' = {}
      BY <1>0 DEF OneCreator
    <2>2. m \notin new => new' = new /\ owner' = owner
      BY <1>0, <1>2
    <2> QED
      BY <1>0, <1>3, <2>1, <2>2 DEF OneCreator, Tenant, TypeOK
  <1>13. FoundIsTheTenant'
    <2> SUFFICES ASSUME NEW n \in Messages,
                        \/ at'[n] \in {"link", "served"}
                        \/ at'[n] \in {"mark", "commit"} /\ n \notin new'
                 PROVE  found[n] = Tenant'
      BY <1>0, <1>8 DEF FoundIsTheTenant
    <2>1. CASE n = m
      <3>1. found[m] = IF m \in new THEN m ELSE Tenant
        BY <1>0, <1>7 DEF FoundIsTheTenant
      <3> QED
        BY <1>6, <2>1, <3>1 DEF Tenant
    <2>2. CASE n # m
      <3>1. found[n] = Tenant /\ Tenant # NoTenant
        BY <1>0, <1>3, <2>2 DEF FoundIsTheTenant
      <3> QED
        BY <1>6, <1>7, <3>1 DEF Tenant
    <2> QED
      BY <2>1, <2>2
  <1>14. OneInvite'
    BY <1>0, <1>5, <1>8 DEF OneInvite
  <1>15. OneCloser'
    <2> SUFFICES ASSUME NEW n \in Messages
                 PROVE  /\ closing'[n] \subseteq open'
                        /\ closing'[n] # {} =>
                             at'[n] = "commit" /\ \A k \in Messages \ {n} : closing'[k] = {}
      BY DEF OneCloser
    <2>1. CASE n # m /\ closing[n] # {}
      <3>1. closing[m] = {} /\ open' = open
        BY <1>0, <2>1 DEF OneCloser
      <3> QED
        BY <1>3, <1>4, <2>1, <3>1 DEF OneCloser
    <2>2. CASE n = m \/ closing[n] = {}
      BY <1>4, <2>2
    <2> QED
      BY <2>1, <2>2
  <1>16. RoomForOne'
    BY <1>0, <1>5 DEF RoomForOne
  <1>17. HopesAreFounded' /\ TurnedAwayForCause'
    <2>1. CASE closing[m] = {}
      <3>1. open' = open /\ hopeful' = hopeful
        BY <1>0, <2>1 DEF Hopeless
      <3> QED
        BY <1>0, <1>3, <1>8, <3>1 DEF HopesAreFounded, TurnedAwayForCause, Invited, TypeOK
    <2>2. CASE closing[m] # {}
      <3>1. hopeful' = {}
        BY <1>0, <2>2 DEF Hopeless
      <3> QED
        BY <3>1 DEF HopesAreFounded, TurnedAwayForCause
    <2> QED
      BY <2>1, <2>2
  <1> QED
    BY <1>9, <1>10, <1>11, <1>12, <1>13, <1>14, <1>15, <1>16, <1>17

(* What is linked is the tenant's: whoever links found it.                   *)
LEMMA StepLink == ASSUME IInv, NEW m \in Messages, Link(m) PROVE IInv'
  <1> USE DEF IInv
  <1>0. /\ at[m] = "link" /\ at' = [at EXCEPT ![m] = "served"]
        /\ owner' = [k \in Keys |-> IF k \in Linked(m) THEN found[m] ELSE owner[k]]
        /\ UNCHANGED <<listed, tenants, open, used, revoked, found, new, closing, admin,
                       aborts, hopeful>>
    BY DEF Link, Go
  <1>1. found[m] = Tenant /\ Tenant # NoTenant
    BY <1>0 DEF FoundIsTheTenant
  <1>2. /\ owner'["tel"] = Tenant /\ owner'["uid"] \in {owner["uid"], Tenant}
        /\ owner' \in [Keys -> tenants \cup {NoTenant}]
    BY <1>0, <1>1 DEF Linked, Tenant, Keys, TypeOK
  <1>3. at'[m] = "served" /\ \A n \in Messages : n # m => at'[n] = at[n]
    BY <1>0 DEF TypeOK
  <1>4. Tenant' = Tenant
    BY <1>2 DEF Tenant
  <1> HIDE DEF Tenant
  <1>5. TypeOK'
    BY <1>0, <1>2 DEF TypeOK, Ended
  <1>6. OneTenant'
    BY <1>0, <1>2, <1>4 DEF OneTenant
  <1>7. EnrolledByNumber'
    BY <1>3 DEF EnrolledByNumber, Enrolling, InTransaction
  <1>8. OneCreator'
    BY <1>0, <1>1, <1>4 DEF OneCreator
  <1>9. FoundIsTheTenant'
    BY <1>0, <1>1, <1>3, <1>4 DEF FoundIsTheTenant
  <1>10. OneInvite' /\ RoomForOne'
    BY <1>0, <1>4 DEF OneInvite, RoomForOne
  <1>11. OneCloser'
    BY <1>0, <1>3 DEF OneCloser
  <1>12. HopesAreFounded' /\ TurnedAwayForCause'
    BY <1>0, <1>3, <1>4 DEF HopesAreFounded, TurnedAwayForCause, Invited, TypeOK
  <1> QED
    BY <1>5, <1>6, <1>7, <1>8, <1>9, <1>10, <1>11, <1>12

LEMMA StepAbort == ASSUME IInv, NEW m \in Messages, Abort(m) PROVE IInv'
  <1> USE DEF IInv
  <1>0. /\ at[m] \notin {"start"} \cup Ended /\ at' = [at EXCEPT ![m] = "start"]
        /\ aborts < MaxAborts /\ aborts' = aborts + 1
        /\ new' = new \ {m} /\ closing' = [closing EXCEPT ![m] = {}]
        /\ found' = [found EXCEPT ![m] = NoTenant] /\ hopeful' = hopeful \ {m}
        /\ UNCHANGED <<listed, owner, tenants, open, used, revoked, admin>>
    BY DEF Abort, RollBack, Go
  <1>1. /\ at'[m] = "start" /\ closing'[m] = {}
        /\ \A n \in Messages : n # m =>
             at'[n] = at[n] /\ found'[n] = found[n] /\ closing'[n] = closing[n]
    BY <1>0 DEF TypeOK
  <1>2. TypeOK'
    <2>1. aborts' \in 0..MaxAborts
      BY <1>0, ConstantsAssumption DEF TypeOK
    <2>2. closing' \in [Messages -> SUBSET Invites]
      BY <1>0 DEF TypeOK
    <2> QED
      BY <1>0, <2>1, <2>2 DEF TypeOK
  <1>3. OneTenant' /\ OneInvite' /\ RoomForOne'
    BY <1>0 DEF OneTenant, Tenant, OneInvite, RoomForOne
  <1>4. EnrolledByNumber'
    BY <1>1 DEF EnrolledByNumber, Enrolling, InTransaction
  <1>5. OneCreator'
    BY <1>0, <1>1 DEF OneCreator, Tenant, TypeOK
  <1>6. FoundIsTheTenant'
    BY <1>0, <1>1 DEF FoundIsTheTenant, Tenant
  <1>7. OneCloser'
    BY <1>0, <1>1 DEF OneCloser
  <1>8. HopesAreFounded' /\ TurnedAwayForCause'
    BY <1>0, <1>1 DEF HopesAreFounded, TurnedAwayForCause, Tenant, Invited, TypeOK
  <1> QED
    BY <1>2, <1>3, <1>4, <1>5, <1>6, <1>7, <1>8

-----------------------------------------------------------------------------
(* po-admin. *)

LEMMA InviteLeft ==
  ASSUME NEW taken \in SUBSET Invites, Cardinality(taken) < MaxInvites
  PROVE  \E i \in Invites : i \notin taken
  <1>1. Cardinality(Invites) = MaxInvites
    <2>1. Cardinality(1 .. MaxInvites) = IF 1 > MaxInvites THEN 0 ELSE MaxInvites - 1 + 1
      <3>1. 1 \in Int /\ MaxInvites \in Int
        BY ConstantsAssumption
      <3> QED
        BY <3>1, FS_Interval
    <2> QED
      BY <2>1, ConstantsAssumption DEF Invites
  <1>2. taken # Invites
    BY <1>1, ConstantsAssumption
  <1> QED
    BY <1>2

LEMMA StepInviteRead == ASSUME IInv, InviteRead PROVE IInv'
  <1> USE DEF IInv
  <1>0. /\ Cardinality(open \cup used \cup revoked) < MaxInvites /\ admin' = TRUE
        /\ UNCHANGED <<listed, owner, tenants, open, used, revoked, at, found, new, closing,
                       aborts, hopeful>>
    BY DEF InviteRead, tables
  <1>1. RoomForOne'
    BY <1>0, InviteLeft DEF RoomForOne, TypeOK
  <1>2. TypeOK'
    BY <1>0 DEF TypeOK
  <1>3. OneTenant' /\ EnrolledByNumber' /\ OneCreator' /\ FoundIsTheTenant'
    BY <1>0 DEF OneTenant, EnrolledByNumber, OneCreator, FoundIsTheTenant, Tenant
  <1>4. OneInvite' /\ OneCloser' /\ HopesAreFounded' /\ TurnedAwayForCause'
    BY <1>0 DEF OneInvite, OneCloser, HopesAreFounded, TurnedAwayForCause, Tenant, Invited
  <1> QED
    BY <1>1, <1>2, <1>3, <1>4

LEMMA StepInviteWrite == ASSUME IInv, InviteWrite PROVE IInv'
  <1> USE DEF IInv
  <1>0. /\ admin /\ admin' = FALSE
        /\ \A m \in Messages : closing[m] = {}
        /\ UNCHANGED <<listed, owner, tenants, used, revoked, at, found, new, closing, aborts,
                       hopeful>>
    BY DEF InviteWrite, InviteIsFree
  <1>1. \/ open' = open
        \/ \E i \in Invites \ (open \cup used \cup revoked) : open = {} /\ open' = {i}
    BY <1>0 DEF InviteWrite, MayOpen, RoomForOne
  <1>2. Invited => Invited'
    BY <1>0, <1>1 DEF Invited
  <1>3. TypeOK'
    BY <1>0, <1>1 DEF TypeOK
  <1>4. OneTenant' /\ EnrolledByNumber' /\ OneCreator' /\ FoundIsTheTenant'
    BY <1>0 DEF OneTenant, EnrolledByNumber, OneCreator, FoundIsTheTenant, Tenant
  <1>5. OneInvite'
    BY <1>0, <1>1 DEF OneInvite, Tenant
  <1>6. OneCloser' /\ RoomForOne'
    BY <1>0 DEF OneCloser, RoomForOne
  <1>7. HopesAreFounded' /\ TurnedAwayForCause'
    BY <1>0, <1>2 DEF HopesAreFounded, TurnedAwayForCause, Tenant
  <1> QED
    BY <1>3, <1>4, <1>5, <1>6, <1>7

LEMMA StepRevoke == ASSUME IInv, Revoke PROVE IInv'
  <1> USE DEF IInv
  <1>0. /\ \A m \in Messages : closing[m] = {}
        /\ revoked' = revoked \cup open /\ open' = {} /\ hopeful' = {}
        /\ UNCHANGED <<listed, owner, tenants, used, at, found, new, closing, admin, aborts>>
    BY DEF Revoke, InviteIsFree, Hopeless
  <1>1. TypeOK'
    BY <1>0 DEF TypeOK
  <1>2. OneTenant' /\ EnrolledByNumber' /\ OneCreator' /\ FoundIsTheTenant'
    BY <1>0 DEF OneTenant, EnrolledByNumber, OneCreator, FoundIsTheTenant, Tenant
  <1>3. OneInvite' /\ OneCloser' /\ RoomForOne'
    BY <1>0 DEF OneInvite, OneCloser, RoomForOne, Tenant
  <1>4. HopesAreFounded' /\ TurnedAwayForCause'
    BY <1>0 DEF HopesAreFounded, TurnedAwayForCause
  <1> QED
    BY <1>1, <1>2, <1>3, <1>4

-----------------------------------------------------------------------------
LEMMA StepIInv == IInv /\ [Next]_vars => IInv'
  <1> SUFFICES ASSUME IInv, [Next]_vars PROVE IInv'
    OBVIOUS
  <1>1. CASE UNCHANGED vars
    BY <1>1 DEF vars, tables, IInv, TypeOK, OneTenant, EnrolledByNumber, OneCreator,
       FoundIsTheTenant, OneInvite, OneCloser, RoomForOne, HopesAreFounded,
       TurnedAwayForCause, Tenant, Invited
  <1> QED
    BY <1>1, StepBegin, StepResolveTel, StepAskInvite, StepCreateFast, StepCreateSlow,
       StepMarkUsed, StepCommit, StepLink, StepAbort, StepInviteRead, StepInviteWrite,
       StepRevoke DEF Next, Handle

(* The strengthening holds in every reachable state. *)
LEMMA Invariance == Spec => []IInv
  BY InitIInv, StepIInv, PTL DEF Spec

(* Every variable keeps its type, for any messages, keys and bounds.         *)
THEOREM TypeCorrect == Spec => []TypeOK
  <1>1. IInv => TypeOK
    BY DEF IInv
  <1> QED
    BY <1>1, Invariance, PTL

(* "Two first messages racing on different channels must meet": however many *)
(* runs of whichever keys overlap and break off, one person is one tenant.   *)
THEOREM OneTenantEach == Spec => []OnePersonOneTenant
  <1>1. IInv => OnePersonOneTenant
    <2> SUFFICES ASSUME IInv PROVE OnePersonOneTenant
      OBVIOUS
    <2>1. \A m, n \in Messages : at[m] = "served" /\ at[n] = "served" => found[m] = found[n]
      BY DEF IInv, FoundIsTheTenant
    <2>2. \A k, l \in Keys : NoTenant \notin {owner[k], owner[l]} => owner[k] = owner[l]
      BY DEF IInv, OneTenant, Tenant, Keys
    <2>3. \A t \in tenants : \E k \in Keys : owner[k] = t
      BY DEF IInv, OneTenant, Tenant, Keys
    <2> QED
      BY <2>1, <2>2, <2>3 DEF OnePersonOneTenant
  <1> QED
    BY <1>1, Invariance, PTL

(* ADR 0006: one invite is open at most, and the end of one and the tenant   *)
(* it brings commit together.                                                *)
THEOREM InvitesEndOnce == Spec => []InvitesBringTheirs
  <1>1. IInv => InvitesBringTheirs
    <2> SUFFICES ASSUME IInv PROVE InvitesBringTheirs
      OBVIOUS
    <2>1. Cardinality(open) <= 1
      <3>1. CASE open = {}
        BY <3>1, FS_EmptySet
      <3>2. CASE open # {}
        <4>1. PICK i : open = {i}
          BY <3>2 DEF IInv, OneInvite
        <4>2. Cardinality(open) = 1
          BY <4>1, FS_Singleton, Zenon
        <4> QED
          BY <4>2
      <3> QED
        BY <3>1, <3>2
    <2> QED
      BY <2>1 DEF IInv, OneInvite, Tenant, InvitesBringTheirs
  <1> QED
    BY <1>1, Invariance, PTL

(* Nobody who was invited, or a member, when their message's run began is    *)
(* turned away, unless they lost the invite meanwhile or wrote without a     *)
(* number.                                                                   *)
THEOREM NobodyIsTurnedAwayWrongly == Spec => []TurnedAwayForCause
  <1>1. IInv => TurnedAwayForCause
    BY DEF IInv
  <1> QED
    BY <1>1, Invariance, PTL

(* No run waits, through others, for itself: two unique indexes and a lock   *)
(* never let the runs of one person deadlock, however many there are.        *)
THEOREM NoCircleOfWaits == Spec => []WaitsAreOrdered
  <1>1. IInv => WaitsAreOrdered
    <2> SUFFICES ASSUME IInv, NEW m \in Messages, NEW n \in HeldUpBy(m) PROVE Left(n) < Left(m)
      BY DEF WaitsAreOrdered
    <2>1. /\ n \in Messages
          /\ \/ at[m] \in {"insert", "link"} /\ n \in new
             \/ at[m] = "mark" /\ closing[n] # {}
      BY DEF HeldUpBy
    <2>2. \A k \in {m, n} :
            /\ at[k] = "commit" => Left(k) = 0
            /\ at[k] = "mark" => Left(k) = 1
            /\ at[k] \in {"insert", "link"} => Left(k) = 2
      BY Zenon DEF Left
    <2>3. CASE at[m] \in {"insert", "link"} /\ n \in new
      BY <2>2, <2>3 DEF IInv, OneCreator
    <2>4. CASE at[m] = "mark" /\ closing[n] # {}
      BY <2>1, <2>2, <2>4 DEF IInv, OneCloser
    <2> QED
      BY <2>1, <2>3, <2>4
  <1> QED
    BY <1>1, Invariance, PTL
=============================================================================

------------------------- MODULE InboundGateProofs -------------------------
(* Proofs about InboundGate, for any messages, channels, workers and bounds. *)
EXTENDS InboundGate, TLAPS

-----------------------------------------------------------------------------
(* The inductive invariant. What a finished message promises, a run that is  *)
(* about to finish it already has.                                           *)

(* A reply counts as soon as its row is settled; when a run at work was taken *)
(* for one that died, nothing is claimed of its message.                      *)
Made(m, kind) == m \in mistaken \/ Settled(m, kind)
Tried(m) == \E n \in Messages \ {m} : outbox[n]["invite_only"] # "none"

OnboardingKinds == {"welcome", "ask", "connect", "resend"}
Sending == {"send", "post", "record"}

(* A run only ever carries a reply that goes with its disposition .. *)
SendsMatch(w) ==
  run[w].at \in Sending =>
    \/ run[w].kind = "invite_only" /\ run[w].as = "stranger"
    \/ run[w].kind = "ack" /\ run[w].as = "allowed"
    \/ run[w].kind \in OnboardingKinds /\ run[w].as = "onboarding"

(* .. and has made it, or has a reason not to, before it finishes. *)
StrangerAnswered(w) ==
  run[w].at = "finish" =>
    \/ run[w].as = "stale"
    \/ run[w].as = "stranger" /\ (run[w].of \in numbered => Made(run[w].of, "invite_only"))
    \/ run[w].as = "stranger_muted" /\ Tried(run[w].of)

KnownAnswered(w) ==
  run[w].at = "finish_known" =>
    \/ run[w].as = "stale" /\ run[w].kind = "none"
    \/ /\ run[w].as = "allowed" /\ run[w].kind = "ack"
       /\ run[w].of \in numbered => Made(run[w].of, "ack")
    \/ /\ run[w].as = "onboarding" /\ run[w].kind \in OnboardingKinds
       /\ Made(run[w].of, run[w].kind)

(* Where a run only gets for a member, or for someone invited. *)
ServesInvited(w) ==
  invite = "never" =>
    /\ run[w].at \notin {"enrol", "load", "finish_known"}
    /\ run[w].at \in Sending => run[w].kind = "invite_only"

AcksConnected(w) == run[w].at \in Sending /\ run[w].kind = "ack" => bound

RunInv(w) ==
  SendsMatch(w) /\ StrangerAnswered(w) /\ KnownAnswered(w) /\ ServesInvited(w) /\ AcksConnected(w)

(* Between its claim and its record a run holds its row at "sending", and no *)
(* other run does, unless one of them was taken for dead. So nobody else     *)
(* unsettles what is settled.                                                *)
Working(w) == run[w].at \in {"post", "record"}
SameSend(v, w) == run[v].of = run[w].of /\ run[v].kind = run[w].kind

HoldsRow(w) ==
  Working(w) =>
    /\ run[w].of \in Messages /\ run[w].kind \in Kinds
    /\ run[w].of \in mistaken \/ outbox[run[w].of][run[w].kind] = "sending"
    /\ run[w].at = "record" => run[w].got \in Answers

Alone(v, w) ==
  v # w /\ Working(v) /\ Working(w) /\ SameSend(v, w) => run[w].of \in mistaken

RunsAMessage(w) == run[w].at # "idle" => run[w].of \in Messages

HoldInv ==
  \A w \in Workers : RunsAMessage(w) /\ HoldsRow(w) /\ \A v \in Workers : Alone(v, w)

(* A tenant comes of an invite, and is only active, or due to be, once bound. *)
TenantInv ==
  /\ invite = "never" => tenant = NobodyYet
  /\ tenant = "active" => bound
  /\ tenant # NobodyYet /\ step = "none" => bound
  /\ admin.writes # "nothing" => tenant # NobodyYet
  /\ admin.writes = "active" => bound
  /\ callback => tenant # NobodyYet

IInv ==
  /\ TypeOK
  /\ \A w \in Workers : RunInv(w)
  /\ HoldInv
  /\ TenantInv
  /\ ContentIsMovedOnce
  /\ ServedWereInvited
  /\ FinishedIsAnswered
  /\ StepIsOffered

-----------------------------------------------------------------------------
LEMMA InitIInv == Init => IInv
  <1> SUFFICES ASSUME Init PROVE IInv
    OBVIOUS
  <1> USE ConstantsAssumption DEF Init, Idle, NobodyYet
  <1>1. TypeOK
    <2>1. Idle \in RunState
      BY DEF RunState, Places
    <2>2. admin \in [writes : {"nothing", "onboarding", "active", "suspended"}, left : 0..MaxChanges]
      OBVIOUS
    <2>3. outbox \in [Messages -> [Kinds -> Statuses]]
      BY DEF Statuses
    <2>4. faults \in 0..MaxFaults
      OBVIOUS
    <2>5. /\ run \in [Workers -> RunState] /\ job \in [Messages -> {"todo", "done", "failed"}]
          /\ disposition \in [Messages -> Dispositions \cup {"open"}]
          /\ copies \in [Messages -> Nat]
      BY <2>1
    <2>6. /\ numbered \subseteq Messages /\ kept \subseteq Messages /\ old \subseteq Messages
          /\ mistaken \subseteq Messages
      OBVIOUS
    <2>7. bound \in BOOLEAN /\ offered \in BOOLEAN /\ callback \in BOOLEAN
      OBVIOUS
    <2> QED
      BY <2>2, <2>3, <2>4, <2>5, <2>6, <2>7 DEF TypeOK
  <1>2. (\A w \in Workers : RunInv(w)) /\ HoldInv
    BY DEF RunInv, SendsMatch, StrangerAnswered, KnownAnswered, ServesInvited, AcksConnected,
       Sending, HoldInv, RunsAMessage, HoldsRow, Alone, Working
  <1>3. TenantInv
    BY DEF TenantInv
  <1>4. ContentIsMovedOnce /\ ServedWereInvited /\ FinishedIsAnswered /\ StepIsOffered
    BY DEF ContentIsMovedOnce, ServedWereInvited, FinishedIsAnswered, StepIsOffered, Kinds
  <1> QED
    BY <1>1, <1>2, <1>3, <1>4 DEF IInv

LEMMA GoType ==
  ASSUME NEW w \in Workers, NEW place \in Places, run \in [Workers -> RunState], Go(w, place)
  PROVE  run' \in [Workers -> RunState]
  <1>1. [run[w] EXCEPT !.at = place] \in RunState
    BY DEF RunState
  <1> QED
    BY <1>1 DEF Go

LEMMA GoAsType ==
  ASSUME NEW w \in Workers, NEW place \in Places, NEW kind \in Kinds \cup {"none"},
         NEW as \in Dispositions \cup {"none"}, run \in [Workers -> RunState],
         GoAs(w, place, kind, as)
  PROVE  run' \in [Workers -> RunState]
  <1>1. [run[w] EXCEPT !.at = place, !.kind = kind, !.as = as] \in RunState
    BY DEF RunState
  <1> QED
    BY <1>1 DEF GoAs

LEMMA EndType ==
  ASSUME NEW w \in Workers, NEW outcomes \in SUBSET {"todo", "done", "failed"}, TypeOK,
         End(w, outcomes)
  PROVE  /\ run' \in [Workers -> RunState]
         /\ job' \in [Messages -> {"todo", "done", "failed"}]
  <1>1. Idle \in RunState
    BY DEF Idle, RunState, Places
  <1>2. run' \in [Workers -> RunState]
    BY <1>1 DEF End, TypeOK
  <1>3. PICK outcome \in outcomes :
          job' = [job EXCEPT ![run[w].of] = IF @ = "todo" THEN outcome ELSE @]
    BY DEF End
  <1>4. job' \in [Messages -> {"todo", "done", "failed"}]
    <2>1. ASSUME run[w].of \in Messages PROVE job[run[w].of] \in {"todo", "done", "failed"}
      BY <2>1 DEF TypeOK
    <2> QED
      BY <1>3, <2>1 DEF TypeOK
  <1> QED
    BY <1>2, <1>4

(* A step that leaves the tables and what is outside alone. *)
LEMMA RunTypeOK ==
  ASSUME TypeOK, UNCHANGED <<person, tenants, inbox, outbox, mistaken, outside>>,
         run' \in [Workers -> RunState], job' \in [Messages -> {"todo", "done", "failed"}],
         old' \subseteq Messages, offered' \in BOOLEAN, faults' \in 0..MaxFaults
  PROVE  TypeOK'
  BY DEF TypeOK, person, tenants, inbox, outside

(* .. and one that finishes a message, and may move the tenant's step. *)
LEMMA FinishTypeOK ==
  ASSUME TypeOK, NEW m \in Messages, NEW as \in Dispositions,
         UNCHANGED <<person, invite, tenant, bound, replies, old, faults, outside>>,
         disposition' = [disposition EXCEPT ![m] = as], kept' = kept \ {m},
         copies' = copies \/ copies' = [copies EXCEPT ![m] = @ + 1],
         zone' \in {zone, m}, step' \in {step, "connect"},
         run' \in [Workers -> RunState], job' \in [Messages -> {"todo", "done", "failed"}]
  PROVE  TypeOK'
  <1>1. /\ disposition' \in [Messages -> Dispositions \cup {"open"}]
        /\ kept' \subseteq Messages
    BY DEF TypeOK
  <1>2. copies' \in [Messages -> Nat]
    BY DEF TypeOK
  <1>3. zone' \in Messages \cup {0} /\ step' \in {"none", "zone", "connect"}
    BY DEF TypeOK
  <1> QED
    BY <1>1, <1>2, <1>3 DEF TypeOK, person, replies, outside

LEMMA DecisionType == \A m \in Messages : TypeOK => Decision(m) \in OnboardingKinds
  BY DEF Decision, TypeOK, Says, OnboardingKinds

(* The three steps of send_once. *)
LEMMA SendTypeOK ==
  ASSUME IInv, NEW m \in Messages, NEW w \in Workers, Claim(m, w) \/ Post(m, w) \/ Record(m, w)
  PROVE  TypeOK'
  <1>0. TypeOK /\ run \in [Workers -> RunState]
    BY DEF IInv, TypeOK
  <1>1. run[w].of = m /\ run[w].kind \in Kinds
    BY DEF Claim, Post, Record, At, IInv, RunInv, SendsMatch, Sending, OnboardingKinds, Kinds
  <1> USE <1>0, <1>1 DEF person, tenants, inbox, replies, outside
  <1>2. ASSUME NEW status \in Statuses, outbox' = [outbox EXCEPT ![m][run[w].kind] = status]
        PROVE  outbox' \in [Messages -> [Kinds -> Statuses]]
    BY <1>2 DEF TypeOK
  <1>3. CASE Claim(m, w)
    <2>1. run' \in [Workers -> RunState]
      BY <1>3, GoType DEF Claim, Replied, Places
    <2>2. outbox' \in [Messages -> [Kinds -> Statuses]]
      <3>1. \/ outbox' = [outbox EXCEPT ![m][run[w].kind] = "sending"]
            \/ outbox' = [outbox EXCEPT ![m][run[w].kind] = "unknown"]
            \/ outbox' = outbox
        BY <1>3 DEF Claim
      <3> QED
        BY <1>2, <3>1 DEF Statuses, SettledStatuses, TypeOK
    <2>3. mistaken' \subseteq Messages
      BY <1>3 DEF Claim, TypeOK
    <2> QED
      BY <1>3, <2>1, <2>2, <2>3 DEF Claim, TypeOK
  <1>4. CASE Post(m, w)
    <2>1. PICK answer \in Answers :
            /\ run' = [run EXCEPT ![w].at = "record", ![w].got = answer]
            /\ UNCHANGED faults \/ Fault
            /\ UNCHANGED offered \/ offered' = TRUE
      BY <1>4 DEF Post
    <2>2. [run[w] EXCEPT !.at = "record", !.got = answer] \in RunState
      BY DEF RunState, Places
    <2>3. faults' \in 0..MaxFaults
      BY <2>1, ConstantsAssumption DEF Fault, TypeOK
    <2>4. run' \in [Workers -> RunState]
      BY <2>1, <2>2
    <2>5. offered' \in BOOLEAN
      BY <2>1 DEF TypeOK
    <2>6. job' \in [Messages -> {"todo", "done", "failed"}] /\ old' \subseteq Messages
      BY <1>4 DEF Post, TypeOK
    <2> QED
      BY <1>4, <2>3, <2>4, <2>5, <2>6, RunTypeOK DEF Post
  <1>5. CASE Record(m, w)
    <2>1. run[w].got \in Answers
      BY <1>5 DEF Record, At, IInv, HoldInv, HoldsRow, Working
    <2>2. outbox' \in [Messages -> [Kinds -> Statuses]]
      BY <1>2, <1>5, <2>1 DEF Record, Answers, Statuses, SettledStatuses
    <2>3. run' \in [Workers -> RunState] /\ job' \in [Messages -> {"todo", "done", "failed"}]
      <3>1. CASE run[w].got = "pending"
        BY <1>5, <3>1, EndType DEF Record, Raises
      <3>2. CASE run[w].got # "pending"
        <4>1. [run[w] EXCEPT !.at = Replied(w), !.got = "none"] \in RunState
          BY DEF RunState, Places, Replied
        <4>2. run' = [run EXCEPT ![w].at = Replied(w), ![w].got = "none"] /\ job' = job
          BY <1>5, <3>2 DEF Record, Raises
        <4>3. run' \in [Workers -> RunState]
          BY <4>1, <4>2
        <4> QED
          BY <4>2, <4>3 DEF TypeOK
      <3> QED
        BY <3>1, <3>2
    <2> QED
      BY <1>5, <2>2, <2>3 DEF Record, TypeOK
  <1> QED
    BY <1>3, <1>4, <1>5

LEMMA StepTypeOK == IInv /\ [Next]_vars => TypeOK'
  <1> SUFFICES ASSUME IInv, [Next]_vars PROVE TypeOK'
    OBVIOUS
  <1>0. TypeOK /\ run \in [Workers -> RunState]
    BY DEF IInv, TypeOK
  <1> USE <1>0 DEF person, tenants, inbox, replies, outside
  <1>1. ASSUME NEW m \in Messages, NEW w \in Workers, Begin(m, w) PROVE TypeOK'
    <2>1. [at |-> "resolve", of |-> m, stale |-> m \in old', kind |-> "none", as |-> "none",
          got |-> "none"] \in RunState
      BY DEF RunState, Places
    <2>2. run' \in [Workers -> RunState]
      BY <1>1, <2>1 DEF Begin
    <2>3. job' \in [Messages -> {"todo", "done", "failed"}]
      BY <1>1 DEF Begin, TypeOK
    <2>4. old' \subseteq Messages
      BY <1>1 DEF Begin, TypeOK
    <2>5. faults' \in 0..MaxFaults /\ offered' \in BOOLEAN
      BY <1>1 DEF Begin, TypeOK
    <2> QED
      BY <1>1, <2>2, <2>3, <2>4, <2>5, RunTypeOK DEF Begin
  <1>2. ASSUME NEW m \in Messages, NEW w \in Workers, Resolve(m, w) PROVE TypeOK'
    <2>1. run' \in [Workers -> RunState]
      BY <1>2, GoType, GoAsType DEF Resolve, Places, Dispositions
    <2> QED
      BY <1>2, <2>1 DEF Resolve, TypeOK
  <1>3. ASSUME NEW m \in Messages, NEW w \in Workers, AskInvite(m, w) PROVE TypeOK'
    <2>1. run' \in [Workers -> RunState]
      BY <1>3, GoType DEF AskInvite, Places
    <2> QED
      BY <1>3, <2>1 DEF AskInvite, TypeOK
  <1>4. ASSUME NEW m \in Messages, NEW w \in Workers, Enrol(m, w) PROVE TypeOK'
    <2>1. run' \in [Workers -> RunState]
      BY <1>4, GoType DEF Enrol, Places
    <2> QED
      BY <1>4, <2>1 DEF Enrol, TypeOK
  <1>5. ASSUME NEW m \in Messages, NEW w \in Workers, LoadState(m, w) PROVE TypeOK'
    <2>1. Decision(m) \in Kinds
      BY DecisionType DEF Kinds, OnboardingKinds
    <2>2. run' \in [Workers -> RunState]
      BY <1>5, <2>1, GoType, GoAsType DEF LoadState, Places, Kinds, Dispositions
    <2> QED
      BY <1>5, <2>2 DEF LoadState, TypeOK
  <1>6. ASSUME NEW m \in Messages, NEW w \in Workers, TurnAway(m, w) PROVE TypeOK'
    <2>1. run' \in [Workers -> RunState]
      BY <1>6, GoAsType DEF TurnAway, Places, Kinds, Dispositions
    <2> QED
      BY <1>6, <2>1 DEF TurnAway, TypeOK
  <1>7. ASSUME NEW m \in Messages, NEW w \in Workers, Claim(m, w) \/ Post(m, w) \/ Record(m, w)
        PROVE TypeOK'
    BY <1>7, SendTypeOK
  <1>8. ASSUME NEW m \in Messages, NEW w \in Workers, Finish(m, w) PROVE TypeOK'
    <2>1. run[w].as \in Dispositions
      BY <1>8 DEF Finish, At, IInv, RunInv, StrangerAnswered, Dispositions
    <2>2. run' \in [Workers -> RunState] /\ job' \in [Messages -> {"todo", "done", "failed"}]
      BY <1>8, EndType DEF Finish, Committed
    <2> QED
      BY <1>8, <2>1, <2>2, FinishTypeOK DEF Finish
  <1>9. ASSUME NEW m \in Messages, NEW w \in Workers, FinishKnown(m, w) PROVE TypeOK'
    <2>1. run[w].as \in Dispositions
      BY <1>9 DEF FinishKnown, At, IInv, RunInv, KnownAnswered, Dispositions
    <2>2. run' \in [Workers -> RunState] /\ job' \in [Messages -> {"todo", "done", "failed"}]
      BY <1>9, EndType DEF FinishKnown, Committed
    <2>3. CASE Claimed(m)
      BY <1>9, <2>1, <2>2, <2>3, FinishTypeOK DEF FinishKnown
    <2>4. CASE ~Claimed(m)
      <3>1. /\ UNCHANGED <<person, tenants, inbox, outbox, mistaken, outside>>
            /\ UNCHANGED <<old, offered, faults>>
        BY <1>9, <2>4 DEF FinishKnown
      <3>2. old' \subseteq Messages /\ offered' \in BOOLEAN /\ faults' \in 0..MaxFaults
        BY <3>1 DEF TypeOK
      <3> QED
        BY <2>2, <3>1, <3>2, RunTypeOK
    <2> QED
      BY <2>3, <2>4
  <1>10. ASSUME NEW m \in Messages, NEW w \in Workers, Break(m, w) PROVE TypeOK'
    <2>1. run' \in [Workers -> RunState] /\ job' \in [Messages -> {"todo", "done", "failed"}]
      BY <1>10, EndType DEF Break
    <2>2. faults' \in 0..MaxFaults
      BY <1>10, ConstantsAssumption DEF Break, Fault, TypeOK
    <2> QED
      BY <1>10, <2>1, <2>2 DEF Break, TypeOK
  <1>11. ASSUME CheckTenant \/ Activate \/ GiveUp \/ RevokeInvite PROVE TypeOK'
    BY <1>11 DEF CheckTenant, Activate, GiveUp, RevokeInvite, TypeOK
  <1>12. ASSUME AdminRead \/ AdminWrite PROVE TypeOK'
    BY <1>12, ConstantsAssumption DEF AdminRead, AdminWrite, Restored, TypeOK, NobodyYet
  <1>13. ASSUME UNCHANGED vars PROVE TypeOK'
    BY <1>13 DEF vars, TypeOK
  <1> QED
    BY <1>1, <1>2, <1>3, <1>4, <1>5, <1>6, <1>7, <1>8, <1>9, <1>10, <1>11, <1>12, <1>13
    DEF Next, Handle

-----------------------------------------------------------------------------
(* A step that only moves a run on: whatever is said of the rest stays. *)
LEMMA RestIsKept ==
  ASSUME IInv, UNCHANGED <<person, tenants, inbox, outbox, mistaken>>
  PROVE  (ContentIsMovedOnce /\ ServedWereInvited /\ FinishedIsAnswered /\ StepIsOffered)'
  BY DEF IInv, person, tenants, inbox, ContentIsMovedOnce, ServedWereInvited,
     FinishedIsAnswered, StepIsOffered, Settled

(* What the other runs rely on only grows. *)
Grows ==
  /\ UNCHANGED person
  /\ \A m \in Messages, kind \in Kinds : Made(m, kind) => Made(m, kind)'
  /\ \A m \in Messages : outbox[m]["invite_only"] # "none" => outbox'[m]["invite_only"] # "none"
  /\ invite' = "never" => invite = "never"
  /\ bound => bound'

LEMMA SameGrows ==
  ASSUME UNCHANGED <<person, outbox, mistaken>>, invite' = "never" => invite = "never",
         bound => bound'
  PROVE  Grows
  BY DEF Grows, Made, Settled

(* A step of send_once: its row only leaves a settled status if the message's *)
(* run was taken for dead.                                                    *)
LEMMA SendGrows ==
  ASSUME IInv, NEW m \in Messages, NEW w \in Workers, Claim(m, w) \/ Post(m, w) \/ Record(m, w)
  PROVE  /\ Grows
         /\ mistaken \subseteq mistaken'
         /\ \A n \in Messages, kind \in Kinds :
              outbox'[n][kind] # outbox[n][kind] => n = m /\ kind = run[w].kind
         /\ run[w].of = m /\ run[w].kind \in Kinds
  <1>0. TypeOK /\ HoldInv
    BY DEF IInv
  <1>1. run[w].of = m /\ run[w].kind \in Kinds
    BY DEF Claim, Post, Record, At, IInv, RunInv, SendsMatch, Sending, OnboardingKinds, Kinds
  <1>2. UNCHANGED <<person, invite, bound>>
    BY DEF Claim, Post, Record, tenants
  <1>3. CASE Claim(m, w)
    <2>1. mistaken \subseteq mistaken'
      BY <1>3 DEF Claim
    <2>2. \/ outbox' = outbox
          \/ /\ ~Settled(m, run[w].kind)
             /\ \/ outbox' = [outbox EXCEPT ![m][run[w].kind] = "sending"]
                \/ outbox' = [outbox EXCEPT ![m][run[w].kind] = "unknown"]
      BY <1>3 DEF Claim
    <2>3. \A n \in Messages, kind \in Kinds :
            outbox'[n][kind] # outbox[n][kind]
              => n = m /\ kind = run[w].kind /\ ~Settled(n, kind) /\ outbox'[n][kind] # "none"
      BY <1>0, <1>1, <2>2 DEF TypeOK
    <2>4. \A n \in Messages, kind \in Kinds : Made(n, kind) => Made(n, kind)'
      BY <2>1, <2>3 DEF Made, Settled
    <2>5. \A n \in Messages : outbox[n]["invite_only"] # "none" => outbox'[n]["invite_only"] # "none"
      BY <2>3 DEF Kinds
    <2> QED
      BY <1>1, <1>2, <2>1, <2>3, <2>4, <2>5 DEF Grows
  <1>4. CASE Post(m, w)
    BY <1>1, <1>2, <1>4, SameGrows DEF Post
  <1>5. CASE Record(m, w)
    <2>1. /\ run[w].got \in Answers
          /\ m \in mistaken \/ outbox[m][run[w].kind] = "sending"
      BY <1>0, <1>1, <1>5 DEF Record, At, HoldInv, HoldsRow, Working
    <2>2. outbox' = [outbox EXCEPT ![m][run[w].kind] = run[w].got] /\ mistaken' = mistaken
      BY <1>5 DEF Record
    <2>3. \A n \in Messages, kind \in Kinds :
            outbox'[n][kind] # outbox[n][kind]
              => n = m /\ kind = run[w].kind /\ outbox'[n][kind] = run[w].got
      BY <1>0, <1>1, <2>2 DEF TypeOK
    <2>4. \A n \in Messages, kind \in Kinds : Made(n, kind) => Made(n, kind)'
      BY <2>1, <2>2, <2>3 DEF Made, Settled, SettledStatuses
    <2>5. \A n \in Messages : outbox[n]["invite_only"] # "none" => outbox'[n]["invite_only"] # "none"
      BY <2>1, <2>3 DEF Kinds, Answers
    <2> QED
      BY <1>1, <1>2, <2>2, <2>3, <2>4, <2>5 DEF Grows
  <1> QED
    BY <1>3, <1>4, <1>5

LEMMA OthersKeep ==
  ASSUME IInv, Grows, NEW v \in Workers, RunInv(v), run'[v] = run[v]
  PROVE  RunInv(v)'
  <1> USE DEF RunInv, Grows, person
  <1>0. run[v].of \in Messages \cup {0}
    BY DEF IInv, TypeOK, RunState
  <1>1. run[v].at = "idle" \/ run[v].of \in Messages
    BY DEF IInv, HoldInv, RunsAMessage
  <1>2. \A m \in Messages : Tried(m) => Tried(m)'
    BY DEF Tried
  <1>3. SendsMatch(v)' /\ ServesInvited(v)' /\ AcksConnected(v)'
    BY DEF SendsMatch, ServesInvited, AcksConnected
  <1>4. StrangerAnswered(v)'
    BY <1>1, <1>2 DEF StrangerAnswered, Kinds
  <1>5. KnownAnswered(v)'
    BY <1>1 DEF KnownAnswered, Kinds, OnboardingKinds
  <1> QED
    BY <1>3, <1>4, <1>5

LEMMA HandleGrows ==
  ASSUME IInv, NEW m \in Messages, NEW w \in Workers, Handle(m, w)
  PROVE  Grows /\ \A v \in Workers \ {w} : run'[v] = run[v]
  <1>0. run \in [Workers -> RunState]
    BY DEF IInv, TypeOK
  <1> USE <1>0, SameGrows DEF person, tenants, inbox, replies, Go, GoAs, End
  <1>1. CASE Begin(m, w)
    BY <1>1 DEF Begin
  <1>2. CASE Resolve(m, w) \/ AskInvite(m, w)
    BY <1>2 DEF Resolve, AskInvite
  <1>3. CASE Enrol(m, w) \/ LoadState(m, w)
    BY <1>3 DEF Enrol, LoadState
  <1>4. CASE TurnAway(m, w) \/ Break(m, w)
    BY <1>4 DEF TurnAway, Break
  <1>5. CASE Claim(m, w) \/ Post(m, w) \/ Record(m, w)
    <2>1. Grows
      BY <1>5, SendGrows
    <2>2. CASE Claim(m, w)
      BY <2>1, <2>2 DEF Claim
    <2>3. CASE Post(m, w)
      BY <2>1, <2>3 DEF Post
    <2>4. CASE Record(m, w)
      BY <2>1, <2>4 DEF Record
    <2> QED
      BY <1>5, <2>2, <2>3, <2>4
  <1>6. CASE Finish(m, w) \/ FinishKnown(m, w)
    BY <1>6 DEF Finish, FinishKnown
  <1> QED
    BY <1>1, <1>2, <1>3, <1>4, <1>5, <1>6 DEF Handle

(* The run that takes the step. *)
LEMMA OwnRunInv ==
  ASSUME IInv, NEW m \in Messages, NEW w \in Workers, Handle(m, w)
  PROVE  RunInv(w)'
  <1>0. TypeOK /\ TenantInv /\ run \in [Workers -> RunState] /\ RunInv(w)
    BY DEF IInv, TypeOK
  <1>1. CASE Begin(m, w)
    BY <1>0, <1>1, HandleGrows, OthersKeep
    DEF Begin, Sending, RunInv, SendsMatch, StrangerAnswered, KnownAnswered, ServesInvited, AcksConnected
  <1>2. CASE Resolve(m, w)
    BY <1>0, <1>2
    DEF Resolve, At, Go, GoAs, person, tenants, RunState, TenantInv, Sending, RunInv, SendsMatch,
        StrangerAnswered, KnownAnswered, ServesInvited, AcksConnected
  <1>3. CASE AskInvite(m, w)
    BY <1>0, <1>3
    DEF AskInvite, Invited, Go, tenants, RunState, Sending, RunInv, SendsMatch, StrangerAnswered,
        KnownAnswered, ServesInvited, AcksConnected
  <1>4. CASE Enrol(m, w)
    BY <1>0, <1>4
    DEF Enrol, At, Go, RunState, Sending, RunInv, SendsMatch, StrangerAnswered, KnownAnswered,
        ServesInvited, AcksConnected
  <1>5. CASE LoadState(m, w)
    <2>1. Decision(m) \in OnboardingKinds
      BY <1>0, DecisionType
    <2>2. /\ run[w].of = m /\ run[w].at = "load"
          /\ UNCHANGED <<person, tenants>>
      BY <1>5 DEF LoadState, At
    <2>3. \/ GoAs(w, "finish", "none", "stale")
          \/ Go(w, "told")
          \/ m \notin numbered /\ GoAs(w, "finish", "none", "stranger")
          \/ tenant \in Served /\ GoAs(w, "finish_known", "none", "stale")
          \/ tenant = "active" /\ m \in numbered /\ GoAs(w, "send", "ack", "allowed")
          \/ tenant = "active" /\ m \notin numbered /\ GoAs(w, "finish_known", "ack", "allowed")
          \/ tenant \in Served /\ GoAs(w, "send", Decision(m), "onboarding")
      BY <1>5 DEF LoadState, Served
    <2>4. /\ tenant \in Served => invite # "never"
          /\ tenant = "active" => bound
      BY <1>0 DEF TenantInv, Served, NobodyYet
    <2>5. invite # "never"
      BY <1>0, <2>2 DEF RunInv, ServesInvited
    <2> USE <1>0, <2>2, <2>5 DEF RunState, Sending, person, tenants
    <2>6. CASE run'[w].at \in {"finish", "told"}
      BY <2>3, <2>6 DEF Go, GoAs, RunInv, SendsMatch, StrangerAnswered, KnownAnswered,
                        ServesInvited, AcksConnected
    <2>7. CASE run'[w].at = "finish_known"
      BY <2>3, <2>7 DEF Go, GoAs, RunInv, SendsMatch, StrangerAnswered, KnownAnswered,
                        ServesInvited, AcksConnected
    <2>8. CASE run'[w].at = "send"
      <3>1. \/ bound /\ run'[w].kind = "ack" /\ run'[w].as = "allowed"
            \/ run'[w].kind \in OnboardingKinds /\ run'[w].as = "onboarding"
        BY <2>1, <2>3, <2>4, <2>8 DEF Go, GoAs
      <3> QED
        BY <2>8, <3>1 DEF OnboardingKinds, RunInv, SendsMatch, StrangerAnswered, KnownAnswered,
                          ServesInvited, AcksConnected
    <2> QED
      BY <2>3, <2>6, <2>7, <2>8 DEF Go, GoAs
  <1>6. CASE TurnAway(m, w)
    <2>1. /\ run[w].of = m
          /\ UNCHANGED <<person, tenants, outbox>>
      BY <1>6 DEF TurnAway, At, replies
    <2> USE DEF Sending
    <2>2. CASE Told(m)
      <3>1. /\ run'[w].at = "finish" /\ run'[w].of = m /\ run'[w].as = "stranger_muted"
        BY <1>0, <1>6, <2>1, <2>2 DEF TurnAway, GoAs, RunState
      <3> QED
        BY <2>1, <2>2, <3>1 DEF RunInv, SendsMatch, StrangerAnswered, KnownAnswered,
                                ServesInvited, AcksConnected, Told, Tried, MutingStatuses
    <2>3. CASE ~Told(m)
      <3>1. /\ run'[w].at = "send" /\ run'[w].kind = "invite_only" /\ run'[w].as = "stranger"
        BY <1>0, <1>6, <2>3 DEF TurnAway, GoAs, RunState
      <3> QED
        BY <3>1 DEF RunInv, SendsMatch, StrangerAnswered, KnownAnswered, ServesInvited,
                    AcksConnected
    <2> QED
      BY <2>2, <2>3
  <1>7. CASE Claim(m, w) \/ Post(m, w) \/ Record(m, w)
    <2>1. run[w].of = m /\ run[w].at \in Sending /\ UNCHANGED <<person, tenants>>
      BY <1>7 DEF Claim, Post, Record, At, Sending
    <2>2. CASE run'[w].at = "idle"
      BY <2>2 DEF Sending, RunInv, SendsMatch, StrangerAnswered, KnownAnswered, ServesInvited,
                  AcksConnected
    <2>3. CASE run'[w].at # "idle"
      <3>1. /\ run'[w].of = m /\ run'[w].kind = run[w].kind /\ run'[w].as = run[w].as
            /\ run'[w].at \in {"post", "record", Replied(w)}
        BY <1>0, <1>7, <2>1, <2>3 DEF Claim, Post, Record, Go, End, Idle, RunState
      <3>2. CASE run'[w].at \in {"post", "record"}
        BY <1>0, <2>1, <3>1, <3>2
        DEF Sending, tenants, RunInv, SendsMatch, StrangerAnswered, KnownAnswered, ServesInvited,
            AcksConnected
      <3>3. CASE run'[w].at = Replied(w) /\ run'[w].at \notin {"post", "record"}
        <4>1. \A kind : kind = run[w].kind => Made(m, kind)'
          <5>1. CASE Claim(m, w)
            <6>1. \/ Settled(m, run[w].kind) /\ outbox' = outbox
                  \/ outbox' = [outbox EXCEPT ![m][run[w].kind] = "unknown"]
              BY <1>0, <3>3, <5>1 DEF Claim, Go, RunState
            <6>2. outbox'[m][run[w].kind] \in SettledStatuses
              BY <1>0, <1>7, <6>1, SendGrows DEF Settled, SettledStatuses, TypeOK
            <6> QED
              BY <6>2 DEF Made, Settled
          <5>2. CASE Post(m, w)
            BY <1>0, <3>3, <5>2 DEF Post, RunState
          <5>3. CASE Record(m, w)
            <6>1. run[w].got \in Answers
              BY <5>3 DEF Record, At, IInv, HoldInv, HoldsRow, Working
            <6>2. run[w].got # "pending"
              BY <1>0, <2>3, <5>3 DEF Record, Raises, End, Idle, RunState
            <6>3. outbox' = [outbox EXCEPT ![m][run[w].kind] = run[w].got]
              BY <5>3 DEF Record
            <6>4. outbox'[m][run[w].kind] \in SettledStatuses
              BY <1>0, <1>7, <6>1, <6>2, <6>3, SendGrows DEF Answers, SettledStatuses, TypeOK
            <6> QED
              BY <6>4 DEF Made, Settled
          <5> QED
            BY <1>7, <5>1, <5>2, <5>3
        <4>2. /\ run'[w].at = "finish" => run[w].kind = "invite_only"
              /\ run'[w].at = "finish_known" => run[w].kind # "invite_only"
              /\ run'[w].at \in {"finish", "finish_known"}
          BY <3>3 DEF Replied
        <4> QED
          BY <1>0, <2>1, <3>1, <4>1, <4>2
          DEF Sending, tenants, OnboardingKinds, RunInv, SendsMatch, StrangerAnswered,
              KnownAnswered, ServesInvited, AcksConnected
      <3> QED
        BY <3>1, <3>2, <3>3
    <2> QED
      BY <2>2, <2>3
  <1>8. CASE Finish(m, w) \/ FinishKnown(m, w) \/ Break(m, w)
    BY <1>0, <1>8
    DEF Finish, FinishKnown, Break, End, Idle, Sending, RunInv, SendsMatch, StrangerAnswered, KnownAnswered,
        ServesInvited, AcksConnected
  <1> QED
    BY <1>1, <1>2, <1>3, <1>4, <1>5, <1>6, <1>7, <1>8 DEF Handle

LEMMA StepRunInv == IInv /\ [Next]_vars => \A v \in Workers : RunInv(v)'
  <1> SUFFICES ASSUME IInv, [Next]_vars, NEW v \in Workers PROVE RunInv(v)'
    OBVIOUS
  <1>0. RunInv(v)
    BY DEF IInv
  <1>1. ASSUME NEW m \in Messages, NEW w \in Workers, Handle(m, w) PROVE RunInv(v)'
    BY <1>0, <1>1, HandleGrows, OthersKeep, OwnRunInv
  <1>2. CASE CheckTenant \/ Activate \/ GiveUp \/ RevokeInvite \/ AdminRead \/ AdminWrite
               \/ UNCHANGED vars
    <2>1. Grows /\ run' = run
      BY <1>2, SameGrows
      DEF CheckTenant, Activate, GiveUp, RevokeInvite, AdminRead, AdminWrite, vars, tenants, replies
    <2> QED
      BY <1>0, <2>1, OthersKeep
  <1> QED
    BY <1>1, <1>2 DEF Next

LEMMA StepHoldInv == IInv /\ [Next]_vars => HoldInv'
  <1> SUFFICES ASSUME IInv, [Next]_vars PROVE HoldInv'
    OBVIOUS
  <1>0. TypeOK /\ HoldInv /\ run \in [Workers -> RunState]
    BY DEF IInv, TypeOK
  <1>1. ASSUME UNCHANGED <<outbox, mistaken>>,
               \A v \in Workers :
                 \/ run'[v] = run[v]
                 \/ run'[v].at = "idle"
                 \/ run'[v].of \in Messages /\ run'[v].at \notin {"post", "record"}
        PROVE  HoldInv'
    BY <1>0, <1>1 DEF HoldInv, RunsAMessage, HoldsRow, Alone, Working, SameSend
  <1>2. ASSUME NEW m \in Messages, NEW w \in Workers, Handle(m, w),
               ~Claim(m, w), ~Post(m, w), ~Record(m, w)
        PROVE  HoldInv'
    <2>1. UNCHANGED <<outbox, mistaken>>
      BY <1>2 DEF Handle, Begin, Resolve, AskInvite, Enrol, LoadState, TurnAway, Finish,
                  FinishKnown, Break, replies
    <2>2. \A v \in Workers \ {w} : run'[v] = run[v]
      BY <1>2, HandleGrows
    <2>3. \/ run'[w] = run[w]
          \/ run'[w].at = "idle"
          \/ run'[w].of \in Messages /\ run'[w].at \notin {"post", "record"}
      BY <1>0, <1>2
      DEF Handle, Begin, Resolve, AskInvite, Enrol, LoadState, TurnAway, Finish, FinishKnown,
          Break, At, Go, GoAs, End, Idle, RunState
    <2> QED
      BY <1>1, <2>1, <2>2, <2>3
  <1>3. ASSUME NEW m \in Messages, NEW w \in Workers, Claim(m, w) \/ Post(m, w) \/ Record(m, w)
        PROVE  HoldInv'
    <2>1. /\ run[w].of = m /\ run[w].kind \in Kinds
          /\ mistaken \subseteq mistaken'
          /\ \A n \in Messages, kind \in Kinds :
               outbox'[n][kind] # outbox[n][kind] => n = m /\ kind = run[w].kind
          /\ \A v \in Workers \ {w} : run'[v] = run[v]
      BY <1>3, SendGrows, HandleGrows DEF Handle
    <2>2. \A v \in Workers \ {w} : RunsAMessage(v)'
      BY <1>0, <2>1 DEF HoldInv, RunsAMessage
    <2>3. \A u, v \in Workers \ {w} : Alone(u, v)'
      BY <1>0, <2>1 DEF HoldInv, Alone, Working, SameSend
    (* Another run at the same send: it was taken for dead. *)
    <2>4. ASSUME NEW v \in Workers \ {w}, Working(v), run[v].of = m, run[v].kind = run[w].kind
          PROVE  m \in mistaken'
      <3>1. CASE Claim(m, w)
        <4>1. m \in mistaken \/ outbox[m][run[w].kind] = "sending"
          BY <1>0, <2>4 DEF HoldInv, HoldsRow
        <4>2. UnderWay(m, run[w].kind)
          BY <2>4 DEF UnderWay, Working
        <4>3. ~Settled(m, run[w].kind) /\ outbox[m][run[w].kind] = "sending" => m \in mistaken'
          BY <3>1, <4>2 DEF Claim
        <4>4. outbox[m][run[w].kind] = "sending" => ~Settled(m, run[w].kind)
          BY DEF Settled, SettledStatuses
        <4> QED
          BY <2>1, <4>1, <4>3, <4>4
      <3>2. CASE Post(m, w) \/ Record(m, w)
        <4>1. Working(w)
          BY <3>2 DEF Post, Record, At, Working
        <4>2. m \in mistaken
          BY <1>0, <2>1, <2>4, <4>1 DEF HoldInv, Alone, SameSend
        <4> QED
          BY <2>1, <4>2
      <3> QED
        BY <1>3, <3>1, <3>2
    <2>5. \A v \in Workers \ {w} : HoldsRow(v)'
      <3> SUFFICES ASSUME NEW v \in Workers \ {w}, Working(v) PROVE HoldsRow(v)'
        BY <2>1 DEF HoldsRow, Working
      <3>1. HoldsRow(v) /\ run'[v] = run[v]
        BY <1>0, <2>1 DEF HoldInv
      <3>2. run[v].of \in mistaken' \/ outbox'[run[v].of][run[v].kind] = "sending"
        BY <2>1, <2>4, <3>1 DEF HoldsRow
      <3> QED
        BY <3>1, <3>2 DEF HoldsRow, Working
    <2>6. RunsAMessage(w)' /\ HoldsRow(w)'
      <3>1. CASE Claim(m, w)
        <4>1. /\ run'[w].of = m /\ run'[w].kind = run[w].kind
              /\ \/ /\ run'[w].at = "post"
                    /\ outbox' = [outbox EXCEPT ![m][run[w].kind] = "sending"]
                 \/ run'[w].at = Replied(w)
          BY <1>0, <2>1, <3>1 DEF Claim, Go, RunState
        <4>2. outbox' = [outbox EXCEPT ![m][run[w].kind] = "sending"]
                => outbox'[m][run[w].kind] = "sending"
          BY <1>0, <2>1 DEF TypeOK
        <4> QED
          BY <2>1, <4>1, <4>2 DEF RunsAMessage, HoldsRow, Working, Replied
      <3>2. CASE Post(m, w)
        <4>1. /\ run'[w].of = m /\ run'[w].kind = run[w].kind /\ run'[w].at = "record"
              /\ run'[w].got \in Answers
          BY <1>0, <2>1, <3>2 DEF Post, RunState
        <4>2. m \in mistaken \/ outbox[m][run[w].kind] = "sending"
          BY <1>0, <2>1, <3>2 DEF Post, At, HoldInv, HoldsRow, Working
        <4> QED
          BY <2>1, <3>2, <4>1, <4>2 DEF Post, RunsAMessage, HoldsRow, Working
      <3>3. CASE Record(m, w)
        BY <1>0, <2>1, <3>3
        DEF Record, Replied, End, Idle, RunState, RunsAMessage, HoldsRow, Working
      <3> QED
        BY <1>3, <3>1, <3>2, <3>3
    <2>7. \A v \in Workers : Alone(v, w)' /\ Alone(w, v)'
      <3> SUFFICES ASSUME NEW v \in Workers \ {w}, Working(v)', Working(w)', SameSend(v, w)'
                   PROVE  run'[w].of \in mistaken' /\ run'[v].of \in mistaken'
        BY DEF Alone, SameSend
      <3>1. run'[w].of = m /\ run'[w].kind = run[w].kind
        BY <1>0, <1>3, <2>1 DEF Claim, Post, Record, Go, End, Idle, RunState, Working
      <3>2. Working(v) /\ run[v].of = m /\ run[v].kind = run[w].kind
        BY <2>1, <3>1 DEF Working, SameSend
      <3>3. m \in mistaken'
        BY <2>4, <3>2 DEF Working
      <3> QED
        BY <3>1, <3>3 DEF SameSend
    <2> QED
      BY <2>2, <2>3, <2>5, <2>6, <2>7 DEF HoldInv
  <1>4. CASE CheckTenant \/ Activate \/ GiveUp \/ RevokeInvite \/ AdminRead \/ AdminWrite
               \/ UNCHANGED vars
    BY <1>1, <1>4
    DEF CheckTenant, Activate, GiveUp, RevokeInvite, AdminRead, AdminWrite, vars, replies
  <1> QED
    BY <1>2, <1>3, <1>4 DEF Next

LEMMA StepTenantInv == IInv /\ [Next]_vars => TenantInv'
  <1> SUFFICES ASSUME IInv, [Next]_vars PROVE TenantInv'
    OBVIOUS
  <1>0. TypeOK /\ TenantInv
    BY DEF IInv
  <1> USE <1>0 DEF TenantInv, tenants, outside, NobodyYet
  <1>1. ASSUME NEW m \in Messages, NEW w \in Workers, Enrol(m, w) PROVE TenantInv'
    <2>1. invite # "never"
      BY <1>1 DEF Enrol, At, IInv, RunInv, ServesInvited
    <2> QED
      BY <1>1, <2>1 DEF Enrol
  <1>2. ASSUME NEW m \in Messages, NEW w \in Workers, FinishKnown(m, w) PROVE TenantInv'
    BY <1>2 DEF FinishKnown
  <1>3. ASSUME NEW m \in Messages, NEW w \in Workers,
               Handle(m, w), ~Enrol(m, w), ~FinishKnown(m, w)
        PROVE  TenantInv'
    BY <1>3 DEF Handle, Begin, Resolve, AskInvite, LoadState, TurnAway, Claim, Post, Record,
                Finish, Break
  <1>4. CASE CheckTenant \/ Activate \/ GiveUp \/ RevokeInvite
    BY <1>4 DEF CheckTenant, Activate, GiveUp, RevokeInvite, Bindable, TypeOK
  <1>5. CASE AdminRead
    <2>1. admin'.writes = "active" => tenant = "suspended" /\ step = "none"
      BY <1>5 DEF AdminRead, Restored
    <2>2. tenant # NobodyYet
      BY <1>5 DEF AdminRead, Served
    <2> QED
      BY <1>5, <2>1, <2>2 DEF AdminRead
  <1>6. CASE AdminWrite
    <2>1. admin'.writes = "nothing"
      BY <1>6 DEF AdminWrite, TypeOK
    <2> QED
      BY <1>6, <2>1 DEF AdminWrite, TypeOK
  <1>7. CASE UNCHANGED vars
    BY <1>7 DEF vars
  <1> QED
    BY <1>1, <1>2, <1>3, <1>4, <1>5, <1>6, <1>7 DEF Next

LEMMA StepProperties ==
  IInv /\ [Next]_vars
    => (ContentIsMovedOnce /\ ServedWereInvited /\ FinishedIsAnswered /\ StepIsOffered)'
  <1> SUFFICES ASSUME IInv, [Next]_vars
      PROVE (ContentIsMovedOnce /\ ServedWereInvited /\ FinishedIsAnswered /\ StepIsOffered)'
    OBVIOUS
  <1>0. TypeOK /\ TenantInv /\ ContentIsMovedOnce /\ ServedWereInvited /\ FinishedIsAnswered
          /\ StepIsOffered
    BY DEF IInv
  <1> USE DEF person, tenants, inbox, replies
  <1>1. ASSUME NEW m \in Messages, NEW w \in Workers, Handle(m, w),
               ~Enrol(m, w), ~Claim(m, w), ~Record(m, w), ~Finish(m, w), ~FinishKnown(m, w)
        PROVE (ContentIsMovedOnce /\ ServedWereInvited /\ FinishedIsAnswered /\ StepIsOffered)'
    BY <1>1, RestIsKept DEF Handle, Begin, Resolve, AskInvite, LoadState, TurnAway, Post, Break
  <1>2. ASSUME NEW m \in Messages, NEW w \in Workers, Enrol(m, w)
        PROVE (ContentIsMovedOnce /\ ServedWereInvited /\ FinishedIsAnswered /\ StepIsOffered)'
    BY <1>0, <1>2
    DEF Enrol, ContentIsMovedOnce, ServedWereInvited, FinishedIsAnswered, StepIsOffered, Settled
  <1>3. ASSUME NEW m \in Messages, NEW w \in Workers, Claim(m, w) \/ Record(m, w)
        PROVE (ContentIsMovedOnce /\ ServedWereInvited /\ FinishedIsAnswered /\ StepIsOffered)'
    <2>1. UNCHANGED <<person, tenants, inbox>>
      BY <1>3 DEF Claim, Record
    <2>2. ContentIsMovedOnce'
      BY <1>0, <2>1 DEF ContentIsMovedOnce
    <2>3. /\ Grows
          /\ mistaken \subseteq mistaken'
          /\ \A n \in Messages, kind \in Kinds :
               outbox'[n][kind] # outbox[n][kind] => n = m /\ kind = run[w].kind
      BY <1>3, SendGrows
    <2>4. run[w].kind = "ack" => bound
      BY <1>3 DEF Claim, Record, At, IInv, RunInv, AcksConnected, Sending
    <2>5. ServedWereInvited'
      BY <1>0, <2>1, <2>3, <2>4 DEF ServedWereInvited, Kinds
    <2>6. \A n \in Messages, kind \in Kinds :
            n \notin mistaken' /\ Settled(n, kind) => Settled(n, kind)'
      BY <2>3 DEF Grows, Made
    <2>7. FinishedIsAnswered'
      <3> USE <1>0, <2>1, <2>3, <2>6 DEF Kinds
      <3>1. \A n \in Messages : disposition'[n] = "stranger_muted" =>
              \E o \in Messages \ {n} : outbox'[o]["invite_only"] # "none"
        BY DEF FinishedIsAnswered, Grows
      <3>2. \A n \in Messages \ mistaken' :
              /\ disposition[n] = "stranger" /\ n \in numbered => Settled(n, "invite_only")
              /\ disposition[n] = "allowed" /\ n \in numbered => Settled(n, "ack")
              /\ disposition[n] = "onboarding" =>
                   \E kind \in {"welcome", "ask", "connect", "resend"} : Settled(n, kind)
        BY DEF FinishedIsAnswered
      <3>3. \A n \in Messages \ mistaken' :
              /\ disposition'[n] = "stranger" /\ n \in numbered' => Settled(n, "invite_only")'
              /\ disposition'[n] = "allowed" /\ n \in numbered' => Settled(n, "ack")'
              /\ disposition'[n] = "onboarding" =>
                   \E kind \in {"welcome", "ask", "connect", "resend"} : Settled(n, kind)'
        BY <3>2
      <3> QED
        BY <3>1, <3>3 DEF FinishedIsAnswered
    <2>8. StepIsOffered'
      BY <1>0, <2>1, <2>3, <2>6 DEF StepIsOffered, TypeOK, Kinds
    <2> QED
      BY <2>2, <2>5, <2>7, <2>8
  <1>4. ASSUME NEW m \in Messages, NEW w \in Workers, Finish(m, w)
        PROVE (ContentIsMovedOnce /\ ServedWereInvited /\ FinishedIsAnswered /\ StepIsOffered)'
    <2>1. RunInv(w) /\ run[w].at = "finish" /\ run[w].of = m
      BY <1>4 DEF Finish, At, IInv
    <2>2. run[w].as \in {"stale", "stranger", "stranger_muted"}
      BY <2>1 DEF RunInv, StrangerAnswered
    <2>3. /\ disposition' = [disposition EXCEPT ![m] = run[w].as]
          /\ kept' = kept \ {m}
          /\ UNCHANGED <<person, tenants, copies, replies>>
      BY <1>4 DEF Finish
    <2>4. ContentIsMovedOnce'
      BY <1>0, <2>2, <2>3 DEF ContentIsMovedOnce, TypeOK
    <2>5. ServedWereInvited' /\ StepIsOffered'
      BY <1>0, <2>3 DEF ServedWereInvited, StepIsOffered, Settled
    <2>6. FinishedIsAnswered'
      BY <1>0, <2>1, <2>3
      DEF FinishedIsAnswered, TypeOK, RunInv, StrangerAnswered, Made, Tried, Settled
    <2> QED
      BY <2>4, <2>5, <2>6
  <1>5. ASSUME NEW m \in Messages, NEW w \in Workers, FinishKnown(m, w)
        PROVE (ContentIsMovedOnce /\ ServedWereInvited /\ FinishedIsAnswered /\ StepIsOffered)'
    <2>1. RunInv(w) /\ run[w].at = "finish_known" /\ run[w].of = m
      BY <1>5 DEF FinishKnown, At, IInv
    <2>2. run[w].as \in {"stale", "allowed", "onboarding"}
      BY <2>1 DEF RunInv, KnownAnswered
    <2>3. CASE ~Claimed(m)
      BY <1>0, <1>5, <2>3
      DEF FinishKnown, ContentIsMovedOnce, ServedWereInvited, FinishedIsAnswered, StepIsOffered,
          Settled
    <2>4. CASE Claimed(m)
      <3>1. /\ disposition' = [disposition EXCEPT ![m] = run[w].as]
            /\ kept' = kept \ {m}
            /\ copies' = [copies EXCEPT ![m] = @ + 1]
            /\ zone' = IF Advances(run[w].kind) THEN m ELSE zone
            /\ step' = IF Advances(run[w].kind) THEN "connect" ELSE step
            /\ UNCHANGED <<person, invite, tenant, bound, replies>>
        BY <1>5, <2>4 DEF FinishKnown
      <3>2. copies[m] = 0
        <4>1. copies[m] \in Nat
          BY <1>0 DEF TypeOK
        <4> QED
          BY <1>0, <2>4, <4>1 DEF Claimed, ContentIsMovedOnce
      <3>3. ContentIsMovedOnce'
        BY <1>0, <2>2, <3>1, <3>2 DEF ContentIsMovedOnce, TypeOK
      <3>4. ServedWereInvited'
        BY <1>0, <2>1, <3>1 DEF ServedWereInvited, TypeOK, RunInv, ServesInvited
      <3>5. FinishedIsAnswered'
        BY <1>0, <2>1, <3>1
        DEF FinishedIsAnswered, TypeOK, RunInv, KnownAnswered, Made, Settled, OnboardingKinds
      <3>6. Advances(run[w].kind) => m \in mistaken \/ Settled(m, "connect")
        BY <2>1 DEF Advances, RunInv, KnownAnswered, Made
      <3>7. StepIsOffered'
        BY <1>0, <3>1, <3>6, ConstantsAssumption DEF StepIsOffered, Settled
      <3> QED
        BY <3>3, <3>4, <3>5, <3>7
    <2> QED
      BY <2>3, <2>4
  <1>6. CASE CheckTenant \/ Activate \/ GiveUp \/ RevokeInvite \/ AdminRead \/ AdminWrite
               \/ UNCHANGED vars
    <2>1. /\ UNCHANGED <<person, inbox, replies, zone>>
          /\ step' = step \/ step' = "none"
          /\ bound => bound'
          /\ invite' = "never" => invite = "never"
      BY <1>6 DEF CheckTenant, Activate, GiveUp, RevokeInvite, AdminRead, AdminWrite, vars
    <2>2. ContentIsMovedOnce' /\ FinishedIsAnswered'
      BY <1>0, <2>1 DEF ContentIsMovedOnce, FinishedIsAnswered, Settled
    <2>3. ServedWereInvited'
      BY <1>0, <2>1 DEF ServedWereInvited
    <2>4. StepIsOffered'
      BY <1>0, <2>1 DEF StepIsOffered, Settled
    <2> QED
      BY <2>2, <2>3, <2>4
  <1> QED
    BY <1>1, <1>2, <1>3, <1>4, <1>5, <1>6 DEF Next, Handle

LEMMA StepIInv == IInv /\ [Next]_vars => IInv'
  BY StepTypeOK, StepRunInv, StepHoldInv, StepTenantInv, StepProperties DEF IInv

-----------------------------------------------------------------------------
(* The theorems. The inductive invariant holds throughout. *)
THEOREM Invariance == Spec => []IInv
  BY InitIInv, StepIInv, PTL DEF Spec

(* Every variable keeps its type. *)
THEOREM TypeCorrect == Spec => []TypeOK
  BY Invariance, PTL DEF IInv

(* D7 (_finish_known): however many runs reach the commit, a member's        *)
(* content is copied once and is then nowhere else.                          *)
THEOREM ContentMovesOnce == Spec => []ContentIsMovedOnce
  BY Invariance, PTL DEF IInv

(* _tenant_gate: nobody is served who was not invited, nor acknowledged      *)
(* before they connected, whatever po-admin does and whenever a callback     *)
(* that looked at the tenant before commits.                                 *)
THEOREM OnlyInvitedAreServed == Spec => []ServedWereInvited
  BY Invariance, PTL DEF IInv

(* handle_inbound and send_once: however runs of a message are retried, die, *)
(* are refused or overlap, it is only finished with the send of its reply    *)
(* over, unless a run at work on that send was taken for one that died.      *)
THEOREM FinishedHaveReplies == Spec => []FinishedIsAnswered
  BY Invariance, PTL DEF IInv

(* "Send first, return the change": the step only moves to connect once the  *)
(* send of the link that goes with the zone is over, with the same exception. *)
THEOREM ConnectFollowsLink == Spec => []StepIsOffered
  BY Invariance, PTL DEF IInv
=============================================================================

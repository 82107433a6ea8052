-------------------------- MODULE ConnectLinksProofs --------------------------
(* Proofs about ConnectLinks, for any runs, visits, lives and bounds.          *)
EXTENDS ConnectLinks, WellFoundedInduction, TLAPS

-----------------------------------------------------------------------------
(* The inductive invariant. *)

(* A run that is to create a link saw none with half its life left, among   *)
(* all that could be seen when it looked.                                   *)
RunsLooked ==
  \A r \in Runs :
    /\ run[r].asked <= now
    /\ run[r].saw <= issued
    /\ \A n \in 1..run[r].saw : ~Usable(n, run[r].asked + HalfLife)

OnlyIssuedAreSpent == \A n \in Nonces : ~Unused(n) => n <= issued

(* A token of the chat is of a link that was unspent, and had more than     *)
(* half its life left, when its message asked for it.                       *)
TokensWereFresh ==
  \A token \in tokens :
    LET row == links[token.nonce]
    IN /\ token.salt = "link"
       /\ token.nonce <= issued
       /\ token.asked <= token.signed /\ token.signed <= now
       /\ row.expires > token.asked + HalfLife
       /\ row.by # Nobody => row.at >= token.asked

Spenders == {"linking", "unavailable"} \cup Returned

(* A visit holds a token of the chat until it has spent its link, a state   *)
(* from then on, and only who spent a link gets past the button.            *)
VisitsHoldTokens ==
  \A v \in Visits :
    LET token == visit[v].token
    IN /\ visit[v].at \in {"shown", "consume", "unusable"} => token \in tokens
       /\ visit[v].at \in {"linking"} \cup Returned =>
            /\ token.salt = "state" /\ token.nonce <= issued
            /\ links[token.nonce].by = v /\ links[token.nonce].at = token.signed
            /\ token.signed <= now
       /\ visit[v].when <= now

SpendersMoveOn == \A v \in Visits, n \in Nonces : links[n].by = v => visit[v].at \in Spenders

(* Composio is asked for a state that is fresh, and what it vouched for is   *)
(* bound by the visit that brought the state.                                *)
VouchedInTime ==
  \A v \in Visits :
    visit[v].at = "vouched" => /\ visit[v].token.signed <= visit[v].when
                               /\ visit[v].when <= visit[v].token.signed + StateAge

BoundByReturned == Connected => visit[bound.by].at \in Returned /\ bound.age <= StateAge

IInv ==
  /\ TypeOK
  /\ RunsLooked
  /\ OnlyIssuedAreSpent
  /\ TokensWereFresh
  /\ VisitsHoldTokens
  /\ SpendersMoveOn
  /\ OneFreshLink
  /\ RefusedForCause
  /\ VouchedInTime
  /\ BoundByReturned

-----------------------------------------------------------------------------
(* Lemmas about the operators. *)

LEMMA HalfLifeIsLess == HalfLife \in Nat /\ HalfLife < TTL
  BY ConstantsAssumption DEF HalfLife

LEMMA NaturalsHaveALeast ==
  ASSUME NEW T, T \subseteq Nat, T # {} PROVE \E x \in T : \A y \in T : x <= y
  <1>1. \E x \in T : \A y \in T : <<y, x>> \notin OpToRel(<, Nat)
    BY NatLessThanWellFounded, WFMin
  <1>2. \A x, y \in Nat : <<y, x>> \notin OpToRel(<, Nat) => x <= y
    BY DEF OpToRel
  <1> QED
    BY <1>1, <1>2

Page == [at : {"away", "shown", "consume", "linking"} \cup Ended \cup Returned,
         token : Token, when : Times, seen : Statuses]

Bound == [by : Visits \cup {Nobody}, age : Times]

LEMMA PagesAreTyped == Away \in Page
  BY ConstantsAssumption DEF Page, Away, NoToken, Token, Nonces, Times, Statuses

(* A visit is sent back for a new link only with a token past its life, or  *)
(* for a suspended tenant.                                                   *)
LEMMA PageForCases ==
  ASSUME TypeOK, NEW token \in Token
  PROVE  \/ PageFor(token) = "go on" /\ token.salt = "link"
         \/ PageFor(token) = "unusable" /\ (~InLife(token) \/ status = "suspended")
         \/ PageFor(token) = "already"
  <1>1. InLife(token) => Ours(token) /\ token.salt = "link"
    BY ConstantsAssumption DEF Ours, InLife, Verify, TypeOK, Token, Times
  <1>2. CASE Ours(token) /\ status = "active"
    BY <1>2 DEF PageFor
  <1>3. CASE InLife(token) /\ status = "onboarding"
    BY <1>1, <1>3 DEF PageFor
  <1>4. CASE ~InLife(token) /\ ~(Ours(token) /\ status = "active")
    BY <1>4 DEF PageFor
  <1>5. CASE status = "suspended"
    BY <1>5 DEF PageFor
  <1> QED
    BY <1>1, <1>2, <1>3, <1>4, <1>5 DEF TypeOK, Statuses

At(page, token, when) == [Away EXCEPT !.at = page, !.token = token, !.when = when]

LEMMA AtIsAPage ==
  ASSUME NEW page \in {"shown", "consume", "linking"}, NEW token \in Token, NEW when \in Times
  PROVE  /\ At(page, token, when) \in Page
         /\ At(page, token, when).at = page
         /\ At(page, token, when).token = token
         /\ At(page, token, when).when = when
  BY DEF At, Page, Away, Statuses

Refusal(token) == [at |-> "unusable", token |-> token, when |-> now, seen |-> status]

(* What Open and Tap make of the visit.                                      *)
LEMMA EnterCases ==
  ASSUME TypeOK, NEW v \in Visits, NEW token \in Token, NEW next \in {"shown", "consume"},
         Enter(v, token, next)
  PROVE  \/ \E when \in {0, now} : visit' = [visit EXCEPT ![v] = At(next, token, when)]
         \/ /\ ~InLife(token) \/ status = "suspended"
            /\ visit' = [visit EXCEPT ![v] = Refusal(token)]
         \/ visit' = [visit EXCEPT ![v] = [Away EXCEPT !.at = "already"]]
  <1>1. CASE PageFor(token) = "go on"
    BY <1>1 DEF Enter, Show, At
  <1>2. CASE PageFor(token) = "unusable" /\ (~InLife(token) \/ status = "suspended")
    BY <1>2 DEF Enter, Refuse, Refusal
  <1>3. CASE PageFor(token) = "already"
    BY <1>3 DEF Enter, End
  <1> QED
    BY <1>1, <1>2, <1>3, PageForCases

-----------------------------------------------------------------------------
LEMMA InitIInv == Init => IInv
  <1> SUFFICES ASSUME Init PROVE IInv
    OBVIOUS
  <1>1. TypeOK
    <2>1. Unissued \in Row
      BY ConstantsAssumption DEF Unissued, Row, Times
    <2>2. Idle \in [creates : BOOLEAN, asked : Times, saw : 0..MaxLinks]
      BY ConstantsAssumption DEF Idle, Times
    <2>3. visit \in [Visits -> Page]
      BY PagesAreTyped DEF Init
    <2>4. now \in 0..MaxTime /\ issued \in 0..MaxLinks
      BY ConstantsAssumption DEF Init
    <2>5. links \in [Nonces -> Row] /\ tokens \subseteq Token
      BY <2>1 DEF Init
    <2>6. run \in [Runs -> [creates : BOOLEAN, asked : Times, saw : 0..MaxLinks]]
      BY <2>2 DEF Init
    <2>7. status = "onboarding" /\ bound \in [by : Visits \cup {Nobody}, age : Times]
      BY ConstantsAssumption DEF Init, Times
    <2> QED
      BY <2>3, <2>4, <2>5, <2>6, <2>7 DEF TypeOK, Page, Statuses
  <1>2. RunsLooked
    BY DEF Init, RunsLooked, Idle
  <1>3. OnlyIssuedAreSpent /\ SpendersMoveOn
    BY ConstantsAssumption DEF Init, OnlyIssuedAreSpent, SpendersMoveOn, Unissued, Unused
  <1>4. TokensWereFresh
    BY DEF Init, TokensWereFresh
  <1>5. VisitsHoldTokens
    BY DEF Init, VisitsHoldTokens, Away, Returned
  <1>6. OneFreshLink
    BY DEF Init, OneFreshLink
  <1>7. RefusedForCause /\ VouchedInTime
    BY DEF Init, RefusedForCause, VouchedInTime, Away
  <1>8. BoundByReturned
    BY DEF Init, BoundByReturned, Connected
  <1> QED
    BY <1>1, <1>2, <1>3, <1>4, <1>5, <1>6, <1>7, <1>8 DEF IInv

(* The cause RefusedForCause asks for, of one page.                          *)
Cause(v, page) ==
  \/ page.seen = "suspended"
  \/ page.when > page.token.asked + HalfLife
  \/ /\ links[page.token.nonce].by \notin {Nobody, v}
     /\ links[page.token.nonce].at >= page.token.asked

(* A step of one visit that spends nothing.                                  *)
LEMMA StepOfVisit ==
  ASSUME IInv, NEW v \in Visits, NEW page \in Page,
         visit' = [visit EXCEPT ![v] = page],
         UNCHANGED <<now, links, issued, tokens, run>>,
         status' \in Statuses, bound' \in Bound,
         bound' = bound \/ (bound'.by = v /\ page.at \in Returned /\ bound'.age <= StateAge),
         visit[v].at \in Returned => page.at \in Returned,
         page.at \in {"shown", "consume", "unusable"} => page.token \in tokens,
         page.at \in {"linking"} \cup Returned =>
           /\ page.token.salt = "state"
           /\ page.token.nonce <= issued
           /\ links[page.token.nonce].by = v
           /\ links[page.token.nonce].at = page.token.signed
           /\ page.token.signed <= now,
         page.when <= now,
         page.at = "vouched" => /\ page.token.signed <= page.when
                                /\ page.when <= page.token.signed + StateAge,
         (\E n \in Nonces : links[n].by = v) => page.at \in Spenders,
         page.at = "unusable" => Cause(v, page)
  PROVE  IInv'
  <1> USE DEF IInv
  <1>0. visit'[v] = page /\ \A w \in Visits : w # v => visit'[w] = visit[w]
    BY DEF TypeOK
  <1>1. TypeOK'
    BY DEF TypeOK, Page, Bound
  <1>2. RunsLooked' /\ OnlyIssuedAreSpent' /\ OneFreshLink'
    BY DEF RunsLooked, OnlyIssuedAreSpent, OneFreshLink, Usable, Unused
  <1>3. TokensWereFresh'
    BY DEF TokensWereFresh
  <1>4. VisitsHoldTokens'
    BY <1>0 DEF VisitsHoldTokens
  <1>5. SpendersMoveOn'
    BY <1>0 DEF SpendersMoveOn
  <1>6. RefusedForCause'
    BY <1>0 DEF RefusedForCause, Cause
  <1>7. VouchedInTime'
    BY <1>0 DEF VouchedInTime
  <1>8. BoundByReturned'
    <2>1. CASE bound' = bound
      BY <1>0, <2>1 DEF BoundByReturned, Connected, TypeOK
    <2>2. CASE bound'.by = v /\ page.at \in Returned /\ bound'.age <= StateAge
      BY <1>0, <2>2 DEF BoundByReturned
    <2> QED
      BY <2>1, <2>2
  <1> QED
    BY <1>1, <1>2, <1>3, <1>4, <1>5, <1>6, <1>7, <1>8

(* A token past its life was signed after it was asked for.                  *)
LEMMA PastItsLife ==
  ASSUME IInv, NEW token \in tokens, ~InLife(token)
  PROVE  now > token.asked + HalfLife
  BY HalfLifeIsLess, ConstantsAssumption
     DEF IInv, TypeOK, TokensWereFresh, InLife, Verify, Token, Times

LEMMA StepEnter ==
  ASSUME IInv, NEW v \in Visits, NEW token \in tokens, NEW next \in {"shown", "consume"},
         Enter(v, token, next), visit[v].at \in {"away", "shown"},
         UNCHANGED <<now, status, bound, links, issued, tokens, run>>
  PROVE  IInv'
  <1>0. /\ token \in Token /\ {0, now} \subseteq Times /\ 0 <= now /\ now <= now
        /\ status' \in Statuses /\ bound' \in Bound /\ status \in Statuses
        /\ visit[v].at \notin Returned /\ bound' = bound
    BY ConstantsAssumption DEF IInv, TypeOK, Times, Bound, Returned
  <1>1. ~\E n \in Nonces : links[n].by = v
    BY DEF IInv, SpendersMoveOn, Spenders, Returned
  <1>2. ASSUME NEW when \in {0, now}, visit' = [visit EXCEPT ![v] = At(next, token, when)]
        PROVE  IInv'
    <2> DEFINE page == At(next, token, when)
    <2>1. page \in Page /\ page.at = next /\ page.token = token /\ page.when = when
      BY <1>0, AtIsAPage
    <2>2. page.at \notin {"linking", "unusable", "vouched"} \cup Returned
      BY <2>1 DEF Returned
    <2> HIDE DEF page
    <2> QED
      BY <1>0, <1>1, <1>2, <2>1, <2>2, StepOfVisit DEF page
  <1>3. ASSUME ~InLife(token) \/ status = "suspended",
               visit' = [visit EXCEPT ![v] = Refusal(token)]
        PROVE  IInv'
    <2> DEFINE page == Refusal(token)
    <2>1. /\ page \in Page /\ page.at = "unusable" /\ page.token = token
          /\ page.when = now /\ page.seen = status
      BY <1>0 DEF Page, Ended, Refusal
    <2>2. page.at \notin {"linking", "vouched"} \cup Returned
      BY <2>1 DEF Returned
    <2>3. Cause(v, page)
      BY <1>3, <2>1, PastItsLife DEF Cause
    <2> HIDE DEF page
    <2> QED
      BY <1>0, <1>1, <1>3, <2>1, <2>2, <2>3, StepOfVisit DEF page
  <1>4. ASSUME visit' = [visit EXCEPT ![v] = [Away EXCEPT !.at = "already"]]
        PROVE  IInv'
    <2> DEFINE page == [Away EXCEPT !.at = "already"]
    <2>1. page \in Page /\ page.at = "already" /\ page.when = 0
      BY PagesAreTyped DEF Page, Ended, Away
    <2>2. page.at \notin {"shown", "consume", "unusable", "linking", "vouched"} \cup Returned
      BY <2>1 DEF Returned
    <2> HIDE DEF page
    <2> QED
      BY <1>0, <1>1, <1>4, <2>1, <2>2, StepOfVisit DEF page
  <1> QED
    BY <1>0, <1>2, <1>3, <1>4, EnterCases DEF IInv

LEMMA StepOpen == ASSUME IInv, NEW v \in Visits, Open(v) PROVE IInv'
  BY StepEnter DEF Open

LEMMA StepTap == ASSUME IInv, NEW v \in Visits, Tap(v) PROVE IInv'
  BY StepEnter DEF Tap, IInv, VisitsHoldTokens

(* A refused UPDATE: the link was spent by another since the message asked   *)
(* for it, or it had run out by then.                                        *)
LEMMA RefusedUpdate ==
  ASSUME IInv, NEW v \in Visits, visit[v].at = "consume", ~Spendable(v)
  PROVE  Cause(v, visit[v])
  <1> DEFINE token == visit[v].token
             row == links[token.nonce]
  <1>1. token \in tokens /\ token \in Token /\ visit[v].when \in Times
    BY DEF IInv, TypeOK, VisitsHoldTokens
  <1>2. token.nonce \in Nonces /\ token.asked \in Times /\ row \in Row
    BY <1>1 DEF IInv, TypeOK, Token
  <1>3. row.by # v
    BY <1>2 DEF IInv, SpendersMoveOn, Spenders, Returned
  <1>4. row.expires > token.asked + HalfLife /\ (row.by # Nobody => row.at >= token.asked)
    BY <1>1 DEF IInv, TokensWereFresh
  <1>5. row.by # Nobody \/ ~(row.expires > visit[v].when)
    BY DEF Spendable, Usable, Unused
  <1>6. CASE row.by # Nobody
    BY <1>3, <1>4, <1>6 DEF Cause
  <1>7. CASE ~(row.expires > visit[v].when)
    <2>1. row.expires \in Nat /\ visit[v].when \in Nat /\ token.asked + HalfLife \in Nat
      BY <1>1, <1>2, HalfLifeIsLess, ConstantsAssumption DEF Row, Times
    <2> QED
      BY <1>4, <1>7, <2>1 DEF Cause
  <1> QED
    BY <1>5, <1>6, <1>7

LEMMA StepSpend ==
  ASSUME IInv, NEW v \in Visits, Consume(v), Spendable(v) PROVE IInv'
  <1> DEFINE n == visit[v].token.nonce
             state == [visit[v].token EXCEPT !.salt = "state", !.signed = now]
  <1>1. /\ visit[v].at = "consume"
        /\ links' = [links EXCEPT ![n].by = v, ![n].at = now]
        /\ visit' = [visit EXCEPT ![v] = At("linking", state, 0)]
        /\ UNCHANGED <<now, status, bound, issued, tokens, run>>
    BY DEF Consume, Show, At
  <1>2. visit[v].token \in tokens /\ visit[v].token \in Token
    BY <1>1 DEF IInv, TypeOK, VisitsHoldTokens
  <1>3. n \in 1..issued /\ n \in Nonces /\ links[n] \in Row /\ links[n].by = Nobody
    BY <1>2, ConstantsAssumption
       DEF IInv, TypeOK, TokensWereFresh, Token, Nonces, Spendable, Usable, Unused
  <1>4. /\ links'[n] = [links[n] EXCEPT !.by = v, !.at = now]
        /\ \A m \in Nonces : m # n => links'[m] = links[m]
        /\ \A m \in Nonces : links'[m].expires = links[m].expires /\ links'[m].saw = links[m].saw
        /\ links'[n].by = v /\ links'[n].at = now
    BY <1>1, <1>3 DEF IInv, TypeOK, Row
  <1>5. now \in Times /\ 0 \in Times /\ now \in Nat
    BY ConstantsAssumption DEF IInv, TypeOK, Times
  <1>6. state \in Token /\ state.salt = "state" /\ state.nonce = n /\ state.signed = now
    BY <1>2, <1>5 DEF Token
  <1>7. /\ visit'[v].at = "linking" /\ visit'[v].token = state /\ visit'[v].when = 0
        /\ \A w \in Visits : w # v => visit'[w] = visit[w]
    BY <1>1, <1>5, <1>6, AtIsAPage DEF IInv, TypeOK
  <1> HIDE DEF state
  <1>8. TypeOK'
    <2>1. links' \in [Nonces -> Row]
      BY <1>1, <1>3, <1>5 DEF IInv, TypeOK, Row
    <2>2. At("linking", state, 0) \in Page
      BY <1>5, <1>6, AtIsAPage
    <2>3. visit' \in [Visits -> Page]
      BY <1>1, <2>2 DEF IInv, TypeOK, Page
    <2> QED
      BY <1>1, <2>1, <2>3 DEF IInv, TypeOK, Page
  <1>9. \A m \in Nonces : Unused(m)' => Unused(m)
    BY <1>3, <1>4, ConstantsAssumption DEF Unused
  <1>10. \A m \in Nonces : \A at : Usable(m, at)' => Usable(m, at)
    BY <1>4, <1>9 DEF Usable
  <1>11. RunsLooked'
    <2>1. \A r \in Runs : run[r].saw \in 0..MaxLinks
      BY DEF IInv, TypeOK
    <2>2. \A r \in Runs : \A m \in 1..run[r].saw : m \in Nonces
      BY <2>1, ConstantsAssumption DEF Nonces
    <2>3. run' = run /\ issued' = issued /\ now' = now
      BY <1>1
    <2>4. \A m \in Nonces :
            /\ links'[m].expires = links[m].expires
            /\ links'[m].by = Nobody => links[m].by = Nobody
      BY <1>4, <1>9 DEF Unused
    <2>5. RunsLooked
      BY DEF IInv
    <2> QED
      BY <2>2, <2>3, <2>4, <2>5 DEF RunsLooked, Usable, Unused
  <1>12. OnlyIssuedAreSpent'
    <2>1. \A m \in Nonces : ~Unused(m)' => m = n \/ ~Unused(m)
      BY <1>4 DEF Unused
    <2>2. OnlyIssuedAreSpent /\ issued' = issued
      BY <1>1 DEF IInv
    <2> QED
      BY <1>3, <2>1, <2>2 DEF OnlyIssuedAreSpent
  <1>13. TokensWereFresh'
    <2> SUFFICES ASSUME NEW token \in tokens
                 PROVE  /\ token.salt = "link"
                        /\ token.nonce <= issued
                        /\ token.asked <= token.signed /\ token.signed <= now
                        /\ links'[token.nonce].expires > token.asked + HalfLife
                        /\ links'[token.nonce].by # Nobody => links'[token.nonce].at >= token.asked
      BY <1>1 DEF TokensWereFresh
    <2>1. token \in Token /\ token.nonce \in Nonces
      BY DEF IInv, TypeOK, Token
    <2>2. /\ token.salt = "link"
          /\ token.nonce <= issued
          /\ token.asked <= token.signed /\ token.signed <= now
          /\ links[token.nonce].expires > token.asked + HalfLife
          /\ links[token.nonce].by # Nobody => links[token.nonce].at >= token.asked
      BY DEF IInv, TokensWereFresh
    <2>3. now >= token.asked
      BY <1>5, <2>1, <2>2, ConstantsAssumption DEF Token, Times
    <2> QED
      BY <1>4, <2>1, <2>2, <2>3
  <1>14. VisitsHoldTokens'
    <2> SUFFICES ASSUME NEW w \in Visits
                 PROVE  /\ visit'[w].at \in {"shown", "consume", "unusable"} =>
                             visit'[w].token \in tokens'
                        /\ visit'[w].at \in {"linking"} \cup Returned =>
                             /\ visit'[w].token.salt = "state"
                             /\ visit'[w].token.nonce <= issued'
                             /\ links'[visit'[w].token.nonce].by = w
                             /\ links'[visit'[w].token.nonce].at = visit'[w].token.signed
                             /\ visit'[w].token.signed <= now'
                        /\ visit'[w].when <= now'
      BY DEF VisitsHoldTokens
    <2>1. CASE w = v
      <3>1. n <= issued' /\ 0 <= now' /\ now <= now'
        BY <1>1, <1>3, <1>5
      <3> QED
        BY <1>4, <1>6, <1>7, <2>1, <3>1
    <2>2. CASE w # v
      <3>1. visit[w].token.nonce \in Nonces /\ w # Nobody
        BY ConstantsAssumption DEF IInv, TypeOK, Token
      <3>2. /\ visit[w].at \in {"shown", "consume", "unusable"} => visit[w].token \in tokens
            /\ visit[w].at \in {"linking"} \cup Returned =>
                 /\ visit[w].token.salt = "state"
                 /\ visit[w].token.nonce <= issued
                 /\ links[visit[w].token.nonce].by = w
                 /\ links[visit[w].token.nonce].at = visit[w].token.signed
                 /\ visit[w].token.signed <= now
            /\ visit[w].when <= now
        BY DEF IInv, VisitsHoldTokens
      <3>3. links[visit[w].token.nonce].by = w =>
              links'[visit[w].token.nonce] = links[visit[w].token.nonce]
        BY <1>3, <1>4, <3>1
      <3>4. visit'[w] = visit[w] /\ tokens' = tokens /\ issued' = issued /\ now' = now
        BY <1>1, <1>7, <2>2
      <3> QED
        BY <3>2, <3>3, <3>4
    <2> QED
      BY <2>1, <2>2
  <1>15. SpendersMoveOn'
    <2> SUFFICES ASSUME NEW w \in Visits, NEW m \in Nonces, links'[m].by = w
                 PROVE  visit'[w].at \in Spenders
      BY DEF SpendersMoveOn
    <2>1. CASE w = v
      BY <1>7, <2>1 DEF Spenders
    <2>2. CASE w # v
      BY <1>4, <1>7, <2>2 DEF IInv, SpendersMoveOn
    <2> QED
      BY <2>1, <2>2
  <1>16. OneFreshLink'
    <2>1. \A m \in 1..issued : m \in Nonces
      BY ConstantsAssumption DEF IInv, TypeOK, Nonces
    <2> QED
      BY <1>1, <1>4, <1>10, <2>1 DEF IInv, OneFreshLink, HalfLife
  <1>17. RefusedForCause'
    <2> SUFFICES ASSUME NEW w \in Visits, visit'[w].at = "unusable"
                 PROVE  Cause(w, visit[w])'
      BY DEF RefusedForCause, Cause
    <2>1. w # v /\ visit'[w] = visit[w]
      BY <1>7
    <2>2. Cause(w, visit[w])
      BY <2>1 DEF IInv, RefusedForCause, Cause
    <2>3. visit[w].token \in tokens /\ visit[w].token.nonce \in Nonces
      BY <2>1 DEF IInv, TypeOK, Token, VisitsHoldTokens
    <2> QED
      BY <1>3, <1>4, <2>1, <2>2, <2>3 DEF Cause, HalfLife
  <1>18. VouchedInTime'
    BY <1>7 DEF IInv, VouchedInTime
  <1>19. BoundByReturned'
    <2>1. visit[v].at \notin Returned /\ bound' = bound
      BY <1>1 DEF Returned
    <2>2. bound \in Bound
      BY DEF IInv, TypeOK, Bound
    <2> QED
      BY <1>7, <2>1, <2>2 DEF IInv, BoundByReturned, Connected, Bound
  <1> QED
    BY <1>8, <1>11, <1>12, <1>13, <1>14, <1>15, <1>16, <1>17, <1>18, <1>19 DEF IInv

LEMMA StepConsume == ASSUME IInv, NEW v \in Visits, Consume(v) PROVE IInv'
  <1>1. CASE Spendable(v)
    BY <1>1, StepSpend
  <1>2. CASE ~Spendable(v)
    <2> DEFINE page == [visit[v] EXCEPT !.at = "unusable"]
    <2>1. /\ visit[v].at = "consume"
          /\ visit' = [visit EXCEPT ![v] = page]
          /\ UNCHANGED <<now, status, bound, links, issued, tokens, run>>
      BY <1>2 DEF Consume, Turn, IInv, TypeOK
    <2>2. /\ page \in Page /\ page.at = "unusable"
          /\ page.token = visit[v].token /\ page.when = visit[v].when
          /\ page.seen = visit[v].seen
      BY DEF IInv, TypeOK, Page, Ended
    <2> HIDE DEF page
    <2>3. page.token \in tokens /\ page.when <= now
      BY <2>1, <2>2 DEF IInv, VisitsHoldTokens
    <2>4. Cause(v, page)
      BY <1>2, <2>1, <2>2, RefusedUpdate DEF Cause
    <2>5. \A n \in Nonces : links[n].by # v
      BY <2>1 DEF IInv, SpendersMoveOn, Spenders, Returned
    <2>6. page.at \notin {"linking", "vouched"} \cup Returned /\ visit[v].at \notin Returned
      BY <2>1, <2>2 DEF Returned
    <2>7. status' \in Statuses /\ bound' \in Bound /\ bound' = bound
      BY <2>1 DEF IInv, TypeOK, Bound
    <2> QED
      BY <2>1, <2>2, <2>3, <2>4, <2>5, <2>6, <2>7, StepOfVisit
  <1> QED
    BY <1>1, <1>2

LEMMA StepRedirect == ASSUME IInv, NEW v \in Visits, Redirect(v) PROVE IInv'
  <1>1. /\ visit[v].at = "linking"
        /\ UNCHANGED <<now, status, bound, links, issued, tokens, run>>
        /\ status' \in Statuses /\ bound' \in Bound /\ bound' = bound
        /\ visit[v].at \notin Returned
    BY DEF Redirect, IInv, TypeOK, Bound, Returned
  <1>2. CASE Turn(v, "redirected")
    <2> DEFINE page == [visit[v] EXCEPT !.at = "redirected"]
    <2>1. visit' = [visit EXCEPT ![v] = page]
      BY <1>2 DEF Turn, IInv, TypeOK
    <2>2. /\ page \in Page /\ page.at = "redirected"
          /\ page.token = visit[v].token /\ page.when = visit[v].when
      BY DEF IInv, TypeOK, Page, Returned
    <2> HIDE DEF page
    <2>3. /\ page.token.salt = "state" /\ page.token.nonce <= issued
          /\ links[page.token.nonce].by = v /\ page.when <= now
          /\ links[page.token.nonce].at = page.token.signed /\ page.token.signed <= now
      BY <1>1, <2>2 DEF IInv, VisitsHoldTokens
    <2>4. page.at \in Spenders /\ page.at \notin {"shown", "consume", "unusable", "vouched"}
      BY <2>2 DEF Spenders, Returned
    <2> QED
      BY <1>1, <2>1, <2>2, <2>3, <2>4, StepOfVisit
  <1>3. CASE End(v, "unavailable")
    <2> DEFINE page == [Away EXCEPT !.at = "unavailable"]
    <2>1. page \in Page /\ page.at = "unavailable" /\ page.when = 0
      BY PagesAreTyped DEF Page, Ended, Away
    <2>2. /\ page.at \in Spenders
          /\ page.at \notin {"linking", "shown", "consume", "unusable", "vouched"} \cup Returned
      BY <2>1 DEF Spenders, Returned
    <2>3. 0 <= now
      BY DEF IInv, TypeOK
    <2>4. visit' = [visit EXCEPT ![v] = page]
      BY <1>3 DEF End
    <2> HIDE DEF page
    <2> QED
      BY <1>1, <2>1, <2>2, <2>3, <2>4, StepOfVisit
  <1> QED
    BY <1>2, <1>3 DEF Redirect

(* Only a state gets a visit past the callback: a link's own token does not. *)
LEMMA WhoCallsBackReturned ==
  ASSUME IInv, NEW v \in Visits, CallsBack(v), NEW age, Verify(visit[v].token, "state", age)
  PROVE  visit[v].at \in Returned
  BY DEF CallsBack, Verify, Returned, IInv, VisitsHoldTokens, TokensWereFresh

(* A step of a visit that has been sent on, and stays so with its state.     *)
LEMMA StepOfReturned ==
  ASSUME IInv, NEW v \in Visits, visit[v].at \in Returned,
         NEW page \in Page, visit' = [visit EXCEPT ![v] = page],
         page.at \in Returned, page.token = visit[v].token, page.when <= now,
         UNCHANGED <<now, links, issued, tokens, run>>,
         status' \in Statuses, bound' \in Bound,
         bound' = bound \/ (bound'.by = v /\ bound'.age <= StateAge),
         page.at = "vouched" => /\ page.token.signed <= page.when
                                /\ page.when <= page.token.signed + StateAge
  PROVE  IInv'
  <1>1. /\ page.token.salt = "state" /\ page.token.nonce <= issued
        /\ links[page.token.nonce].by = v
        /\ links[page.token.nonce].at = page.token.signed /\ page.token.signed <= now
    BY DEF IInv, VisitsHoldTokens
  <1>2. page.at \in Spenders /\ page.at \notin {"shown", "consume", "unusable"}
    BY DEF Spenders, Returned
  <1> QED
    BY <1>1, <1>2, StepOfVisit

LEMMA StepVouch == ASSUME IInv, NEW v \in Visits, Vouch(v) PROVE IInv'
  <1> DEFINE page == [visit[v] EXCEPT !.at = "vouched", !.when = now]
  <1>1. /\ CallsBack(v) /\ Verify(visit[v].token, "state", StateAge)
        /\ UNCHANGED <<now, status, bound, links, issued, tokens, run>>
        /\ status' \in Statuses /\ bound' \in Bound /\ bound' = bound
    BY DEF Vouch, Fresh, IInv, TypeOK, Bound
  <1>2. visit' = [visit EXCEPT ![v] = page]
    BY DEF Vouch, IInv, TypeOK
  <1>3. visit[v].at \in Returned
    BY <1>1, WhoCallsBackReturned
  <1>4. now \in Times /\ now \in Nat
    BY ConstantsAssumption DEF IInv, TypeOK, Times
  <1>5. /\ page \in Page /\ page.at = "vouched"
        /\ page.token = visit[v].token /\ page.when = now
    BY <1>4 DEF IInv, TypeOK, Page, Returned
  <1> HIDE DEF page
  <1>6. page.token.signed <= now
    BY <1>3, <1>5 DEF IInv, VisitsHoldTokens
  <1>7. now <= page.token.signed + StateAge
    BY <1>1, <1>5 DEF Verify
  <1>8. page.at \in Returned /\ page.when <= now
    BY <1>4, <1>5 DEF Returned
  <1> QED
    BY <1>1, <1>2, <1>3, <1>5, <1>6, <1>7, <1>8, StepOfReturned

(* Bind, Fail and Late leave the visit at a page that can be loaded again.   *)
LEMMA StepReturn == ASSUME IInv, NEW v \in Visits, Return(v) PROVE IInv'
  <1>0. 0 \in Times /\ 0 <= now /\ visit[v] \in Page
    BY ConstantsAssumption DEF IInv, TypeOK, Page, Times
  <1>1. CASE Vouch(v)
    BY <1>1, StepVouch
  <1>2. CASE Bind(v)
    <2> DEFINE page == [visit[v] EXCEPT !.at = "connected", !.when = 0]
    <2>1. /\ visit[v].at = "vouched" /\ visit[v].at \in Returned
          /\ UNCHANGED <<now, links, issued, tokens, run>> /\ status' \in Statuses
          /\ bound' = [by |-> v, age |-> visit[v].when - links[visit[v].token.nonce].at]
      BY <1>2 DEF Bind, Statuses, Returned
    <2>2. visit' = [visit EXCEPT ![v] = page]
      BY <1>2 DEF Bind, Settle, IInv, TypeOK
    <2>3. /\ page \in Page /\ page.at \in Returned /\ page.at # "vouched"
          /\ page.token = visit[v].token /\ page.when = 0
      BY <1>0 DEF Page, Returned
    <2> HIDE DEF page
    <2>4. /\ links[visit[v].token.nonce].at = visit[v].token.signed
          /\ visit[v].token.signed \in Times /\ visit[v].when \in Times
          /\ visit[v].token.signed <= visit[v].when
          /\ visit[v].when <= visit[v].token.signed + StateAge
      BY <2>1 DEF IInv, VisitsHoldTokens, VouchedInTime, TypeOK, Token
    <2>5. /\ visit[v].when - visit[v].token.signed \in Times
          /\ visit[v].when - visit[v].token.signed <= StateAge
      BY <2>4, ConstantsAssumption DEF Times
    <2>6. bound' \in Bound /\ bound'.by = v /\ bound'.age <= StateAge
      BY <2>1, <2>4, <2>5 DEF Bound
    <2> QED
      BY <1>0, <2>1, <2>2, <2>3, <2>6, StepOfReturned
  <1>3. CASE Fail(v)
    <2> DEFINE page == [visit[v] EXCEPT !.at = "redirected", !.when = 0]
    <2>1. /\ visit[v].at \in Returned
          /\ UNCHANGED <<now, links, issued, tokens, run>> /\ status' \in Statuses
          /\ bound' = bound /\ bound' \in Bound
      BY <1>3 DEF Fail, Returned, IInv, TypeOK, Bound
    <2>2. visit' = [visit EXCEPT ![v] = page]
      BY <1>3 DEF Fail, Settle, IInv, TypeOK
    <2>3. /\ page \in Page /\ page.at \in Returned /\ page.at # "vouched"
          /\ page.token = visit[v].token /\ page.when = 0
      BY <1>0 DEF Page, Returned
    <2> HIDE DEF page
    <2> QED
      BY <1>0, <2>1, <2>2, <2>3, StepOfReturned
  <1>4. CASE Late(v)
    <2> DEFINE page == [visit[v] EXCEPT !.at = "connected"]
    <2>1. /\ UNCHANGED <<now, links, issued, tokens, run>> /\ status' \in Statuses
          /\ bound' = bound /\ bound' \in Bound
      BY <1>4 DEF Late, IInv, TypeOK, Bound
    <2>2. visit[v].at \in Returned
      BY <1>4, WhoCallsBackReturned DEF Late
    <2>3. visit' = [visit EXCEPT ![v] = page]
      BY <1>4 DEF Late, Turn, IInv, TypeOK
    <2>4. /\ page \in Page /\ page.at \in Returned /\ page.at # "vouched"
          /\ page.token = visit[v].token /\ page.when = visit[v].when
      BY DEF IInv, TypeOK, Page, Returned
    <2>5. visit[v].when <= now
      BY DEF IInv, VisitsHoldTokens
    <2> HIDE DEF page
    <2> QED
      BY <2>1, <2>2, <2>3, <2>4, <2>5, StepOfReturned
  <1> QED
    BY <1>1, <1>2, <1>3, <1>4 DEF Return

-----------------------------------------------------------------------------
(* A step of a run that touches no row.                                      *)
LEMMA StepOfChat ==
  ASSUME IInv, UNCHANGED <<now, status, bound, links, issued, visit>>,
         run' \in [Runs -> [creates : BOOLEAN, asked : Times, saw : 0..MaxLinks]], RunsLooked',
         tokens \subseteq tokens', tokens' \subseteq Token, TokensWereFresh'
  PROVE  IInv'
  <1> USE DEF IInv
  <1>1. TypeOK'
    BY DEF TypeOK
  <1>2. OnlyIssuedAreSpent' /\ SpendersMoveOn' /\ OneFreshLink'
    BY DEF OnlyIssuedAreSpent, SpendersMoveOn, OneFreshLink, Usable, Unused
  <1>3. VisitsHoldTokens'
    BY DEF VisitsHoldTokens
  <1>4. RefusedForCause' /\ VouchedInTime' /\ BoundByReturned'
    BY DEF RefusedForCause, VouchedInTime, BoundByReturned, Connected
  <1> QED
    BY <1>1, <1>2, <1>3, <1>4

(* The SELECT finds a usable row if there is one: one of them is the newest. *)
LEMMA LookFinds ==
  ASSUME TypeOK, NEW at \in Nat
  PROVE  /\ LatestUsable(at) \subseteq {n \in 1..issued : Usable(n, at)}
         /\ LatestUsable(at) = {} => \A n \in 1..issued : ~Usable(n, at)
  <1> DEFINE usable == {n \in 1..issued : Usable(n, at)}
             Left(n) == MaxTime + TTL - links[n].expires
             T == {Left(n) : n \in usable}
  <1>1. LatestUsable(at) = {n \in usable : \A m \in usable : links[m].expires <= links[n].expires}
    BY DEF LatestUsable
  <1>2. ASSUME usable # {} PROVE LatestUsable(at) # {}
    <2>0. \A n \in usable : n \in Nonces
      BY ConstantsAssumption DEF TypeOK, Nonces
    <2>1. \A n \in usable : links[n].expires \in 0..(MaxTime + TTL)
      BY <2>0 DEF TypeOK, Row, Times
    <2>2. T \subseteq Nat /\ T # {}
      BY <1>2, <2>1, ConstantsAssumption
    <2>3. PICK x \in T : \A y \in T : x <= y
      BY <2>2, NaturalsHaveALeast
    <2>4. PICK n \in usable : x = Left(n)
      BY <2>3
    <2>5. \A m \in usable : Left(n) <= Left(m)
      BY <2>3, <2>4
    <2>6. \A m \in usable : links[m].expires <= links[n].expires
      BY <2>1, <2>4, <2>5, ConstantsAssumption
    <2> QED
      BY <1>1, <2>4, <2>6
  <1> QED
    BY <1>1, <1>2

LEMMA StepLook == ASSUME IInv, NEW r \in Runs, Look(r) PROVE IInv'
  <1>0. /\ now \in Nat /\ now \in Times /\ issued \in 0..MaxLinks /\ HalfLife \in Nat
        /\ Horizon(now) = now + HalfLife /\ Horizon(now) \in Nat
    BY ConstantsAssumption, HalfLifeIsLess DEF IInv, TypeOK, Times, Horizon, HalfLife
  <1>1. CASE LatestUsable(Horizon(now)) # {}
    <2>1. PICK n \in LatestUsable(Horizon(now)) : Deliver(n, now) /\ UNCHANGED run
      BY <1>1 DEF Look
    <2>2. n \in 1..issued /\ n \in Nonces /\ Usable(n, now + HalfLife)
      BY <1>0, LookFinds, ConstantsAssumption DEF IInv, Nonces
    <2> DEFINE token == [salt |-> "link", nonce |-> n, signed |-> now, asked |-> now]
    <2>3. token \in Token
      BY <1>0, <2>2 DEF Token
    <2>4. tokens' \in {tokens, tokens \cup {token}}
      BY <2>1 DEF Deliver
    <2>5. UNCHANGED <<now, status, bound, links, issued, visit, run>>
      BY <2>1 DEF Look
    <2>6. TokensWereFresh'
      <3>1. /\ token.salt = "link" /\ token.nonce <= issued
            /\ token.asked <= token.signed /\ token.signed <= now
            /\ links[token.nonce].expires > token.asked + HalfLife
            /\ links[token.nonce].by = Nobody
        BY <1>0, <2>2 DEF Usable, Unused
      <3> HIDE DEF token
      <3> QED
        BY <2>4, <2>5, <3>1 DEF IInv, TokensWereFresh, HalfLife
    <2>7. RunsLooked'
      BY <2>5 DEF IInv, RunsLooked, Usable, Unused, HalfLife
    <2> QED
      BY <2>3, <2>4, <2>5, <2>6, <2>7, StepOfChat DEF IInv, TypeOK
  <1>2. CASE LatestUsable(Horizon(now)) = {}
    <2> DEFINE looked == [creates |-> TRUE, asked |-> now, saw |-> issued]
    <2>1. /\ run' = [run EXCEPT ![r] = looked]
          /\ UNCHANGED <<now, status, bound, links, issued, visit, tokens>>
      BY <1>2 DEF Look
    <2>2. looked \in [creates : BOOLEAN, asked : Times, saw : 0..MaxLinks]
      BY <1>0
    <2>3. \A n \in 1..issued : ~Usable(n, now + HalfLife)
      BY <1>0, <1>2, LookFinds DEF IInv
    <2>4. run' \in [Runs -> [creates : BOOLEAN, asked : Times, saw : 0..MaxLinks]]
      BY <2>1, <2>2 DEF IInv, TypeOK
    <2>5. RunsLooked'
      <3> SUFFICES ASSUME NEW q \in Runs
                   PROVE  /\ run'[q].asked <= now
                          /\ run'[q].saw <= issued
                          /\ \A n \in 1..run'[q].saw : ~Usable(n, run'[q].asked + HalfLife)
        BY <2>1 DEF RunsLooked, Usable, Unused, HalfLife
      <3>1. CASE q = r
        <4>1. run'[q] = looked /\ now <= now /\ issued <= issued
          BY <1>0, <2>1, <3>1 DEF IInv, TypeOK
        <4> QED
          BY <2>3, <4>1
      <3>2. CASE q # r
        BY <2>1, <3>2 DEF IInv, TypeOK, RunsLooked
      <3> QED
        BY <3>1, <3>2
    <2>6. TokensWereFresh'
      BY <2>1 DEF IInv, TokensWereFresh, HalfLife
    <2> QED
      BY <2>1, <2>4, <2>5, <2>6, StepOfChat DEF IInv, TypeOK
  <1> QED
    BY <1>1, <1>2

LEMMA StepBreak == ASSUME IInv, NEW r \in Runs, Break(r) PROVE IInv'
  <1>1. /\ run' = [run EXCEPT ![r] = Idle]
        /\ UNCHANGED <<now, status, bound, links, issued, visit, tokens>>
    BY DEF Break
  <1>2. Idle \in [creates : BOOLEAN, asked : Times, saw : 0..MaxLinks]
    BY ConstantsAssumption DEF Idle, Times
  <1>3. run' \in [Runs -> [creates : BOOLEAN, asked : Times, saw : 0..MaxLinks]]
    BY <1>1, <1>2 DEF IInv, TypeOK
  <1>4. Idle.asked = 0 /\ Idle.saw = 0 /\ 0 <= now /\ 0 <= issued
    BY DEF Idle, IInv, TypeOK
  <1>5. RunsLooked'
    BY <1>1, <1>4 DEF IInv, TypeOK, RunsLooked, Usable, Unused, HalfLife
  <1>6. TokensWereFresh'
    BY <1>1 DEF IInv, TokensWereFresh, HalfLife
  <1> QED
    BY <1>1, <1>3, <1>5, <1>6, StepOfChat DEF IInv, TypeOK

LEMMA StepCreate == ASSUME IInv, NEW r \in Runs, Create(r) PROVE IInv'
  <1> DEFINE n == issued + 1
             asked == run[r].asked
             row == [expires |-> asked + TTL, by |-> Nobody, at |-> 0, saw |-> run[r].saw]
             token == [salt |-> "link", nonce |-> n, signed |-> now, asked |-> asked]
  <1>1. /\ issued' = n
        /\ n \in Nonces /\ n \in 0..MaxLinks /\ issued \in Nat /\ issued < n
        /\ links' = [links EXCEPT ![n] = row]
        /\ run' = [run EXCEPT ![r] = Idle]
        /\ tokens' \in {tokens, tokens \cup {token}}
        /\ UNCHANGED <<now, status, bound, visit>>
    BY ConstantsAssumption DEF Create, Deliver, IInv, TypeOK, Nonces
  <1>2. /\ asked \in 0..MaxTime /\ asked <= now /\ now \in Nat
        /\ run[r].saw \in 0..MaxLinks /\ run[r].saw <= issued
        /\ \A m \in 1..run[r].saw : ~Usable(m, asked + HalfLife)
    BY ConstantsAssumption DEF IInv, TypeOK, RunsLooked, Times
  <1>3. row \in Row /\ token \in Token
    BY <1>1, <1>2, ConstantsAssumption DEF Row, Token, Times, IInv, TypeOK
  <1>4. /\ row.by = Nobody /\ row.at = 0 /\ row.expires = asked + TTL /\ row.saw = run[r].saw
        /\ token.salt = "link" /\ token.nonce = n /\ token.signed = now /\ token.asked = asked
    OBVIOUS
  <1> HIDE DEF row, token
  <1>5. /\ links'[n] = row
        /\ \A m \in Nonces : m # n => links'[m] = links[m]
        /\ \A m \in Nonces : m <= issued => links'[m] = links[m] /\ m # n
    BY <1>1 DEF IInv, TypeOK, Nonces
  <1>6. /\ Idle.asked = 0 /\ Idle.saw = 0 /\ 0 <= now /\ 0 <= n
        /\ Idle \in [creates : BOOLEAN, asked : Times, saw : 0..MaxLinks]
    BY <1>1, <1>2, ConstantsAssumption DEF Idle, Times
  <1>7. /\ run'[r] = Idle
        /\ \A q \in Runs : q # r => run'[q] = run[q]
    BY <1>1 DEF IInv, TypeOK
  <1>8. TypeOK'
    <2>1. links' \in [Nonces -> Row] /\ tokens' \subseteq Token
      BY <1>1, <1>3 DEF IInv, TypeOK
    <2>2. run' \in [Runs -> [creates : BOOLEAN, asked : Times, saw : 0..MaxLinks]]
      BY <1>1, <1>6 DEF IInv, TypeOK
    <2> QED
      BY <1>1, <2>1, <2>2 DEF IInv, TypeOK
  <1>9. RunsLooked'
    <2> SUFFICES ASSUME NEW q \in Runs
                 PROVE  /\ run'[q].asked <= now'
                        /\ run'[q].saw <= issued'
                        /\ \A m \in 1..run'[q].saw : ~Usable(m, run[q].asked + HalfLife)'
      BY DEF RunsLooked
    <2>1. CASE q = r
      <3>1. run'[q].asked = 0 /\ run'[q].saw = 0
        BY <1>6, <1>7, <2>1
      <3> QED
        BY <1>1, <1>6, <3>1
    <2>2. CASE q # r
      <3>1. /\ run[q].asked <= now /\ run[q].saw <= issued /\ run[q].saw \in 0..MaxLinks
            /\ \A m \in 1..run[q].saw : ~Usable(m, run[q].asked + HalfLife)
        BY DEF IInv, TypeOK, RunsLooked
      <3>2. run[q].saw <= issued'
        BY <1>1, <3>1
      <3>3. ASSUME NEW m \in 1..run[q].saw PROVE ~Usable(m, run[q].asked + HalfLife)'
        <4>1. m \in Nonces /\ m <= issued
          BY <1>1, <3>1, <3>3, ConstantsAssumption DEF Nonces
        <4>2. links'[m] = links[m] /\ ~Usable(m, run[q].asked + HalfLife)
          BY <1>5, <3>1, <3>3, <4>1
        <4> QED
          BY <1>7, <2>2, <4>2 DEF Usable, Unused, HalfLife
      <3> QED
        BY <1>1, <1>7, <2>2, <3>1, <3>2, <3>3
    <2> QED
      BY <2>1, <2>2
  <1>10. OnlyIssuedAreSpent'
    <2> SUFFICES ASSUME NEW m \in Nonces, links'[m].by # Nobody PROVE m <= n
      BY <1>1 DEF OnlyIssuedAreSpent, Unused
    <2>1. CASE m # n
      <3>1. m <= issued /\ m \in Nat
        BY <1>5, <2>1 DEF IInv, OnlyIssuedAreSpent, Unused, Nonces
      <3> QED
        BY <1>1, <3>1
    <2> QED
      BY <1>1, <1>4, <1>5, <2>1
  <1>11. TokensWereFresh'
    <2> SUFFICES ASSUME NEW t \in tokens'
                 PROVE  /\ t.salt = "link"
                        /\ t.nonce <= n
                        /\ t.asked <= t.signed /\ t.signed <= now
                        /\ links'[t.nonce].expires > t.asked + HalfLife
                        /\ links'[t.nonce].by # Nobody => links'[t.nonce].at >= t.asked
      BY <1>1 DEF TokensWereFresh, HalfLife
    <2>1. CASE t \in tokens
      <3>1. t.nonce \in Nonces /\ t.nonce \in Nat
        BY <2>1 DEF IInv, TypeOK, Token, Nonces
      <3>2. /\ t.salt = "link"
            /\ t.nonce <= issued
            /\ t.asked <= t.signed /\ t.signed <= now
            /\ links[t.nonce].expires > t.asked + HalfLife
            /\ links[t.nonce].by # Nobody => links[t.nonce].at >= t.asked
        BY <2>1 DEF IInv, TokensWereFresh
      <3>3. links'[t.nonce] = links[t.nonce] /\ t.nonce <= n
        BY <1>1, <1>5, <3>1, <3>2
      <3> QED
        BY <3>2, <3>3
    <2>2. CASE t = token
      <3>1. row.expires > asked + HalfLife /\ now <= now /\ n <= n
        BY <1>1, <1>2, <1>4, HalfLifeIsLess, ConstantsAssumption
      <3> QED
        BY <1>2, <1>4, <1>5, <2>2, <3>1
    <2> QED
      BY <1>1, <2>1, <2>2
  <1>12. VisitsHoldTokens'
    <2> SUFFICES ASSUME NEW v \in Visits
                 PROVE  /\ visit[v].at \in {"shown", "consume", "unusable"} =>
                             visit[v].token \in tokens'
                        /\ visit[v].at \in {"linking"} \cup Returned =>
                             /\ visit[v].token.salt = "state"
                             /\ visit[v].token.nonce <= issued'
                             /\ links'[visit[v].token.nonce].by = v
                             /\ links'[visit[v].token.nonce].at = visit[v].token.signed
                             /\ visit[v].token.signed <= now
                        /\ visit[v].when <= now
      BY <1>1 DEF VisitsHoldTokens
    <2>1. visit[v].token.nonce \in Nonces /\ visit[v].token.nonce \in Nat
      BY DEF IInv, TypeOK, Token, Nonces
    <2>2. visit[v].token.nonce <= issued =>
            visit[v].token.nonce <= n /\ links'[visit[v].token.nonce] = links[visit[v].token.nonce]
      BY <1>1, <1>5, <2>1
    <2> QED
      BY <1>1, <2>2 DEF IInv, VisitsHoldTokens
  <1>13. SpendersMoveOn'
    <2> SUFFICES ASSUME NEW v \in Visits, NEW m \in Nonces, links'[m].by = v
                 PROVE  visit[v].at \in Spenders
      BY <1>1 DEF SpendersMoveOn
    <2>1. m # n
      BY <1>4, <1>5, ConstantsAssumption
    <2> QED
      BY <1>5, <2>1 DEF IInv, SpendersMoveOn
  <1>14. OneFreshLink'
    <2> SUFFICES ASSUME NEW k \in 1..n, NEW m \in 1..n, k < m,
                        Usable(k, now + HalfLife)', Usable(m, now + HalfLife)'
                 PROVE  links'[m].saw < k
      BY <1>1 DEF OneFreshLink
    <2>0. k \in Nonces /\ m \in Nonces /\ k \in 1..issued /\ k \in Nat
      BY <1>1, ConstantsAssumption DEF Nonces
    <2>1. Usable(k, now + HalfLife)
      BY <1>1, <1>5, <2>0 DEF Usable, Unused, HalfLife
    <2>2. CASE m = n
      <3> SUFFICES ASSUME k <= run[r].saw PROVE FALSE
        BY <1>2, <1>4, <1>5, <2>0, <2>2
      <3>1. ~Usable(k, asked + HalfLife)
        BY <1>2, <2>0
      <3>2. links[k].expires \in Nat
        BY <2>0, ConstantsAssumption DEF IInv, TypeOK, Row, Times
      <3> QED
        BY <1>2, <2>1, <3>1, <3>2, HalfLifeIsLess DEF Usable
    <2>3. CASE m # n
      <3>1. m \in 1..issued /\ links'[m] = links[m]
        BY <1>1, <1>5, <2>0, <2>3
      <3>2. Usable(m, now + HalfLife)
        BY <1>1, <3>1 DEF Usable, Unused, HalfLife
      <3> QED
        BY <2>0, <2>1, <3>1, <3>2 DEF IInv, OneFreshLink
    <2> QED
      BY <2>2, <2>3
  <1>15. RefusedForCause'
    <2> SUFFICES ASSUME NEW v \in Visits, visit[v].at = "unusable" PROVE Cause(v, visit[v])'
      BY <1>1 DEF RefusedForCause, Cause
    <2>1. Cause(v, visit[v])
      BY DEF IInv, RefusedForCause, Cause
    <2>2. visit[v].token.nonce \in Nonces /\ visit[v].token.nonce <= issued
      BY DEF IInv, TypeOK, Token, VisitsHoldTokens, TokensWereFresh
    <2>3. links'[visit[v].token.nonce] = links[visit[v].token.nonce]
      BY <1>5, <2>2
    <2> QED
      BY <1>1, <2>1, <2>3 DEF Cause, HalfLife
  <1>16. VouchedInTime' /\ BoundByReturned'
    BY <1>1 DEF IInv, VouchedInTime, BoundByReturned, Connected
  <1> QED
    BY <1>8, <1>9, <1>10, <1>11, <1>12, <1>13, <1>14, <1>15, <1>16 DEF IInv

-----------------------------------------------------------------------------
(* po-admin and the clock, which only makes links and tokens older.          *)
LEMMA StepAdmin == ASSUME IInv, Suspend \/ Unsuspend PROVE IInv'
  <1>1. /\ status' \in Statuses
        /\ UNCHANGED <<now, bound, links, issued, tokens, run, visit>>
    BY DEF Suspend, Unsuspend, Statuses
  <1>2. TypeOK'
    BY <1>1 DEF IInv, TypeOK
  <1>3. RunsLooked' /\ OnlyIssuedAreSpent' /\ OneFreshLink' /\ VouchedInTime' /\ BoundByReturned'
    BY <1>1 DEF IInv, RunsLooked, OnlyIssuedAreSpent, OneFreshLink, VouchedInTime,
                BoundByReturned, Connected, Usable, Unused, HalfLife
  <1>4. TokensWereFresh' /\ VisitsHoldTokens' /\ SpendersMoveOn' /\ RefusedForCause'
    BY <1>1 DEF IInv, TokensWereFresh, VisitsHoldTokens, SpendersMoveOn, RefusedForCause, HalfLife
  <1> QED
    BY <1>2, <1>3, <1>4 DEF IInv

LEMMA StepTick == ASSUME IInv, Tick PROVE IInv'
  <1>1. /\ now \in Nat /\ now' = now + 1 /\ now' \in 0..MaxTime
        /\ UNCHANGED <<status, bound, links, issued, tokens, run, visit>>
    BY ConstantsAssumption DEF Tick, IInv, TypeOK
  <1>2. \A x \in Times : x <= now => x <= now'
    BY <1>1, ConstantsAssumption DEF Times
  <1>3. TypeOK'
    BY <1>1 DEF IInv, TypeOK
  <1>4. RunsLooked'
    BY <1>1, <1>2 DEF IInv, TypeOK, RunsLooked, Usable, Unused, HalfLife
  <1>5. TokensWereFresh'
    BY <1>1, <1>2 DEF IInv, TypeOK, Token, TokensWereFresh, HalfLife
  <1>6. VisitsHoldTokens'
    <2>1. \A v \in Visits : visit[v].when \in Times /\ visit[v].token.signed \in Times
      BY DEF IInv, TypeOK, Token
    <2> QED
      BY <1>1, <1>2, <2>1 DEF IInv, VisitsHoldTokens
  <1>7. OneFreshLink'
    <2> SUFFICES ASSUME NEW n \in 1..issued, NEW m \in 1..issued, n < m,
                        Usable(n, now + HalfLife)', Usable(m, now + HalfLife)'
                 PROVE  links[m].saw < n
      BY <1>1 DEF OneFreshLink
    <2>1. n \in Nonces /\ m \in Nonces
      BY ConstantsAssumption DEF IInv, TypeOK, Nonces
    <2>2. links[n].expires \in Nat /\ links[m].expires \in Nat
      BY <2>1, ConstantsAssumption DEF IInv, TypeOK, Row, Times
    <2>3. Usable(n, now + HalfLife) /\ Usable(m, now + HalfLife)
      BY <1>1, <2>2, HalfLifeIsLess DEF Usable, Unused, HalfLife
    <2> QED
      BY <2>3 DEF IInv, OneFreshLink
  <1>8. OnlyIssuedAreSpent' /\ SpendersMoveOn' /\ RefusedForCause'
    BY <1>1 DEF IInv, OnlyIssuedAreSpent, SpendersMoveOn, RefusedForCause, Unused, HalfLife
  <1>9. VouchedInTime' /\ BoundByReturned'
    BY <1>1 DEF IInv, VouchedInTime, BoundByReturned, Connected
  <1> QED
    BY <1>3, <1>4, <1>5, <1>6, <1>7, <1>8, <1>9 DEF IInv

LEMMA StepIInv == IInv /\ [Next]_vars => IInv'
  <1> SUFFICES ASSUME IInv, [Next]_vars PROVE IInv'
    OBVIOUS
  <1>1. CASE UNCHANGED vars
    <2>1. /\ TypeOK' /\ RunsLooked' /\ OnlyIssuedAreSpent' /\ OneFreshLink'
          /\ VouchedInTime' /\ BoundByReturned'
      BY <1>1 DEF vars, IInv, TypeOK, RunsLooked, OnlyIssuedAreSpent, OneFreshLink,
                  VouchedInTime, BoundByReturned, Connected, Usable, Unused, HalfLife
    <2>2. TokensWereFresh' /\ VisitsHoldTokens' /\ SpendersMoveOn' /\ RefusedForCause'
      BY <1>1 DEF vars, IInv, TokensWereFresh, VisitsHoldTokens, SpendersMoveOn,
                  RefusedForCause, HalfLife
    <2> QED
      BY <2>1, <2>2 DEF IInv
  <1> QED
    BY <1>1, StepLook, StepCreate, StepBreak, StepOpen, StepTap, StepConsume, StepRedirect,
       StepReturn, StepAdmin, StepTick DEF Next, Answer, Visiting

(* The strengthening holds in every reachable state. *)
LEMMA Invariance == Spec => []IInv
  BY InitIInv, StepIInv, PTL DEF Spec

(* Every variable keeps its type, for any runs, visits, lives and bounds.    *)
THEOREM TypeCorrect == Spec => []TypeOK
  <1>1. IInv => TypeOK
    BY DEF IInv
  <1> QED
    BY <1>1, Invariance, PTL

(* "a user who writes five times holds one live link": issue_or_reuse_link   *)
(* only issues past a link with half its life left when it could not see it. *)
THEOREM LinksAreReused == Spec => []OneFreshLink
  <1>1. IInv => OneFreshLink
    BY DEF IInv
  <1> QED
    BY <1>1, Invariance, PTL

(* At the page and at the tap, nobody is sent back for a new link while the  *)
(* one they have is fresh, unless it was spent since or the tenant was       *)
(* suspended: the age in the token, the row's expiry and the half life that  *)
(* reuse leaves agree.                                                       *)
THEOREM RefusalsHaveACause == Spec => []RefusedForCause
  <1>1. IInv => RefusedForCause
    BY DEF IInv
  <1> QED
    BY <1>1, Invariance, PTL

(* Whichever callback bound the tenant's connection was of the visit that    *)
(* spent its link, and came while its state was fresh: a link's own token    *)
(* and a late state bind nothing.                                            *)
THEOREM SpentBeforeConnected == Spec => []ConnectedBySpending
  <1>1. IInv => ConnectedBySpending
    <2> SUFFICES ASSUME IInv, Connected PROVE ConnectedBySpending
      BY DEF ConnectedBySpending
    <2>1. bound.by \in Visits
      BY DEF IInv, TypeOK, Connected
    <2> QED
      BY <2>1 DEF IInv, BoundByReturned, VisitsHoldTokens, ConnectedBySpending
  <1> QED
    BY <1>1, Invariance, PTL

-----------------------------------------------------------------------------
(* The refinement of SingleUse. *)

Owner(n) == IF Unused(n) THEN {} ELSE {links[n].by}

Through(n) == {v \in Visits : visit[v].at \in Returned /\ visit[v].token.nonce = n}

LEMMA InitPromise == Init => Promise!Init
  <1> SUFFICES ASSUME Init PROVE Promise!Init
    OBVIOUS
  <1>1. 1..issued = {}
    BY DEF Init
  <1>2. \A n \in Nonces : Unused(n)
    BY DEF Init, Unused, Unissued
  <1>3. \A n \in Nonces : Through(n) = {}
    BY DEF Init, Through, Away, Returned
  <1> QED
    BY <1>1, <1>2, <1>3 DEF Promise!Init, Through

(* A step that issues, spends and sends on nothing is a stutter.             *)
LEMMA PromiseStutter ==
  ASSUME issued' = issued,
         \A n \in Nonces : Owner(n)' = Owner(n),
         \A n \in Nonces : Through(n)' = Through(n)
  PROVE  UNCHANGED Promise!vars
  BY DEF Owner, Through, Promise!vars

(* So is one of a visit that has not been sent on, and is not by the step.   *)
LEMMA PromiseOfVisit ==
  ASSUME TypeOK, NEW v \in Visits, NEW page,
         visit' = [visit EXCEPT ![v] = page],
         UNCHANGED <<links, issued>>,
         \/ visit[v].at \notin Returned /\ page.at \notin Returned
         \/ /\ visit[v].at \in Returned /\ page.at \in Returned
            /\ page.token = visit[v].token
  PROVE  UNCHANGED Promise!vars
  <1>1. visit'[v] = page /\ \A w \in Visits : w # v => visit'[w] = visit[w]
    BY DEF TypeOK
  <1>2. \A n \in Nonces : Owner(n)' = Owner(n)
    BY DEF Owner, Unused
  <1>3. \A n \in Nonces : Through(n)' = Through(n)
    BY <1>1 DEF Through
  <1> QED
    BY <1>2, <1>3, PromiseStutter

LEMMA EnterIsStutter ==
  ASSUME TypeOK, NEW v \in Visits, NEW token \in Token, NEW next \in {"shown", "consume"},
         Enter(v, token, next), visit[v].at \in {"away", "shown"}, UNCHANGED <<links, issued>>
  PROVE  UNCHANGED Promise!vars
  <1>1. \E page : visit' = [visit EXCEPT ![v] = page] /\ page.at \notin Returned
    <2>1. [Away EXCEPT !.at = "already"].at \notin Returned
      BY DEF Away, Returned
    <2>2. \A when : At(next, token, when).at \notin Returned
      BY DEF At, Away, Returned
    <2>3. Refusal(token).at \notin Returned
      BY DEF Refusal, Returned
    <2>4. CASE visit' = [visit EXCEPT ![v] = [Away EXCEPT !.at = "already"]]
      BY <2>1, <2>4
    <2>5. CASE \E when : visit' = [visit EXCEPT ![v] = At(next, token, when)]
      BY <2>2, <2>5
    <2>6. CASE visit' = [visit EXCEPT ![v] = Refusal(token)]
      BY <2>3, <2>6
    <2> QED
      BY <2>4, <2>5, <2>6, EnterCases
  <1>2. visit[v].at \notin Returned
    BY DEF Returned
  <1> QED
    BY <1>1, <1>2, PromiseOfVisit

LEMMA StepPromise == IInv /\ [Next]_vars => [Promise!Next]_(Promise!vars)
  <1> SUFFICES ASSUME IInv, [Next]_vars PROVE [Promise!Next]_(Promise!vars)
    OBVIOUS
  <1>0. TypeOK
    BY DEF IInv
  <1>1. ASSUME UNCHANGED <<links, issued, visit>> PROVE UNCHANGED Promise!vars
    <2>1. \A n \in Nonces : Owner(n)' = Owner(n) /\ Through(n)' = Through(n)
      BY <1>1 DEF Owner, Unused, Through
    <2> QED
      BY <1>1, <2>1, PromiseStutter
  <1>2. ASSUME NEW r \in Runs, Create(r) PROVE Promise!Next
    <2> DEFINE n == issued + 1
    <2>1. /\ n \in Nonces /\ issued \in Nat /\ issued' = n /\ UNCHANGED visit
          /\ links'[n].by = Nobody
          /\ \A m \in Nonces : m # n => links'[m] = links[m]
      BY <1>0, <1>2, ConstantsAssumption DEF Create, TypeOK, Nonces
    <2>2. Unused(n)
      BY <2>1 DEF IInv, OnlyIssuedAreSpent
    <2>3. \A m \in Nonces : Owner(m)' = Owner(m)
      BY <2>1, <2>2 DEF Owner, Unused
    <2>4. \A m \in Nonces : Through(m)' = Through(m)
      BY <2>1 DEF Through
    <2>5. (1..issued)' = 1..issued \cup {n}
      BY <2>1
    <2>6. Promise!Issue(n)
      BY <2>3, <2>4, <2>5 DEF Promise!Issue, Owner, Through
    <2> QED
      BY <2>1, <2>6 DEF Promise!Next
  <1>3. ASSUME NEW v \in Visits, Open(v) PROVE UNCHANGED Promise!vars
    BY <1>0, <1>3, EnterIsStutter DEF Open, TypeOK
  <1>4. ASSUME NEW v \in Visits, Tap(v) PROVE UNCHANGED Promise!vars
    BY <1>0, <1>4, EnterIsStutter DEF Tap, TypeOK
  <1>5. ASSUME NEW v \in Visits, Consume(v), Spendable(v) PROVE Promise!Next
    <2> PICK n \in Nonces : n = visit[v].token.nonce
      BY <1>0 DEF TypeOK, Token
    <2>1. n \in 1..issued /\ Unused(n)
      BY <1>0, <1>5, ConstantsAssumption DEF Consume, TypeOK, Token, Nonces,
         IInv, VisitsHoldTokens, TokensWereFresh, Spendable, Usable
    <2>2. /\ visit[v].at \notin Returned /\ visit'[v].at \notin Returned
          /\ \A w \in Visits : w # v => visit'[w] = visit[w]
          /\ links'[n].by = v /\ \A m \in Nonces : m # n => links'[m] = links[m]
          /\ issued' = issued
      <3> DEFINE state == [visit[v].token EXCEPT !.salt = "state", !.signed = now]
      <3>1. /\ visit[v].at = "consume" /\ issued' = issued
            /\ links' = [links EXCEPT ![n].by = v, ![n].at = now]
            /\ visit' = [visit EXCEPT ![v] = At("linking", state, 0)]
        BY <1>5 DEF Consume, Show, At
      <3>2. At("linking", state, 0).at = "linking"
        BY DEF At, Away
      <3> HIDE DEF state
      <3> QED
        BY <1>0, <3>1, <3>2 DEF TypeOK, Returned, Row
    <2>3. Owner(n) = {}
      BY <2>1 DEF Owner
    <2>7. Owner(n)' = {v}
      BY <2>2, ConstantsAssumption DEF Owner, Unused
    <2>8. \A m \in Nonces : m # n => Owner(m)' = Owner(m)
      BY <2>2 DEF Owner, Unused
    <2>4. \A m \in Nonces : Through(m)' = Through(m)
      BY <2>2 DEF Through
    <2>5. [m \in Nonces |-> Owner(m)'] = [[m \in Nonces |-> Owner(m)] EXCEPT ![n] = {v}]
      BY <2>7, <2>8
    <2>6. Promise!Spend(n, v)
      BY <2>1, <2>2, <2>3, <2>4, <2>5 DEF Promise!Spend, Owner, Through
    <2> QED
      BY <2>1, <2>6 DEF Promise!Next
  <1>6. ASSUME NEW v \in Visits, Consume(v), ~Spendable(v) PROVE UNCHANGED Promise!vars
    <2> DEFINE page == [visit[v] EXCEPT !.at = "unusable"]
    <2>1. /\ visit[v].at \notin Returned /\ page.at \notin Returned
          /\ visit' = [visit EXCEPT ![v] = page] /\ UNCHANGED <<links, issued>>
      BY <1>0, <1>6 DEF Consume, Turn, TypeOK, Returned
    <2> QED
      BY <1>0, <2>1, PromiseOfVisit
  <1>7. ASSUME NEW v \in Visits, Redirect(v) PROVE [Promise!Next]_(Promise!vars)
    <2>1. visit[v].at = "linking" /\ UNCHANGED <<links, issued>>
      BY <1>7 DEF Redirect
    <2>2. CASE End(v, "unavailable")
      <3> DEFINE page == [Away EXCEPT !.at = "unavailable"]
      <3>1. /\ visit[v].at \notin Returned /\ page.at \notin Returned
            /\ visit' = [visit EXCEPT ![v] = page]
        BY <2>1, <2>2 DEF End, Away, Returned
      <3> QED
        BY <1>0, <2>1, <3>1, PromiseOfVisit
    <2>3. CASE Turn(v, "redirected")
      <3> PICK n \in Nonces : n = visit[v].token.nonce
        BY <1>0 DEF TypeOK, Token
      <3>1. links[n].by = v /\ v # Nobody
        BY <1>0, <2>1, ConstantsAssumption DEF TypeOK, Token, IInv, VisitsHoldTokens
      <3>2. /\ visit'[v].at = "redirected" /\ visit'[v].token = visit[v].token
            /\ \A w \in Visits : w # v => visit'[w] = visit[w]
        BY <1>0, <2>3 DEF Turn, TypeOK
      <3>3. \A w \in Visits : visit[w].at \in Returned /\ visit[w].token.nonce = n => w = v
        BY <3>1 DEF IInv, VisitsHoldTokens
      <3>4. Through(n)' = {v}
        BY <3>2, <3>3 DEF Through, Returned
      <3>5. \A m \in Nonces : m # n => Through(m)' = Through(m)
        BY <2>1, <3>2 DEF Through, Returned
      <3>6. \A m \in Nonces : Owner(m)' = Owner(m)
        BY <2>1 DEF Owner, Unused
      <3>7. Owner(n) = {v}
        BY <3>1 DEF Owner, Unused
      <3>8. [m \in Nonces |-> Through(m)'] = [[m \in Nonces |-> Through(m)] EXCEPT ![n] = {v}]
        BY <3>1, <3>4, <3>5
      <3>9. Promise!SendOn(n, v)
        BY <2>1, <3>1, <3>6, <3>7, <3>8 DEF Promise!SendOn, Owner, Through
      <3> QED
        BY <3>1, <3>9 DEF Promise!Next
    <2> QED
      BY <1>7, <2>2, <2>3 DEF Redirect
  <1>8. ASSUME NEW v \in Visits, Return(v) PROVE UNCHANGED Promise!vars
    <2>1. visit[v].at \in Returned /\ UNCHANGED <<links, issued>>
      BY <1>8, WhoCallsBackReturned DEF Return, Vouch, Bind, Fail, Late, Fresh, Returned
    <2>2. \E page : /\ visit' = [visit EXCEPT ![v] = page]
                    /\ page.at \in Returned /\ page.token = visit[v].token
      <3> DEFINE vouched == [visit[v] EXCEPT !.at = "vouched", !.when = now]
                 settled(place) == [visit[v] EXCEPT !.at = place, !.when = 0]
                 told == [visit[v] EXCEPT !.at = "connected"]
      <3>1. visit' \in {[visit EXCEPT ![v] = page] :
                          page \in {vouched, settled("connected"), settled("redirected"), told}}
        BY <1>0, <1>8 DEF Return, Vouch, Bind, Fail, Late, Settle, Turn, TypeOK
      <3>2. \A page \in {vouched, settled("connected"), settled("redirected"), told} :
              page.at \in Returned /\ page.token = visit[v].token
        BY <1>0 DEF TypeOK, Returned
      <3> QED
        BY <3>1, <3>2
    <2> QED
      BY <1>0, <2>1, <2>2, PromiseOfVisit
  <1>9. CASE UNCHANGED <<links, issued, visit>>
    BY <1>1, <1>9
  <1>10. ASSUME NEW r \in Runs, Look(r) \/ Break(r) PROVE UNCHANGED <<links, issued, visit>>
    BY <1>10 DEF Look, Break
  <1>11. ASSUME Suspend \/ Unsuspend \/ Tick \/ UNCHANGED vars
         PROVE  UNCHANGED <<links, issued, visit>>
    BY <1>11 DEF Suspend, Unsuspend, Tick, vars
  <1> QED
    BY <1>2, <1>3, <1>4, <1>5, <1>6, <1>7, <1>8, <1>9, <1>10, <1>11 DEF Next, Answer, Visiting

(* "Two taps racing each other get one redirect between them": the rows, the *)
(* signed tokens and the conditional UPDATE implement SingleUse.             *)
THEOREM ImplementsSingleUse == Spec => PromiseSpec
  BY InitPromise, StepPromise, Invariance, PTL DEF Spec, PromiseSpec, Promise!Spec
=============================================================================

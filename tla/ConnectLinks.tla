----------------------------- MODULE ConnectLinks -----------------------------
(***************************************************************************)
(* The connect links of one tenant: issued or sent again by the runs of    *)
(* their messages (onboarding/links.py, messaging/onboarding.py), opened,  *)
(* tapped and followed back from Composio by visits of a browser           *)
(* (onboarding/connect.py, api/routers/connect.py), with the signed tokens *)
(* both carry (onboarding/tokens.py). One step per transaction, per call   *)
(* of Composio and per tick of the clock.                                  *)
(*                                                                         *)
(* complete_connect's transaction is one step here, after the one that     *)
(* asks Composio; BindConnection takes it apart. A definition named for a  *)
(* slip (HorizonFull, ..) is the next one as it would be with a bug:       *)
(* README.md, "What would be caught".                                      *)
(***************************************************************************)
EXTENDS Naturals, FiniteSets

CONSTANTS
  Runs,        \* runs of the tenant's messages that may be under way together
  Visits,      \* visits of a browser, each with a token of the chat
  Nobody,      \* a value that is no visit
  TTL,         \* ONBOARDING__LINK_TTL_S, in ticks
  StateAge,    \* STATE_MAX_AGE_S
  Recognised,  \* RECOGNISED_MAX_AGE_S
  MaxTime,     \* bound: the clock
  MaxLinks,    \* bound: links
  MaxTokens    \* bound: links sent

ASSUME ConstantsAssumption ==
  /\ Nobody \notin Visits
  /\ IsFiniteSet(Runs)
  /\ {TTL, StateAge, Recognised, MaxTime, MaxLinks, MaxTokens} \subseteq Nat
  /\ 0 < TTL /\ TTL <= Recognised
  /\ StateAge <= Recognised
  /\ 0 < MaxLinks

VARIABLES
  now,
  status,     \* tenants.status
  bound,      \* the callback that bound the active connection; Nobody's while there is none
  links,      \* links[n]: the onboarding_links row with nonce n, as far as issued
  issued,     \* nonces 1..issued exist
  tokens,     \* the link tokens that were sent
  run,        \* run[r]: the run under way, as far as it got
  visit       \* visit[v]: the visit, as far as it got

vars == <<now, status, bound, links, issued, tokens, run, visit>>

Nonces == 1..MaxLinks
Times == 0..(MaxTime + TTL)
Statuses == {"onboarding", "active", "suspended"}
Bindable == {"onboarding", "active"}

(* used_at is NULL while "by" is Nobody. Only for the properties: "at", when *)
(* the UPDATE was made, and "saw", how many links the run that issued this   *)
(* one could see.                                                            *)
Row == [expires : Times, by : Visits \cup {Nobody}, at : Times, saw : 0..MaxLinks]
Unissued == [expires |-> 0, by |-> Nobody, at |-> 0, saw |-> 0]

(* A signed token; "asked" is the time of the message it answers. *)
Token == [salt : {"link", "state"}, nonce : Nonces, signed : Times, asked : Times]

(* A visit's "when" is the time its tap or its callback came. Only for the   *)
(* properties: "seen", the status its refusal found the tenant in, and how   *)
(* long after its link was spent a callback came, in bound's "age".          *)
Connected == bound.by # Nobody

Idle == [creates |-> FALSE, asked |-> 0, saw |-> 0]
NoToken == [salt |-> "link", nonce |-> 1, signed |-> 0, asked |-> 0]
Away == [at |-> "away", token |-> NoToken, when |-> 0, seen |-> "onboarding"]

Init ==
  /\ now = 0
  /\ status = "onboarding"
  /\ bound = [by |-> Nobody, age |-> 0]
  /\ links = [n \in Nonces |-> Unissued]
  /\ issued = 0
  /\ tokens = {}
  /\ run = [r \in Runs |-> Idle]
  /\ visit = [v \in Visits |-> Away]

-----------------------------------------------------------------------------
(* The rows and the tokens. *)

(* latest_usable_link: unused, unexpired at a given time, the newest first. *)
Unused(n) == links[n].by = Nobody

Usable(n, at) == Unused(n) /\ links[n].expires > at

LatestUsable(at) ==
  LET usable == {n \in 1..issued : Usable(n, at)}
  IN {n \in usable : \A m \in usable : links[m].expires <= links[n].expires}

(* Half the life must remain. *)
HorizonFull(asked) == asked + TTL
HorizonNone(asked) == asked
Horizon(asked) == asked + TTL \div 2

(* tokens.verify: the salt it was signed under, and not too long ago. *)
Verify(token, salt, age) == token.salt = salt /\ now <= token.signed + age

(* _link: ours at all; usable if it is within the link's own life. *)
Ours(token) == Verify(token, "link", Recognised)
InLife(token) == Verify(token, "link", TTL)

-----------------------------------------------------------------------------
(* A run of a message in the connect step: confirm, or the connect step's    *)
(* own branch. The gate's "now" and the start of the transaction are one     *)
(* moment here, and so is a row's place in the order of creation.            *)

(* sign, and send_once: the link is delivered, or the send was settled, was  *)
(* refused, or the worker died before it.                                    *)
Deliver(n, asked) ==
  \/ /\ Cardinality(tokens) < MaxTokens
     /\ tokens' = tokens \cup {[salt |-> "link", nonce |-> n, signed |-> now, asked |-> asked]}
  \/ UNCHANGED tokens

(* issue_or_reuse_link's SELECT; what it found is signed at once.            *)
Look(r) ==
  LET found == LatestUsable(Horizon(now))
  IN /\ run[r] = Idle
     /\ status = "onboarding"
     /\ IF found = {}
        THEN /\ run' = [run EXCEPT ![r] = [creates |-> TRUE, asked |-> now, saw |-> issued]]
             /\ UNCHANGED tokens
        ELSE UNCHANGED run /\ \E n \in found : Deliver(n, now)
     /\ UNCHANGED <<now, status, bound, links, issued, visit>>

(* create_link and the commit, then the signing. *)
Create(r) ==
  /\ run[r].creates
  /\ issued < MaxLinks
  /\ issued' = issued + 1
  /\ links' = [links EXCEPT ![issued'] =
                 [expires |-> run[r].asked + TTL, by |-> Nobody, at |-> 0, saw |-> run[r].saw]]
  /\ run' = [run EXCEPT ![r] = Idle]
  /\ Deliver(issued', run[r].asked)
  /\ UNCHANGED <<now, status, bound, visit>>

(* The transaction is rolled back. *)
Break(r) ==
  /\ run[r].creates
  /\ run' = [run EXCEPT ![r] = Idle]
  /\ UNCHANGED <<now, status, bound, links, issued, tokens, visit>>

Answer(r) == Look(r) \/ Create(r) \/ Break(r)

-----------------------------------------------------------------------------
(* A visit. *)

Ended == {"unusable", "already", "unavailable"}
Returned == {"redirected", "vouched", "connected"}

Turn(v, place) == visit' = [visit EXCEPT ![v].at = place]

Show(v, page, token, when) ==
  visit' = [visit EXCEPT ![v] = [Away EXCEPT !.at = page, !.token = token, !.when = when]]

Refuse(v, token) ==
  visit' = [visit EXCEPT ![v] = [at |-> "unusable", token |-> token, when |-> now, seen |-> status]]

End(v, page) == visit' = [visit EXCEPT ![v] = [Away EXCEPT !.at = page]]

(* What both routes make of the tenant they read, for a token of the path:  *)
(* a suspended tenant gets the page of a link that cannot be used.          *)
PageOfStatus(token) == IF InLife(token) THEN status ELSE "unusable"
PageFor(token) ==
  CASE Ours(token) /\ status = "active" -> "already"
    [] InLife(token) /\ status = "onboarding" -> "go on"
    [] OTHER -> "unusable"

Enter(v, token, next) ==
  CASE PageFor(token) = "go on" -> Show(v, next, token, IF next = "consume" THEN now ELSE 0)
    [] PageFor(token) = "unusable" -> Refuse(v, token)
    [] OTHER -> End(v, PageFor(token))

(* GET /connect/{token}, open_link: the page with the button, or another.   *)
Open(v) ==
  /\ visit[v].at = "away"
  /\ \E token \in tokens : Enter(v, token, "shown")
  /\ UNCHANGED <<now, status, bound, links, issued, tokens, run>>

(* POST /connect/{token}, start_connect up to the UPDATE: "when" is its now. *)
Tap(v) ==
  /\ visit[v].at = "shown"
  /\ Enter(v, visit[v].token, "consume")
  /\ UNCHANGED <<now, status, bound, links, issued, tokens, run>>

(* consume_link, one conditional UPDATE. *)
SpendableTwice(v) == links[visit[v].token.nonce].expires > visit[v].when
Spendable(v) == Usable(visit[v].token.nonce, visit[v].when)

(* .. and its commit; the state is signed before Composio is asked.         *)
Consume(v) ==
  LET n == visit[v].token.nonce
  IN /\ visit[v].at = "consume"
     /\ IF Spendable(v)
        THEN /\ links' = [links EXCEPT ![n].by = v, ![n].at = now]
             /\ Show(v, "linking", [visit[v].token EXCEPT !.salt = "state", !.signed = now], 0)
        ELSE Turn(v, "unusable") /\ UNCHANGED links
     /\ UNCHANGED <<now, status, bound, issued, tokens, run>>

(* ComposioConnector.link: a URL, or a provider error, which costs the link. *)
Redirect(v) ==
  /\ visit[v].at = "linking"
  /\ Turn(v, "redirected") \/ End(v, "unavailable")
  /\ UNCHANGED <<now, status, bound, links, issued, tokens, run>>

(* GET /connect/callback, and its reloads. complete_connect first: a state   *)
(* that is good for binding goes to Composio, which vouches for the account. *)
(* A link's own token may be tried in the place of the state.                *)
FreshWhileOurs(token) == Verify(token, "state", Recognised)
Fresh(token) == Verify(token, "state", StateAge)

CallsBack(v) == visit[v].at \in {"shown", "redirected", "connected"}

Vouch(v) ==
  /\ CallsBack(v)
  /\ Fresh(visit[v].token)
  /\ visit' = [visit EXCEPT ![v].at = "vouched", ![v].when = now]
  /\ UNCHANGED <<now, status, bound, links, issued, tokens, run>>

Settle(v, place) == visit' = [visit EXCEPT ![v].at = place, ![v].when = 0]

(* .. then its transaction: bind_connection and activate.                    *)
Bind(v) ==
  /\ visit[v].at = "vouched"
  /\ status \in Bindable
  /\ status' = "active"
  /\ bound' = [by |-> v, age |-> visit[v].when - links[visit[v].token.nonce].at]
  /\ Settle(v, "connected")
  /\ UNCHANGED <<now, links, issued, tokens, run>>

(* A suspended tenant, or nothing Composio vouches for: a page that can be   *)
(* loaded again, as after Composio's own.                                    *)
Fail(v) ==
  /\ visit[v].at = "vouched"
  /\ Settle(v, "redirected")
  /\ UNCHANGED <<now, status, bound, links, issued, tokens, run>>

(* _late: a state past that is only told how things are.                     *)
Late(v) ==
  /\ CallsBack(v)
  /\ ~Fresh(visit[v].token)
  /\ Verify(visit[v].token, "state", Recognised)
  /\ status = "active" /\ Connected
  /\ Turn(v, "connected")
  /\ UNCHANGED <<now, status, bound, links, issued, tokens, run>>

Return(v) == Vouch(v) \/ Bind(v) \/ Fail(v) \/ Late(v)

Visiting(v) == Open(v) \/ Tap(v) \/ Consume(v) \/ Redirect(v) \/ Return(v)

-----------------------------------------------------------------------------
(* po-admin, and the clock. *)

Suspend ==
  /\ status # "suspended"
  /\ status' = "suspended"
  /\ UNCHANGED <<now, bound, links, issued, tokens, run, visit>>

Unsuspend ==
  /\ status = "suspended"
  /\ status' = IF Connected THEN "active" ELSE "onboarding"
  /\ UNCHANGED <<now, bound, links, issued, tokens, run, visit>>

Tick ==
  /\ now < MaxTime
  /\ now' = now + 1
  /\ UNCHANGED <<status, bound, links, issued, tokens, run, visit>>

Next ==
  \/ \E r \in Runs : Answer(r)
  \/ \E v \in Visits : Visiting(v)
  \/ Suspend \/ Unsuspend \/ Tick

Spec == Init /\ [][Next]_vars

-----------------------------------------------------------------------------
(* Properties. *)

TypeOK ==
  /\ now \in 0..MaxTime
  /\ status \in Statuses
  /\ bound \in [by : Visits \cup {Nobody}, age : Times]
  /\ links \in [Nonces -> Row]
  /\ issued \in 0..MaxLinks
  /\ tokens \subseteq Token
  /\ run \in [Runs -> [creates : BOOLEAN, asked : Times, saw : 0..MaxLinks]]
  /\ visit \in [Visits -> [at : {"away", "shown", "consume", "linking"} \cup Ended \cup Returned,
                           token : Token, when : Times, seen : Statuses]]

HalfLife == TTL \div 2

(* "Every message in the connect step re-sends a link, so links are reused: *)
(* a user who writes five times holds one live link": while a link has half *)
(* its life left, another is only issued by a run that looked before it.    *)
OneFreshLink ==
  \A n, m \in 1..issued :
    n < m /\ Usable(n, now + HalfLife) /\ Usable(m, now + HalfLife) => links[m].saw < n

(* "A link with seconds left would expire while the user switches to the    *)
(* browser": a visit that the page or the tap sends back to the bot for a   *)
(* new link had one that was older than half its life, or that another      *)
(* visit spent after it was asked for, or came for a suspended tenant, who  *)
(* is given the same page.                                                  *)
RefusedForCause ==
  \A v \in Visits :
    LET token == visit[v].token
        row == links[token.nonce]
    IN visit[v].at = "unusable" =>
         \/ visit[v].seen = "suspended"
         \/ visit[v].when > token.asked + HalfLife
         \/ row.by \notin {Nobody, v} /\ row.at >= token.asked

(* "A link token is never accepted as callback state", and a state that     *)
(* came late binds nothing: the callback that bound the tenant's connection *)
(* was of the very visit that spent its link, and came at most              *)
(* STATE_MAX_AGE_S after that.                                              *)
ConnectedBySpending ==
  Connected => links[visit[bound.by].token.nonce].by = bound.by /\ bound.age <= StateAge

-----------------------------------------------------------------------------
(* "Two taps racing each other get one redirect between them."              *)
Promise == INSTANCE SingleUse WITH
  Taps <- Visits,
  issued <- 1..issued,
  owner <- [n \in Nonces |-> IF Unused(n) THEN {} ELSE {links[n].by}],
  through <- [n \in Nonces |->
                {v \in Visits : visit[v].at \in Returned /\ visit[v].token.nonce = n}]

PromiseSpec == Promise!Spec
=============================================================================

------------------------------- MODULE Webhooks -------------------------------
(***************************************************************************)
(* A webhook request from its first byte to its status code: the body's    *)
(* cap (api/routing.py), its signature, its parsing into messages and      *)
(* receipts (providers/channel/*/parser.py) and their one transaction      *)
(* (api/routers/webhooks.py, messaging/ingress.py). What a transaction     *)
(* writes, and what becomes of it, is Ingress.                             *)
(*                                                                         *)
(* A body is a few events. An event is an object of it, or something else  *)
(* in an object's place; only the gateway tells of one's own messages, of  *)
(* groups and of read receipts of ours.                                    *)
(***************************************************************************)
EXTENDS Configuration, Sequences

CONSTANT
  MaxEvents \* bound: events in one of Meta's bodies; the gateway sends one

VARIABLES
  request,  \* the request being answered, or Idle
  answer,   \* its status code
  database, \* "down" when it fails the transaction
  stored    \* the events of it that are in the inbox, or moved the outbox

webhooks == <<request, answer, database, stored>>
webhookVars == <<configuration, webhooks>>

Idle == [route |-> "none"]

-----------------------------------------------------------------------------
(* Requests. *)

(* "phone" and "id" are how the event names its sender: in "from", and in    *)
(* the field for a user id (a BSUID, or the linked id). A text may hold what *)
(* PostgreSQL does not: NUL, or half of a surrogate pair.                    *)
Messages ==
  [what : {"message"}, to : {"us", "other"}, id : BOOLEAN,
   from : {"phone", "id", "none"}, alias : BOOLEAN, text : {"plain", "nul", "surrogate"},
   ours : {FALSE}]

Receipts ==
  [what : {"receipt"}, to : {"us"}, id : BOOLEAN, status : {"known", "other"},
   ours : {FALSE}]

Others == {[what |-> "other", to |-> "us"], [what |-> "no object"]}

Ours(events) == {[event EXCEPT !.ours = TRUE] : event \in events}

(* GOWA__DEVICE_ID is "only needed when the gateway holds more than one".    *)
Sent(route) ==
  {m \in Messages : route = "whatsapp" \/ device = "set" \/ m.to = "us"}

Events(route) ==
  Sent(route) \cup Receipts \cup Others
  \cup (IF route = "gowa" THEN Ours(Sent(route)) \cup Ours(Receipts) ELSE {})

Bodies(route) ==
  UNION {[1..n -> Events(route)] : n \in 1..(IF route = "gowa" THEN 1 ELSE MaxEvents)}

(* A request as its sender means it, and one that is not as it should be.    *)
Meant(route) ==
  {[route |-> route, signer |-> route, size |-> "small", json |-> TRUE, body |-> body] :
     body \in Bodies(route)}

Plain ==
  [what |-> "message", to |-> "us", id |-> TRUE,
   from |-> "phone", alias |-> FALSE, text |-> "plain", ours |-> FALSE]

Misshapen(route) ==
  [route : {route}, signer : Channels \cup {"nobody"}, size : {"small", "declared", "streamed"},
   json : BOOLEAN, body : {<<Plain>>}]

-----------------------------------------------------------------------------
(* The parsers. *)

Parsable(event) == event.what # "no object"

(* Meta names our number in each change, the gateway our device in the       *)
(* event: an empty device is another one, and no other is none.              *)
Addressed(route, event) ==
  IF route = "whatsapp" THEN event.to = "us"
  ELSE device = "none" \/ (device = "set" /\ event.to = "us")

(* _sender, to SenderRef. *)
UserId(route, event) ==
  IF route = "whatsapp"
  THEN event.alias \/ event.from = "id"
  ELSE event.from # "phone" /\ (event.from = "id" \/ event.alias)

Phone(event) == event.from = "phone"

(* Not one of ours, with an id and a sender. *)
Identified(route, event) ==
  event.id /\ ~event.ours /\ (UserId(route, event) \/ Phone(event))

IsUpdate(event) == event.id /\ event.status = "known" /\ ~event.ours

(* parse_webhook: skips what it cannot use, and goes on. *)
UpToTheFirst(route, body) ==
  {i \in DOMAIN body :
     \A j \in 1..i :
       /\ Parsable(body[j]) /\ Addressed(route, body[j])
       /\ \/ body[j].what = "message" /\ Identified(route, body[j])
          \/ body[j].what = "receipt" /\ IsUpdate(body[j])}
Parsed(route, body) ==
  {i \in DOMAIN body :
     /\ Parsable(body[i]) /\ Addressed(route, body[i])
     /\ \/ body[i].what = "message" /\ Identified(route, body[i])
        \/ body[i].what = "receipt" /\ IsUpdate(body[i])}

-----------------------------------------------------------------------------
(* The handler. *)

WebhooksInit ==
  /\ ConfigurationInit
  /\ request = Idle
  /\ answer = 0
  /\ database = "up"
  /\ stored = {}

Arrive ==
  /\ phase = "serving" /\ request = Idle
  /\ \E route \in channels : request' \in Meant(route) \cup Misshapen(route)
  /\ UNCHANGED <<configuration, answer, database, stored>>

(* RawBodyRoute: by Content-Length, or while reading. *)
Capped == request.size \in {"declared", "streamed"}

(* verify_signature, over the exact bytes and with the route's own secret. *)
Verified == request.signer = request.route

Pending == request # Idle /\ answer = 0

(* _ingest, which stores nothing in these cases. *)
Reject ==
  /\ Pending
  /\ answer' = IF Capped THEN 413 ELSE 401
  /\ Capped \/ ~Verified
  /\ UNCHANGED <<configuration, request, database, stored>>

Useless == ~request.json \/ Parsed(request.route, request.body) = {}

Ignore ==
  /\ Pending /\ ~Capped /\ Verified
  /\ Useless
  /\ answer' = 200
  /\ UNCHANGED <<configuration, request, database, stored>>

(* _without_nul and the driver's encoding of what is left. *)
Storable(event) == event.what = "message" => event.text # "surrogate"

Record ==
  LET parsed == Parsed(request.route, request.body)
  IN /\ Pending /\ ~Capped /\ Verified /\ ~Useless
     /\ \A i \in parsed : Storable(request.body[i])
     /\ answer' = 200
     /\ stored' = parsed
     /\ UNCHANGED <<configuration, request, database>>

(* The database fails, or an event's text is not for it: nothing is stored,  *)
(* and the sender delivers the body again.                                   *)
Fail ==
  LET parsed == Parsed(request.route, request.body)
  IN /\ Pending /\ ~Capped /\ Verified /\ ~Useless
     /\ answer' = 500
     /\ \/ database' = "down"
        \/ ~(\A i \in parsed : Storable(request.body[i])) /\ UNCHANGED database
     /\ UNCHANGED <<configuration, request, stored>>

Done ==
  /\ answer # 0
  /\ request' = Idle
  /\ answer' = 0
  /\ database' = "up"
  /\ stored' = {}
  /\ UNCHANGED configuration

WebhooksNext ==
  \/ Boot /\ UNCHANGED webhooks
  \/ Arrive \/ Reject \/ Ignore \/ Record \/ Fail \/ Done

WebhooksSpec == WebhooksInit /\ [][WebhooksNext]_webhookVars

-----------------------------------------------------------------------------
(* Properties. *)

Ownable(event) ==
  \/ /\ event.what = "message"
     /\ event.to = "us" /\ event.id /\ ~event.ours
     /\ event.from # "none" \/ event.alias
  \/ event.what = "receipt" /\ event.id /\ event.status = "known" /\ ~event.ours

(* "Store what can be stored": a body answered 200 that its provider signed  *)
(* has left every message to us, and every receipt for ours, that has an id  *)
(* and a sender, whatever else is in the body, and nothing we sent ourselves *)
(* or was sent to another, nor a message of nobody, whose key would be       *)
(* everyone's; any other answer has left nothing. This is not said of a      *)
(* gateway whose GOWA__DEVICE_ID is set to nothing: the parser compares with *)
(* it, no event's device is that one, and all of them are skipped behind a   *)
(* 200 (gowa/parser.py).                                                     *)
StoresWhatIsOurs ==
  /\ answer = 200 /\ Verified /\ request.json /\ device # "empty" =>
       stored = {i \in DOMAIN request.body : Ownable(request.body[i])}
  /\ answer # 200 => stored = {}

(* "500 when our database fails", and not otherwise.                         *)
FailsWithTheDatabase == answer = 500 => database = "down"
=============================================================================

---------------------------- MODULE WebhooksProofs ----------------------------
(* Proofs about Configuration and Webhooks, which make up WebhooksSpec: for   *)
(* bodies of any length and any changes of the environment.                   *)
EXTENDS Webhooks, TLAPS

-----------------------------------------------------------------------------
(* The inductive invariant. *)

ConfigurationOK ==
  /\ phase \in {"editing", "refused", "accepted", "serving"}
  /\ DOMAIN env = DOMAIN Values
  /\ env["GOWA__DEVICE_ID"] \in Text
  /\ channels \subseteq Channels
  /\ device \in Text

(* The environment that was accepted is the one that is started with. *)
AcceptedHasNoProblem == phase = "accepted" => Problems = {}

(* A request came to a route that is mounted, and is made of the events its   *)
(* provider sends, for as long as it is answered.                             *)
RequestOK ==
  request # Idle =>
    /\ phase = "serving"
    /\ request.route \in Channels
    /\ \A i \in DOMAIN request.body : request.body[i] \in Events(request.route)

AnswersARequest ==
  /\ answer \in {0, 200, 401, 413, 500}
  /\ answer # 0 => request # Idle
  /\ answer # 200 => stored = {}

StoredIsParsed == answer = 200 => stored \subseteq Parsed(request.route, request.body)

IInv ==
  /\ ConfigurationOK
  /\ AcceptedHasNoProblem
  /\ RequestOK
  /\ AnswersARequest
  /\ StoredIsParsed
  /\ StoresWhatIsOurs

-----------------------------------------------------------------------------
(* The settings. *)

(* What a client cannot be built without is what a validator asks for. *)
LEMMA NeededIsRequired ==
  /\ DOMAIN Needed = DOMAIN Required
  /\ \A p \in DOMAIN Needed : Needed[p] \subseteq Required[p]
  BY DEF Needed, Required

LEMMA AcceptedIsNotRefused ==
  ASSUME Problems = {}, DOMAIN env = DOMAIN Values
  PROVE  /\ ~Refuses
         /\ On("WHATSAPP__ENABLED") => Given("WHATSAPP__APP_SECRET")
         /\ On("GOWA__ENABLED") => Given("GOWA__WEBHOOK_SECRET")
         /\ env["RAILWAY"] = "set" => "placeholder" \notin {env[v] : v \in Secrets}
  <1>1. Missing = {} /\ Untrue = {}
    BY DEF Problems
  <1>2. ASSUME NEW p \in DOMAIN Required, NEW v \in Required[p], On(p) PROVE Given(v)
    BY <1>1, <1>2 DEF Missing
  <1>3. ~Refuses
    <2> SUFFICES ASSUME NEW p \in DOMAIN Needed, On(p), NEW v \in Needed[p], IsNone(v)
                 PROVE  FALSE
      BY DEF Refuses
    <2>1. Given(v)
      BY <1>2, NeededIsRequired
    <2> QED
      BY <2>1 DEF Given, IsNone
  <1>4. On("WHATSAPP__ENABLED") => Given("WHATSAPP__APP_SECRET")
    BY <1>2 DEF Required
  <1>5. On("GOWA__ENABLED") => Given("GOWA__WEBHOOK_SECRET")
    BY <1>2 DEF Required
  <1>6. env["RAILWAY"] = "set" => "placeholder" \notin {env[v] : v \in Secrets}
    <2>1. env["RAILWAY"] = "set" => Loose = {}
      BY <1>1 DEF Untrue
    <2>2. Secrets \subseteq DOMAIN env
      BY DEF Secrets, Values
    <2> QED
      BY <2>1, <2>2 DEF Loose
  <1> QED
    BY <1>3, <1>4, <1>5, <1>6

LEMMA DeviceOfTemplates ==
  /\ Local["GOWA__DEVICE_ID"] = "none" /\ Complete["GOWA__DEVICE_ID"] = "none"
  /\ DOMAIN Local = DOMAIN Values /\ DOMAIN Complete = DOMAIN Values
  <1>1. "GOWA__DEVICE_ID" \in DOMAIN Values /\ Values["GOWA__DEVICE_ID"] = Text
    BY DEF Values
  <1>2. Text # Switch
    BY DEF Text, Optional, Switch
  <1>3. Local["GOWA__DEVICE_ID"] = "none" /\ Complete["GOWA__DEVICE_ID"] = "none"
    BY <1>1, <1>2, Zenon DEF Local, Complete
  <1>4. DOMAIN Local = DOMAIN Values /\ DOMAIN Complete = DOMAIN Values
    BY Zenon DEF Local, Complete
  <1> QED
    BY <1>3, <1>4

-----------------------------------------------------------------------------
(* The parsers. *)

(* What is parsed of an event, whichever of the two providers sent it, is     *)
(* what is for us to keep: the two parsers tell the sender by different       *)
(* fields and the recipient by different ids.                                 *)
LEMMA ParsedIsOwnable ==
  ASSUME NEW route \in Channels, device \in Text, device # "empty",
         NEW event \in Events(route)
  PROVE  /\ Parsable(event) /\ Addressed(route, event)
         /\ \/ event.what = "message" /\ Identified(route, event)
            \/ event.what = "receipt" /\ IsUpdate(event)
         <=> Ownable(event)
  <1> USE DEF Parsable, Addressed, Identified, UserId, Phone, IsUpdate, Ownable
  <1>0. (route = "whatsapp" \/ route = "gowa") /\ (device = "none" \/ device = "set")
    BY DEF Channels, Text, Optional
  <1>1. CASE event \in Sent(route)
    <2>1. /\ event.what = "message" /\ event.to \in {"us", "other"}
          /\ event.from \in {"phone", "id", "none"} /\ event.alias \in BOOLEAN
          /\ event.id \in BOOLEAN /\ event.ours = FALSE
      BY <1>1 DEF Sent, Messages
    <2>2. route = "whatsapp" \/ device = "set" \/ event.to = "us"
      BY <1>1 DEF Sent
    <2>3. Addressed(route, event) <=> event.to = "us"
      BY <1>0, <2>1, <2>2
    <2> QED
      BY <1>0, <2>1, <2>3
  <1>2. CASE event \in Receipts
    <2>1. event.what = "receipt" /\ event.to = "us" /\ event.id \in BOOLEAN /\ event.ours = FALSE
      BY <1>2 DEF Receipts
    <2> QED
      BY <1>0, <2>1
  <1>3. CASE event \in Others
    <2>1. event = [what |-> "other", to |-> "us"] \/ event = [what |-> "no object"]
      BY <1>3, Zenon DEF Others
    <2>2. CASE event = [what |-> "other", to |-> "us"]
      <3>1. event.what = "other"
        BY <2>2
      <3> QED
        BY <3>1
    <2>3. CASE event = [what |-> "no object"]
      <3>1. event.what = "no object"
        BY <2>3
      <3> QED
        BY <3>1
    <2> QED
      BY <2>1, <2>2, <2>3
  <1>4. CASE event \in Ours(Sent(route)) \cup Ours(Receipts)
    <2>1. PICK e \in Messages \cup Receipts : event = [e EXCEPT !.ours = TRUE]
      BY <1>4 DEF Ours, Sent
    <2>2. event.ours = TRUE
      BY <2>1 DEF Messages, Receipts
    <2> QED
      BY <2>2
  <1> QED
    BY <1>1, <1>2, <1>3, <1>4 DEF Events

LEMMA ParsedAreOwnable ==
  ASSUME NEW route \in Channels, device \in Text, device # "empty",
         NEW body, \A i \in DOMAIN body : body[i] \in Events(route)
  PROVE  Parsed(route, body) = {i \in DOMAIN body : Ownable(body[i])}
  BY ParsedIsOwnable DEF Parsed

LEMMA BodiesAreEvents ==
  ASSUME NEW route \in Channels, NEW r \in Meant(route) \cup Misshapen(route)
  PROVE  r.route = route /\ \A i \in DOMAIN r.body : r.body[i] \in Events(route)
  <1>1. CASE r \in Meant(route)
    <2>1. PICK body \in Bodies(route) :
            r = [route |-> route, signer |-> route, size |-> "small", json |-> TRUE, body |-> body]
      BY <1>1 DEF Meant
    <2>2. PICK n : body \in [1..n -> Events(route)]
      BY DEF Bodies
    <2> QED
      BY <2>1, <2>2
  <1>2. CASE r \in Misshapen(route)
    <2>1. r.route = route /\ r.body \in {<<Plain>>}
      BY <1>2 DEF Misshapen
    <2>2. r.body = <<Plain>>
      BY <2>1
    <2>3. Plain \in Messages /\ Plain.to = "us"
      BY DEF Plain, Messages
    <2>4. Plain \in Events(route)
      BY <2>3 DEF Events, Sent
    <2> QED
      BY <2>1, <2>2, <2>4
  <1> QED
    BY <1>1, <1>2

-----------------------------------------------------------------------------
LEMMA InitIInv == WebhooksInit => IInv
  <1> SUFFICES ASSUME WebhooksInit PROVE IInv
    OBVIOUS
  <1>1. ConfigurationOK
    BY DeviceOfTemplates DEF WebhooksInit, ConfigurationInit, ConfigurationOK, Text, Optional
  <1> QED
    BY <1>1 DEF WebhooksInit, ConfigurationInit, IInv, AcceptedHasNoProblem, RequestOK,
      AnswersARequest, StoredIsParsed, StoresWhatIsOurs

(* The environment is edited, loaded and started with before there are        *)
(* requests.                                                                  *)
LEMMA StepBoot == ASSUME IInv, Boot, UNCHANGED webhooks PROVE IInv'
  <1>0. ConfigurationOK /\ AcceptedHasNoProblem /\ RequestOK /\ AnswersARequest
    BY DEF IInv
  <1>1. phase # "serving" /\ request = Idle /\ answer = 0 /\ stored = {}
    BY <1>0 DEF Boot, Load, Start, Export, RequestOK, AnswersARequest
  <1>2. request' = Idle /\ answer' = 0 /\ stored' = {}
    BY <1>1 DEF webhooks
  <1>3. (RequestOK /\ AnswersARequest /\ StoredIsParsed /\ StoresWhatIsOurs)'
    BY <1>2 DEF RequestOK, AnswersARequest, StoredIsParsed, StoresWhatIsOurs
  <1>4. CASE Load
    <2>1. UNCHANGED <<env, changes, channels, device>>
          /\ phase' = IF Problems = {} THEN "accepted" ELSE "refused"
      BY <1>4 DEF Load
    <2>2. Problems' = Problems
      BY <2>1 DEF Problems, Missing, Malformed, Untrue, Loose, Deployed, Given, On
    <2> QED
      BY <1>0, <1>3, <2>1, <2>2 DEF IInv, ConfigurationOK, AcceptedHasNoProblem
  <1>5. CASE Start
    <2>1. phase = "accepted" /\ ~Refuses
      BY <1>0, <1>5, AcceptedIsNotRefused DEF Start, AcceptedHasNoProblem, ConfigurationOK
    <2>2. /\ phase' = "serving" /\ device' = env["GOWA__DEVICE_ID"] /\ env' = Local
          /\ channels' \subseteq Channels
      BY <1>5, <2>1 DEF Start
    <2>3. ConfigurationOK'
      BY <1>0, <2>2, DeviceOfTemplates DEF ConfigurationOK, Text, Optional
    <2> QED
      BY <1>3, <2>2, <2>3 DEF IInv, AcceptedHasNoProblem
  <1>6. ASSUME NEW v \in DOMAIN env, Export(v) PROVE IInv'
    <2>1. phase' = "editing" /\ UNCHANGED <<channels, device>>
      BY <1>6 DEF Export
    <2>2. PICK value \in Values[v] : env' = [env EXCEPT ![v] = value]
      BY <1>6 DEF Export
    <2>3. env'["GOWA__DEVICE_ID"] \in Text
      <3>1. Values["GOWA__DEVICE_ID"] = Text
        BY DEF Values
      <3> QED
        BY <1>0, <2>2, <3>1 DEF ConfigurationOK
    <2>4. ConfigurationOK' /\ AcceptedHasNoProblem'
      BY <1>0, <2>1, <2>2, <2>3 DEF ConfigurationOK, AcceptedHasNoProblem
    <2> QED
      BY <1>3, <2>4 DEF IInv
  <1> QED
    BY <1>4, <1>5, <1>6 DEF Boot

LEMMA StepWebhook ==
  ASSUME IInv, Arrive \/ Reject \/ Ignore \/ Record \/ Fail \/ Done
  PROVE  IInv'
  <1>0. ConfigurationOK /\ AcceptedHasNoProblem /\ RequestOK /\ AnswersARequest
        /\ StoredIsParsed /\ StoresWhatIsOurs
    BY DEF IInv
  <1>1. UNCHANGED configuration
    BY DEF Arrive, Reject, Ignore, Record, Fail, Done
  <1>2. UNCHANGED <<env, phase, channels, device>>
    BY <1>1 DEF configuration
  <1>3. (ConfigurationOK /\ AcceptedHasNoProblem)'
    BY <1>0, <1>2 DEF ConfigurationOK, AcceptedHasNoProblem, Problems, Missing, Malformed,
      Untrue, Loose, Deployed, Given, On
  <1>4. \A route : Events(route)' = Events(route)
    BY <1>2 DEF Events, Sent
  <1>5. \A route, body : Parsed(route, body)' = Parsed(route, body)
    BY <1>2 DEF Parsed, Addressed
  <1>6. CASE Arrive
    <2>1. phase = "serving" /\ request = Idle /\ UNCHANGED <<answer, stored>>
      BY <1>6 DEF Arrive
    <2>2. PICK route \in Channels : request' \in Meant(route) \cup Misshapen(route)
      BY <1>0, <1>6 DEF Arrive, ConfigurationOK
    <2>3. answer' = 0 /\ stored' = {}
      BY <1>0, <2>1 DEF AnswersARequest
    <2>4. RequestOK'
      BY <1>2, <1>4, <2>1, <2>2, BodiesAreEvents DEF RequestOK
    <2> QED
      BY <1>3, <2>3, <2>4 DEF IInv, AnswersARequest, StoredIsParsed, StoresWhatIsOurs
  <1>7. CASE Done
    <2>1. request' = Idle /\ answer' = 0 /\ stored' = {}
      BY <1>7 DEF Done
    <2> QED
      BY <1>3, <2>1 DEF IInv, RequestOK, AnswersARequest, StoredIsParsed, StoresWhatIsOurs
  <1>8. ASSUME Pending, UNCHANGED request PROVE RequestOK' /\ request # Idle /\ stored = {}
    BY <1>0, <1>2, <1>4, <1>8 DEF Pending, RequestOK, AnswersARequest
  <1>9. CASE Reject \/ Fail
    <2>1. Pending /\ answer' \in {401, 413, 500} /\ UNCHANGED <<request, stored>>
      BY <1>9 DEF Reject, Fail
    <2> QED
      BY <1>3, <1>8, <2>1 DEF IInv, AnswersARequest, StoredIsParsed, StoresWhatIsOurs
  <1>10. CASE Ignore \/ Record
    <2>1. Pending /\ answer' = 200 /\ UNCHANGED request
      BY <1>10 DEF Ignore, Record
    <2>2. \/ stored' = {} /\ (~request.json \/ Parsed(request.route, request.body) = {})
          \/ stored' = Parsed(request.route, request.body)
      BY <1>8, <1>10, <2>1 DEF Ignore, Record, Useless
    <2>3. AnswersARequest' /\ StoredIsParsed'
      BY <1>5, <1>8, <2>1, <2>2 DEF AnswersARequest, StoredIsParsed
    <2>4. device # "empty" =>
            Parsed(request.route, request.body) =
              {i \in DOMAIN request.body : Ownable(request.body[i])}
      BY <1>0, <1>8, <2>1, ParsedAreOwnable DEF ConfigurationOK, RequestOK
    <2>5. StoresWhatIsOurs'
      BY <1>2, <2>1, <2>2, <2>4 DEF StoresWhatIsOurs
    <2> QED
      BY <1>3, <1>8, <2>1, <2>3, <2>5 DEF IInv
  <1> QED
    BY <1>6, <1>7, <1>9, <1>10

LEMMA StepIInv == IInv /\ [WebhooksNext]_webhookVars => IInv'
  <1>1. ASSUME IInv, UNCHANGED webhookVars PROVE IInv'
    BY <1>1 DEF webhookVars, configuration, webhooks, IInv, ConfigurationOK, AcceptedHasNoProblem,
      RequestOK, AnswersARequest, StoredIsParsed, StoresWhatIsOurs, Problems, Missing, Malformed,
      Untrue, Loose, Deployed, Given, On, Events, Sent, Parsed, Addressed, Verified
  <1> QED
    BY <1>1, StepBoot, StepWebhook DEF WebhooksNext

THEOREM Invariance == WebhooksSpec => []IInv
  BY InitIInv, StepIInv, PTL DEF WebhooksSpec

(* "Store what can be stored": for bodies of any length, from either          *)
(* provider and under every setting, an answer of 200 has stored what was for *)
(* us and any other nothing.                                                  *)
THEOREM StoresOurs == WebhooksSpec => []StoresWhatIsOurs
  BY Invariance, PTL DEF IInv

(* Whatever an operator exports, what the validators accept, every client and *)
(* every mounted webhook has what it needs of, and no public placeholder is    *)
(* the pepper or the link secret on the platform.                             *)
THEOREM AcceptedSettingsSuffice == WebhooksSpec => []RefusedAtBootOrNever
  <1>1. IInv => RefusedAtBootOrNever
    <2> SUFFICES ASSUME IInv PROVE RefusedAtBootOrNever
      OBVIOUS
    <2>1. /\ phase # "failed" /\ (phase = "accepted" => Problems = {})
          /\ DOMAIN env = DOMAIN Values
      BY DEF IInv, ConfigurationOK, AcceptedHasNoProblem
    <2> QED
      BY <2>1, AcceptedIsNotRefused DEF RefusedAtBootOrNever
  <1> QED
    BY <1>1, Invariance, PTL
=============================================================================

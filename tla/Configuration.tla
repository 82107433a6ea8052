---------------------------- MODULE Configuration ----------------------------
(***************************************************************************)
(* settings.py: the environment an operator gives a service, what its      *)
(* validators refuse, and the clients and routes that are built from what  *)
(* they accept (api/app.py, api/lifespan.py, worker/main.py). A variable   *)
(* has a class of values; "placeholder" is the public value of             *)
(* .env.example, "malformed" what its own validator refuses.               *)
(*                                                                         *)
(* A definition named for a slip (RequiredByTheApi, ..) is the next one as *)
(* it would be with a bug: README.md, "What would be caught".              *)
(***************************************************************************)
EXTENDS Naturals

CONSTANT MaxChanges \* bound: variables set otherwise than in the templates
ASSUME ConfigurationAssumption == MaxChanges \in Nat

VARIABLES
  env,      \* the value of each variable, until it is read
  changes,
  phase,    \* "editing", "refused", "accepted", "failed" or "serving"
  channels, \* the channels whose webhook is mounted
  device    \* GOWA__DEVICE_ID, as read

configuration == <<env, changes, phase, channels, device>>

Channels == {"whatsapp", "gowa"}

Switch == {"false", "true"}
Optional == {"none", "set"}
Text == Optional \cup {"empty"}

Values ==
  [APP__ENV |-> {"local", "staging", "production"}, RAILWAY |-> Optional,
   APP__DEBUG |-> Switch, APP__INTERNAL_TOKEN |-> Text \cup {"placeholder"},
   APP__PUBLIC_BASE_URL |-> {"none", "empty", "malformed", "http", "https"},
   DATABASE__OWNER_URL |-> Text, SENTRY__DSN |-> Text,
   LOGGING__RENDERER |-> {"json", "console"}, LOGGING__ALLOW_RAW_PII |-> Switch,
   LOGGING__PII_PEPPER |-> {"placeholder", "set"},
   WHATSAPP__ENABLED |-> Switch, WHATSAPP__APP_SECRET |-> Text,
   WHATSAPP__VERIFY_TOKEN |-> Text \cup {"short"}, WHATSAPP__ACCESS_TOKEN |-> Text,
   WHATSAPP__PHONE_NUMBER_ID |-> Text, WHATSAPP__GRAPH_BASE_URL |-> {"http", "https"},
   WHATSAPP__ALLOWED_PHONES |-> {"set", "malformed"},
   GOWA__ENABLED |-> Switch, GOWA__BASE_URL |-> {"malformed", "http", "private", "https"},
   GOWA__BASIC_AUTH_USER |-> Text, GOWA__BASIC_AUTH_PASSWORD |-> Text,
   GOWA__WEBHOOK_SECRET |-> Text \cup {"short"}, GOWA__DEVICE_ID |-> Text,
   COMPOSIO__ENABLED |-> Switch, COMPOSIO__API_KEY |-> Text,
   COMPOSIO__CALENDAR_AUTH_CONFIG_ID |-> {"none", "malformed", "set"},
   ONBOARDING__LINK_SECRET |-> Text \cup {"short", "placeholder"},
   ONBOARDING__LINK_TTL_S |-> {"set", "malformed"},
   ONBOARDING__BOT_PHONE |-> {"none", "malformed", "set"}]

(* A developer's, with every provider off, and a deploy with all of them on. *)
Local ==
  [v \in DOMAIN Values |->
     CASE v = "APP__ENV" -> "local"
       [] v = "LOGGING__RENDERER" -> "json"
       [] v = "LOGGING__PII_PEPPER" -> "placeholder"
       [] Values[v] = Switch -> "false"
       [] v \in {"WHATSAPP__GRAPH_BASE_URL"} -> "https"
       [] v = "GOWA__BASE_URL" -> "http"
       [] v \in {"WHATSAPP__ALLOWED_PHONES", "ONBOARDING__LINK_TTL_S"} -> "set"
       [] OTHER -> "none"]

Complete ==
  [v \in DOMAIN Values |->
     CASE v = "APP__ENV" -> "staging"
       [] v = "LOGGING__RENDERER" -> "json"
       [] v \in {"APP__DEBUG", "LOGGING__ALLOW_RAW_PII"} -> "false"
       [] v \in {"WHATSAPP__ENABLED", "GOWA__ENABLED", "COMPOSIO__ENABLED"} -> "true"
       [] v \in {"WHATSAPP__GRAPH_BASE_URL", "APP__PUBLIC_BASE_URL"} -> "https"
       [] v = "GOWA__BASE_URL" -> "private"
       [] v = "GOWA__DEVICE_ID" -> "none"
       [] OTHER -> "set"]

ConfigurationInit ==
  /\ env \in {Local, Complete}
  /\ changes = 0
  /\ phase = "editing"
  /\ channels = {}
  /\ device = "none"

-----------------------------------------------------------------------------
(* The validators. *)

On(provider) == env[provider] = "true"
Given(v) == env[v] \notin {"none", "empty"}

(* _all_or_nothing, twice, and _composio_is_complete: what is missing. *)
RequiredByTheApi ==
  [WHATSAPP__ENABLED |-> {"WHATSAPP__APP_SECRET", "WHATSAPP__VERIFY_TOKEN"},
   GOWA__ENABLED |-> {"GOWA__WEBHOOK_SECRET"},
   COMPOSIO__ENABLED |->
     {"COMPOSIO__API_KEY", "COMPOSIO__CALENDAR_AUTH_CONFIG_ID", "APP__PUBLIC_BASE_URL",
      "ONBOARDING__LINK_SECRET"}]
Required ==
  [WHATSAPP__ENABLED |->
     {"WHATSAPP__APP_SECRET", "WHATSAPP__VERIFY_TOKEN", "WHATSAPP__ACCESS_TOKEN",
      "WHATSAPP__PHONE_NUMBER_ID"},
   GOWA__ENABLED |->
     {"GOWA__BASIC_AUTH_USER", "GOWA__BASIC_AUTH_PASSWORD", "GOWA__WEBHOOK_SECRET"},
   COMPOSIO__ENABLED |->
     {"COMPOSIO__API_KEY", "COMPOSIO__CALENDAR_AUTH_CONFIG_ID", "APP__PUBLIC_BASE_URL",
      "ONBOARDING__LINK_SECRET"}]

Missing ==
  {v \in UNION {Required[p] : p \in DOMAIN Required} :
     ~Given(v) /\ \E p \in DOMAIN Required : On(p) /\ v \in Required[p]}

(* The field validators and the floors under the secrets' lengths. *)
Malformed == {v \in DOMAIN env : env[v] \in {"malformed", "short"}}

Secrets == {"LOGGING__PII_PEPPER", "ONBOARDING__LINK_SECRET"}

(* _enforce_deployed_invariants: two of the public placeholders are known to *)
(* it, and an empty value is not none to it.                                 *)
Loose ==
  {v \in DOMAIN env :
     \/ v \in {"LOGGING__ALLOW_RAW_PII", "APP__DEBUG"} /\ env[v] = "true"
     \/ v = "LOGGING__RENDERER" /\ env[v] = "console"
     \/ v \in {"SENTRY__DSN", "DATABASE__OWNER_URL"} /\ env[v] = "none"
     \/ v = "APP__INTERNAL_TOKEN" /\ env[v] = "none" /\ env["APP__ENV"] = "staging"
     \/ v \in Secrets /\ env[v] = "placeholder"
     \/ v = "APP__PUBLIC_BASE_URL" /\ env[v] = "http"
     \/ v = "WHATSAPP__GRAPH_BASE_URL" /\ env[v] = "http" /\ On("WHATSAPP__ENABLED")
     \/ v = "GOWA__BASE_URL" /\ env[v] = "http" /\ On("GOWA__ENABLED")}

Deployed == env["APP__ENV"] \in {"staging", "production"}

Untrue ==
  IF Deployed THEN Loose ELSE IF env["RAILWAY"] = "set" THEN {"APP__ENV"} ELSE {}

Problems == Missing \cup Malformed \cup Untrue

-----------------------------------------------------------------------------
Export(v) ==
  /\ phase \in {"editing", "refused"}
  /\ changes < MaxChanges
  /\ changes' = changes + 1
  /\ \E value \in Values[v] \ {env[v]} : env' = [env EXCEPT ![v] = value]
  /\ phase' = "editing"
  /\ UNCHANGED <<channels, device>>

(* get_settings. *)
Load ==
  /\ phase = "editing"
  /\ phase' = IF Problems = {} THEN "accepted" ELSE "refused"
  /\ UNCHANGED <<env, changes, channels, device>>

(* What WhatsAppOutbound.from_settings, _open_gowa, the Composio connector,  *)
(* ConnectConfig.of and issue_or_reuse_link raise without.                   *)
Needed ==
  [WHATSAPP__ENABLED |-> {"WHATSAPP__ACCESS_TOKEN", "WHATSAPP__PHONE_NUMBER_ID"},
   GOWA__ENABLED |-> {"GOWA__BASIC_AUTH_USER", "GOWA__BASIC_AUTH_PASSWORD"},
   COMPOSIO__ENABLED |->
     {"COMPOSIO__API_KEY", "COMPOSIO__CALENDAR_AUTH_CONFIG_ID", "APP__PUBLIC_BASE_URL",
      "ONBOARDING__LINK_SECRET"}]

(* An empty origin is none to its validator; no other empty value is.        *)
IsNone(v) == env[v] = "none" \/ (v = "APP__PUBLIC_BASE_URL" /\ env[v] = "empty")

Refuses == \E p \in DOMAIN Needed : On(p) /\ \E v \in Needed[p] : IsNone(v)

(* create_app and the worker's run. The environment is not read again.       *)
Start ==
  /\ phase = "accepted"
  /\ IF Refuses
     THEN phase' = "failed" /\ UNCHANGED <<channels, device>>
     ELSE /\ phase' = "serving"
          /\ channels' = {c \in Channels :
                            On(IF c = "gowa" THEN "GOWA__ENABLED" ELSE "WHATSAPP__ENABLED")}
          /\ device' = env["GOWA__DEVICE_ID"]
  /\ env' = Local
  /\ changes' = MaxChanges

Boot == Load \/ Start \/ \E v \in DOMAIN env : Export(v)

-----------------------------------------------------------------------------
(* Properties. *)

(* "A service that refuses to boot and names the missing variable": what the *)
(* validators accept is refused by no client later, when a message is to be  *)
(* sent or a link opened; every webhook that is mounted can verify what it   *)
(* is sent; and nothing on the platform hashes or signs with a placeholder.  *)
RefusedAtBootOrNever ==
  /\ phase # "failed"
  /\ phase = "accepted" =>
       /\ On("WHATSAPP__ENABLED") => Given("WHATSAPP__APP_SECRET")
       /\ On("GOWA__ENABLED") => Given("GOWA__WEBHOOK_SECRET")
       /\ env["RAILWAY"] = "set" => "placeholder" \notin {env[v] : v \in Secrets}

(* "... is required when deployed": what _enforce_deployed_invariants asks   *)
(* for has been given to a service it accepts, as what the providers ask for *)
(* has, of which an empty value is missing. The code only asks for a value,  *)
(* and an empty one will do.                                                 *)
DeployedIsGiven ==
  phase = "accepted" /\ Deployed =>
    /\ Given("SENTRY__DSN") /\ Given("DATABASE__OWNER_URL")
    /\ env["APP__ENV"] = "staging" => Given("APP__INTERNAL_TOKEN")
=============================================================================

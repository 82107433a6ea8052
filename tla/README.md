# Personal organizer: verification in TLA+

The service answers people on WhatsApp. A webhook stores every message and queues a job
for it in one transaction; a worker runs the jobs, one per sender at a time; the handler
decides whether the sender is served, onboards them (time zone, then Google Calendar
through Composio) and answers through an outbox. Postgres is the only store and the job
queue lives in it.

The modules here are translated from the source under `src/personal_organizer/` and
`alembic/`; `PROJECT.json` maps each definition to its lines. TLC checks small instances,
TLAPS proves theorems for every instance.

- [Inventory](#inventory) - what the system is made of
- [Plan](#plan) - the modules, in order, and what is left
- [Modules and code](#modules-and-code) - how each module corresponds to its source
- [Runs](#runs) - what each run checks, its bounds and why they are enough
- [Where the code and its docs disagree](#where-the-code-and-its-docs-disagree)
- [What would be caught](#what-would-be-caught) - the slips each property detects
- [Fairness](#fairness)
- [Proofs](#proofs)
- [Assumptions about the outside](#assumptions-about-the-outside)
- [Not modelled](#not-modelled)

## Inventory

Paths are under `src/personal_organizer/` unless they start with `alembic/`.

| Component | State | Operations | What makes it correct | Module |
|---|---|---|---|---|
| Webhook ingress: `api/routers/webhooks.py`, `messaging/ingress.py` | `channel_inbox` rows; jobs not committed yet | insert a row or skip a duplicate, defer its job, apply a delivery status, commit, answer 200 or 500 | a row exists if and only if its one job does; a batch answered with 200 is all stored; what is stored is handled | Ingress, Outbox |
| Job queue: `alembic/vendor/procrastinate_3.10.sql`, `worker/tasks/channel.py` | `procrastinate_jobs`, workers' heartbeats | defer, fetch under a lock, finish, retry | one message of a sender at a time, in arrival order; success means handled | JobQueue |
| `retry_stalled_jobs`: `worker/tasks/system.py` | the list it read | list stalled jobs, retry each | does not hand out what is still running; nothing waits for ever for a dead worker | JobQueue |
| Outbox: `messaging/outbox.py` | `channel_outbox` rows | claim, record the outcome | a message reaches the person at most once; the row is true | AtMostOnce, Outbox |
| Outbound channels: `providers/channel/*/outbound.py` | the request in flight | post, classify the answer | an answer is never classified as "not sent" when it may have been | Outbox |
| Inbound gate: `messaging/inbound.py` | `channel_inbox.processed_at`, `disposition`, content | resolve, enrol, answer, finish | nobody uninvited is served; content is moved once; a processed message has its reply, as long as no run at work is taken for dead | InboundGate |
| Onboarding conversation: `messaging/onboarding.py` | `tenants.onboarding_step`, `timezone` | welcome, ask, confirm and send the link, send it again | the step moves once, and only with the answer that moves it | InboundGate |
| Tenants, identities, invites: `messaging/tenancy.py`, `messaging/invites.py`, `db/repositories/tenants.py`, `invites.py` | `tenants`, `tenant_identities`, `invites` | resolve, enrol, link keys, invite, revoke, mark used | one person is one tenant, whatever keys and channels they come with; an invite is used by whom it brought in | Members, InboundGate (one key) |
| Connect flow: `onboarding/connect.py`, `api/routers/connect.py` | signed states, the request | open and start a link, complete the callback, recognise a late one | an account is bound to the tenant Composio names, once, by the visit that spent its link and within the state's life | ConnectLinks, BindConnection |
| Calendar connections: `db/repositories/connections.py` | `calendar_connections` | look up, revoke, insert, read back | one active connection per tenant | BindConnection |
| Connect links: `onboarding/links.py`, `tokens.py`, `db/repositories/links.py` | `onboarding_links`, the signed tokens in the chat | issue or reuse, open, spend, expire | a link is spent once; whoever is sent back for a new one had an old one | SingleUse, ConnectLinks |
| Announcement: `onboarding/connected.py`, `worker/tasks/onboarding.py` | its queued jobs, its outbox row | read the tenant, send "all set", be retried | sent at most once for a connection, and left out only for a reason | Announce |
| po-admin: `admin/cli.py` | what it read and has not written | invite, revoke, suspend, unsuspend | a suspension holds; unsuspend restores what was | Members, BindConnection, InboundGate |
| Migrations and bootstrap: `db/bootstrap.py`, `db/cli.py`, `alembic/` | roles, default privileges, tables and their policies, `alembic_version` | bootstrap, upgrade, downgrade, check | after any deploy, broken off or not, every table has its grants and every tenant table its policy | Deploy |
| Processes: `api/lifespan.py`, `worker/main.py`, `db/engine.py` | the exit stack, the engine, the time spent waiting | wait for the database, open, serve, stop, release | a start is given up only for a reason, and nothing is left open | Startup |
| Sessions and row-level security: `db/engine.py`, `db/session.py`, `alembic/rls.py` | the pool, the tenant set on each connection | open a system or tenant session, time out, lose the server, return the connection | a session sees its own tenant and no other | Sessions |
| Settings: `settings.py`, `api/app.py` | the environment, read once | validate, build clients and routes | what would fail later fails at boot | Configuration |
| Webhook requests: `api/routing.py`, `providers/channel/*/parser.py`, `hmac_sha256.py` | the request | cap, verify, parse, store, answer | what is ours is stored whatever stands beside it, and nothing else is | Webhooks |
| Gateway health: `worker/tasks/gowa_health.py` | none | ask, report | - | not modelled |
| Text, zones, choices, pages, logging and redaction, provider CLIs | none | pure functions, or scripts | - | not modelled |

Components interact through the database almost alone. The webhook and the handler share
`channel_inbox` and the queue; the handler, the webhook's status updates and overlapping
runs of one job share `channel_outbox`; the handler, the callback and po-admin share
`tenants`; enrolments, links of keys and po-admin share `tenant_identities` and `invites`;
runs and visits share `onboarding_links`; callbacks share `calendar_connections`. The
callback defers a job to announce its result. A deploy leaves the schema that a process
starts on, and the settings decide which components it has. The provider and Composio are
reached over HTTP, with answers that may be lost.

What is hard here, and where:

- **Overlapping runs.** `retry_stalled_jobs` re-queues the job of a worker that missed its
  heartbeats; the worker may be alive. Every step of a job can run beside another run of
  the same job (Outbox, JobQueue, InboundGate).
- **Retries after unknown outcomes.** A lost answer, a lost commit, a worker dying between
  a send and its record (Outbox, Ingress, InboundGate).
- **Decide, call, write.** State is read in one transaction, a provider is called, and the
  decision is written in another, without looking again (InboundGate, BindConnection's
  `po-admin` and tenant check).
- **READ COMMITTED.** A statement does not see a concurrent transaction's rows, waits for
  them, and then goes on with what it saw (BindConnection, Ingress).
- **Life times.** A link is reused while half its life is left, a state may outlive a
  link, a start has a deadline: what was true when it was looked at may not be when it is
  used (ConnectLinks, Startup).
- **Half-done.** A deploy stops between two migrations, a start between two resources, a
  transaction between two statements (Deploy, Startup, Members).
- **Shared connections.** A setting one session made must not reach the next (Sessions).
- **Delivery.** Batches are redelivered, overlap and cross; statuses come early, late and
  out of order (Ingress, Outbox).

`PROJECT.json` lists these hazards one by one, at their lines, with the properties that
would catch each.

## Plan

In order of importance to the person at the other end: first that nobody is answered
twice or not at all, then that an account is bound to the right tenant, then who is
served, then the rest.

| # | Modules | Composes | State |
|---|---|---|---|
| 1 | AtMostOnce (abstract), Outbox | Outbox implements AtMostOnce | proved, in AnnounceProofs |
| 2 | BindConnection | callbacks, two indexes, po-admin | proved, in BindConnectionProofs |
| 3 | JobQueue | workers, heartbeats, retry_stalled_jobs | proved, in IngressProofs |
| 4 | Ingress | the webhook over JobQueue, which it implements | proved, in IngressProofs |
| 5 | InboundGate | handler, its replies, callback, po-admin | proved, in InboundGateProofs |
| 6 | SingleUse (abstract), ConnectLinks | links, taps, the connect flow, `_late`; ConnectLinks implements SingleUse | proved, in ConnectLinksProofs |
| 7 | Members | resolve_sender, enrol, several keys per person, invites, po-admin invite and revoke | proved, in MembersProofs |
| 8 | Announce | extends Outbox, which it implements, with the callbacks' jobs, their retries and the tenant's channel | proved, in AnnounceProofs |
| 9 | Deploy, Startup, Sessions | each extends the one before: the schema, the process on it, its sessions | proved, in SessionsProofs |
| 10 | Configuration, Webhooks | Webhooks extends Configuration: the routes that the settings mount | proved, in WebhooksProofs |

"Proved" is said of the safety properties; liveness stays with TLC. Within what is
modelled, still open: two overlapping runs of `retry_stalled_jobs`, workers pruned from the
table (`ON DELETE SET NULL`), and the allowlist gate of an environment without Composio.
Left to prove: an abstract specification of what an invite promises, which Members would
implement; and that batches which agree on the order of their messages never deadlock in
Ingress (those that do not agree can, and Postgres breaks the circle).

## Modules and code

**AtMostOnce** is what ADR 0003 promises for a send: one copy at most, and an outcome that
is final and true.

**Outbox** is `send_once` with everything that touches a row it writes. `outbox[s]` is
`channel_outbox.status`, `linked[s]` whether `provider_message_id` is set. `Claim` is the
transaction of `_claim`; `NotPosted`, `Post` and `Classify` are `send_text`; `Record` is
`_set` in each of the except clauses, keyed on the row id alone; `Die` is the end of a
worker anywhere in between, and the error no clause catches. `Take` and `Refuse` are the
provider, which may act after the client timed out. `ApplyStatus` is the status UPDATE of
the webhook. A run of a job makes one send, and a retry is another run.

**BindConnection** is `complete_connect` and `bind_connection`, statement by statement.
`holder` and `live` are the committed rows of `calendar_connections`; `revoking` and
`inserting` are what an open transaction has written. A statement's snapshot and the
moment it gets its locks are two steps (`RevokeScan`, `RevokeApply`). Both unique indexes
are there: `InsertNothing` and `InsertRow` for the account's, `OnlyActiveRow` for the
partial one. `HeldUpBy` is whose transactions a statement waits for. po-admin reads in one transaction and writes in another
(`SuspendRead`/`SuspendWrite`, `UnsuspendRead`/`UnsuspendWrite`).

**JobQueue** is procrastinate's SQL as this service uses it. `Draw` draws a job's id,
`Defer` commits it; `Fetch` is `fetch_job_v2` with its lock rule; `Handle`, `Raise`,
`Finish` and `Retry` are a run and its end; `GoSilent`, `BeatAgain` and `Die` are
heartbeats; `ListStalled` and `RetryStalled` are the periodic task, with a list that goes
stale. Ids are kept as `ahead`: only their order within a lock is ever asked.

**Ingress** composes JobQueue with the webhook: `InsertNew` inserts a row and calls
`Draw`, `Commit` calls `Defer` on all of the batch, `RollBack` calls `Undraw`. A delivery
is posted until it is answered with 200, and the answer can be lost.

**InboundGate** is `_tenant_gate` for one person. A run of a message walks through
`Begin` (load_row), `Resolve` (resolve_sender), `AskInvite` (is_invited), `Enrol`,
`LoadState` (load_state and `onboarding_step`'s decision), `TurnAway` (`_already_told`),
`Claim`, `Post` and `Record` (`send_once`, in the three steps it has in Outbox), and
`Finish` or `FinishKnown`; `Break` ends it anywhere. Each is one transaction or one request.
Between its claim and its record a run can be overtaken: another one finds the row at
`sending`, takes the first for dead, marks the row unknown and finishes the message, and
the first then writes its answer over that. `mistaken` remembers such messages. The
callback is in two steps as well, `CheckTenant`, which reads the status, and `Activate` or
`GiveUp`, which does not look again; the rest of it is BindConnection's. It needs a link
that reached the person (`offered`). `AdminRead` and `AdminWrite` are po-admin. The
decision depends on what the message means as an answer (`says`), chosen once and for all.

**SingleUse** is what the tokens and the table promise together: a link is spent by one
tap, and only that tap is sent on to Composio. **ConnectLinks** is how. `Look`, `Create`
and `Break` are `issue_or_reuse_link`, whose SELECT and INSERT other runs come between;
`Open` is `open_link`, `Tap` and `Consume` are `start_connect` before and with its
conditional UPDATE, `Redirect` is Composio's answer. `PageFor` is the page a tenant's
status and a token's age give; a suspended tenant gets the one of a link that cannot be
used. The callback is `Vouch` (a fresh state, and Composio vouching for the account), then
`Bind` or `Fail` (`complete_connect`'s transaction, or one of its refusals), or `Late`
(`_late`). A visit may bring a link's own token in the place of a state. A token has the salt it was signed under
and the time it was signed at; `verify` is `Verify`. The clock ticks between any two
steps.

**Members** is the way from a message to a tenant. `Begin` and `ResolveTel` are the
look-ups of `resolve_sender`, strongest key first; `AskInvite` is `is_invited`;
`CreateFast`, `CreateSlow`, `MarkUsed` and `Commit` are `enrol` with `create_tenant`'s two
paths, in one transaction; `Link` is `_link`. `new` and `closing` are what open
transactions have written, and whoever would collide with it waits (`HeldUpBy`,
`InviteIsFree`). po-admin invites in two transactions (`InviteRead`, `InviteWrite`) and
revokes in one.

**Announce** extends Outbox: a run is the n-th attempt at a job, the send's key is the
connection's (`AllSetKey`), and `Read` is what `announce_connected` looks at before it
sends: the tenant's status and the channel of their last message. `Bound` and `Defer` are
the callback's commit and its `_defer_all_set`.

**Deploy** is `po-db bootstrap && alembic upgrade head`. A step is a transaction:
`Bootstrap` for `bootstrap.sql`, `Upgrade` for each revision, with the grants and policies
of the tables it creates. `BreakOff`, `Redeploy`, `Downgrade` and `ByHand` are what may
happen in between. **Startup** is a process on that database: `Missed` and `Reached` are
the probes of `retry_until_ready` against its deadline, `Acquire`, `Serve`, `Release` and
`Exit` the exit stack of `lifespan` and of the worker's `run`. **Sessions** is what the
process then does with its pool: `guc[c]` is `app.tenant_id` on connection c, `CheckOut`
is the `after_begin` listener, `End` what a transaction's end leaves on the connection,
`Select` the policy's predicate.

**Configuration** is `settings.py`: `Values` are the classes of values each variable can
have (none, empty, too short, the template's placeholder, ..), `Problems` what the validators report, `Needed` what the clients raise without,
wherever they are built. **Webhooks** goes on with a service that booted: a request is
capped, verified, parsed event by event (`Parsed`) and stored whole or not at all
(`Record`, `Fail`).

## Runs

| Run | Asks | Instance |
|---|---|---|
| MCAnnounce | do retries and overlaps send twice or write something untrue, does `send_once` keep the promise, and is a connection announced once and only skipped for a reason | 2 callbacks, 2 attempts of each, 2 channels, 2 kinds of status |
| MCBindConnection | do racing callbacks leave two active connections, the wrong user, or wait in a circle | 4 callbacks, 2 tenants, 2 accounts |
| MCJobQueue | are a sender's messages run one at a time and in order, is success true | 2 jobs of one sender, 2 workers, 2 attempts, 1 lapse |
| MCIngress | is a row its one job, is a 200 kept, is what was answered handled | 2 crossing batches of 2 messages, 2 workers, 1 failure |
| MCInboundGate | who is served, is content moved once, has every processed message its reply | 2 messages, 2 overlapping runs, 1 fault, 2 po-admin calls |
| MCConnectLinks | is a link spent once, reused while it is fresh, refused only for a reason, and does only its visit bind, in time | 2 runs, 2 visits, 2 links, 2 tokens, life 2 of 3 ticks |
| MCMembers | does one person become two tenants, is an invite used for nobody, is anyone turned away without a reason, does every run end | 3 messages with 3 sets of keys, 2 invites, 1 abort |
| MCSessions | is the schema whole after any deploy, is a start given up for a reason, does a session see another tenant | 1 change by hand, 1 downgrade, a deadline of 7 ticks, 3 callers on 2 connections, 2 tenants |
| MCWebhooks | does what the settings accept fail later, is what is ours stored | 3 variables changed, bodies of up to 2 events |
| MCOutboxReports, MCBindConnectionSuspend, MCInboundGateRetry | one statement of the docs each, which the code does not keep | the smallest instance that shows it |

*MCAnnounce.* A double send needs two runs of one send: one that holds the row, one that
claims it. A reload of the callback defers a second job under the same key, and each job
is attempted twice, which gives four runs that can overlap, die and follow each other.
Two statuses are enough to arrive in either order; `failed` is the one that may follow or
overtake every other. Two channels let the tenant move between two attempts. Every worker
has every channel (`WholeFleet`): where one lacks the tenant's channel, the job ends
without a message and is not tried again, so `SkippedForCause` is stated for a whole
fleet only.

*MCBindConnection.* Three callbacks of one tenant are the least in which one callback's
look-up is stale by a bind and a rebind; the same account twice is a reload, the other one
a reconnect. The fourth callback is another tenant's, with an account that is not its own.
`WaitsAreOrdered` and its liveness property show that no callbacks wait for each other
under two unique indexes and a savepoint.

*MCJobQueue.* The lock rule is about pairs of jobs of one lock. Two workers let one be
silent or dead while another takes over; two attempts are a failure and the last one. One
lapse is the smallest number that makes a living worker look dead, and `OneAtATime` and
`InArrivalOrder` say what holds until it happens; `SucceededIsHandled` holds regardless.
Workers that are dead do not come back, so a longer life of the queue is bounded by the
workers; the theorems have no such bound.

*MCIngress.* Two batches of the same two messages in opposite order are the least that
deadlock. One failure gives one rollback, or one lost answer and its redelivery; deadlock
victims are not counted. A message has two job ids to its name, so storing it twice would
show. Liveness takes workers that die but do not lapse.

*MCInboundGate.* Two messages: the first enrols, the second answers the zone question; the
first may lack the number (then the second enrols), the second may come too late. Two runs at once are either two runs of one
message or a straggler beside the next message. Two calls of po-admin are a suspension and
its end. One fault is a request that is refused, lost or not made, or a run that breaks
off; that a reply is refused while another run has finished its message takes one fault
and the second run. `FinishedIsAnswered` and `StepIsOffered` leave out what hangs on a
message whose run at work was taken for dead (`mistaken`): there the code does not keep
them, which MCInboundGateRetry shows.

*MCConnectLinks.* Two runs are the least that both find no link; two visits, the least
that race for one. Life 2, half-life 1, state 1 and recognition 3 put every order of the first
three into a clock of three ticks: spent before and after half-life, a callback in time
and late, a link too old to be used and still recognised. A token too old to be recognised
at all takes a fourth tick, which triples the run; it gets the page and the refusal of one
that is merely too old, but for a tenant who is active already. Refusals on the way back
are Composio's answers (`Fail`), a choice here, so `RefusedForCause` is about the page and
the tap.

*MCMembers.* The three messages carry both keys, the number alone and the user id alone,
as two channels and Meta's user ids give them: the first links what the others found, in
every order. Two invites are one that is used or revoked and one opened after it. One
abort is one rollback at any statement, or one re-run after the commit.

*MCSessions.* The deploy is followed from an empty database and from an older release, and
a single change by hand already takes each attribute away or adds it. The deadline of 7
with probes of 2 and pauses of 1, 2 and 4 is reached in the middle of a pause, at the end
of a probe and in one; the network comes up at any tick up to and past it. Three callers
on two connections let one wait, time out, or get what another one left.

*MCWebhooks.* The two starting points are the templates, everything off and everything
on; three changes reach every pair of sections that depend on each other (a switch, what
it needs, the environment). Two events in a body are one that is stored beside one that
is not; the gateway posts one. Signatures of the wrong route, oversized and unparsable
bodies are tried with one event each. That a message of which neither id of the sender can
be read is not stored is part of `StoresWhatIsOurs`; how the key is built from the ids is
one expression, and no property repeats it.

The type invariants of the modules whose runs do not name one are left to the theorems.
Deadlock is checked in MCBindConnection. The other systems may stop, when every message is
handled, every run of a job has ended or the clock has, and their configurations say so;
what waits for locks in MCMembers comes to its end by `RunsEnd`, in MCIngress by
`AnsweredIsHandled`.

## Where the code and its docs disagree

Three are runs that TLC refutes with a short trace; `PROJECT.json` quotes the statement and
gives the lines.

- **MCBindConnectionSuspend, SuspensionHolds.** `activate` writes `active` over a
  suspension that was committed after the callback read the tenant.
- **MCInboundGateRetry, ReleasedIsRetried.** A reply that failed for a moment goes back to
  `pending` for the job to send again, when a second run, which took the first for dead,
  has already finished the message and ended the job. The person gets no answer.
- **MCOutboxReports, ReportsAreKept.** A delivery status that comes before the row holds
  the provider's id matches nothing, is answered with 200, and is lost.

Ten more are stated in their modules beside the properties that hold, and have no run.
TLC refutes each when its name is added to the configuration:

- **NeverNone** (BindConnection, `MCBindConnectionSuspend.cfg`). A repeated callback that
  looked its account up before a first bind, and reads back after a reconnect revoked it,
  returns the revoked row as bound: the tenant is active and has no active connection.
  `db/repositories/connections.py:4` says there is never a moment with none.
- **UnsuspendRestores** (BindConnection, the same). A callback that commits between
  unsuspend's read and its write has ended onboarding; unsuspend then writes `onboarding`
  over `active`, and the tenant has no step to go on from. `admin/cli.py:171` says that no
  step means onboarding was finished, `db/models/tenant.py:30` that the step is NULL once
  it is.
- **OneMessageAtATime** (JobQueue, `MCJobQueue.cfg`). Once a living worker's job was
  retried and ended elsewhere, the sender's next message runs beside it.
  `worker/tasks/channel.py:4` says one at a time.
- **ActiveIsComplete** (InboundGate, `MCInboundGate.cfg`). The connect link is sent before
  the step that sent it commits. A user who connects in between ends up active with the
  step `connect`, which unsuspend would take for unfinished onboarding; or, if the job dies
  between the two, active with the time zone they confirmed never stored.
  `db/models/tenant.py:30` says the step is NULL once onboarding is over.
- **MembersAreServed** (InboundGate, `MCInboundGate.cfg` with `Messages = {1, 3}`). An
  invited person writes on two channels at once. Both messages find no tenant; one enrols
  them and uses the invite up; the other then finds no invite and is turned away, its
  content deleted. `messaging/inbound.py:22` says identity wins over the invite list.
- **ToldOnce** (InboundGate, the same). The mute is read before the reply is claimed, and
  two channels have two locks: a stranger on both is told twice, where
  `messaging/inbound.py:43` says once.
- **MutedByAReply** (InboundGate, `MCInboundGate.cfg`). A reply that is still being sent
  mutes the sender's next message, and may be refused, or put back to `pending`, after
  that. `messaging/inbound.py:85` says such a reply does not mute the next one.
- **StatusesFindTheirRow** (Announce, `MCAnnounce.cfg`). The announcement's row keeps the
  channel of its first claim; a retry goes out on the channel the tenant writes on by
  then, and no status of that channel finds the row. `messaging/outbox.py:11` says the
  statuses follow.
- **FailsWithTheDatabase** (Webhooks, `MCWebhooks.cfg`). JSON can carry half of a
  surrogate pair, `_without_nul` takes out NUL only, and PostgreSQL stores neither: the
  body is answered with 500 while the database is up, on every redelivery, with whatever
  else it holds. `api/routers/webhooks.py:11` says 200 for a signed body that cannot be
  used, and 500 when the database fails; `messaging/ingress.py:83` strips NUL for this very
  reason.
- **DeployedIsGiven** (Configuration, the same). `SENTRY__DSN`, `DATABASE__OWNER_URL` and,
  in staging, `APP__INTERNAL_TOKEN` are required when deployed (`settings.py:477`, `:483`,
  `:487`), but an empty string is not `None` and passes, where the providers' variables
  count as missing when they are empty. The template's placeholder of the token passes as
  well; `RefusedAtBootOrNever` is about the two placeholders the code knows.

Smaller ones, seen while the modules were written:

- An empty `GOWA__DEVICE_ID`, which uncommenting `.env.example:68` gives, is another device
  to the parser and none to the outbound client: every event is skipped and answered with
  200. `StoresWhatIsOurs` leaves that value out.
- An item that is not an object in one of Meta's lists is skipped without being counted.
- The gateway's parser takes a time stamp that overflows on conversion for an error, where
  it takes every other unreadable one for now.
- Meta's user id with a number is keyed by the user id, the gateway's number by the
  number: until `_link` has run, one person has two keys, where the gateway's parser says
  the same key on every channel.
- A tap that races the activation may spend an active tenant's link.

## What would be caught

A definition that is named for a slip stands before the one it is a slip of. With it in
that place, the property is violated in the run's own configuration.

| Property | The slip | Instead of |
|---|---|---|
| Outbox TypeOK | `RecordedVerbatim`: the answer's name is written as the status | Recorded |
| SentAtMostOnce, PromiseSpec | `ClaimableMidSend`: a row at `sending` is taken over and sent | Claimable |
| NotSentIsTrue | `RecordedAsNotSent`: every failed send is put back to pending | Recorded |
| AcceptedIsTrue | `MovesUnlinked`: a status is applied without matching the provider's id | Moves |
| AcceptedMovesForward | `MovesUnordered`: the status order is not compared | Moves |
| AllSetOnce | `KeyPerJob`: the announcement is keyed by its job | AllSetKey |
| SkippedForCause | `DeferredEarly`: "all set" is deferred before the commit | Deferrable |
| OneActiveConnection | `WithoutTheIndex`: the partial unique index is missing | OnlyActiveRow |
| BoundToItsUser | `NamedByAnyone`: the account's user is not compared | NamedAsUser |
| BindConnection WaitsAreOrdered | `UndoKeepingLocks`: the savepoint is not rolled back on a conflict | Undo |
| CallbacksAreAnswered | `UndoKeepingLocks`: the savepoint is not rolled back on a conflict | Undo |
| OneAtATime | `FreeOfOlder`: a running job does not hold its lock | LockIsFree |
| InArrivalOrder | `FreeOfRunning`: an older job waiting for its retry does not hold the lock | LockIsFree |
| SucceededIsHandled | `EndedAsDone`: a broken run is marked as succeeded | EndedAs |
| RowIffItsOneJob | `RollBackRows`: rows are rolled back, jobs on another connection are not | RollBack |
| AnsweredIsStored | `FoundUncommitted`: a duplicate of an uncommitted row is skipped | Found |
| AnsweredIsHandled | `NeverStalled`: stalled jobs are never found | Stalled |
| InboundGate TypeOK | `RestoredStep`: unsuspend writes the step as the status | Restored |
| ContentIsMovedOnce | `Unclaimed`: `_finish_known` does not ask for `processed_at IS NULL` | Claimed |
| ServedWereInvited | `InvitedAnyone`: the invite is not asked for | Invited |
| FinishedIsAnswered | `Swallowed`: a transient error puts the row back and is not raised | Raises |
| StepIsOffered | `AdvancesAnyway`: the step moves on with any answer to the zone question | Advances |
| ConnectLinks TypeOK | `PageOfStatus`: the page is named by the status | PageFor |
| OneFreshLink | `HorizonFull`: a link is only reused if its whole life is left | Horizon |
| RefusedForCause | `HorizonNone`: a link is reused until its last second | Horizon |
| ConnectedBySpending | `FreshWhileOurs`: a state binds for as long as it is recognised | Fresh |
| ConnectLinks PromiseSpec | `SpendableTwice`: the UPDATE does not ask for `used_at IS NULL` | Spendable |
| Members TypeOK | `IdentityOnly`: the identity is written without its tenant | TenantRow |
| OnePersonOneTenant | `StrongestKey`: the tenant is created on the strongest key | First |
| InvitesBringTheirs | `RollBackRowsOnly`: the invite is marked in another transaction | RollBack |
| TurnedAwayForCause | `MatchedByUid`: a sender is only looked up by user id | Matched |
| Members WaitsAreOrdered | `RollBackNothing`: a transaction that ended keeps its rows locked | RollBack |
| RunsEnd | `RollBackNothing`: a transaction that ended keeps its rows locked | RollBack |
| SchemaIsWhole | `ForgottenTable`: `tenants` itself is left without a policy | Guarded |
| EndsForCause | `OutOfTimeForAll`: the next pause counts against the deadline | OutOfTime |
| SeesItsOwn | `RevertedNot`: the setting is the session's and not the transaction's | Reverted |
| RefusedAtBootOrNever | `RequiredByTheApi`: only what the api itself uses is required | Required |
| StoresWhatIsOurs | `UpToTheFirst`: parsing stops at what it cannot use | Parsed |

## Fairness

Safety is checked without fairness. Three runs check liveness with it:

- `BindConnection!Fairness`: weak fairness of each callback's own steps. The api runs a
  request it has taken to its answer; a statement that waits for another transaction's
  rows is not enabled, so nothing is assumed of a callback that waits. `Abort` is allowed
  and never relied on.
- `JobQueue!WorkIsDone`: a job that a beating worker can fetch is fetched; a beating
  worker runs on what it fetched; the periodic task comes round and gets through its list.
  The platform restarts workers, so one is always beating (`Replaced`). Nothing is assumed
  of silent workers.
- `Ingress!DeliveryGoesOn`: strong fairness of each delivery's steps, because an insert
  that waits for a row is granted and then may wait again, and weak fairness of breaking
  deadlocks, which Postgres does after `deadlock_timeout`. `Fail`, the death of the api,
  has none: deliveries need not fail.
- `Members!Fairness`: weak fairness of a message's steps other than `Abort`. The worker
  runs a message it took to its end, and what breaks off is run again (`INBOUND_RETRY`); a
  statement that waits for another transaction is not enabled. Aborts are bounded, as
  attempts are.

## Proofs

All theorems hold for any sets and bounds, from the assumptions on constants that the
modules name; TLC evaluates them in the runs. They say that

- a callback's account and tenant, a batch's messages, a message's keys and jobs are what
  their types say (`ConstantsAssumption` of BindConnection and Members,
  `IngressAssumption`), and that two messages have no job in common and each may have one;
- what stands for "nobody" is not somebody (`NoTenant`, `Nobody`, `System`), and a tenant's
  id, a UUID, is neither `unset` nor `empty`, which are not ids (`SessionsAssumption`);
- times, pauses and bounds are natural numbers, those that the code has at least one of
  are not 0, the first pause is no longer than the longest, and a link's life is no longer
  than the time for which its state is recognised (`ConstantsAssumption` of ConnectLinks,
  InboundGate and JobQueue, `StartupAssumption`, `DeployAssumption`,
  `ConfigurationAssumption`);
- an announcement's runs are the attempts of its jobs and its sends are keyed like them
  (`FleetAssumption`), and the provider reports statuses only (`ReceiptsAssumption`).

Every safety theorem follows one line: `Init => IInv`, `IInv /\ [Next]_vars => IInv'` with
one step per action, and `IInv` implies the property. The strengthenings were first checked
by TLC as invariants of the runs. What each has to add:

**AnnounceProofs**, of Outbox: TypeCorrect, AtMostOneCopy, NotSentRowsAreTrue,
AcceptedRowsAreTrue, AcceptedRowsMoveForward, ImplementsPromise. `SentAtMostOnce` is not
inductive: it says nothing of a request still on the wire, or of a row that may be claimed
while one is. The invariant adds who holds a row (`OneHolder`, `HeldRow`), that at most one
request per send is out and is its holder's (`OneRequest`), that an answer is what became
of the request (`RunMatchesRequest`), that a row that may be claimed has nothing out
(`NothingOut`), and what the provider's id means (`LinkedRow`). Under it every step of
Outbox is a step of AtMostOnce or a stutter, which is ImplementsPromise.
Of Announce: AnnounceUsesTheOutbox, every step of Announce is a step of Outbox or leaves
its variables alone, so that all of the above holds behind the announcement
(OutboxBehindTheAnnouncement, AtMostOnce included). AnnouncedOnce needs that only the
connection's key is ever sent under (`KeyedByConnection`); SkipsHaveACause, that a job is
deferred after the commit that activated the tenant, and that a suspension is remembered
(`DeferredIsActive`).

**BindConnectionProofs**: TypeCorrect, OneActive, AccountsStayWithTheirUser,
NoCircleOfWaits. The committed rows satisfy the indexes only because of what open
transactions hold back: rows they revoked are theirs, active and locked (`RowsAreLocked`),
and an uncommitted row excludes every other it would collide with (`InsertExcludes`). From
the same invariant, whoever is waited for is further on in its transaction (`Left` is less)
than whoever waits: the one case to be argued is a callback that holds a revoked row and
waits to insert, and that cannot wait for a revoked row of its tenant, because a tenant has
only one active row to revoke. So no number of callbacks deadlocks, which deadlock checking
shows for four.

**IngressProofs**, of JobQueue: TypeCorrect, SucceededJobsAreHandled, OneRunPerSender,
ArrivalOrder. The invariant is in two layers. `Rows` holds however workers lapse: a lock has
one job at `doing`, a run that is done has its message handled. `Undisturbed` holds until a
living worker misses its heartbeats: whoever runs a job owns it (`RunsAreOwned`), a listed
job's worker is dead (`ListedAreLost`), and a job is only taken up when its predecessors are
over (`PredecessorsOver`).
Of Ingress: IngressTypeCorrect, OneJobPerRow, AnsweredBatchesAreStored; and
IngressUsesTheQueue, which makes the queue's theorems hold of what the webhook stores
(QueueBehindTheWebhook). That a row has one job is only kept because, at any moment, one
open transaction at most has inserted it (`OneHolder`), the jobs a transaction is to defer
are those of the rows it inserted (`DeferredAreItsRows`), and a message that is stored or
being stored has one job drawn and every other none (`OneJobDrawn`). That a 200 is kept
needs that a batch's messages that were passed are committed or the transaction's own
(`PassedIsKept`): a duplicate is only skipped once it is committed.

**InboundGateProofs**: TypeCorrect, ContentMovesOnce, OnlyInvitedAreServed,
FinishedHaveReplies, ConnectFollowsLink. The properties speak of finished messages; what
makes them true is what each run has done by where it is (`RunInv`): a run carries the
reply that goes with its disposition, has its send over before it finishes, unless a run
of that message at work was taken for dead, and only reaches the member's path for someone
invited. Between its claim and its record a run has its row at `sending`, and to itself,
with the same exception (`HoldInv`), so that nobody else unsettles what is settled.
`TenantInv` ties `active`, written or still due from po-admin, to a connection. What one run relies on only grows under the steps of the others
(`Grows`, OthersKeep), so each step needs a proof for its own run alone (OwnRunInv).

**ConnectLinksProofs**: TypeCorrect, LinksAreReused, RefusalsHaveACause,
SpentBeforeConnected, ImplementsSingleUse. A run's decision to issue a link is about the
links it saw, and none of them becomes usable again (`RunsLooked`). A token in the chat was
signed for a link with more than half its life left (`TokensWereFresh`), by which a refusal
has its cause. Who holds a state spent its link, and the state was signed when they did
(`VisitsHoldTokens`, `SpendersMoveOn`); who is past `Vouch` came within the state's life of
that (`VouchedInTime`), and the connection is of one who came so (`BoundByReturned`), by
which SpentBeforeConnected. Under it, every step of ConnectLinks is one of SingleUse or a
stutter.

**MembersProofs**: TypeCorrect, OneTenantEach, InvitesEndOnce, NobodyIsTurnedAwayWrongly,
NoCircleOfWaits. Everything is made on the number: there is one tenant at most, which it
names (`OneTenant`), one transaction that is creating it, and only while there is none
(`OneCreator`); whoever is past their look-up has found it (`FoundIsTheTenant`). One
transaction at most is closing the one open invite (`OneCloser`), and who set out with a
reason to be served keeps it until they are, or lose their invite (`HopesAreFounded`). Waits
are ordered for the same reasons: who creates or closes is further on than who waits for
it.

**SessionsProofs**, of Deploy, Startup and Sessions at once: TypesCorrect, SchemaStaysWhole,
ProcessesEndForCause, SessionsSeeTheirOwn. Default privileges are in place before the first
table (`DefaultsBeforeTables`), nothing is acquired before the database was reached
(`DatabaseFirst`), and a connection is one session's (`OneConnection`) whose setting is what
the session asked for (`HoldsTheTenant`). That a session sees its own rows then needs all
three modules: the policy of every table, a role that is not above it, the setting.

**WebhooksProofs**, of Configuration and Webhooks: AcceptedSettingsSuffice, StoresOurs. That what the clients need is what the validators require is shown for all
values of all variables (NeededIsRequired), so it holds of any environment, however many
variables were changed; the run tries three. StoresOurs is for bodies of any length.

Only model-checked: the liveness properties CallbacksAreAnswered, AnsweredIsHandled and
RunsEnd, and deadlock freedom as TLC checks it, because fairness and ENABLED are beyond
TLAPS here (what `NoCircleOfWaits` proves of it is that waits do not close a circle). Every
safety property of every passing run has its theorem. The statements that the code does not
keep, those of the three refuted runs and the ten beside them, are TLC's
counterexamples.

## Assumptions about the outside

- An answer classified as transient or rejected means the provider did not take the
  message (`Classify`). For the Cloud API and the gateway this is what the code's own
  classification rests on; the `_NOT_SENT` errors are raised before a request leaves.
- The provider reports statuses of messages it took only, and posts a batch until it is
  answered with 200.
- Postgres: READ COMMITTED, unique indexes, row locks, deadlock detection.
- Procrastinate's `get_stalled_jobs` lists the `doing` jobs of workers without a recent
  heartbeat; the platform keeps one worker beating.
- Composio names the user of an account truthfully.
- A setting made for a transaction reverts to the empty string when it ends, a lost
  connection loses it, and `pool_pre_ping` finds a connection that is lost.
- Nonces do not repeat, and a signature made under one salt does not verify under another.

## Not modelled

- `phone_of`, mark_read, typing pauses, rate limits: they change nothing the properties
  tell apart. The 24 hours of the invite-only mute: within them, in InboundGate.
- What a message means (`choices.resolve`, `match_zone`), what a response code is
  classified as, how a text is split, how JSON becomes text, media or a time: pure
  functions over strings; here each is a choice over its results.
- The gateway health check: it keeps no state between two runs and writes none.
- Redaction, logging, tracing: string rewriting that no other component reads.
- Pages and health endpoints; the provider CLIs: no state, or an operator's scripts.
- The repositories' own tenant filter: row-level security is the guarantee, and Sessions
  shows it without the filter.
- Fields of the settings that have a default and no condition; feature flags.
- Cancelling, priorities and queueing locks of procrastinate: the inbound task uses none.

# Logwolf in TLA+

Logwolf takes events from an SDK, queues them in RabbitMQ, stores them in
MongoDB and shows them on a dashboard. This directory holds a formal model of
its server, its dashboard and its JavaScript client: TLA+ modules, the TLC
configurations that check them on small instances, and theorems about them that
TLAPS checks for instances of any size.

* [The system](#the-system): inventory of its parts
* [The models](#the-models): delivery, key cache, members, JavaScript client,
  retention, startup, dashboard, project settings, allowlist
* [The runs](#the-runs): what TLC checks, the bounds, the fairness
* [The theorems](#the-theorems): what is proved, from what, and how
* [Where code and documentation differ](#where-code-and-documentation-differ)
* [What is not modelled](#what-is-not-modelled)
* [The plan](#the-plan)

To repeat a check: `tlc -config Delivery_batch.cfg MCDelivery.tla`, and
`tlapm DeliveryProofs.tla`.

## The system

Four programs and two services, started by `docker-compose.yml`, each with
`restart: always`.

| Part | Source (under `src/logwolf-server`) | State it keeps | Operations |
| --- | --- | --- | --- |
| Broker: ingestion | `broker/cmd/api/handlers.go`, `events.go`, `toolbox/event/emitter.go` | one RabbitMQ connection | `CreateLog`, `CreateLogBatch` -> `publishEvents` -> `Emitter.Publish` |
| Broker: authentication | `broker/cmd/api/middleware.go`, `clientip.go` | `keyCache`, `keyCacheGen`, `ipLimiter` | `requireAPIKey`, `forgetCachedKeys`, the sweeps |
| Broker: administration | `handlers.go`, `access.go`, `routes.go` | none | projects, members, keys, retention: each one or two calls to the logger |
| RabbitMQ | external | exchange `logs_topic`, queue `logwolf_logs` | confirm, deliver, requeue |
| Listener | `listener/cmd/api/main.go`, `toolbox/event/consumer.go`, `logger_client.go` | the message in hand, one RPC connection | `Listen`, `handleDelivery`, `forward`, `LogInfo` |
| Logger: RPC | `logger/cmd/api/rpc.go`, `projects.go` | `projectCache`, the purge queue | `LogInfo`, and every read and write of MongoDB |
| Logger: projects, members, keys, settings | `toolbox/data/project.go`, `apikey.go`, `settings.go` | collections of MongoDB | single-document updates and transactions |
| Logger: cleanup | `logger/cmd/api/cleanup.go`, `toolbox/data/models.go` | the purge queue | `cleanupPass`, `purgeProjectLogs`, `DeleteOrphanedLogs`, `DeleteExpiredLogs` |
| Logger: startup | `logger/cmd/api/startup.go`, `migrate.go`, `toolbox/data/migrate.go` | `startupState` | indexes and migration, retried in the background |
| JavaScript SDK | `src/logwolf-client/js/lib/client.ts` | queue, flush timer, batch in flight | `capture`, `flush`, `destroy`, retries |
| Dashboard: session and pages | `frontend/app/lib/session.server.ts`, `auth.server.ts`, `csrf.server.ts`, `pages/` | the session: a cookie, and nothing else | the loaders and actions of the routes, calls of the administration API |
| Dashboard: project settings | `frontend/app/pages/projects/settings/` | what each open page shows | six forms, their checks and the changes |
| Dashboard: allowlist | `frontend/app/lib/allowlist.server.ts` | none | `isAllowed`, `checkInvitee` |

How they interact: the SDK calls the broker over HTTP; the broker publishes to
RabbitMQ and calls the logger over Go's `net/rpc`, a new connection for each
request; RabbitMQ delivers to the listener, which calls the logger's `LogInfo`
one event at a time; only the logger talks to MongoDB. `net/rpc` runs every call
in a goroutine of its own, and a call whose caller has gone is still carried
out.

What is hard about it, and what makes each part correct:

* **Delivery.** Four processes that crash and restart on their own, publisher
  confirms and acknowledgements that get lost, RPC calls that time out and are
  still carried out. Correct means at least once: a 202 is a promise, a
  duplicate has a cause, and nothing holds up the queue for ever.
* **Authentication.** Requests, validations under way, evictions and sweeps on
  several brokers interleave around two maps with two locks. Correct means: a
  revoked key is shut out, a genuine key is let in, and only its own failures
  limit an address.
* **Members.** Transactions under snapshot isolation, which permits write skew,
  next to an insert that runs in no transaction. Correct means a project always
  has an owner, and that each call takes effect once or not at all.
* **Retention and cleanup.** A background loop deletes logs while projects and
  settings change under it: no log of a living project may go before its time,
  and every log of a deleted one must go.
* **Startup.** A migration that can fail at any step and is run again, next to a
  logger that serves meanwhile and other loggers that do the same. Correct means
  that a pass which reports success has left nothing to do, that no role and no
  chosen retention is lost on the way, and that a pass succeeds in the end.
* **Dashboard.** The session is a cookie that every tab shares and every answer
  replaces as a whole; the loaders of one page run beside each other on one
  copy of it. Correct means a page never mixes two projects, a switch lands, and
  redirects end.
* **Project settings.** A page may be stale in every respect when its form is
  sent: the name, the retention, the members and the sender's own role; and the
  answer to a change may be lost after it was made.
* **SDK.** A queue drained by a timer, a threshold and explicit flushes: no event
  may vanish without `onDropped`.

## The models

Every module describes one component as a state machine: an action is what one
goroutine or process does between two points where another can intervene, with
the code's guards, in the code's order. `PROJECT.json` maps every definition to
the lines it stands for.

### Delivery

`Delivery.tla` is the path of an event from the broker to MongoDB.

| Part of the state | In the code |
| --- | --- |
| `request` | where each HTTP request stands in `publishEvents`: publishing, answered, or ("unconfirmed") done waiting and closing its channel |
| `link` | the listener's RPC connection (`LoggerClient.client`), which is broken when the logger has restarted since |
| `wire` | how far RabbitMQ has got with each message: sent, taken, saved, confirmed |
| `ready`, `buffer`, `channel` | the queue, the prefetched deliveries, the listener's channel |
| `process`, `phase`, `attempt`, `call`, `verdict` | the listener: `Listen`, `forward`, its call to the logger, how it settles |
| `calls` | the `LogInfo` calls in the logger, those nobody waits for included |
| `projects`, `known`, `evicting` | the projects, `projectCache`, and `DeleteProject` between its transaction and `forget` |
| `stored`, `dropped` | copies in MongoDB; why the listener dropped a message |
| `refusals`, `faults` | history, and the bound on faults |

`LogInfo` is three steps, because other goroutines run between them: the lookup
of the project, the caching of the answer, the insert. A fault is a crash of any
process, a lost connection, a call that times out or an insert whose answer is
lost; `MaxFaults` bounds them. Payloads are not modelled; a message is readable
or not (`Malformed`), carries the action "log" or not (`UnknownAction`), and has
a known severity or not (`Unsupported`).

`AtLeastOnce.tla` is what a client may rely on: each event is nowhere, queued,
stored or dropped, and an accepted request's events are stored or dropped in the
end. `DeliveryProperties.tla` maps `Delivery` onto it (`KeepsPromise`).

### The key cache

`KeyCache.tla` is `requireAPIKey` on any number of brokers, next to the
administration calls that change what a key is worth.

| Part of the state | In the code |
| --- | --- |
| `keyCache`, `keyCacheGen`, `ipLimiter` | the variables of `middleware.go`, for each broker |
| `request` | a request between two locks or calls of `requireAPIKeyWith`; `gen` is the generation it read, `valid` the logger's answer |
| `call` | an administration call: authorized, made, its caches evicted and answered; or abandoned by its handler and still to be made by the logger |
| `stored`, `projects` | the collections `api_keys` and `projects` |

Time is the choice of when an entry or a window expires, so every order of
expiry, sweep and use is covered. `request[r].late` and `call[c].keys` are
history: they say which keys had stopped when a request arrived.

### Members

`Membership.tla` is the collections `projects` and `project_members` and the
calls that write them. A transaction is modelled by the operations it consists
of: `changeMembers` locks the project's document, reads the row, counts the
owners, writes and commits; `DeleteProject` deletes keys, members and project
and commits. MongoDB is external and modelled as the code needs it: a
transaction reads its snapshot (`view`), conflicts with a document that another
open transaction has written (`writes`) or that changed since the snapshot
(`stale`), and is then run again by `WithTransaction` (`Retry`). A call is
authorised by one RPC and made by the next, so anything can happen between.

`OwnedProject.tla` is the abstract version: each call takes effect at one moment
or not at all, none takes the last owner, and a deletion looks for the members
and takes every one it found away with the project. `ActsAtomically` says that
the transactions implement it; a deletion looks when its transaction takes the
snapshot. In a project that is gone nothing is locked, so a role
may be confirmed there that another call has just taken away (`Confirm`); this
takes five calls and came to light in the proof of `TransactionsAreAtomic`.

### The JavaScript client

`SdkClient.tla` is the queue of `client.ts`, on the side of the wire where the
events come from.

| Part of the state | In the code |
| --- | --- |
| `captured`, `queue`, `timer` | the captures so far, `this.queue`, whether `flushTimer` runs |
| `promise`, `batch`, `attempt` | `this.flushPromise` and, when it is set, where `sendBatchWithRetry` stands |
| `arrived`, `late`, `received` | the server: what it took of this attempt, what may still come of abandoned ones, and how often it took each event |
| `reports` | the calls of `onDropped` |
| `call`, `asked` | the calls of `flush`, and (history) the events each was made for |
| `failures` | history: failed attempts that carried each event |

JavaScript is single-threaded, so an action is what runs between two awaits.
Continuations of settled promises come before timers and responses
(`NoMicrotask`); captures, calls of `flush` and of `destroy` may come at any
point between two actions, since the application has continuations too. The
server takes a batch event by event, as `publishEvents` does, and may answer
with an error after it took some, or never. An event is a number, in the order
of capture; one that is sampled out is not captured. `create`, `getAll`,
`getOne` and `delete` keep no state and are left out. `onDropped` is taken not
to call the client.

### Retention

`Retention.tla` is the cleanup loop of one logger (`runCleanup`), next to what
changes under it.

| Part of the state | In the code |
| --- | --- |
| `now` | the logger's clock; a day of retention and the grace are counted in the same unit |
| `project`, `retention` | which projects exist, and what `GetRetentionDays` answers for each |
| `unused`, `pending` | requests to the broker's `UpdateRetention`, and those between its check and the logger's write |
| `purges`, `deleted` | the channel `purges`, and `DeleteProject` between its transaction and `requestPurge` |
| `log`, `created` | where each log is ("accepted" is between the two halves of `LogInfo`), and its `created_at` |
| `job`, `todo`, `current`, `cutoff` | where the loop stands: which call comes next, the projects it has yet to visit, the one it is at, the threshold of the deletes |
| `least` | history: the least retention the log's project had since the log was stored |

An action is one call to MongoDB, or a choice of the loop's `select`; the find
and the delete of a batch are one, since what matched the filter goes on to match
it. The loop is one goroutine, so passes and purges never overlap. Other loggers
may store the logs and make the deletions, with clocks up to `MaxSkew` behind.
A log that a user deletes by hand (`DeleteLog`) is left out. That no log of a
living project is swept follows from the order of the two reads (the ids in the
logs, then the projects) and from ids not being reused: the proof does not need
the grace for it.

### Startup

`Startup.tla` is a pass of `runStartup` on any number of loggers, operation by
operation, on a database that an earlier build has left.

| Part of the state | In the code |
| --- | --- |
| `projects`, `unborn`, `flagged`, `slugged` | the projects, ids to come, those with the `default` flag, those whose slug is "default" |
| `filed`, `days` | `project_id` of each document of `logs`, `api_keys` and `settings` (none, a hex string, an id), and each setting's value |
| `role` | `project_members`, with two rows to a login: the normalized spelling, and another |
| `index`, `ttl`, `slugIndex` | `unique_project_key`, `unique_default` and the two indexes of earlier builds |
| `at`, `held`, `todo` | where each logger's pass stands, the Default project it has read, the memberships on its list |
| `failed`, `converted` | what the pass will return |
| `serving`, `ready`, `cleanup` | `startupState`, and whether `onConverted` has started `runCleanup` |
| `wanted` | history: the retention chosen for the project of each log |

A fault is an operation that fails, `migrationTimeout`, which fails all that are
left, or a crash. The step after a failed one is the code's (`AfterFailure`):
`MarkDefaultProject` ends the pass, everything else goes on. Users create
projects (one may be called "Default"), remove members, set retentions (any
member, unless it is lowered) and delete projects as soon as one logger serves,
and the cleanup of a logger that
has converted every id deletes logs that have outlived their project's
retention. An `UpdateMany` and a batch are taken one document at a time, so a
failure may leave any part of it undone; the merge of one login is a
transaction and one step. Of the spellings of a login one besides the normalized
is kept; `CreateProject` leaves an id for each logger.

### The dashboard

`Dashboard.tla` is one browser with its tabs, the server behind it, and other
people who change projects meanwhile.

| Part of the state | In the code |
| --- | --- |
| `jar` | the cookie: user, CSRF token, current project (`SessionData`) |
| `page` | what each tab shows: the layout's data and a project's |
| `nav` | the navigation of each tab: the cookie it was sent with, what the layout's loader and the page's have answered, where to go next |
| `post` | the form a fetcher of the tab has submitted, and its answer |
| `role`, `unborn`, `gone` | the projects and their members, as the broker answers for them |
| `coming` | history: the project a switch or a creation has to land the tab on |

A request carries the cookie of the moment it was sent; the cookie its answer
commits is in force when the headers arrive, the page when the rest has. The two
loaders of a page run in any order, and of two redirects either may win. React
Router reloads all loaders after each navigation and each form that is not
redirected; a fetcher's redirect is ignored when the tab has been sent elsewhere
since. The cookie is `SameSite=Strict`, so the callback from GitHub carries it or
none. One form is under way in a tab at a time. Who cannot sign in has no
session; logout, which no page offers, is left out, and so are failures of the
broker, but for the settings' loader.

`ProjectSettings.tla` is the settings page of one project, open before several
members.

| Part of the state | In the code |
| --- | --- |
| `role`, `gone`, `name`, `days` | the project in MongoDB |
| `page` | what each member's page shows: name, own role, retention, members |
| `req` | the requests: made, checked by the action, at the broker, cleared, answered, reloading; what the action has read |
| `seen` | history: the names since the form was sent, the roles and retentions since the broker was called |

What a page offers follows from what it shows (`Offers`); the action asks for
the project (`RequireProject`) and checks the form, the broker asks for the role
and a member's retention again, and only then is the change made. CSRF tokens
are in `Dashboard`. A change whose
answer is lost is made, and shown as an error; `StaleTabsPowerless` is about
these too. `Allowlist.tla` holds what both need of GitHub and of the
allowlist: who may sign in, and what `checkInvitee` concludes when GitHub answers
some of its questions, truly, fails at others, and refuses the owner's token at
a third (an org it will not speak of counts as one that only shows its public
members, whether or not the owner is in it).

## The runs

| Run | Instance | Checks |
| --- | --- | --- |
| `delivery_batch` | a batch of two events, two calls at once in the logger, two faults | `TypeOK`, `AcceptedIsKept`, `CopiesCostFaults`, `UnknownProjectIsGone`, `OutageDropsNothing` |
| `delivery_live` | an event and a message nobody can read, one call at once, two faults, with fairness; the logger need not come back while the listener is stopping | `KeepsPromise`, `EveryRequestAnswered`, `BacklogDrains`, `ShutdownCompletes` |
| `delivery_refusals` | one event, one fault | violates `DroppedAfterMaxRefusals` |
| `keys_revoke` | two brokers with room for one entry, two requests with an issued, a created or a made-up key, one call, one failure that limits, one restart | `TypeOK`, `RevokedIsShutOut`, `GenuineIsNeverDenied`, `NeverUsableAgain`, `OnlyFailuresLimit` |
| `members` | two users, four calls | `TypeOK`, `AlwaysOwned`, `ActsAtomically` |
| `sdk_queue` | four events, one of which cannot be encoded, batches and a queue of two, one retry, one call of `flush`, with fairness | `TypeOK`, `NothingVanishes`, `CopiesCostFailures`, `FlushEmptiesQueue`, `EveryEventSettles`, `FlushReturns` |
| `sdk_flush` | two events, two calls of `flush` | violates `FlushDrains` |
| `retention` | two projects with a log each, one change of retention, a batch and a purge queue of one, one fault, one project slow, with fairness | `TypeOK`, `RetentionHonoured`, `OrphansGo`, `ExpiredLogsGo` |
| `startup` | two loggers on any of three databases (before projects; before ids, with and without a Default project), two logs and a setting, one fault, one change by a user, with fairness | `TypeOK`, `ReadyIsDone`, `RolesKept`, `ChosenRetentionHolds`, `ReadyInTheEnd` |
| `session` | two tabs on the keys or settings pages, two projects, two clicks, one change by others, four CSRF tokens | `TypeOK`, `PageOfOneProject`, `SwitchLands` |
| `loads` | one tab on every other page, two clicks, two changes by others, with fairness | `LoadsEnd` |
| `settings` | two users of the page, two invitees, two forms under way, two orgs that GitHub tells of or not | `TypeOK`, `WarningsTrue`, `StaleTabsPowerless` |

What the properties say is written above each of them in the `*Properties.tla`
modules. Each property of a passing run has a mutant beside the definition it
mutates ("Mutant: ..."), a bug one could plausibly write, which makes TLC find
the property violated: an answer without the confirms, a result cached whatever
was evicted, a transaction that does not write the project's document.

**Bounds.** `MaxFaults` bounds the faults of delivery. One delivery is
prefetched at a time (`prefetchCount` in the code is ten), so the limit is met
with two messages queued; RabbitMQ puts back what is unacknowledged when a
channel closes, be it one message or ten. One fault is enough for
each recovery path by itself; two let a fault hit the recovery from another (a
crash during redelivery, a timeout after a lost connection). Two slots let an
abandoned `LogInfo` call run beside its retry. The code counts attempts without
end, the model up to `MaxRefusals` (a bound): `forward` only asks whether
that many have been made.
`maxRefusals`, `maxFailures`, `maxKeyCacheEntries`, `maxIPLimiterEntries` and
`prefetchCount` are constants of the model, given the smallest values at which
their limit is passed and reached again: nothing in the code depends on their
size. One administration call and two requests are what a race of the key cache
takes (a validation under way, a request that comes late, a revocation, a
creation or a deletion); two brokers are one that is told and one that is not;
a cache of one entry is full at once. For the members
write skew takes four calls: create, add an owner, and two that each remove or
demote one. Four events fill a batch in flight and a queue of two behind it, and
make the queue drop one; one retry is the least that has a first and a last
attempt. Calls of `flush` that overlap are in `sdk_flush`, and the theorem
`FlushLeavesNothing` is about any number of them. Retention needs two projects
for one to be in the way of the other (deleted behind a living one, expired
behind a slow one, a second purge in a full queue), a batch of one for a delete
to come in two batches, and time for a log to get older than the grace and than
a day. `MaxTime` stops the clock: logs are stored early enough to grow old.
Startup takes two loggers for a race of two passes, and one change by a user for
what a pass has read to be stale; one fault ends or damages a pass, and the next
one finds what it left. With two faults both loggers can fail to build an index,
which is when there are two Default projects; the safety properties have been
checked there too (four million states), and the theorems are about any number. Two logs and up to two settings are one document that
has a project and one that does not. The dashboard takes two tabs for one to
switch the project behind the other and two clicks for each race of two
navigations or of a navigation and a form; `MaxTokens` bounds the CSRF tokens
and is never reached before the clicks are used up. Its pages are divided: the
pages whose forms act on a project are in `session`, the others, whose loaders
redirect, in `loads`. The settings page takes two requests (`MaxForms`) for one
to go on what the other has changed; of two invitees one is in an org that only
some of the members see, the other in none.

**Deadlock** is not checked: each request and call is made once, so the model
stops when all are done, as the system does when nobody uses it.

**Symmetry** is used in runs of safety properties only, over requests, calls,
brokers, users and slots that the initial state does not tell apart.

**Fairness** (`delivery_live`, `sdk_queue`, `retention`, `startup`, `loads`).
Each goroutine takes its next step and each process that stopped starts again
(`restart: always`): weak fairness of the actions of the logger, of RabbitMQ
coming back and delivering, and of the steps of the listener, which is one
process, together. Of a request only what its own goroutine can always do is
fair: to give up the wait for confirms after `publishTimeout`, and to answer.
`publishTimeout` bounds nothing else. Opening the channel, the publishes and
closing the channel wait for RabbitMQ however long it does not read from the
connection, so nothing makes these steps fair, and
`EveryRequestAnswered` says what the code can promise: a request that RabbitMQ
gets round to reading and closing (`RabbitServes`, a premise of the property) is
answered, whether or not anything is ever confirmed. Go's
`select` chooses among ready cases at random, so a listener told to stop cannot
pick a delivery, or a retry timer, every time for ever: strong fairness of
`ListenReturns` and `GiveUp`. Nothing is assumed of clients, deletions,
refusals, confirms, timeouts of calls and crashes. The logger comes back as long as the
listener is not stopping (`WF_vars(process # "stopping" /\ LoggerRestart)`): the
listener must stop even without it. The JavaScript event loop runs
what is due, which is weak fairness of the flush timer, the retry delay, the
request timeout and the continuations of a settled promise; nothing is assumed
of the server. Of the logger's cleanup, time passes and the loop's goroutine
goes on; that a purge is ever requested or taken is not assumed, nor is a slow
project ever finished. Each logger goes on with its pass, starts the next one
when the retry timer fires and is restarted when it stops (`Pass`); users and
faults are not fair. Every loader of a navigation is answered and the browser
follows the redirect (`Navigation`); nothing is assumed of the user or of other
people.

## The theorems

TLC checks an instance; the theorems hold for all values of the constants that
satisfy the assumption of the module (`DeliveryAssumption` and
`OneRequestEach`: an event is published by one request; `KeyCacheAssumption`,
`MembershipAssumption`, `SdkClientAssumption`, `RetentionAssumption`,
`StartupAssumption`, `DashboardAssumption`, `SettingsAssumption` with
`AllowlistAssumption`: the sets are finite where the code's are, the values for
"none" are not members of them, the bounds are natural numbers; for retention,
clocks differ by no more than the grace and the shortest retention; for startup,
any database that an earlier build can have left (`IsDatabase`: a document has a
project or none, and a project at most one setting); for the dashboard, what a
user opens is one of the addresses its routes have).

| Module | Theorem | Says |
| --- | --- | --- |
| `DeliveryProofs` | `AcceptedNeverLost` | `Spec => []AcceptedIsKept` |
| | `DeliveryImplementsAtLeastOnce` | `Spec => Promise!Safety`: the four processes implement the safety of `AtLeastOnce` |
| | `LivingProjectsKeepEvents` | `Spec => []UnknownProjectIsGone` |
| | `OutagesDropNothing` | `Spec => OutageDropsNothing` |
| | `CopiesArePaidFor` | `Spec => []CopiesCostFaults` |
| | `DeliveryInvariant`, `TypeCorrect` | `Spec => []IInv`, `Spec => []TypeOK` |
| `KeyCacheProofs` | `RevocationHolds` | `Spec => []RevokedIsShutOut` |
| | `GenuineKeysWork` | `Spec => []GenuineIsNeverDenied` |
| | `CacheOnlyForgets` | `Spec => NeverUsableAgain` |
| | `OnlyFailuresCount` | `Spec => []OnlyFailuresLimit` |
| | `KeyCacheInvariant`, `TypeCorrect` | `Spec => []IInv`, `Spec => []TypeOK` |
| `MembershipProofs` | `ProjectKeepsOwner` | `Spec => []AlwaysOwned` |
| | `TransactionsAreAtomic` | `Spec => ActsAtomically`: the transactions implement `OwnedProject` |
| | `MembershipInvariant`, `TypeCorrect` | `Spec => []IInv`, `Spec => []TypeOK` |
| `SdkClientProofs` | `CapturedNeverLost` | `Spec => []NothingVanishes` |
| | `FlushLeavesNothing` | `Spec => []FlushEmptiesQueue` |
| | `CopiesArePaidFor` | `Spec => []CopiesCostFailures` |
| | `SdkClientInvariant`, `TypeCorrect` | `Spec => []IInv`, `Spec => []TypeOK` |
| `RetentionProofs` | `NoLogGoesEarly` | `Spec => RetentionHonoured` |
| | `RetentionInvariant`, `TypeCorrect` | `Spec => []IInv`, `Spec => []TypeOK` |
| `StartupProofs` | `SuccessIsComplete` | `Spec => []ReadyIsDone` |
| | `NoRoleIsLost` | `Spec => RolesKept` |
| | `RetentionIsKept` | `Spec => ChosenRetentionHolds` |
| | `StartupInvariant`, `TypeCorrect` | `Spec => []IInv`, `Spec => []TypeOK` |
| `ProjectSettingsProofs` | `NoStaleChange` | `Spec => StaleTabsPowerless` |
| | `OwnersAreToldTheTruth` | `Spec => []WarningsTrue` |
| | `SettingsInvariant`, `TypeCorrect` | `Spec => []IInv`, `Spec => []TypeOK` |
| `DashboardProofs` | `OnePageOneProject` | `Spec => []PageOfOneProject` |
| | `SwitchLandsThere` | `Spec => SwitchLands` |
| | `DashboardInvariant`, `TypeCorrect` | `Spec => []Inv`, `Spec => []TypeOK` |

Each rests on an inductive invariant, the property strengthened by what the code
relies on without saying so; TLC has checked it too.

* **Delivery.** `AcceptedIsKept` is not inductive: the step that could lose an
  event is the ack, and it is taken on what the listener believes. `Truthful`
  says that the belief is right (a call answered "stored" only after its insert,
  a verdict "stored" only after such an answer), `InHand` that the verdict is
  about the message at the head of the buffer, `Secured` that RabbitMQ confirms
  only what it keeps. `Founded`: an answer or a verdict "unknown project" is
  about a project that is gone, and a verdict "refused" follows a refusal.
  For the refinement, `Unpublished`: a message that RabbitMQ has not taken has
  left no trace behind it, and of a request that was refused as malformed nothing
  is ever sent. With it each step is one of `AtLeastOnce` (an answer, a message
  taken, lost before its confirm, stored or dropped) or unseen by it.
  `CopiesCostFaults` bounds a number, so its invariant counts the places one more
  copy can come from: `Copies` adds to the entries in MongoDB one for the queue,
  one for the listener's hands unless it has been told that the event is stored
  (`ToBeStored`), and one for each call that goes on although nobody waits for it
  (`Orphans`). Every step that raises the sum takes a fault. For that RabbitMQ
  must hold a message in one place at a time (`Single`), and what it has not
  taken must be nowhere (`Untouched`).
* **Key cache.** `RevokedIsShutOut` needs that a stopped key is in no cache of
  its broker, and that a validation under way which found it valid has read an
  older generation than the broker's, so its answer is not cached; that the
  keys a call has stopped are inactive in the database for good; and that a
  request which arrived late stays without a valid answer. `GenuineIsNeverDenied`
  needs that an invalid entry or answer is about a key that was absent or no
  longer active: a key nobody has been given is not presented (`Known`).
  `OnlyFailuresLimit` needs that no window counts more failures than requests
  of its address were refused at its broker (`LimiterOK`): windows are reset,
  swept and dropped to make room, but a refusal is counted once, in the step
  that answers it.
* **Members.** `HoldsProject`: a transaction that changes the members of a
  project that exists has written the project's document, so no other change and
  no deletion commits before it, and every owner in its snapshot is an owner
  still. `HasLooked`: who takes an owner away has seen another one in that
  snapshot. Together with `Isolated` and `SnapshotsOK`, what snapshot isolation
  gives, the other owner is there at the commit. For the refinement, `RowsHeld`
  says the same of every row, `Found` that who changes a row has found it,
  `AskedOnce` that a call is not made twice, and `Cleared` that a deletion has
  written the row of every member its snapshot has; each operation then is a step
  of `OwnedProject` (a commit, an insert, a refusal, a deletion's look) or unseen
  by it.
* **JavaScript client.** `BatchOK`: what the server is thought to have taken of
  an attempt it has received, and a promise that resolves leaves every event of
  its batch received or reported. `Known`: only captured events are queued, in
  a batch or asked for, so a capture adds nothing to what an earlier `flush` was
  called for. `LeftNothing`: nothing of it is queued either when a call goes on
  and finds another flush under way, because that flush took the whole queue. `Spent`: no event is both queued and
  in a batch, and what is still to be sent was sent before only by attempts that
  failed.

* **Retention.** `SweepOK`: the ids the sweep has read are of projects that
  existed by then, so those the list of projects does not have are deleted, and
  stay so. `PurgesOK`: only deleted projects wait for a purge. `DueOK`: what
  `expireLogs` is about to delete was there, and old enough, when the retention
  was read, and nothing stored since then can be dated before the cutoff.
  `LeastOK` ties the history variable to the setting.
* **Startup.** `Achieved`: what a pass in which nothing has failed has brought
  about by each of its steps. It is not undone by anybody else: no step of
  another pass, of the cleanup or of a user makes an index go, a document lose
  its project or a login be stored as it was typed (`Improves`). At most one
  project has the flag once `unique_default` is there (`UniqueFlag`), and a
  Default project without an owner is one that some pass has still to see to
  (`OwnedOK`, `Owes`, `PromoteOK`), which is why `ReadyIsDone` speaks of owners
  only when every logger is ready.
  `ChosenRetentionHolds` needs `RetentionInv`: the cleanup runs only when no
  `project_id` is a string any more, and none becomes one again (`CleanupOK`); a
  document is adopted into a Default project or one that is gone (`AdoptsOK`);
  and what is wanted of the logs of a project is what its setting says, under the
  id or, before the conversion, under the string (`WantedOK`), unless two settings
  have come under one id (`Doubled`). An earlier form of the property, which
  excepted only a setting that waits to be adopted, turned out in the proof to
  hold for one fault and not for two.
* **Project settings.** `RemembersOK`: a request that goes on after its checks
  goes on with the name, the role and the days it was checked against.
  `WarningsOK` carries what an owner was told; that it was true when it was said
  is `CheckIsTrue`, a lemma about `checkInvitee` for any answers of GitHub.

* **Dashboard.** `PagesInv`: a page that the layout's loader answers for is shown
  only when it did not have to correct the project of the cookie, and what the
  page's own loader answers is of that project. `SwitchInv` follows a switch
  through its redirects (`OnItsWay`): the cookie is in the project, its user still
  is a member, and no answer so far leads elsewhere. `PostInv`: a form's answer
  sets a cookie only with a redirect; `NavInv`: the sign-in page lists no project
  to switch to.

Only model-checked are the liveness properties (`KeepsPromise` with its fairness,
`EveryRequestAnswered`, `BacklogDrains`, `ShutdownCompletes`,
`EveryEventSettles`, `FlushReturns`, `OrphansGo`, `ExpiredLogsGo`,
`ReadyInTheEnd`, `LoadsEnd`), which are out of the prover's reach together with
`ENABLED`. Every other property of a passing run is stated by a theorem.

## Where code and documentation differ

* `delivery_refusals`: `consumer.go` counts attempts that found no logger as
  refusals, so after an outage one refusal drops an event that `maxRefusals`
  says is tried five times.
* `sdk_flush`: `flush` promises that all enqueued events are sent when it
  resolves. When another flush starts before a waiting call goes on (two calls
  wait for the same promise, or a capture fills a batch in between),
  `flushQueue` answers that call at once, while the new batch is still in
  flight.

Without a run of their own, but in states the models reach:

* `CreateAPIKey` does not look at the project, so a key created while its
  project is deleted stays active for good (`KeyCache`); the documentation says
  that the keys of a deleted project stop working.
* `emitter.go:86-87` says that `Publish` returns once RabbitMQ has confirmed
  every message "or ctx ends". The context ends only the wait for confirms: on a
  connection that RabbitMQ has stopped reading (a memory or disk alarm),
  opening the channel, a publish or the deferred `Close` hang past
  `publishTimeout`. `Delivery` has such requests ("publishing" and
  "unconfirmed" for ever).
* A member added while the project is deleted stays (`Membership`), and
  `ProjectAccess` then reports that the project exists.
* `startup.go` says that startup is retried until it succeeds. When a user has
  set the retention of the Default project before a setting of an earlier build
  is adopted, the adoption runs into `unique_project_key`, which nothing
  handles: no pass succeeds any more. `ReadyInTheEnd` excepts this
  (`Collision`).
* `ensureOwners` adds the users of `DEFAULT_PROJECT_OWNERS` only while the
  project has no owner. A pass that fails after the first of them leaves the
  others out for good.
* A pass reports that the ids are converted, and the cleanup starts, although the
  adoption of settings that have no project failed: logs that were adopted
  already expire by the default of 90 days and not by the setting they were kept
  under. `ChosenRetentionHolds` excepts a Default project without a setting of
  its own.
* Two loggers that both fail to build `unique_default` may make a Default project
  each, one adopting the logs and the other the setting they were kept under: the
  same follows, and no later pass brings the two together.
* Of two loggers, the slower one may add an owner again whom a user has removed;
  it may adopt documents for a Default project that has been deleted meanwhile;
  and, while the index could not be built, there may be two Default projects. A
  project that a user calls "Default" before the first pass has marked one may
  be taken for it.

## What is not modelled

* `scripts/` that upgrade MongoDB between versions: shell commands run by hand.
* Log queries and metrics, the health check: they read, and keep nothing.
* `clientip.go`, JSON and the formats of keys, slugs and routing keys: functions
  of one value, whose results are inputs here.
* Scopes of keys and `requireScope`: a key's scopes never change.
* Failed attempts of one address beyond `maxFailures` while several checks are
  under way (`middleware.go:284`): the limit is meant to be approximate.
* Of startup: the expiry by the TTL index of an earlier build (only that it is
  dropped), ids that are no hex strings, indexes that are not unique, more than
  two spellings of a login, and two rows to a login and project while
  `unique_project_member` is missing.
* Of the dashboard: presentation and widgets, filters and pages of the events,
  a broker that fails (but for the settings' loader), changes of an org's
  members at GitHub, and more than the 100 orgs `listGithubOrgs` reads. The
  settings page acts on the project in its address, so it is left out of the
  switching of projects. What a page still shows after a form (the error of one
  member's form in another's row, a role shown as chosen until it is confirmed,
  the list of `RetentionSection`, the answer with a new key that a later
  revocation replaces) is state of the components that no property is about.
  A key is made in the session's project, which another tab may have switched
  since the page was shown, and so in a project that this page does not show:
  the comment at `keys/index.tsx:59-61` says that this is meant. `Dashboard` has
  it, and no property is about it; nor about a key or an event of the project
  the page did show, which is not found in the session's.
* RabbitMQ, MongoDB, `net/rpc` and the mongo driver: external, modelled by what
  the code relies on.
* Docker, Caddy, the documentation site, the tests.

## The plan

In this order; the first seven are done.

1. `Delivery` with `AtLeastOnce`: the core of the system.
2. `KeyCache`: authentication.
3. `Membership` with `OwnedProject`: projects and their members.
4. `SdkClient`: queue, timer, flushes and retries of the JavaScript client.
5. `Retention`: the cleanup loop, the purge queue, the orphan sweep.
6. `Startup`: the passes of several loggers on the databases of earlier builds.
7. `Dashboard`, `ProjectSettings` and `Allowlist`: the session, the pages and the
   settings of a project.
8. Theorems: every safety property of the passing runs is stated by one.
9. Compositions: `Retention` with the deletion of `Membership` and the events of
   `Delivery` that are still on their way.

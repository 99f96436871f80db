# A verification of XStreamRoll

XStreamRoll is a streaming platform: an API over PostgreSQL, a fleet of
processing workers that take pending stream events from the API and publish the
processed ones, an SDK, and a web application. This directory holds TLA+
specifications of its core, the TLC runs that check them on small instances,
and proofs, checked by TLAPS, of what holds for instances of any size.

    tlc -workers 2 -config MCStreamLocks.cfg MCStreamLocks      # a run
    tlapm StreamLocks_proofs.tla                                # the proofs of a module

`PROJECT.json` lists every run with its expected result, the definition-by-
definition map to the source, a mutant for every property (a plausible bug that
the property catches), the findings, the hazards and the theorems.

## Inventory

Paths are relative to `src/`; `processing/` is `xstreamroll-processing/src/`.

| part | state | operations | what is hard | correct when |
|---|---|---|---|---|
| stream lock, `processing/leader-election.ts` | the table `stream_locks` (owner, token, expiry per stream) and the connection of each worker; or a map with timers in the process | `acquire`, `renew`, `release`, `releaseAll`, `close` | calls are delayed, rejected after execution, cut off by a crash; worker and database clocks differ; timers fire late | one live holder per stream; a lost claim stays lost; a live claim is not taken away; leases are bounded |
| stream session, `processing/session.ts` | state, queue, `processing`, the event in hand and its attempts | `start`, `enqueue`, `stop`, `fail`, the pump | everything interleaves with the pump's awaits; publishes fail, or succeed and report failure | FIFO, nothing lost, bounded queue and retries, `stop()` drains and ends |
| session registry, `processing/session-registry.ts` | `sessions`, `lockTokens`, `heartbeats`, `inflightAcquires` | `route`, heartbeat ticks, the state listener, `drainAll` | concurrent routes, renewals racing expiry, loss of the lock under a running session | only the owner of a stream publishes for it |
| poll loop, `processing/worker.ts` | cursor, watermark, shutdown flag | `pollOnce`, `start` | paging over a growing table, shutdown in the middle | every pending event is offered in order, the queues stay bounded |
| graceful shutdown, `processing/lifecycle.ts` and the hooks in `worker.ts` | idle / shutting-down / done | `install`, `requestShutdown` | signals in the middle of a shutdown, hooks that hang | hooks run once, in order; the process ends |
| dead-letter store, `processing/dead-letter-store.ts` | a JSON file, the chain of writes | `record`, `list` | a failed write in the chain, several writers | no record is lost |
| stream lifecycle manager, `processing/session/lifecycle.ts` | idle ... ended / error | `start`, `stop`, `handleDisconnect` | a disconnect during a PATCH | terminal states are terminal |
| event filter, `processing/pipeline/` | each worker's configs; a Redis hash and channel | `setConfig`, `clearConfig`, `install`, reconcile | lost pub/sub messages, the gap between snapshot and subscription | workers converge to the stored configuration |
| streams API, `api/src/streams/` | streams, stream data | CRUD, status transitions, pending events, ingest | check-then-update of the status | only legal transitions, each announced once |
| authentication, `api/src/auth/`, `api/src/users/`, `api/src/common/guards/` | users, the token denylist, reset tokens | register, login, refresh, logout, forgot / reset / change password | tokens that outlive what invalidates them | a revoked token is refused, a reset token works once |
| webhooks, `api/src/webhooks/` | subscriptions, deliveries | dispatch, sweep, manual retry, attempt | attempts of one delivery overlap, statements fail, the process dies | nothing is given up early, no attempt or answer is lost, every delivery is settled |
| gateway, `api/src/gateways/`, and its client, `app/hooks/useStreamSocket.ts` | sockets, rooms | connect, disconnect, subscribe, unsubscribe, emit | a disconnect during an await, reconnection | a client gets what it subscribed to, and nothing else |
| notifications, `api/src/notifications/` | the table of notifications | create, mark read, delete, the sweep of expired ones | sweeps of several processes choose the same rows and count too few | what has expired goes |
| tags, `api/src/tags/`, and their editor, `app/hooks/useStreams.ts` | tags and their join table; the editor's query cache | attach, detach; show, roll back, read again | edits and reads overlap, answers are lost | the editor ends up with the server's tags |
| audit, admin, health, metrics of the API | tables, counters | single statements | little | - |
| SDK, `xstreamroll-sdk/src/`, and the web application's `fetch-json` | access and refresh token; the iterator's page | requests with retries and a refresh, pagination, webhook verification | answers lost after the server acted, tokens replaced by other requests, pages that fail | bounded requests; no row twice, none skipped |
| web application, `app/` | toasts; query caches; the socket | add, update, dismiss, expire; optimistic updates | timers of toasts that were replaced; reconnection | what is dismissed goes |

How they interact: the poll loop fetches pending events from the streams API and
awaits `registry.route(event)` for each of them. `route` claims the stream in
the lock table, spawns a session and enqueues; the session's pump publishes to
the API (with retries) or records a dead letter. The registry's heartbeat renews
the claim and fails the session when the claim is lost; the session reports its
end to the registry's state listener, which releases the claim. Shutdown stops
the loop, drains the sessions, gives all locks back and exits. In the API a
status change fans out to webhooks and to the gateway's rooms.

## What is modelled

### StreamLocks: the distributed lock

`StreamOwnership` says what the lock promises, with neither table nor clock: at
most one holder, a worker together with a claim; a stream is claimed only while
nobody else holds it; every claim is new; a claim that has ended never returns.

`StreamLocks` is the table and the `PostgresLockManager` of every worker. A call
is three steps: the worker builds the statement (token and expiry from *its*
clock), the database executes it (`NOW()` is the database's clock), the worker
resumes with the outcome. So:

- `CallAcquire`, `CallRenew`, `CallRelease`, `CallReleaseAll` append a statement
  to `conn[w]`, the queue of the worker's single `PgClient`;
- `ExecAcquire` (the UPSERT with its WHERE clause), `ExecRenew`, `ExecRelease`,
  `ExecReleaseAll` execute the first statement of a connection atomically;
- `AcquireReturns`, `RenewReturnsFalse`, `OthersReturn` continue in the worker;
  `Reject` is a query that rejects, before or after its execution;
- `Crash` forgets a worker's memory and connection, `Tick` moves the clock.

`claims[w]` are the tokens the worker's callers hold on to. A caller drops a
token before it releases it, drops and releases it when a renewal returns false,
and calls `releaseAll` only when no acquire is on its way: this is how the
registry uses the lock: `SessionRegistry` is checked and proved to do so
(`LockProtocol`). A token is a number, in the order `randomUUID` is called.
`lost` and `granted` are history.

A crash also drops the statements the database has not executed yet. That a
statement of a dead process is executed after its replacement, under the same
id, has started is not modelled.

### StreamSession: one session

An action is the code between two awaits, since JavaScript runs it without
interruption. The pump is "off" or waits in `publish()`, in the back-off sleep or
in `deadLetter()`: `PublishResolves`, `PublishRejects`, `BackoffOver` and
`DeadLetterSettles` are its continuations, and the first and the last of them
include the next turn of the loop (`NextIteration`). `Enqueue` includes the
pump's start. A publish that rejects may have been applied by the coordinator
(`Deliver`). `Fail` is guarded as its only caller, the heartbeat, guards it.
Events are numbered as they are accepted; payloads are left out, and so are the
durations of the back-off.

### SessionRegistry: a fleet with real time

The registries of all workers on top of the lock table: `Locks` is an instance
of `StreamLocks` whose `claims` are the tokens in `lockTokens` and those a
`route()` call has been given and has not stored yet (`Held`). `route()` is
`RouteExisting`, or `RouteAcquire` (which joins an acquire in flight or issues
one) followed by `AcquireSettles` / `AcquireRejects` and, for each caller that
awaited it, `RouteLocked`, `RouteRaced` or `RouteSpawns`. The heartbeat is
`HeartbeatFires`, then `RenewReturnsTrue`, `RenewReturnsFalse` or
`RenewRejects`. `Evict` is the state listener. Shutdown is `DrainBegins`,
`StopWaits` and `StopEnds` for each session, `DrainReleasesAll`, the repeated
`releaseAll()` of the later hooks (`ReleasesAgain`), `Exit`. `Crash` may happen
at any time (it is also the forced exit), and `Restart` brings a worker with the
same id. Continuations of a settled acquire run before any other code of the
worker (`Resuming`), and so does `drainAll`'s synchronous loop (`Stopping`).

A session is reduced to running / draining and to whether its pump is at work.
A pump outlives a session that failed, as in the code.

Time: timers fire in the instant they are due and a statement is answered at
most `MaxLag` after it was issued; `Tick` does not pass these deadlines. Once
the clock has reached its bound `MaxTime` every timer counts as due, so that
liveness is not cut off by the bound.

### WebhookDeliveries: fan-out, attempts, sweeps

The two tables of the webhooks and everything `WebhooksService` does with them.
`DispatchStreamEvent` reads the matching subscriptions, and `CreateDelivery`
inserts a row for each and starts its first attempt, which nobody awaits;
`CreateRefused` is the foreign key that breaks because the subscription was
deleted meanwhile. A sweep is `StartSweep` (the oldest due rows, each with the
attempt count read) and a `SweepNext` for each row. An attempt is the same for
both: `PostAnswered` or `PostThrows`, then `AttemptEnds` writes the outcome.
`RecordFails` and `CatchFails` are writes that report failure, whether or not
they took effect: the first makes the catch block record a failure, the second
ends a sweep. `CheckRetry` and `Requeue` are the two halves of `retryDelivery`.
`Crash` ends all of it; the tables stay.

An attempt carries the count its caller read (`seen`), while the UPDATE counts on
from the row: that difference is what the properties are about. Times are
abstract: `next_attempt_at` is null, later or now, and `Elapse` is the passing of
a back-off. All subscriptions are of one stream, as streams do not interact.

### The parts of a worker: `MCWorker`

Four modules whose parts share no state run in one instance, in which a behaviour
is one of one part (`part`); no fair action of a part is enabled in its initial
state, so those that stand still restrict nobody.

`EventFilters`: every worker decides from its own map. `SetConfig` and
`ClearConfig` change that map at once; the write to the Redis hash waits until the
store has started and its message follows it (`WriteGoesOn`). A worker starts in
steps (HGETALL, SUBSCRIBE, merge of the snapshot), receives messages and reconciles
with another scan that never clears. Commands fail or are sent twice, messages are
lost with the subscriber's connection, workers crash and come back empty.

`PendingEvents` and `WorkerProcess`: the API stamps an event on arrival and inserts
it later, so rows become visible out of the order of (timestamp, id), the key of the
pages. Rows are neither marked nor deleted: every poll cycle starts from the oldest.
`PageArrives`, `OfferEvent`, `RouteSettles` and `PageDone` are a cycle of `pollOnce`,
`LocksInstalled` and `FilterInstalled` are `start()`, and `RequestShutdown`,
`PollSettled`, `HookSettles` and `Deadline` are the shutdown with its seven hooks. A
signal may come at any of these steps, `start()` included. Whether the queues are at
the watermark is a free choice.

`DeadLetters`: the calls of `record()` in the chain of promises, each reading the
file, writing a temporary one and renaming it, with a failure or a crash at each step.

`MemoryLocks`: the in-process lock manager. A renewal keeps the token the timer of
the earlier lease looks for; what keeps that timer from evicting the renewed entry is
that it is cleared. Timers fire late by any time. `LocalOwnership` says that it implements
`StreamOwnership`, as the lock table does.

### The parts of the API and of its clients: `MCApi`

Seven more, put together in the same way.

`StreamsApi`: a PATCH is the ownership guard, the read that validates the status
transition, the UPDATE by id and the announcement. Sockets authenticate, subscribe
(`SubscribeAsks`, and `SubscribeJoins` when the database has answered) and disconnect
meanwhile; `seenPublic` is history.

`Accounts`: one account and the requests that use it, each cut at its awaits. A token
is its mint; its `stamp` is the `password_changed_at` it was signed with. The
denylist is a cache that may lose entries, reset tokens are looked up and marked used
in different statements, and a password takes the time of its hash, so changes may
overlap: `overlapped` marks that, and what is stated is stated without it.

`Notifications`: the sweep of expired rows on every API process. The DELETE of a batch
first chooses rows (`SweepBegins`) and then deletes those still there (`SweepDeletes`),
so that a short count ends a sweep early.

`StreamTags`: attach and detach as two statements each, and the dashboard's editor on
React Query: `onMutate` shows a change, `onError` restores the snapshot of that edit,
`onSettled` invalidates, and a read in flight is restarted. An edit whose connection
breaks is given up while the server may still carry it out; `carriedOut` remembers
whether that has happened since the last read that arrived.

`SdkClient`: concurrent requests that share their tokens, over `withRetry` and the
interceptor that refreshes once, or over `fetchJson`. The server acts and the answer
is lost, or it does not act. `SdkPages`: the iterator over pages of a list that may
change, fail to load, or be aborted. `Toasts`: the reducer and the removal timers.

## Runs

| run | checks | result |
|---|---|---|
| `locks` | `TypeOK`, `LeaseBounded`, `LostStaysLost`, `LiveClaimKept`, `Ownership` | pass, 654,000 states |
| `session` | `TypeOK`, `AcceptedInOrder`, `StopDrains`, `PublishedOrDead`, `StopResolves`, `EventsFinish` | pass, 55,000 states |
| `session_dead_letter` | `DeadLetterDurable` | violated: finding 1 |
| `registry_timely` | `TypeOK`, `OnlyOwnerPublishes`, `SessionKeepsLock` | pass, 562,000 states |
| `registry_slow` | `HeartbeatNeverStops`, `LockProtocol` | pass, 844,000 states |
| `registry_loss` | `LossDetected` | pass, 63,000 states |
| `registry_missed` | `SessionKeepsLock` | violated: finding 2 |
| `registry_cap` | `HardCap` | violated: finding 3 |
| `webhooks` | `TypeOK`, `FailedMeansExhausted`, `SuccessIsReal`, `AttemptsAreCounted`, `AnswersAreRecorded`, `PendingIsScheduled`, `DeliverySettles` | pass, 1,079,000 states |
| `webhooks_starved` | `DeliverySettles` | violated: finding 4 |
| `worker` | `WorkerTypeOK`, `PollCycleExact`, `NothingRoutedAfterDrain`, `DeadLettersKept`, `LocalClaimKept`, `FilterSetConverges`, `ShutdownEnds` | pass, 347,000 states |
| `api` | `ApiTypeOK`, `RoomsAdmitted`, `OldTokensRefused`, `RequestsBounded`, `EachItemOnce`, `SettledTagsAreServed`, `StatusChangesLegal`, `ExpiredGoes`, `DismissedGoes` | pass, 743,000 states |

Findings, each a statement of a comment that the code does not keep; the fourth
is a defect as well:

1. A "dead-letter" event means, says the comment, that the record exists. When
   `deadLetter()` rejects, the event is announced all the same, and is then
   neither queued nor recorded.
2. `heartbeatMs < ttlMs` is all the constructor demands "to keep the lock alive
   across at least one missed renewal". With one missed renewal the time between
   two successful ones is twice the interval. The default, a third of the TTL,
   is safe.
3. The "hard cap" on sessions is checked before the acquire is awaited, so
   concurrent `route()` calls for different streams exceed it. The worker's own
   loop awaits its calls one by one and stays below.
4. The retry sweep "picks up pending deliveries whose `nextAttemptAt` has
   elapsed", but only the oldest 50 of them, and skips those of inactive
   subscriptions without rescheduling them. When these fill the batch no other
   delivery is retried any more, until somebody reactivates or deletes a
   subscription.

What `registry_timely` shows depends on the numbers, and they are the point: with
MaxMissed rejected renewals in a row, the lock is never lost as long as

    (MaxMissed + 1) * (HeartbeatMs + MaxLag) + MaxLag + MaxSkew < TTL

(`TTLSuffices`; proved for all values, below) and the bound is tight: the instance has 2 * (1 + 1) + 1 = 5 < 6 = TTL, and TTL =
5 is violated. Beyond the bound exclusiveness is gone for a while, whatever the
code does, since nothing fences a publish; what remains is in `registry_slow`
and `registry_loss`: the heartbeat chain never breaks, and a loss is detected.

What `worker` and `api` show:

- a poll cycle hands on each row once and in order, and one that reaches the end of
  the table has left out none that was there at its start, with rows becoming visible
  between its pages; nothing is routed once the drain has begun, wherever in
  `start()` or a page the signal came; the process ends although a hook hangs;
- an acknowledged dead letter stays in the file; a local claim is evicted only when
  its last lease is over; a filter configuration that stays in the hash arrives at
  every worker that stays up. That a *cleared* one disappears is not promised: the
  reconcile scan never clears, and a lost message keeps it for ever;
- the status of a stream follows the allowed transitions unless one request overtakes
  another between its check and its write: then the code validates against a status
  that is no longer there, and the property says so by excepting it;
- a socket is in the room of another user's stream only if the stream was public
  while it was open. It stays in the room when the stream turns private afterwards;
- a token of an older password is refused by checks that read the row after the
  change, as long as changes of the password do not overlap; when they do, the older
  time stamp may be written last, and the exception in the property is needed;
- a request is sent at most two rounds of attempts, and the server acts on it again
  only when an answer was lost (a POST is not protected against that);
- an iteration yields each item once while the list stands still;
- a settled editor shows the server's tags, although rollbacks bring back snapshots
  of the time before other edits;
- expired notifications and dismissed toasts go.

### Bounds

- `locks`: two workers, one stream, two tokens, TTL 2, clock error 1, four ticks,
  two statements per connection. Enough for a claim to expire, be taken over and
  be released late, and for a worker to claim again with its old statements on
  the way. Streams do not interact except in `releaseAll`, which the proofs
  cover. Workers are symmetric; all properties of the run are safety.
- `session`: queue depth 2, one retry, four events: the queue overflows, an event
  exhausts its budget while others wait.
- `registry_timely`: two workers, one stream, two concurrent routes per worker,
  nine ticks, which is one and a half leases, two acquires.
- `registry_slow`: as above with one route per worker, TTL 2 and answers that
  take up to two ticks: a lease can expire between a renewal and its answer.
- `registry_loss`: one worker, since symmetry is not sound for liveness and a
  loss by expiry needs no other worker; three acquires, six ticks.

- `webhooks`: one delivery, its first attempt and two sweeps, one retry, two
  owner's changes (so a subscription can be paused and resumed, or a delivery
  requeued twice) and one fault: three attempts of one row overlap.
- `webhooks_starved`: two subscriptions and deliveries, a batch of one.
- `worker`: two workers share one filtered stream with two configurations, two
  changes and one fault (a worker may miss a message while another change is made);
  three rows with two timestamps and pages of two, so a row can appear before, in and
  after a page and share its timestamp; three concurrent `record()` calls of two
  letters; two local streams, three tokens and five ticks with a TTL of two, enough
  for a late timer to meet a renewed and a re-acquired claim.
- `api`: two users, one stream, two concurrent PATCHes or DELETEs and one socket; two
  requests on the account with two mints, two password changes and one reset token,
  one lost cache entry; three notifications, two sweepers, batches of two; two tags,
  two edits and two faults; two requests of a client with two attempts each and three
  tokens; five items in pages of two with at most two pages, so both ends of the
  iteration occur; two toasts of which one is shown.

The named bounds are the constants that begin with `Max`, except `MaxRetries`,
`MaxAttempts`, `MaxResetAttempts` and `MaxPages`, which are settings of the code, and
`MaxLag`, `MaxSkew` and `MaxMissed`, which are assumptions about the environment.

Deadlock is not checked: the models stop where their bounds are reached (clock,
tokens, events, deliveries) and a stopped session is meant to stop.

### Fairness

- `StreamSession`: weak fairness of the pump, because each of its awaits settles
  (the HTTP client has a timeout, timers fire, a file write ends or fails), and
  of `StopWakes`, because `stop()` polls every 10 ms. Callers owe nothing:
  `Start`, `Enqueue`, `Stop`, `Fail` have no fairness.
- `SessionRegistry`: time goes on, and a worker's due answers and timers are not
  put off for ever. Rejections, crashes, routes and shutdowns have no fairness.
  `RenewRejects` happens at most `MaxMissed` times in a row, so a renewal is
  answered eventually.

- `WebhookDeliveries`: a POST ends (`AbortSignal.timeout`), its outcome is
  written, the interval keeps firing and a sweep goes on, back-offs elapse.
  Owners, dispatches, good answers and faults have no fairness; faults are
  bounded, since a database that never works again lets nothing settle.
- `EventFilters`: Redis answers, delivers what it has not lost, and the reconcile
  interval keeps firing (`FilterFairness`). Nobody has to start or change anything.
- `WorkerProcess`: only the deadline's timer (`ProcessFairness`): hooks, fetches and
  routes may hang.
- `Notifications`: every process sweeps again and its DELETEs end (`NoticesFairness`).
- `Toasts`: timers fire (`ToastsFairness`).

## Proofs

`StreamLocks_proofs` proves, for any sets of workers and streams, any TTL, clock
error and bounds (assumptions: `None` is neither a worker nor a stream, TTL is
positive, the rest are naturals):

- `TypeCorrect`, `LeasesAreBounded`, `LossIsFinal`: `Spec => []TypeOK`,
  `[]LeaseBounded`, `[]LostStaysLost`;
- `LiveClaimsAreKept`: the action property `LiveClaimKept`;
- `ImplementsOwnership`: `Spec => Ownership`, that the table refines
  `StreamOwnership`.

None of them is inductive. A renewal on its way could revive a lost token, a late
release could delete a live row, an acquire could be executed with a token used
before. The inductive invariant `IInv` excludes it: a token belongs to one worker
and one stream wherever it is mentioned, in a row, a claim or a statement
(`TokensIdentify`); the token of an acquire that was not executed was never
granted and is in no other statement (`AcquiresFresh`, `AcquiresDistinct`); what
is held or renewed was granted (`ClaimsGranted`); a lost token, or one whose
renewal is about to report the loss, is in no live row (`LostDead`), and
executing an acquire cannot change that as its token is new; requested expiries
are bounded (`ExpiryBounded`); a claim that is held has no release on its way
(`HeldOnly`), and none is held while a `releaseAll` is (`AllReleased`). The
statement-level lemmas `IssueStep`, `ResumeStep` and `ExecStep` carry the
argument for issuing, answering and executing anything; each action is then an
instance of one of them.

For the refinement every step is one of four things to `StreamOwnership`:
nothing; the end of the claims on a set of streams (a release, or `Tick` when
leases run out); a `Claim`; or a `ClaimLate`, when an acquire is executed so late
that its lease is already over.

`StreamSession_proofs` proves `TypeCorrect`, `EventsInOrder`, `StopLeavesNothing`
and `NoEventDisappears` for every depth, retry budget and number of events. The
invariant: finished events, the one in hand and the queue number on from each
other (`Numbered`); the pump never stops with a queue (`PumpState`), which is
what makes `stop()` drain; and deliveries of the event in hand are covered by its
attempts (`Counted`).

`WebhookDeliveries_proofs` proves `TypeCorrect`, `GivenUpOnlyWhenExhausted`,
`SuccessNeedsAnswer`, `AnswersAreKept`, `PendingCanBeSwept`, `AttemptsCounted` and
`SettledIsKept` for any number of subscriptions, deliveries, dispatches and overlapping sweeps
(finitely many) and any retry budget. The key is `SeenNotAhead`: a count that was read is at most
the row's, because the row's only grows; so an attempt that concludes from its
stale count that the budget is spent is right. `OkIsAnswered` ties a success in
hand to its answer and, without faults, to the write that comes next;
`IdsAreCreated` and `FirstAttemptsAreOwn` say that a new row is known to nobody.

`Books` extends the counting of attempts to ids that have no row yet, so that a new
row starts with its books in order; it is preserved next to `IInv`, with the
cardinality of the unwritten attempts changing by the one that is posted or written.

`SettledIsKept` says what the missing mutual exclusion of attempts can do to a settled
delivery: it is pending again only by its owner's retry, or because an attempt fails
that had begun, or was in the batch of a sweep, before the delivery was settled
(`recordAttempt` writes the row whatever its status is). Its invariant
`SettledAhead`: whoever still has a settled delivery in hand has read a count below the
row's. So no sweep that begins later touches it.

`SessionRegistry_proofs` proves `RegistryInvariance`, `TypeCorrect`, `HeartbeatsGoOn`
and `RegistriesUseTheLock` for any number of workers, streams and concurrent
`route()` calls, any delays and any faults; the assumptions are that `None` is
neither a worker nor a stream, the TTL and the heartbeat interval are positive and
the bounds naturals. Workers meet only in the database, so the invariant is one
formula `WInv(w)` per worker, and a step of one worker keeps those of the others
(`OthersKeep`). Its parts: a session and the token of its claim come and go together
(`SessionsLocked`); an armed timer is that of the present claim (`TimersCurrent`), and
where none is armed a renewal is on its way (`Beating`); an acquire is the only one of
its stream and some `route()` waits for it (`AcquiresAwaited`); a renewal is of the
present claim, or the stream was given up and the renewal is answered before any later
acquire (`RenewsCurrent`), which is why a late answer never ends a later session; calls
that share an acquire resume with the same token (`ResumesAlike`).

`RegistriesUseTheLock` is a second refinement: with `claims` read as the tokens a
registry holds (`Held`), every step of the fleet is a step of `StreamLocks` or none.

`SessionTiming_proofs` goes on from there. `FleetOwnsStreams` and `FleetLeases` put the
two refinements together: a fleet of registries keeps what `StreamOwnership` promises,
its leases are bounded, its losses final and its live claims kept. They hold for all
delays and faults, as the lock does not depend on time.

Its other theorems do depend on it. `SessionsKeepTheirLock`, `OnlyOwnersPublish` and
`OneSessionPerStream` say: if `TTLSuffices`, the worker of a session holds the
unexpired row of its stream by the session's own claim, whatever is published comes
from a holder, and no stream has sessions in two workers. `TTLSuffices` is a
hypothesis of the theorems and no assumption of the model, which also has runs without
it; it compares the settings of a deployment (TTL and heartbeat interval) with its
network and clocks, and the constructor's check alone does not give it (finding 2).
Neither property is inductive. The invariant `Timed` counts backwards from the expiry: a
lease starts when its statement was issued (`LeaseStart`, late by the clock error at
most), and the next renewal of a session is issued within `Reach(k)` of that after k
missed ones, whether its timer is armed or it is on its way (`SessionOwns`); a session
has one of the two and not two (`OneBeat`). A renewal is executed at most `MaxLag` after
it was issued, so with `TTLSuffices` it finds its row unexpired, and no other worker can
have claimed the stream in between. A call that resumes with a new token has the row by
a lease that has just begun (`ResumeOwns`), what the database has granted is still in
the row when the worker hears of it (`GrantedInRow`), and a refused renewal is one of a
session that has gone (`RefusedIsGone`), so that no session ever fails and no pump
outlives one (`PumpsServe`). That a release in flight is never of a claim that a session
holds is `HeldOnly` and `AllReleased` of the lock's invariant, which the fleet inherits.

The modules of the smaller parts are proved for all values of their constants, from
their assumptions only (bounds are naturals, batches and leases are positive, `Unset`,
`NoOne` are no values of their sets, and a reset token is none of the names
`"profile"`, `"password"` that stand for the other purposes of a request):

- `Worker_proofs`, the poll loop: `ProcessInvariance`, `CyclesAreExact`, `DrainIsFinal`,
  and of the shutdown `DeadlineUntilTheExit` and `HooksRunInOrder`.
  What was handed on precedes the rest of the page and the cursor (`PagesInOrder`), and
  a row of the backlog is handed on, in the page or ahead of the cursor
  (`NothingSkipped`): the second needs that the order of the keys is total and that a
  page leaves no gap. Dead letters: `LettersInvariance`, `AcknowledgedLettersAreKept`;
  only the first call of the chain is past the queue (`OneAtATime`), and what it has
  read or written still holds every acknowledged record (`NothingMissing`). Local locks:
  `LocalInvariance`, `LocalClaimsAreKept`; every armed timer is that of the present
  lease of its stream (`TimersAreCurrent`). `LocalLocksImplementOwnership` is a third
  refinement of an abstract specification: a late timer ends a claim that time has
  already ended, so both backends of the lock keep the same promise. Filters:
  `FilterTypes`; and once the hash, the messages, the snapshots and the writes in flight
  agree on the configuration of a stream, only `setConfig` and `clearConfig` end that
  (`AgreementLasts`): no late message or repeated command returns an earlier one. A
  start or scan applied meanwhile gives the map that configuration whatever it has
  missed (`ScansRepairMaps`).
- `Api_proofs`, accounts: `AccountsInvariance`, `OlderTokensAreRefused`. A row that was
  read and the claim of a token agree with the account or are older in both version
  and stamp (`Sound`), as long as no changes overlapped. `AccountsBounds` adds the
  bounds of the instance, which are not inductive either: nothing in the write of a
  new password looks at the bound. The invariant `WithinBounds` counts: the changes
  that are computed and not written have distinct times, and the version and their
  number together never pass the clock. Streams: `StreamsInvariance`,
  `RoomsAreAdmitted`, `StatusChangesAreLegal`. An allowed subscription stays justified
  until it is joined (`AllJustified`), and what is about to be written was validated
  against the status that was seen (`Validated`).
- `Clients_proofs`, requests: `RequestsAreBounded`. What was sent is bounded by the
  attempt, in one round before the refresh and two after it (`SentByAttempt`), and what
  was acted on are the answers lost and the one received (`HeardOrLost`). Tags:
  `TagsSettle`. With no edit in hand a cache that is not stale is the server's, and so is the
  answer of a read in flight, both unless an edit that was given up has been carried
  out since. Pages: `ItemsComeOnce`, for any list and page size; what was yielded is the list up to the
  current page and the offset in it (`OnPage`, `YieldedInOrder`), and the iteration
  stops by itself only at the end of the list or at `maxPages` (`WholeAtTheEnd`).
  Toasts: `ToastsInvariance`, with distinct ids (`IdsOnce`), on which it rests that a
  timer removes one toast at most; `DismissedToastsHaveTimers`, that a dismissed toast
  on the screen has the timer that removes it, and `ToastsDoNotReturn`. Notifications:
  `NoticesTypes`, and `SweepsTakeOnlyExpired` for any number of processes that sweep and
  users that delete meanwhile; the rows a sweep has in hand have expired
  (`SweepsHoldExpired`).
- `PartsRunAlone`, in `Worker_proofs` and in `Clients_proofs`: each part of `MCWorker`
  and of `MCApi` is a behaviour of its own specification. So the theorems of the parts
  hold of the instances that are checked, and `WorkerTypes` and `ApiTypes` are the type
  invariants of the whole.

Two of these proofs corrected the model. The history variable of `StreamTags` used to
be cleared by a read that was answered before the change it stands for took effect; the
invariant could not be shown for two faults, which the run had not reached, and
`SettledTagsAreServed` was then violated for a reason that is not the editor's.
`carriedOut` now tells the two apart, and the run has two faults. And `Accounts` needed its assumption about
the names of reset tokens said aloud.

Only model-checked: the liveness properties (`StopResolves`, `EventsFinish`,
`LossDetected`, `DeliverySettles`, `FilterSetConverges`, `ShutdownEnds`, `ExpiredGoes`,
`DismissedGoes`), as fairness and ENABLED are out of this prover's reach. Every other
property of a passing run is stated by a theorem. What is safety in the liveness
properties, that the step which must come cannot be lost, is proved:

| liveness | what keeps it within reach | theorem |
|---|---|---|
| `StopResolves`, `EventsFinish` | a session with a queue has a pump that runs | `Invariance` of the session (`PumpState`) |
| `LossDetected` | an owner has its timer armed or a renewal on its way | `HeartbeatsGoOn` |
| `DeliverySettles` | a pending delivery has a due time, which is what the sweep selects by, and a settled one stays out of its reach | `PendingCanBeSwept`, `SettledIsKept` |
| `FilterSetConverges` | an agreement on the new configuration lasts, scans follow it | `AgreementLasts`, `ScansRepairMaps` |
| `ShutdownEnds` | a hook is running and the deadline is armed until the exit | `DeadlineUntilTheExit`, `HooksRunInOrder` |
| `DismissedGoes` | a dismissed toast has its timer | `DismissedToastsHaveTimers` |

`ExpiredGoes` has none: its sweep starts from the table alone. That the deadline can
fire although its timer is unref'd (lifecycle.ts:117) is fairness of the model: the
metrics server, which the last hook closes, keeps the event loop alive until then.

## Plan

1. *Done.* `StreamOwnership`, `StreamLocks`, `StreamSession`, `SessionRegistry`,
   and the proofs about the lock and the session.
2. *Done.* `WebhookDeliveries` and its proofs, the counting of attempts included.
3. *Done.* `EventFilters`: the filters of the workers over a Redis hash and channel.
4. *Done.* `Accounts`: login, refresh, logout, password change and reset, the check
   of tokens; with proofs.
5. *Done.* `StreamsApi`: validated transitions and the gateway's rooms; with proofs.
6. *Done.* `PendingEvents`, `WorkerProcess`, `DeadLetters`, `MemoryLocks` with proofs;
   `SdkClient`, `SdkPages`, `Notifications`, `StreamTags`, `Toasts`.
7. *Done.* Theorems about `SessionRegistry`: the heartbeat chain and the lock protocol.
8. *Done.* Theorems about its timed exclusiveness and about the fleet as an
   implementation of `StreamOwnership`; about `StreamTags`, `SdkClient`, `SdkPages`,
   `Toasts`; `MemoryLocks` as an implementation of `StreamOwnership`; the type
   invariants of `MCWorker` and `MCApi`.
9. *Done.* The safety that the liveness properties rest on: the shutdown's deadline and
   hooks, agreements on a filter, settled deliveries, the timers of dismissed toasts,
   what a sweep of notifications may take.

## Observations

Met while modelling; none is stated as a finding, because no property of a run says
the contrary or no line of the repository promises it.

- The worker publishes to `/streams/processed`, for which the API of this repository
  has no route; the publish is modelled as a call to an external coordinator.
- Rows of `stream_data` are never marked or deleted, so each poll cycle starts from the
  oldest; a backlog that fills the queues up to the watermark starves what comes after.
  As `stream_data.stream_id` references the stream without a cascade, a stream with
  events cannot be deleted.
- The gateway's `handleSubscribe` does not bind its payload with `@MessageBody`; the
  model takes the payload as reaching the handler. `handleDisconnect` lowers the gauge
  of connections for sockets, too, that were rejected before they raised it.
- The denylist passes its TTL in seconds to a cache that may take milliseconds; entries
  that are lost early are the model's `MaxCacheLosses`.
- `list()` of the dead-letter store waits for the chain and rejects after a last
  `record()` that failed.
- `route()` has a branch that releases a duplicate token after a race. It is never taken:
  calls share the acquire in flight, so a call that finds a session finds its own token
  in it (`ResumesAlike`, proved).
- Hooks that release and close the locks catch their failures, so an exit code of 0
  does not say that the locks were released.
- A webhook fan-out ends at the first subscription that was deleted since it was read
  (`CreateRefused`): those after it are not notified of the event.

## Not modelled

- `session/lifecycle.ts`: no code constructs a `StreamLifecycleManager`.
- The socket hook of the web application. The badge takes `/streams/<id>` as a
  namespace while the gateway serves `/streams`, nothing subscribes again after a
  reconnection, and a row that mounts on a connected socket stays "connecting": there
  is no working protocol whose properties could be stated.
- The notifications menu, which no page mounts. It expects other routes and fields than
  the API has, and its effect depends on the state it sets, so opening it aborts its
  own request.
- The server-side stream cache of Next.js: its consistency is the framework's.
- In `StreamsApi`: names, descriptions, PATCH bodies with two fields, the rooms of users
  and pushes into rooms, the analytics cache. In `Accounts`: the expiry of a JWT, the
  counter of forgot-password mails, what a profile change writes; created_at and
  password_changed_at are taken from one clock. In `Notifications`: lists and pushes.
  In `StreamTags`: other clients, seeded tags, unmounting. In `SdkPages`: a first page
  other than 1. In `EventFilters`: the in-memory store and the evaluation of a filter.
  The in-memory repositories, which only tests use.
- Verification of webhook signatures: a pure comparison of digests.
- Metrics, audit, admin, health, logging, configuration: single statements, counters,
  environment parsing. The lock gauge that is lowered twice is listed as a hazard.
- A large part of the implementation is user interface (the components and pages of the
  application), DTOs, modules and decorators without state of their own; payloads, ids
  and wording are abstracted where they are passed through. Modelling them would
  restate them.
- Generated code, deployment files and scripts.

# Haruki Cloud: a TLA+ verification project

Haruki Cloud answers chat-bot commands about a rhythm game. Bots forward a
user's command to it; it authenticates the bot, decides whether the command may
run, renders an answer (usually an image) and returns it, or pushes events to
bots over a stream. This directory models the parts of the repository whose
correctness depends on the order of concurrent steps, checks them with TLC, and
proves the main results with TLAPS. Paths are relative to the repository root,
and most of the code is Go.

## 1. Inventory

| component | state it keeps | operations | hard behaviour |
|---|---|---|---|
| **Response election** (`api/bot/pjsk/response_election.go`) | four Redis keys per command identity: election hash, candidates hash, user cooldown, dedup lock; per request a lease; per executor a goroutine | join, publish, abort, decide, leave (Lua scripts); `Coordinate`, `startExecutor`, `await`, `Close` | several bots and processes race, Redis calls time out after they ran, processes die, a late delivery arrives after the answer |
| **Request guard** (`dedup.go`, `dedup_cleanup.go`, `replay.go`) | cooldown key, lock key with a random token, nonce key; a queue of finishes | begin, finish, release; dispatcher with workers, retries and a synchronous fallback | finish racing shutdown, full queue, lock taken over after expiry |
| **Election roster** (`response_election_roster.go`) | per group a Redis hash of member bots and their misses; a cached view per process | record a join, refresh, reconcile after a full window | goroutines whose pipelines interleave, are repeated or given up; a write dedup against a roster others change |
| **Image cache lifecycle** (`utils/imagecache`) | rows of objects and render references, deletion intents (outbox), stored files | upload (register, store, verify, publish), render, retire (GC), delete, adopt, reconcile | advisory lock per hash held only for parts of an upload; crash between file and row; delayed delete |
| **Realtime gateway** (`internal/realtime`) | event rows with claims and acknowledgements in PostgreSQL; a hub of live streams with bounded queues | ingest, sweep, serve stream, close, collect, shut down | an event is pushed live while a new stream replays it; the sweep acts on what it read before; streams are evicted, closed and unregister themselves; a queue is full |
| **Birthday subscription** (`internal/pjsk/subscription`) | the subscription row with its version; Toolbox's monitor | create or replace, cancel, acknowledge | four calls to three places, any of which may fail; two requests of one account |
| **Bot sessions, bans** (`api/bot/auth`, `internal/core/authban`) | session keys, failure counters | issue, rotate, check, ban | counters with expiry |
| **Cache persistence** (`internal/cachepersist`) | pending refreshes; a writer's requested and persisted generations; the stored snapshot | refresh, schedule, write, restore, drain, flush, close | a refresh still running at shutdown; a write given up that lands later; a start that cannot read the store |
| **Drawing client** (`internal/pjsk/drawing`) | render cache, upstream health, limiter slots | render, fail over, acquire, release | failover races, slot leaks |
| **Account data** (`internal/pjsk/accountdata`) | bindings, default binding, order; profile backgrounds and their pending deletions | bind, unbind, reorder, set default; replace, clean up | partial failure between database and storage |
| **Caches of data and assets** (`render/cachefill`, `render/assets`, `alias`) | in-memory tables, negative caches, probe budgets | fill, probe, refresh | single flight, stale negatives |
| **Object storage** (`internal/storage`) | local and S3 trees | get, put, delete, dual write | the two copies diverge |
| **Policies and trust** (`buildpolicy`, `trustsign`) | signed documents with versions | load, replace | rollback |
| **Parsing and rendering** (`internal/pjsk/*`) | none to speak of | command -> render request | large but sequential |
| **Server** (`internal/server`) | connections, background loops | start, warm up, close | order of shutdown |

Interaction. An HTTP handler authenticates the bot, passes the replay guard and
then either the request guard (one bot in the group) or the response election
(several). Guard and election share two Redis keys, the cooldown and the dedup
lock, so that a mixed fleet does not run a command twice. The executor renders
through the drawing client, which stores images through the image cache. Toolbox posts
events to the events process, which stores and pushes them; the API process
shares its tables and asks it to close streams. Background loops sweep
undelivered events, collect images and flush caches.

What makes each component correct:

* Response election: a command is executed by one election at a time, one bot
  delivers its result, the lock and cooldown follow the election, an answered
  event is not executed again, and a published result is not lost with the bot
  that claimed it.
* Request guard: a delivery that executes with a token keeps the lock all the
  time, whatever releases of earlier holders still arrive, and an accepted
  release is applied, by the drain of a shutdown too.
* Election roster: a bot that keeps joining comes back however it was dropped, a
  bot that left is forgotten everywhere, and no failure stops the refreshes.
* Image cache: a row has its object, a URL that was sent keeps its object through the
  retention window or as long as the render row it came from is live, every stored
  object has a row or a deletion that is due some time, and orphans are deleted in
  the end.
* Realtime gateway: an event is sent until acknowledged, superseded or delivered
  often enough, every frame is covered by a claim made while the event was
  pending, a retired version is neither served nor kept, and the hub loses no
  stream.
* Cache persistence: what the writer counts as stored is stored, a close without
  an error has stored everything, and no snapshot is replaced by a poorer one.
* Account data: one default binding per server, backgrounds referenced by a
  profile are never deleted.

## 2. Modules

| module | what it is |
|---|---|
| `ElectionRedis` | the four keys and the five Lua scripts, one action each |
| `ResponseElection` | handlers, executor goroutines, failures and time; extends `ElectionRedis`; safety, action and liveness properties |
| `AnswerOnce` | what the election promises, without Redis, clocks or failures |
| `ResponseElectionProofs`, `AnswerOnceProofs` | its inductive invariant and safety theorems; the election implements `AnswerOnce` |
| `RequestGuard`, `RequestGuardProofs` | the lock and cooldown of one delivery, the cleanup queue and its shutdown |
| `ElectionRoster`, `ElectionRosterProofs` | the roster of a group and the views of it |
| `RealtimeStore` | the table `realtime_events`, one operator per statement |
| `RealtimeGateway` | ingest, streams, sweep, the subscription requests and the clock; extends `RealtimeStore`; all properties of the gateway |
| `EventDelivery` | what the gateway promises of each event |
| `RealtimeGatewayProofs` | types, the hub, and what the replay policy may drop |
| `EventDeliveryProofs` | the gateway implements `EventDelivery`; retiring a version keeps the live one |
| `ImageCacheLifecycle`, `ImageCacheProofs` | one rendered content: upload, adoption, collection, deletion |
| `CachePersistence`, `CachePersistenceProofs` | a rebuildable cache, its writer, shutdown and restart |
| `MC...` | constants (and, for the gateway, the symmetry) of the TLC runs |

Election and gateway are composed of several modules each. Guard and election share
the dedup lock and the cooldown and are checked apart so far: each takes the lock
only when it is free and frees only its own token, and an answer of another command
(`OtherCommand` in the election) arms the common cooldown.

### ElectionRedis

| variable | code |
|---|---|
| `state` | `KEYS[1]`, the election hash. `owner` is `owner_token`, `consumedBy`, `winner` are `consumed_token`, `winner_token`; a bot field is the bot of its token; `result` is present exactly when `ready` |
| `candidates`, `candidatesTTL` | `KEYS[2]`, bot -> token, and its expiry |
| `rate` | `KEYS[3]`, the user's cooldown, an expiry |
| `lock` | `KEYS[4]`, the dedup lock shared with `RequestGuard`, holder and expiry |
| `now` | Redis `TIME`, in a coarse unit |

A token is random per request, so a request (an element of `Reqs`) stands for
its own token. A script runs atomically in Redis and its returned status is a
parameter of the action: `JoinScript(r, single, role)`,
`PublishScript(r, force, ok)`, `AbortScript(r, status)`,
`DecideScript(r, verdict)`, `LeaveScript(r)`. The winner, in the code the
candidate with the least `sha1(seed|bot)`, is any candidate: nothing may depend
on which. The `closed_at == 0` clause of the grace never applies, because every
close stamps `closed_at`. `Tick` drops what has expired. Redis itself does not
lose data.

### ResponseElection

`phase` is the position in `Coordinate`, `reason` its decision, `work` the
executor goroutine. `Join`, `StartExecutor`, `FinishExecution`, `Publish`,
`Reconcile`, `CollectFailure`, `Decide`, `Cancel`, `TimeOut`, `ShutDown` and
`Leave` are the steps of one handler and its goroutine in the order of the code.
Each handler, each goroutine and each script in Redis interleaves freely.

Failures. A Redis call can fail at the client in two ways. The script ran and
its reply was lost: go-redis sends it again (`JoinRepeated`; for publish, abort,
decide and leave, the repetition is a script whose client gave up, below). Or
the client gives up and the script runs at any later time or never: it is put
in `late`, and `LateScript` runs it. `JoinFailed` is the fail-open admission:
the command runs directly, outside the election. `Crash(p)` ends every handler
and goroutine of a process without a `leave`; `CloseCoordinator(p)` is
`Close()`; `OtherCommand` is an answer to another command, which arms the same
cooldown. All of these consume `disruptions`, bounded by `MaxDisruptions`.

Time. `Timely` holds back the clock for what the code bounds: an execution ends
within `ExecTTL` (`dedupInFlightTTL`, its context's timeout), publication and
abort within `PublishTTL` after it, an executor lease is followed by its
goroutine at once, and a client repeats a join within its Redis timeout. The
assumption `LeaseAssumption`, `ExecTTL + PublishTTL < StateTTL`, is what
`inFlightTTL()` says (execution plus 30 s, while publication takes 3.5 s).

History. `from[r]` is the election whose result handler `r` delivered, and
`consumedAt` when an event was last answered.

### RealtimeStore and RealtimeGateway

One account with its versions, one events process, one API process.

| variable | code |
|---|---|
| `rows`, `nextId` | the table and the sequence of its key. `count` is `delivery_count`, `age` stands for `last_delivered_at` or, before the first delivery, `created_at` |
| `sub`, `monitor`, `issued` | the subscription row, the version Toolbox monitors, the last version drawn |
| `post` | a call of `Ingest` |
| `hub`, `older`, `total`, `stream` | `Hub.streams`, the order of their connection ids, the hub's counter, and each stream: its queue, what it still has to replay (`replay`), the claimed event it is about to write (`out`), the ids it has written (`delivered`) |
| `sweep` | a call of `Sweep`: the keys it read, the live ones, the overdue rows |
| `api` | a call of `CreateOrUpdate` or `Cancel` |
| `acking` | acknowledgements between token validation and update |
| `lastSeen`, `frames` | the client's Last-Event-ID; history: frames written |

A statement of the database is one step, a critical section of the hub is one
step, and everything between them interleaves: `BeginInsert` and `CommitInsert`
are apart because an id is drawn before its row is visible, `FindOverflow` and
`TrimOverflow` because the policy reads and then updates. A token is the token of
its version, so a version stands for it. Ids are compared, never tested.

Time is the age of a pending row in ticks, up to `RedeliverAfter`, past which
nothing is told apart; `ReplayGrace` is shorter. An ingest, a replay and a sweep
each run under a 5 s timeout while `ReplayGrace` is 20 s, so `Tick` falls into
none of them. Retention begins when a subscription expires and is far longer than any
request or stream, so `CollectGarbage` removes the rows of a version only once nothing
of it is under way and it cannot be live again (`Outlasted`); that a settled event stays
settled, and `DeliveryImplements` with it, rests on this.

Failures consume `MaxFaults`: a failed statement (`PostFails`, `ReplayFails`,
`SweepFails`, `ApiFails`, the last one also with the effect done and the reply
lost), an insert whose reply is lost (`LoseInsert`), a stream that breaks, a
shutdown, a process that dies. Toolbox may post an event twice at any time
(`MaxPosts`). A client connects whenever it likes, from the last id or from none,
and acknowledges only what it was sent.

### RequestGuard

| variable | code |
|---|---|
| `lock`, `cooldown` | the dedup key of each command with the token stored in it, the user's rate-limit key |
| `phase` | the handler of a delivery: `holding` and `direct` execute with and without a token, `finished` is about to enqueue its release, `fallback` to run it itself |
| `queue`, `worker`, `closer` | `dispatcher.jobs`, `runWorker` with `process`, `CloseContext` |
| `late` | calls given up by their client that may still run |
| `accepted` | history: releases the running process took |

`Acquire`, `Enqueue`, `Fallback`, `TakeJob`, `Attempt`, `EndBackoff`, `StopWorker`,
`Close`, `Drained`, `CloseDeadline`, `Exit` and `Restart` are the steps of the code.
A call whose reply is lost is repeated (`...Repeated`), a call given up runs late
(`LateScript`), both at the price of a fault. `LeaseExpires` and
`CooldownExpires` may happen at any time, but a lease does not run out under the
execution it protects: `dedupInFlightTTL` is chosen for that.

### ElectionRoster

`members` and `misses` are the two kinds of fields of the hash, `view` is
`rosterCacheState` of a process (age of the fetch, members, recent writes, the
refreshing flag), and a `job` is a goroutine: a write (`hset`, then `hdel` of the
misses), a `load`, or an `apply` with the commands of a reconciliation that it has
still to send. A pipeline is sent as a whole and not atomic: its commands are
separate steps, in the order of a Go map, each of which may be repeated. Bots and
processes that are not followed join and reconcile as well (`JoinElsewhere`, and a
`Reconcile` that stores no followed view).

### ImageCacheLifecycle

Contents with different hashes share nothing, so the module has one. `entry` is
the `cdn_path` of its row, `renders` the render index rows, `deletions` the
durable list that holds both upload intents (`leased`) and deletions
(`retry`, `due`), `objects` the bucket. A key is random and written once: `used`
are those drawn. `lock` is the content lock, a PostgreSQL transaction lock, so that
what a transaction writes is applied by its commit, while the bucket is written at
once. `Register`, `BeginStore`, `PutObject`, `CommitStore` are `storeHashed`;
`StartCycle` to `RetireObject` are `GC.RunOnce`; `AdoptObject`, `Reconcile`,
`DrawingUploads` and `DrawingIndexes` the rest. Any transaction may roll back, any
call to the bucket may be given up and land later (a PUT only while its intent is
leased: the intent lives five minutes and the transaction gives up after thirty
seconds), an object may be lost. `unindexed` are objects Drawing uploaded and
Cloud has not adopted, `failed` those of them whose adoption was rolled back.

Cloud sends a URL after a store or an adoption (`answered`) and from the render
index (`served`). `AdoptObject` has three outcomes: committed, committed without its
reply, rolled back. Without its reply the adopted path is unknown and
`acceptStoreRef` sends the object's own path; when the content had a row already,
that object is a duplicate whose deletion has been queued by the same transaction
(`unnoticed`). `RenderHit` is `lookupIndexContext` on a row that has not expired: it
sends the URL and touches neither row nor entry at once. The touch of the row is
buffered, throttled and may be dropped; `TouchRender` restarts the TTL of any row
that has expired in the meantime, without counting the hits, which allows more
touches than the code makes and forces none. A touch of a live row changes nothing
that is told apart here. `ExpireRender` is the buffered deletion of a row that
a lookup found expired.

### CachePersistence

A snapshot is the set of updates it reflects. `refresh[u]` walks through
`Tasks.Start`, fetch, merge, `persistLatest` and finish; `writer` is
`cachepersist.Writer` and its worker, `closer` is `closePersistence`: drain the
refreshes, flush and stop the writer, under one deadline. `Start` restores: the
object of the namespace, or the older shared one when there is none, or nothing and
persistence disabled after any other error. `Stop` ends the process at any point.
`late` are writes given up that may land later (`LatePut`), and `raced` tells that
one has overwritten what the running process stored.

## 3. Runs

Constants are in the `.cfg` files. Deadlock is checked in the election's runs:
`Finished` is the step of a system that has answered everything, so any other
state without a successor would be reported. The other systems really rest once
nobody calls them and the bounded failures are used up; their runs say
`CHECK_DEADLOCK FALSE`.

### Response election

Three deliveries of one command: the smallest number with an executor, a claimed
candidate and one more. Two processes let one crash leave both survivors and a
dead executor. Time constants keep the order of the code's (claim < cooldown
<= ready < in-flight, completed retention beyond the cooldown) and are small so
that every expiry is reached. `LastArrival` bounds when the last delivery arrives. In
`resend` an answer is given at time 1 at the earliest, `RateTTL` is 1 and `LastArrival` 2:
deliveries arrive and join after the cooldown of an answer and within its retention
(`CompletedTTL = 3`), so it is the event time that must refuse them. The cooldown is
the shortest of the times there and the order claim < cooldown becomes claim <=
cooldown.

| run | instance | question |
|---|---|---|
| `resend` | an older event and two deliveries of a newer one on two processes, forced executors, one failure | types; can two executions overlap, is an election answered twice, does the lock follow it, is the newest event executed again once the cooldown is over, does a cooldown hold; do the coordinators implement `AnswerOnce` |
| `reelection` | three processes, two failures, fairness | is a published result consumed when the claimed bots disappear |
| `late_delivery` (violation) | re-sent command, longer | finding 1 |
| `abort_race` (violation) | one event | finding 2 |

* `OneAnswerPerElection`: no two handlers deliver the result of one election,
  among them the executor that failed open after an abort.
* `OneExecution`: two elections never execute at the same time.
* `LockFollowsElection`: the dedup lock is held exactly by the owner of an open election.
* `NewestEventNotReexecuted`: an event that no delivery surpasses starts no election
  within `CompletedTTL` of its answer. Nothing replaces its retained state, whose
  event time refuses the late deliveries when the cooldown no longer does. Of an
  event with a newer one the same is false: `AnsweredEventNotReexecuted`, checked by
  `late_delivery` only, see finding 1.
* `CooldownAfterAnswer`: no election starts within `RateTTL` of an answer, and a closed
  state is never younger than its cooldown: whatever closes an election, by
  consumption, abort (the visible fail-open), shutdown or for want of candidates, its
  successor comes `RateTTL` after the close at the earliest.
* `AnswersOnce`: refinement of `AnswerOnce`, mapping `running` to the running
  goroutines, `executed` to those started and `answer` to the inverse of `from`.
* `PublishedIsConsumed` (liveness): a published, unforced result is consumed as
  long as more candidates wait than failures remain, and the bound `MaxTime` leaves
  each of the failures its claim (`now + MaxDisruptions * ClaimTTL < MaxTime`).

Fairness (`LiveSpec`). Each step of a handler or goroutine is weakly fair: Go
schedules runnable goroutines and Redis answers unless a failure step happens,
which is never forced. Failures and `LateScript` have no fairness. Time is fair,
and `PollsInTime` says that no unit of time passes while a poll is due: handlers
poll every 25 ms and a claim lasts one second.

### Request guard

`request_guard`: two deliveries of one command and one of another reach a process
with one worker and a queue of one, so that the queue is full, a job waits behind
another, and a command's second delivery meets the first one's lock. Two attempts
and two faults spend every attempt.

* `HolderKeepsLock`: whoever executes with a token holds the lock, over repeated,
  retried and late releases of others, and over restarts.
* `DrainReleases`: a drain that ends in time has released every accepted job,
  unless as many calls failed as a job has attempts.
* `AcceptedReleased` (liveness): an accepted release is applied without waiting
  for the lease. Handlers and workers are weakly fair (goroutines run); nothing
  obliges a lease to expire, a failure to happen or a close to begin.

### Election roster

`roster`: one bot and one process are followed, others act beside them; the
threshold is the code's 3, two goroutines run at a time, two failures happen. Two
goroutines are the smallest number at which a write meets a reconciliation, and
every property is about one bot and one view.

* `RefreshUnderWay`: a process marked as refreshing has a goroutine that will clear the
  mark; a mark that stayed would stop every refresh of the view.
* `JoinsRegister`: a bot that keeps joining is a member again and again.
* `DepartedDropped`: a bot that has stopped joining is dropped from Redis and every
  trusted view for good, if full-window elections go on being reconciled.
* `ServedKnows`: a process that keeps being asked keeps knowing the roster.

Goroutines are weakly fair and time passes (`Age`, `WindowPasses`). That users
send commands is a premise of each property (strong fairness of joins or of
questions, infinitely many reconciliations), never of the specification.

### Image cache

`image_cache`: two writers and two collectors of one content under two keys, one
render row, two faults, 571,043 states. Two of each give every pair that meets at the
lock; a fault for the abandoned upload and one for the deletion that is given up reach
the late calls of both kinds, and one for an adoption's reply with two keys reaches
the duplicate that is sent.

* `IndexedObjectExists`: a row's object is in the bucket, unless lost outside.
* `ObjectsAccounted`: every object has the row or a durable deletion.
* `AnsweredKept`: a URL sent after a store or an adoption keeps its object through the
  retention window, and for good when the adoption was rolled back. A duplicate whose
  adoption was committed without its reply keeps it as long as its deletion is leased.
* `ServedKept`: a URL sent from a render row keeps its object until the row expires.
  The entry may be long past its retention window: what protects the object is the row,
  against a collection that listed it as expired before its TTL was restarted.
* `OrphansCollected` (liveness): an object without a row, or with an orphan row, is
  deleted unless it is referenced again. Transactions and cycles end by their
  timeouts, cycles recur on a ticker, and `next_attempt_at` passes.

### Cache persistence

`cache_close`: two refreshes, one update in the older shared object, two failed
reads or writes, one late write, any number of restarts. Two refreshes give
a generation behind the one being written; a second process life reads what the
first one left.

* `PersistedIsStored`: every update up to the persisted generation is stored.
* `ClosedIsStored`: after a close without an error every merged update is stored,
  no refresh is pending and no writer runs.
* `SnapshotsGrow`: a snapshot is only replaced by one with its unexpired updates.
* `MergedIsStored` (liveness): a merged update is stored, unless the process stops
  or closes first. Refreshes, the worker (a ticker wakes it in any case) and
  the closer are weakly fair.

All but the last exempt the state after a late write has landed (`raced`), until the
next successful one: nothing in the code orders two writes to an object store.

### Realtime gateway

One to three events, one or two ingests at a time, up to two streams, one or two
requests, at most one failure, and only the actors its question needs. A queue of
one is enough to be full; with two streams, a cap of one per version and in all is
reached by eviction and by refusal. `RedeliverAfter = 2`, `ReplayGrace = 1`,
`MaxDeliveries = 2` reach every branch of replay, redelivery and exhaustion.
`Keep = 2` with three events overflows. Two or three versions give a replaced one,
a live one and one in preparation. Symmetry over events, ingests, streams and
requests is used in `gateway_retire` and `replace_race` only, which check no
property under fairness.

| run | question |
|---|---|
| `gateway_hub` | do counter, caps and reachability survive eviction, close, self-unregistration, restart; does a stream of a retired version end |
| `gateway_retire` | what may the replay policy and a retirement drop |
| `gateway_sent` | does the gateway implement `EventDelivery`; is a stored event sent, whatever was lost |
| `replace_race` (violation) | finding 3 |

* `HubConsistent`: `total` counts the streams, both caps hold, and a stream being
  served is in the hub exactly while it is not closed.
* `DroppedForNewer`: an event dropped by the policy has `Keep` newer ones of its version.
* `LiveEventsKept`: retiring versions drops no pending event of the live one.
  Holds with one request at a time, and is proved for it; with two see finding 3.
* `EventsDelivered`: refinement of `EventDelivery`: at most `MaxDeliveries`
  claims, only while pending; a frame is covered by a claim, of at most
  `MaxConnsPerSubscription` frames; settled is final until deletion.
* `EventuallySent` (liveness): as long as fewer deliveries are lost than
  `MaxDeliveries`, a pending event of the live subscription is sent or settled.
* `StaleStreamsEnd` (liveness): a stream of a version that is not live ends.

Fairness (`FairSpec`). Ingest, stream loops, API requests and the sweep are
weakly fair: goroutines run and the ticker fires. `Tick` is strongly fair: it is
enabled whenever no sweep, ingest or replay runs, and these take at most 5 s
while the sweep starts every 15 s, so it is enabled again and again without
staying so. A client without a stream reconnects: the `retry:` field of the
stream tells it to, and `EventuallySent` says nothing of a client that stays away. A
process that shut down is restarted. No failure and no acknowledgement is fair.

### Findings

1. `late_delivery`. A consumed election's state is kept 120 s so that late
   deliveries of the same event are rejected. A newer event deletes it at once,
   and when the newer election aborts or is unclaimed it leaves only the short
   retention: after that a late delivery of the older event is executed again.
   The comments at `response_election.go:30-33` and `281-284` promise the whole
   window.
2. `abort_race`. The abort script closes the election before the goroutine
   reports the abort to its handler, whose poll may read the close first and
   return `not_selected`. Nobody answers, although the test at
   `response_election_test.go:540-541` requires a visible fail-open.
3. `replace_race`. `retireStreams` keeps the version of its own request, not the
   live one: of two replacements the one saved first may retire last and drop the
   events of the live version.

Observed in the models, without a run of their own:

* Realtime: an id is drawn before its insert commits, so two concurrent ingests can
  both stay pending under "latest" (`config/events.go:10-11`).
* Realtime: `Sweep` reads the overdue rows and claims them one by one; `Claim` does
  not test the last delivery again. An event a new stream has just replayed is sent
  again at once (`config/events.go:68-69` says after `RedeliverAfter`).
* Realtime: `handleSSE` tests `Stopping` before a database query and `Register` does
  not test it again, so a stream can be registered after `Shutdown`, which "refuses
  new streams" (`service.go:273`).
* Realtime: a claim counts as a delivery although its copy may be lost with a full
  queue or a stream; the limit then drops an event no client saw, while
  `hub.go:10-11` says that the sweep sends it again.
* Election: an executor that leaves inside the join window can empty the candidates
  hash, which Redis then deletes with its expiry, and the next `HSET` recreates it
  without one; an admission that fails open may run the command beside an election
  whose join did run.
* Guard: the client repeats an acquire script whose reply was lost
  (`utils/redis/manager.go:11`). The repetition finds its own lock, so the
  request is dropped and the lock stays for its lease, although `dedup.go:52-53`
  says that a request is dropped only when another instance holds the lock.
* Roster: a reconciliation that has read two misses demotes a bot that joined in
  between, and a repeated pipeline counts a miss twice, so a member may be dropped
  without "consecutive full-window elections" missed (`response_election_roster.go:35`).
  A reconciliation whose deadline has passed while sending still stores its
  view (line 269).
* Image cache: a failed adoption leaves an object that nothing indexes, as
  `docs/architecture.cn.md:588` accepts. When the transaction was committed and only
  its reply lost, that is not so: the object of a duplicate, whose own URL is sent, is
  in the list of deletions and is deleted once its lease is over, although the log
  line at `drawing/client.go:527` calls it "invisible to GC".
* Image cache: a hit of Cloud's own render index does not renew `last_referenced_at` of
  the entry, and its touch of the row may be dropped. The URL of the hit is safe
  until the row's TTL is over (`ServedKept`), and no longer; that a re-emitted URL
  outlives the retention window, as `utils/imagecache/client.go:355-357` says of a store
  that finds its content, does not hold for it.
* Realtime: with two posts of its event (`MaxPosts = 2`) `gateway_sent` holds as well
  (1,058,338 states), the lost reply of an insert and the repeated notification among
  them; the run is kept at one post for its time.
* Cache persistence: after a drain that timed out with no writer yet, a late refresh
  creates a writer nobody closes (`persistence.go:117`); a snapshot overwritten by a
  late write is repaired only by the next scheduled generation.

## 4. Proofs

Everything is proved for arbitrary sets (finite where the assumption says so),
arbitrary bounds, times and numbers of failures, from the named assumptions of the
modules. Each proof module has an inductive invariant, one lemma per action (or
script, or group of actions) that it is kept, and theorems that follow by PTL.

**Response election** (`LeaseAssumption` is the assumption that matters).

* `TypeCorrect`; `Inductive`: `Spec => [](TypeOK /\ Inv)`. The safety properties are
  not inductive: that nobody answered an election before it is consumed follows only
  from how the state, the lock, the goroutine and the lease move together.
  `Inv` has six parts. `StateInv`: a missing state has no fields, only a
  published result is consumed, a published or closed election has executed.
  `LockInv`: the lock equals the open election, with the same expiry.
  `OrderInv`: nothing executes before joining, nothing is published or aborted,
  not even late, before it executed, a late join belongs to a request that never
  executed. `LeaseInv`: a joined or running request owns the election, whose
  lease outlives its execution. `AnswerInv`: an answered election still in Redis
  is closed, consumed by who answered or aborted by its executor.
  The proof first reduces each script to its effect on the part of the store the
  invariant speaks of (`Same`, `New`, `Ready`, `Closed`).
* `AnsweredOnce`, `ExecutedAlone`, `LockFollows`: three invariants of `resend`.
* `CooldownHolds`: `Spec => CooldownAfterAnswer`. `CooldownInv` relates the cooldown
  to the last answer of each event and to the close of the retained state; every
  script that closes arms it, and none creates an election while it runs.
* `NewestNotReexecuted`: `Spec => NewestEventNotReexecuted`, with any arrivals, times and
  failures: the consumed state of an event that no delivery surpasses stays for the
  retention. `OneEventNotReexecuted` is the corollary for a message that several bots
  observe and nobody sends again: all deliveries report one event time, and under
  that hypothesis `AnsweredEventNotReexecuted`, which finding 1 refutes in general,
  holds.
* `Implements`: `Spec => AnswersOnce`. Each step is a step of `AnswerOnce` or a
  stutter; the answering steps use the uniqueness of `from` in the next state.

**Request guard.** `TypeCorrect`, `HoldersKeepTheirLocks`, `DrainsRelease`.
`HolderInv` adds to the lock property where a release can be: it is queued or
attempted only if accepted by that process, and accepted, or late, only if its
execution has ended; otherwise a release could free the lock of a running
execution. `DrainInv` adds that a worker stops uncanceled only at an empty queue,
that each attempt but the last has cost a fault, and that a lock an accepted
release has not freed is still queued or worked on.

**Image cache.** `TypeCorrect` (with the mutual exclusion of the content lock),
`RowsKeepObjects`, `ObjectsDiscoverable`, `UrlsKept`, `ServedUrlsKept`. `KeysApart`: which traces of
a key exist together, a key under way belongs to one writer. `ReadsHold`: what a
transaction has read under the lock still holds. `DoomedStay`: a deletion that was
given up concerns a key that will never be a row's again, the fact a late delete
needs. `AnsweredCurrent`: a key that was sent is the row's within its window, or lost, or
was rolled back and is out of the collection's sight. `UnnoticedDoomed`: a duplicate
that was sent is never recorded or uploaded again, so nothing but its own deletion
takes its object, and not while that is leased. `ServedCurrent`: a key sent from a
render row that is still live is the entry's, because a retirement needs every row
gone and a repair drops them all; its object is there by `IndexedObjectExists`.

**Cache persistence.** `TypeCorrect`, `PersistedGenerationsAreStored`,
`CleanClosesStoreAll`, `SnapshotsNeverShrink`. The invariant follows an update from
the memory (`MemoryHolds`) over the snapshot under way (`WriterHolds`) to the
store, and the closer past the refreshes (`SchedulesAsked`) to the worker
(`CloserHolds`). That the generation counts the merged updates needs their
finiteness (`MergeCounts`).

**Realtime gateway.** `TypeCorrect`, `HubStaysConsistent`, `DropsForNewer`.
`GatewayInv` joins types with the hub: `total` stays a natural number only because it
counts the streams, the stream evicted exists only because `older` is well-founded
on a finite hub, and a stream is closed only while it is loaded or served.
`PolicyInv` adds what the replay policy relies on: a row keeps its id and version
until the retention of its version is over, whatever is dropped is already behind
`Keep` newer rows, and so is what an ingest has read and is about to drop
(`PostOK`).

**What the gateway promises of an event** (`EventDeliveryProofs`).

* `DeliveryImplements`: `Spec => EventsDelivered`, the refinement that `gateway_sent`
  checks on a small instance. The mapping reads status and claims from the row and
  takes the frames written. Only the guards of the abstract steps are hard: a
  frame must be covered by a claim, and a settled event must not become pending
  again. `VersionInv` says which versions can still be written: a version that
  has been issued is written only by the request that drew it, no two requests draw
  the same, and what is stored or being ingested belongs to one that has been
  written. So an event whose row the retention has removed is never accepted again
  (`Gone`). `DeliveryInv` is the account: of each stored event, the frames written,
  the copies in the queues and the claimed event a stream is about to write, plus
  `MaxConnsPerSubscription` for every delivery that ingest or the sweep has claimed
  and not begun, are at most the claims times `MaxConnsPerSubscription`. A step that
  moves a copy, drops it or spreads it over the streams of a version keeps the
  account, the last one because the hub respects its cap per version
  (`HubConsistent`). Both invariants were checked by TLC on instances of up to 6
  million states before they were proved.
* `FramesBounded`: in numbers, at most `MaxDeliveries * MaxConnsPerSubscription`
  frames of an event while its row is stored. No run needs it; it follows from
  `DeliveryInv`.
* `RetiringKeepsLive`: `Spec => LiveEventsKept` under the hypothesis that `Requests` has
  at most one element, one replacement or cancellation at a time, which is the
  instance of `gateway_retire`. Without the hypothesis the property is false
  (finding 3). `RetireOK` is what one request gives and two do not: the version about
  to be kept is the one of the row, or the subscription is inactive. Failed
  calls, lost replies, crashes, expiry and any ingest may interleave.

**Election roster.** `TypeCorrect`, `MarksHaveRefreshes`. The type of the miss counters
has a bound that is not obvious: a reconciliation counts a miss only below the
threshold, but each of those that overlap adds one and each repeated pipeline
another, so `MissBound` counts the pipelines that still have a miss to send.

Model-checked only: everything under fairness (`PublishedIsConsumed`,
`AcceptedReleased`, `OrphansCollected`, `MergedIsStored`, `EventuallySent`,
`StaleStreamsEnd` and the roster's three), which the prover cannot do. Every
invariant, action property and refinement that a passing run checks is also a theorem,
one of them (`LiveEventsKept`) under the hypothesis of its run.

## 5. Plan

Done: the response election, the request guard, the roster, the realtime gateway
with the subscription requests, the image cache and the persistence of caches, and
the proofs of all their safety properties. Next, in this order:

1. An abstract specification of the request guard (one execution per lock) and of the
   image cache (a URL and its object), each with its refinement proved.
2. The composition of guard and election over the two keys they share.
3. `ProfileBackgrounds` (replacement and deferred deletion under a lease) and
   `Bindings` (concurrent swaps of one user's order).
4. The drawing client's failover and limiter.
5. The replay guard, bot sessions and bans: short Redis protocols.

Runs stay at two or three actors and one or two failures.

## 6. Not modelled

Of the modelled components:

* Election: result encoding and its size limits, traces, metrics, the hash that picks
  a winner, Redis data loss and failover.
* Roster: the order of the view cache beyond that any group may be evicted,
  private chats, which have no roster, and the hashing of keys.
* Gateway: a claim that is committed and whose reply is lost (it only counts a claim
  more), the copy of an event to the legacy gateway, read-only mode, heartbeats,
  the legacy event table, the ownership of a subscription by chat context.
* Image cache: local and legacy mode, `DryRun`, the batch bound of a cycle, schema
  creation, and the in-process table of renders that await their row, which repeats
  a URL for at most 120 s.
* Cache persistence: the coalescing window, `SetProvider`, bounds on the entries and
  the TTL of failures, an invalid namespace, `flushPersistence` outside of a close.

Components left out altogether: parsing and rendering, which are sequential
functions under the repository's own tests; cryptography; generated database code,
by far the most lines of the repository; deck search; configuration, translation
and clients; command line tools. `PROJECT.json` lists each component with its
reason.

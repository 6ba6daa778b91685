# Verification of swim-tfdm-consumer

TLA+ models of the program's own logic, TLC configurations that check them on
small instances, and TLAPS proofs of the properties that matter most. Paths
such as `app/dispatcher.py` are relative to the repository.

## The system

Two processes share one MongoDB database.

- The **API process** (`RUN_MODE=api`) runs five Kafka consumers (TFDM, TFMS,
  TBFM, SFDPS, STDDS) as asyncio tasks, the query API and UI, the subscriptions
  API, authentication and the admin portal.
- The **dispatcher process** (`RUN_MODE=dispatcher`) watches the `flights`
  collection and posts webhooks to the subscribers of a changed flight.

They never call each other: everything goes through documents. No call to the
database spans more than one document, there are no transactions, and the only
unique indexes are those of `clients`, `admin` and `flight_webhooks`. Every
`await` is a point at which any other task of either process may run.

### Inventory

| Component | State it keeps | Operations | Talks to | What is hard | What makes it correct |
|---|---|---|---|---|---|
| TFDM consumer (`consumer.py`, `parser.py`) | Kafka offset; `flights` | consume, `_upsert`: four finds, then merge, delete or insert | feeds and dispatcher, through `flights` | find and write are separate calls; partial identifiers; redelivery | each message is one step on the collection; one active flight per `tfdm_id`; a delete is complete; a repeat inserts nothing, unless its flight was deleted or renamed meanwhile |
| TFMS, TBFM, SFDPS, STDDS consumers | Kafka offset; their collection; a summary block in `flights`; `flight_routes` | consume, health check, store, link, summarise, route, commit | TFDM consumer through `flights` | several writes per record, any of which may fail; outages; redelivery | committed messages are accounted for; counts match links; `first_igtd` is kept |
| Change watcher (`dispatcher.py:114-184`) | change stream or last poll time | schedule a flight number | coalescer, through `_pending` | no resume token; stream against polling; poll window | no change is lost but in the known ways |
| Dispatcher (`dispatcher.py:82-111,187-235`) | `_pending`, its event; `flight_webhooks` | coalesce, dispatch, fan out, end of a flight | watcher, deliveries, subscriptions API | read, decide, save and send are separate calls; faults in between | no change is lost or repeated; what is saved was sent; throttle; final webhook before the drop |
| Delivery (`dispatcher.py:238-318`) | tasks; `status` and `failure_count` of a subscription | post, back off, record the outcome | subscriber, subscriptions API, admin | tasks of one subscription overlap; writes from stale copies | the count is right; no resurrection; every delivery ends |
| Inactivity scanner (`dispatcher.py:321-353`) | none | delete subscriptions of silent flights | `flights`, `subscriptions` | decides from an earlier read; a cursor over a changing collection; date comparison | only inactive subscriptions go, and all of them do |
| Subscriptions API (`subscriptions.py`) | `subscriptions`, `flight_webhooks` rows | create (two calls), list, get, delete | dispatcher, deliveries | interleaves with fan-out and deletion | a subscription gets its webhooks |
| Authentication, admin (`auth.py`, `security.py`, `admin.py`) | `clients`, `admin`; session | token, revoke, delete, reissue, cancel | subscriptions API | revocation while a request runs; token expiry | a revoked client starts nothing |
| Query API (`api.py`) | none | snapshot, batch, route, pages | `flights`, `flight_routes` | choice among several documents; one limit for a batch; three finds for a route | batch and single query agree; a route answer is one of a moment |
| Parsers, route parser | none | fields of a message | consumers | missing and malformed fields | pure functions |
| Database handles (`db.py`) | module globals | create handle and indexes | all | handle published before its indexes exist; two processes; stale handles after `close_db` | indexes are made once, and in the end; what is unique stays so but in named cases |
| Settings, wiring, templates, deployment | none | | | | |

`PROJECT.json` lists the same components with their status, and under `hazards`
what is hard to test in them, line by line.

## The modules

| Module | Models | Extended by |
|---|---|---|
| `Delivery` | deliveries to the subscriptions of one flight number | `DeliveryProofs` |
| `Dispatcher` | change stream, coalescer, dispatch, webhook rows | `MCDispatcher`, `DispatcherProofs` |
| `Webhooks` | what `Dispatcher` implements: the webhooks of each flight number by itself | instantiated by `Dispatcher` |
| `FlightDocs` | messages and flight documents, as far as the one finds the other | `FlightStore`, `Registry` |
| `FlightStore` | `_upsert` of the TFDM consumer, call by call | `MCFlightStore`, `FlightStoreProofs` |
| `Registry` | what `FlightStore` implements: a message is one step | instantiated by `FlightStore` |
| `Feeds` | one of the four other consumers | `MCFeeds`, `FeedsProofs` |
| `Clients` | admin account and session, API clients, their tokens and requests | `MCClients`, `ClientsProofs` |
| `Watcher` | change stream, polling, and the writes they look for | `TasksProofs` |
| `Inactivity` | the inactivity scanner | `MCInactivity`, `TasksProofs` |
| `Query` | the choice among documents, the batch, the route lookup | `MCQuery`, `QueryProofs` |
| `Handles` | lazy collection handles and their indexes | `MCHandles`, `HandlesProofs` |

An action is the code between two awaits that other tasks can notice: as a rule
one database call with everything decided from its result. A definition whose
name ends in `_Something` after the name of another one (`GivesUp_OneEarly`) is
that definition with a plausible bug; no specification uses it, it is there to
show that a property notices the bug.

**Delivery.** `SendToAllSubscriptions` is the fan-out: a task for each stored
document, holding the document as it was read (`seen` is its `failure_count`).
A task's `phase` is its place in `_send_to_subscription_with_retries`;
`RecordSuccess` and `RecordFailure` are the two `_record_*` functions,
`...Raises` what happens when their call raises: after an acknowledged post the
exception lands in the `except` of the attempt, after the last attempt it kills
the task. `Restart` drops all tasks. `DeleteSubscription`,
`AdminCancelSubscription` and `DropSubscriptions` remove documents under
running tasks. The inactivity scanner's delete is the same step as the first two.
The variables `streak`, `failures`, `gaveUp` and `stale` are history: they
count what really happened and are read by properties only.

**Dispatcher.** `WriteFlight` is any write of the feeds to the document a
dispatch would read (the most recently updated one of its flight number).
`Wake`, `TakeBatch`, `NextFlight` and `BatchDone` are `_coalescer`; `ReadFlight`
to `DropWebhookState` are `_dispatch_flight`, call by call. Time is counted in
ticks up to the throttle time, as ages: of the sleep, of the local variable
`now`, of `last_sent_at`, of the last fan-out. `TzAware` says whether the driver
returns dates with a time zone. The code never asks for it, so it is FALSE
unless `MONGODB_URL` sets `tz_aware=true`; the comparison of line 213 then
raises from the second webhook of a flight on (run `dispatcher_naive`). The other
runs and `ChangesAreKept` take it as TRUE: they say what the dispatcher does once
that is repaired. `missed` holds the flights whose last change a fault, a restart
or a closed change stream lost; `torn` those with a dispatch that ended between
saving or dropping the row and the fan-out that belongs to it; `late` the
subscriptions stored between the final fan-out and `delete_many`. The properties
name these cases and say that there are no others. `previous` is the local variable
of that name.

`Webhooks` is the abstract specification: it knows no queue, no coalescer, no rows and
no restarts. A flight number's document is taken (`Take`), its webhook is sent (`Send`,
`SendFinal`), given up or swallowed by a fault, and only then the next one is taken, so
snapshots go out in the order of the changes; each carries the one before, differs
from it and comes a throttle time after it; subscriptions are removed (`Remove`) once
all of them were told of the deletion. `Taken`, `Ending` and `Subscription` are the
mapping: what the one running dispatch holds for its flight number, how far the end
of a deleted flight has come, and which subscriptions are there. The
code reads the document first and the row a call later; as nobody else writes the row,
the mapping takes the previous snapshot to be there from the first of the two.

**FlightStore.** A message is what it can be found by and whether it is a
delete. `FindHit` and `FindMiss` are the finds in the order of `KeyOrder`, each
a step of its own; `MarkDeleted`, `MergeUpdate`, `IgnoreDelete` and
`InsertFlight` the four ends. `leg` stands for flight number and both airports;
as a message may carry a part of it, a merge may leave the document with any
leg. Offsets are left to `Feeds`: any message may come at any time, and come
again, also well after later ones were written: the loop goes on after a commit that
raised, so a restart may come back far. `holds` is history: for each document the
updates written to it since which nobody deleted it or gave it another value for one
of their identifiers (`Renames`). `RepeatInsertsNothing` is about these: an update
held by a document is not inserted again, however late it comes. `Registry` is the abstract specification: a message is applied
at once to an active document that agrees with it on the strongest key any active
document agrees on, or inserted when there is none. `ImplementsRegistry` takes the
messages being worked on for its inbox, the other variables stutter; finds are
stutters, and each write is one step of `Registry` on the collection as it is then,
although the finds were made on earlier ones.

**Feeds.** `Keyed` selects between TFMS, which inserts every record anew, counts
each link and keeps a route, and the other three, which upsert by an `_id` made
from the record and count when the upsert inserted. `Fetch`, `Parse`, `Commit`
are `_consume`, the steps between them `_store` call by call. `Raises` is the
`except` of the loop over the messages, `TaskEnds` an exception outside of it: of the
Kafka consumer's start, of its iteration, of the pause and resume in the health check.
It ends the task while the process lives on, and only a new process (`Crash`, then
`Start`) brings the consumer back. `Crash` is the end of the process, `DbFails` an outage during
which every database call raises and `Healthy` waits. Which of the active flights
a record fits, if any, is left open. `AddFlight` and `DeleteFlight` are the TFDM
consumer's.

**Clients.** A request is a coroutine with a `step`: it is authenticated or its
session is checked, then it makes its one write, and two handlers make one more
call for the page that shows a new secret (`ShowPage`). A secret is a number,
the n-th that was generated; `secret_hash` holds the one behind a client's hash.
Tokens carry nothing but the client, so a set of clients stands for them, and
`TokenExpires` for the hours that pass. `shown` and `lost` are history: what an
admin has seen, and what a request had that failed.

**Watcher.** `mode` is the place of the task in `_watch_or_poll` and
`_poll_flights`. A write of the API process takes two steps, as there: `TakeTime`
is the `now` at the top of `_upsert` and of each `_store`, `StoreFlight` the later
write with that `updated_at`. The coalescer of `Dispatcher` begins where
`Schedule` ends. `unseen` are the flights changed since they were scheduled,
`missed` those of them that nothing will schedule: stored when the poll for their
time had been answered, cut off by the limit, older than the window with which
polling takes over, from before the stream was opened, or changed after the task
ended. The code accepts all of these; the properties say there are no others.

**Inactivity.** A date is an age. `StartScan` takes the time, from which both
cutoffs follow; `silent` and `overdue` are what lies beyond them, which only a
write can change while the scan runs. `NextSub` is the cursor: it returns every
subscription there was, unless it was removed meanwhile, and perhaps new ones.
A MongoDB cursor over the status index may miss a document whose status changes under
it; by then a subscription that is due is written no more, as the shipped timeout of 120
minutes is longer than the 66 or so a delivery can retry. Dates are taken to be aware.
`ReadFlight` and `DeleteSub` are the two calls of an iteration, `ScanRaises` the
`except` of the loop. `revived` is history: the flight was written between them.

**Query.** Documents are numbered by `created_at` and `clock` counts the writes
for `updated_at`. `Better` is the key of `_pick_best_flight`, `ResolveFlight` and
`Batch` decide from one find and are operators over a state. `AskRoute` to `Done`
are `get_flight_route`, find by find. `moments` is history: what a lookup made at
once would have answered at each moment of the request. The writes are those of
the consumers: a merge may change a document's number, a summary is written by
`_id` whatever became of the document, and a route is kept under the `_id` of
the flight it was linked to, or under its number and airports.

**Handles.** `FirstCall` is a getter up to its first `create_index`: client and
handle are published. `CreateIndex` is one call of it, `LaterCall` any other call
of the getter, which returns the handle at once. `Find` and `Insert` stand for
the callers that make what must be there once: the first admin, the webhook row
of a flight number (an upsert is these two steps when a unique index is missing).
`Close` is `close_db`, which leaves the handles; `Restart` a new process.
`failed` and `interrupted` are history.

## The runs

| Run | Instance | Shows |
|---|---|---|
| `delivery` | 1 subscription, 1 retry, limit 3, 4 fan-outs, fair | `FailingIffCounted`, `CountIsStreak`, `GaveUpAfterFailures`, `NoResurrection`, `EveryDeliveryEnds` |
| `delivery_consecutive` | limit 2, no retry, 3 fan-outs | counter-example: "removed after 10 consecutive delivery failures" |
| `dispatcher` | 2 flight numbers, 1 subscription, 2 contents, 3 writes, 1 fault, fair | `PendingIsSignalled`, `NoLostChange`, `ThrottleHolds`, `SavedIsSent`, `NoRepeatedSnapshot`, `FinalBeforeDrop`, `PreviousIsLastSent`, `Converges`, `ImplementsWebhooks` |
| `dispatcher_naive` | 1 flight number, naive dates | counter-example: a webhook whenever the snapshot changes |
| `flight_store` | 1 consumer, 2 `tfdm_id`, 2 `tfm_id`, 1 plan id, 1 leg, 4 messages | `UniqueTfdm`, `DeleteLeavesNone`, `RepeatInsertsNothing`, `ImplementsRegistry` |
| `feeds_keyed` | 1 flight, 2 keys, messages of up to 2 records, 2 messages, 2 faults, fair | `CommittedIsAccounted`, `FaultCostsOneMessage`, `NeverOvercounts`, `EveryMessageHandled` |
| `feeds_tfms` | 2 flights, 2 keys, 2 messages of one and two records, 1 fault | `CountIsExact`, `RoutesAreLinked`, `FirstIgtdKept` |
| `inactivity` | 2 flight numbers with a subscription each, timeouts of 1 and 2 ticks, 3 writes, 1 fault, fair | `OnlyIdleAreRemoved`, `ScanIsThorough`, `InactiveAreRemoved` |
| `query` | 2 numbers, 2 feeds, limit 1, 3 flights, 5 writes | `BatchAgrees`, `PickIsFeedByFeed`, `AnswerOfAMoment` |
| `handles` | 3 tasks of the API process, 1 of the dispatcher, a collection with a unique and a plain index, 3 faults, fair | `IndexesAreOnTheWay`, `DuplicatesAreExplained`, `IndexedInTheEnd` |
| `clients` | 2 clients, 2 browsers, 2 passwords, 2 requests at a time, 1 subscription, 3 secrets, 1 fault | `SetupPasswordWorks`, `SecretIsHeld`, `OnlyLiveRequestsAct`, `RevokedIsFinal` |
| `watcher` | 2 flight numbers, 3 seconds, 3 writes, limit 1, 2 faults, fair | `ChangesAreAccounted`, `ChangesAreSeen` |

The type invariants and the strengthenings that make the properties inductive are
proved and not run again; each was checked with TLC on the instance of its run
before.

**Bounds.** Each bound is a CONSTANT (`MaxFanouts`, `MaxWrites`, `MaxFaults`,
`MaxMessages`, `MaxSecrets`,
`MaxTime`, `MaxFlights`) in a guard of the step it bounds. They are chosen so that each
property's hard case occurs, which the mutants confirm: four fan-outs with a
limit of three let a count be lost, reset and reached; three writes let a
document change before, during and after a dispatch of the other flight number,
be deleted and come back; two faults let a fault hit the recovery from another
one (`dispatcher` has one, and the proofs of its safety properties are for any
number); four messages build a flight, give it another `tfdm_id`, and delete or
re-create it; two messages with two faults are a commit, a crash, a redelivery
and another fault; three secrets are a client, a second one or a reissue, and a
reissue that overlaps it; three seconds are a poll, a write between its question
and its answer, and the next poll, and a limit of one is passed by two flights.
In `query` three flights of two numbers let one number pass the limit and crowd
the other out, and five writes are enough for two documents to be linked, one of
them to be renumbered or deleted, and two routes to compete; two feeds of four
are enough, as `Better` compares feed by feed. In `inactivity` the two timeouts
differ, and three writes bring a flight to life before, during and after a
scan. In `handles` three tasks are one that makes the indexes and two that insert
meanwhile; three faults are a failed call, a restart and another failed call.
The limit of ten, the five retries and their delays only
enter as numbers, and the proofs are for all of them. Identifiers are
interchangeable where a run uses symmetry, and no run with a liveness property
does; `Registry!Spec` has no fairness and names no identifier.
In `dispatcher` all subscriptions are for one of the flight numbers; the other
shares the coalescer with it.

**Deadlock.** `Delivery`, `FlightStore`, `Feeds`, `Clients`, `Watcher` and `Handles`
stop when their bounds are used up and nothing is left to do, so their runs do not
check for deadlock. In `Dispatcher` and `Inactivity` time always passes, and in
`Query` another request may always come.

**Fairness.** Weak fairness of the steps of one task stands for the asyncio event
loop, which runs every ready task (in `Dispatcher` these are two, the watcher and the
coalescer with the dispatches it awaits); of `PostFails` and `PostSucceeds` together for
the timeout of every post; of `BackoffElapses` and `Tick` for time; of `Watch` and
`Poll` for the watcher's task and the answers of MongoDB; of `Scan` for the
scanner's task; of `CreateIndex` and `CreateIndexRaises` together for a call that
returns or raises; of `Start`
for the restart of a process that died; of `DbRecovers` for outages that end. Nothing makes
subscribers, clients or feeds act. In `Feeds` the environment has no fairness
either: the consumer alone brings each message to its end. Nothing is assumed to
restart a task that ended (`TaskEnds`), as the deployment has no probe that would notice:
`EveryMessageHandled` says that a message is handled or its consumer's task ends.

## What is proved

For all values of the constants, from the named assumptions of each module
(bounds are natural numbers, `"null"` is not a value, there are finitely many
flight numbers and each feed has one name):

- `DeliveryProofs`: `IndInv`, the conjunction of the type invariant, the three
  state properties and `TasksInStep`, is inductive. `TasksInStep` is needed
  because the properties speak of documents, while the values that will be
  written to them are in the tasks: it bounds every copy by what was counted,
  and says that without overlap there is one task, in step with its document.
  From it follow `TypeCorrect`, `TasksStayInStep`, `FailingMeansCounted`,
  `CountsConsecutiveFailures`, `NeverGivesUpEarly`, and from the actions
  `RemovedStaysRemoved`.
- `DispatcherProofs`: `TypeOK`, `PendingIsSignalled` and `CoalescerInv` are
  inductive together; `ThrottleIsKept` follows because a flight in a batch has
  rested as long as the coalescer slept (`BatchIsRested`). `ChangesAreKept`
  (assuming `TzAware`) adds `NoLostChange`, for which `DocIsCurrent` is needed:
  from the read to the end of a dispatch its document is the newest one, or a
  newer one is on its way. `SavedSnapshotsAreSent`, `SnapshotsAreNew` and
  `DroppedAfterFinal` hold with any number of faults, but for the flights in `torn`
  and the subscriptions in `late`; the second follows from the first, as a
  dispatch goes on only with a snapshot that differs from the saved one.
  `WebhooksAreChained` adds that `previous` is the saved snapshot until the save,
  and the one fanned out last after it. `KeepsThePromise` is the refinement, for any
  flights, subscriptions, throttle time and number of faults, naive dates included.
  It needs what the others proved (`PromiseInv`): the document is there, the flight
  has rested, the previous snapshot is the one that was sent or the flight is in
  `torn`, and those still stored at a drop were told. Its steps go by the code:
  the queue's are stutters, as nothing is taken outside a dispatch; a read is `Take`;
  reading the row and saving it are stutters, because nobody else writes the row;
  a return is `GiveUp`; a failed call is `GiveUp` or `Swallow`, by whether the row was
  saved or dropped already.
- `FlightStoreProofs`: `FlightStoreTypes` for any number of consumers;
  `TfdmIsUnique`, `LookupsHold`, `DeletedStaysDeleted` and `DeletesAreComplete`
  for one (`OneConsumer`). `LookupHolds` carries what the finds saw to the write:
  that the `tfdm_id` is free, or belongs to the document found. `ActsAsRegistry` is
  the refinement, for one consumer: the finds keep the fact that the keys tried so
  far match no active document, so that the one found is a candidate of `Registry`
  at the write, and a miss means there is none. `RepeatsAreMerged` rests on
  `HeldAreThere`: a document has, active, every identifier of each update it holds, so
  that a find of that update cannot miss it.
- `ClientsProofs`: `IndInv` conjoins the type invariant, `SetupPasswordWorks`,
  `SecretIsHeld` and `OnlyLiveRequestsAct` with `StaleRequestsFail`: a request
  that arrived too late meets a revoked or deleted client, which is what keeps it
  from passing the check, as no client becomes active again. `SecretsAreHeld`
  rests on secrets being fresh: a reissue replaces the hash and holds the new
  secret in the same step. `RevocationIsFinal` follows from the actions.
- `FeedsProofs`: `FeedsTypes` with `Locals`, what each step of `_store` finds in
  the variables that earlier ones set. For any number of consumers of the feed:
  `CommittedOffsets`, where a consumer about to commit has accounted for the
  message in hand; `SummariesNeverOvercount`, where a summary, and what a find read
  of one, is bounded by the linked records less those `Pending`, which a consumer
  has inserted and no summary counts yet, each held by one consumer only;
  `RoutesOfLinkedRecords`, as a TFMS record in hand is its consumer's own. With
  one consumer (`OneConsumer`) what the find read is still so at the write
  (`ReadInv`), since no other task writes summaries. This gives `FirstIgtdStays` (the
  feeds that upsert keep no `first_igtd`, so it holds for any number of them) and,
  for the feed that does not upsert (`~Keyed`), `SummariesAreExact`: a summary is off by the
  record being counted, and otherwise by one for each fault.
  `FaultsCostOneMessage` counts with the losses the consumer that an outage met
  with a message in hand (`Exposed`). It is for one consumer because one outage meets
  a message of each.
- `TasksProofs`, the scanner: `TypeOK` and `CutoffsHold` are inductive together. The
  second says that what lies beyond a cutoff is idle now: ages only grow, and a
  write takes the flight out of `silent`. `OnlyIdleGo` follows at the delete, with
  `revived` for the write in between. `ScansAreThorough` needs `ScanInv`:
  what the scan has left behind is not due, or is gone, and stays so because the
  cutoffs gain nothing during a scan and no id is used twice.
- `TasksProofs`, the watcher, a specification of its own there: `WatcherTypeOK` and
  `ChangesAreAccounted` are inductive together
  (`WindowsLeaveNoGap`); the type invariant's `last_poll <= now <= clock` says that no
  window reaches into the future, so that a flight stored later than the window's
  start is in it.
- `QueryProofs`: `TypeCorrect`; `LookupsAreOfAMoment` from `RoutesDated` (no two
  routes are of one write) and `Noted`: at each find of a lookup, what it will
  answer from there on is among `moments`, as long as at most one write has fallen
  between its finds. `BatchesAsSingles` rests on `RoomForAll`: the limit of a batch
  has room for the documents of its numbers unless one of them has more than its
  share, and what comes before the newest document of a number is of the others.
  The best of those found is well defined (`BestIsThere`), as no two documents are
  of one write (`FlightsDated`) and `Better` is transitive, and total where dates
  differ.
  `SnapshotsAreFeedByFeed`: that best document is the one left when the
  candidates are narrowed feed by feed. Inductions over documents and feeds are
  arguments by the least counterexample (`LeastNatural`).
- `HandlesProofs`: `TypeCorrect`, `IndexesAreMade`, `BuildersAreAlone` and
  `DuplicatesHaveACause`, for any processes, tasks, collections and numbers of
  indexes. One task makes the indexes because the handle is set before the first
  `await`; a second copy of a document needs an insert that the index did not
  refuse, so it came before the index, while somebody was making it.

Every safety property of every passing run is stated by a theorem. Model-checked only:
liveness (`EveryDeliveryEnds`, `Converges`, `EveryMessageHandled`,
`ChangesAreSeen`, `InactiveAreRemoved`, `IndexedInTheEnd`), which is beyond the
proof system. Where a theorem asks for one consumer, or for a feed that does not
upsert, the property is not claimed for others; where the code breaks it there is
said below.

## What the models found

Each is a run with a counter-example, and a `findings` entry with the lines:

1. the naive date comparison drops every change after a flight's first webhook;
2. overlapping deliveries lose failure counts.

Also seen while modelling, without a run of its own:

- a subscription created between the final fan-out and `delete_many` is removed
  without the final webhook that README.md:199 promises (`late` in `Dispatcher`);
- a message whose processing raises is passed by the next commit and not stored,
  although README.md:46 says all parsed messages are (`FaultCostsOneMessage` says
  that no other goes with it);
- with naive dates every scan for inactive subscriptions ends at its first
  one (`dispatcher.py:350`, line 352 without a document), so nothing is removed; a document of
  an earlier day removes a new subscription to the number at the next scan;
- the deletion of one leg, or a late summary write to a deleted document, makes the
  dispatcher end the subscriptions of another active leg of that number;
- the webhook sends the most recently updated document of any status, while
  `GET /flights/{flight_number}`, to which README.md:194 compares it, answers with
  the active one that has most summaries; an old leg with a TFMS summary is
  preferred to a newer one;
- the route lookup prefers the route of the newest flight, although README.md:182
  says the most recently updated one; a renaming and a renumbered route between its
  finds can give 404 although there was a route at every moment; a flight's route
  can carry another flight number, as TFMS links by other keys;
- an exception of the Kafka consumer's start or iteration, in any of the five
  consumers, ends the task for good while the process lives (`tfms_consumer.py:56,62`,
  `consumer.py:66,72`): the topic is no longer read until somebody restarts the pod;
- an update that is delivered again after its flight was deleted, or given another
  identifier, inserts a second document: insert, a commit that raises, delete, crash,
  and the insert comes again (`consumer.py:85-89`);
- a delete message that is delivered again can delete another flight that shares a
  weaker key; a TFMS record that is delivered again is stored and counted again, as
  is an SFDPS record without a source time stamp (`sfdps_consumer.py:88`);
- a fault between saving a snapshot and fanning it out loses the change for good
  (`dispatcher.py:216`): the next dispatch finds it unchanged;
- a record that could not be linked when it was stored, and is linked when it
  comes again, is not counted (`tbfm_consumer.py:143`);
- a `_record_success` that raises makes an acknowledged webhook be posted again;
- polling misses a write stamped before a poll and stored after it, those beyond
  the thousandth document, and what a stream that failed held of more than a second ago; nobody
  watches once a stream was closed without an exception;
- two TFDM consumers, as while a deployment rolls over, can insert one flight
  twice, and two TFMS consumers can overwrite each other's `first_igtd`;
- a message can be merged by flight number and airports into a flight it shares
  no identifier with;
- the token response always says `expires_in` 86400, whatever
  `jwt_expiry_hours` is; the subscriptions of a deleted client stay.

## Not modelled

Parsers, the route parser, payload layout, pages, templates, styles: data
extraction and presentation, sequential and without state. The index page of the
UI keys its counts by flight number, so that rows that share one show the same;
the pages change nothing. Cryptography of tokens and passwords. The session
middleware sets the cookie anew with every answer, which can undo a logout that
overlaps another request. `Clients` takes the unique index of `admin` to exist;
`Handles` says when it does. `Dispatcher` has one document for each flight number,
and fewer subscriptions than the thousand `to_list` returns. Snapshots that are
retried can arrive out of order; `Delivery` does not look into them, and the code
promises no order.

## Plan

1. `Dispatcher` with several documents for a flight number, for legs that end while
   another one is active.
2. `SummariesAreExact` for the feeds that upsert, with the records delivered again
   as its exception.
3. Pure operators with reference definitions: `_merge_points`,
   `_normalize_airport`, `_payload_changed`.

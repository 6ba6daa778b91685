----------------------------- MODULE Dispatcher -----------------------------
(***************************************************************************)
(* From a changed flight document to the fan-out of its snapshot.          *)
(*                                                                         *)
(* The watcher turns change events into a set of pending flight numbers;   *)
(* the coalescer sleeps for the throttle time, takes the whole set and     *)
(* dispatches one flight after the other.  A dispatch is a sequence of     *)
(* database calls, each of them an await at which the feeds may write the  *)
(* flight, clients may create and delete subscriptions, more events may    *)
(* arrive, the call may raise and the process may die.                     *)
(*                                                                         *)
(* Of the flights collection only the most recently updated document of a  *)
(* flight number matters here; what a delivery task does with the          *)
(* snapshot it is given is the subject of module Delivery.                 *)
(* Source: app/dispatcher.py, app/subscriptions.py.                        *)
(***************************************************************************)
EXTENDS Naturals

CONSTANTS
    Flight,      \* flight numbers
    Sub,         \* subscription ids
    FlightOf,    \* the flight number each subscription asks for
    Content,     \* what a payload says, without the fields _strip_meta drops
    TzAware,     \* dates come back from the driver with a time zone (the
                 \* tz_aware option, FALSE unless MONGODB_URL sets it)
    Throttle,    \* settings.webhook_throttle_seconds, in ticks
    MaxWrites,   \* bound: writes to the flights collection
    MaxFaults    \* bound: failed calls, restarts, clock steps

NoPayload == "null"

ASSUME DispatcherAssumption ==
    /\ FlightOf \in [Sub -> Flight]
    /\ NoPayload \notin Content
    /\ TzAware \in BOOLEAN
    /\ Throttle \in Nat
    /\ MaxWrites \in Nat
    /\ MaxFaults \in Nat

VARIABLES
    \* The database:
    flight,        \* the most recently updated document of each flight number
    last_payload,  \* flight_webhooks: the last snapshot saved
    last_sent_at,  \* flight_webhooks: whether a send time is set
    subs,          \* status of each subscription's document
    \* The dispatcher process:
    watching,      \* the change stream is open
    stream,        \* undelivered change events, counted per flight number
    pending,       \* _pending
    event,         \* _pending_event
    step,          \* where the coalescer is
    batch,         \* to_process, what is left of it
    cur,           \* the flight number being dispatched
    doc,           \* the document read for it
    previous,      \* the snapshot of the row, for previous_flight
    \* Time, each up to Throttle:
    slept,         \* how long the coalescer has slept
    now_age,       \* age of the local variable now of the dispatch
    sent_age,      \* now - last_sent_at
    fan_age,       \* time since the flight was last fanned out (history)
    \* Bounds and history, read by the properties only:
    writes, faults,
    unread,        \* changed since the dispatcher last read the document
    missed,        \* flights whose last change was lost to a fault
    skewed,        \* flights whose last_sent_at a clock step put ahead
    fanned,        \* the snapshot last fanned out
    torn,          \* flights with a dispatch that ended between saving or
                   \* dropping the row and the fan-out that belongs to it
    final,         \* subscriptions that were sent the snapshot of a deletion
    late           \* subscriptions stored between that fan-out and the drop

database == <<flight, last_payload, last_sent_at, subs>>
watcher == <<watching, stream>>
queue == <<pending, event>>
coalescer == <<step, batch, cur, doc, previous>>
clocks == <<slept, now_age, sent_age, fan_age>>
history == <<unread, missed, skewed, fanned, torn, final, late>>
vars == <<database, watcher, queue, coalescer, clocks, writes, faults, history>>

Doc == [status : {"active", "deleted"}, content : Content]

NoDoc == [status |-> "none", content |-> NoPayload]

SubStatus == {"unused", "creating", "stored", "removed", "dropped"}

\* Steps of _coalescer ("idle", "sleep", "next") and of _dispatch_flight.
DispatchStep == {"read", "row", "save", "send", "final", "drop", "forget"}
Step == {"idle", "sleep", "next"} \cup DispatchStep

TypeOK ==
    /\ flight \in [Flight -> Doc \cup {NoDoc}]
    /\ last_payload \in [Flight -> Content \cup {NoPayload}]
    /\ last_sent_at \in [Flight -> BOOLEAN]
    /\ subs \in [Sub -> SubStatus]
    /\ watching \in BOOLEAN
    /\ stream \in [Flight -> Nat]
    /\ pending \subseteq Flight
    /\ event \in BOOLEAN
    /\ step \in Step
    /\ batch \subseteq Flight
    /\ cur \in Flight
    /\ doc \in Doc \cup {NoDoc}
    /\ previous \in Content \cup {NoPayload}
    /\ slept \in 0..Throttle
    /\ now_age \in 0..Throttle
    /\ sent_age \in [Flight -> 0..Throttle]
    /\ fan_age \in [Flight -> 0..Throttle]
    /\ writes \in 0..MaxWrites
    /\ faults \in 0..MaxFaults
    /\ unread \subseteq Flight
    /\ missed \subseteq Flight
    /\ skewed \subseteq Flight
    /\ fanned \in [Flight -> Content \cup {NoPayload}]
    /\ torn \subseteq Flight
    /\ final \subseteq Sub
    /\ late \subseteq Sub

Init ==
    /\ flight = [f \in Flight |-> NoDoc]
    /\ last_payload = [f \in Flight |-> NoPayload]
    /\ last_sent_at = [f \in Flight |-> FALSE]
    /\ subs = [s \in Sub |-> "unused"]
    /\ watching = FALSE
    /\ stream = [f \in Flight |-> 0]
    /\ pending = {}
    /\ event = FALSE
    /\ step = "idle"
    /\ batch = {}
    /\ cur \in Flight
    /\ doc = NoDoc
    /\ previous = NoPayload
    /\ slept = Throttle
    /\ now_age = Throttle
    /\ sent_age = [f \in Flight |-> Throttle]
    /\ fan_age = [f \in Flight |-> Throttle]
    /\ writes = 0
    /\ faults = 0
    /\ unread = {}
    /\ missed = {}
    /\ skewed = {}
    /\ fanned = [f \in Flight |-> NoPayload]
    /\ torn = {}
    /\ final = {}
    /\ late = {}

Stored(f) == {s \in Sub : FlightOf[s] = f /\ subs[s] = "stored"}

-----------------------------------------------------------------------------
(* The feeds and the API process.                                          *)

\* A consumer inserts, updates or deletes a document of f, which makes it the
\* most recently updated one.  Content that was there before may come back.  A
\* delete for an unknown flight is ignored.
WriteFlight(f, d) ==
    /\ writes < MaxWrites
    /\ d.status = "deleted" => flight[f] # NoDoc
    /\ writes' = writes + 1
    /\ flight' = [flight EXCEPT ![f] = d]
    /\ stream' = [stream EXCEPT ![f] = IF watching THEN @ + 1 ELSE @]
    /\ unread' = unread \cup {f}
    /\ missed' = IF watching THEN missed \ {f} ELSE missed \cup {f}
    /\ UNCHANGED <<last_payload, last_sent_at, subs, watching, queue, coalescer,
                   clocks, faults, skewed, fanned, torn, final, late>>

\* create_subscription, first call: an upsert with $setOnInsert, which leaves
\* a row that exists alone and inserts one that says what no row says.
EnsureWebhookRow(s) ==
    /\ subs[s] = "unused"
    /\ subs' = [subs EXCEPT ![s] = "creating"]
    /\ UNCHANGED <<flight, last_payload, last_sent_at, watcher, queue, coalescer,
                   clocks, writes, faults, history>>

\* create_subscription, second call.
InsertSubscription(s) ==
    /\ subs[s] = "creating"
    /\ subs' = [subs EXCEPT ![s] = "stored"]
    /\ late' = IF step = "drop" /\ FlightOf[s] = cur THEN late \cup {s} ELSE late
    /\ UNCHANGED <<flight, last_payload, last_sent_at, watcher, queue, coalescer,
                   clocks, writes, faults, unread, missed, skewed, fanned, torn,
                   final>>

\* The client or an admin deletes it, its deliveries fail too often, or the
\* inactivity scan finds it: one delete_one by id each.
RemoveSubscription(s) ==
    /\ subs[s] = "stored"
    /\ subs' = [subs EXCEPT ![s] = "removed"]
    /\ UNCHANGED <<flight, last_payload, last_sent_at, watcher, queue, coalescer,
                   clocks, writes, faults, history>>

-----------------------------------------------------------------------------
(* The watcher.                                                            *)

\* watch() starts at the present: it is given no resume token.
WatchOpens ==
    /\ ~watching
    /\ watching' = TRUE
    /\ UNCHANGED <<database, stream, queue, coalescer, clocks, writes, faults,
                   history>>

\* _schedule: a flight that is pending already changes nothing.
Schedule(f) ==
    /\ pending' = pending \cup {f}
    /\ event' = (event \/ f \notin pending)

\* One change event; its document is looked up and names the flight.
NextChange(f) ==
    /\ stream[f] > 0
    /\ stream' = [stream EXCEPT ![f] = @ - 1]
    /\ Schedule(f)
    /\ UNCHANGED <<database, watching, coalescer, clocks, writes, faults, history>>

-----------------------------------------------------------------------------
(* The coalescer.                                                          *)

Wake ==
    /\ step = "idle"
    /\ pending # {} \/ event
    /\ step' = "sleep"
    /\ slept' = 0
    /\ UNCHANGED <<database, watcher, queue, batch, cur, doc, previous,
                   now_age, sent_age, fan_age, writes, faults, history>>

\* Mutated form of TakeBatch: no sleep before the set is taken.
TakeBatch_NoSleep ==
    /\ step = "sleep"
    /\ slept' = Throttle
    /\ step' = "next"
    /\ batch' = pending
    /\ pending' = {}
    /\ event' = FALSE
    /\ UNCHANGED <<database, watcher, cur, doc, previous, now_age, sent_age,
                   fan_age, writes, faults, history>>

\* Mutated form of TakeBatch: the event stays set.
TakeBatch_EventKept ==
    /\ step = "sleep"
    /\ slept = Throttle
    /\ step' = "next"
    /\ batch' = pending
    /\ pending' = {}
    /\ UNCHANGED <<database, watcher, event, cur, doc, previous, clocks,
                   writes, faults, history>>

TakeBatch ==
    /\ step = "sleep"
    /\ slept = Throttle
    /\ step' = "next"
    /\ batch' = pending
    /\ pending' = {}
    /\ event' = FALSE
    /\ UNCHANGED <<database, watcher, cur, doc, previous, clocks, writes,
                   faults, history>>

NextFlight(f) ==
    /\ step = "next"
    /\ f \in batch
    /\ step' = "read"
    /\ batch' = batch \ {f}
    /\ cur' = f
    /\ UNCHANGED <<database, watcher, queue, doc, previous, clocks, writes,
                   faults, history>>

\* Mutated form of BatchDone: _pending is cleared after the dispatches.
BatchDone_ClearsPending ==
    /\ step = "next"
    /\ batch = {}
    /\ step' = "idle"
    /\ pending' = {}
    /\ event' = FALSE
    /\ UNCHANGED <<database, watcher, batch, cur, doc, previous, clocks,
                   writes, faults, history>>

BatchDone ==
    /\ step = "next"
    /\ batch = {}
    /\ step' = "idle"
    /\ UNCHANGED <<database, watcher, queue, batch, cur, doc, previous, clocks,
                   writes, faults, history>>

-----------------------------------------------------------------------------
(* _dispatch_flight(cur), one action per database call.                    *)

\* _get_latest_flight.
ReadFlight ==
    /\ step = "read"
    /\ doc' = flight[cur]
    /\ step' = IF doc' = NoDoc THEN "next" ELSE "row"
    /\ unread' = unread \ {cur}
    /\ UNCHANGED <<database, watcher, queue, batch, cur, previous, clocks, writes,
                   faults, missed, skewed, fanned, torn, final, late>>

Deleted == doc.status = "deleted"

Changed == doc.content # last_payload[cur]

\* The dispatch returns; its local variables are gone.
Return ==
    /\ step' = "next"
    /\ doc' = NoDoc
    /\ previous' = NoPayload

\* existing, as far as it is used later.
ReadRow == previous' = last_payload[cur]

\* Mutated form of StartFinal: the subscriptions are dropped first.
StartFinal_DropsFirst ==
    /\ step = "row"
    /\ Deleted
    /\ ReadRow
    /\ step' = "drop"
    /\ UNCHANGED <<database, watcher, queue, batch, cur, doc, clocks, writes,
                   faults, history>>

\* The row is read and everything up to the next call is decided from it.
StartFinal ==
    /\ step = "row"
    /\ Deleted
    /\ ReadRow
    /\ step' = "final"
    /\ UNCHANGED <<database, watcher, queue, batch, cur, doc, clocks, writes,
                   faults, history>>

Unchanged ==
    /\ step = "row"
    /\ ~Deleted
    /\ ~Changed
    /\ Return
    /\ UNCHANGED <<database, watcher, queue, batch, cur, clocks, writes, faults,
                   history>>

\* last_sent_at > cutoff.  A naive date cannot be compared with the aware
\* cutoff: the comparison raises, and the dispatch ends just the same.
TooRecent ==
    /\ last_sent_at[cur]
    /\ ~TzAware \/ sent_age[cur] < Throttle

Withheld ==
    /\ step = "row"
    /\ ~Deleted
    /\ Changed
    /\ TooRecent
    /\ Return
    /\ missed' = missed \cup (skewed \cap {cur})
    /\ UNCHANGED <<database, watcher, queue, batch, cur, clocks, writes, faults,
                   unread, skewed, fanned, torn, final, late>>

\* Mutated form of StartSave: the row is not kept for previous_flight.
StartSave_NoPrevious ==
    /\ step = "row"
    /\ ~Deleted
    /\ Changed
    /\ ~TooRecent
    /\ step' = "save"
    /\ now_age' = 0
    /\ skewed' = skewed \ {cur}
    /\ UNCHANGED <<database, watcher, queue, batch, cur, doc, previous, slept,
                   sent_age, fan_age, writes, faults, unread, missed, fanned,
                   torn, final, late>>

StartSave ==
    /\ step = "row"
    /\ ~Deleted
    /\ Changed
    /\ ~TooRecent
    /\ ReadRow
    /\ step' = "save"
    /\ now_age' = 0
    /\ skewed' = skewed \ {cur}
    /\ UNCHANGED <<database, watcher, queue, batch, cur, doc, slept, sent_age,
                   fan_age, writes, faults, unread, missed, fanned, torn, final,
                   late>>

SaveRow(content) ==
    /\ step = "save"
    /\ last_payload' = [last_payload EXCEPT ![cur] = content]
    /\ last_sent_at' = [last_sent_at EXCEPT ![cur] = TRUE]
    /\ sent_age' = [sent_age EXCEPT ![cur] = now_age]
    /\ now_age' = Throttle
    /\ step' = "send"
    /\ UNCHANGED <<flight, subs, watcher, queue, batch, cur, doc, previous,
                   slept, fan_age, writes, faults, history>>

\* Mutated form of SaveWebhookState: only last_sent_at is set.
SaveWebhookState_TimeOnly == SaveRow(last_payload[cur])

\* Mutated form of SaveWebhookState: the document is read again for the row.
SaveWebhookState_Fresh == SaveRow(flight[cur].content)

\* update_one(..., upsert=True) with the snapshot and the time it was decided.
SaveWebhookState == SaveRow(doc.content)

FanOut ==
    /\ fanned' = [fanned EXCEPT ![cur] = doc.content]
    /\ torn' = torn \ {cur}
    /\ fan_age' = [fan_age EXCEPT ![cur] = IF Stored(cur) = {} THEN @ ELSE 0]

SendToSubscriptions ==
    /\ step = "send"
    /\ FanOut
    /\ Return
    /\ UNCHANGED <<database, watcher, queue, batch, cur, slept, now_age, sent_age,
                   writes, faults, unread, missed, skewed, final, late>>

SendFinal ==
    /\ step = "final"
    /\ FanOut
    /\ final' = final \cup Stored(cur)
    /\ step' = "drop"
    /\ UNCHANGED <<database, watcher, queue, batch, cur, doc, previous, slept,
                   now_age, sent_age, writes, faults, unread, missed, skewed,
                   late>>

DropSubscriptions ==
    /\ step = "drop"
    /\ subs' = [s \in Sub |-> IF s \in Stored(cur) THEN "dropped" ELSE subs[s]]
    /\ step' = "forget"
    /\ UNCHANGED <<flight, last_payload, last_sent_at, watcher, queue, batch,
                   cur, doc, previous, clocks, writes, faults, history>>

\* Mutated form of DropWebhookState: the row outlives the flight.
DropWebhookState_Kept ==
    /\ step = "forget"
    /\ Return
    /\ UNCHANGED <<database, watcher, queue, batch, cur, clocks, writes, faults,
                   history>>

DropWebhookState ==
    /\ step = "forget"
    /\ last_payload' = [last_payload EXCEPT ![cur] = NoPayload]
    /\ last_sent_at' = [last_sent_at EXCEPT ![cur] = FALSE]
    /\ sent_age' = [sent_age EXCEPT ![cur] = Throttle]
    /\ fanned' = [fanned EXCEPT ![cur] = NoPayload]
    /\ skewed' = skewed \ {cur}
    /\ Return
    /\ UNCHANGED <<flight, subs, watcher, queue, batch, cur, slept, now_age,
                   fan_age, writes, faults, unread, missed, torn, final, late>>

-----------------------------------------------------------------------------
(* Faults and time.                                                        *)

Fault == faults < MaxFaults /\ faults' = faults + 1

HalfDone == {f \in {cur} : step \in {"send", "drop", "forget"}}

\* A database call of a dispatch raises: the flight is given up, the coalescer
\* goes on with the next one.
DispatchRaises ==
    /\ Fault
    /\ step \in DispatchStep
    /\ Return
    /\ now_age' = Throttle
    /\ missed' = missed \cup {cur}
    /\ torn' = torn \cup HalfDone
    /\ UNCHANGED <<database, watcher, queue, batch, cur, slept, sent_age, fan_age,
                   writes, unread, skewed, fanned, final, late>>

OnItsWay(f) ==
    \/ stream[f] > 0
    \/ f \in pending
    \/ f \in batch
    \/ f = cur /\ step = "read"

BeingDispatched(f) == f = cur /\ step \in DispatchStep

\* The process stops or dies and starts again; the database stays.
Restart ==
    /\ Fault
    /\ watching' = FALSE
    /\ stream' = [f \in Flight |-> 0]
    /\ pending' = {}
    /\ event' = FALSE
    /\ step' = "idle"
    /\ batch' = {}
    /\ doc' = NoDoc
    /\ previous' = NoPayload
    /\ slept' = Throttle
    /\ now_age' = Throttle
    /\ missed' = missed \cup {f \in Flight : OnItsWay(f) \/ BeingDispatched(f)}
    /\ torn' = torn \cup HalfDone
    /\ UNCHANGED <<database, cur, sent_age, fan_age, writes, unread, skewed,
                   fanned, final, late>>

\* The wall clock is set back: the send times saved seem to be of just now.
ClockStepsBack ==
    /\ Fault
    /\ sent_age' = [f \in Flight |-> IF last_sent_at[f] THEN 0 ELSE sent_age[f]]
    /\ skewed' = skewed \cup {f \in Flight : last_sent_at[f]}
                        \cup {f \in {cur} : step = "save"}
    /\ now_age' = IF step = "save" THEN 0 ELSE now_age
    /\ UNCHANGED <<database, watcher, queue, coalescer, slept, fan_age, writes,
                   unread, missed, fanned, torn, final, late>>

Older(age) == IF age < Throttle THEN age + 1 ELSE age

Tick ==
    /\ slept' = Older(slept)
    /\ now_age' = Older(now_age)
    /\ sent_age' = [f \in Flight |-> Older(sent_age[f])]
    /\ fan_age' = [f \in Flight |-> Older(fan_age[f])]
    /\ UNCHANGED <<database, watcher, queue, coalescer, writes, faults, history>>

-----------------------------------------------------------------------------
Dispatch ==
    \/ ReadFlight
    \/ StartFinal
    \/ Unchanged
    \/ Withheld
    \/ StartSave
    \/ SaveWebhookState
    \/ SendToSubscriptions
    \/ SendFinal
    \/ DropSubscriptions
    \/ DropWebhookState

Coalesce ==
    \/ Wake
    \/ TakeBatch
    \/ \E f \in Flight : NextFlight(f)
    \/ BatchDone

Next ==
    \/ \E f \in Flight, d \in Doc : WriteFlight(f, d)
    \/ \E s \in Sub : \/ EnsureWebhookRow(s)
                      \/ InsertSubscription(s)
                      \/ RemoveSubscription(s)
    \/ WatchOpens
    \/ \E f \in Flight : NextChange(f)
    \/ Coalesce
    \/ Dispatch
    \/ DispatchRaises
    \/ Restart
    \/ ClockStepsBack
    \/ Tick

\* The event loop runs the watcher and the coalescer, every call returns, and
\* time passes.  Nothing makes the feeds write or the clients subscribe.
Fairness ==
    /\ WF_vars(WatchOpens \/ \E f \in Flight : NextChange(f))
    /\ WF_vars(Coalesce \/ Dispatch)
    /\ WF_vars(Tick)

Spec == Init /\ [][Next]_vars

FairSpec == Spec /\ Fairness

-----------------------------------------------------------------------------
(* Properties.                                                             *)

\* The event is set exactly while something is pending: the coalescer neither
\* sleeps through a change nor wakes for nothing.
PendingIsSignalled == event <=> pending # {}

\* README.md: "receive webhook calls whenever the flight snapshot changes".
\* A change is on its way to a dispatch until the document has been read, and
\* after that the row says what the document says, unless a fault lost it.
\* An event that arrives at any await of a dispatch is kept for the next.
NoLostChange ==
    \A f \in Flight \ missed :
        /\ f \in unread => OnItsWay(f)
        /\ flight[f].status = "active" /\ last_payload[f] # flight[f].content
               => OnItsWay(f) \/ BeingDispatched(f)
        /\ flight[f].status = "deleted" /\ last_payload[f] # NoPayload
               => OnItsWay(f) \/ BeingDispatched(f)

\* What makes NoLostChange inductive: from the read to the end of a dispatch
\* the document it works on is the newest one, or a newer one is on its way.
DocIsCurrent ==
    /\ step \in DispatchStep \ {"read"} =>
           /\ doc \in Doc
           /\ doc = flight[cur] \/ OnItsWay(cur) \/ cur \in missed
    /\ step \in {"save", "send"} => ~Deleted
    /\ step = "send" => ~Changed
    /\ step \in {"final", "drop", "forget"} => Deleted

\* What makes ThrottleHolds inductive: a flight that waits for its dispatch has
\* rested for as long as the coalescer slept.  Only a clock step makes a send
\* time look younger, so the comparison with last_sent_at withholds nothing.
Rested(f, time) == fan_age[f] >= time /\ (f \in skewed \/ sent_age[f] >= time)

BatchIsRested ==
    /\ step \in {"idle", "sleep"} => batch = {}
    /\ step = "sleep" => \A f \in Flight : Rested(f, slept)
    /\ \A f \in batch : Rested(f, Throttle)
    /\ step \in {"read", "row"} => Rested(cur, Throttle)
    /\ step \in {"save", "send", "final"} => fan_age[cur] = Throttle
    /\ step \in DispatchStep => cur \notin batch

CoalescerInv == DocIsCurrent /\ BatchIsRested

\* README.md: "throttled to one per flight per second".  Two fan-outs of one
\* flight are a throttle time apart, the final one included, which no
\* comparison with last_sent_at guards: the sleep of the coalescer does it.
ThrottleHolds ==
    step \in {"send", "final"} => fan_age[cur] = Throttle

\* The row says what was fanned out last: nothing is saved that is not sent,
\* which the next dispatch, finding it unchanged, would not send either; but
\* for a dispatch that is between the two, or that ended there.
SavedIsSent ==
    \A f \in Flight \ torn :
        \/ last_payload[f] = fanned[f]
        \/ f = cur /\ step \in {"send", "drop", "forget"}

\* Two fan-outs in a row never carry the same snapshot, however events,
\* changes that are undone, and failed dispatches mix.
NoRepeatedSnapshot ==
    step = "send" /\ cur \notin torn => fanned[cur] # doc.content

\* README.md: a webhook holds "previous_flight".  It is the flight of the last
\* fan-out, whatever became of the dispatches, restarts and legs in between:
\* the row is read before it is overwritten, and nobody else writes it.
PreviousIsLastSent ==
    step \in {"send", "final"} /\ cur \notin torn => previous = fanned[cur]

Settled(f) ==
    CASE flight[f].status = "active"  -> last_payload[f] = flight[f].content
      [] flight[f].status = "deleted" -> last_payload[f] = NoPayload
      [] OTHER                        -> TRUE

\* When the writes stop, the row of every flight comes to say what its
\* document says, whatever order events, reads and saves went in.
Converges == <>[](\A f \in Flight : Settled(f) \/ f \in missed)

\* README.md: "A status of deleted always triggers a final FLIGHT_UPDATED
\* before the subscription is removed."  Every subscription a dispatch drops
\* was in a final fan-out, unless it was stored after that fan-out.
FinalBeforeDrop ==
    /\ \A s \in Sub : subs[s] = "dropped" => s \in final \cup late
    /\ step = "drop" => Stored(cur) \subseteq final \cup late

\* What a flight number's webhook is being made of: the document from its read
\* on, and the snapshot of the row, which nothing else writes, to compare with.
Taken ==
    [f \in Flight |->
        CASE f = cur /\ step = "row" ->
                 [document |-> doc, previous |-> last_payload[cur]]
          [] f = cur /\ step \in {"save", "send", "final"} ->
                 [document |-> doc, previous |-> previous]
          [] OTHER -> [document |-> NoDoc, previous |-> NoPayload]]

Ending ==
    [f \in Flight |-> CASE f = cur /\ step = "drop"   -> "told"
                        [] f = cur /\ step = "forget" -> "removed"
                        [] OTHER                      -> "no"]

Subscription ==
    [s \in Sub |-> CASE subs[s] \in {"unused", "creating"} -> "new"
                     [] subs[s] = "stored"                -> "there"
                     [] OTHER                             -> "gone"]

Webhooks == INSTANCE Webhooks WITH
    taken <- Taken, heard <- fanned, ending <- Ending, swallowed <- torn,
    subs <- Subscription, told <- final \cup late, rest <- fan_age

\* Whatever the queue, the restarts and the interleaving of the coalescer's
\* calls with the feeds and the API do, each flight number's webhooks are as
\* Webhooks promises: in the order of the changes, each with the snapshot
\* before it as previous_flight and different from it, a throttle time apart,
\* and a deletion is told before anybody is removed.
ImplementsWebhooks == Webhooks!Spec

=============================================================================

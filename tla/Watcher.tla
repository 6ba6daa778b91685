------------------------------ MODULE Watcher ------------------------------
(***************************************************************************)
(* How the dispatcher process learns that a flight has changed.            *)
(*                                                                         *)
(* _watch_or_poll follows the change stream of the flights collection if   *)
(* the replica set has a secondary, and otherwise, or once the stream      *)
(* fails, asks every second for the documents whose updated_at is later    *)
(* than its previous question.  The API process takes updated_at from its  *)
(* clock when it starts to process a message, several calls before it      *)
(* writes the document with it; the two processes share nothing else.      *)
(*                                                                         *)
(* Time is counted in seconds, the distance of two polls; a flight has one *)
(* document.  What becomes of a scheduled flight number is in Dispatcher.  *)
(* Source: app/dispatcher.py, app/consumer.py, app/tfms_consumer.py.       *)
(***************************************************************************)
EXTENDS Naturals, Sequences, FiniteSets

CONSTANTS
    Number,      \* flight numbers
    Limit,       \* length=1000 of the find of _poll_flights
    MaxTime,     \* bound: seconds
    MaxStarted,  \* bound: how many writes the API process starts
    MaxFailures  \* bound: failing calls, closed streams, restarts

ASSUME WatcherAssumption ==
    /\ Limit \in Nat \ {0}
    /\ MaxTime \in Nat \ {0}
    /\ MaxStarted \in Nat
    /\ MaxFailures \in Nat

VARIABLES
    clock,
    writing,     \* writes that have their updated_at but are not stored yet
    updated_at,  \* of the stored document; 0 if there is none
    mode,        \* where _watch_or_poll is
    stream,      \* events the stream holds for the watcher
    last_poll,   \* variable of _poll_flights
    now,         \* variable of _poll_flights, from the newest poll
    docs,        \* answer of the find
    started, failures,
    \* History:
    unseen,      \* flights changed since they were last scheduled
    missed       \* unseen flights that nothing will schedule as it is

api == <<writing, updated_at, started>>
poll == <<last_poll, now, docs>>
watcherVars == <<clock, api, mode, stream, poll, failures, unseen, missed>>

Polling == {"asleep",     \* waiting a second
            "asked",      \* now taken, find not answered yet
            "answered"}   \* answer found, flights not scheduled yet

Mode == {"check",    \* asking for the state of the replica set
         "opening",  \* watch() called, no stream on the server yet
         "stream", "ended"} \cup Polling

Write == [flight : Number, at : 1..MaxTime]

WatcherTypeOK ==
    /\ clock \in 1..MaxTime
    /\ writing \subseteq {w \in Write : w.at <= clock}
    /\ updated_at \in [Number -> 0..clock]
    /\ mode \in Mode
    /\ stream \in Seq(Number)
    /\ last_poll \in 0..now
    /\ now \in 0..clock
    /\ docs \subseteq Number
    /\ started \in 0..MaxStarted
    /\ failures \in 0..MaxFailures
    /\ unseen \subseteq Number
    /\ missed \subseteq unseen

WatcherInit ==
    /\ clock = 1
    /\ writing = {}
    /\ updated_at = [f \in Number |-> 0]
    /\ mode = "check"
    /\ stream = <<>>
    /\ last_poll = 0
    /\ now = 0
    /\ docs = {}
    /\ started = 0
    /\ failures = 0
    /\ unseen = {}
    /\ missed = {}

Second ==
    /\ clock < MaxTime
    /\ clock' = clock + 1
    /\ UNCHANGED <<api, mode, stream, poll, failures, unseen, missed>>

-----------------------------------------------------------------------------
(* The API process: now is taken, then other calls are made, then the      *)
(* document is written.                                                    *)

TakeTime(f) ==
    /\ started < MaxStarted
    /\ started' = started + 1
    /\ writing' = writing \cup {[flight |-> f, at |-> clock]}
    /\ UNCHANGED <<clock, updated_at, mode, stream, poll, failures, unseen, missed>>

\* The time up to which the watcher has asked, as far as it has an answer.
Asked == IF mode = "answered" THEN now ELSE last_poll

\* Nobody watches, or the poll that covers this time has been answered.
TooLate(w) == mode = "ended" \/ (mode \in Polling /\ w.at <= Asked)

StoreFlight(w) ==
    /\ writing' = writing \ {w}
    /\ updated_at' = [updated_at EXCEPT ![w.flight] = w.at]
    /\ stream' = IF mode = "stream" THEN Append(stream, w.flight) ELSE stream
    /\ unseen' = unseen \cup {w.flight}
    /\ missed' = IF TooLate(w) THEN missed \cup {w.flight}
                               ELSE missed \ {w.flight}
    /\ UNCHANGED <<clock, mode, poll, started, failures>>

-----------------------------------------------------------------------------
(* Choice of stream or polling.                                            *)

\* _poll_flights starts with the changes of the last second.
StartPolling ==
    /\ mode' = "asleep"
    /\ stream' = <<>>
    /\ last_poll' = clock - 1
    /\ now' = clock - 1
    /\ docs' = {}
    /\ missed' = {f \in unseen : updated_at[f] <= last_poll'}

\* replSetGetStatus raises, or lists no SECONDARY.
NoSecondary ==
    /\ mode = "check"
    /\ StartPolling
    /\ UNCHANGED <<clock, api, failures, unseen>>

Secondary ==
    /\ mode = "check"
    /\ mode' = "opening"
    /\ UNCHANGED <<clock, api, stream, poll, failures, unseen, missed>>

\* The stream starts at the present: it is given no resume token.
StreamOpens ==
    /\ mode = "opening"
    /\ mode' = "stream"
    /\ missed' = unseen
    /\ UNCHANGED <<clock, api, stream, poll, failures, unseen>>

\* _schedule for what an event or an answer names.
Schedule(F) == unseen' = unseen \ F

NextChange ==
    /\ mode = "stream"
    /\ stream # <<>>
    /\ Schedule({Head(stream)})
    /\ missed' = missed \ {Head(stream)}
    /\ stream' = Tail(stream)
    /\ UNCHANGED <<clock, api, mode, poll, failures>>

\* OperationFailure or any other exception, on opening or later: the rest of
\* the stream is lost, polling takes over for good.
StreamFails ==
    /\ mode \in {"opening", "stream"}
    /\ failures < MaxFailures
    /\ failures' = failures + 1
    /\ StartPolling
    /\ UNCHANGED <<clock, api, unseen>>

\* The stream is closed by the server without an exception, or get_collection
\* raises outside the try block: the task is over, and nobody starts another.
WatcherEnds ==
    /\ mode \in {"check", "stream"}
    /\ failures < MaxFailures
    /\ failures' = failures + 1
    /\ mode' = "ended"
    /\ stream' = <<>>
    /\ missed' = unseen
    /\ UNCHANGED <<clock, api, poll, unseen>>

-----------------------------------------------------------------------------
(* Polling.                                                                *)

\* now is taken before the find is sent.  Polls are a second apart, but at
\* MaxTime, where time stands still, they go on.
AskForChanges ==
    /\ mode = "asleep"
    /\ clock > now \/ clock = MaxTime
    /\ mode' = "asked"
    /\ now' = clock
    /\ UNCHANGED <<clock, api, stream, last_poll, docs, failures, unseen, missed>>

\* find({"updated_at": {"$gt": last_poll}}) in no order; what the limit cuts
\* off is not asked for again.
Changed == {f \in Number : updated_at[f] > last_poll}

FindChanges ==
    /\ mode = "asked"
    /\ mode' = "answered"
    /\ docs' \in SUBSET Changed
    /\ Cardinality(docs') <= Limit
    /\ docs' = Changed \/ Cardinality(docs') = Limit
    /\ missed' = missed \cup {f \in (unseen \cap Changed) \ docs' :
                                updated_at[f] <= now}
    /\ UNCHANGED <<clock, api, stream, last_poll, now, failures, unseen>>

\* Mutated form of ScheduleChanges: the next window starts when the answer is
\* processed, not when the question was asked.
ScheduleChanges_NowAfter ==
    /\ mode = "answered"
    /\ mode' = "asleep"
    /\ Schedule(docs)
    /\ missed' = missed \ docs
    /\ last_poll' = clock
    /\ now' = clock
    /\ docs' = {}
    /\ UNCHANGED <<clock, api, stream, failures>>

ScheduleChanges ==
    /\ mode = "answered"
    /\ mode' = "asleep"
    /\ Schedule(docs)
    /\ missed' = missed \ docs
    /\ last_poll' = now
    /\ docs' = {}
    /\ UNCHANGED <<clock, api, stream, now, failures>>

\* Mutated form of PollFails: the exception leaves the loop.
PollFails_EndsLoop ==
    /\ mode \in {"asked", "answered"}
    /\ failures < MaxFailures
    /\ failures' = failures + 1
    /\ mode' = "ended"
    /\ docs' = {}
    /\ UNCHANGED <<clock, api, stream, last_poll, now, unseen, missed>>

\* The find raises: the next poll asks from the same last_poll.
PollFails ==
    /\ mode \in {"asked", "answered"}
    /\ failures < MaxFailures
    /\ failures' = failures + 1
    /\ mode' = "asleep"
    /\ docs' = {}
    /\ missed' = {f \in missed : updated_at[f] <= last_poll}
    /\ UNCHANGED <<clock, api, stream, last_poll, now, unseen>>

\* The dispatcher process starts again, and with it the watcher.
RestartWatcher ==
    /\ failures < MaxFailures
    /\ failures' = failures + 1
    /\ mode' = "check"
    /\ stream' = <<>>
    /\ docs' = {}
    /\ UNCHANGED <<clock, api, last_poll, now, unseen, missed>>

Watch == NoSecondary \/ Secondary \/ StreamOpens \/ NextChange

Poll == AskForChanges \/ FindChanges \/ ScheduleChanges

WatcherNext ==
    \/ Second
    \/ \E f \in Number : TakeTime(f)
    \/ \E w \in writing : StoreFlight(w)
    \/ Watch
    \/ StreamFails
    \/ WatcherEnds
    \/ Poll
    \/ PollFails
    \/ RestartWatcher

WatcherSpec == WatcherInit /\ [][WatcherNext]_watcherVars

\* The event loop runs the watcher, MongoDB answers, and time passes.
FairWatcherSpec ==
    /\ WatcherSpec
    /\ WF_watcherVars(Watch)
    /\ WF_watcherVars(Poll)
    /\ WF_watcherVars(Second)

-----------------------------------------------------------------------------
(* Properties.                                                             *)

\* What will schedule f, or excuses that nothing does: the task has not got so
\* far, an event, the answer that is there, or the next window of the polling.
\* Should the poll fail whose answer it is in, f is in the next window too.
Accounted(f) ==
    \/ f \in missed
    \/ mode \in {"check", "opening"}
    \/ mode = "stream" /\ \E i \in DOMAIN stream : stream[i] = f
    \/ mode \in {"asleep", "asked"} /\ updated_at[f] > last_poll
    \/ /\ mode = "answered"
       /\ updated_at[f] > last_poll
       /\ f \in docs \/ updated_at[f] > now

\* Every change is on its way to the coalescer unless it was stored when the
\* poll for its time had been answered, cut off by the limit, older than the
\* window with which polling took over, from before the stream was opened, or
\* nobody watches (dispatcher.py:132-184): the windows of the polls leave no
\* gap between them, and neither does a poll that fails.
ChangesAreAccounted == \A f \in unseen : Accounted(f)

\* A change that is not lost in one of those ways is scheduled in the end.
ChangesAreSeen ==
    \A f \in Number : f \in unseen \ missed ~> f \notin unseen \ missed

=============================================================================

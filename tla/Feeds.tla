------------------------------- MODULE Feeds -------------------------------
(***************************************************************************)
(* One of the TFMS, TBFM, SFDPS and STDDS feeds: from a Kafka partition to *)
(* the collection of its messages and to the summary block the feed keeps  *)
(* in the flight documents.                                                *)
(*                                                                         *)
(* A consumer waits for the database, parses the message, stores each of   *)
(* its records, links the record to an active flight, rewrites the         *)
(* flight's summary and commits the offset when all of it is done.  An     *)
(* exception skips the rest of the message; a crash goes back to the       *)
(* offset committed last.  TFMS inserts every record anew and keeps the    *)
(* route of the flight; the other three feeds upsert by an _id made from   *)
(* the record, and count a record only when the upsert inserted it.        *)
(*                                                                         *)
(* Flights come and go by the hand of the TFDM consumer (FlightStore).     *)
(* Source: app/tfms_consumer.py, app/tbfm_consumer.py,                     *)
(* app/sfdps_consumer.py, app/stdds_consumer.py.                           *)
(***************************************************************************)
EXTENDS Naturals, Sequences, FiniteSets

CONSTANTS
    Consumer,     \* running consumers of the feed, each with its partition
    Flight,       \* flight documents
    Key,          \* what the _id of a record is made from
    Parsed,       \* what the messages parse to: sequences of keys
    Keyed,        \* TRUE: TBFM, SFDPS, STDDS; FALSE: TFMS
    Earliest,     \* auto_offset_reset: TRUE for TBFM, FALSE ("latest") else
    MaxMessages,  \* bound: messages per partition
    MaxFaults,    \* bound: calls that raise, outages, crashes
    None,         \* no offset, flight or igtd
    Unparsable    \* a message that does not parse

ASSUME FeedsAssumption ==
    /\ Parsed \subseteq Seq(Key)
    /\ None \notin Key \cup Flight \cup Nat
    /\ Unparsable \notin Parsed
    /\ Keyed \in BOOLEAN
    /\ Earliest \in BOOLEAN
    /\ MaxMessages \in Nat
    /\ MaxFaults \in Nat

VARIABLES
    log,        \* the partitions
    committed,  \* committed offsets; None before the first commit
    position,   \* messages fetched so far
    pc,         \* where each consumer is in _consume and _store
    todo,       \* records of the message still to be stored, the first first
    work,       \* local variables of _store for the first of them
    records,    \* the collection of the feed: [key, linked]
    flights,    \* status, summary count and first_igtd of each flight
    routes,     \* flight_routes: the record each route is from
    db,         \* the database answers
    faults,     \* bound
    \* History, read by the properties only:
    stored,     \* offsets whose records are all stored and linked
    skipped,    \* offsets given up by an exception
    jumped,     \* offsets never fetched: reset to the end of the log
    everLinked  \* records that were ever linked to each flight

offsets == <<log, committed, position>>
local == <<pc, todo, work>>
database == <<records, flights, routes>>
history == <<stored, skipped, jumped, everLinked>>
vars == <<offsets, local, database, db, faults, history>>

\* "ended": the task of the consumer is over although the process runs.
Pc == {"down", "ended", "poll", "health", "store", "find", "mark", "update",
       "route", "commit"}

\* is_new, the record, and the flight with its summary as find_one returned it.
Work == [isNew  : BOOLEAN,
         record : Nat,
         target : Flight \cup {None},
         count  : Nat,
         first  : Key \cup {None}]

NoWork == [isNew |-> FALSE, record |-> 0, target |-> None, count |-> 0,
           first |-> None]

FlightDoc == [status : {"none", "active", "deleted"},
              count  : Nat,
              first  : Key \cup {None}]

\* A document of the feed's collection: what its _id is made from, its flight.
Record == [key : Key, linked : Flight \cup {None}]

TypeOK ==
    /\ log \in [Consumer -> Seq(Parsed \cup {Unparsable})]
    /\ committed \in [Consumer -> Nat \cup {None}]
    /\ position \in [Consumer -> Nat]
    /\ pc \in [Consumer -> Pc]
    /\ todo \in [Consumer -> Seq(Key)]
    /\ work \in [Consumer -> Work]
    /\ records \in Seq(Record)
    /\ flights \in [Flight -> FlightDoc]
    /\ routes \in [Flight \cup {None} -> Key \cup {None}]
    /\ db \in {"up", "down"}
    /\ faults \in 0..MaxFaults
    /\ stored \in [Consumer -> SUBSET Nat]
    /\ skipped \in [Consumer -> SUBSET Nat]
    /\ jumped \in [Consumer -> SUBSET Nat]
    /\ everLinked \in [Flight -> SUBSET Nat]

Init ==
    /\ log = [c \in Consumer |-> <<>>]
    /\ committed = [c \in Consumer |-> None]
    /\ position = [c \in Consumer |-> 0]
    /\ pc = [c \in Consumer |-> "down"]
    /\ todo = [c \in Consumer |-> <<>>]
    /\ work = [c \in Consumer |-> NoWork]
    /\ records = <<>>
    /\ flights = [f \in Flight |-> [status |-> "none", count |-> 0, first |-> None]]
    /\ routes = [f \in Flight \cup {None} |-> None]
    /\ db = "up"
    /\ faults = 0
    /\ stored = [c \in Consumer |-> {}]
    /\ skipped = [c \in Consumer |-> {}]
    /\ jumped = [c \in Consumer |-> {}]
    /\ everLinked = [f \in Flight |-> {}]

-----------------------------------------------------------------------------
(* Around the consumers.                                                   *)

\* The feed appends a message.
Produce(c, m) ==
    /\ Len(log[c]) < MaxMessages
    /\ log' = [log EXCEPT ![c] = Append(@, m)]
    /\ UNCHANGED <<committed, position, local, database, db, faults, history>>

\* The TFDM consumer inserts a flight, or deletes it.
FlightChanges(f, old, new) ==
    /\ flights[f].status = old
    /\ flights' = [flights EXCEPT ![f].status = new]
    /\ UNCHANGED <<offsets, local, records, routes, db, faults, history>>

AddFlight(f) == FlightChanges(f, "none", "active")

DeleteFlight(f) == FlightChanges(f, "active", "deleted")

Fault == faults < MaxFaults /\ faults' = faults + 1

DbFails ==
    /\ db = "up"
    /\ Fault
    /\ db' = "down"
    /\ UNCHANGED <<offsets, local, database, history>>

DbRecovers ==
    /\ db = "down"
    /\ db' = "up"
    /\ UNCHANGED <<offsets, local, database, faults, history>>

-----------------------------------------------------------------------------
(* _consume.  Start and Fetch succeed: TaskEnds is what they do otherwise.  *)

At(c, from, to) == pc[c] = from /\ pc' = [pc EXCEPT ![c] = to]

\* The group's offset, or auto_offset_reset when there is none.
Start(c) ==
    /\ At(c, "down", "poll")
    /\ LET from == IF committed[c] # None THEN committed[c]
                   ELSE IF Earliest THEN 0
                   ELSE Len(log[c])
       IN  /\ position' = [position EXCEPT ![c] = from]
           /\ jumped' = [jumped EXCEPT
                            ![c] = IF committed[c] = None THEN @ \cup 1..from ELSE @]
    /\ UNCHANGED <<log, committed, todo, work, database, db, faults, stored,
                   skipped, everLinked>>

\* Mutated form of Fetch: the offset is committed when the message arrives.
Fetch_CommitsFirst(c) ==
    /\ At(c, "poll", "health")
    /\ position[c] < Len(log[c])
    /\ position' = [position EXCEPT ![c] = @ + 1]
    /\ committed' = [committed EXCEPT ![c] = position[c] + 1]
    /\ UNCHANGED <<log, todo, work, database, db, faults, history>>

Fetch(c) ==
    /\ At(c, "poll", "health")
    /\ position[c] < Len(log[c])
    /\ position' = [position EXCEPT ![c] = @ + 1]
    /\ UNCHANGED <<log, committed, todo, work, database, db, faults, history>>

Current(c) == log[c][position[c]]

Skip(c) == skipped' = [skipped EXCEPT ![c] = @ \cup {position[c]}]

Finish(c) == stored' = [stored EXCEPT ![c] = @ \cup {position[c]}]

\* Mutated form of Healthy: the ping's answer is ignored.
Healthy_NotAsked == TRUE

\* _ensure_db_healthy returns once a ping succeeds; until then the partitions
\* are paused and the message is held.
Healthy == db = "up"

\* Mutated form of Parse: a message that does not parse is fetched again.
Parse_TriesAgain(c) ==
    /\ pc[c] = "health"
    /\ Healthy
    /\ \/ /\ Current(c) = Unparsable
          /\ At(c, "health", "poll")
          /\ position' = [position EXCEPT ![c] = @ - 1]
          /\ UNCHANGED <<todo, stored>>
       \/ /\ Current(c) = <<>>
          /\ At(c, "health", "commit")
          /\ Finish(c)
          /\ UNCHANGED <<position, todo>>
       \/ /\ Current(c) \notin {Unparsable, <<>>}
          /\ At(c, "health", "store")
          /\ todo' = [todo EXCEPT ![c] = Current(c)]
          /\ UNCHANGED <<position, stored>>
    /\ UNCHANGED <<log, committed, work, database, db, faults, skipped, jumped,
                   everLinked>>

Parse(c) ==
    /\ pc[c] = "health"
    /\ Healthy
    /\ \/ /\ Current(c) = Unparsable
          /\ At(c, "health", "poll")
          /\ Skip(c)
          /\ UNCHANGED <<todo, stored>>
       \/ /\ Current(c) = <<>>
          /\ At(c, "health", "commit")
          /\ Finish(c)
          /\ UNCHANGED <<todo, skipped>>
       \/ /\ Current(c) \notin {Unparsable, <<>>}
          /\ At(c, "health", "store")
          /\ todo' = [todo EXCEPT ![c] = Current(c)]
          /\ UNCHANGED <<stored, skipped>>
    /\ UNCHANGED <<offsets, work, database, db, faults, jumped, everLinked>>

Commit(c) ==
    /\ At(c, "commit", "poll")
    /\ committed' = [committed EXCEPT ![c] = position[c]]
    /\ UNCHANGED <<log, position, todo, work, database, db, faults, history>>

-----------------------------------------------------------------------------
(* _store, one action per database call.                                   *)

\* The next record of the message, or the end of it.
NextRecord(c) ==
    /\ todo' = [todo EXCEPT ![c] = Tail(@)]
    /\ work' = [work EXCEPT ![c] = NoWork]
    /\ IF Len(todo[c]) > 1
       THEN pc' = [pc EXCEPT ![c] = "store"] /\ UNCHANGED stored
       ELSE pc' = [pc EXCEPT ![c] = "commit"] /\ Finish(c)

RecordOf(k) == {i \in DOMAIN records : records[i].key = k}

\* Mutated form of Inserts: only an upsert reports a new record.
Inserts_UpsertsOnly(k) == Keyed /\ RecordOf(k) = {}

\* Mutated form of Inserts: an upsert counts as new whatever it did.
Inserts_Always(k) == TRUE

\* insert_one always inserts, the upsert only when there is no such _id.
Inserts(k) == ~Keyed \/ RecordOf(k) = {}

StoreRecord(c) ==
    /\ db = "up"
    /\ At(c, "store", "find")
    /\ LET k == Head(todo[c])
           n == Len(records) + 1
       IN  IF ~Keyed \/ RecordOf(k) = {}
           THEN /\ records' = Append(records, [key |-> k, linked |-> None])
                /\ work' = [work EXCEPT ![c].isNew = Inserts(k), ![c].record = n]
           ELSE /\ \E i \in RecordOf(k) :
                      work' = [work EXCEPT ![c].isNew = Inserts(k), ![c].record = i]
                /\ UNCHANGED records
    /\ UNCHANGED <<offsets, todo, flights, routes, db, faults, history>>

Linkable == {f \in Flight : flights[f].status = "active"}

\* The finds of _link_to_flight look at active flights only; which of them
\* the record fits, if any, is up to the data.
FindFlight(c) ==
    /\ db = "up"
    /\ \/ \E f \in Linkable :
             /\ At(c, "find", "mark")
             /\ work' = [work EXCEPT ![c].target = f,
                                     ![c].count = flights[f].count,
                                     ![c].first = flights[f].first]
             /\ UNCHANGED <<todo, stored>>
       \/ /\ ~Keyed
          /\ At(c, "find", "route")
          /\ UNCHANGED <<todo, work, stored>>
       \/ /\ Keyed
          /\ pc[c] = "find"
          /\ NextRecord(c)
    /\ UNCHANGED <<offsets, database, db, faults, skipped, jumped, everLinked>>

\* Mutated form of MarkLinked: the link is not written.
MarkLinked_Forgotten(c) ==
    /\ db = "up"
    /\ At(c, "mark", "update")
    /\ UNCHANGED <<offsets, todo, work, database, db, faults, history>>

MarkLinked(c) ==
    /\ db = "up"
    /\ At(c, "mark", "update")
    /\ records' = [records EXCEPT ![work[c].record].linked = work[c].target]
    /\ everLinked' = [everLinked EXCEPT ![work[c].target] = @ \cup {work[c].record}]
    /\ UNCHANGED <<offsets, todo, work, flights, routes, db, faults, stored,
                   skipped, jumped>>

\* Mutated form of FirstIgtds: the latest one is kept.
FirstIgtds_Latest(c) == {work[c].first, Head(todo[c])}

\* What first_igtd may become: the record has an igtd or not.
FirstIgtds(c) ==
    IF Keyed \/ work[c].first # None THEN {work[c].first}
    ELSE {None, Head(todo[c])}

\* The whole summary is written, made from the one read by the find; by _id,
\* whatever the status of the flight is by now.
UpdateSummary(c) ==
    /\ db = "up"
    /\ pc[c] = "update"
    /\ \E first \in FirstIgtds(c) :
          flights' = [flights EXCEPT
             ![work[c].target].count = IF work[c].isNew THEN work[c].count + 1
                                       ELSE work[c].count,
             ![work[c].target].first = first]
    /\ \/ /\ ~Keyed
          /\ At(c, "update", "route")
          /\ UNCHANGED <<todo, work, stored>>
       \/ /\ Keyed
          /\ NextRecord(c)
    /\ UNCHANGED <<offsets, records, routes, db, faults, skipped, jumped, everLinked>>

\* _update_route, when the record has a flight number and a route: upsert of
\* the route of the linked flight, or of the one named by number and airports.
UpdateRoute(c) ==
    /\ db = "up"
    /\ pc[c] = "route"
    /\ \/ routes' = [routes EXCEPT ![work[c].target] = Head(todo[c])]
       \/ UNCHANGED routes
    /\ NextRecord(c)
    /\ UNCHANGED <<offsets, records, flights, db, faults, skipped, jumped, everLinked>>

-----------------------------------------------------------------------------
(* Faults.                                                                 *)

\* A call raises: by itself, or because the database is down.  The message is
\* given up and the consumer goes on with the next one.  A write that took
\* effect and raised all the same is the write followed by this step.
Raises(c) ==
    /\ \/ /\ pc[c] \in {"store", "find", "mark", "update", "route"}
          /\ Skip(c)
          /\ \/ db = "down" /\ UNCHANGED faults
             \/ db = "up" /\ Fault
       \/ /\ pc[c] = "commit"
          /\ UNCHANGED skipped
          /\ Fault
    /\ pc' = [pc EXCEPT ![c] = "poll"]
    /\ todo' = [todo EXCEPT ![c] = <<>>]
    /\ work' = [work EXCEPT ![c] = NoWork]
    /\ UNCHANGED <<offsets, database, db, stored, jumped, everLinked>>

\* The start of the Kafka consumer, its iteration or the pause and resume of
\* _ensure_db_healthy raises, outside of the try block of the message: the task
\* ends, the consumer stops, and nothing starts it again but a new process.
TaskEnds(c) ==
    /\ pc[c] \in {"down", "poll", "health"}
    /\ Fault
    /\ pc' = [pc EXCEPT ![c] = "ended"]
    /\ UNCHANGED <<offsets, todo, work, database, db, history>>

\* The process dies, or stops between two steps.
Crash(c) ==
    /\ pc[c] # "down"
    /\ Fault
    /\ pc' = [pc EXCEPT ![c] = "down"]
    /\ todo' = [todo EXCEPT ![c] = <<>>]
    /\ work' = [work EXCEPT ![c] = NoWork]
    /\ UNCHANGED <<offsets, database, db, history>>

-----------------------------------------------------------------------------
ConsumerStep(c) ==
    \/ Start(c)
    \/ Fetch(c)
    \/ Parse(c)
    \/ StoreRecord(c)
    \/ FindFlight(c)
    \/ MarkLinked(c)
    \/ UpdateSummary(c)
    \/ UpdateRoute(c)
    \/ Commit(c)
    \/ Raises(c)

Next ==
    \/ \E c \in Consumer : \/ \E m \in Parsed \cup {Unparsable} : Produce(c, m)
                           \/ ConsumerStep(c)
                           \/ TaskEnds(c)
                           \/ Crash(c)
    \/ \E f \in Flight : AddFlight(f) \/ DeleteFlight(f)
    \/ DbFails
    \/ DbRecovers

\* The event loop runs the consumer, a process that died is started again, and
\* outages end.  A task that ended is not: there is no fairness that would take
\* a consumer out of "ended".
Fairness ==
    /\ \A c \in Consumer : WF_vars(ConsumerStep(c))
    /\ WF_vars(DbRecovers)

Spec == Init /\ [][Next]_vars

FairSpec == Spec /\ Fairness

-----------------------------------------------------------------------------
(* Properties.                                                             *)

Accounted(c, n) == n \in stored[c] \cup skipped[c] \cup jumped[c]

\* Whatever crashes and redeliveries there were, every offset at or below the
\* committed one was stored, or given up by an exception, or jumped over
\* before the first commit; and so was every one fetched, but the current one.
CommittedIsAccounted ==
    \A c \in Consumer :
        /\ committed[c] # None => (\A n \in 1..committed[c] : Accounted(c, n))
        /\ pc[c] \notin {"down", "ended"} =>
              \A n \in 1..position[c] :
                  Accounted(c, n) \/ (n = position[c] /\ pc[c] # "poll")

Parsable(c, n) == log[c][n] # Unparsable

\* The messages that parse, but were given up.
Lost == {o \in Consumer \X (1..MaxMessages) :
            o[2] \in skipped[o[1]] /\ Parsable(o[1], o[2])}

\* An outage costs at most the one message in hand: the next one waits for
\* the database.  So there are never more messages lost than faults.
FaultCostsOneMessage == Cardinality(Lost) <= faults

\* A summary never counts more records than were linked to its flight,
\* whatever was delivered twice.
NeverOvercounts ==
    \A f \in Flight : flights[f].count <= Cardinality(everLinked[f])

\* A TFMS summary counts every record linked to the flight, but for one that
\* is just being counted, and one for each fault that hit between link and
\* count: what a redelivery links anew is counted anew.
CountIsExact ==
    \A f \in Flight :
        LET counted == flights[f].count
                       + Cardinality({c \in Consumer : work[c].target = f
                                                        /\ pc[c] = "update"})
        IN  Cardinality(everLinked[f]) \in counted..(counted + faults)

\* README.md: first_igtd "is only set once and is not overwritten by later
\* messages".
FirstIgtdKept ==
    [][\A f \in Flight :
          flights[f].first # None => flights'[f].first = flights[f].first]_vars

\* A route kept under a flight's _id is of a record linked to that flight,
\* for TFMS records are linked to one flight only.
RoutesAreLinked ==
    \A f \in Flight :
        routes[f] # None => \E i \in DOMAIN records : /\ records[i].linked = f
                                                      /\ records[i].key = routes[f]

\* Every message is in the end accounted for, as long as the consumer's task
\* has not ended: then the feed stands still until somebody restarts the process.
EveryMessageHandled ==
    \A c \in Consumer, n \in 1..MaxMessages :
        (n <= Len(log[c])) ~> (Accounted(c, n) \/ pc[c] = "ended")

=============================================================================

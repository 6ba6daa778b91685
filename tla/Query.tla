------------------------------- MODULE Query -------------------------------
(***************************************************************************)
(* The query API: which of the documents of a flight number it answers     *)
(* with, while the consumers write them.                                   *)
(*                                                                         *)
(* A snapshot, or a batch of them, is decided from one find.  The lookup   *)
(* of a route makes up to three, with an await at each: the newest flight  *)
(* of the number, the route kept under its _id, and else the route of the  *)
(* number that was updated last.                                           *)
(*                                                                         *)
(* Flight documents are numbered in the order of created_at; updated_at    *)
(* is the number of the write.  What a request is sent for a number is     *)
(* already upper case and free of repetitions.                             *)
(* Source: app/api.py; the writes are those of app/consumer.py and         *)
(* app/tfms_consumer.py.                                                   *)
(***************************************************************************)
EXTENDS Naturals, SequencesExt

CONSTANTS
    Number,      \* flight numbers
    Feeds,       \* the feeds with a summary, in the order of the choice
    Limit,       \* documents looked at for one number, 20 in the code
    MaxFlights,  \* bound: flight documents
    MaxWrites    \* bound: writes

ASSUME QueryAssumption ==
    /\ Number \cap Nat = {}
    /\ IsFiniteSet(Number)
    /\ Feeds \in Seq(STRING) /\ IsInjective(Feeds)
    /\ Limit \in Nat \ {0}
    /\ MaxFlights \in Nat
    /\ MaxWrites \in Nat

VARIABLES
    flights,   \* documents of the flights collection
    routes,    \* flight_routes, by _id
    clock,     \* writes so far
    \* The request for a route:
    step,      \* where it is
    asked,     \* the number it asks for
    found,     \* the flight found for it
    answer,    \* the route it is answered with
    \* History, read by the properties only:
    moments,   \* what a lookup would have found at the moments it took
    during     \* writes since it began, as far as two

collections == <<flights, routes, clock>>
request == <<step, asked, found, answer>>
vars == <<collections, request, moments, during>>

NoFlight == 0

NoRoute == [number |-> "none", updated |-> 0]

Flight == [number  : Number,
           status  : {"active", "deleted"},
           fed     : SUBSET (DOMAIN Feeds),
           updated : 1..MaxWrites]

Route == [number : Number, updated : 1..MaxWrites]

\* The _id of a linked flight; of the flights nothing is linked to, the
\* number, which stands for the airports too.
RouteId == (1..MaxFlights) \cup Number

Step == {"idle", "flight", "own", "any", "done"}

TypeOK ==
    /\ flights \in Seq(Flight)
    /\ Len(flights) <= MaxFlights
    /\ routes \in [RouteId -> Route \cup {NoRoute}]
    /\ clock \in 0..MaxWrites
    /\ step \in Step
    /\ asked \in Number
    /\ found \in {NoFlight} \cup DOMAIN flights
    /\ step = "own" => found # NoFlight
    /\ answer \in Route \cup {NoRoute}
    /\ moments \subseteq Route \cup {NoRoute}
    /\ during \in 0..2

Init ==
    /\ flights = <<>>
    /\ routes = [r \in RouteId |-> NoRoute]
    /\ clock = 0
    /\ step = "idle"
    /\ asked \in Number
    /\ found = NoFlight
    /\ answer = NoRoute
    /\ moments = {}
    /\ during = 0

Active(n) == {i \in DOMAIN flights : /\ flights[i].number = n
                                     /\ flights[i].status = "active"}

-----------------------------------------------------------------------------
(* Snapshots.                                                              *)

Fed(i, k) == k \in flights[i].fed

\* Mutated form of Better: the last feed counts most.
Better_Reversed(i, j) ==
    \/ \E k \in DOMAIN Feeds : /\ Fed(i, k) /\ ~Fed(j, k)
                               /\ \A l \in DOMAIN Feeds \ (1..k) : Fed(i, l) <=> Fed(j, l)
    \/ /\ flights[i].fed = flights[j].fed
       /\ flights[i].updated > flights[j].updated

\* _pick_best_flight: a larger tuple of summaries, updated_at the last of it.
Better(i, j) ==
    \/ \E k \in DOMAIN Feeds : /\ Fed(i, k) /\ ~Fed(j, k)
                               /\ \A l \in 1..(k - 1) : Fed(i, l) <=> Fed(j, l)
    \/ /\ flights[i].fed = flights[j].fed
       /\ flights[i].updated > flights[j].updated

Best(docs) ==
    IF docs = {} THEN NoFlight
    ELSE CHOOSE i \in docs : \A j \in docs \ {i} : Better(i, j)

\* find, sorted by created_at, the newest first, up to a limit.
Newest(docs, limit) ==
    {i \in docs : Cardinality({j \in docs : j > i}) < limit}

\* _resolve_flight
ResolveFlight(n) == Best(Newest(Active(n), Limit))

\* Mutated form of BatchLimit: the limit of one number.
BatchLimit_OfOne(ns) == Limit

BatchLimit(ns) == Limit * Cardinality(ns)

\* get_flights_batch: one find for all, grouped by number.
Batch(ns) ==
    LET docs == Newest(UNION {Active(n) : n \in ns}, BatchLimit(ns))
    IN  [n \in ns |-> Best({i \in docs : flights[i].number = n})]

-----------------------------------------------------------------------------
(* The lookup of a route at one moment, for the properties.                *)

LastUpdated(n) ==
    LET rs == {r \in RouteId : routes[r] # NoRoute /\ routes[r].number = n}
    IN  IF rs = {} THEN NoRoute
        ELSE routes[CHOOSE r \in rs : \A q \in rs : routes[q].updated <= routes[r].updated]

Lookup(n) ==
    LET newest == Newest(Active(n), 1)
    IN  IF \E i \in newest : routes[i] # NoRoute
        THEN routes[CHOOSE i \in newest : TRUE]
        ELSE LastUpdated(n)

-----------------------------------------------------------------------------
(* The consumers.                                                          *)

\* Every write has a later updated_at than those before it; the request in
\* progress, if any, takes note of it.
Write ==
    /\ clock < MaxWrites
    /\ clock' = clock + 1
    /\ UNCHANGED request
    /\ IF step \in {"flight", "own", "any"}
       THEN /\ moments' = moments \cup {Lookup(asked)'}
            /\ during' = IF during < 2 THEN during + 1 ELSE 2
       ELSE UNCHANGED <<moments, during>>

\* TfdmConsumer._upsert: a new flight, a merge, which may change the number,
\* or a deletion.
InsertFlight(n) ==
    /\ Len(flights) < MaxFlights
    /\ flights' = Append(flights, [number |-> n, status |-> "active", fed |-> {},
                                   updated |-> clock + 1])
    /\ UNCHANGED routes
    /\ Write

MergeFlight(i, n) ==
    /\ flights[i].status = "active"
    /\ flights' = [flights EXCEPT ![i].number = n, ![i].updated = clock + 1]
    /\ UNCHANGED routes
    /\ Write

DeleteFlight(i) ==
    /\ flights[i].status = "active"
    /\ flights' = [flights EXCEPT ![i].status = "deleted", ![i].updated = clock + 1]
    /\ UNCHANGED routes
    /\ Write

\* _update_flight_tfms and its like: by _id, whatever the status is by now.
UpdateSummary(i, k) ==
    /\ flights' = [flights EXCEPT ![i].fed = @ \cup {k}, ![i].updated = clock + 1]
    /\ UNCHANGED routes
    /\ Write

\* TfmsConsumer._update_route: under the _id of the linked flight, which was
\* found by other keys than its number, or under the number itself.
StoreRoute(r, n) ==
    /\ r \in DOMAIN flights \/ r = n
    /\ routes' = [routes EXCEPT ![r] = [number |-> n, updated |-> clock + 1]]
    /\ UNCHANGED flights
    /\ Write

-----------------------------------------------------------------------------
(* get_flight_route.                                                       *)

AskRoute(n) ==
    /\ step = "idle"
    /\ step' = "flight"
    /\ asked' = n
    /\ moments' = {Lookup(n)}
    /\ during' = 0
    /\ UNCHANGED <<collections, found, answer>>

FindFlight ==
    /\ step = "flight"
    /\ LET newest == Newest(Active(asked), 1)
       IN  \/ newest = {} /\ step' = "any" /\ UNCHANGED found
           \/ found' \in newest /\ step' = "own"
    /\ UNCHANGED <<collections, asked, answer, moments, during>>

\* Mutated form of FindOwnRoute: without a route of its own, none.
FindOwnRoute_Only ==
    /\ step = "own"
    /\ answer' = routes[found]
    /\ step' = "done"
    /\ UNCHANGED <<collections, asked, found, moments, during>>

FindOwnRoute ==
    /\ step = "own"
    /\ \/ /\ routes[found] # NoRoute
          /\ answer' = routes[found]
          /\ step' = "done"
       \/ /\ routes[found] = NoRoute
          /\ step' = "any"
          /\ UNCHANGED answer
    /\ UNCHANGED <<collections, asked, found, moments, during>>

FindAnyRoute ==
    /\ step = "any"
    /\ answer' = LastUpdated(asked)
    /\ step' = "done"
    /\ UNCHANGED <<collections, asked, found, moments, during>>

\* The answer is sent, or 404, or a find raised.
Done ==
    /\ step # "idle"
    /\ step' = "idle"
    /\ found' = NoFlight
    /\ answer' = NoRoute
    /\ moments' = {}
    /\ during' = 0
    /\ UNCHANGED <<collections, asked>>

-----------------------------------------------------------------------------
Next ==
    \/ \E n \in Number : InsertFlight(n) \/ AskRoute(n)
    \/ \E i \in DOMAIN flights : \/ \E n \in Number : MergeFlight(i, n)
                                 \/ DeleteFlight(i)
                                 \/ \E k \in DOMAIN Feeds : UpdateSummary(i, k)
    \/ \E r \in RouteId, n \in Number : StoreRoute(r, n)
    \/ FindFlight
    \/ FindOwnRoute
    \/ FindAnyRoute
    \/ Done

Spec == Init /\ [][Next]_vars

-----------------------------------------------------------------------------
(* Properties.                                                             *)

Crowded(n) == Cardinality(Active(n)) > Limit

\* README.md: a batch has "a current TFDM snapshot for each" number, "or null
\* if not found".  It says what the single queries would say as long as no
\* number has more documents than the limit; beyond it a number can be left
\* out only when another one crowds it out, never by its own documents.
BatchAgrees ==
    \A ns \in (SUBSET Number) \ {{}} :
        /\ (\A n \in ns : ~Crowded(n)) =>
               \A n \in ns : Batch(ns)[n] = ResolveFlight(n)
        /\ \A n \in ns :
               Batch(ns)[n] = NoFlight /\ Active(n) # {} =>
                   \E m \in ns \ {n} : Crowded(m)

\* The three finds of a route lookup act as one: its answer is what a lookup
\* at one of the moments it took would have found, unless two writes or more
\* fell between its finds.
AnswerOfAMoment ==
    step = "done" /\ during < 2 => answer \in moments

\* _pick_best_flight is the choice feed by feed: of the documents, those with
\* a TFMS summary if there are any, of these those with a TBFM summary, and so
\* on, and of what is left the one updated last.
PickIsFeedByFeed ==
    \A docs \in (SUBSET DOMAIN flights) \ {{}} :
        LET With(left, feed) == {i \in left : \E k \in flights[i].fed : Feeds[k] = feed}
            Sieve(left, feed) == IF With(left, feed) = {} THEN left ELSE With(left, feed)
            left == FoldLeft(Sieve, docs, Feeds)
        IN  /\ Best(docs) \in left
            /\ \A i \in left : flights[i].updated <= flights[Best(docs)].updated

=============================================================================

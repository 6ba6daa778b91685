---------------------------- MODULE QueryProofs ----------------------------
(***************************************************************************)
(* Proofs about Query, for any flight numbers, feeds, limit and bounds.    *)
(*                                                                         *)
(* A lookup of a route: what it may still answer with is among the routes  *)
(* noted (Noted), which needs that no two routes have the same date        *)
(* (RoutesDated).  A batch: no two flights have the same date              *)
(* (FlightsDated), so of any documents one is the best, and numbers that   *)
(* are not crowded have room for all their documents (RoomForAll).  The    *)
(* choice feed by feed: after each feed the best document is left, with    *)
(* those that have the same summaries so far (AsBest).                     *)
(*                                                                         *)
(* Induction goes by least counterexamples: LeastNatural.                  *)
(***************************************************************************)
EXTENDS Query, FiniteSetTheorems, TLAPS

-----------------------------------------------------------------------------
(* Least elements, and the newest documents.                               *)

LEMMA LeastNatural ==
    ASSUME NEW T, T \subseteq Nat, T # {}
    PROVE  \E m \in T : \A t \in T : m <= t
<1>1. PICK m \in T : \A t \in T : ~ (<<t, m>> \in OpToRel(<, Nat))
  BY NatLessThanWellFounded, WFMin
<1>2. \A t \in T : ~(t < m)
  BY <1>1 DEF OpToRel
<1> QED BY <1>2

\* A set of numbers below a bound has a greatest element.
LEMMA GreatestNatural ==
    ASSUME NEW T, NEW b \in Nat, T \subseteq 0..b, T # {}
    PROVE  \E m \in T : \A t \in T : t <= m
<1> DEFINE Below == {b - t : t \in T}
<1>1. \A t \in T : t \in Nat /\ t <= b /\ b - t \in Nat
  OBVIOUS
<1>2. Below \subseteq Nat /\ Below # {}
  BY <1>1
<1>3. \E l \in Below : \A k \in Below : l <= k
  <2> HIDE DEF Below
  <2> QED BY <1>2, LeastNatural
<1>4. PICK m \in T : \A t \in T : b - m <= b - t
  BY <1>3
<1> QED BY <1>1, <1>4

\* With a limit of one there is one newest document, or there is none.
LEMMA OneNewest ==
    ASSUME NEW docs, IsFiniteSet(docs), docs \subseteq Nat,
           NEW i \in Newest(docs, 1), NEW j \in Newest(docs, 1)
    PROVE  i = j
<1> SUFFICES ASSUME NEW k \in Newest(docs, 1), NEW l \in docs, l > k PROVE FALSE
  BY DEF Newest
<1> DEFINE Later == {d \in docs : d > k}
<1>1. IsFiniteSet(Later) /\ Cardinality(Later) < 1
  BY FS_Subset DEF Newest
<1>2. Later = {}
  <2>1. Cardinality(Later) \in Nat
    BY <1>1, FS_CardinalityType
  <2> QED BY <1>1, <2>1, FS_EmptySet
<1> QED BY <1>2

-----------------------------------------------------------------------------
(* The lookup of a route, as a function of the two collections.            *)

ActiveIn(fs, n) == {i \in DOMAIN fs : fs[i].number = n /\ fs[i].status = "active"}

LastIn(rts, n) ==
    LET rs == {r \in RouteId : rts[r] # NoRoute /\ rts[r].number = n}
    IN  IF rs = {} THEN NoRoute
        ELSE rts[CHOOSE r \in rs : \A q \in rs : rts[q].updated <= rts[r].updated]

LookupIn(fs, rts, n) ==
    IF \E i \in Newest(ActiveIn(fs, n), 1) : rts[i] # NoRoute
    THEN rts[CHOOSE i \in Newest(ActiveIn(fs, n), 1) : TRUE]
    ELSE LastIn(rts, n)

Routes == [RouteId -> Route \cup {NoRoute}]

FlightSeq == {fs \in Seq(Flight) : Len(fs) <= MaxFlights}

LEMMA AsFunctions ==
    ASSUME NEW n
    PROVE  /\ Active(n) = ActiveIn(flights, n)
           /\ LastUpdated(n) = LastIn(routes, n)
           /\ Lookup(n) = LookupIn(flights, routes, n)
BY DEF Active, ActiveIn, LastUpdated, LastIn, Lookup, LookupIn

LEMMA AsFunctionsOfAsked ==
    /\ Active(asked)' = ActiveIn(flights', asked')
    /\ LastUpdated(asked)' = LastIn(routes', asked')
    /\ Lookup(asked)' = LookupIn(flights', routes', asked')
BY DEF Active, ActiveIn, LastUpdated, LastIn, Lookup, LookupIn

LEMMA ActiveTypes ==
    ASSUME NEW fs \in FlightSeq, NEW n
    PROVE  /\ ActiveIn(fs, n) \subseteq DOMAIN fs
           /\ DOMAIN fs \subseteq 1..MaxFlights /\ DOMAIN fs = 1..Len(fs)
           /\ IsFiniteSet(ActiveIn(fs, n))
<1>1. /\ ActiveIn(fs, n) \subseteq DOMAIN fs
      /\ DOMAIN fs \subseteq 1..MaxFlights /\ DOMAIN fs = 1..Len(fs)
  BY QueryAssumption DEF ActiveIn, FlightSeq
<1>2. IsFiniteSet(1..MaxFlights)
  BY QueryAssumption, FS_Interval
<1> QED BY <1>1, <1>2, FS_Subset

LEMMA RouteFields ==
    ASSUME NEW r \in Route
    PROVE  /\ r.number \in Number /\ r.updated \in 1..MaxWrites /\ r # NoRoute
           /\ r.updated \in Nat
BY QueryAssumption DEF Route, NoRoute

\* Dates have a bound: one of the routes of a number is the last.
LEMMA LastExists ==
    ASSUME NEW rts \in Routes, NEW n,
           NEW p \in RouteId, rts[p] # NoRoute, rts[p].number = n
    PROVE  \E r \in RouteId : /\ rts[r] # NoRoute /\ rts[r].number = n
                              /\ \A q \in RouteId : rts[q] # NoRoute /\ rts[q].number = n =>
                                    rts[q].updated <= rts[r].updated
<1> DEFINE rs == {r \in RouteId : rts[r] # NoRoute /\ rts[r].number = n}
           dates == {rts[r].updated : r \in rs}
<1>1. \A r \in rs : rts[r].updated \in 0..MaxWrites
  BY QueryAssumption DEF Routes, Route
<1>2. p \in rs
  OBVIOUS
<1>3. dates \subseteq 0..MaxWrites /\ dates # {}
  <2> HIDE DEF rs
  <2> QED BY <1>1, <1>2
<1>4. \E d \in dates : \A e \in dates : e <= d
  <2> HIDE DEF dates
  <2> QED BY <1>3, GreatestNatural, QueryAssumption
<1>5. PICK r \in rs : \A q \in rs : rts[q].updated <= rts[r].updated
  BY <1>4
<1> QED BY <1>5

LEMMA LastType ==
    ASSUME NEW rts \in Routes, NEW n
    PROVE  LastIn(rts, n) \in Route \cup {NoRoute}
<1> DEFINE rs == {r \in RouteId : rts[r] # NoRoute /\ rts[r].number = n}
<1>1. CASE rs = {}
  BY <1>1 DEF LastIn
<1>2. CASE rs # {}
  <2>1. \E r \in rs : \A q \in rs : rts[q].updated <= rts[r].updated
    BY <1>2, LastExists
  <2>2. \A r \in rs : rts[r] \in Route
    BY DEF Routes
  <2> QED BY <1>2, <2>1, <2>2 DEF LastIn
<1> QED BY <1>1, <1>2

LEMMA LookupType ==
    ASSUME NEW fs \in FlightSeq, NEW rts \in Routes, NEW n
    PROVE  LookupIn(fs, rts, n) \in Route \cup {NoRoute}
<1>1. Newest(ActiveIn(fs, n), 1) \subseteq RouteId
  BY ActiveTypes DEF Newest, RouteId
<1> QED BY <1>1, LastType DEF LookupIn, Routes

\* With a newest flight the lookup finds its route, if it has one.
LEMMA LookupByFlight ==
    ASSUME NEW fs \in FlightSeq, NEW rts \in Routes, NEW n,
           NEW i \in Newest(ActiveIn(fs, n), 1)
    PROVE  LookupIn(fs, rts, n) = IF rts[i] # NoRoute THEN rts[i] ELSE LastIn(rts, n)
<1>1. Newest(ActiveIn(fs, n), 1) = {i}
  BY ActiveTypes, OneNewest, QueryAssumption
<1> QED BY <1>1 DEF LookupIn

\* Without a route of its own, the route of the number.
LEMMA LookupByNumber ==
    ASSUME NEW fs, NEW rts, NEW n,
           \A i \in Newest(ActiveIn(fs, n), 1) : rts[i] = NoRoute
    PROVE  LookupIn(fs, rts, n) = LastIn(rts, n)
BY DEF LookupIn

-----------------------------------------------------------------------------
(* Types.                                                                  *)

LEMMA FlightFields ==
    ASSUME NEW fs \in FlightSeq, NEW i \in DOMAIN fs
    PROVE  /\ fs[i] \in Flight
           /\ i \in 1..Len(fs) /\ i \in 1..MaxFlights /\ Len(fs) \in Nat
BY QueryAssumption DEF FlightSeq

LEMMA InitTypes == Init => TypeOK
BY QueryAssumption DEF Init, TypeOK, Step, NoFlight, RouteId

LEMMA Bounds == TypeOK => /\ flights \in FlightSeq /\ routes \in Routes
                          /\ clock \in Nat /\ (clock < MaxWrites => clock + 1 \in 1..MaxWrites)
BY QueryAssumption DEF TypeOK, FlightSeq, Routes

\* The writes leave the request alone, but for what it notes.
LEMMA WriteTypes ==
    ASSUME TypeOK, Write, flights' \in FlightSeq, routes' \in Routes,
           DOMAIN flights \subseteq DOMAIN flights'
    PROVE  TypeOK'
<1>1. /\ clock' \in 0..MaxWrites /\ step' \in Step /\ asked' \in Number
      /\ found' \in {NoFlight} \cup DOMAIN flights'
      /\ step' = "own" => found' # NoFlight
      /\ answer' \in Route \cup {NoRoute}
  BY Bounds, QueryAssumption DEF TypeOK, Write, request
<1>2. Lookup(asked)' \in Route \cup {NoRoute}
  BY AsFunctionsOfAsked, LookupType
<1>3. moments' \subseteq Route \cup {NoRoute} /\ during' \in 0..2
  BY <1>2 DEF TypeOK, Write
<1> QED BY <1>1, <1>3 DEF TypeOK, FlightSeq, Routes

LEMMA InsertFlightTypes ==
    ASSUME TypeOK, NEW n \in Number, InsertFlight(n)
    PROVE  TypeOK'
<1> DEFINE new == [number |-> n, status |-> "active", fed |-> {}, updated |-> clock + 1]
<1>1. new \in Flight
  BY Bounds DEF Flight, InsertFlight, Write
<1>2. flights \in Seq(Flight) /\ flights' = Append(flights, new) /\ Len(flights) < MaxFlights
  BY DEF InsertFlight, TypeOK
<1> HIDE DEF new
<1>3. flights' \in FlightSeq /\ DOMAIN flights \subseteq DOMAIN flights'
  BY <1>1, <1>2, QueryAssumption DEF FlightSeq
<1> QED BY <1>3, Bounds, WriteTypes DEF InsertFlight

\* The writes that change one document, at the date of the write.
Rewrites(i) ==
    \E d \in Flight : d.updated = clock + 1 /\ flights' = [flights EXCEPT ![i] = d]

LEMMA RewriteFacts ==
    ASSUME TypeOK, NEW i \in DOMAIN flights, Rewrites(i)
    PROVE  /\ flights' \in FlightSeq /\ DOMAIN flights' = DOMAIN flights
           /\ flights'[i].updated = clock + 1
           /\ \A j \in DOMAIN flights : j # i => flights'[j] = flights[j]
<1>1. PICK d \in Flight : d.updated = clock + 1 /\ flights' = [flights EXCEPT ![i] = d]
  BY DEF Rewrites
<1> QED BY <1>1, Bounds DEF FlightSeq

LEMMA MergeFlightRewrites ==
    ASSUME TypeOK, NEW i \in DOMAIN flights, NEW n \in Number, MergeFlight(i, n)
    PROVE  Rewrites(i)
<1> DEFINE d == [flights[i] EXCEPT !.number = n, !.updated = clock + 1]
<1>1. flights' = [flights EXCEPT ![i] = d]
  BY Bounds, FlightFields DEF MergeFlight, FlightSeq, Flight
<1>2. d \in Flight /\ d.updated = clock + 1
  BY Bounds, FlightFields DEF MergeFlight, Flight, Write
<1> QED BY <1>1, <1>2 DEF Rewrites

LEMMA DeleteFlightRewrites ==
    ASSUME TypeOK, NEW i \in DOMAIN flights, DeleteFlight(i)
    PROVE  Rewrites(i)
<1> DEFINE d == [flights[i] EXCEPT !.status = "deleted", !.updated = clock + 1]
<1>1. flights' = [flights EXCEPT ![i] = d]
  BY Bounds, FlightFields DEF DeleteFlight, FlightSeq, Flight
<1>2. d \in Flight /\ d.updated = clock + 1
  BY Bounds, FlightFields DEF DeleteFlight, Flight, Write
<1> QED BY <1>1, <1>2 DEF Rewrites

LEMMA UpdateSummaryRewrites ==
    ASSUME TypeOK, NEW i \in DOMAIN flights, NEW k \in DOMAIN Feeds, UpdateSummary(i, k)
    PROVE  Rewrites(i)
<1> DEFINE d == [flights[i] EXCEPT !.fed = @ \cup {k}, !.updated = clock + 1]
<1>1. flights' = [flights EXCEPT ![i] = d]
  BY Bounds, FlightFields DEF UpdateSummary, FlightSeq, Flight
<1>2. d \in Flight /\ d.updated = clock + 1
  BY Bounds, FlightFields DEF UpdateSummary, Flight, Write
<1> QED BY <1>1, <1>2 DEF Rewrites

LEMMA RewriteTypes ==
    ASSUME TypeOK, NEW i \in DOMAIN flights, Rewrites(i), Write, UNCHANGED routes
    PROVE  TypeOK'
BY Bounds, RewriteFacts, WriteTypes

LEMMA StoreRouteTypes ==
    ASSUME TypeOK, NEW r \in RouteId, NEW n \in Number, StoreRoute(r, n)
    PROVE  TypeOK'
<1>1. [number |-> n, updated |-> clock + 1] \in Route
  BY Bounds DEF StoreRoute, Write, Route
<1>2. routes' \in Routes
  BY <1>1, Bounds DEF StoreRoute, Routes
<1> QED BY <1>2, Bounds, WriteTypes DEF StoreRoute

LEMMA NextTypes == TypeOK /\ [Next]_vars => TypeOK'
<1> SUFFICES ASSUME TypeOK, [Next]_vars PROVE TypeOK'
  OBVIOUS
<1>1. ASSUME NEW n \in Number, InsertFlight(n) PROVE TypeOK'
  BY <1>1, InsertFlightTypes
<1>2. ASSUME NEW n \in Number, AskRoute(n) PROVE TypeOK'
  <2>1. Lookup(n) \in Route \cup {NoRoute}
    BY Bounds, AsFunctions, LookupType
  <2> QED BY <1>2, <2>1 DEF AskRoute, TypeOK, Step, collections
<1>3. ASSUME NEW i \in DOMAIN flights, NEW n \in Number, MergeFlight(i, n) PROVE TypeOK'
  BY <1>3, MergeFlightRewrites, RewriteTypes DEF MergeFlight
<1>4. ASSUME NEW i \in DOMAIN flights, DeleteFlight(i) PROVE TypeOK'
  BY <1>4, DeleteFlightRewrites, RewriteTypes DEF DeleteFlight
<1>5. ASSUME NEW i \in DOMAIN flights, NEW k \in DOMAIN Feeds, UpdateSummary(i, k) PROVE TypeOK'
  BY <1>5, UpdateSummaryRewrites, RewriteTypes DEF UpdateSummary
<1>6. ASSUME NEW r \in RouteId, NEW n \in Number, StoreRoute(r, n) PROVE TypeOK'
  BY <1>6, StoreRouteTypes
<1>7. CASE FindFlight
  <2>1. Newest(Active(asked), 1) \subseteq DOMAIN flights
    BY Bounds, AsFunctions, ActiveTypes DEF Newest
  <2>2. DOMAIN flights \subseteq 1..MaxFlights
    BY Bounds, ActiveTypes
  <2>3. NoFlight \notin DOMAIN flights
    BY <2>2, QueryAssumption DEF NoFlight
  <2> QED BY <1>7, <2>1, <2>3 DEF FindFlight, TypeOK, Step, collections
<1>8. CASE FindOwnRoute
  <2>1. routes[found] \in Route \cup {NoRoute}
    BY <1>8, Bounds, ActiveTypes DEF FindOwnRoute, TypeOK, RouteId
  <2> QED BY <1>8, <2>1 DEF FindOwnRoute, TypeOK, Step, collections
<1>9. CASE FindAnyRoute
  <2>1. LastUpdated(asked) \in Route \cup {NoRoute}
    BY Bounds, AsFunctions, LastType
  <2> QED BY <1>9, <2>1 DEF FindAnyRoute, TypeOK, Step, collections
<1>10. CASE Done
  BY <1>10 DEF Done, TypeOK, Step, collections
<1>11. CASE UNCHANGED vars
  BY <1>11 DEF vars, collections, request, TypeOK
<1> QED BY <1>1, <1>2, <1>3, <1>4, <1>5, <1>6, <1>7, <1>8, <1>9, <1>10, <1>11 DEF Next

\* Types hold for any flight numbers, feeds, limit and bounds.
THEOREM TypeCorrect == Spec => []TypeOK
BY InitTypes, NextTypes, PTL DEF Spec

-----------------------------------------------------------------------------
(* The lookup of a route.                                                  *)

\* Every write has a date of its own.
RoutesDated ==
    /\ \A r \in RouteId : routes[r] # NoRoute => routes[r].updated <= clock
    /\ \A r, q \in RouteId :
          routes[r] # NoRoute /\ routes[q] # NoRoute /\ r # q =>
             routes[r].updated # routes[q].updated

Distinct(rts) ==
    \A r, q \in RouteId :
       rts[r] # NoRoute /\ rts[q] # NoRoute /\ r # q => rts[r].updated # rts[q].updated

LEMMA RoutesDatedInit == Init => RoutesDated
BY DEF Init, RoutesDated

LEMMA RoutesDatedNext == TypeOK /\ RoutesDated /\ [Next]_vars => RoutesDated'
<1> SUFFICES ASSUME TypeOK, RoutesDated, [Next]_vars PROVE RoutesDated'
  OBVIOUS
<1>1. ASSUME UNCHANGED <<routes, clock>> PROVE RoutesDated'
  BY <1>1 DEF RoutesDated
<1>2. ASSUME UNCHANGED routes, Write PROVE RoutesDated'
  <2>1. \A r \in RouteId : routes[r] # NoRoute => routes[r].updated \in Nat
    BY Bounds, RouteFields DEF Routes
  <2> QED BY <1>2, <2>1, Bounds DEF RoutesDated, Write
<1>3. ASSUME NEW r \in RouteId, NEW n \in Number, StoreRoute(r, n) PROVE RoutesDated'
  <2>1. \A q \in RouteId : routes[q] # NoRoute => routes[q].updated \in Nat
    BY Bounds, RouteFields DEF Routes
  <2>2. /\ routes'[r].updated = clock + 1 /\ clock' = clock + 1
        /\ \A q \in RouteId : q # r => routes'[q] = routes[q]
    BY <1>3, Bounds DEF StoreRoute, Write, Routes
  <2> QED BY <2>1, <2>2, Bounds DEF RoutesDated
<1> QED
  BY <1>1, <1>2, <1>3 DEF Next, InsertFlight, AskRoute, MergeFlight, DeleteFlight,
     UpdateSummary, FindFlight, FindOwnRoute, FindAnyRoute, Done, collections, request, vars

\* The route updated last is the only one of its date.
LEMMA LastIs ==
    ASSUME NEW rts \in Routes, Distinct(rts), NEW n,
           NEW r \in RouteId, rts[r] # NoRoute, rts[r].number = n,
           \A q \in RouteId : rts[q] # NoRoute /\ rts[q].number = n =>
              rts[q].updated <= rts[r].updated
    PROVE  LastIn(rts, n) = rts[r]
<1> DEFINE rs == {q \in RouteId : rts[q] # NoRoute /\ rts[q].number = n}
           Latest(p) == \A q \in rs : rts[q].updated <= rts[p].updated
<1>1. r \in rs /\ Latest(r)
  OBVIOUS
<1>2. ASSUME NEW p \in rs, Latest(p) PROVE p = r
  <2>1. rts[p].updated \in Nat /\ rts[r].updated \in Nat
    BY RouteFields DEF Routes
  <2>2. rts[p].updated = rts[r].updated
    BY <1>1, <1>2, <2>1
  <2> QED BY <2>2 DEF Distinct
<1>3. (CHOOSE p \in rs : Latest(p)) = r
  <2> HIDE DEF rs, Latest
  <2> QED BY <1>1, <1>2
<1> QED BY <1>1, <1>3 DEF LastIn

\* A route of another number, stored where none was, does not show.
LEMMA LastOfOthers ==
    ASSUME NEW old \in Routes, NEW new \in Routes, Distinct(old), Distinct(new), NEW n,
           NEW r \in RouteId, old[r] = NoRoute, new[r] # NoRoute, new[r].number # n,
           \A q \in RouteId : q # r => new[q] = old[q]
    PROVE  LastIn(new, n) = LastIn(old, n)
<1>1. CASE \A q \in RouteId : old[q] = NoRoute \/ old[q].number # n
  <2>1. \A q \in RouteId : new[q] = NoRoute \/ new[q].number # n
    BY <1>1
  <2>2. /\ {q \in RouteId : old[q] # NoRoute /\ old[q].number = n} = {}
        /\ {q \in RouteId : new[q] # NoRoute /\ new[q].number = n} = {}
    BY <1>1, <2>1
  <2> QED BY <2>2 DEF LastIn
<1>2. CASE \E q \in RouteId : old[q] # NoRoute /\ old[q].number = n
  <2>1. PICK l \in RouteId :
           /\ old[l] # NoRoute /\ old[l].number = n
           /\ \A q \in RouteId : old[q] # NoRoute /\ old[q].number = n =>
                 old[q].updated <= old[l].updated
    BY <1>2, LastExists
  <2>2. LastIn(old, n) = old[l]
    BY <2>1, LastIs
  <2>3. new[l] = old[l]
    BY <2>1
  <2>4. \A q \in RouteId : new[q] # NoRoute /\ new[q].number = n =>
           new[q].updated <= new[l].updated
    BY <2>1, <2>3
  <2>5. LastIn(new, n) = new[l]
    BY <2>1, <2>3, <2>4, LastIs
  <2> QED BY <2>2, <2>3, <2>5
<1> QED BY <1>1, <1>2

OwnIn(rts, f, n) == IF rts[f] # NoRoute THEN rts[f] ELSE LastIn(rts, n)

\* What the request may still answer with is noted, as long as no more than
\* one write fell between its finds.  Without a write the flight it holds is
\* the newest still, and none of the newest has a route it has not seen.
Noted ==
    /\ step \in {"flight", "own", "any"} => Lookup(asked) \in moments
    /\ step = "own" /\ during = 0 => found \in Newest(Active(asked), 1)
    /\ step = "own" /\ during < 2 => OwnIn(routes, found, asked) \in moments
    /\ step = "any" /\ during = 0 =>
          \A i \in Newest(Active(asked), 1) : routes[i] = NoRoute
    /\ step = "any" /\ during < 2 => LastUpdated(asked) \in moments
    /\ AnswerOfAMoment

LEMMA NotedInit == Init => Noted
BY DEF Init, Noted, AnswerOfAMoment

\* A write of a flight: what the routes say is as it was.
LEMMA FlightWriteNoted ==
    ASSUME TypeOK, Noted, Write, UNCHANGED routes
    PROVE  Noted'
<1>1. /\ UNCHANGED <<step, asked, found, answer>>
      /\ step \in {"flight", "own", "any"} =>
            /\ moments' = moments \cup {Lookup(asked)'}
            /\ during' # 0 /\ (during' < 2 => during < 2)
      /\ step \notin {"flight", "own", "any"} => UNCHANGED <<moments, during>>
  BY DEF TypeOK, Write, request
<1>2. /\ LastUpdated(asked)' = LastUpdated(asked)
      /\ OwnIn(routes, found, asked)' = OwnIn(routes, found, asked)
  BY <1>1, AsFunctions, AsFunctionsOfAsked
<1>3. AnswerOfAMoment'
  BY <1>1 DEF Noted, AnswerOfAMoment
<1> QED BY <1>1, <1>2, <1>3 DEF Noted

\* A write of a route: the newest flight is as it was.
LEMMA StoreRouteNoted ==
    ASSUME TypeOK, TypeOK', RoutesDated, RoutesDated', Noted,
           NEW r \in RouteId, NEW n \in Number, StoreRoute(r, n)
    PROVE  Noted'
<1> DEFINE newest == Newest(ActiveIn(flights, asked), 1)
<1>1. /\ UNCHANGED <<step, asked, found, answer, flights>>
      /\ step \in {"flight", "own", "any"} =>
            /\ moments' = moments \cup {Lookup(asked)'}
            /\ during' # 0 /\ (during' < 2 => during = 0)
      /\ step \notin {"flight", "own", "any"} => UNCHANGED <<moments, during>>
  BY DEF TypeOK, StoreRoute, Write, request
<1>2. /\ flights' \in FlightSeq /\ routes' \in Routes /\ routes \in Routes
      /\ Distinct(routes) /\ Distinct(routes')
      /\ \A q \in RouteId : routes[q] # NoRoute => routes[q].updated <= clock
  <2>1. flights' \in FlightSeq /\ routes' \in Routes
    BY DEF TypeOK, FlightSeq, Routes
  <2> QED BY <2>1, Bounds DEF RoutesDated, Distinct
<1>3. /\ Active(asked) = ActiveIn(flights', asked')
      /\ LastUpdated(asked)' = LastIn(routes', asked') /\ LastUpdated(asked) = LastIn(routes, asked)
      /\ Lookup(asked)' = LookupIn(flights', routes', asked')
      /\ OwnIn(routes, found, asked)' = OwnIn(routes', found', asked')
  BY <1>1, AsFunctions, AsFunctionsOfAsked
<1>4. ASSUME step = "own", during = 0 PROVE OwnIn(routes, found, asked)' \in moments'
  <2>1. found' \in Newest(ActiveIn(flights', asked'), 1)
    BY <1>1, <1>3, <1>4 DEF Noted
  <2>2. Lookup(asked)' = OwnIn(routes', found', asked')
    BY <1>2, <1>3, <2>1, LookupByFlight DEF OwnIn
  <2> QED BY <1>1, <1>3, <1>4, <2>2
<1>5. ASSUME step = "any", during = 0 PROVE LastUpdated(asked)' \in moments'
  <2> DEFINE new == [number |-> n, updated |-> clock + 1]
  <2>1. /\ \A i \in Newest(ActiveIn(flights', asked'), 1) : routes[i] = NoRoute
        /\ LastUpdated(asked) \in moments
    BY <1>1, <1>3, <1>5 DEF Noted
  <2>2. /\ routes'[r] = new /\ \A q \in RouteId : q # r => routes'[q] = routes[q]
        /\ new # NoRoute /\ new.number = n /\ new.updated = clock + 1
    BY <1>2, Bounds, QueryAssumption DEF StoreRoute, Routes, NoRoute
  <2> HIDE DEF new
  <2>3. Newest(ActiveIn(flights', asked'), 1) \subseteq RouteId
    BY <1>2, ActiveTypes DEF Newest, RouteId
  <2>4. CASE r \notin Newest(ActiveIn(flights', asked'), 1)
    <3>1. Lookup(asked)' = LastIn(routes', asked')
      BY <1>3, <2>1, <2>2, <2>3, <2>4, LookupByNumber
    <3> QED BY <1>1, <1>3, <1>5, <3>1
  <2>5. CASE r \in Newest(ActiveIn(flights', asked'), 1) /\ n = asked
    <3>1. Lookup(asked)' = new
      BY <1>2, <1>3, <2>2, <2>5, LookupByFlight
    <3>2. \A q \in RouteId : routes'[q] # NoRoute => routes'[q].updated <= clock + 1
      <4>1. \A q \in RouteId : routes[q] # NoRoute => routes[q].updated \in Nat
        BY <1>2, RouteFields DEF Routes
      <4> QED BY <1>2, <2>2, <4>1, Bounds
    <3>3. LastIn(routes', asked') = new
      BY <1>1, <1>2, <2>2, <2>5, <3>2, LastIs
    <3> QED BY <1>1, <1>3, <1>5, <3>1, <3>3
  <2>6. CASE r \in Newest(ActiveIn(flights', asked'), 1) /\ n # asked
    <3>1. LastIn(routes', asked) = LastIn(routes, asked)
      BY <1>2, <2>1, <2>2, <2>6, LastOfOthers
    <3> QED BY <1>1, <1>3, <1>5, <2>1, <3>1
  <2> QED BY <2>4, <2>5, <2>6
<1>6. AnswerOfAMoment'
  BY <1>1 DEF Noted, AnswerOfAMoment
<1> QED BY <1>1, <1>4, <1>5, <1>6 DEF Noted

LEMMA AskRouteNoted ==
    ASSUME NEW n \in Number, AskRoute(n)
    PROVE  Noted'
<1>1. Lookup(asked)' = Lookup(n)
  BY AsFunctions, AsFunctionsOfAsked DEF AskRoute, collections
<1> QED BY <1>1 DEF AskRoute, Noted, AnswerOfAMoment

\* The finds of the request change none of what they read.
LEMMA FindsRead ==
    ASSUME UNCHANGED <<collections, asked>>
    PROVE  /\ Active(asked)' = Active(asked) /\ Lookup(asked)' = Lookup(asked)
           /\ LastUpdated(asked)' = LastUpdated(asked)
BY AsFunctions, AsFunctionsOfAsked DEF collections

LEMMA FindFlightNoted ==
    ASSUME TypeOK, Noted, FindFlight
    PROVE  Noted'
<1>1. /\ UNCHANGED <<routes, asked, moments, during>> /\ step = "flight"
      /\ Active(asked)' = Active(asked) /\ Lookup(asked)' = Lookup(asked)
      /\ LastUpdated(asked)' = LastUpdated(asked)
      /\ Lookup(asked) \in moments
  BY FindsRead DEF FindFlight, collections, Noted
<1>2. CASE Newest(Active(asked), 1) = {} /\ step' = "any" /\ UNCHANGED found
  <2>1. Lookup(asked) = LastUpdated(asked)
    BY <1>2, AsFunctions, LookupByNumber
  <2> QED BY <1>1, <1>2, <2>1 DEF Noted, AnswerOfAMoment
<1>3. CASE found' \in Newest(Active(asked), 1) /\ step' = "own"
  <2>1. Lookup(asked) = OwnIn(routes, found', asked)
    BY <1>3, Bounds, AsFunctions, LookupByFlight DEF OwnIn
  <2> QED BY <1>1, <1>3, <2>1 DEF Noted, AnswerOfAMoment
<1> QED BY <1>2, <1>3 DEF FindFlight

LEMMA FindOwnRouteNoted ==
    ASSUME TypeOK, Noted, FindOwnRoute
    PROVE  Noted'
<1>1. /\ UNCHANGED <<routes, asked, found, moments, during>> /\ step = "own"
      /\ Active(asked)' = Active(asked) /\ Lookup(asked)' = Lookup(asked)
      /\ LastUpdated(asked)' = LastUpdated(asked)
      /\ Lookup(asked) \in moments
      /\ during < 2 => OwnIn(routes, found, asked) \in moments
  BY FindsRead DEF FindOwnRoute, collections, Noted
<1>2. CASE routes[found] # NoRoute /\ answer' = routes[found] /\ step' = "done"
  BY <1>1, <1>2 DEF Noted, AnswerOfAMoment, OwnIn
<1>3. CASE routes[found] = NoRoute /\ step' = "any"
  <2>1. during = 0 => \A i \in Newest(Active(asked), 1) : i = found
    BY <1>1, Bounds, AsFunctions, ActiveTypes, OneNewest, QueryAssumption DEF Noted
  <2>2. OwnIn(routes, found, asked) = LastUpdated(asked)
    BY <1>3, AsFunctions DEF OwnIn
  <2> QED BY <1>1, <1>3, <2>1, <2>2 DEF Noted, AnswerOfAMoment
<1> QED BY <1>2, <1>3 DEF FindOwnRoute

LEMMA NotedNext ==
    TypeOK /\ TypeOK' /\ RoutesDated /\ RoutesDated' /\ Noted /\ [Next]_vars => Noted'
<1> SUFFICES ASSUME TypeOK, TypeOK', RoutesDated, RoutesDated', Noted, [Next]_vars
             PROVE  Noted'
  OBVIOUS
<1>1. ASSUME NEW n \in Number, AskRoute(n) PROVE Noted'
  BY <1>1, AskRouteNoted
<1>2. ASSUME UNCHANGED routes, Write PROVE Noted'
  BY <1>2, FlightWriteNoted
<1>3. ASSUME NEW r \in RouteId, NEW n \in Number, StoreRoute(r, n) PROVE Noted'
  BY <1>3, StoreRouteNoted
<1>4. CASE FindFlight
  BY <1>4, FindFlightNoted
<1>5. CASE FindOwnRoute
  BY <1>5, FindOwnRouteNoted
<1>6. CASE FindAnyRoute
  BY <1>6, FindsRead DEF FindAnyRoute, Noted, AnswerOfAMoment
<1>7. CASE Done
  BY <1>7 DEF Done, Noted, AnswerOfAMoment
<1>8. CASE UNCHANGED vars
  <2>1. /\ UNCHANGED <<routes, step, asked, found, answer, moments, during>>
        /\ Active(asked)' = Active(asked) /\ Lookup(asked)' = Lookup(asked)
        /\ LastUpdated(asked)' = LastUpdated(asked)
    BY <1>8, FindsRead DEF vars, collections, request
  <2> QED BY <2>1 DEF Noted, AnswerOfAMoment
<1> QED
  BY <1>1, <1>2, <1>3, <1>4, <1>5, <1>6, <1>7, <1>8
     DEF Next, InsertFlight, MergeFlight, DeleteFlight, UpdateSummary

\* However the writes of the consumers fall between its three finds, a lookup
\* of a route answers what it would have found at one moment, unless two of
\* them fell there.
THEOREM LookupsAreOfAMoment == Spec => []AnswerOfAMoment
<1>1. Init => TypeOK /\ RoutesDated /\ Noted
  BY InitTypes, RoutesDatedInit, NotedInit
<1>2. TypeOK /\ RoutesDated /\ Noted /\ [Next]_vars => (TypeOK /\ RoutesDated /\ Noted)'
  BY NextTypes, RoutesDatedNext, NotedNext
<1>3. Noted => AnswerOfAMoment
  BY DEF Noted
<1> QED BY <1>1, <1>2, <1>3, PTL DEF Spec

-----------------------------------------------------------------------------
(* Batches.                                                                *)

After(docs, i) == {d \in docs : d > i}

LEMMA FewAfter ==
    ASSUME NEW docs, IsFiniteSet(docs), docs \subseteq Nat, NEW i \in docs
    PROVE  /\ IsFiniteSet(After(docs, i)) /\ Cardinality(After(docs, i)) \in Nat
           /\ Cardinality(docs) \in Nat
           /\ Cardinality(After(docs, i)) < Cardinality(docs)
<1>1. After(docs, i) \in SUBSET (docs \ {i})
  <2>1. \A d \in docs : d \in Nat /\ (d > i => d # i)
    OBVIOUS
  <2> QED BY <2>1 DEF After
<1>2. IsFiniteSet(docs \ {i}) /\ Cardinality(docs \ {i}) = Cardinality(docs) - 1
  BY FS_RemoveElement
<1>3. IsFiniteSet(After(docs, i)) /\ Cardinality(After(docs, i)) <= Cardinality(docs \ {i})
  BY <1>1, <1>2, FS_Subset
<1>4. Cardinality(docs) \in Nat /\ Cardinality(After(docs, i)) \in Nat
  BY <1>3, FS_CardinalityType
<1> QED BY <1>2, <1>3, <1>4

\* Documents within the limit are all looked at.
LEMMA AllAreNewest ==
    ASSUME NEW docs, IsFiniteSet(docs), docs \subseteq Nat,
           NEW limit \in Nat, Cardinality(docs) <= limit
    PROVE  Newest(docs, limit) = docs
<1> SUFFICES ASSUME NEW i \in docs PROVE Cardinality(After(docs, i)) < limit
  BY DEF Newest, After
<1>1. /\ Cardinality(After(docs, i)) \in Nat /\ Cardinality(docs) \in Nat
      /\ Cardinality(After(docs, i)) < Cardinality(docs)
  BY FewAfter
<1> QED BY <1>1

\* An older document has more documents after it.
LEMMA Ranks ==
    ASSUME NEW docs, IsFiniteSet(docs), docs \subseteq Nat,
           NEW i \in docs, NEW j \in docs, i < j
    PROVE  /\ Cardinality(After(docs, i)) \in Nat /\ Cardinality(After(docs, j)) \in Nat
           /\ Cardinality(After(docs, j)) < Cardinality(After(docs, i))
<1>1. /\ After(docs, i) \in SUBSET docs
      /\ After(docs, j) \in SUBSET (After(docs, i) \ {j}) /\ j \in After(docs, i)
  <2>1. i \in Nat /\ j \in Nat /\ \A d \in docs : d \in Nat
    OBVIOUS
  <2>2. \A d \in docs : d > j => d > i /\ d # j
    BY <2>1
  <2> QED BY <2>1, <2>2 DEF After
<1>2. IsFiniteSet(After(docs, i))
  BY <1>1, FS_Subset
<1>3. /\ IsFiniteSet(After(docs, i) \ {j})
      /\ Cardinality(After(docs, i) \ {j}) = Cardinality(After(docs, i)) - 1
  BY <1>1, <1>2, FS_RemoveElement
<1>4. /\ IsFiniteSet(After(docs, j))
      /\ Cardinality(After(docs, j)) <= Cardinality(After(docs, i) \ {j})
  BY <1>1, <1>3, FS_Subset
<1>5. Cardinality(After(docs, i)) \in Nat /\ Cardinality(After(docs, j)) \in Nat
  BY <1>2, <1>4, FS_CardinalityType
<1> QED BY <1>3, <1>4, <1>5

LEMMA ActiveFinite ==
    ASSUME TypeOK, NEW n
    PROVE  /\ IsFiniteSet(Active(n)) /\ Active(n) \subseteq DOMAIN flights
           /\ Active(n) \subseteq Nat /\ Cardinality(Active(n)) \in Nat
           /\ DOMAIN flights \subseteq 1..MaxFlights /\ IsFiniteSet(DOMAIN flights)
<1>1. /\ IsFiniteSet(Active(n)) /\ Active(n) \subseteq DOMAIN flights
      /\ DOMAIN flights \subseteq 1..MaxFlights
  BY Bounds, AsFunctions, ActiveTypes
<1>2. IsFiniteSet(DOMAIN flights)
  <2>1. IsFiniteSet(1..MaxFlights)
    BY FS_Interval, QueryAssumption
  <2> QED BY <1>1, <2>1, FS_Subset
<1> QED BY <1>1, <1>2, FS_CardinalityType, QueryAssumption

OfAll(ns) == UNION {Active(n) : n \in ns}

LEMMA OfAllFinite ==
    ASSUME TypeOK, NEW ns
    PROVE  /\ IsFiniteSet(OfAll(ns)) /\ OfAll(ns) \subseteq DOMAIN flights
           /\ OfAll(ns) \subseteq Nat
<1>1. OfAll(ns) \subseteq DOMAIN flights
  BY DEF OfAll, Active
<1> QED BY <1>1, ActiveFinite, FS_Subset, QueryAssumption

\* Where no number is crowded, a document is told by its number and by how
\* many of its number are newer: there is room for all.
LEMMA RoomForAll ==
    ASSUME TypeOK, NEW ns \in SUBSET Number, \A n \in ns : ~Crowded(n)
    PROVE  /\ IsFiniteSet(ns) /\ Cardinality(ns) \in Nat
           /\ Cardinality(OfAll(ns)) <= Limit * Cardinality(ns)
<1> DEFINE rank(i) == Cardinality(After(Active(flights[i].number), i))
           place == [i \in OfAll(ns) |-> <<flights[i].number, rank(i)>>]
<1>1. IsFiniteSet(ns) /\ Cardinality(ns) \in Nat
  BY FS_Subset, FS_CardinalityType, QueryAssumption
<1>2. \A i \in OfAll(ns) : flights[i].number \in ns /\ i \in Active(flights[i].number)
  BY DEF OfAll, Active
<1>3. \A i \in OfAll(ns) : rank(i) \in 0..(Limit - 1)
  <2> SUFFICES ASSUME NEW i \in OfAll(ns) PROVE rank(i) \in 0..(Limit - 1)
    OBVIOUS
  <2>1. /\ Cardinality(After(Active(flights[i].number), i)) \in Nat
        /\ Cardinality(After(Active(flights[i].number), i))
              < Cardinality(Active(flights[i].number))
    BY <1>2, ActiveFinite, FewAfter
  <2>2. /\ Cardinality(Active(flights[i].number)) \in Nat
        /\ Cardinality(Active(flights[i].number)) <= Limit
    BY <1>2, ActiveFinite, QueryAssumption DEF Crowded
  <2> QED BY <2>1, <2>2, QueryAssumption
<1>4. ASSUME NEW i \in OfAll(ns), NEW j \in OfAll(ns), i < j,
             flights[i].number = flights[j].number
      PROVE  rank(i) # rank(j)
  <2>1. /\ IsFiniteSet(Active(flights[i].number)) /\ Active(flights[i].number) \subseteq Nat
        /\ i \in Active(flights[i].number) /\ j \in Active(flights[i].number)
    BY <1>2, <1>4, ActiveFinite
  <2>2. /\ Cardinality(After(Active(flights[i].number), i)) \in Nat
        /\ Cardinality(After(Active(flights[i].number), j)) \in Nat
        /\ Cardinality(After(Active(flights[i].number), j))
              < Cardinality(After(Active(flights[i].number), i))
    BY <1>4, <2>1, Ranks
  <2> QED BY <1>4, <2>2
<1>5. place \in [OfAll(ns) -> ns \X (0..(Limit - 1))]
  <2> HIDE DEF rank
  <2> QED BY <1>2, <1>3
<1>6. ASSUME NEW i \in OfAll(ns), NEW j \in OfAll(ns), place[i] = place[j]
      PROVE  i = j
  <2>1. flights[i].number = flights[j].number /\ rank(i) = rank(j)
    <3> HIDE DEF rank
    <3> QED BY <1>6
  <2>2. ~(i < j) /\ ~(j < i)
    <3> HIDE DEF rank
    <3> QED BY <1>4, <2>1
  <2> QED BY <2>2, OfAllFinite
<1>7. place \in Injection(OfAll(ns), ns \X (0..(Limit - 1)))
  <2> HIDE DEF place
  <2> QED BY <1>5, <1>6 DEF Injection, IsInjective
<1>8. /\ IsFiniteSet(ns \X (0..(Limit - 1)))
      /\ Cardinality(ns \X (0..(Limit - 1))) = Cardinality(ns) * Limit
  <2>1. IsFiniteSet(0..(Limit - 1)) /\ Cardinality(0..(Limit - 1)) = Limit
    BY FS_Interval, QueryAssumption
  <2> QED BY <1>1, <2>1, FS_Product
<1>9. Cardinality(OfAll(ns)) <= Cardinality(ns) * Limit
  <2> HIDE DEF place
  <2> QED BY <1>7, <1>8, FS_Injection
<1>10. Cardinality(ns) * Limit = Limit * Cardinality(ns)
  BY <1>1, QueryAssumption
<1> QED BY <1>1, <1>9, <1>10

-----------------------------------------------------------------------------
(* The choice of a snapshot.                                               *)

\* No two documents are of the same write.
FlightsDated ==
    /\ \A i \in DOMAIN flights : flights[i].updated <= clock
    /\ \A i, j \in DOMAIN flights : i # j => flights[i].updated # flights[j].updated

LEMMA FlightsDatedInit == Init => FlightsDated
BY DEF Init, FlightsDated

LEMMA FlightsDatedNext == TypeOK /\ FlightsDated /\ [Next]_vars => FlightsDated'
<1> SUFFICES ASSUME TypeOK, FlightsDated, [Next]_vars PROVE FlightsDated'
  OBVIOUS
<1> \A i \in DOMAIN flights : flights[i].updated \in Nat
  BY Bounds, FlightFields, QueryAssumption DEF Flight
<1>1. ASSUME UNCHANGED <<flights, clock>> PROVE FlightsDated'
  BY <1>1 DEF FlightsDated
<1>2. ASSUME UNCHANGED flights, Write PROVE FlightsDated'
  BY <1>2, Bounds DEF FlightsDated, Write
<1>3. ASSUME NEW n \in Number, InsertFlight(n) PROVE FlightsDated'
  <2>1. /\ flights \in Seq(Flight) /\ DOMAIN flights = 1..Len(flights) /\ Len(flights) \in Nat
    BY DEF TypeOK
  <2>2. /\ DOMAIN flights' = 1..(Len(flights) + 1)
        /\ flights'[Len(flights) + 1].updated = clock + 1
        /\ \A i \in DOMAIN flights : flights'[i] = flights[i]
        /\ clock' = clock + 1
    BY <1>3, <2>1 DEF InsertFlight, Write
  <2> QED BY <2>1, <2>2, Bounds DEF FlightsDated
<1>4. ASSUME NEW i \in DOMAIN flights, DOMAIN flights' = DOMAIN flights,
             flights'[i].updated = clock + 1, clock' = clock + 1,
             \A j \in DOMAIN flights : j # i => flights'[j] = flights[j]
      PROVE  FlightsDated'
  BY <1>4, Bounds DEF FlightsDated
<1>5. ASSUME NEW i \in DOMAIN flights, NEW n \in Number, MergeFlight(i, n) PROVE FlightsDated'
  <2>1. /\ DOMAIN flights' = DOMAIN flights /\ flights'[i].updated = clock + 1
        /\ clock' = clock + 1
        /\ \A j \in DOMAIN flights : j # i => flights'[j] = flights[j]
    BY <1>5, MergeFlightRewrites, RewriteFacts DEF MergeFlight, Write
  <2> QED BY <1>4, <2>1
<1>6. ASSUME NEW i \in DOMAIN flights, DeleteFlight(i) PROVE FlightsDated'
  <2>1. /\ DOMAIN flights' = DOMAIN flights /\ flights'[i].updated = clock + 1
        /\ clock' = clock + 1
        /\ \A j \in DOMAIN flights : j # i => flights'[j] = flights[j]
    BY <1>6, DeleteFlightRewrites, RewriteFacts DEF DeleteFlight, Write
  <2> QED BY <1>4, <2>1
<1>7. ASSUME NEW i \in DOMAIN flights, NEW k \in DOMAIN Feeds, UpdateSummary(i, k)
      PROVE  FlightsDated'
  <2>1. /\ DOMAIN flights' = DOMAIN flights /\ flights'[i].updated = clock + 1
        /\ clock' = clock + 1
        /\ \A j \in DOMAIN flights : j # i => flights'[j] = flights[j]
    BY <1>7, UpdateSummaryRewrites, RewriteFacts DEF UpdateSummary, Write
  <2> QED BY <1>4, <2>1
<1> QED
  BY <1>1, <1>2, <1>3, <1>5, <1>6, <1>7 DEF Next, AskRoute, StoreRoute,
     FindFlight, FindOwnRoute, FindAnyRoute, Done, collections, request, vars

LEMMA FedTypes ==
    ASSUME TypeOK, NEW i \in DOMAIN flights
    PROVE  /\ flights[i].fed \subseteq DOMAIN Feeds /\ flights[i].updated \in Nat
           /\ DOMAIN Feeds = 1..Len(Feeds) /\ Len(Feeds) \in Nat
BY Bounds, FlightFields, QueryAssumption DEF Flight

LEMMA BetterIrreflexive ==
    ASSUME TypeOK, NEW i \in DOMAIN flights
    PROVE  ~Better(i, i)
BY FedTypes DEF Better

LEMMA BetterTransitive ==
    ASSUME TypeOK, NEW i \in DOMAIN flights, NEW j \in DOMAIN flights,
           NEW h \in DOMAIN flights, Better(i, j), Better(j, h)
    PROVE  Better(i, h)
<1> DEFINE MoreFed(a, b, k) == /\ Fed(a, k) /\ ~Fed(b, k)
                               /\ \A l \in 1..(k - 1) : Fed(a, l) <=> Fed(b, l)
<1>1. ASSUME NEW k \in DOMAIN Feeds, MoreFed(i, j, k),
             NEW l \in DOMAIN Feeds, MoreFed(j, h, l)
      PROVE  Better(i, h)
  <2>1. k \in Nat \ {0} /\ l \in Nat \ {0}
    BY FedTypes
  <2>2. CASE k < l
    <3>1. MoreFed(i, h, k)
      BY <1>1, <2>1, <2>2 DEF Fed
    <3> QED BY <3>1 DEF Better
  <2>3. CASE l < k
    <3>1. MoreFed(i, h, l)
      BY <1>1, <2>1, <2>3 DEF Fed
    <3> QED BY <3>1 DEF Better
  <2>4. CASE k = l
    BY <1>1, <2>4
  <2> QED BY <2>1, <2>2, <2>3, <2>4
<1>2. ASSUME NEW k \in DOMAIN Feeds, MoreFed(i, j, k), flights[j].fed = flights[h].fed
      PROVE  Better(i, h)
  <2>1. MoreFed(i, h, k)
    BY <1>2 DEF Fed
  <2> QED BY <2>1 DEF Better
<1>3. ASSUME NEW k \in DOMAIN Feeds, MoreFed(j, h, k), flights[i].fed = flights[j].fed
      PROVE  Better(i, h)
  <2>1. MoreFed(i, h, k)
    BY <1>3 DEF Fed
  <2> QED BY <2>1 DEF Better
<1>4. CASE /\ flights[i].fed = flights[j].fed /\ flights[j].fed = flights[h].fed
           /\ flights[i].updated > flights[j].updated
           /\ flights[j].updated > flights[h].updated
  BY <1>4, FedTypes DEF Better
<1> QED BY <1>1, <1>2, <1>3, <1>4 DEF Better

\* Of two documents one is better: they differ in a feed, and then in a
\* first one, or else in their dates.
LEMMA BetterTotal ==
    ASSUME TypeOK, FlightsDated, NEW i \in DOMAIN flights, NEW j \in DOMAIN flights, i # j
    PROVE  Better(i, j) \/ Better(j, i)
<1> DEFINE Differ == {k \in DOMAIN Feeds : ~(Fed(i, k) <=> Fed(j, k))}
<1>1. CASE Differ = {}
  <2>1. flights[i].fed = flights[j].fed
    BY <1>1, FedTypes DEF Fed
  <2>2. flights[i].updated # flights[j].updated
    BY DEF FlightsDated
  <2>3. flights[i].updated \in Nat /\ flights[j].updated \in Nat
    BY FedTypes
  <2> QED BY <2>1, <2>2, <2>3 DEF Better
<1>2. CASE Differ # {}
  <2>1. Differ \subseteq Nat
    BY FedTypes
  <2>2. PICK k \in Differ : \A l \in Differ : k <= l
    <3> HIDE DEF Differ
    <3> QED BY <1>2, <2>1, LeastNatural
  <2>3. \A l \in 1..(k - 1) : Fed(i, l) <=> Fed(j, l)
    <3> SUFFICES ASSUME NEW l \in 1..(k - 1) PROVE Fed(i, l) <=> Fed(j, l)
      OBVIOUS
    <3>1. l \in DOMAIN Feeds /\ l < k /\ k \in Nat
      BY <2>1, <2>2, FedTypes
    <3>2. l \notin Differ
      BY <2>2, <3>1
    <3> QED BY <3>1, <3>2
  <2>4. k \in DOMAIN Feeds /\ ~(Fed(i, k) <=> Fed(j, k))
    BY <2>2
  <2> HIDE DEF Differ
  <2> QED BY <2>3, <2>4 DEF Better
<1> QED BY <1>1, <1>2

\* So of any documents one is the best, for the one with the fewest better
\* ones has none.
LEMMA BestIsThere ==
    ASSUME TypeOK, FlightsDated, NEW docs \in SUBSET DOMAIN flights, docs # {}
    PROVE  Best(docs) \in docs /\ \A j \in docs \ {Best(docs)} : Better(Best(docs), j)
<1> DEFINE above(i) == {j \in docs : Better(j, i)}
           sizes == {Cardinality(above(i)) : i \in docs}
<1>1. IsFiniteSet(docs)
  BY ActiveFinite, FS_Subset
<1>2. \A i \in docs : above(i) \in SUBSET docs
  OBVIOUS
<1>3. \A i \in docs : IsFiniteSet(above(i)) /\ Cardinality(above(i)) \in Nat
  <2> HIDE DEF above
  <2> QED BY <1>1, <1>2, FS_Subset, FS_CardinalityType
<1>4. PICK i \in docs : \A j \in docs : Cardinality(above(i)) <= Cardinality(above(j))
  <2>1. sizes \subseteq Nat /\ sizes # {}
    <3> HIDE DEF above
    <3> QED BY <1>3
  <2>2. \E m \in sizes : \A t \in sizes : m <= t
    <3> HIDE DEF sizes
    <3> QED BY <2>1, LeastNatural
  <2> HIDE DEF above
  <2> QED BY <2>2
<1>5. above(i) = {}
  <2> SUFFICES ASSUME NEW j \in above(i) PROVE FALSE
    OBVIOUS
  <2>1. j \in docs /\ above(j) \in SUBSET (above(i) \ {j})
    BY BetterTransitive, BetterIrreflexive
  <2> HIDE DEF above
  <2>2. /\ IsFiniteSet(above(i) \ {j})
        /\ Cardinality(above(i) \ {j}) = Cardinality(above(i)) - 1
    BY <1>3, FS_RemoveElement
  <2>3. Cardinality(above(j)) <= Cardinality(above(i)) - 1
    BY <2>1, <2>2, FS_Subset
  <2> QED BY <1>3, <1>4, <2>1, <2>3
<1>6. \A j \in docs \ {i} : Better(i, j)
  BY <1>5, BetterTotal
<1>7. \E b \in docs : \A j \in docs \ {b} : Better(b, j)
  BY <1>6
<1> QED
  <2> DEFINE P(b) == \A j \in docs \ {b} : Better(b, j)
  <2>1. Best(docs) = CHOOSE b \in docs : P(b)
    BY DEF Best
  <2>2. \E b \in docs : P(b)
    BY <1>7
  <2>3. (CHOOSE b \in docs : P(b)) \in docs /\ P(CHOOSE b \in docs : P(b))
    <3> HIDE DEF P
    <3> QED BY <2>2
  <2> QED BY <2>1, <2>3

LEMMA LimitOfLess ==
    ASSUME NEW c \in Nat \ {0}
    PROVE  Limit * (c - 1) < Limit * c /\ Limit * (c - 1) \in Nat /\ Limit * c \in Nat
BY QueryAssumption

LEMMA GroupOfNumber ==
    ASSUME NEW ns, NEW n \in ns
    PROVE  {i \in OfAll(ns) : flights[i].number = n} = Active(n)
BY DEF OfAll, Active

\* A batch with room for the documents of all its numbers is as the single
\* queries are.
LEMMA UncrowdedBatch ==
    ASSUME TypeOK, NEW ns \in SUBSET Number, \A n \in ns : ~Crowded(n), NEW n \in ns
    PROVE  Batch(ns)[n] = ResolveFlight(n)
<1>1. Cardinality(ns) \in Nat /\ Cardinality(OfAll(ns)) <= BatchLimit(ns)
  BY RoomForAll DEF BatchLimit
<1>2. BatchLimit(ns) \in Nat
  BY <1>1, QueryAssumption DEF BatchLimit
<1>3. Newest(OfAll(ns), BatchLimit(ns)) = OfAll(ns)
  BY <1>1, <1>2, OfAllFinite, AllAreNewest
<1>4. Cardinality(Active(n)) <= Limit
  BY ActiveFinite, QueryAssumption DEF Crowded
<1>5. Newest(Active(n), Limit) = Active(n)
  BY <1>4, ActiveFinite, AllAreNewest, QueryAssumption
<1>6. Batch(ns)[n] = Best({i \in OfAll(ns) : flights[i].number = n})
  BY <1>3 DEF Batch, OfAll
<1> QED BY <1>5, <1>6, GroupOfNumber DEF ResolveFlight

\* The newest document of a number is found, unless another number crowds
\* it out: those after it are of the other numbers.
LEMMA NewestOfNumberFound ==
    ASSUME TypeOK, NEW ns \in SUBSET Number, NEW n \in ns, Active(n) # {},
           \A m \in ns \ {n} : ~Crowded(m)
    PROVE  \E i \in Active(n) : i \in Newest(OfAll(ns), BatchLimit(ns))
<1>1. PICK i \in Active(n) : \A j \in Active(n) : j <= i
  <2>1. Active(n) \subseteq 0..MaxFlights
    BY ActiveFinite, QueryAssumption
  <2> QED BY <2>1, GreatestNatural, QueryAssumption
<1>2. i \in OfAll(ns)
  BY DEF OfAll
<1>3. After(OfAll(ns), i) \in SUBSET OfAll(ns \ {n})
  <2> SUFFICES ASSUME NEW j \in After(OfAll(ns), i) PROVE j \in OfAll(ns \ {n})
    OBVIOUS
  <2>1. j \in OfAll(ns) /\ j > i
    BY DEF After
  <2>2. j \in Nat /\ i \in Nat
    BY <1>2, <2>1, OfAllFinite
  <2>3. j \notin Active(n)
    BY <1>1, <2>1, <2>2
  <2> QED BY <2>1, <2>3 DEF OfAll
<1>4. /\ Cardinality(ns \ {n}) = Cardinality(ns) - 1
      /\ Cardinality(ns) \in Nat /\ Cardinality(ns \ {n}) \in Nat
  BY FS_Subset, FS_RemoveElement, FS_CardinalityType, QueryAssumption
<1>5. Cardinality(OfAll(ns \ {n})) <= Limit * (Cardinality(ns) - 1)
  BY <1>4, RoomForAll
<1>6. /\ IsFiniteSet(After(OfAll(ns), i)) /\ Cardinality(After(OfAll(ns), i)) \in Nat
      /\ Cardinality(After(OfAll(ns), i)) <= Cardinality(OfAll(ns \ {n}))
      /\ Cardinality(OfAll(ns \ {n})) \in Nat
  BY <1>3, OfAllFinite, FS_Subset, FS_CardinalityType
<1>7. Cardinality(After(OfAll(ns), i)) < BatchLimit(ns)
  <2>1. Cardinality(ns) \in Nat \ {0}
    BY <1>4
  <2> QED BY <1>5, <1>6, <2>1, LimitOfLess DEF BatchLimit
<1> QED BY <1>2, <1>7 DEF Newest, After

LEMMA BatchesAgree ==
    ASSUME TypeOK, FlightsDated
    PROVE  BatchAgrees
<1> SUFFICES ASSUME NEW ns \in (SUBSET Number) \ {{}}, NEW n \in ns
             PROVE  /\ (\A m \in ns : ~Crowded(m)) => Batch(ns)[n] = ResolveFlight(n)
                    /\ Batch(ns)[n] = NoFlight /\ Active(n) # {} =>
                          \E m \in ns \ {n} : Crowded(m)
  BY DEF BatchAgrees
<1>1. ASSUME \A m \in ns : ~Crowded(m) PROVE Batch(ns)[n] = ResolveFlight(n)
  BY <1>1, UncrowdedBatch
<1>2. ASSUME Batch(ns)[n] = NoFlight, Active(n) # {}, \A m \in ns \ {n} : ~Crowded(m)
      PROVE  FALSE
  <2> DEFINE docs == Newest(OfAll(ns), BatchLimit(ns))
             group == {i \in docs : flights[i].number = n}
  <2>1. Batch(ns)[n] = Best(group)
    BY DEF Batch, OfAll
  <2>2. group \in SUBSET DOMAIN flights
    BY OfAllFinite DEF Newest
  <2>3. group # {}
    BY <1>2, NewestOfNumberFound DEF Active
  <2> HIDE DEF group
  <2>4. Best(group) \in DOMAIN flights
    BY <2>2, <2>3, BestIsThere
  <2>5. NoFlight \notin DOMAIN flights
    BY ActiveFinite, QueryAssumption DEF NoFlight
  <2> QED BY <1>2, <2>1, <2>4, <2>5
<1> QED BY <1>1, <1>2

\* For any limit, any numbers and any documents of them: a batch answers as
\* the single queries do where no number has more documents than the limit,
\* and leaves no number out but for one that another crowds out.
THEOREM BatchesAsSingles == Spec => []BatchAgrees
<1>1. Init => TypeOK /\ FlightsDated
  BY InitTypes, FlightsDatedInit
<1>2. TypeOK /\ FlightsDated /\ [Next]_vars => (TypeOK /\ FlightsDated)'
  BY NextTypes, FlightsDatedNext
<1>3. TypeOK /\ FlightsDated => BatchAgrees
  BY BatchesAgree
<1> QED BY <1>1, <1>2, <1>3, PTL DEF Spec

-----------------------------------------------------------------------------
(* The choice feed by feed: a fold over the feeds, of any number.          *)

WithFeed(left, feed) == {i \in left : \E k \in flights[i].fed : Feeds[k] = feed}

SieveBy(left, feed) == IF WithFeed(left, feed) = {} THEN left ELSE WithFeed(left, feed)

\* g is the fold of the first m feeds.
SieveTo(g, docs, m) ==
    g = [s \in SUBSET (1..m) |->
            IF s = {} THEN docs ELSE SieveBy(g[s \ {Max(s)}], Feeds[Max(s)])]

LEMMA FoldIs ==
    ASSUME NEW docs
    PROVE  FoldLeft(SieveBy, docs, Feeds) =
              (CHOOSE g : SieveTo(g, docs, Len(Feeds)))[1..Len(Feeds)]
<1>1. DOMAIN Feeds = 1..Len(Feeds)
  BY QueryAssumption
<1> QED BY <1>1 DEF FoldLeft, MapThenFoldSet, SieveTo

LEMMA PickByFold ==
    ASSUME \A docs \in (SUBSET DOMAIN flights) \ {{}} :
              /\ Best(docs) \in FoldLeft(SieveBy, docs, Feeds)
              /\ \A i \in FoldLeft(SieveBy, docs, Feeds) :
                    flights[i].updated <= flights[Best(docs)].updated
    PROVE  PickIsFeedByFeed
BY DEF PickIsFeedByFeed, SieveBy, WithFeed

LEMMA Greatest ==
    ASSUME NEW m \in Nat, NEW s \in SUBSET (1..(m + 1)), m + 1 \in s
    PROVE  Max(s) = m + 1 /\ s \ {m + 1} \in SUBSET (1..m)
<1>1. \A x \in s : x \in Nat /\ m + 1 >= x
  OBVIOUS
<1>2. \A x \in s : (\A y \in s : x >= y) => x = m + 1
  BY <1>1
<1>3. Max(s) = m + 1
  BY <1>1, <1>2 DEF Max
<1>4. \A x \in s : x # m + 1 => x \in 1..m
  OBVIOUS
<1> QED BY <1>3, <1>4

\* The fold is defined for one feed more if it is for those before it, so it
\* is defined for all.
LEMMA FoldExtends ==
    ASSUME NEW docs, NEW m \in Nat, NEW g, SieveTo(g, docs, m)
    PROVE  \E h : SieveTo(h, docs, m + 1)
<1> DEFINE h == [s \in SUBSET (1..(m + 1)) |->
                   IF m + 1 \in s THEN SieveBy(g[s \ {m + 1}], Feeds[m + 1]) ELSE g[s]]
<1>1. ASSUME NEW s \in SUBSET (1..m)
      PROVE  /\ s \in SUBSET (1..(m + 1)) /\ m + 1 \notin s /\ h[s] = g[s]
             /\ g[s] = IF s = {} THEN docs ELSE SieveBy(g[s \ {Max(s)}], Feeds[Max(s)])
  <2>1. s \in SUBSET (1..(m + 1)) /\ m + 1 \notin s
    OBVIOUS
  <2>2. g[s] = IF s = {} THEN docs ELSE SieveBy(g[s \ {Max(s)}], Feeds[Max(s)])
    BY DEF SieveTo
  <2> QED BY <2>1, <2>2
<1>2. ASSUME NEW s \in SUBSET (1..(m + 1))
      PROVE  h[s] = IF s = {} THEN docs ELSE SieveBy(h[s \ {Max(s)}], Feeds[Max(s)])
  <2>1. CASE m + 1 \in s
    <3>1. Max(s) = m + 1 /\ s \ {m + 1} \in SUBSET (1..m)
      BY <2>1, Greatest
    <3>2. h[s \ {m + 1}] = g[s \ {m + 1}]
      BY <1>1, <3>1
    <3>3. h[s] = SieveBy(g[s \ {m + 1}], Feeds[m + 1])
      BY <2>1
    <3> HIDE DEF h
    <3> QED BY <2>1, <3>1, <3>2, <3>3
  <2>2. CASE m + 1 \notin s
    <3>1. s \in SUBSET (1..m) /\ s \ {Max(s)} \in SUBSET (1..m)
      <4>1. \A x \in s : x \in 1..(m + 1) /\ x # m + 1
        BY <2>2
      <4>2. \A x \in s : x \in 1..m
        BY <4>1
      <4> QED BY <4>2
    <3>2. h[s] = g[s] /\ h[s \ {Max(s)}] = g[s \ {Max(s)}]
      BY <1>1, <3>1
    <3>3. g[s] = IF s = {} THEN docs ELSE SieveBy(g[s \ {Max(s)}], Feeds[Max(s)])
      BY <1>1, <3>1
    <3> HIDE DEF h
    <3> QED BY <3>2, <3>3
  <2> QED BY <2>1, <2>2
<1>3. h = [s \in SUBSET (1..(m + 1)) |-> h[s]]
  OBVIOUS
<1>4. h = [s \in SUBSET (1..(m + 1)) |->
             IF s = {} THEN docs ELSE SieveBy(h[s \ {Max(s)}], Feeds[Max(s)])]
  <2> HIDE DEF h
  <2> QED BY <1>2, <1>3
<1> QED BY <1>4 DEF SieveTo

LEMMA FoldExists ==
    ASSUME NEW docs, NEW n \in Nat
    PROVE  \E g : SieveTo(g, docs, n)
<1> DEFINE Undefined == {m \in Nat : ~ \E g : SieveTo(g, docs, m)}
<1> SUFFICES ASSUME Undefined # {} PROVE FALSE
  OBVIOUS
<1>1. PICK m \in Undefined : \A k \in Undefined : m <= k
  <2>1. Undefined \subseteq Nat
    OBVIOUS
  <2> HIDE DEF Undefined
  <2> QED BY <2>1, LeastNatural
<1>2. m # 0
  <2> DEFINE g == [s \in SUBSET (1..0) |-> docs]
  <2>1. SUBSET (1..0) = {{}}
    OBVIOUS
  <2>2. g = [s \in SUBSET (1..0) |->
               IF s = {} THEN docs ELSE SieveBy(g[s \ {Max(s)}], Feeds[Max(s)])]
    BY <2>1
  <2>3. \E f : SieveTo(f, docs, 0)
    BY <2>2 DEF SieveTo
  <2> QED BY <2>3
<1>3. m \in Nat /\ m - 1 \in Nat /\ m - 1 \notin Undefined
  BY <1>1, <1>2
<1>4. \E h : SieveTo(h, docs, m - 1 + 1)
  BY <1>3, FoldExtends
<1> QED BY <1>1, <1>3, <1>4

\* What is left after k feeds.
Left(docs, k) == (CHOOSE g : SieveTo(g, docs, Len(Feeds)))[1..k]

LEMMA LeftSteps ==
    ASSUME NEW docs
    PROVE  /\ Left(docs, 0) = docs
           /\ \A k \in 0..(Len(Feeds) - 1) :
                 Left(docs, k + 1) = SieveBy(Left(docs, k), Feeds[k + 1])
<1> DEFINE g == CHOOSE g : SieveTo(g, docs, Len(Feeds))
<1>1. Len(Feeds) \in Nat
  BY QueryAssumption
<1>2. SieveTo(g, docs, Len(Feeds))
  BY <1>1, FoldExists
<1> HIDE DEF g
<1>3. \A s \in SUBSET (1..Len(Feeds)) :
         g[s] = IF s = {} THEN docs ELSE SieveBy(g[s \ {Max(s)}], Feeds[Max(s)])
  BY <1>2 DEF SieveTo
<1>4. g[1..0] = docs
  <2>1. 1..0 = {} /\ 1..0 \in SUBSET (1..Len(Feeds))
    OBVIOUS
  <2> QED BY <1>3, <2>1
<1>5. ASSUME NEW k \in 0..(Len(Feeds) - 1)
      PROVE  g[1..(k + 1)] = SieveBy(g[1..k], Feeds[k + 1])
  <2>1. 1..(k + 1) \in SUBSET (1..Len(Feeds)) /\ k + 1 \in 1..(k + 1) /\ k \in Nat
    BY <1>1
  <2>2. Max(1..(k + 1)) = k + 1
    BY <2>1, Greatest
  <2>3. (1..(k + 1)) \ {k + 1} = 1..k
    BY <2>1
  <2>4. 1..(k + 1) # {}
    BY <2>1
  <2> QED BY <1>3, <2>1, <2>2, <2>3, <2>4
<1> QED BY <1>4, <1>5 DEF Left, g

\* The best document is left after k feeds, with those that are fed as it is.
AsBest(docs, k) ==
    /\ Best(docs) \in Left(docs, k) /\ Left(docs, k) \subseteq docs
    /\ \A i \in Left(docs, k), l \in 1..k : Fed(i, l) <=> Fed(Best(docs), l)

LEMMA OneFeedMore ==
    ASSUME TypeOK, FlightsDated, NEW docs \in SUBSET DOMAIN flights, docs # {},
           NEW k \in 0..(Len(Feeds) - 1), AsBest(docs, k)
    PROVE  AsBest(docs, k + 1)
<1> DEFINE best == Best(docs)
           left == Left(docs, k)
           with == {i \in left : Fed(i, k + 1)}
<1>1. best \in docs /\ \A j \in docs \ {best} : Better(best, j)
  BY BestIsThere
<1>2. best \in left /\ left \subseteq docs
  BY DEF AsBest
<1>3. k \in Nat /\ k + 1 \in DOMAIN Feeds /\ DOMAIN Feeds = 1..Len(Feeds) /\ Len(Feeds) \in Nat
  BY QueryAssumption
<1>4. WithFeed(left, Feeds[k + 1]) = with
  <2>1. ASSUME NEW i \in left, NEW l \in flights[i].fed, Feeds[l] = Feeds[k + 1]
        PROVE  l = k + 1
    <3>1. l \in DOMAIN Feeds
      BY <1>2, FedTypes
    <3> QED BY <1>3, <2>1, <3>1, QueryAssumption DEF IsInjective
  <2> QED BY <2>1 DEF WithFeed, Fed
<1>5. Left(docs, k + 1) = IF with = {} THEN left ELSE with
  <2>1. Left(docs, k + 1) = SieveBy(left, Feeds[k + 1])
    BY LeftSteps
  <2> HIDE DEF left, with
  <2> QED BY <1>4, <2>1 DEF SieveBy
<1>6. \A i \in left, l \in 1..k : Fed(i, l) <=> Fed(best, l)
  BY DEF AsBest
<1>7. CASE with = {}
  <2>1. \A i \in left : ~Fed(i, k + 1)
    BY <1>7
  <2>2. \A l \in 1..(k + 1) : l \in 1..k \/ l = k + 1
    BY <1>3
  <2>3. Left(docs, k + 1) = left
    BY <1>5, <1>7
  <2> HIDE DEF best, left, with
  <2>4. \A i \in left, l \in 1..(k + 1) : Fed(i, l) <=> Fed(best, l)
    BY <1>2, <1>6, <2>1, <2>2 DEF Fed
  <2> QED BY <1>2, <2>3, <2>4 DEF AsBest, best
<1>8. CASE with # {}
  <2>1. PICK i \in left : Fed(i, k + 1)
    BY <1>8
  <2>2. Fed(best, k + 1)
    <3> SUFFICES ASSUME ~Fed(best, k + 1) PROVE FALSE
      OBVIOUS
    <3>1. i # best /\ i \in DOMAIN flights /\ best \in DOMAIN flights
      BY <1>1, <1>2, <2>1
    <3>2. Better(i, best)
      <4>1. \A l \in 1..((k + 1) - 1) : Fed(i, l) <=> Fed(best, l)
        BY <1>3, <1>6 DEF Fed
      <4> HIDE DEF best, left, with
      <4> QED BY <1>3, <2>1, <4>1 DEF Better
    <3>3. Better(best, i)
      BY <1>1, <1>2, <3>1
    <3> HIDE DEF best, left, with
    <3> QED BY <3>1, <3>2, <3>3, BetterTransitive, BetterIrreflexive
  <2>3. \A l \in 1..(k + 1) : l \in 1..k \/ l = k + 1
    BY <1>3
  <2>4. best \in with /\ with \subseteq left /\ \A j \in with : Fed(j, k + 1)
    BY <1>2, <2>2
  <2>5. Left(docs, k + 1) = with
    BY <1>5, <1>8
  <2> HIDE DEF best, left, with
  <2>6. \A j \in with, l \in 1..(k + 1) : Fed(j, l) <=> Fed(best, l)
    BY <1>6, <2>2, <2>3, <2>4 DEF Fed
  <2> QED BY <1>2, <2>4, <2>5, <2>6 DEF AsBest, best
<1> QED BY <1>7, <1>8

LEMMA AsBestToTheEnd ==
    ASSUME TypeOK, FlightsDated, NEW docs \in SUBSET DOMAIN flights, docs # {}
    PROVE  AsBest(docs, Len(Feeds))
<1> DEFINE Wrong == {k \in 0..Len(Feeds) : ~AsBest(docs, k)}
<1> SUFFICES ASSUME Wrong # {} PROVE FALSE
  BY QueryAssumption
<1>1. PICK k \in Wrong : \A l \in Wrong : k <= l
  <2>1. Wrong \subseteq Nat
    BY QueryAssumption
  <2> HIDE DEF Wrong
  <2> QED BY <2>1, LeastNatural
<1>2. k # 0
  <2>1. Left(docs, 0) = docs
    BY LeftSteps
  <2>2. \A l \in 1..0 : FALSE
    OBVIOUS
  <2>3. AsBest(docs, 0)
    BY <2>1, <2>2, BestIsThere DEF AsBest
  <2> QED BY <2>3
<1>3. /\ k - 1 \in 0..(Len(Feeds) - 1) /\ (k - 1) + 1 = k
      /\ AsBest(docs, k - 1)
  BY <1>1, <1>2, QueryAssumption
<1>4. AsBest(docs, (k - 1) + 1)
  BY <1>3, OneFeedMore
<1> QED BY <1>1, <1>3, <1>4

LEMMA PickedFeedByFeed ==
    ASSUME TypeOK, FlightsDated
    PROVE  PickIsFeedByFeed
<1> SUFFICES ASSUME NEW docs \in (SUBSET DOMAIN flights) \ {{}}
             PROVE  /\ Best(docs) \in FoldLeft(SieveBy, docs, Feeds)
                    /\ \A i \in FoldLeft(SieveBy, docs, Feeds) :
                          flights[i].updated <= flights[Best(docs)].updated
  BY PickByFold
<1>1. FoldLeft(SieveBy, docs, Feeds) = Left(docs, Len(Feeds))
  BY FoldIs DEF Left
<1>2. AsBest(docs, Len(Feeds))
  BY AsBestToTheEnd
<1>3. Best(docs) \in docs /\ \A j \in docs \ {Best(docs)} : Better(Best(docs), j)
  BY BestIsThere
<1>4. ASSUME NEW i \in Left(docs, Len(Feeds))
      PROVE  flights[i].updated <= flights[Best(docs)].updated
  <2>1. i \in DOMAIN flights /\ Best(docs) \in DOMAIN flights
    BY <1>2, <1>3, <1>4 DEF AsBest
  <2>2. flights[i].updated \in Nat /\ flights[Best(docs)].updated \in Nat
    BY <2>1, FedTypes
  <2>3. CASE i = Best(docs)
    BY <2>2, <2>3
  <2>4. CASE i # Best(docs)
    <3>1. Better(Best(docs), i)
      BY <1>2, <1>3, <1>4, <2>4 DEF AsBest
    <3>2. \A k \in DOMAIN Feeds : Fed(i, k) <=> Fed(Best(docs), k)
      BY <1>2, <1>4, QueryAssumption DEF AsBest
    <3>3. flights[Best(docs)].updated > flights[i].updated
      BY <3>1, <3>2 DEF Better, Fed
    <3> QED BY <2>2, <3>3
  <2> QED BY <2>3, <2>4
<1> QED BY <1>1, <1>2, <1>4 DEF AsBest

\* For any number of feeds the choice of a snapshot, a comparison of tuples,
\* is the choice feed by feed, and then by date.
THEOREM SnapshotsAreFeedByFeed == Spec => []PickIsFeedByFeed
<1>1. Init => TypeOK /\ FlightsDated
  BY InitTypes, FlightsDatedInit
<1>2. TypeOK /\ FlightsDated /\ [Next]_vars => (TypeOK /\ FlightsDated)'
  BY NextTypes, FlightsDatedNext
<1>3. TypeOK /\ FlightsDated => PickIsFeedByFeed
  BY PickedFeedByFeed
<1> QED BY <1>1, <1>2, <1>3, PTL DEF Spec

=============================================================================

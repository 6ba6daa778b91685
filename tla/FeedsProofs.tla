---------------------------- MODULE FeedsProofs ----------------------------
(***************************************************************************)
(* Proofs about Feeds, for any flights, keys, messages and numbers of      *)
(* messages and faults.  Types, accounted offsets, counts that are never   *)
(* too high and linked routes hold for any number of consumers and for     *)
(* every kind of feed; the exact counts are those of TFMS with one         *)
(* consumer, and so is the cost of a fault, because one outage can meet a  *)
(* message of each consumer.                                               *)
(***************************************************************************)
EXTENDS Feeds, FiniteSetTheorems, TLAPS

USE FeedsAssumption

OneConsumer == \A c, d \in Consumer : c = d

-----------------------------------------------------------------------------
(* Types.                                                                  *)

\* The steps at which a record of the message is in hand, and those at which
\* it is in the collection.
InHand == {"store", "find", "mark", "update", "route"}

InCollection == {"find", "mark", "update", "route"}

\* What the local variables of a consumer hold at each of its steps.
LocalsOf(c) ==
    /\ position[c] <= Len(log[c])
    /\ committed[c] # None => committed[c] <= Len(log[c])
    /\ pc[c] \notin {"down", "ended", "poll"} => position[c] >= 1
    /\ pc[c] \in InHand => todo[c] # <<>>
    /\ pc[c] \notin InCollection => work[c] = NoWork
    /\ pc[c] = "find" => work[c].target = None
    /\ pc[c] \in {"mark", "update"} => work[c].target \in Flight
    /\ pc[c] \in InCollection => work[c].record \in 1..Len(records)

Locals == \A c \in Consumer : LocalsOf(c)

TInv == TypeOK /\ Locals


LEMMA InitTypes == Init => TInv
BY DEF Init, TInv, TypeOK, Locals, LocalsOf, NoWork, Work, FlightDoc, Pc, InHand,
       InCollection

LEMMA TailOfMessage ==
    ASSUME NEW s \in Seq(Key), s # <<>>
    PROVE  /\ Head(s) \in Key
           /\ Tail(s) \in Seq(Key)
           /\ Len(s) > 1 => Tail(s) # <<>>
<1>1. Len(s) \in Nat /\ Len(s) >= 1
  OBVIOUS
<1>2. Head(s) \in Key /\ Tail(s) \in Seq(Key) /\ Len(Tail(s)) = Len(s) - 1
  BY <1>1
<1>3. \A t \in Seq(Key) : t = <<>> => Len(t) = 0
  OBVIOUS
<1>4. ASSUME Len(s) > 1 PROVE Tail(s) # <<>>
  <2>1. Len(Tail(s)) # 0
    BY <1>1, <1>2, <1>4
  <2> QED BY <1>2, <1>3, <2>1
<1> QED BY <1>2, <1>4

\* The end of a record: of the message too, when it was its last.
LEMMA NextRecordFacts ==
    ASSUME TypeOK, NEW c \in Consumer, todo[c] # <<>>, NextRecord(c)
    PROVE  /\ todo' \in [Consumer -> Seq(Key)]
           /\ work' = [work EXCEPT ![c] = NoWork]
           /\ stored' \in [Consumer -> SUBSET Nat]
           /\ pc' \in [Consumer -> Pc]
           /\ \A d \in Consumer : d # c =>
                 /\ pc'[d] = pc[d]
                 /\ todo'[d] = todo[d]
                 /\ stored'[d] = stored[d]
           /\ \/ pc'[c] = "store" /\ todo'[c] # <<>> /\ stored' = stored
              \/ /\ pc'[c] = "commit"
                 /\ stored'[c] = stored[c] \cup {position[c]}
<1> USE DEF TypeOK
<1>1. Tail(todo[c]) \in Seq(Key)
  BY TailOfMessage
<1>2. todo' \in [Consumer -> Seq(Key)] /\ todo'[c] = Tail(todo[c])
  BY <1>1 DEF NextRecord
<1>3. CASE Len(todo[c]) > 1
  <2>1. Tail(todo[c]) # <<>>
    BY <1>3, TailOfMessage
  <2> QED BY <1>2, <1>3, <2>1 DEF NextRecord, Pc
<1>4. CASE ~(Len(todo[c]) > 1)
  <2>1. /\ pc' = [pc EXCEPT ![c] = "commit"]
        /\ stored' = [stored EXCEPT ![c] = @ \cup {position[c]}]
    BY <1>4 DEF NextRecord, Finish
  <2>2. stored' \in [Consumer -> SUBSET Nat]
    BY <2>1
  <2>3. work' = [work EXCEPT ![c] = NoWork] /\ todo' = [todo EXCEPT ![c] = Tail(@)]
    BY DEF NextRecord
  <2> QED BY <1>2, <2>1, <2>2, <2>3 DEF Pc
<1> QED BY <1>3, <1>4

LEMMA NoWorkType == NoWork \in Work
BY DEF NoWork, Work

\* What is known of one consumer, one flight.
LEMMA ConsumerTypes ==
    ASSUME TypeOK, NEW c \in Consumer
    PROVE  /\ log[c] \in Seq(Parsed \cup {Unparsable}) /\ Len(log[c]) \in Nat
           /\ committed[c] \in Nat \cup {None} /\ position[c] \in Nat
           /\ pc[c] \in Pc /\ todo[c] \in Seq(Key)
           /\ work[c].isNew \in BOOLEAN /\ work[c].record \in Nat
           /\ work[c].target \in Flight \cup {None}
           /\ work[c].count \in Nat /\ work[c].first \in Key \cup {None}
           /\ work[c] \in Work
           /\ stored[c] \subseteq Nat /\ skipped[c] \subseteq Nat
           /\ jumped[c] \subseteq Nat
<1>1. work[c] \in Work
  BY DEF TypeOK
<1>2. log[c] \in Seq(Parsed \cup {Unparsable}) /\ Len(log[c]) \in Nat
  BY DEF TypeOK
<1> QED BY <1>1, <1>2 DEF TypeOK, Work

LEMMA FlightTypes ==
    ASSUME TypeOK, NEW f \in Flight
    PROVE  /\ flights[f] \in FlightDoc
           /\ flights[f].count \in Nat
           /\ flights[f].first \in Key \cup {None}
           /\ everLinked[f] \subseteq Nat
           /\ routes[f] \in Key \cup {None}
<1>1. flights[f] \in FlightDoc
  BY DEF TypeOK
<1> QED BY <1>1 DEF TypeOK, FlightDoc

\* A step of consumer c keeps what is known of the others.
LEMMA LocalsOfOthers ==
    ASSUME TypeOK, Locals, NEW c \in Consumer, LocalsOf(c)',
           Len(records') \in Nat, Len(records') >= Len(records),
           UNCHANGED log,
           \A d \in Consumer : d # c =>
              /\ pc'[d] = pc[d] /\ todo'[d] = todo[d] /\ work'[d] = work[d]
              /\ position'[d] = position[d] /\ committed'[d] = committed[d]
    PROVE  Locals'
<1> SUFFICES ASSUME NEW d \in Consumer, d # c PROVE LocalsOf(d)'
  BY DEF Locals
<1>1. Len(records) \in Nat
  BY DEF TypeOK
<1> QED BY <1>1 DEF Locals, LocalsOf

\* The step to the next record keeps the types, whatever it does to the
\* flights and routes.
LEMMA NextRecordLocals ==
    ASSUME TypeOK, Locals, NEW c \in Consumer, todo[c] # <<>>, NextRecord(c),
           pc[c] \notin {"down", "ended", "poll"},
           UNCHANGED <<offsets, records, db, faults, skipped, jumped, everLinked>>,
           flights' \in [Flight -> FlightDoc],
           routes' \in [Flight \cup {None} -> Key \cup {None}]
    PROVE  TypeOK' /\ Locals'
<1>0. /\ todo' \in [Consumer -> Seq(Key)] /\ stored' \in [Consumer -> SUBSET Nat]
      /\ pc' \in [Consumer -> Pc] /\ work' = [work EXCEPT ![c] = NoWork]
  BY NextRecordFacts
<1>1. TypeOK'
  <2>1. work' \in [Consumer -> Work]
    BY <1>0, NoWorkType DEF TypeOK
  <2> QED BY <1>0, <2>1 DEF TypeOK, offsets
<1>2. /\ pc'[c] \in {"store", "commit"}
      /\ pc'[c] = "store" => todo'[c] # <<>>
      /\ work'[c] = NoWork
  BY NextRecordFacts DEF TypeOK
<1>3. LocalsOf(c)'
  BY <1>2 DEF Locals, LocalsOf, InHand, InCollection, offsets
<1>4. \A d \in Consumer : d # c =>
         pc'[d] = pc[d] /\ todo'[d] = todo[d] /\ work'[d] = work[d]
  BY NextRecordFacts DEF TypeOK
<1>5. Len(records) \in Nat /\ UNCHANGED <<log, committed, position, records>>
  BY DEF TypeOK, offsets
<1> QED BY <1>1, <1>3, <1>4, <1>5, LocalsOfOthers

LEMMA ProduceTypes ==
    ASSUME TypeOK, Locals, NEW c \in Consumer, NEW m \in Parsed \cup {Unparsable},
           Produce(c, m)
    PROVE  TypeOK' /\ Locals'
<1> USE DEF offsets, local, database, history
<1>1. log' \in [Consumer -> Seq(Parsed \cup {Unparsable})]
  BY DEF Produce, TypeOK
<1>2. \A d \in Consumer : Len(log'[d]) \in Nat /\ Len(log'[d]) >= Len(log[d])
  BY DEF Produce, TypeOK
<1>3. UNCHANGED <<committed, position, pc, todo, work, records, flights, routes, db,
                  faults, stored, skipped, jumped, everLinked>>
  BY DEF Produce
<1>4. TypeOK'
  BY <1>1, <1>3 DEF TypeOK
<1>5. ASSUME NEW d \in Consumer PROVE LocalsOf(d)'
  BY <1>2, <1>3, ConsumerTypes DEF Locals, LocalsOf
<1> QED BY <1>4, <1>5 DEF Locals

LEMMA FlightChangesTypes ==
    ASSUME TypeOK, Locals, NEW f \in Flight, NEW old, NEW new \in {"active", "deleted"},
           FlightChanges(f, old, new)
    PROVE  TypeOK' /\ Locals'
<1> USE DEF offsets, local, database, history
<1>1. [flights[f] EXCEPT !.status = new] \in FlightDoc
  BY FlightTypes DEF FlightDoc
<1>2. flights' \in [Flight -> FlightDoc]
  BY <1>1 DEF FlightChanges, TypeOK
<1>3. UNCHANGED <<log, committed, position, pc, todo, work, records, routes, db,
                  faults, stored, skipped, jumped, everLinked>>
  BY DEF FlightChanges
<1>4. TypeOK'
  BY <1>2, <1>3 DEF TypeOK
<1>5. Locals'
  BY <1>3 DEF Locals, LocalsOf
<1> QED BY <1>4, <1>5

LEMMA StartTypes ==
    ASSUME TypeOK, Locals, NEW c \in Consumer, Start(c)
    PROVE  TypeOK' /\ Locals'
<1> USE DEF offsets, local, database, history
<1> DEFINE from == IF committed[c] # None THEN committed[c]
                   ELSE IF Earliest THEN 0
                   ELSE Len(log[c])
<1>1. from \in Nat /\ from <= Len(log[c])
  BY ConsumerTypes DEF Locals, LocalsOf
<1>2. /\ position' = [position EXCEPT ![c] = from]
      /\ jumped' = [jumped EXCEPT
                      ![c] = IF committed[c] = None THEN @ \cup 1..from ELSE @]
      /\ pc' = [pc EXCEPT ![c] = "poll"]
      /\ UNCHANGED <<log, committed, todo, work, records, flights, routes, db, faults,
                     stored, skipped, everLinked>>
  BY DEF Start, At
<1> HIDE DEF from
<1>3. jumped' \in [Consumer -> SUBSET Nat]
  BY <1>1, <1>2 DEF TypeOK
<1>4. TypeOK'
  BY <1>1, <1>2, <1>3 DEF TypeOK, Pc
<1>5. LocalsOf(c)'
  <2>1. /\ position'[c] = from /\ pc'[c] = "poll" /\ pc[c] = "down"
        /\ UNCHANGED <<log, committed, work>>
    BY <1>2 DEF Start, At, TypeOK
  <2> QED BY <1>1, <2>1 DEF Locals, LocalsOf, InHand, InCollection
<1>6. Len(records) \in Nat
  BY DEF TypeOK
<1>7. Locals'
  BY <1>2, <1>5, <1>6, LocalsOfOthers DEF TypeOK
<1> QED BY <1>4, <1>7

LEMMA FetchTypes ==
    ASSUME TypeOK, Locals, NEW c \in Consumer, Fetch(c)
    PROVE  TypeOK' /\ Locals'
<1> USE DEF offsets, local, database, history
<1>1. TypeOK'
  BY DEF Fetch, At, TypeOK, Pc
<1>2. LocalsOf(c)'
  <2>1. /\ position'[c] = position[c] + 1 /\ position[c] < Len(log[c])
        /\ pc'[c] = "health" /\ pc[c] = "poll"
        /\ UNCHANGED <<log, committed, work>>
    BY DEF Fetch, At, TypeOK
  <2> QED BY <2>1, ConsumerTypes DEF Locals, LocalsOf, InHand, InCollection
<1>3. Len(records) \in Nat
  BY DEF TypeOK
<1>4. Locals'
  BY <1>2, <1>3, LocalsOfOthers DEF Fetch, At, TypeOK
<1> QED BY <1>1, <1>4

LEMMA ParseTypes ==
    ASSUME TypeOK, Locals, NEW c \in Consumer, Parse(c)
    PROVE  TypeOK' /\ Locals'
<1> USE DEF offsets, local, database, history
<1>1. position[c] \in 1..Len(log[c])
  BY ConsumerTypes DEF Parse, Locals, LocalsOf
<1>2. Current(c) \in Parsed \cup {Unparsable}
  BY <1>1, ConsumerTypes DEF Current
<1>3. pc[c] = "health" /\ UNCHANGED <<log, committed, position, work, records, flights,
                                      routes, db, faults, jumped, everLinked>>
  BY DEF Parse
<1>4. position[c] \in Nat
  BY ConsumerTypes
<1>5. CASE /\ At(c, "health", "poll")
           /\ Skip(c)
           /\ UNCHANGED <<todo, stored>>
  <2>1. skipped' \in [Consumer -> SUBSET Nat]
    BY <1>4, <1>5 DEF Skip, TypeOK
  <2>2. TypeOK'
    BY <1>3, <1>5, <2>1 DEF TypeOK, At, Pc
  <2>3. Locals'
    BY <1>3, <1>5 DEF Locals, LocalsOf, TypeOK, At, InHand, InCollection
  <2> QED BY <2>2, <2>3
<1>6. CASE /\ At(c, "health", "commit")
           /\ Finish(c)
           /\ UNCHANGED <<todo, skipped>>
  <2>1. stored' \in [Consumer -> SUBSET Nat]
    BY <1>4, <1>6 DEF Finish, TypeOK
  <2>2. TypeOK'
    BY <1>3, <1>6, <2>1 DEF TypeOK, At, Pc
  <2>3. Locals'
    BY <1>3, <1>6 DEF Locals, LocalsOf, TypeOK, At, InHand, InCollection
  <2> QED BY <2>2, <2>3
<1>7. CASE /\ Current(c) \notin {Unparsable, <<>>}
           /\ At(c, "health", "store")
           /\ todo' = [todo EXCEPT ![c] = Current(c)]
           /\ UNCHANGED <<stored, skipped>>
  <2>1. todo' \in [Consumer -> Seq(Key)] /\ todo'[c] # <<>>
    BY <1>2, <1>7 DEF TypeOK
  <2>2. TypeOK'
    BY <1>3, <1>7, <2>1 DEF TypeOK, At, Pc
  <2>3. LocalsOf(c)'
    BY <1>3, <1>7, <2>1 DEF Locals, LocalsOf, TypeOK, At, InHand, InCollection
  <2>4. Len(records) \in Nat
    BY DEF TypeOK
  <2>5. Locals'
    BY <1>3, <1>7, <2>3, <2>4, LocalsOfOthers DEF TypeOK, At
  <2> QED BY <2>2, <2>5
<1> QED BY <1>5, <1>6, <1>7 DEF Parse

LEMMA CommitTypes ==
    ASSUME TypeOK, Locals, NEW c \in Consumer, Commit(c)
    PROVE  TypeOK' /\ Locals'
<1> USE DEF offsets, local, database, history
<1>1. TypeOK'
  BY DEF Commit, At, TypeOK, Pc
<1>2. LocalsOf(c)'
  BY DEF Commit, At, Locals, LocalsOf, TypeOK, InHand, InCollection
<1>3. Len(records) \in Nat
  BY DEF TypeOK
<1>4. Locals'
  BY <1>2, <1>3, LocalsOfOthers DEF Commit, At, TypeOK
<1> QED BY <1>1, <1>4

\* What StoreRecord does to the collection and to the local variables.
LEMMA StoreRecordFacts ==
    ASSUME TypeOK, NEW c \in Consumer, StoreRecord(c), todo[c] # <<>>
    PROVE  LET k == Head(todo[c]) IN
           \E r \in 1..Len(records') :
              /\ work' = [work EXCEPT ![c].isNew = Inserts(k), ![c].record = r]
              /\ Inserts(k) \in BOOLEAN
              /\ \/ /\ r = Len(records) + 1
                    /\ records' = Append(records, [key |-> k, linked |-> None])
                    /\ Len(records') = Len(records) + 1
                    /\ Inserts(k)
                 \/ /\ ~Inserts(k) /\ Keyed
                    /\ records' = records
                    /\ records[r].key = k
<1> DEFINE k == Head(todo[c])
<1>1. Inserts(k) \in BOOLEAN
  BY DEF Inserts
<1>2. CASE Inserts(k)
  <2>1. /\ records' = Append(records, [key |-> k, linked |-> None])
        /\ work' = [work EXCEPT ![c].isNew = Inserts(k), ![c].record = Len(records) + 1]
    BY <1>2 DEF StoreRecord, Inserts
  <2>2. Len(records') = Len(records) + 1 /\ Len(records) + 1 \in 1..Len(records')
    <3>1. [key |-> k, linked |-> None] \in Record
      BY TailOfMessage, ConsumerTypes DEF Record
    <3> QED BY <2>1, <3>1 DEF TypeOK
  <2> QED BY <1>1, <1>2, <2>1, <2>2
<1>3. CASE ~Inserts(k)
  <2>1. Keyed
    BY <1>3 DEF Inserts
  <2>2. PICK i \in RecordOf(k) :
             work' = [work EXCEPT ![c].isNew = Inserts(k), ![c].record = i]
    BY <1>3 DEF StoreRecord, Inserts
  <2>3. records' = records
    BY <1>3 DEF StoreRecord, Inserts
  <2>4. i \in 1..Len(records') /\ records[i].key = k
    BY <2>2, <2>3 DEF RecordOf, TypeOK
  <2> QED BY <1>1, <1>3, <2>1, <2>2, <2>3, <2>4
<1> QED BY <1>2, <1>3

LEMMA StoreRecordTypes ==
    ASSUME TypeOK, Locals, NEW c \in Consumer, StoreRecord(c)
    PROVE  TypeOK' /\ Locals'
<1> USE DEF offsets, history
<1>1. pc[c] = "store" /\ todo[c] # <<>> /\ Head(todo[c]) \in Key /\ work[c] = NoWork
  BY TailOfMessage, ConsumerTypes
     DEF StoreRecord, At, Locals, LocalsOf, InHand, InCollection
<1>2. /\ UNCHANGED <<log, committed, position, todo, flights, routes, db, faults,
                     stored, skipped, jumped, everLinked>>
      /\ pc' = [pc EXCEPT ![c] = "find"]
  BY DEF StoreRecord, At
<1>3. PICK r \in 1..Len(records') :
         /\ work' = [work EXCEPT ![c].isNew = Inserts(Head(todo[c])), ![c].record = r]
         /\ Inserts(Head(todo[c])) \in BOOLEAN
         /\ \/ records' = Append(records, [key |-> Head(todo[c]), linked |-> None])
            \/ records' = records
  BY <1>1, StoreRecordFacts
<1>4. /\ records' \in Seq(Record)
      /\ Len(records') \in Nat /\ Len(records') >= Len(records)
  <2> DEFINE new == [key |-> Head(todo[c]), linked |-> None]
  <2>1. new \in Record
    BY <1>1 DEF Record
  <2>2. records' = Append(records, new) \/ records' = records
    BY <1>3
  <2> HIDE DEF new
  <2>3. records \in Seq(Record)
    BY DEF TypeOK
  <2> QED BY <2>1, <2>2, <2>3
<1> DEFINE w == [NoWork EXCEPT !.isNew = Inserts(Head(todo[c])), !.record = r]
<1>5. work' = [work EXCEPT ![c] = w]
  BY <1>1, <1>3
<1>6. w \in Work /\ w.target = None /\ w.record = r
  <2>1. r \in Nat
    BY <1>4
  <2> QED BY <1>3, <2>1 DEF NoWork, Work
<1> HIDE DEF w
<1>7. TypeOK'
  BY <1>2, <1>4, <1>5, <1>6 DEF TypeOK, Pc
<1>8. LocalsOf(c)'
  BY <1>1, <1>2, <1>3, <1>4, <1>5, <1>6
     DEF Locals, LocalsOf, TypeOK, InHand, InCollection
<1>9. Locals'
  BY <1>2, <1>4, <1>5, <1>8, LocalsOfOthers DEF TypeOK
<1> QED BY <1>7, <1>9

LEMMA SetWork ==
    ASSUME TypeOK, NEW c \in Consumer, NEW w \in Work,
           work' = [work EXCEPT ![c] = w]
    PROVE  /\ work' \in [Consumer -> Work] /\ work'[c] = w
           /\ \A d \in Consumer : d # c => work'[d] = work[d]
BY DEF TypeOK

\* How a flight comes into the hand of FindFlight.
LEMMA FoundFacts ==
    ASSUME TypeOK, NEW c \in Consumer, NEW f \in Linkable,
           work' = [work EXCEPT ![c].target = f,
                                ![c].count = flights[f].count,
                                ![c].first = flights[f].first]
    PROVE  /\ f \in Flight
           /\ work' \in [Consumer -> Work]
           /\ work'[c].target = f /\ work'[c].record = work[c].record
           /\ work'[c].isNew = work[c].isNew
           /\ work'[c].count = flights[f].count
           /\ work'[c].first = flights[f].first
           /\ \A d \in Consumer : d # c => work'[d] = work[d]
<1> DEFINE w == [work[c] EXCEPT !.target = f, !.count = flights[f].count,
                                !.first = flights[f].first]
<1>1. f \in Flight
  BY DEF Linkable
<1>2. work[c] \in Work
  BY ConsumerTypes
<1>3. flights[f].count \in Nat /\ flights[f].first \in Key \cup {None}
  BY <1>1, FlightTypes
<1>4. /\ w \in Work /\ w.target = f /\ w.record = work[c].record
      /\ w.isNew = work[c].isNew /\ w.count = flights[f].count
      /\ w.first = flights[f].first
  BY <1>1, <1>2, <1>3 DEF Work
<1>5. work' = [work EXCEPT ![c] = w]
  OBVIOUS
<1> HIDE DEF w
<1>6. /\ work' \in [Consumer -> Work] /\ work'[c] = w
      /\ \A d \in Consumer : d # c => work'[d] = work[d]
  BY <1>4, <1>5, SetWork
<1> QED BY <1>1, <1>4, <1>6

LEMMA FindFlightTypes ==
    ASSUME TypeOK, Locals, NEW c \in Consumer, FindFlight(c)
    PROVE  TypeOK' /\ Locals'
<1> USE DEF offsets, database
<1>1. pc[c] = "find" /\ todo[c] # <<>> /\ work[c].record \in 1..Len(records)
  BY DEF FindFlight, At, Locals, LocalsOf, InHand, InCollection
<1>2. UNCHANGED <<log, committed, position, records, flights, routes, db, faults,
                  skipped, jumped, everLinked>>
  BY DEF FindFlight
<1>3. Len(records) \in Nat
  BY DEF TypeOK
<1>4. CASE NextRecord(c)
  <2>1. flights \in [Flight -> FlightDoc] /\ routes \in [Flight \cup {None} -> Key \cup {None}]
    BY DEF TypeOK
  <2> QED BY <1>1, <1>2, <1>4, <2>1, NextRecordLocals
<1>5. CASE /\ At(c, "find", "route")
           /\ UNCHANGED <<todo, work, stored>>
  <2>1. TypeOK'
    BY <1>2, <1>5 DEF TypeOK, At, Pc
  <2>2. LocalsOf(c)'
    BY <1>1, <1>2, <1>5 DEF Locals, LocalsOf, TypeOK, At, InHand, InCollection
  <2>3. Locals'
    BY <1>2, <1>3, <1>5, <2>2, LocalsOfOthers DEF TypeOK, At
  <2> QED BY <2>1, <2>3
<1>6. ASSUME NEW f \in Linkable,
             At(c, "find", "mark"),
             work' = [work EXCEPT ![c].target = f,
                                  ![c].count = flights[f].count,
                                  ![c].first = flights[f].first],
             UNCHANGED <<todo, stored>>
      PROVE  TypeOK' /\ Locals'
  <2>1. /\ f \in Flight /\ work' \in [Consumer -> Work]
        /\ work'[c].target = f /\ work'[c].record = work[c].record
        /\ \A d \in Consumer : d # c => work'[d] = work[d]
    BY <1>6, FoundFacts
  <2>2. TypeOK'
    BY <1>2, <1>6, <2>1 DEF TypeOK, At, Pc
  <2>3. pc'[c] = "mark" /\ \A d \in Consumer : d # c => pc'[d] = pc[d]
    BY <1>6 DEF At, TypeOK
  <2>4. LocalsOf(c)'
    BY <1>1, <1>2, <1>6, <2>1, <2>3 DEF Locals, LocalsOf, InHand, InCollection
  <2>5. Locals'
    BY <1>2, <1>3, <1>6, <2>1, <2>3, <2>4, LocalsOfOthers
  <2> QED BY <2>2, <2>5
<1> QED BY <1>4, <1>5, <1>6 DEF FindFlight

\* What MarkLinked does to the collection and to the history.
LEMMA MarkLinkedFacts ==
    ASSUME TypeOK, Locals, NEW c \in Consumer, MarkLinked(c)
    PROVE  LET r == work[c].record
               f == work[c].target
           IN  /\ pc[c] = "mark" /\ pc' = [pc EXCEPT ![c] = "update"]
               /\ r \in 1..Len(records) /\ f \in Flight
               /\ records' \in Seq(Record) /\ Len(records') = Len(records)
               /\ records'[r].linked = f
               /\ \A i \in 1..Len(records) :
                     /\ records'[i].key = records[i].key
                     /\ i # r => records'[i].linked = records[i].linked
               /\ everLinked' \in [Flight -> SUBSET Nat]
               /\ everLinked'[f] = everLinked[f] \cup {r}
               /\ \A g \in Flight : g # f => everLinked'[g] = everLinked[g]
<1> DEFINE r == work[c].record
           f == work[c].target
           doc == [records[r] EXCEPT !.linked = f]
<1>1. pc[c] = "mark" /\ pc' = [pc EXCEPT ![c] = "update"]
  BY DEF MarkLinked, At
<1>2. r \in 1..Len(records) /\ f \in Flight
  BY <1>1 DEF Locals, LocalsOf, InCollection
<1>3. records \in Seq(Record) /\ records[r] \in Record
  BY <1>2 DEF TypeOK
<1>4. doc \in Record /\ doc.key = records[r].key /\ doc.linked = f
  BY <1>2, <1>3 DEF Record
<1>5. records' = [records EXCEPT ![r] = doc]
  BY DEF MarkLinked
<1>6. everLinked' = [everLinked EXCEPT ![f] = @ \cup {r}]
  BY DEF MarkLinked
<1> HIDE DEF doc, r, f
<1>7. /\ records' \in Seq(Record) /\ Len(records') = Len(records)
      /\ records'[r] = doc
      /\ \A i \in 1..Len(records) : i # r => records'[i] = records[i]
  BY <1>2, <1>3, <1>4, <1>5
<1>8. everLinked' \in [Flight -> SUBSET Nat]
  BY <1>2, <1>6 DEF TypeOK
<1>9. /\ everLinked'[f] = everLinked[f] \cup {r}
      /\ \A g \in Flight : g # f => everLinked'[g] = everLinked[g]
  BY <1>2, <1>6 DEF TypeOK
<1> QED BY <1>1, <1>2, <1>4, <1>7, <1>8, <1>9 DEF r, f

LEMMA MarkLinkedTypes ==
    ASSUME TypeOK, Locals, NEW c \in Consumer, MarkLinked(c)
    PROVE  TypeOK' /\ Locals'
<1>1. UNCHANGED <<log, committed, position, todo, work, flights, routes, db, faults,
                  stored, skipped, jumped>>
  BY DEF MarkLinked, offsets
<1>2. /\ pc[c] = "mark" /\ pc' = [pc EXCEPT ![c] = "update"]
      /\ work[c].record \in 1..Len(records) /\ work[c].target \in Flight
      /\ records' \in Seq(Record) /\ Len(records') = Len(records)
      /\ everLinked' \in [Flight -> SUBSET Nat]
  BY MarkLinkedFacts
<1>3. TypeOK'
  BY <1>1, <1>2 DEF TypeOK, Pc
<1>4. LocalsOf(c)'
  BY <1>1, <1>2 DEF Locals, LocalsOf, TypeOK, InHand, InCollection
<1>5. Len(records) \in Nat
  BY DEF TypeOK
<1>6. Locals'
  BY <1>1, <1>2, <1>4, <1>5, LocalsOfOthers DEF TypeOK
<1> QED BY <1>3, <1>6

\* What UpdateSummary does to the flights.
LEMMA UpdateSummaryFacts ==
    ASSUME TypeOK, Locals, NEW c \in Consumer, UpdateSummary(c)
    PROVE  LET f == work[c].target
           IN  /\ pc[c] = "update" /\ f \in Flight /\ todo[c] # <<>>
               /\ flights' \in [Flight -> FlightDoc]
               /\ flights'[f].count = IF work[c].isNew THEN work[c].count + 1
                                      ELSE work[c].count
               /\ flights'[f].first \in FirstIgtds(c)
               /\ \A g \in Flight : g # f => flights'[g] = flights[g]
               /\ UNCHANGED <<log, committed, position, records, routes, db, faults,
                              skipped, jumped, everLinked>>
               /\ \/ /\ ~Keyed
                     /\ pc' = [pc EXCEPT ![c] = "route"]
                     /\ UNCHANGED <<todo, work, stored>>
                  \/ Keyed /\ NextRecord(c)
<1> DEFINE f == work[c].target
           n == IF work[c].isNew THEN work[c].count + 1 ELSE work[c].count
<1>1. pc[c] = "update"
  BY DEF UpdateSummary
<1>2. /\ f \in Flight /\ todo[c] # <<>> /\ Head(todo[c]) \in Key
      /\ work[c].first \in Key \cup {None} /\ n \in Nat
  BY <1>1, TailOfMessage, ConsumerTypes DEF Locals, LocalsOf, InHand
<1>3. PICK first \in FirstIgtds(c) :
           flights' = [flights EXCEPT ![f].count = n, ![f].first = first]
  BY DEF UpdateSummary
<1>4. first \in Key \cup {None}
  BY <1>2 DEF FirstIgtds
<1> DEFINE doc == [flights[f] EXCEPT !.count = n, !.first = first]
<1>5. flights[f] \in FlightDoc
  BY <1>2, FlightTypes
<1>6. doc \in FlightDoc /\ doc.count = n /\ doc.first = first
  BY <1>2, <1>4, <1>5 DEF FlightDoc
<1>7. flights' = [flights EXCEPT ![f] = doc]
  BY <1>3
<1> HIDE DEF doc, n, f
<1>8. /\ flights' \in [Flight -> FlightDoc] /\ flights'[f] = doc
      /\ \A g \in Flight : g # f => flights'[g] = flights[g]
  BY <1>2, <1>6, <1>7 DEF TypeOK
<1>9. /\ UNCHANGED <<log, committed, position, records, routes, db, faults,
                     skipped, jumped, everLinked>>
      /\ \/ /\ ~Keyed
            /\ pc' = [pc EXCEPT ![c] = "route"]
            /\ UNCHANGED <<todo, work, stored>>
         \/ Keyed /\ NextRecord(c)
  BY DEF UpdateSummary, At, offsets
<1> QED BY <1>1, <1>2, <1>3, <1>6, <1>8, <1>9 DEF f, n

LEMMA UpdateSummaryTypes ==
    ASSUME TypeOK, Locals, NEW c \in Consumer, UpdateSummary(c)
    PROVE  TypeOK' /\ Locals'
<1>1. /\ pc[c] = "update" /\ work[c].target \in Flight /\ todo[c] # <<>>
      /\ flights' \in [Flight -> FlightDoc]
      /\ UNCHANGED <<log, committed, position, records, routes, db, faults,
                     skipped, jumped, everLinked>>
      /\ \/ /\ pc' = [pc EXCEPT ![c] = "route"]
            /\ UNCHANGED <<todo, work, stored>>
         \/ NextRecord(c)
  BY UpdateSummaryFacts
<1>2. routes' \in [Flight \cup {None} -> Key \cup {None}]
  BY <1>1 DEF TypeOK
<1>3. CASE NextRecord(c)
  BY <1>1, <1>2, <1>3, NextRecordLocals DEF offsets
<1>4. CASE /\ pc' = [pc EXCEPT ![c] = "route"]
           /\ UNCHANGED <<todo, work, stored>>
  <2>1. TypeOK'
    BY <1>1, <1>2, <1>4 DEF TypeOK, Pc
  <2>2. LocalsOf(c)'
    BY <1>1, <1>4 DEF Locals, LocalsOf, TypeOK, InHand, InCollection
  <2>3. Len(records) \in Nat
    BY DEF TypeOK
  <2>4. Locals'
    BY <1>1, <1>4, <2>2, <2>3, LocalsOfOthers DEF TypeOK
  <2> QED BY <2>1, <2>4
<1> QED BY <1>1, <1>3, <1>4

LEMMA UpdateRouteTypes ==
    ASSUME TypeOK, Locals, NEW c \in Consumer, UpdateRoute(c)
    PROVE  TypeOK' /\ Locals'
<1>1. /\ pc[c] = "route" /\ NextRecord(c)
      /\ UNCHANGED <<log, committed, position, records, flights, db, faults, skipped,
                     jumped, everLinked>>
  BY DEF UpdateRoute, offsets
<1>2. /\ todo[c] # <<>> /\ Head(todo[c]) \in Key
      /\ work[c].target \in Flight \cup {None}
  BY <1>1, TailOfMessage, ConsumerTypes DEF Locals, LocalsOf, InHand
<1>3. routes' \in [Flight \cup {None} -> Key \cup {None}]
  BY <1>2 DEF UpdateRoute, TypeOK
<1>4. flights' \in [Flight -> FlightDoc]
  BY <1>1 DEF TypeOK
<1> QED BY <1>1, <1>2, <1>3, <1>4, NextRecordLocals DEF offsets

\* What an exception and the end of the process have in common.
LEMMA GivenUpTypes ==
    ASSUME TypeOK, Locals, NEW c \in Consumer,
           NEW to \in {"poll", "down"}, pc' = [pc EXCEPT ![c] = to],
           todo' = [todo EXCEPT ![c] = <<>>],
           work' = [work EXCEPT ![c] = NoWork],
           skipped' \in [Consumer -> SUBSET Nat],
           faults' \in 0..MaxFaults,
           UNCHANGED <<log, committed, position, records, flights, routes, db,
                       stored, jumped, everLinked>>
    PROVE  TypeOK' /\ Locals'
<1>1. work' \in [Consumer -> Work]
  BY NoWorkType DEF TypeOK
<1>2. TypeOK'
  BY <1>1 DEF TypeOK, Pc
<1>3. pc'[c] = to /\ work'[c] = NoWork
  BY DEF TypeOK
<1>4. LocalsOf(c)'
  BY <1>3 DEF Locals, LocalsOf, InHand, InCollection
<1>5. Len(records) \in Nat
  BY DEF TypeOK
<1>6. \A d \in Consumer : d # c =>
         pc'[d] = pc[d] /\ todo'[d] = todo[d] /\ work'[d] = work[d]
  BY DEF TypeOK
<1>7. Locals'
  BY <1>4, <1>5, <1>6, LocalsOfOthers
<1> QED BY <1>2, <1>7

LEMMA RaisesTypes ==
    ASSUME TypeOK, Locals, NEW c \in Consumer, Raises(c)
    PROVE  TypeOK' /\ Locals'
<1>1. skipped' \in [Consumer -> SUBSET Nat]
  <2>1. position[c] \in Nat
    BY ConsumerTypes
  <2>2. Skip(c) \/ UNCHANGED skipped
    BY DEF Raises
  <2>3. skipped \in [Consumer -> SUBSET Nat]
    BY DEF TypeOK
  <2>4. skipped[c] \cup {position[c]} \in SUBSET Nat
    BY <2>1, <2>3
  <2> QED BY <2>2, <2>3, <2>4 DEF Skip
<1>2. faults' \in 0..MaxFaults
  <2>1. UNCHANGED faults \/ Fault
    BY DEF Raises
  <2> QED BY <2>1 DEF Fault, TypeOK
<1> QED BY <1>1, <1>2, GivenUpTypes DEF Raises, offsets, database

LEMMA CrashTypes ==
    ASSUME TypeOK, Locals, NEW c \in Consumer, Crash(c)
    PROVE  TypeOK' /\ Locals'
<1>1. faults' \in 0..MaxFaults
  BY DEF Crash, Fault, TypeOK
<1>2. skipped' \in [Consumer -> SUBSET Nat]
  BY DEF Crash, history, TypeOK
<1> QED BY <1>1, <1>2, GivenUpTypes DEF Crash, offsets, database, history

LEMMA TaskEndsTypes ==
    ASSUME TypeOK, Locals, NEW c \in Consumer, TaskEnds(c)
    PROVE  TypeOK' /\ Locals'
<1> USE DEF offsets, database, history
<1>1. faults' \in 0..MaxFaults /\ pc' \in [Consumer -> Pc]
  BY DEF TaskEnds, Fault, TypeOK, Pc
<1>0. UNCHANGED <<log, committed, position, todo, work, records, flights, routes, db,
                  stored, skipped, jumped, everLinked>>
  BY DEF TaskEnds
<1>2. TypeOK'
  BY <1>0, <1>1 DEF TypeOK
<1>3. pc'[c] = "ended" /\ pc[c] \in {"down", "poll", "health"}
  BY DEF TaskEnds, TypeOK
<1>4. LocalsOf(c)'
  BY <1>0, <1>3 DEF Locals, LocalsOf, InHand, InCollection
<1>5. Len(records) \in Nat
  BY DEF TypeOK
<1>6. \A d \in Consumer : d # c =>
         /\ pc'[d] = pc[d] /\ todo'[d] = todo[d] /\ work'[d] = work[d]
         /\ position'[d] = position[d] /\ committed'[d] = committed[d]
  BY <1>0 DEF TaskEnds, TypeOK
<1>7. Locals'
  BY <1>0, <1>4, <1>5, <1>6, LocalsOfOthers
<1> QED BY <1>2, <1>7

LEMMA NextTypes == TInv /\ [Next]_vars => TInv'
<1> SUFFICES ASSUME TypeOK, Locals, [Next]_vars PROVE TypeOK' /\ Locals'
  BY DEF TInv
<1> USE DEF offsets, local, database, history
<1>1. ASSUME NEW f \in Flight, AddFlight(f) \/ DeleteFlight(f)
      PROVE  TypeOK' /\ Locals'
  BY <1>1, FlightChangesTypes DEF AddFlight, DeleteFlight
<1>2. CASE DbFails \/ DbRecovers
  <2>1. faults' \in 0..MaxFaults /\ db' \in {"up", "down"}
    BY <1>2 DEF DbFails, DbRecovers, Fault, TypeOK
  <2>2. UNCHANGED <<offsets, local, database, history>>
    BY <1>2 DEF DbFails, DbRecovers
  <2>3. TypeOK'
    BY <2>1, <2>2 DEF TypeOK
  <2>4. Locals'
    BY <2>2 DEF Locals, LocalsOf
  <2> QED BY <2>3, <2>4
<1>3. CASE UNCHANGED vars
  <2>1. TypeOK'
    BY <1>3 DEF vars, TypeOK
  <2>2. Locals'
    BY <1>3 DEF vars, Locals, LocalsOf
  <2> QED BY <2>1, <2>2
<1>4. ASSUME NEW c \in Consumer, ConsumerStep(c) \/ TaskEnds(c) \/ Crash(c)
      PROVE  TypeOK' /\ Locals'
  BY <1>4, StartTypes, FetchTypes, ParseTypes, StoreRecordTypes, FindFlightTypes,
     MarkLinkedTypes, UpdateSummaryTypes, UpdateRouteTypes, CommitTypes,
     RaisesTypes, TaskEndsTypes, CrashTypes DEF ConsumerStep
<1> QED BY <1>1, <1>2, <1>3, <1>4, ProduceTypes DEF Next

\* Every variable keeps its type, whatever the consumers do to each other, and
\* no step of _store meets a local variable that an earlier one did not set.
THEOREM FeedsTypes == Spec => []TypeOK
<1>1. Init => TInv
  BY InitTypes
<1>2. TInv => TypeOK
  BY DEF TInv
<1> QED BY <1>1, <1>2, NextTypes, PTL DEF Spec

-----------------------------------------------------------------------------
(* Accounted offsets.                                                      *)

\* What CommittedIsAccounted says of one consumer; about to commit, it has
\* accounted for the message in hand too.
AccountedOf(c) ==
    /\ committed[c] # None => \A n \in 1..committed[c] : Accounted(c, n)
    /\ pc[c] \notin {"down", "ended"} =>
          \A n \in 1..position[c] :
              Accounted(c, n) \/ (n = position[c] /\ pc[c] # "poll")
    /\ pc[c] = "commit" => Accounted(c, position[c])

AInv == \A c \in Consumer : AccountedOf(c)

LEMMA InitAccounted == Init => AInv
BY DEF Init, AInv, AccountedOf

LEMMA AccountedIsCommitted == AInv => CommittedIsAccounted
BY DEF AInv, AccountedOf, CommittedIsAccounted

\* The history only grows.
LEMMA AccountedKept ==
    ASSUME NEW c \in Consumer, AccountedOf(c),
           stored[c] \subseteq stored'[c], skipped[c] \subseteq skipped'[c],
           jumped[c] \subseteq jumped'[c],
           committed'[c] = committed[c], position'[c] = position[c],
           pc'[c] = pc[c]
    PROVE  AccountedOf(c)'
BY DEF AccountedOf, Accounted

\* A step from one point with the message in hand to another.
LEMMA AccountedInHand ==
    ASSUME NEW c \in Consumer, AccountedOf(c),
           stored[c] \subseteq stored'[c], skipped'[c] = skipped[c],
           jumped'[c] = jumped[c],
           committed'[c] = committed[c], position'[c] = position[c],
           pc[c] \notin {"down", "ended"}, pc'[c] # "poll",
           pc'[c] = "commit" => Accounted(c, position[c])'
    PROVE  AccountedOf(c)'
BY DEF AccountedOf, Accounted

\* The other consumers are left alone.
OthersKept(c) ==
    \A d \in Consumer : d # c =>
       /\ committed'[d] = committed[d] /\ position'[d] = position[d]
       /\ pc'[d] = pc[d] /\ stored'[d] = stored[d]
       /\ skipped'[d] = skipped[d] /\ jumped'[d] = jumped[d]

LEMMA AccountedOfOthers ==
    ASSUME AInv, NEW c \in Consumer, OthersKept(c), AccountedOf(c)'
    PROVE  AInv'
<1> SUFFICES ASSUME NEW d \in Consumer, d # c PROVE AccountedOf(d)'
  BY DEF AInv
<1> QED BY AccountedKept DEF AInv, OthersKept

LEMMA NextRecordAccounted ==
    ASSUME TypeOK, AInv, NEW c \in Consumer, todo[c] # <<>>, NextRecord(c),
           pc[c] \notin {"down", "ended"},
           UNCHANGED <<committed, position, skipped, jumped>>
    PROVE  AInv'
<1>1. /\ pc'[c] \in {"store", "commit"} /\ stored[c] \subseteq stored'[c]
      /\ pc'[c] = "commit" => position[c] \in stored'[c]
      /\ \A d \in Consumer : d # c => pc'[d] = pc[d] /\ stored'[d] = stored[d]
  BY NextRecordFacts
<1>2. AccountedOf(c)'
  BY <1>1, AccountedInHand DEF AInv, Accounted
<1> QED BY <1>1, <1>2, AccountedOfOthers DEF OthersKept

LEMMA StartAccounted ==
    ASSUME TInv, AInv, NEW c \in Consumer, Start(c) PROVE AInv'
<1> DEFINE from == IF committed[c] # None THEN committed[c]
                   ELSE IF Earliest THEN 0
                   ELSE Len(log[c])
<1>1. /\ position' = [position EXCEPT ![c] = from]
      /\ jumped' = [jumped EXCEPT
                      ![c] = IF committed[c] = None THEN @ \cup 1..from ELSE @]
      /\ pc' = [pc EXCEPT ![c] = "poll"]
      /\ UNCHANGED <<committed, stored, skipped>>
  BY DEF Start, At
<1>2. committed[c] # None => from = committed[c]
  OBVIOUS
<1> HIDE DEF from
<1>3. /\ position'[c] = from /\ pc'[c] = "poll"
      /\ jumped'[c] = IF committed[c] = None THEN jumped[c] \cup 1..from ELSE jumped[c]
  BY <1>1 DEF TInv, TypeOK
<1>4. AccountedOf(c)'
  BY <1>1, <1>2, <1>3 DEF AInv, AccountedOf, Accounted
<1>5. OthersKept(c)
  BY <1>1 DEF OthersKept, TInv, TypeOK
<1> QED BY <1>4, <1>5, AccountedOfOthers

LEMMA FetchAccounted ==
    ASSUME TInv, AInv, NEW c \in Consumer, Fetch(c) PROVE AInv'
<1>1. /\ position'[c] = position[c] + 1 /\ pc[c] = "poll" /\ pc'[c] = "health"
      /\ UNCHANGED <<committed, stored, skipped, jumped>>
  BY DEF Fetch, At, history, TInv, TypeOK
<1>2. position[c] \in Nat
  BY ConsumerTypes DEF TInv
<1>3. \A n \in 1..position'[c] : n = position'[c] \/ n \in 1..position[c]
  BY <1>1, <1>2
<1>4. AccountedOf(c)'
  BY <1>1, <1>3 DEF AInv, AccountedOf, Accounted
<1>5. OthersKept(c)
  BY DEF Fetch, At, history, OthersKept, TInv, TypeOK
<1> QED BY <1>4, <1>5, AccountedOfOthers

LEMMA ParseAccounted ==
    ASSUME TInv, AInv, NEW c \in Consumer, Parse(c) PROVE AInv'
<1>1. pc[c] = "health" /\ UNCHANGED <<committed, position, jumped>>
  BY DEF Parse, offsets
<1>2. OthersKept(c)
  BY <1>1 DEF Parse, At, Skip, Finish, OthersKept, TInv, TypeOK
<1>3. CASE At(c, "health", "poll") /\ Skip(c) /\ UNCHANGED stored
  <2>1. pc'[c] = "poll" /\ skipped'[c] = skipped[c] \cup {position[c]}
    BY <1>3 DEF At, Skip, TInv, TypeOK
  <2>2. AccountedOf(c)'
    BY <1>1, <1>3, <2>1 DEF AInv, AccountedOf, Accounted
  <2> QED BY <1>2, <2>2, AccountedOfOthers
<1>4. CASE At(c, "health", "commit") /\ Finish(c) /\ UNCHANGED skipped
  <2>1. pc'[c] = "commit" /\ stored'[c] = stored[c] \cup {position[c]}
    BY <1>4 DEF At, Finish, TInv, TypeOK
  <2>2. AccountedOf(c)'
    BY <1>1, <1>4, <2>1, AccountedInHand DEF AInv, Accounted
  <2> QED BY <1>2, <2>2, AccountedOfOthers
<1>5. CASE At(c, "health", "store") /\ UNCHANGED <<stored, skipped>>
  <2>1. pc'[c] = "store"
    BY <1>5 DEF At, TInv, TypeOK
  <2>2. AccountedOf(c)'
    BY <1>1, <1>5, <2>1, AccountedInHand DEF AInv
  <2> QED BY <1>2, <2>2, AccountedOfOthers
<1> QED BY <1>3, <1>4, <1>5 DEF Parse

LEMMA CommitAccounted ==
    ASSUME TInv, AInv, NEW c \in Consumer, Commit(c) PROVE AInv'
<1>1. /\ committed'[c] = position[c] /\ pc[c] = "commit" /\ pc'[c] = "poll"
      /\ UNCHANGED <<position, stored, skipped, jumped>>
  BY DEF Commit, At, history, TInv, TypeOK
<1>2. \A n \in 1..position[c] : Accounted(c, n)
  BY <1>1 DEF AInv, AccountedOf
<1>3. AccountedOf(c)'
  BY <1>1, <1>2 DEF AccountedOf, Accounted
<1>4. OthersKept(c)
  BY DEF Commit, At, history, OthersKept, TInv, TypeOK
<1> QED BY <1>3, <1>4, AccountedOfOthers

\* The steps of _store leave the offsets alone, the end of the message aside.
LEMMA StoreAccounted ==
    ASSUME TInv, AInv, NEW c \in Consumer,
           StoreRecord(c) \/ FindFlight(c) \/ MarkLinked(c) \/ UpdateSummary(c)
             \/ UpdateRoute(c)
    PROVE  AInv'
<1> USE DEF offsets, history
<1>1. /\ pc[c] \in InHand /\ UNCHANGED <<committed, position, skipped, jumped>>
      /\ \/ NextRecord(c)
         \/ /\ UNCHANGED stored
            /\ \E to \in InHand : pc' = [pc EXCEPT ![c] = to]
  BY DEF StoreRecord, FindFlight, MarkLinked, UpdateSummary, UpdateRoute, At, InHand
<1>2. todo[c] # <<>> /\ pc[c] \notin {"down", "ended"}
  BY <1>1 DEF TInv, Locals, LocalsOf, InHand
<1>3. CASE NextRecord(c)
  BY <1>1, <1>2, <1>3, NextRecordAccounted DEF TInv
<1>4. ASSUME NEW to \in InHand, UNCHANGED stored, pc' = [pc EXCEPT ![c] = to]
      PROVE  AInv'
  <2>1. pc'[c] = to
    BY <1>4 DEF TInv, TypeOK
  <2>2. to # "poll" /\ to # "commit"
    BY DEF InHand
  <2>3. AccountedOf(c)'
    BY <1>1, <1>2, <1>4, <2>1, <2>2, AccountedInHand DEF AInv
  <2>4. OthersKept(c)
    BY <1>1, <1>4 DEF OthersKept, TInv, TypeOK
  <2> QED BY <2>3, <2>4, AccountedOfOthers
<1> QED BY <1>1, <1>3, <1>4

LEMMA RaisesAccounted ==
    ASSUME TInv, AInv, NEW c \in Consumer, Raises(c) PROVE AInv'
<1>1. /\ pc' = [pc EXCEPT ![c] = "poll"]
      /\ UNCHANGED <<committed, position, stored, jumped>>
  BY DEF Raises, offsets
<1>2. CASE pc[c] \in InHand /\ Skip(c)
  <2>1. pc'[c] = "poll" /\ skipped'[c] = skipped[c] \cup {position[c]}
    BY <1>1, <1>2 DEF Skip, TInv, TypeOK
  <2>2. AccountedOf(c)'
    BY <1>1, <1>2, <2>1 DEF AInv, AccountedOf, Accounted, InHand
  <2>3. OthersKept(c)
    BY <1>1, <1>2 DEF OthersKept, Skip, TInv, TypeOK
  <2> QED BY <2>2, <2>3, AccountedOfOthers
<1>3. CASE pc[c] = "commit" /\ UNCHANGED skipped
  <2>1. pc'[c] = "poll"
    BY <1>1 DEF TInv, TypeOK
  <2>2. AccountedOf(c)'
    BY <1>1, <1>3, <2>1 DEF AInv, AccountedOf, Accounted
  <2>3. OthersKept(c)
    BY <1>1, <1>3 DEF OthersKept, TInv, TypeOK
  <2> QED BY <2>2, <2>3, AccountedOfOthers
<1> QED BY <1>2, <1>3 DEF Raises, InHand

LEMMA CrashAccounted ==
    ASSUME TInv, AInv, NEW c \in Consumer, TaskEnds(c) \/ Crash(c) PROVE AInv'
<1>1. /\ pc'[c] \in {"down", "ended"}
      /\ UNCHANGED <<committed, position, stored, skipped, jumped>>
  BY DEF TaskEnds, Crash, offsets, history, TInv, TypeOK
<1>2. AccountedOf(c)'
  BY <1>1 DEF AInv, AccountedOf, Accounted
<1>3. OthersKept(c)
  BY <1>1 DEF TaskEnds, Crash, OthersKept, TInv, TypeOK
<1> QED BY <1>2, <1>3, AccountedOfOthers

LEMMA NextAccounted == TInv /\ AInv /\ [Next]_vars => AInv'
<1> SUFFICES ASSUME TInv, AInv, [Next]_vars PROVE AInv'
  OBVIOUS
<1>1. ASSUME UNCHANGED <<committed, position, pc, history>> PROVE AInv'
  BY <1>1, AccountedKept DEF AInv, history
<1>2. ASSUME NEW c \in Consumer, NEW m, Produce(c, m) PROVE AInv'
  BY <1>1, <1>2 DEF Produce, local
<1>3. ASSUME NEW f \in Flight, AddFlight(f) \/ DeleteFlight(f) PROVE AInv'
  BY <1>1, <1>3 DEF AddFlight, DeleteFlight, FlightChanges, offsets, local
<1>4. CASE DbFails \/ DbRecovers
  BY <1>1, <1>4 DEF DbFails, DbRecovers, offsets, local
<1>5. CASE UNCHANGED vars
  BY <1>1, <1>5 DEF vars, offsets, local
<1>6. ASSUME NEW c \in Consumer, ConsumerStep(c) \/ TaskEnds(c) \/ Crash(c) PROVE AInv'
  BY <1>6, StartAccounted, FetchAccounted, ParseAccounted, StoreAccounted,
     CommitAccounted, RaisesAccounted, CrashAccounted DEF ConsumerStep
<1> QED BY <1>2, <1>3, <1>4, <1>5, <1>6 DEF Next

\* With any number of consumers, and whatever faults, restarts and
\* redeliveries there are: at and below the committed offset nothing is left
\* that was neither stored nor given up nor jumped over.
THEOREM CommittedOffsets == Spec => []CommittedIsAccounted
<1>1. Init => TInv /\ AInv
  BY InitTypes, InitAccounted
<1>2. TInv /\ AInv /\ [Next]_vars => (TInv /\ AInv)'
  BY NextTypes, NextAccounted
<1>3. TInv /\ AInv => CommittedIsAccounted
  BY AccountedIsCommitted
<1> QED BY <1>1, <1>2, <1>3, PTL DEF Spec

-----------------------------------------------------------------------------
(* Counts that are never too high.                                         *)

\* The consumer has inserted a record that no summary counts yet.
Holds(c) == work[c].isNew /\ pc[c] \in {"find", "mark", "update"}

Pending == {work[c].record : c \in {d \in Consumer : Holds(d)}}

\* The records a summary of the flight may count by now.
Countable(f) == everLinked[f] \ Pending

LinkedAreRecords == \A f \in Flight : everLinked[f] \subseteq 1..Len(records)

CountsAreLow ==
    /\ \A f \in Flight : flights[f].count <= Cardinality(Countable(f))
    /\ \A c \in Consumer : pc[c] \in {"mark", "update"} =>
          work[c].count <= Cardinality(Countable(work[c].target))

HeldAreLinked ==
    \A c \in Consumer : pc[c] = "update" =>
       work[c].record \in everLinked[work[c].target]

HeldAreDistinct ==
    \A c, d \in Consumer :
       c # d /\ Holds(c) /\ Holds(d) => work[c].record # work[d].record

CInv == LinkedAreRecords /\ CountsAreLow /\ HeldAreLinked /\ HeldAreDistinct

LEMMA FiniteUpTo ==
    ASSUME NEW n \in Nat, NEW S \in SUBSET (1..n)
    PROVE  /\ IsFiniteSet(S) /\ Cardinality(S) \in Nat
           /\ \A T \in SUBSET S : /\ IsFiniteSet(T) /\ Cardinality(T) \in Nat
                                  /\ Cardinality(T) <= Cardinality(S)
<1>1. IsFiniteSet(1..n)
  BY FS_Interval
<1>2. IsFiniteSet(S)
  BY <1>1, FS_Subset
<1>3. \A T \in SUBSET S : IsFiniteSet(T) /\ Cardinality(T) <= Cardinality(S)
  BY <1>2, FS_Subset
<1> QED BY <1>2, <1>3, FS_CardinalityType

LEMMA LinkedFinite ==
    ASSUME TInv, LinkedAreRecords, NEW f \in Flight
    PROVE  /\ IsFiniteSet(everLinked[f]) /\ Cardinality(everLinked[f]) \in Nat
           /\ IsFiniteSet(Countable(f)) /\ Cardinality(Countable(f)) \in Nat
           /\ Cardinality(Countable(f)) <= Cardinality(everLinked[f])
<1>1. Len(records) \in Nat
  BY DEF TInv, TypeOK
<1>2. everLinked[f] \in SUBSET (1..Len(records))
  BY DEF LinkedAreRecords
<1>3. Countable(f) \in SUBSET everLinked[f]
  BY DEF Countable
<1> QED BY <1>1, <1>2, <1>3, FiniteUpTo

LEMMA InitCounts == Init => CInv
<1> SUFFICES ASSUME Init PROVE CInv
  OBVIOUS
<1>1. ASSUME NEW f \in Flight
      PROVE  flights[f].count = 0 /\ Cardinality(Countable(f)) = 0
  <2>1. Countable(f) = {} /\ flights[f].count = 0
    BY DEF Init, Countable
  <2> QED BY <2>1, FS_EmptySet
<1>3. CountsAreLow
  BY <1>1 DEF Init, CountsAreLow
<1>4. LinkedAreRecords
  BY DEF Init, LinkedAreRecords
<1> QED BY <1>3, <1>4 DEF Init, CInv, HeldAreLinked, HeldAreDistinct, Holds

LEMMA CountsAreNeverOver == TInv /\ CInv => NeverOvercounts
<1> SUFFICES ASSUME TInv, CInv, NEW f \in Flight
             PROVE  flights[f].count <= Cardinality(everLinked[f])
  BY DEF NeverOvercounts
<1>1. flights[f].count \in Nat
  BY FlightTypes DEF TInv
<1>2. flights[f].count <= Cardinality(Countable(f))
  BY DEF CInv, CountsAreLow
<1> QED BY <1>1, <1>2, LinkedFinite DEF CInv

\* A flight may count no fewer records after a step than before it.
LEMMA CountableGrows ==
    ASSUME TypeOK', LinkedAreRecords', NEW f \in Flight,
           Countable(f) \subseteq Countable(f)'
    PROVE  Cardinality(Countable(f)) <= Cardinality(Countable(f)')
<1>1. Len(records') \in Nat
  BY DEF TypeOK
<1>2. Countable(f)' \in SUBSET (1..Len(records'))
  BY DEF Countable, LinkedAreRecords
<1> QED BY <1>1, <1>2, FiniteUpTo

\* So a step that changes no count, and reads only those it finds, keeps them
\* low.
LEMMA CountsKept ==
    ASSUME TInv, TypeOK', CInv, LinkedAreRecords',
           \A f \in Flight : /\ Countable(f) \subseteq Countable(f)'
                             /\ flights'[f].count = flights[f].count,
           \A c \in Consumer : pc'[c] \in {"mark", "update"} =>
              /\ work'[c].target \in Flight
              /\ \/ work'[c].count = flights[work'[c].target].count
                 \/ /\ pc[c] \in {"mark", "update"}
                    /\ work'[c].target = work[c].target
                    /\ work'[c].count = work[c].count
    PROVE  CountsAreLow'
<1>1. \A f \in Flight : /\ flights[f].count \in Nat
                        /\ Cardinality(Countable(f)) \in Nat
                        /\ Cardinality(Countable(f)') \in Nat
  <2> SUFFICES ASSUME NEW f \in Flight PROVE Cardinality(Countable(f)') \in Nat
    BY FlightTypes, LinkedFinite DEF TInv, CInv
  <2>1. Len(records') \in Nat /\ Countable(f)' \in SUBSET (1..Len(records'))
    BY DEF TypeOK, Countable, LinkedAreRecords
  <2> QED BY <2>1, FiniteUpTo
<1>2. \A f \in Flight : Cardinality(Countable(f)) <= Cardinality(Countable(f)')
  BY CountableGrows
<1>3. \A f \in Flight : flights'[f].count <= Cardinality(Countable(f)')
  BY <1>1, <1>2 DEF CInv, CountsAreLow
<1>4. ASSUME NEW c \in Consumer, pc'[c] \in {"mark", "update"}
      PROVE  work'[c].count <= Cardinality(Countable(work[c].target))'
  <2>1. PICK f \in Flight : f = work'[c].target
    BY <1>4
  <2>2. work'[c].count \in Nat
    BY <1>4, <2>1 DEF TypeOK, Work
  <2>3. work'[c].count <= Cardinality(Countable(f))
    BY <1>1, <1>4, <2>1 DEF CInv, CountsAreLow
  <2>4. Cardinality(Countable(work[c].target))' = Cardinality(Countable(f)')
    BY <2>1 DEF Countable
  <2> QED BY <1>1, <1>2, <2>2, <2>3, <2>4
<1> QED BY <1>3, <1>4 DEF CountsAreLow

\* A step that neither links nor counts, and after which every consumer that
\* holds a record still holds the same one.
LEMMA CountsQuiet ==
    ASSUME TInv, TInv', CInv, Len(records') = Len(records), UNCHANGED everLinked,
           \A f \in Flight : flights'[f].count = flights[f].count,
           \A c \in Consumer : pc'[c] \in {"find", "mark", "update"} =>
              pc'[c] = pc[c] /\ work'[c] = work[c]
    PROVE  CInv'
<1>1. LinkedAreRecords'
  BY DEF CInv, LinkedAreRecords
<1>2. \A c \in Consumer : Holds(c)' => Holds(c) /\ work'[c] = work[c]
  BY DEF Holds
<1>3. \A f \in Flight : Countable(f) \subseteq Countable(f)'
  BY <1>2 DEF Countable, Pending
<1>4. \A c \in Consumer : pc'[c] \in {"mark", "update"} => work'[c].target \in Flight
  BY DEF TInv, Locals, LocalsOf
<1>5. CountsAreLow'
  BY <1>1, <1>3, <1>4, CountsKept DEF TInv
<1>6. HeldAreLinked' /\ HeldAreDistinct'
  BY <1>2 DEF CInv, HeldAreLinked, HeldAreDistinct
<1> QED BY <1>1, <1>5, <1>6 DEF CInv

\* Steps of a consumer after which it holds no record that it did not hold.
LEMMA QuietSteps ==
    ASSUME TInv, NEW c \in Consumer,
           \/ Start(c) \/ Fetch(c) \/ Parse(c) \/ UpdateRoute(c) \/ Commit(c)
           \/ Raises(c) \/ TaskEnds(c) \/ Crash(c)
    PROVE  /\ UNCHANGED <<records, flights, everLinked>>
           /\ \A d \in Consumer : pc'[d] \in InCollection =>
                 pc'[d] = pc[d] /\ work'[d] = work[d] /\ todo'[d] = todo[d]
<1> USE DEF offsets, database, history
<1>1. UNCHANGED <<records, flights, everLinked>>
  BY DEF Start, Fetch, Parse, UpdateRoute, Commit, Raises, TaskEnds, Crash
<1>2. ASSUME NEW to \in {"down", "ended", "poll", "health", "store", "commit"},
             pc' = [pc EXCEPT ![c] = to],
             \A d \in Consumer : d # c => work'[d] = work[d] /\ todo'[d] = todo[d]
      PROVE  \A d \in Consumer : pc'[d] \in InCollection =>
                pc'[d] = pc[d] /\ work'[d] = work[d] /\ todo'[d] = todo[d]
  BY <1>2 DEF TInv, TypeOK, InCollection
<1>3. CASE Start(c) \/ Fetch(c) \/ Parse(c) \/ Commit(c)
  <2>1. \A d \in Consumer : d # c => todo'[d] = todo[d]
    BY <1>3 DEF Start, Fetch, Parse, Commit, TInv, TypeOK
  <2> QED BY <1>1, <1>2, <1>3, <2>1 DEF Start, Fetch, Parse, Commit, At
<1>4. CASE Raises(c) \/ TaskEnds(c) \/ Crash(c)
  <2>1. \A d \in Consumer : d # c => work'[d] = work[d] /\ todo'[d] = todo[d]
    BY <1>4 DEF Raises, TaskEnds, Crash, TInv, TypeOK
  <2> QED BY <1>1, <1>2, <1>4, <2>1 DEF Raises, TaskEnds, Crash
<1>5. CASE UpdateRoute(c)
  <2>1. todo[c] # <<>> /\ NextRecord(c)
    BY <1>5 DEF UpdateRoute, TInv, Locals, LocalsOf, InHand
  <2>2. /\ pc'[c] \in {"store", "commit"}
        /\ \A d \in Consumer : d # c => pc'[d] = pc[d] /\ todo'[d] = todo[d]
        /\ work' = [work EXCEPT ![c] = NoWork]
    BY <2>1, NextRecordFacts DEF TInv
  <2>3. \A d \in Consumer : d # c => work'[d] = work[d]
    BY <2>2 DEF TInv, TypeOK
  <2> QED BY <1>1, <2>2, <2>3 DEF InCollection
<1> QED BY <1>3, <1>4, <1>5

LEMMA StoreRecordCounts ==
    ASSUME TInv, TInv', CInv, NEW c \in Consumer, StoreRecord(c) PROVE CInv'
<1>1. pc[c] = "store" /\ todo[c] # <<>> /\ work[c] = NoWork
  BY DEF StoreRecord, At, TInv, Locals, LocalsOf, InHand, InCollection
<1>2. PICK r \in 1..Len(records') :
         /\ work' = [work EXCEPT ![c].isNew = Inserts(Head(todo[c])), ![c].record = r]
         /\ \/ /\ r = Len(records) + 1
               /\ Len(records') = Len(records) + 1
            \/ /\ ~Inserts(Head(todo[c]))
               /\ records' = records
  BY <1>1, StoreRecordFacts DEF TInv
<1>3. /\ UNCHANGED <<flights, everLinked>> /\ pc' = [pc EXCEPT ![c] = "find"]
      /\ pc'[c] = "find" /\ \A d \in Consumer : d # c => pc'[d] = pc[d]
  BY DEF StoreRecord, At, history, TInv, TypeOK
<1>4. /\ work'[c].record = r /\ work'[c].isNew = Inserts(Head(todo[c]))
      /\ \A d \in Consumer : d # c => work'[d] = work[d]
  <2>1. work \in [Consumer -> Work]
    BY DEF TInv, TypeOK
  <2>2. work[c] \in Work
    BY <2>1
  <2> QED BY <1>2, <2>1, <2>2 DEF Work
<1>5. Len(records) \in Nat /\ Len(records') >= Len(records)
  BY <1>2 DEF TInv, TypeOK
<1>6. \A d \in Consumer : Holds(d) => work[d].record \in 1..Len(records)
  BY DEF Holds, TInv, Locals, LocalsOf, InCollection
<1>7. Holds(c)' => r = Len(records) + 1
  BY <1>2, <1>4 DEF Holds
<1>8. \A d \in Consumer : d # c => (Holds(d)' <=> Holds(d))
  BY <1>3, <1>4 DEF Holds
<1>9. LinkedAreRecords'
  BY <1>3, <1>5 DEF CInv, LinkedAreRecords
<1>10. ASSUME NEW f \in Flight PROVE Countable(f) \subseteq Countable(f)'
  <2> SUFFICES ASSUME NEW x \in everLinked[f], x \in Pending' PROVE x \in Pending
    BY <1>3 DEF Countable
  <2>1. PICK d \in Consumer : Holds(d)' /\ x = work'[d].record
    BY DEF Pending
  <2>2. x \in 1..Len(records)
    BY DEF CInv, LinkedAreRecords
  <2>3. d # c
    BY <1>4, <1>5, <1>7, <2>1, <2>2
  <2> QED BY <1>4, <1>8, <2>1, <2>3 DEF Pending
<1>11. \A d \in Consumer : pc'[d] \in {"mark", "update"} =>
          /\ pc[d] = pc'[d] /\ work'[d] = work[d]
          /\ work'[d].target \in Flight
  BY <1>3, <1>4 DEF TInv, Locals, LocalsOf
<1>12. CountsAreLow'
  BY <1>3, <1>9, <1>10, <1>11, CountsKept DEF TInv
<1>13. HeldAreLinked'
  BY <1>3, <1>4 DEF CInv, HeldAreLinked
<1>14. HeldAreDistinct'
  <2> SUFFICES ASSUME NEW d \in Consumer, NEW e \in Consumer, d # e, Holds(d)', Holds(e)'
               PROVE  work'[d].record # work'[e].record
    BY DEF HeldAreDistinct
  <2>1. CASE d # c /\ e # c
    BY <1>4, <1>8, <2>1 DEF CInv, HeldAreDistinct
  <2>2. ASSUME NEW x \in Consumer, x # c, Holds(x)', Holds(c)'
        PROVE  work'[x].record # work'[c].record
    BY <1>4, <1>5, <1>6, <1>7, <1>8, <2>2
  <2> QED BY <2>1, <2>2
<1> QED BY <1>9, <1>12, <1>13, <1>14 DEF CInv

LEMMA FindFlightCounts ==
    ASSUME TInv, TInv', CInv, NEW c \in Consumer, FindFlight(c) PROVE CInv'
<1>1. pc[c] = "find" /\ todo[c] # <<>> /\ UNCHANGED <<records, flights, everLinked>>
  BY DEF FindFlight, At, database, TInv, Locals, LocalsOf, InHand
<1>2. CASE NextRecord(c)
  <2>1. /\ pc'[c] \in {"store", "commit"}
        /\ \A d \in Consumer : d # c => pc'[d] = pc[d]
        /\ work' = [work EXCEPT ![c] = NoWork]
    BY <1>1, <1>2, NextRecordFacts DEF TInv
  <2>2. \A d \in Consumer : d # c => work'[d] = work[d]
    BY <2>1 DEF TInv, TypeOK
  <2> QED BY <1>1, <2>1, <2>2, CountsQuiet
<1>3. CASE At(c, "find", "route") /\ UNCHANGED work
  <2>1. pc'[c] = "route" /\ \A d \in Consumer : d # c => pc'[d] = pc[d]
    BY <1>3 DEF At, TInv, TypeOK
  <2> QED BY <1>1, <1>3, <2>1, CountsQuiet
<1>4. ASSUME NEW f \in Linkable,
             At(c, "find", "mark"),
             work' = [work EXCEPT ![c].target = f,
                                  ![c].count = flights[f].count,
                                  ![c].first = flights[f].first]
      PROVE  CInv'
  <2>1. /\ f \in Flight /\ work'[c].target = f /\ work'[c].record = work[c].record
        /\ work'[c].isNew = work[c].isNew /\ work'[c].count = flights[f].count
        /\ \A d \in Consumer : d # c => work'[d] = work[d]
    BY <1>4, FoundFacts DEF TInv
  <2>2. pc'[c] = "mark" /\ \A d \in Consumer : d # c => pc'[d] = pc[d]
    BY <1>4 DEF At, TInv, TypeOK
  <2>3. \A d \in Consumer : /\ Holds(d)' <=> Holds(d)
                            /\ work'[d].record = work[d].record
    BY <1>1, <2>1, <2>2 DEF Holds
  <2>4. Pending' = Pending
    BY <2>3 DEF Pending
  <2>5. LinkedAreRecords'
    BY <1>1 DEF CInv, LinkedAreRecords
  <2>6. \A d \in Consumer : pc'[d] \in {"mark", "update"} =>
           /\ work'[d].target \in Flight
           /\ \/ d = c
              \/ pc[d] = pc'[d] /\ work'[d] = work[d]
    BY <2>1, <2>2 DEF TInv, Locals, LocalsOf
  <2>7. CountsAreLow'
    <3>1. \A g \in Flight : Countable(g) \subseteq Countable(g)'
      BY <1>1, <2>4 DEF Countable
    <3> QED BY <1>1, <2>1, <2>5, <2>6, <3>1, CountsKept DEF TInv
  <2>8. HeldAreLinked'
    BY <1>1, <2>1, <2>2 DEF CInv, HeldAreLinked
  <2>9. HeldAreDistinct'
    BY <2>3 DEF CInv, HeldAreDistinct
  <2> QED BY <2>5, <2>7, <2>8, <2>9 DEF CInv
<1> QED BY <1>2, <1>3, <1>4 DEF FindFlight

LEMMA MarkLinkedCounts ==
    ASSUME TInv, TInv', CInv, NEW c \in Consumer, MarkLinked(c) PROVE CInv'
<1> DEFINE r == work[c].record
           f == work[c].target
<1>1. UNCHANGED <<work, flights>>
  BY DEF MarkLinked
<1>2. /\ pc[c] = "mark" /\ pc' = [pc EXCEPT ![c] = "update"]
      /\ r \in 1..Len(records) /\ f \in Flight /\ Len(records') = Len(records)
      /\ everLinked'[f] = everLinked[f] \cup {r}
      /\ \A g \in Flight : g # f => everLinked'[g] = everLinked[g]
  BY MarkLinkedFacts DEF TInv
<1>3. pc'[c] = "update" /\ \A d \in Consumer : d # c => pc'[d] = pc[d]
  BY <1>2 DEF TInv, TypeOK
<1>4. \A d \in Consumer : Holds(d)' <=> Holds(d)
  BY <1>1, <1>2, <1>3 DEF Holds
<1>5. Pending' = Pending
  BY <1>1, <1>4 DEF Pending
<1>6. \A g \in Flight : everLinked[g] \subseteq everLinked'[g]
  BY <1>2
<1>7. LinkedAreRecords'
  BY <1>2 DEF CInv, LinkedAreRecords
<1>8. \A d \in Consumer : pc'[d] \in {"mark", "update"} =>
         /\ pc[d] \in {"mark", "update"} /\ work'[d] = work[d]
         /\ work'[d].target \in Flight
  BY <1>1, <1>2, <1>3 DEF TInv, Locals, LocalsOf
<1>9. CountsAreLow'
  <2>1. \A g \in Flight : Countable(g) \subseteq Countable(g)'
    BY <1>5, <1>6 DEF Countable
  <2> QED BY <1>1, <1>7, <1>8, <2>1, CountsKept DEF TInv
<1>10. HeldAreLinked'
  BY <1>1, <1>2, <1>3, <1>6, <1>8 DEF CInv, HeldAreLinked
<1>11. HeldAreDistinct'
  BY <1>1, <1>4 DEF CInv, HeldAreDistinct
<1> QED BY <1>7, <1>9, <1>10, <1>11 DEF CInv

\* The record of the consumer itself is held until this step, and by no other
\* consumer: it is what the summary may count one more for.
LEMMA UpdateSummaryCounts ==
    ASSUME TInv, TInv', CInv, NEW c \in Consumer, UpdateSummary(c) PROVE CInv'
<1>0. PICK f \in Flight, r \in Nat : f = work[c].target /\ r = work[c].record
  BY UpdateSummaryFacts, ConsumerTypes DEF TInv
<1>1. /\ pc[c] = "update" /\ todo[c] # <<>>
      /\ flights'[f].count = IF work[c].isNew THEN work[c].count + 1 ELSE work[c].count
      /\ \A g \in Flight : g # f => flights'[g] = flights[g]
      /\ UNCHANGED <<records, everLinked>>
      /\ \/ pc' = [pc EXCEPT ![c] = "route"] /\ UNCHANGED work
         \/ NextRecord(c)
  BY <1>0, UpdateSummaryFacts DEF TInv
<1>2. /\ pc'[c] \in {"route", "store", "commit"}
      /\ \A d \in Consumer : d # c => pc'[d] = pc[d] /\ work'[d] = work[d]
  <2>1. CASE pc' = [pc EXCEPT ![c] = "route"] /\ UNCHANGED work
    BY <2>1 DEF TInv, TypeOK
  <2>2. CASE NextRecord(c)
    <3>1. /\ pc'[c] \in {"store", "commit"}
          /\ \A d \in Consumer : d # c => pc'[d] = pc[d]
          /\ work' = [work EXCEPT ![c] = NoWork]
      BY <1>1, <2>2, NextRecordFacts DEF TInv
    <3> QED BY <3>1 DEF TInv, TypeOK
  <2> QED BY <1>1, <2>1, <2>2
<1>3. \A d \in Consumer : Holds(d)' => d # c /\ Holds(d)
  BY <1>2 DEF Holds
<1>4. Pending' \subseteq Pending
  BY <1>2, <1>3 DEF Pending
<1>5. work[c].isNew => r \in Pending /\ r \notin Pending'
  <2>1. work[c].isNew => Holds(c)
    BY <1>1 DEF Holds
  <2>2. Holds(c) => \A d \in Consumer : Holds(d)' => work'[d].record # r
    BY <1>0, <1>2, <1>3 DEF CInv, HeldAreDistinct
  <2> QED BY <1>0, <2>1, <2>2 DEF Pending
<1>6. LinkedAreRecords'
  BY <1>1 DEF CInv, LinkedAreRecords
<1>7. \A g \in Flight : Countable(g) \subseteq Countable(g)'
  BY <1>1, <1>4 DEF Countable
<1>8. \A g \in Flight : /\ Cardinality(Countable(g)) \in Nat
                        /\ Cardinality(Countable(g)) <= Cardinality(Countable(g)')
                        /\ IsFiniteSet(Countable(g)) /\ IsFiniteSet(Countable(g)')
                        /\ Cardinality(Countable(g)') \in Nat
  <2> SUFFICES ASSUME NEW g \in Flight
               PROVE  /\ Cardinality(Countable(g)) <= Cardinality(Countable(g)')
                      /\ IsFiniteSet(Countable(g)') /\ Cardinality(Countable(g)') \in Nat
    BY LinkedFinite DEF CInv
  <2>1. Len(records') \in Nat /\ Countable(g)' \in SUBSET (1..Len(records'))
    BY <1>6 DEF TInv, TypeOK, Countable, LinkedAreRecords
  <2> QED BY <1>7, <2>1, FiniteUpTo
<1>9. work[c].count \in Nat /\ work[c].count <= Cardinality(Countable(f))
  BY <1>0, <1>1, ConsumerTypes DEF TInv, CInv, CountsAreLow
<1>10. flights'[f].count <= Cardinality(Countable(f)')
  <2>1. CASE ~work[c].isNew
    BY <1>1, <1>8, <1>9, <2>1
  <2>2. CASE work[c].isNew
    <3>1. r \in everLinked[f]
      BY <1>0, <1>1 DEF CInv, HeldAreLinked
    <3>2. r \notin Countable(f) /\ Countable(f) \cup {r} \in SUBSET Countable(f)'
      BY <1>1, <1>5, <1>7, <2>2, <3>1 DEF Countable
    <3>3. Cardinality(Countable(f) \cup {r}) = Cardinality(Countable(f)) + 1
      BY <1>1, <1>8, <3>2, FS_AddElement
    <3>4. Cardinality(Countable(f) \cup {r}) <= Cardinality(Countable(f)')
      BY <1>1, <1>8, <3>2, FS_Subset
    <3> QED BY <1>1, <1>8, <1>9, <2>2, <3>3, <3>4
  <2> QED BY <2>1, <2>2
<1>11. \A g \in Flight : flights'[g].count <= Cardinality(Countable(g)')
  <2> SUFFICES ASSUME NEW g \in Flight, g # f
               PROVE  flights'[g].count <= Cardinality(Countable(g)')
    BY <1>10
  <2>1. flights'[g].count \in Nat /\ flights'[g].count <= Cardinality(Countable(g))
    BY <1>1, FlightTypes DEF TInv, CInv, CountsAreLow
  <2> QED BY <1>8, <2>1
<1>12. ASSUME NEW d \in Consumer, pc'[d] \in {"mark", "update"}
       PROVE  work'[d].count <= Cardinality(Countable(work[d].target))'
  <2>1. pc[d] \in {"mark", "update"} /\ work'[d] = work[d]
    BY <1>2, <1>12
  <2>2. PICK g \in Flight : g = work[d].target
    BY <2>1 DEF TInv, Locals, LocalsOf
  <2>3. work[d].count \in Nat /\ work[d].count <= Cardinality(Countable(g))
    BY <2>1, <2>2, ConsumerTypes DEF TInv, CInv, CountsAreLow
  <2>4. Cardinality(Countable(work[d].target))' = Cardinality(Countable(g)')
    BY <2>1, <2>2 DEF Countable
  <2> QED BY <1>8, <2>1, <2>3, <2>4
<1>13. CountsAreLow'
  BY <1>11, <1>12 DEF CountsAreLow
<1>14. HeldAreLinked'
  BY <1>1, <1>2 DEF CInv, HeldAreLinked
<1>15. HeldAreDistinct'
  BY <1>2, <1>3 DEF CInv, HeldAreDistinct
<1> QED BY <1>6, <1>13, <1>14, <1>15 DEF CInv

\* The TFDM consumer leaves the summaries alone.
LEMMA StatusChanges ==
    ASSUME TInv, NEW f \in Flight, AddFlight(f) \/ DeleteFlight(f)
    PROVE  \A g \in Flight : /\ flights'[g].count = flights[g].count
                             /\ flights'[g].first = flights[g].first
<1>1. PICK new : flights' = [flights EXCEPT ![f].status = new]
  BY DEF AddFlight, DeleteFlight, FlightChanges
<1> SUFFICES ASSUME NEW g \in Flight
             PROVE  /\ flights'[g].count = flights[g].count
                    /\ flights'[g].first = flights[g].first
  OBVIOUS
<1>2. flights \in [Flight -> FlightDoc] /\ flights[g] \in FlightDoc
  BY DEF TInv, TypeOK
<1> QED BY <1>1, <1>2 DEF FlightDoc

LEMMA NextCounts == TInv /\ CInv /\ [Next]_vars => CInv'
<1> SUFFICES ASSUME TInv, CInv, [Next]_vars PROVE CInv'
  OBVIOUS
<1>0. TInv'
  BY NextTypes
<1> USE DEF offsets, local, database, history
<1>1. ASSUME UNCHANGED <<pc, work, records, everLinked>>,
             \A f \in Flight : flights'[f].count = flights[f].count
      PROVE  CInv'
  BY <1>0, <1>1, CountsQuiet
<1>2. ASSUME NEW c \in Consumer, NEW m, Produce(c, m) PROVE CInv'
  BY <1>1, <1>2 DEF Produce
<1>3. ASSUME NEW f \in Flight, AddFlight(f) \/ DeleteFlight(f) PROVE CInv'
  BY <1>1, <1>3, StatusChanges DEF AddFlight, DeleteFlight, FlightChanges
<1>4. CASE DbFails \/ DbRecovers
  BY <1>1, <1>4 DEF DbFails, DbRecovers
<1>5. CASE UNCHANGED vars
  BY <1>1, <1>5 DEF vars
<1>6. ASSUME NEW c \in Consumer,
             \/ Start(c) \/ Fetch(c) \/ Parse(c) \/ UpdateRoute(c) \/ Commit(c)
             \/ Raises(c) \/ TaskEnds(c) \/ Crash(c)
      PROVE  CInv'
  BY <1>0, <1>6, QuietSteps, CountsQuiet DEF InCollection
<1> QED
  BY <1>0, <1>2, <1>3, <1>4, <1>5, <1>6, StoreRecordCounts, FindFlightCounts,
     MarkLinkedCounts, UpdateSummaryCounts DEF Next, ConsumerStep

\* With any number of consumers of a feed, whatever they read before the
\* other wrote and whatever is delivered again: a summary is never above the
\* records that were linked to its flight.
THEOREM SummariesNeverOvercount == Spec => []NeverOvercounts
<1>1. Init => TInv /\ CInv
  BY InitTypes, InitCounts
<1>2. TInv /\ CInv /\ [Next]_vars => (TInv /\ CInv)'
  BY NextTypes, NextCounts
<1>3. TInv /\ CInv => NeverOvercounts
  BY CountsAreNeverOver
<1> QED BY <1>1, <1>2, <1>3, PTL DEF Spec

-----------------------------------------------------------------------------
(* Routes.                                                                 *)

\* Every TFMS consumer has a record of its own in hand, that nobody else
\* links.
OwnRecords ==
    /\ \A c, d \in Consumer :
          c # d /\ pc[c] \in InCollection /\ pc[d] \in InCollection =>
             work[c].record # work[d].record
    /\ \A c \in Consumer : pc[c] \in {"find", "mark"} =>
          records[work[c].record].linked = None
    /\ \A c \in Consumer :
          pc[c] \in {"update", "route"} /\ work[c].target # None =>
             records[work[c].record].linked = work[c].target
    /\ \A c \in Consumer : pc[c] \in InCollection =>
          records[work[c].record].key = Head(todo[c])

RInv == ~Keyed => OwnRecords /\ RoutesAreLinked

\* The feeds that upsert keep no routes.
KInv ==
    Keyed => /\ \A c \in Consumer : pc[c] # "route"
             /\ \A f \in Flight : routes[f] = None

LEMMA InitRoutes == Init => RInv /\ KInv
BY DEF Init, RInv, KInv, OwnRecords, RoutesAreLinked, InCollection

LEMMA NextNoRoutes == TInv /\ KInv /\ [Next]_vars => KInv'
<1> SUFFICES ASSUME TInv, KInv, [Next]_vars, Keyed PROVE KInv'
  BY DEF KInv
<1> USE DEF KInv, offsets, local, database, history
<1>1. ASSUME NEW c \in Consumer, NEW to \in Pc \ {"route"}, pc' = [pc EXCEPT ![c] = to],
             UNCHANGED routes
      PROVE  KInv'
  BY <1>1 DEF TInv, TypeOK
<1>2. ASSUME NEW c \in Consumer, NextRecord(c), UNCHANGED routes PROVE KInv'
  BY <1>1, <1>2 DEF NextRecord, Pc
<1>3. ASSUME UNCHANGED <<pc, routes>> PROVE KInv'
  BY <1>3
<1>4. ASSUME NEW c \in Consumer, FindFlight(c) PROVE KInv'
  BY <1>1, <1>2, <1>4 DEF FindFlight, At, Pc
<1>5. ASSUME NEW c \in Consumer, UpdateSummary(c) PROVE KInv'
  BY <1>2, <1>5 DEF UpdateSummary
<1>6. ASSUME NEW c \in Consumer, UpdateRoute(c) PROVE FALSE
  BY <1>6 DEF UpdateRoute
<1>7. ASSUME NEW c \in Consumer,
             \/ Start(c) \/ Fetch(c) \/ Parse(c) \/ StoreRecord(c) \/ MarkLinked(c)
             \/ Commit(c) \/ Raises(c) \/ TaskEnds(c) \/ Crash(c)
      PROVE  KInv'
  BY <1>1, <1>7
     DEF Start, Fetch, Parse, StoreRecord, MarkLinked, Commit, Raises, TaskEnds, Crash,
         At, Pc
<1>8. CASE UNCHANGED vars
  BY <1>3, <1>8 DEF vars
<1>9. ASSUME NEW c \in Consumer, NEW m, Produce(c, m) PROVE KInv'
  BY <1>3, <1>9 DEF Produce
<1>10. ASSUME NEW f \in Flight, AddFlight(f) \/ DeleteFlight(f) PROVE KInv'
  BY <1>3, <1>10 DEF AddFlight, DeleteFlight, FlightChanges
<1>11. CASE DbFails \/ DbRecovers
  BY <1>3, <1>11 DEF DbFails, DbRecovers
<1> QED
  BY <1>4, <1>5, <1>6, <1>7, <1>8, <1>9, <1>10, <1>11 DEF Next, ConsumerStep

\* A link that was made stays, so does the route it stands for.
LEMMA RoutesKept ==
    ASSUME TInv, TInv', RoutesAreLinked,
           \A f \in Flight : routes'[f] = routes[f],
           \A i \in 1..Len(records) :
              /\ i \in 1..Len(records') /\ records'[i].key = records[i].key
              /\ records[i].linked # None => records'[i].linked = records[i].linked
    PROVE  RoutesAreLinked'
<1>1. DOMAIN records = 1..Len(records) /\ DOMAIN records' = 1..Len(records')
  BY DEF TInv, TypeOK
<1> SUFFICES ASSUME NEW f \in Flight, routes'[f] # None
             PROVE  \E i \in DOMAIN records' : /\ records'[i].linked = f
                                               /\ records'[i].key = routes'[f]
  BY DEF RoutesAreLinked
<1>2. PICK i \in 1..Len(records) : records[i].linked = f /\ records[i].key = routes[f]
  BY <1>1 DEF RoutesAreLinked
<1> QED BY <1>1, <1>2

\* A step after which nobody has a record in hand that he had not before.
LEMMA RecordsQuiet ==
    ASSUME OwnRecords, UNCHANGED records,
           \A c \in Consumer : pc'[c] \in InCollection =>
              pc'[c] = pc[c] /\ work'[c] = work[c] /\ todo'[c] = todo[c]
    PROVE  OwnRecords'
BY DEF OwnRecords, InCollection

LEMMA StoreRecordRoutes ==
    ASSUME TInv, TInv', OwnRecords, RoutesAreLinked, ~Keyed,
           NEW c \in Consumer, StoreRecord(c)
    PROVE  OwnRecords' /\ RoutesAreLinked'
<1>1. pc[c] = "store" /\ todo[c] # <<>> /\ work[c] = NoWork
  BY DEF StoreRecord, At, TInv, Locals, LocalsOf, InHand, InCollection
<1>2. PICK r \in 1..Len(records') :
         /\ work' = [work EXCEPT ![c].isNew = Inserts(Head(todo[c])), ![c].record = r]
         /\ r = Len(records) + 1
         /\ records' = Append(records, [key |-> Head(todo[c]), linked |-> None])
         /\ Len(records') = Len(records) + 1
  BY <1>1, StoreRecordFacts DEF TInv
<1>3. /\ UNCHANGED <<todo, routes>>
      /\ pc'[c] = "find" /\ \A d \in Consumer : d # c => pc'[d] = pc[d]
  BY DEF StoreRecord, At, TInv, TypeOK
<1>4. /\ work'[c].record = r
      /\ \A d \in Consumer : d # c => work'[d] = work[d]
  <2>1. work \in [Consumer -> Work]
    BY DEF TInv, TypeOK
  <2>2. work[c] \in Work
    BY <2>1
  <2> QED BY <1>2, <2>1, <2>2 DEF Work
<1>5. /\ Len(records) \in Nat /\ records'[r].key = Head(todo[c])
      /\ records'[r].linked = None
      /\ \A i \in 1..Len(records) : records'[i] = records[i] /\ i # r /\ i \in 1..Len(records')
  BY <1>2 DEF TInv, TypeOK
<1>6. \A d \in Consumer : d # c /\ pc[d] \in InCollection =>
         work[d].record \in 1..Len(records)
  BY DEF TInv, Locals, LocalsOf
<1>7. RoutesAreLinked'
  BY <1>3, <1>5, RoutesKept
<1>8. \A d, e \in Consumer :
         d # e /\ pc'[d] \in InCollection /\ pc'[e] \in InCollection =>
            work'[d].record # work'[e].record
  <2>1. \A d \in Consumer : d # c /\ pc'[d] \in InCollection =>
           work'[d].record = work[d].record /\ work[d].record # r
    BY <1>3, <1>4, <1>5, <1>6
  <2>2. \A d, e \in Consumer :
           d # c /\ e # c /\ d # e /\ pc'[d] \in InCollection /\ pc'[e] \in InCollection =>
              work'[d].record # work'[e].record
    BY <1>3, <2>1 DEF OwnRecords
  <2> QED BY <1>4, <2>1, <2>2
<1>9. \A d \in Consumer : pc'[d] \in {"find", "mark"} =>
         records'[work'[d].record].linked = None
  BY <1>3, <1>4, <1>5, <1>6 DEF OwnRecords, InCollection
<1>10. \A d \in Consumer : pc'[d] \in {"update", "route"} /\ work'[d].target # None =>
          records'[work'[d].record].linked = work'[d].target
  BY <1>3, <1>4, <1>5, <1>6 DEF OwnRecords, InCollection
<1>11. \A d \in Consumer : pc'[d] \in InCollection =>
          records'[work'[d].record].key = Head(todo'[d])
  BY <1>3, <1>4, <1>5, <1>6 DEF OwnRecords
<1>12. OwnRecords'
  BY <1>8, <1>9, <1>10, <1>11 DEF OwnRecords
<1> QED BY <1>7, <1>12

LEMMA FindFlightRoutes ==
    ASSUME TInv, TInv', OwnRecords, RoutesAreLinked, ~Keyed,
           NEW c \in Consumer, FindFlight(c)
    PROVE  OwnRecords' /\ RoutesAreLinked'
<1>1. /\ pc[c] = "find" /\ work[c].target = None
      /\ UNCHANGED <<records, routes, todo>>
  BY DEF FindFlight, At, database, TInv, Locals, LocalsOf
<1>2. RoutesAreLinked'
  BY <1>1 DEF RoutesAreLinked
<1>3. /\ pc'[c] \in {"mark", "route"} /\ work'[c].record = work[c].record
      /\ pc'[c] = "route" => work'[c].target = None
      /\ \A d \in Consumer : d # c => pc'[d] = pc[d] /\ work'[d] = work[d]
  <2>1. CASE At(c, "find", "route") /\ UNCHANGED work
    BY <1>1, <2>1 DEF At, TInv, TypeOK
  <2>2. ASSUME NEW f \in Linkable,
               At(c, "find", "mark"),
               work' = [work EXCEPT ![c].target = f,
                                    ![c].count = flights[f].count,
                                    ![c].first = flights[f].first]
        PROVE  /\ pc'[c] = "mark" /\ work'[c].record = work[c].record
               /\ \A d \in Consumer : d # c => pc'[d] = pc[d] /\ work'[d] = work[d]
    <3>1. /\ work'[c].record = work[c].record
          /\ \A d \in Consumer : d # c => work'[d] = work[d]
      BY <2>2, FoundFacts DEF TInv
    <3> QED BY <2>2, <3>1 DEF At, TInv, TypeOK
  <2> QED BY <2>1, <2>2 DEF FindFlight
<1>4. OwnRecords'
  BY <1>1, <1>3 DEF OwnRecords, InCollection
<1> QED BY <1>2, <1>4

LEMMA MarkLinkedRoutes ==
    ASSUME TInv, TInv', OwnRecords, RoutesAreLinked, ~Keyed,
           NEW c \in Consumer, MarkLinked(c)
    PROVE  OwnRecords' /\ RoutesAreLinked'
<1>1. UNCHANGED <<work, todo, routes>>
  BY DEF MarkLinked
<1>0. PICK r \in 1..Len(records), f \in Flight : r = work[c].record /\ f = work[c].target
  BY MarkLinkedFacts DEF TInv
<1>2. /\ pc[c] = "mark" /\ pc' = [pc EXCEPT ![c] = "update"]
      /\ Len(records') = Len(records) /\ records'[r].linked = f
      /\ \A i \in 1..Len(records) :
            /\ records'[i].key = records[i].key
            /\ i # r => records'[i].linked = records[i].linked
  BY <1>0, MarkLinkedFacts DEF TInv
<1>3. pc'[c] = "update" /\ \A d \in Consumer : d # c => pc'[d] = pc[d]
  BY <1>2 DEF TInv, TypeOK
<1>4. records[r].linked = None
  BY <1>0, <1>2 DEF OwnRecords
<1>5. RoutesAreLinked'
  BY <1>1, <1>2, <1>4, RoutesKept
<1>6. \A d \in Consumer : d # c /\ pc[d] \in InCollection =>
         work[d].record \in 1..Len(records) /\ work[d].record # r
  BY <1>0, <1>2 DEF OwnRecords, TInv, Locals, LocalsOf, InCollection
<1>7. OwnRecords'
  BY <1>0, <1>1, <1>2, <1>3, <1>6 DEF OwnRecords, InCollection
<1> QED BY <1>5, <1>7

LEMMA UpdateSummaryRoutes ==
    ASSUME TInv, OwnRecords, RoutesAreLinked, ~Keyed,
           NEW c \in Consumer, UpdateSummary(c)
    PROVE  OwnRecords' /\ RoutesAreLinked'
<1>1. /\ pc[c] = "update" /\ pc' = [pc EXCEPT ![c] = "route"]
      /\ UNCHANGED <<records, routes, todo, work>>
  BY UpdateSummaryFacts DEF TInv
<1>2. pc'[c] = "route" /\ \A d \in Consumer : d # c => pc'[d] = pc[d]
  BY <1>1 DEF TInv, TypeOK
<1>3. RoutesAreLinked'
  BY <1>1 DEF RoutesAreLinked
<1>4. OwnRecords'
  BY <1>1, <1>2 DEF OwnRecords, InCollection
<1> QED BY <1>3, <1>4

LEMMA UpdateRouteRoutes ==
    ASSUME TInv, OwnRecords, RoutesAreLinked, ~Keyed,
           NEW c \in Consumer, UpdateRoute(c)
    PROVE  OwnRecords' /\ RoutesAreLinked'
<1>1. OwnRecords'
  BY QuietSteps, RecordsQuiet
<1>2. pc[c] = "route" /\ UNCHANGED records
  BY DEF UpdateRoute
<1>3. /\ work[c].target \in Flight \cup {None} /\ work[c].record \in DOMAIN records
      /\ records[work[c].record].key = Head(todo[c])
      /\ work[c].target # None => records[work[c].record].linked = work[c].target
  BY <1>2, ConsumerTypes DEF OwnRecords, TInv, TypeOK, Locals, LocalsOf, InCollection
<1>4. CASE UNCHANGED routes
  BY <1>1, <1>2, <1>4 DEF RoutesAreLinked
<1>5. CASE routes' = [routes EXCEPT ![work[c].target] = Head(todo[c])]
  <2>1. \A f \in Flight :
           \/ routes'[f] = routes[f]
           \/ f = work[c].target /\ routes'[f] = Head(todo[c])
    BY <1>5 DEF TInv, TypeOK
  <2>2. RoutesAreLinked'
    BY <1>2, <1>3, <2>1 DEF RoutesAreLinked
  <2> QED BY <1>1, <2>2
<1> QED BY <1>1, <1>4, <1>5 DEF UpdateRoute

LEMMA NextRoutes == TInv /\ RInv /\ [Next]_vars => RInv'
<1> SUFFICES ASSUME TInv, OwnRecords, RoutesAreLinked, [Next]_vars, ~Keyed
             PROVE  OwnRecords' /\ RoutesAreLinked'
  BY DEF RInv
<1>0. TInv'
  BY NextTypes
<1> USE DEF offsets, local, database, history
<1>1. ASSUME UNCHANGED <<pc, todo, work, records, routes>>
      PROVE  OwnRecords' /\ RoutesAreLinked'
  BY <1>1 DEF OwnRecords, RoutesAreLinked
<1>2. ASSUME NEW c \in Consumer, NEW m, Produce(c, m)
      PROVE  OwnRecords' /\ RoutesAreLinked'
  BY <1>1, <1>2 DEF Produce
<1>3. ASSUME NEW f \in Flight, AddFlight(f) \/ DeleteFlight(f)
      PROVE  OwnRecords' /\ RoutesAreLinked'
  BY <1>1, <1>3 DEF AddFlight, DeleteFlight, FlightChanges
<1>4. CASE DbFails \/ DbRecovers
  BY <1>1, <1>4 DEF DbFails, DbRecovers
<1>5. CASE UNCHANGED vars
  BY <1>1, <1>5 DEF vars
<1>6. ASSUME NEW c \in Consumer,
             \/ Start(c) \/ Fetch(c) \/ Parse(c) \/ Commit(c) \/ Raises(c)
             \/ TaskEnds(c) \/ Crash(c)
      PROVE  OwnRecords' /\ RoutesAreLinked'
  <2>1. OwnRecords'
    BY <1>6, QuietSteps, RecordsQuiet
  <2>2. UNCHANGED <<records, routes>>
    BY <1>6 DEF Start, Fetch, Parse, Commit, Raises, TaskEnds, Crash
  <2> QED BY <2>1, <2>2 DEF RoutesAreLinked
<1> QED
  BY <1>0, <1>2, <1>3, <1>4, <1>5, <1>6, StoreRecordRoutes, FindFlightRoutes,
     MarkLinkedRoutes, UpdateSummaryRoutes, UpdateRouteRoutes DEF Next, ConsumerStep

\* For TFMS and with any number of consumers, a route that a flight is given
\* stays the route of a record linked to it, for the feeds that upsert there
\* is none.
THEOREM RoutesOfLinkedRecords == Spec => []RoutesAreLinked
<1>1. Init => TInv /\ RInv /\ KInv
  BY InitTypes, InitRoutes
<1>2. TInv /\ RInv /\ KInv /\ [Next]_vars => (TInv /\ RInv /\ KInv)'
  BY NextTypes, NextRoutes, NextNoRoutes
<1>3. RInv /\ KInv => RoutesAreLinked
  BY DEF RInv, KInv, RoutesAreLinked
<1> QED BY <1>1, <1>2, <1>3, PTL DEF Spec

-----------------------------------------------------------------------------
(* First igtd.                                                             *)

\* What the find read of the flight is still so at the write.
ReadIsCurrent(c) ==
    /\ work[c].count = flights[work[c].target].count
    /\ work[c].first = flights[work[c].target].first

ReadInv == \A c \in Consumer : pc[c] \in {"mark", "update"} => ReadIsCurrent(c)

\* The feeds that upsert keep no first_igtd.
NoFirst ==
    /\ \A f \in Flight : flights[f].first = None
    /\ \A c \in Consumer : pc[c] \in {"mark", "update"} => work[c].first = None

\* Only UpdateSummary writes summaries, and only FindFlight reads them.
LEMMA SummariesKept ==
    ASSUME TInv, TInv', [Next]_vars, \A c \in Consumer : ~UpdateSummary(c)
    PROVE  /\ \A f \in Flight : /\ flights'[f].count = flights[f].count
                                /\ flights'[f].first = flights[f].first
           /\ \A c \in Consumer : pc'[c] \in {"mark", "update"} =>
                 \/ pc[c] \in {"mark", "update"} /\ work'[c] = work[c]
                 \/ /\ work'[c].target \in Flight
                    /\ work'[c].count = flights[work'[c].target].count
                    /\ work'[c].first = flights[work'[c].target].first
<1> USE DEF offsets, local, database, history
<1> DEFINE Goal ==
             /\ \A f \in Flight : /\ flights'[f].count = flights[f].count
                                  /\ flights'[f].first = flights[f].first
             /\ \A c \in Consumer : pc'[c] \in {"mark", "update"} =>
                   \/ pc[c] \in {"mark", "update"} /\ work'[c] = work[c]
                   \/ /\ work'[c].target \in Flight
                      /\ work'[c].count = flights[work'[c].target].count
                      /\ work'[c].first = flights[work'[c].target].first
<1> SUFFICES Goal
  OBVIOUS
<1>1. ASSUME UNCHANGED <<pc, work, flights>> PROVE Goal
  BY <1>1
<1>2. ASSUME NEW c \in Consumer, NEW m, Produce(c, m) PROVE Goal
  BY <1>1, <1>2 DEF Produce
<1>3. ASSUME NEW f \in Flight, AddFlight(f) \/ DeleteFlight(f) PROVE Goal
  BY <1>3, StatusChanges DEF AddFlight, DeleteFlight, FlightChanges
<1>4. CASE DbFails \/ DbRecovers
  BY <1>1, <1>4 DEF DbFails, DbRecovers
<1>5. CASE UNCHANGED vars
  BY <1>1, <1>5 DEF vars
<1>6. ASSUME NEW c \in Consumer,
             \/ Start(c) \/ Fetch(c) \/ Parse(c) \/ UpdateRoute(c) \/ Commit(c)
             \/ Raises(c) \/ TaskEnds(c) \/ Crash(c)
      PROVE  Goal
  BY <1>6, QuietSteps DEF InCollection
<1>7. ASSUME NEW c \in Consumer, StoreRecord(c) PROVE Goal
  <2>1. /\ UNCHANGED flights /\ pc'[c] = "find"
        /\ \A d \in Consumer : d # c => pc'[d] = pc[d]
    BY <1>7 DEF StoreRecord, At, TInv, TypeOK
  <2>2. \A d \in Consumer : d # c => work'[d] = work[d]
    BY <1>7 DEF StoreRecord, TInv, TypeOK
  <2> QED BY <2>1, <2>2
<1>8. ASSUME NEW c \in Consumer, FindFlight(c) PROVE Goal
  <2>1. /\ UNCHANGED flights /\ todo[c] # <<>>
    BY <1>8 DEF FindFlight, At, TInv, Locals, LocalsOf, InHand
  <2>2. CASE NextRecord(c)
    <3>1. /\ pc'[c] \in {"store", "commit"}
          /\ \A d \in Consumer : d # c => pc'[d] = pc[d]
          /\ work' = [work EXCEPT ![c] = NoWork]
      BY <2>1, <2>2, NextRecordFacts DEF TInv
    <3>2. \A d \in Consumer : d # c => work'[d] = work[d]
      BY <3>1 DEF TInv, TypeOK
    <3> QED BY <2>1, <3>1, <3>2
  <2>3. CASE At(c, "find", "route") /\ UNCHANGED work
    BY <2>1, <2>3 DEF At, TInv, TypeOK
  <2>4. ASSUME NEW f \in Linkable,
               At(c, "find", "mark"),
               work' = [work EXCEPT ![c].target = f,
                                    ![c].count = flights[f].count,
                                    ![c].first = flights[f].first]
        PROVE  Goal
    <3>1. /\ f \in Flight /\ work'[c].target = f
          /\ work'[c].count = flights[f].count /\ work'[c].first = flights[f].first
          /\ \A d \in Consumer : d # c => work'[d] = work[d]
      BY <2>4, FoundFacts DEF TInv
    <3>2. \A d \in Consumer : d # c => pc'[d] = pc[d]
      BY <2>4 DEF At, TInv, TypeOK
    <3> QED BY <2>1, <3>1, <3>2
  <2> QED BY <1>8, <2>2, <2>3, <2>4 DEF FindFlight
<1>9. ASSUME NEW c \in Consumer, MarkLinked(c) PROVE Goal
  <2>1. UNCHANGED <<flights, work>> /\ pc[c] = "mark"
    BY <1>9 DEF MarkLinked, At
  <2>2. \A d \in Consumer : d # c => pc'[d] = pc[d]
    BY <1>9 DEF MarkLinked, At, TInv, TypeOK
  <2> QED BY <2>1, <2>2
<1> QED
  BY <1>2, <1>3, <1>4, <1>5, <1>6, <1>7, <1>8, <1>9 DEF Next, ConsumerStep

LEMMA NextRead ==
    ASSUME OneConsumer
    PROVE  TInv /\ ReadInv /\ [Next]_vars => ReadInv'
<1> SUFFICES ASSUME TInv, ReadInv, [Next]_vars PROVE ReadInv'
  OBVIOUS
<1>0. TInv'
  BY NextTypes
<1>1. ASSUME NEW c \in Consumer, UpdateSummary(c) PROVE ReadInv'
  <2>1. pc'[c] \in {"route", "store", "commit"}
    <3>1. /\ todo[c] # <<>>
          /\ pc' = [pc EXCEPT ![c] = "route"] \/ NextRecord(c)
      BY <1>1, UpdateSummaryFacts DEF TInv
    <3>2. NextRecord(c) => pc'[c] \in {"store", "commit"}
      BY <3>1, NextRecordFacts DEF TInv
    <3> QED BY <3>1, <3>2 DEF TInv, TypeOK
  <2> QED BY <2>1 DEF OneConsumer, ReadInv
<1>2. CASE \A c \in Consumer : ~UpdateSummary(c)
  <2> SUFFICES ASSUME NEW c \in Consumer, pc'[c] \in {"mark", "update"}
               PROVE  ReadIsCurrent(c)'
    BY DEF ReadInv
  <2>1. work[c].target \in Flight \/ pc[c] \notin {"mark", "update"}
    BY DEF TInv, Locals, LocalsOf
  <2>2. \A f \in Flight : /\ flights'[f].count = flights[f].count
                          /\ flights'[f].first = flights[f].first
    BY <1>0, <1>2, SummariesKept
  <2>3. \/ pc[c] \in {"mark", "update"} /\ work'[c] = work[c]
        \/ /\ work'[c].target \in Flight
           /\ work'[c].count = flights[work'[c].target].count
           /\ work'[c].first = flights[work'[c].target].first
    BY <1>0, <1>2, SummariesKept
  <2> QED BY <2>1, <2>2, <2>3 DEF ReadInv, ReadIsCurrent
<1> QED BY <1>1, <1>2

LEMMA NextNoFirst ==
    ASSUME Keyed
    PROVE  TInv /\ NoFirst /\ [Next]_vars => NoFirst'
<1> SUFFICES ASSUME TInv, NoFirst, [Next]_vars PROVE NoFirst'
  OBVIOUS
<1>0. TInv'
  BY NextTypes
<1>1. ASSUME NEW c \in Consumer, UpdateSummary(c) PROVE NoFirst'
  <2>1. /\ pc[c] = "update" /\ work[c].target \in Flight /\ todo[c] # <<>>
        /\ flights'[work[c].target].first \in FirstIgtds(c)
        /\ \A g \in Flight : g # work[c].target => flights'[g] = flights[g]
        /\ NextRecord(c)
    BY <1>1, UpdateSummaryFacts DEF TInv
  <2>2. flights'[work[c].target].first = None
    BY <2>1 DEF FirstIgtds, NoFirst
  <2>3. /\ pc'[c] \in {"store", "commit"}
        /\ \A d \in Consumer : d # c => pc'[d] = pc[d]
        /\ work' = [work EXCEPT ![c] = NoWork]
    BY <2>1, NextRecordFacts DEF TInv
  <2>4. \A d \in Consumer : d # c => work'[d] = work[d]
    BY <2>3 DEF TInv, TypeOK
  <2> QED BY <2>1, <2>2, <2>3, <2>4 DEF NoFirst
<1>2. CASE \A c \in Consumer : ~UpdateSummary(c)
  BY <1>0, <1>2, SummariesKept DEF NoFirst
<1> QED BY <1>1, <1>2

\* Of the steps, only UpdateSummary could overwrite it, and it writes what
\* the find read.
LEMMA FirstStep ==
    ASSUME TInv, [Next]_vars, ReadInv \/ (Keyed /\ NoFirst),
           NEW f \in Flight, flights[f].first # None
    PROVE  flights'[f].first = flights[f].first
<1>0. TInv'
  BY NextTypes
<1>1. ASSUME NEW c \in Consumer, UpdateSummary(c)
      PROVE  flights'[f].first = flights[f].first
  <2>1. /\ pc[c] = "update"
        /\ flights'[work[c].target].first \in FirstIgtds(c)
        /\ \A g \in Flight : g # work[c].target => flights'[g] = flights[g]
    BY <1>1, UpdateSummaryFacts DEF TInv
  <2>2. ReadInv
    BY DEF NoFirst
  <2>3. work[c].first = flights[work[c].target].first
    BY <2>1, <2>2 DEF ReadInv, ReadIsCurrent
  <2> QED BY <2>1, <2>3 DEF FirstIgtds
<1>2. CASE \A c \in Consumer : ~UpdateSummary(c)
  BY <1>0, <1>2, SummariesKept
<1> QED BY <1>1, <1>2

\* With one TFMS consumer, and with any number of the others: first_igtd is
\* set once, and stays.
THEOREM FirstIgtdStays ==
    ASSUME OneConsumer \/ Keyed PROVE Spec => FirstIgtdKept
<1>1. CASE OneConsumer
  <2>1. Init => TInv /\ ReadInv
    BY InitTypes DEF Init, ReadInv
  <2>2. TInv /\ ReadInv /\ [Next]_vars => (TInv /\ ReadInv)'
    BY <1>1, NextTypes, NextRead
  <2>3. TInv /\ ReadInv /\ [Next]_vars =>
          [\A f \in Flight :
             flights[f].first # None => flights'[f].first = flights[f].first]_vars
    BY FirstStep
  <2> QED BY <2>1, <2>2, <2>3, PTL DEF Spec, FirstIgtdKept
<1>2. CASE Keyed
  <2>1. Init => TInv /\ NoFirst
    BY InitTypes DEF Init, NoFirst
  <2>2. TInv /\ NoFirst /\ [Next]_vars => (TInv /\ NoFirst)'
    BY <1>2, NextTypes, NextNoFirst
  <2>3. TInv /\ NoFirst /\ [Next]_vars =>
          [\A f \in Flight :
             flights[f].first # None => flights'[f].first = flights[f].first]_vars
    BY <1>2, FirstStep
  <2> QED BY <2>1, <2>2, <2>3, PTL DEF Spec, FirstIgtdKept
<1> QED BY <1>1, <1>2

-----------------------------------------------------------------------------
(* Exact counts.                                                           *)

\* The consumers between link and count.
Counting(f) == {c \in Consumer : work[c].target = f /\ pc[c] = "update"}

\* A link that is not counted waits to be, or was cut off by a fault.  In an
\* outage its consumer is cut off already.
ExactFor(f) ==
    /\ flights[f].count + Cardinality(Counting(f)) <= Cardinality(everLinked[f])
    /\ Cardinality(everLinked[f]) <=
          flights[f].count + faults
          + (IF db = "up" THEN Cardinality(Counting(f)) ELSE 0)

\* A TFMS record in hand is new, and linked by its own consumer only.
FreshRecords ==
    \A c \in Consumer :
       /\ pc[c] \in {"find", "mark", "update"} => work[c].isNew
       /\ pc[c] \in {"find", "mark"} =>
             \A f \in Flight : work[c].record \notin everLinked[f]

Exact == \A f \in Flight : ExactFor(f)

EInv == FreshRecords /\ Exact

LEMMA AtMostOne ==
    ASSUME OneConsumer, NEW S \in SUBSET Consumer
    PROVE  Cardinality(S) = IF S = {} THEN 0 ELSE 1
<1>1. CASE S = {}
  BY <1>1, FS_EmptySet
<1>2. ASSUME S # {} PROVE Cardinality(S) = 1
  <2>1. PICK c \in S : TRUE
    BY <1>2
  <2>2. S = {c}
    BY <2>1 DEF OneConsumer
  <2> QED BY <2>2, FS_Singleton
<1> QED BY <1>1, <1>2

LEMMA CountingType ==
    ASSUME OneConsumer, NEW f
    PROVE  Cardinality(Counting(f)) \in 0..1 /\ Cardinality(Counting(f)') \in 0..1
<1>1. Counting(f) \in SUBSET Consumer /\ Counting(f)' \in SUBSET Consumer
  BY DEF Counting
<1> QED BY <1>1, AtMostOne

LEMMA CountTypes ==
    ASSUME TInv, CInv, NEW f \in Flight
    PROVE  /\ flights[f].count \in Nat /\ faults \in Nat
           /\ IsFiniteSet(everLinked[f]) /\ Cardinality(everLinked[f]) \in Nat
<1>1. faults \in Nat
  BY DEF TInv, TypeOK
<1>2. flights[f].count \in Nat
  BY FlightTypes DEF TInv
<1>3. LinkedAreRecords
  BY DEF CInv
<1> QED BY <1>1, <1>2, <1>3, LinkedFinite

LEMMA InitExact == Init => EInv
<1> SUFFICES ASSUME Init PROVE EInv
  OBVIOUS
<1>1. ASSUME NEW f \in Flight PROVE ExactFor(f)
  <2>1. Counting(f) = {} /\ everLinked[f] = {} /\ flights[f].count = 0 /\ faults = 0
    BY DEF Init, Counting
  <2>2. Cardinality(Counting(f)) = 0 /\ Cardinality(everLinked[f]) = 0
    BY <2>1, FS_EmptySet
  <2> QED BY <2>1, <2>2 DEF ExactFor
<1> QED BY <1>1 DEF Init, EInv, Exact, FreshRecords

LEMMA ExactIsExact ==
    ASSUME OneConsumer PROVE TInv /\ CInv /\ EInv => CountIsExact
<1> SUFFICES ASSUME TInv, CInv, EInv, NEW f \in Flight
             PROVE  LET counted == flights[f].count + Cardinality(Counting(f))
                    IN  Cardinality(everLinked[f]) \in counted..(counted + faults)
  BY DEF CountIsExact, Counting
<1>1. /\ flights[f].count \in Nat /\ faults \in Nat
      /\ Cardinality(everLinked[f]) \in Nat /\ Cardinality(Counting(f)) \in 0..1
  BY CountTypes, CountingType
<1> QED BY <1>1 DEF EInv, Exact, ExactFor

\* A step that neither links nor counts.  One that loses a record between
\* link and count, or an outage that meets one, is a fault.
LEMMA ExactKept ==
    ASSUME OneConsumer, TInv, TInv', CInv, NEW f \in Flight, ExactFor(f),
           UNCHANGED everLinked, flights'[f].count = flights[f].count,
           Counting(f)' \subseteq Counting(f),
           \/ faults' = faults + 1
           \/ /\ faults' = faults
              /\ \/ db' = "up" /\ Counting(f)' = Counting(f)
                 \/ db = "down" /\ db' = "down"
    PROVE  ExactFor(f)'
<1>1. /\ flights[f].count \in Nat /\ faults \in Nat
      /\ Cardinality(everLinked[f]) \in Nat
      /\ Cardinality(Counting(f)) \in 0..1 /\ Cardinality(Counting(f)') \in 0..1
  BY CountTypes, CountingType
<1>2. Cardinality(Counting(f)') <= Cardinality(Counting(f))
  <2>1. Counting(f) \in SUBSET Consumer /\ Counting(f)' \in SUBSET Consumer
    BY DEF Counting
  <2> QED BY <2>1, AtMostOne
<1> QED BY <1>1, <1>2 DEF ExactFor

LEMMA MarkLinkedExact ==
    ASSUME OneConsumer, TInv, TInv', CInv, EInv, NEW c \in Consumer, MarkLinked(c)
    PROVE  EInv'
<1>0. PICK r \in 1..Len(records), f \in Flight : r = work[c].record /\ f = work[c].target
  BY MarkLinkedFacts DEF TInv
<1>1. UNCHANGED <<work, flights, faults, db>> /\ db = "up"
  BY DEF MarkLinked
<1>2. /\ pc[c] = "mark" /\ pc' = [pc EXCEPT ![c] = "update"]
      /\ everLinked'[f] = everLinked[f] \cup {r}
      /\ \A g \in Flight : g # f => everLinked'[g] = everLinked[g]
  BY <1>0, MarkLinkedFacts DEF TInv
<1>3. pc'[c] = "update"
  BY <1>2 DEF TInv, TypeOK
<1>4. r \notin everLinked[f]
  BY <1>0, <1>2 DEF EInv, FreshRecords
<1>5. FreshRecords'
  BY <1>1, <1>2, <1>3 DEF EInv, FreshRecords, OneConsumer
<1>6. ExactFor(f)'
  <2>1. Counting(f) = {} /\ Counting(f)' = {c}
    BY <1>0, <1>1, <1>2, <1>3 DEF Counting, OneConsumer
  <2>2. Cardinality(Counting(f)) = 0 /\ Cardinality(Counting(f)') = 1
    BY <2>1, FS_EmptySet, FS_Singleton
  <2>3. Cardinality(everLinked'[f]) = Cardinality(everLinked[f]) + 1
    <3>1. IsFiniteSet(everLinked[f])
      BY CountTypes
    <3>2. Cardinality(everLinked[f] \cup {r}) = Cardinality(everLinked[f]) + 1
      BY <1>4, <3>1, FS_AddElement
    <3> QED BY <1>2, <3>2
  <2>4. /\ flights[f].count \in Nat /\ faults \in Nat
        /\ Cardinality(everLinked[f]) \in Nat
    BY CountTypes
  <2> QED BY <1>1, <2>2, <2>3, <2>4 DEF EInv, Exact, ExactFor
<1>7. ASSUME NEW g \in Flight, g # f PROVE ExactFor(g)'
  <2>1. Counting(g)' = Counting(g)
    BY <1>0, <1>1, <1>2, <1>3, <1>7 DEF Counting, OneConsumer
  <2> QED BY <1>1, <1>2, <1>7, <2>1 DEF EInv, Exact, ExactFor
<1> QED BY <1>5, <1>6, <1>7 DEF EInv, Exact

LEMMA UpdateSummaryExact ==
    ASSUME OneConsumer, ~Keyed, TInv, TInv', CInv, ReadInv, EInv,
           NEW c \in Consumer, UpdateSummary(c)
    PROVE  EInv'
<1>0. PICK f \in Flight : f = work[c].target
  BY UpdateSummaryFacts DEF TInv
<1>1. /\ pc[c] = "update" /\ pc' = [pc EXCEPT ![c] = "route"]
      /\ flights'[f].count = IF work[c].isNew THEN work[c].count + 1 ELSE work[c].count
      /\ \A g \in Flight : g # f => flights'[g] = flights[g]
      /\ UNCHANGED <<everLinked, faults, db, work>> /\ db = "up"
  BY <1>0, UpdateSummaryFacts DEF TInv, UpdateSummary
<1>2. pc'[c] = "route"
  BY <1>1 DEF TInv, TypeOK
<1>3. flights'[f].count = flights[f].count + 1
  BY <1>0, <1>1 DEF EInv, FreshRecords, ReadInv, ReadIsCurrent
<1>4. FreshRecords'
  BY <1>2 DEF FreshRecords, OneConsumer
<1>5. ExactFor(f)'
  <2>1. Counting(f) = {c} /\ Counting(f)' = {}
    BY <1>0, <1>1, <1>2 DEF Counting, OneConsumer
  <2>2. Cardinality(Counting(f)) = 1 /\ Cardinality(Counting(f)') = 0
    BY <2>1, FS_EmptySet, FS_Singleton
  <2>3. /\ flights[f].count \in Nat /\ faults \in Nat
        /\ Cardinality(everLinked[f]) \in Nat
    BY CountTypes
  <2>4. /\ flights[f].count + 1 <= Cardinality(everLinked[f])
        /\ Cardinality(everLinked[f]) <= flights[f].count + faults + 1
    BY <1>1, <2>2 DEF EInv, Exact, ExactFor
  <2>5. /\ Cardinality(everLinked'[f]) = Cardinality(everLinked[f])
        /\ faults' = faults
    BY <1>1
  <2> QED BY <1>3, <2>2, <2>3, <2>4, <2>5 DEF ExactFor
<1>6. ASSUME NEW g \in Flight, g # f PROVE ExactFor(g)'
  <2>1. Counting(g)' = {} /\ Counting(g) = {}
    BY <1>0, <1>1, <1>2, <1>6 DEF Counting, OneConsumer
  <2>2. Counting(g)' = Counting(g)
    BY <2>1
  <2> QED BY <1>1, <1>6, <2>2 DEF EInv, Exact, ExactFor
<1> QED BY <1>4, <1>5, <1>6 DEF EInv, Exact

LEMMA StoreRecordExact ==
    ASSUME OneConsumer, ~Keyed, TInv, TInv', CInv, EInv,
           NEW c \in Consumer, StoreRecord(c)
    PROVE  EInv'
<1>1. pc[c] = "store" /\ todo[c] # <<>> /\ work[c] = NoWork
  BY DEF StoreRecord, At, TInv, Locals, LocalsOf, InHand, InCollection
<1>2. PICK r \in 1..Len(records') :
         /\ work' = [work EXCEPT ![c].isNew = Inserts(Head(todo[c])), ![c].record = r]
         /\ r = Len(records) + 1
  BY <1>1, StoreRecordFacts DEF TInv
<1>3. /\ UNCHANGED <<flights, everLinked, db, faults>> /\ db = "up" /\ pc'[c] = "find"
  BY DEF StoreRecord, At, history, TInv, TypeOK
<1>4. work'[c].record = r /\ work'[c].isNew
  <2>1. work \in [Consumer -> Work]
    BY DEF TInv, TypeOK
  <2>2. work[c] \in Work
    BY <2>1
  <2>3. Inserts(Head(todo[c]))
    BY DEF Inserts
  <2>4. work' = [work EXCEPT ![c] = [work[c] EXCEPT !.isNew = Inserts(Head(todo[c])),
                                                    !.record = r]]
    BY <1>2
  <2> QED BY <2>1, <2>2, <2>3, <2>4 DEF Work
<1>5. \A f \in Flight : r \notin everLinked[f]
  <2>1. Len(records) \in Nat
    BY DEF TInv, TypeOK
  <2> QED BY <1>2, <2>1 DEF CInv, LinkedAreRecords
<1>6. FreshRecords'
  BY <1>3, <1>4, <1>5 DEF FreshRecords, OneConsumer
<1>7. ASSUME NEW f \in Flight PROVE ExactFor(f)'
  <2>1. Counting(f)' = {} /\ Counting(f) = {}
    BY <1>1, <1>3 DEF Counting, OneConsumer
  <2> QED BY <1>3, <2>1, ExactKept DEF EInv, Exact
<1> QED BY <1>6, <1>7 DEF EInv, Exact

LEMMA FindFlightExact ==
    ASSUME OneConsumer, ~Keyed, TInv, TInv', CInv, EInv,
           NEW c \in Consumer, FindFlight(c)
    PROVE  EInv'
<1>1. /\ pc[c] = "find" /\ UNCHANGED <<flights, everLinked, db, faults>> /\ db = "up"
  BY DEF FindFlight, At, database
<1>2. /\ pc'[c] \in {"mark", "route"} /\ work'[c].record = work[c].record
      /\ work'[c].isNew = work[c].isNew
  <2>1. CASE At(c, "find", "route") /\ UNCHANGED work
    BY <1>1, <2>1 DEF At, TInv, TypeOK
  <2>2. ASSUME NEW f \in Linkable,
               At(c, "find", "mark"),
               work' = [work EXCEPT ![c].target = f,
                                    ![c].count = flights[f].count,
                                    ![c].first = flights[f].first]
        PROVE  /\ pc'[c] = "mark" /\ work'[c].record = work[c].record
               /\ work'[c].isNew = work[c].isNew
    <3>1. work'[c].record = work[c].record /\ work'[c].isNew = work[c].isNew
      BY <2>2, FoundFacts DEF TInv
    <3> QED BY <2>2, <3>1 DEF At, TInv, TypeOK
  <2> QED BY <2>1, <2>2 DEF FindFlight
<1>3. FreshRecords'
  BY <1>1, <1>2 DEF EInv, FreshRecords, OneConsumer
<1>4. ASSUME NEW f \in Flight PROVE ExactFor(f)'
  <2>1. Counting(f)' = {} /\ Counting(f) = {}
    BY <1>1, <1>2 DEF Counting, OneConsumer
  <2> QED BY <1>1, <2>1, ExactKept DEF EInv, Exact
<1> QED BY <1>3, <1>4 DEF EInv, Exact

\* The other steps of a consumer that is not counting.
LEMMA QuietExact ==
    ASSUME OneConsumer, TInv, TInv', CInv, EInv, NEW c \in Consumer,
           \/ Start(c) \/ Fetch(c) \/ Parse(c) \/ UpdateRoute(c) \/ Commit(c)
           \/ Raises(c) \/ TaskEnds(c) \/ Crash(c)
    PROVE  EInv'
<1>1. /\ UNCHANGED <<records, flights, everLinked>>
      /\ pc'[c] \in InCollection => pc'[c] = pc[c] /\ work'[c] = work[c]
  BY QuietSteps
<1>2. FreshRecords'
  BY <1>1 DEF EInv, FreshRecords, OneConsumer, InCollection
<1>3. faults \in Nat
  BY DEF TInv, TypeOK
<1>4. ASSUME NEW f \in Flight PROVE ExactFor(f)'
  <2>1. Counting(f)' \subseteq Counting(f)
    BY <1>1 DEF Counting, OneConsumer, InCollection
  <2>2. CASE faults' = faults + 1
    BY <1>1, <1>4, <2>1, <2>2, ExactKept DEF EInv, Exact
  <2>3. CASE faults' = faults /\ db = "down" /\ db' = "down"
    BY <1>1, <1>4, <2>1, <2>3, ExactKept DEF EInv, Exact
  <2>4. CASE pc[c] # "update" /\ UNCHANGED <<faults, db>>
    <3>1. Counting(f)' = Counting(f)
      BY <2>1, <2>4 DEF Counting, OneConsumer
    <3>2. db \in {"up", "down"}
      BY DEF TInv, TypeOK
    <3> QED BY <1>1, <1>4, <2>1, <2>4, <3>1, <3>2, ExactKept DEF EInv, Exact
  <2> QED
    BY <2>2, <2>3, <2>4
       DEF Start, Fetch, Parse, UpdateRoute, Commit, Raises, TaskEnds, Crash, Fault, At
<1> QED BY <1>2, <1>4 DEF EInv, Exact

LEMMA NextExact ==
    ASSUME OneConsumer, ~Keyed
    PROVE  TInv /\ CInv /\ ReadInv /\ EInv /\ [Next]_vars => EInv'
<1> SUFFICES ASSUME TInv, CInv, ReadInv, EInv, [Next]_vars PROVE EInv'
  OBVIOUS
<1>0. TInv' /\ db \in {"up", "down"}
  BY NextTypes DEF TInv, TypeOK
<1> USE DEF offsets, local, database, history
<1>1. ASSUME UNCHANGED <<pc, work, everLinked>>,
             \A f \in Flight : flights'[f].count = flights[f].count,
             faults' = faults + 1 \/ (faults' = faults /\ (db' = "up" \/ db' = db))
      PROVE  EInv'
  <2>1. FreshRecords'
    BY <1>1 DEF EInv, FreshRecords
  <2>2. ASSUME NEW f \in Flight PROVE ExactFor(f)'
    <3>1. Counting(f)' = Counting(f)
      BY <1>1 DEF Counting
    <3>2. ExactFor(f)
      BY DEF EInv, Exact
    <3> QED BY <1>0, <1>1, <3>1, <3>2, ExactKept
  <2> QED BY <2>1, <2>2 DEF EInv, Exact
<1>2. ASSUME NEW c \in Consumer, NEW m, Produce(c, m) PROVE EInv'
  BY <1>1, <1>2 DEF Produce
<1>3. ASSUME NEW f \in Flight, AddFlight(f) \/ DeleteFlight(f) PROVE EInv'
  BY <1>1, <1>3, StatusChanges DEF AddFlight, DeleteFlight, FlightChanges
<1>4. CASE DbFails \/ DbRecovers
  BY <1>1, <1>4 DEF DbFails, DbRecovers, Fault
<1>5. CASE UNCHANGED vars
  BY <1>1, <1>5 DEF vars
<1> QED
  BY <1>0, <1>2, <1>3, <1>4, <1>5, QuietExact, StoreRecordExact, FindFlightExact,
     MarkLinkedExact, UpdateSummaryExact DEF Next, ConsumerStep

\* With one TFMS consumer, a summary differs from the records linked to its
\* flight by the one that is being counted, and by at most one for each fault.
THEOREM SummariesAreExact ==
    ASSUME OneConsumer, ~Keyed PROVE Spec => []CountIsExact
<1>1. Init => TInv /\ CInv /\ ReadInv /\ EInv
  BY InitTypes, InitCounts, InitExact DEF Init, ReadInv
<1>2. TInv /\ CInv /\ ReadInv /\ EInv /\ [Next]_vars
        => (TInv /\ CInv /\ ReadInv /\ EInv)'
  BY NextTypes, NextCounts, NextRead, NextExact
<1>3. TInv /\ CInv /\ ReadInv /\ EInv => CountIsExact
  BY ExactIsExact
<1> QED BY <1>1, <1>2, <1>3, PTL DEF Spec

-----------------------------------------------------------------------------
(* The cost of a fault.                                                    *)

\* Consumers that an outage has caught with a message in hand: they will
\* lose it, or sit the outage out.
Exposed == {c \in Consumer : db = "down" /\ pc[c] \in InHand}

SkippedAreFetched ==
    \A c \in Consumer : skipped[c] \subseteq 1..Len(log[c])

HeldAreParsable ==
    \A c \in Consumer : pc[c] \in InHand => Parsable(c, position[c])

LossesAreFaults == Cardinality(Lost) + Cardinality(Exposed) <= faults

LInv == SkippedAreFetched /\ HeldAreParsable /\ LossesAreFaults

LEMMA LostTypes ==
    ASSUME OneConsumer
    PROVE  /\ \A S \in SUBSET (Consumer \X (1..MaxMessages)) :
                 IsFiniteSet(S) /\ Cardinality(S) \in Nat
           /\ IsFiniteSet(Lost) /\ Cardinality(Lost) \in Nat
           /\ Cardinality(Exposed) \in 0..1 /\ Cardinality(Exposed)' \in 0..1
<1>1. IsFiniteSet(Consumer)
  <2>1. CASE Consumer = {}
    BY <2>1, FS_EmptySet
  <2>2. ASSUME NEW c \in Consumer PROVE IsFiniteSet(Consumer)
    <3>1. Consumer = {c}
      BY DEF OneConsumer
    <3> QED BY <3>1, FS_Singleton
  <2> QED BY <2>1, <2>2
<1>2. IsFiniteSet(1..MaxMessages)
  BY FS_Interval
<1>3. IsFiniteSet(Consumer \X (1..MaxMessages))
  BY <1>1, <1>2, FS_Product
<1>4. \A S \in SUBSET (Consumer \X (1..MaxMessages)) :
         IsFiniteSet(S) /\ Cardinality(S) \in Nat
  BY <1>3, FS_Subset, FS_CardinalityType
<1>5. Lost \in SUBSET (Consumer \X (1..MaxMessages))
  BY DEF Lost
<1>6. Exposed \in SUBSET Consumer /\ Exposed' \in SUBSET Consumer
  BY DEF Exposed
<1> QED BY <1>4, <1>5, <1>6, AtMostOne

LEMMA InitLosses == Init => LInv
<1> SUFFICES ASSUME Init PROVE LInv
  OBVIOUS
<1>1. Lost = {} /\ Exposed = {}
  BY DEF Init, Lost, Exposed
<1>2. Cardinality(Lost) = 0 /\ Cardinality(Exposed) = 0
  BY <1>1, FS_EmptySet
<1>3. LossesAreFaults
  BY <1>2 DEF Init, LossesAreFaults
<1> QED BY <1>3 DEF Init, LInv, SkippedAreFetched, HeldAreParsable, InHand

LEMMA LossesCost ==
    ASSUME OneConsumer PROVE TInv /\ LInv => FaultCostsOneMessage
<1> SUFFICES ASSUME TInv, LInv PROVE Cardinality(Lost) <= faults
  BY DEF FaultCostsOneMessage
<1>1. /\ Cardinality(Lost) \in Nat /\ Cardinality(Exposed) \in 0..1
      /\ faults \in Nat
  BY LostTypes DEF TInv, TypeOK
<1> QED BY <1>1 DEF LInv, LossesAreFaults

\* What was lost stays lost, when no more is skipped: the log only grows.
LEMMA LostKept ==
    ASSUME SkippedAreFetched, UNCHANGED skipped,
           \A c \in Consumer : \A n \in 1..Len(log[c]) : log'[c][n] = log[c][n]
    PROVE  Lost' = Lost
BY DEF SkippedAreFetched, Lost, Parsable

\* So such a step keeps the losses below the faults, unless it exposes a
\* consumer without being a fault.
LEMMA LossesKept ==
    ASSUME OneConsumer, TInv, TInv', LInv, UNCHANGED <<log, skipped>>,
           \/ faults' = faults + 1 /\ (Exposed = {} \/ Exposed' = {})
           \/ faults' = faults /\ Exposed' \in SUBSET Exposed
    PROVE  SkippedAreFetched' /\ LossesAreFaults'
<1>1. Lost' = Lost
  BY LostKept DEF LInv
<1>2. /\ Cardinality(Lost) \in Nat /\ faults \in Nat
      /\ Cardinality(Exposed) \in 0..1 /\ Cardinality(Exposed)' \in 0..1
  BY LostTypes DEF TInv, TypeOK
<1>3. /\ Exposed = {} => Cardinality(Exposed) = 0
      /\ Exposed' = {} => Cardinality(Exposed)' = 0
  BY FS_EmptySet
<1>4. Exposed' \in SUBSET Exposed => Cardinality(Exposed)' <= Cardinality(Exposed)
  <2>1. Exposed \in SUBSET Consumer /\ Exposed' \in SUBSET Consumer
    BY DEF Exposed
  <2> QED BY <2>1, AtMostOne
<1>5. LossesAreFaults'
  BY <1>1, <1>2, <1>3, <1>4 DEF LInv, LossesAreFaults
<1> QED BY <1>5 DEF LInv, SkippedAreFetched

\* A message that is given up.
LEMMA RaisesLosses ==
    ASSUME OneConsumer, TInv, TInv', LInv, NEW c \in Consumer, Raises(c)
    PROVE  LInv'
<1>1. /\ UNCHANGED <<log, position, db>> /\ pc' = [pc EXCEPT ![c] = "poll"]
  BY DEF Raises, offsets
<1>2. pc'[c] = "poll"
  BY <1>1 DEF TInv, TypeOK
<1>3. Exposed' = {}
  BY <1>2 DEF Exposed, OneConsumer, InHand
<1>4. HeldAreParsable'
  BY <1>2 DEF HeldAreParsable, OneConsumer, InHand
<1>5. CASE pc[c] = "commit" /\ UNCHANGED skipped
  <2>1. faults' = faults + 1
    BY <1>5 DEF Raises, InHand, Fault
  <2> QED BY <1>1, <1>3, <1>4, <1>5, <2>1, LossesKept DEF LInv
<1>6. CASE /\ pc[c] \in InHand /\ Skip(c)
           /\ \/ db = "down" /\ UNCHANGED faults
              \/ db = "up" /\ Fault
  <2>1. position[c] \in 1..Len(log[c])
    BY <1>6, ConsumerTypes DEF TInv, Locals, LocalsOf, InHand
  <2>2. skipped'[c] = skipped[c] \cup {position[c]}
    BY <1>6 DEF Skip, TInv, TypeOK
  <2>3. SkippedAreFetched'
    BY <1>1, <2>1, <2>2 DEF LInv, SkippedAreFetched, OneConsumer
  <2>4. Lost' \in SUBSET (Lost \cup {<<c, position[c]>>})
    BY <1>1, <2>2 DEF Lost, Parsable, OneConsumer
  <2>5. IsFiniteSet(Lost) /\ Cardinality(Lost) \in Nat
    BY LostTypes
  <2>6. /\ IsFiniteSet(Lost \cup {<<c, position[c]>>})
        /\ Cardinality(Lost \cup {<<c, position[c]>>}) \in Nat
        /\ Cardinality(Lost \cup {<<c, position[c]>>}) <= Cardinality(Lost) + 1
    <3> DEFINE o == <<c, position[c]>>
    <3> HIDE DEF o
    <3>1. /\ IsFiniteSet(Lost \cup {o})
          /\ Cardinality(Lost \cup {o}) = IF o \in Lost THEN Cardinality(Lost)
                                          ELSE Cardinality(Lost) + 1
      BY <2>5, FS_AddElement
    <3>2. /\ Cardinality(Lost \cup {o}) \in Nat
          /\ Cardinality(Lost \cup {o}) <= Cardinality(Lost) + 1
      BY <2>5, <3>1
    <3> QED BY <3>1, <3>2 DEF o
  <2>7. Cardinality(Lost') <= Cardinality(Lost) + 1 /\ Cardinality(Lost') \in Nat
    <3>1. IsFiniteSet(Lost')
      BY <2>4, <2>6, FS_Subset
    <3>2. Cardinality(Lost') \in Nat
      BY <3>1, FS_CardinalityType
    <3>3. Cardinality(Lost') <= Cardinality(Lost \cup {<<c, position[c]>>})
      BY <2>4, <2>6, FS_Subset
    <3> QED BY <2>5, <2>6, <3>2, <3>3
  <2>8. Cardinality(Exposed)' = 0
    BY <1>3, FS_EmptySet
  <2>9. faults' = faults + 1 \/ (faults' = faults /\ Cardinality(Exposed) = 1)
    <3>1. CASE db = "up"
      BY <1>6, <3>1 DEF Fault
    <3>2. CASE db = "down"
      <4>1. Exposed = {c}
        BY <1>6, <3>2 DEF Exposed, OneConsumer
      <4> QED BY <1>6, <3>2, <4>1, FS_Singleton
    <3> QED BY <1>6, <3>1, <3>2
  <2>10. faults \in Nat /\ Cardinality(Exposed) \in 0..1
    BY LostTypes DEF TInv, TypeOK
  <2>11. LossesAreFaults'
    BY <2>5, <2>7, <2>8, <2>9, <2>10 DEF LInv, LossesAreFaults
  <2> QED BY <1>4, <2>3, <2>11 DEF LInv
<1> QED BY <1>5, <1>6 DEF Raises, InHand

\* The message in hand was parsed, with the database up.
LEMMA ParseLosses ==
    ASSUME OneConsumer, TInv, TInv', LInv, NEW c \in Consumer, Parse(c)
    PROVE  LInv'
<1>1. /\ UNCHANGED <<log, position, db, faults>> /\ db = "up" /\ pc[c] = "health"
  BY DEF Parse, Healthy, offsets
<1>2. Exposed' = {} /\ Exposed = {}
  BY <1>1 DEF Exposed
<1>3. CASE Current(c) = Unparsable /\ At(c, "health", "poll") /\ Skip(c)
  <2>1. position[c] \in 1..Len(log[c])
    BY <1>1, ConsumerTypes DEF TInv, Locals, LocalsOf
  <2>2. skipped'[c] = skipped[c] \cup {position[c]} /\ pc'[c] = "poll"
    BY <1>3 DEF Skip, At, TInv, TypeOK
  <2>3. SkippedAreFetched'
    BY <1>1, <2>1, <2>2 DEF LInv, SkippedAreFetched, OneConsumer
  <2>4. HeldAreParsable'
    BY <2>2 DEF HeldAreParsable, OneConsumer, InHand
  <2>5. Lost' = Lost
    <3>1. ~Parsable(c, position[c])
      BY <1>3 DEF Parsable, Current
    <3> QED BY <1>1, <2>2, <3>1 DEF Lost, Parsable, OneConsumer
  <2>6. LossesAreFaults'
    BY <1>1, <1>2, <2>5 DEF LInv, LossesAreFaults
  <2> QED BY <2>3, <2>4, <2>6 DEF LInv
<1>4. CASE UNCHANGED skipped
  <2>1. SkippedAreFetched' /\ LossesAreFaults'
    BY <1>1, <1>2, <1>4, LossesKept
  <2>2. HeldAreParsable'
    BY <1>1, <1>2 DEF Parse, At, Parsable, Current, HeldAreParsable, OneConsumer,
                      InHand, TInv, TypeOK
  <2> QED BY <2>1, <2>2 DEF LInv
<1> QED BY <1>3, <1>4 DEF Parse

LEMMA NextLosses ==
    ASSUME OneConsumer PROVE TInv /\ LInv /\ [Next]_vars => LInv'
<1> SUFFICES ASSUME TInv, LInv, [Next]_vars PROVE LInv'
  OBVIOUS
<1>0. TInv' /\ db \in {"up", "down"}
  BY NextTypes DEF TInv, TypeOK
<1> USE DEF offsets, local, database, history
<1>1. ASSUME UNCHANGED <<log, skipped, position>>,
             \A c \in Consumer : pc'[c] \in InHand => pc[c] \in InHand,
             \/ faults' = faults + 1 /\ (Exposed = {} \/ Exposed' = {})
             \/ faults' = faults /\ Exposed' \in SUBSET Exposed
      PROVE  LInv'
  <2>1. SkippedAreFetched' /\ LossesAreFaults'
    BY <1>0, <1>1, LossesKept
  <2>2. HeldAreParsable'
    BY <1>1 DEF LInv, HeldAreParsable, Parsable
  <2> QED BY <2>1, <2>2 DEF LInv
<1>2. ASSUME NEW c \in Consumer, NEW m, Produce(c, m) PROVE LInv'
  <2>1. UNCHANGED <<pc, position, skipped, db, faults>>
    BY <1>2 DEF Produce
  <2>2. \A d \in Consumer :
           /\ Len(log'[d]) >= Len(log[d]) /\ Len(log'[d]) \in Nat
           /\ \A n \in 1..Len(log[d]) : log'[d][n] = log[d][n]
    <3>1. log' = [log EXCEPT ![c] = Append(@, m)] /\ log[c] \in Seq(Parsed \cup {Unparsable})
      BY <1>2, ConsumerTypes DEF Produce, TInv
    <3>2. \A n \in 1..Len(log[c]) : Append(log[c], m)[n] = log[c][n]
      BY <3>1
    <3>3. Len(Append(log[c], m)) = Len(log[c]) + 1 /\ Len(log[c]) \in Nat
      BY <3>1
    <3> QED BY <3>1, <3>2, <3>3, ConsumerTypes DEF TInv, TypeOK
  <2>3. Lost' = Lost
    BY <2>1, <2>2, LostKept DEF LInv
  <2>4. Exposed' = Exposed
    BY <2>1 DEF Exposed
  <2>5. LossesAreFaults'
    BY <2>1, <2>3, <2>4 DEF LInv, LossesAreFaults
  <2>6. SkippedAreFetched'
    BY <2>1, <2>2, ConsumerTypes DEF LInv, SkippedAreFetched, TInv
  <2>7. HeldAreParsable'
    <3>1. \A d \in Consumer : pc[d] \in InHand => position[d] \in 1..Len(log[d])
      BY ConsumerTypes DEF TInv, Locals, LocalsOf, InHand
    <3> QED BY <2>1, <2>2, <3>1 DEF LInv, HeldAreParsable, Parsable
  <2> QED BY <2>5, <2>6, <2>7 DEF LInv
<1>3. ASSUME NEW f \in Flight, AddFlight(f) \/ DeleteFlight(f) PROVE LInv'
  <2>1. UNCHANGED <<log, skipped, position, pc, db, faults>>
    BY <1>3 DEF AddFlight, DeleteFlight, FlightChanges
  <2>2. Exposed' = Exposed
    BY <2>1 DEF Exposed
  <2> QED BY <1>1, <2>1, <2>2
<1>4. CASE DbFails
  <2>1. UNCHANGED <<log, skipped, position, pc>> /\ faults' = faults + 1 /\ Exposed = {}
    BY <1>4 DEF DbFails, Fault, Exposed
  <2> QED BY <1>1, <2>1
<1>5. CASE DbRecovers
  <2>1. UNCHANGED <<log, skipped, position, pc, faults>> /\ Exposed' = {}
    BY <1>5 DEF DbRecovers, Exposed
  <2> QED BY <1>1, <2>1
<1>6. CASE UNCHANGED vars
  <2>1. UNCHANGED <<log, skipped, position, pc, db, faults>>
    BY <1>6 DEF vars
  <2>2. Exposed' = Exposed
    BY <2>1 DEF Exposed
  <2> QED BY <1>1, <2>1, <2>2
<1>7. ASSUME NEW c \in Consumer, Start(c) \/ Fetch(c) \/ Commit(c) PROVE LInv'
  <2>1. /\ UNCHANGED <<log, skipped, db, faults>> /\ pc'[c] \notin InHand
    BY <1>7 DEF Start, Fetch, Commit, At, InHand, TInv, TypeOK
  <2>2. Exposed' = {}
    BY <2>1 DEF Exposed, OneConsumer
  <2>3. HeldAreParsable'
    BY <2>1 DEF HeldAreParsable, OneConsumer
  <2>4. SkippedAreFetched' /\ LossesAreFaults'
    BY <1>0, <2>1, <2>2, LossesKept
  <2> QED BY <2>3, <2>4 DEF LInv
<1>8. ASSUME NEW c \in Consumer,
             StoreRecord(c) \/ FindFlight(c) \/ MarkLinked(c) \/ UpdateSummary(c)
               \/ UpdateRoute(c)
      PROVE  LInv'
  <2>1. /\ UNCHANGED <<log, skipped, position, db, faults>> /\ db = "up"
        /\ pc[c] \in InHand
    BY <1>8 DEF StoreRecord, FindFlight, MarkLinked, UpdateSummary, UpdateRoute, At,
                InHand
  <2>2. \A d \in Consumer : pc'[d] \in InHand => pc[d] \in InHand
    BY <2>1 DEF OneConsumer
  <2>3. Exposed' = {}
    BY <2>1 DEF Exposed
  <2> QED BY <1>1, <2>1, <2>2, <2>3
<1>9. ASSUME NEW c \in Consumer, TaskEnds(c) \/ Crash(c) PROVE LInv'
  <2>1. /\ UNCHANGED <<log, skipped, position>> /\ pc'[c] \notin InHand
        /\ faults' = faults + 1
    BY <1>9 DEF TaskEnds, Crash, Fault, InHand, TInv, TypeOK
  <2>2. Exposed' = {}
    BY <2>1 DEF Exposed, OneConsumer
  <2> QED BY <1>1, <2>1, <2>2 DEF OneConsumer
<1> QED
  BY <1>0, <1>2, <1>3, <1>4, <1>5, <1>6, <1>7, <1>8, <1>9, RaisesLosses, ParseLosses
     DEF Next, ConsumerStep

\* With one consumer: an exception costs the message in hand, an outage at
\* most that one, a crash none, and a message that does not parse is no loss
\* of another.
THEOREM FaultsCostOneMessage ==
    ASSUME OneConsumer PROVE Spec => []FaultCostsOneMessage
<1>1. Init => TInv /\ LInv
  BY InitTypes, InitLosses
<1>2. TInv /\ LInv /\ [Next]_vars => (TInv /\ LInv)'
  BY NextTypes, NextLosses
<1>3. TInv /\ LInv => FaultCostsOneMessage
  BY LossesCost
<1> QED BY <1>1, <1>2, <1>3, PTL DEF Spec

=============================================================================

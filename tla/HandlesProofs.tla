--------------------------- MODULE HandlesProofs ---------------------------
(***************************************************************************)
(* Proofs about Handles, for any processes, tasks, collections, numbers of *)
(* indexes and faults.                                                     *)
(***************************************************************************)
EXTENDS Handles, TLAPS

USE HandlesAssumption DEF NoCollection

\* A task that is past the check of the handle has one.
HandleInUse == \A t \in Task : step[t] # "idle" => Handle(t) # "none"

\* A unique index is made of unique documents and keeps them so.
UniqueIsUnique == \A c \in Unique : 1 \in indexes[c] => docs[c] <= 1

\* The indexes before the next one of a task that makes them exist.
MadeInOrder ==
    \A t \in Task : step[t] = "build" => 1..(next[t] - 1) \subseteq indexes[coll[t]]

FailureIsInterruption == \A p \in Process : failed[p] \subseteq interrupted

IndInv ==
    /\ TypeOK
    /\ HandleInUse
    /\ OneBuilder
    /\ IndexesAreOnTheWay
    /\ UniqueIsUnique
    /\ MadeInOrder
    /\ FailureIsInterruption
    /\ DuplicatesAreExplained

-----------------------------------------------------------------------------
LEMMA InitInv == Init => IndInv
<1> SUFFICES ASSUME Init PROVE IndInv
  OBVIOUS
<1> USE DEF Init
<1>1. TypeOK
  BY DEF TypeOK, Indexes, Step
<1>2. HandleInUse /\ OneBuilder /\ IndexesAreOnTheWay
  BY DEF HandleInUse, OneBuilder, IndexesAreOnTheWay
<1>3. UniqueIsUnique /\ MadeInOrder /\ FailureIsInterruption /\ DuplicatesAreExplained
  BY DEF UniqueIsUnique, MadeInOrder, FailureIsInterruption, DuplicatesAreExplained
<1> QED BY <1>1, <1>2, <1>3 DEF IndInv

LEMMA PingInv == ASSUME IndInv, NEW p \in Process, Ping(p) PROVE IndInv'
<1> USE DEF IndInv, Ping, tasks, history
<1>1. TypeOK'
  BY DEF TypeOK, Indexes
<1>2. HandleInUse' /\ OneBuilder' /\ MadeInOrder'
  BY DEF HandleInUse, Handle, OneBuilder, MadeInOrder
<1>3. IndexesAreOnTheWay'
  BY DEF IndexesAreOnTheWay, Building, Complete, Indexes
<1>4. UniqueIsUnique' /\ FailureIsInterruption' /\ DuplicatesAreExplained'
  BY DEF UniqueIsUnique, FailureIsInterruption, DuplicatesAreExplained, Building
<1> QED BY <1>1, <1>2, <1>3, <1>4

LEMMA FirstCallInv ==
    ASSUME IndInv, NEW t \in Task, NEW c \in Collection, FirstCall(t, c)
    PROVE  IndInv'
<1> USE DEF IndInv, TypeOK
<1> DEFINE p == Home[t]
<1>0. /\ p \in Process /\ step[t] = "idle" /\ handle[p][c] = "none"
      /\ client' = [client EXCEPT ![p] = TRUE]
      /\ handle' = [handle EXCEPT ![p][c] = "open"]
      /\ step' = [step EXCEPT ![t] = "build"]
      /\ coll' = [coll EXCEPT ![t] = c]
      /\ next' = [next EXCEPT ![t] = 1]
      /\ UNCHANGED <<indexes, docs, faults, failed, interrupted>>
  BY DEF FirstCall, Goes, history
<1>1. TypeOK'
  BY <1>0 DEF Step, Indexes
<1>2. HandleInUse'
  BY <1>0 DEF HandleInUse, Handle
<1>3. OneBuilder'
  BY <1>0 DEF OneBuilder, HandleInUse, Handle
<1>4. IndexesAreOnTheWay'
  <2> SUFFICES ASSUME NEW q \in Process, NEW d \in Collection,
                      handle'[q][d] # "none", d \notin failed[q], ~Complete(d)
               PROVE  \E u \in Building(q, d)' :
                         Indexes(d) \ indexes[d] \subseteq next'[u]..Count[d]
    BY <1>0 DEF IndexesAreOnTheWay, Complete, Indexes
  <2>1. CASE q = p /\ d = c
    <3>1. t \in Building(q, d)' /\ next'[t] = 1
      BY <1>0, <2>1 DEF Building
    <3> QED BY <3>1 DEF Indexes
  <2>2. CASE ~(q = p /\ d = c)
    <3>1. PICK u \in Building(q, d) : Indexes(d) \ indexes[d] \subseteq next[u]..Count[d]
      BY <1>0, <2>2 DEF IndexesAreOnTheWay
    <3>2. u # t /\ u \in Building(q, d)' /\ next'[u] = next[u]
      BY <1>0, <3>1 DEF Building
    <3> QED BY <3>1, <3>2
  <2> QED BY <2>1, <2>2
<1>5. MadeInOrder'
  BY <1>0 DEF MadeInOrder
<1>6. UniqueIsUnique' /\ FailureIsInterruption'
  BY <1>0 DEF UniqueIsUnique, FailureIsInterruption
<1>7. DuplicatesAreExplained'
  <2>1. \A q \in Process, d \in Collection : Building(q, d) \subseteq Building(q, d)'
    BY <1>0 DEF Building
  <2> QED BY <1>0, <2>1 DEF DuplicatesAreExplained
<1> QED BY <1>1, <1>2, <1>3, <1>4, <1>5, <1>6, <1>7

\* A step that leaves the indexes, the handles and the tasks that make indexes
\* alone, and forgets no failure, keeps IndexesAreOnTheWay.
LEMMA SameBuilders ==
    ASSUME IndexesAreOnTheWay, UNCHANGED <<indexes, handle>>,
           \A q \in Process : failed[q] \subseteq failed'[q],
           \A q \in Process, d \in Collection :
              \A u \in Building(q, d) : u \in Building(q, d)' /\ next'[u] = next[u]
    PROVE  IndexesAreOnTheWay'
<1> SUFFICES ASSUME NEW q \in Process, NEW d \in Collection,
                    handle[q][d] # "none", d \notin failed[q], ~Complete(d)
             PROVE  \E u \in Building(q, d)' :
                       Indexes(d) \ indexes[d] \subseteq next'[u]..Count[d]
  BY DEF IndexesAreOnTheWay, Complete, Indexes
<1>1. PICK u \in Building(q, d) : Indexes(d) \ indexes[d] \subseteq next[u]..Count[d]
  BY DEF IndexesAreOnTheWay
<1> QED BY <1>1

LEMMA LaterCallInv ==
    ASSUME IndInv, NEW t \in Task, NEW c \in Collection, LaterCall(t, c)
    PROVE  IndInv'
<1> USE DEF IndInv, TypeOK
<1>0. /\ Home[t] \in Process /\ step[t] = "idle" /\ handle[Home[t]][c] # "none"
      /\ client' = [client EXCEPT ![Home[t]] = TRUE]
      /\ step' = [step EXCEPT ![t] = "find"]
      /\ coll' = [coll EXCEPT ![t] = c]
      /\ next' = [next EXCEPT ![t] = 1]
      /\ UNCHANGED <<indexes, docs, handle, faults, failed, interrupted>>
  BY DEF LaterCall, Goes, history
<1>1. TypeOK'
  BY <1>0 DEF Step, Indexes
<1>2. HandleInUse' /\ OneBuilder' /\ MadeInOrder'
  BY <1>0 DEF HandleInUse, Handle, OneBuilder, MadeInOrder
<1>3. /\ \A q \in Process, d \in Collection : Building(q, d)' = Building(q, d)
      /\ \A q \in Process, d \in Collection :
            \A u \in Building(q, d) : next'[u] = next[u]
  BY <1>0 DEF Building
<1>4. IndexesAreOnTheWay'
  BY <1>0, <1>3, SameBuilders
<1>5. UniqueIsUnique' /\ FailureIsInterruption' /\ DuplicatesAreExplained'
  BY <1>0, <1>3 DEF UniqueIsUnique, FailureIsInterruption, DuplicatesAreExplained
<1> QED BY <1>1, <1>2, <1>4, <1>5

LEMMA CreateIndexInv == ASSUME IndInv, NEW t \in Task, CreateIndex(t) PROVE IndInv'
<1> USE DEF IndInv, TypeOK
<1> DEFINE c == coll[t]
           n == next[t]
<1>0. /\ step[t] = "build" /\ c \in Collection /\ n \in Indexes(c)
      /\ c \in Unique /\ n = 1 => docs[c] <= 1
      /\ indexes' = [indexes EXCEPT ![c] = @ \cup {n}]
      /\ UNCHANGED <<docs, client, handle, coll, faults, failed, interrupted>>
      /\ \/ /\ n < Count[c] /\ next' = [next EXCEPT ![t] = n + 1] /\ UNCHANGED step
         \/ /\ n = Count[c] /\ step' = [step EXCEPT ![t] = "find"] /\ UNCHANGED next
  BY DEF CreateIndex, Goes, history, globals, Refused
<1>b. n \in Nat /\ Count[c] \in Nat /\ 1 <= n /\ n <= Count[c]
  BY <1>0 DEF Indexes
<1>a. /\ \A d \in Collection : d # c => indexes'[d] = indexes[d]
      /\ indexes'[c] = indexes[c] \cup {n}
  BY <1>0
<1>1. TypeOK'
  <2>1. \A d \in Collection : indexes'[d] \subseteq Indexes(d)
    BY <1>0, <1>a
  <2>2. next' \in [Task -> Nat] /\ step' \in [Task -> Step]
    <3>1. n + 1 \in Nat
      BY <1>b
    <3>2. [next EXCEPT ![t] = n + 1] \in [Task -> Nat]
      BY <3>1
    <3>3. [step EXCEPT ![t] = "find"] \in [Task -> Step]
      BY DEF Step
    <3> QED BY <1>0, <3>2, <3>3
  <2>3. ASSUME NEW u \in Task, step'[u] # "idle"
        PROVE  coll'[u] \in Collection /\ next'[u] \in Indexes(coll'[u])
    <3>1. coll'[u] = coll[u] /\ step[u] # "idle"
      BY <1>0, <2>3
    <3>2. CASE u = t
      <4>1. next'[t] \in 1..Count[c]
        BY <1>0, <1>b
      <4> QED BY <1>0, <3>1, <3>2, <4>1 DEF Indexes
    <3>3. CASE u # t
      BY <1>0, <3>1, <3>3
    <3> QED BY <3>2, <3>3
  <2> QED BY <1>0, <2>1, <2>2, <2>3 DEF Indexes
<1>2. HandleInUse' /\ OneBuilder'
  BY <1>0 DEF HandleInUse, Handle, OneBuilder
<1>3. IndexesAreOnTheWay'
  <2> SUFFICES ASSUME NEW q \in Process, NEW d \in Collection,
                      handle[q][d] # "none", d \notin failed[q], ~Complete(d)'
               PROVE  \E u \in Building(q, d)' :
                         Indexes(d) \ indexes'[d] \subseteq next'[u]..Count[d]
    BY <1>0 DEF IndexesAreOnTheWay, Indexes
  <2>1. ~Complete(d)
    <3>1. indexes[d] \subseteq indexes'[d] /\ indexes'[d] \subseteq Indexes(d)
      <4>1. indexes'[d] \subseteq Indexes(d)
        BY <1>1 DEF Indexes
      <4> QED BY <1>a, <4>1
    <3> QED BY <3>1 DEF Complete, Indexes
  <2>2. PICK u \in Building(q, d) : Indexes(d) \ indexes[d] \subseteq next[u]..Count[d]
    BY <2>1 DEF IndexesAreOnTheWay
  <2>3. CASE u = t
    <3>0. d = c
      BY <2>2, <2>3 DEF Building
    <3>1. d = c /\ Indexes(d) \ indexes'[d] \subseteq (n + 1)..Count[d]
      <4>1. ASSUME NEW i \in Indexes(c), i \notin indexes'[c]
            PROVE  i \in (n + 1)..Count[c]
        <5>1. i \notin indexes[c] /\ i # n
          BY <1>a, <4>1
        <5>2. i \in n..Count[c]
          BY <2>2, <2>3, <3>0, <5>1
        <5>3. i \in Nat /\ n <= i /\ i <= Count[c]
          BY <1>b, <5>2
        <5> HIDE DEF n, c
        <5> QED BY <1>b, <5>1, <5>3
      <4> QED BY <3>0, <4>1
    <3>2. n # Count[c]
      <4>1. CASE n = Count[c]
        <5>1. Indexes(d) \ indexes'[d] = {}
          BY <3>1, <4>1 DEF Indexes
        <5> QED BY <1>0, <1>1, <5>1 DEF Complete, Indexes
      <4> QED BY <4>1
    <3> QED BY <1>0, <2>2, <2>3, <3>1, <3>2 DEF Building
  <2>4. CASE u # t
    <3>1. u \in Building(q, d)' /\ next'[u] = next[u]
      BY <1>0, <2>2, <2>4 DEF Building
    <3> QED BY <1>a, <2>2, <3>1
  <2> QED BY <2>3, <2>4
<1>4. UniqueIsUnique' /\ FailureIsInterruption'
  BY <1>0, <1>a DEF UniqueIsUnique, FailureIsInterruption
<1>5. MadeInOrder'
  <2> SUFFICES ASSUME NEW u \in Task, step'[u] = "build",
                      NEW i \in 1..(next'[u] - 1)
               PROVE  i \in indexes'[coll[u]]
    BY <1>0 DEF MadeInOrder
  <2>1. coll[u] \in Collection /\ step[u] = "build"
    BY <1>0
  <2>2. CASE u = t
    <3>0. next'[t] = n + 1
      BY <1>0, <2>2
    <3>1. i \in 1..(n - 1) \/ i = n
      BY <1>b, <2>2, <3>0
    <3> QED BY <1>0, <1>a, <2>2, <3>1 DEF MadeInOrder
  <2>3. CASE u # t
    <3>1. next'[u] = next[u]
      BY <1>0, <2>3
    <3> QED BY <1>a, <2>1, <3>1 DEF MadeInOrder
  <2> QED BY <2>2, <2>3
<1>6. DuplicatesAreExplained'
  <2> SUFFICES ASSUME NEW d \in Unique, docs[d] > 1, d \notin interrupted
               PROVE  \E p \in Process : Building(p, d)' # {}
    BY <1>0 DEF DuplicatesAreExplained
  <2>1. PICK p \in Process, u \in Task : u \in Building(p, d)
    BY DEF DuplicatesAreExplained, Building
  <2>2. u # t
    <3>1. CASE u = t
      <4>1. d = c /\ n # 1
        BY <1>0, <2>1, <3>1 DEF Building
      <4>2. 1 \in indexes[c]
        <5>1. 1 \in 1..(n - 1)
          BY <1>b, <4>1
        <5> QED BY <1>0, <5>1 DEF MadeInOrder
      <4> QED BY <4>1, <4>2 DEF UniqueIsUnique
    <3> QED BY <3>1
  <2>3. u \in Building(p, d)'
    BY <1>0, <2>1, <2>2 DEF Building
  <2> QED BY <2>3
<1> QED BY <1>1, <1>2, <1>3, <1>4, <1>5, <1>6

LEMMA CreateIndexRaisesInv ==
    ASSUME IndInv, NEW t \in Task, CreateIndexRaises(t) PROVE IndInv'
<1> USE DEF IndInv, TypeOK
<1> DEFINE c == coll[t]
           p == Home[t]
<1>0. /\ step[t] = "build" /\ c \in Collection /\ p \in Process
      /\ step' = [step EXCEPT ![t] = "idle"]
      /\ coll' = [coll EXCEPT ![t] = NoCollection]
      /\ next' = [next EXCEPT ![t] = 1]
      /\ failed' = [failed EXCEPT ![p] = @ \cup {c}]
      /\ interrupted' = interrupted \cup {c}
      /\ faults' \in 0..MaxFaults
      /\ UNCHANGED <<indexes, docs, client, handle>>
  BY DEF CreateIndexRaises, Ends, Goes, globals, Fault
<1>1. TypeOK'
  BY <1>0 DEF Step, Indexes
<1>2. HandleInUse' /\ OneBuilder' /\ MadeInOrder'
  BY <1>0 DEF HandleInUse, Handle, OneBuilder, MadeInOrder
<1>3. \A q \in Process, d \in Collection :
         \A u \in Building(q, d) :
            ~(q = p /\ d = c) => u \in Building(q, d)' /\ next'[u] = next[u]
  BY <1>0 DEF Building
<1>4. IndexesAreOnTheWay'
  <2> SUFFICES ASSUME NEW q \in Process, NEW d \in Collection,
                      handle[q][d] # "none", d \notin failed'[q], ~Complete(d)
               PROVE  \E u \in Building(q, d)' :
                         Indexes(d) \ indexes[d] \subseteq next'[u]..Count[d]
    BY <1>0 DEF IndexesAreOnTheWay, Complete, Indexes
  <2>1. ~(q = p /\ d = c) /\ d \notin failed[q]
    BY <1>0
  <2>2. PICK u \in Building(q, d) : Indexes(d) \ indexes[d] \subseteq next[u]..Count[d]
    BY <2>1 DEF IndexesAreOnTheWay
  <2> QED BY <1>3, <2>1, <2>2
<1>5. UniqueIsUnique' /\ FailureIsInterruption'
  BY <1>0 DEF UniqueIsUnique, FailureIsInterruption
<1>6. DuplicatesAreExplained'
  BY <1>0, <1>3 DEF DuplicatesAreExplained
<1> QED BY <1>1, <1>2, <1>4, <1>5, <1>6

LEMMA CallerInv == ASSUME IndInv, NEW t \in Task, Find(t) \/ Insert(t) PROVE IndInv'
<1> USE DEF IndInv, TypeOK
<1> DEFINE c == coll[t]
           p == Home[t]
<1>0. /\ step[t] \in {"find", "insert"} /\ c \in Collection /\ p \in Process
      /\ handle[p][c] # "none"
      /\ \/ step' = [step EXCEPT ![t] = "insert"] /\ UNCHANGED <<coll, next>>
         \/ /\ step' = [step EXCEPT ![t] = "idle"]
            /\ coll' = [coll EXCEPT ![t] = NoCollection]
            /\ next' = [next EXCEPT ![t] = 1]
      /\ UNCHANGED <<indexes, client, handle, faults, failed, interrupted>>
  BY DEF Find, Insert, Goes, Ends, globals, history, HandleInUse, Handle
<1>1. \/ UNCHANGED docs
      \/ /\ docs' = [docs EXCEPT ![c] = @ + 1]
         /\ Enforced(c) => docs[c] = 0
  BY <1>0 DEF Find, Insert
<1>2. docs' \in [Collection -> Nat]
  BY <1>0, <1>1
<1>a. ASSUME step' = [step EXCEPT ![t] = "insert"], UNCHANGED <<coll, next>>
      PROVE  TypeOK' /\ HandleInUse' /\ OneBuilder' /\ MadeInOrder'
  <2>1. TypeOK'
    BY <1>0, <1>2, <1>a DEF Step, Indexes
  <2>2. HandleInUse' /\ OneBuilder' /\ MadeInOrder'
    BY <1>0, <1>a DEF HandleInUse, Handle, OneBuilder, MadeInOrder
  <2> QED BY <2>1, <2>2
<1>b. ASSUME step' = [step EXCEPT ![t] = "idle"],
             coll' = [coll EXCEPT ![t] = NoCollection],
             next' = [next EXCEPT ![t] = 1]
      PROVE  TypeOK' /\ HandleInUse' /\ OneBuilder' /\ MadeInOrder'
  <2>1. TypeOK'
    BY <1>0, <1>2, <1>b DEF Step, Indexes
  <2>2. HandleInUse' /\ OneBuilder' /\ MadeInOrder'
    BY <1>0, <1>b DEF HandleInUse, Handle, OneBuilder, MadeInOrder
  <2> QED BY <2>1, <2>2
<1>3. TypeOK' /\ HandleInUse' /\ OneBuilder' /\ MadeInOrder'
  BY <1>0, <1>a, <1>b
<1>5. /\ \A q \in Process, d \in Collection : Building(q, d)' = Building(q, d)
      /\ \A q \in Process, d \in Collection :
            \A u \in Building(q, d) : next'[u] = next[u]
  BY <1>0 DEF Building
<1>6. IndexesAreOnTheWay'
  BY <1>0, <1>5, SameBuilders
<1>7. UniqueIsUnique' /\ FailureIsInterruption'
  BY <1>0, <1>1 DEF UniqueIsUnique, FailureIsInterruption, Enforced
<1>8. DuplicatesAreExplained'
  <2> SUFFICES ASSUME NEW d \in Unique, docs'[d] > 1, d \notin interrupted
               PROVE  \E q \in Process : Building(q, d) # {}
    BY <1>0, <1>5 DEF DuplicatesAreExplained
  <2>1. CASE docs[d] > 1
    BY <2>1 DEF DuplicatesAreExplained
  <2>2. CASE ~(docs[d] > 1)
    <3>1. d = c /\ ~Enforced(c)
      BY <1>0, <1>1, <2>2 DEF Enforced
    <3>2. 1 \notin indexes[c] /\ ~Complete(c)
      BY <1>0, <3>1 DEF Enforced, Complete, Indexes
    <3>3. c \notin failed[p]
      BY <1>0, <3>1 DEF FailureIsInterruption
    <3> QED BY <1>0, <3>1, <3>2, <3>3 DEF IndexesAreOnTheWay
  <2> QED BY <2>1, <2>2
<1> QED BY <1>3, <1>6, <1>7, <1>8

LEMMA CloseInv == ASSUME IndInv, NEW p \in Process, Close(p) PROVE IndInv'
<1> USE DEF IndInv, TypeOK
<1>0. /\ client' \in [Process -> BOOLEAN]
      /\ handle' = [handle EXCEPT ![p] =
                      [c \in Collection |-> IF @[c] = "none" THEN "none" ELSE "stale"]]
      /\ faults' \in 0..MaxFaults
      /\ UNCHANGED <<indexes, docs, step, coll, next, failed, interrupted>>
  BY DEF Close, tasks, history, Fault
<1>a. /\ handle' \in [Process -> [Collection -> {"none", "open", "stale"}]]
      /\ \A q \in Process, c \in Collection :
            handle'[q][c] = "none" <=> handle[q][c] = "none"
  BY <1>0
<1>1. TypeOK'
  BY <1>0, <1>a DEF Indexes
<1>2. HandleInUse'
  BY <1>0, <1>a DEF HandleInUse, Handle
<1>3. OneBuilder' /\ MadeInOrder' /\ UniqueIsUnique' /\ FailureIsInterruption'
  BY <1>0 DEF OneBuilder, MadeInOrder, UniqueIsUnique, FailureIsInterruption
<1>4. IndexesAreOnTheWay'
  BY <1>0, <1>a DEF IndexesAreOnTheWay, Building, Complete, Indexes
<1>5. DuplicatesAreExplained'
  BY <1>0 DEF DuplicatesAreExplained, Building
<1> QED BY <1>1, <1>2, <1>3, <1>4, <1>5

LEMMA RestartInv == ASSUME IndInv, NEW p \in Process, Restart(p) PROVE IndInv'
<1> USE DEF IndInv, TypeOK
<1>0. /\ client' \in [Process -> BOOLEAN]
      /\ handle' = [handle EXCEPT ![p] = [c \in Collection |-> "none"]]
      /\ step' = [t \in Task |-> IF Home[t] = p THEN "idle" ELSE step[t]]
      /\ coll' = [t \in Task |-> IF Home[t] = p THEN NoCollection ELSE coll[t]]
      /\ next' = [t \in Task |-> IF Home[t] = p THEN 1 ELSE next[t]]
      /\ failed' = [failed EXCEPT ![p] = {}]
      /\ interrupted' = interrupted \cup {c \in Collection : Building(p, c) # {}}
      /\ faults' \in 0..MaxFaults
      /\ UNCHANGED <<indexes, docs>>
  BY DEF Restart, Fault
<1>1. TypeOK'
  BY <1>0 DEF Step, Indexes
<1>2. HandleInUse' /\ OneBuilder' /\ MadeInOrder'
  BY <1>0 DEF HandleInUse, Handle, OneBuilder, MadeInOrder
<1>3. \A q \in Process, d \in Collection :
         \A u \in Building(q, d) : q # p => u \in Building(q, d)' /\ next'[u] = next[u]
  BY <1>0 DEF Building
<1>4. IndexesAreOnTheWay'
  BY <1>0, <1>3 DEF IndexesAreOnTheWay, Complete, Indexes
<1>5. UniqueIsUnique' /\ FailureIsInterruption'
  BY <1>0 DEF UniqueIsUnique, FailureIsInterruption
<1>6. DuplicatesAreExplained'
  BY <1>0, <1>3 DEF DuplicatesAreExplained
<1> QED BY <1>1, <1>2, <1>4, <1>5, <1>6

LEMMA NextInv == IndInv /\ [Next]_vars => IndInv'
<1> SUFFICES ASSUME IndInv, [Next]_vars PROVE IndInv'
  OBVIOUS
<1>1. CASE UNCHANGED vars
  BY <1>1 DEF IndInv, vars, globals, tasks, history, TypeOK, HandleInUse, Handle,
              OneBuilder, IndexesAreOnTheWay, Building, Complete, Indexes,
              UniqueIsUnique, MadeInOrder, FailureIsInterruption, DuplicatesAreExplained
<1> QED
  BY <1>1, PingInv, FirstCallInv, LaterCallInv, CreateIndexInv, CreateIndexRaisesInv,
     CallerInv, CloseInv, RestartInv DEF Next

-----------------------------------------------------------------------------
\* Every variable keeps its type.
THEOREM TypeCorrect == Spec => []TypeOK
<1>1. IndInv => TypeOK
  BY DEF IndInv
<1> QED BY <1>1, InitInv, NextInv, PTL DEF Spec

\* A published handle has its indexes, or one task is making those that are
\* missing, or a create_index of this run of the process raised.
THEOREM IndexesAreMade == Spec => []IndexesAreOnTheWay
<1>1. IndInv => IndexesAreOnTheWay
  BY DEF IndInv
<1> QED BY <1>1, InitInv, NextInv, PTL DEF Spec

\* However the tasks of a process interleave, one of them makes the indexes of
\* a collection.
THEOREM BuildersAreAlone == Spec => []OneBuilder
<1>1. IndInv => OneBuilder
  BY DEF IndInv
<1> QED BY <1>1, InitInv, NextInv, PTL DEF Spec

\* What a unique index is for is there twice only if its making is not over,
\* raised or was cut off.
THEOREM DuplicatesHaveACause == Spec => []DuplicatesAreExplained
<1>1. IndInv => DuplicatesAreExplained
  BY DEF IndInv
<1> QED BY <1>1, InitInv, NextInv, PTL DEF Spec

=============================================================================

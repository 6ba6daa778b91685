------------------------- MODULE FlightStoreProofs -------------------------
(***************************************************************************)
(* Proofs about FlightStore, for any identifiers, legs and number of       *)
(* messages.  Types hold for any number of consumers; the other theorems   *)
(* are about one consumer, because two of them can insert the same flight  *)
(* between each other's finds.                                             *)
(***************************************************************************)
EXTENDS FlightStore, TLAPS

USE FlightStoreAssumption

OneConsumer == \A c, d \in Consumer : c = d

-----------------------------------------------------------------------------
(* Types.                                                                  *)

LEMMA MergedType ==
    ASSUME NEW old \in Keys, NEW new \in Keys, NEW leg \in LegsAfter(new)
    PROVE  Merged(old, new, leg) \in Keys
BY DEF Merged, LegsAfter, Keys, KeyName

LEMMA InitTypes == Init => TypeOK
BY DEF Init, TypeOK, NoMessage, Message, Keys, KeyName

LEMMA NextTypes == TypeOK /\ [Next]_vars => TypeOK'
<1> SUFFICES ASSUME TypeOK, [Next]_vars PROVE TypeOK'
  OBVIOUS
<1> USE DEF TypeOK, Done
<1>1. ASSUME NEW c \in Consumer, NEW m \in Message, Receive(c, m) PROVE TypeOK'
  BY <1>1 DEF Receive
<1>2. ASSUME NEW c \in Consumer, FindHit(c) PROVE TypeOK'
  BY <1>2 DEF FindHit, Matches
<1>3. ASSUME NEW c \in Consumer, FindMiss(c) PROVE TypeOK'
  <2>1. /\ UNCHANGED <<flights, msg, existing, received, holds>>
        /\ \/ key[c] < 4 /\ key' = [key EXCEPT ![c] = @ + 1] /\ UNCHANGED pc
           \/ pc' = [pc EXCEPT ![c] = "write"] /\ UNCHANGED key
    BY <1>3 DEF FindMiss
  <2>2. key' \in [Consumer -> 1..4]
    <3>1. key[c] \in 1..4
      OBVIOUS
    <3>2. CASE key[c] < 4 /\ key' = [key EXCEPT ![c] = @ + 1]
      <4>1. key[c] + 1 \in 1..4
        BY <3>1, <3>2
      <4> QED BY <3>2, <4>1
    <3> QED BY <2>1, <3>2
  <2>3. pc' \in [Consumer -> {"idle", "find", "write"}]
    BY <2>1
  <2> QED BY <2>1, <2>2, <2>3
<1>4. ASSUME NEW c \in Consumer, MarkDeleted(c) PROVE TypeOK'
  <2>1. existing[c] \in DOMAIN flights /\ flights[existing[c]] \in Doc
    BY <1>4 DEF MarkDeleted
  <2>2. [flights[existing[c]] EXCEPT !.status = "deleted"] \in Doc
    BY <2>1 DEF Doc
  <2>3. flights' = [flights EXCEPT ![existing[c]] =
                       [flights[existing[c]] EXCEPT !.status = "deleted"]]
    BY <1>4 DEF MarkDeleted
  <2>4. flights' \in Seq(Doc) /\ Len(flights') = Len(flights)
    BY <2>1, <2>2, <2>3
  <2>5. holds' \in Seq(SUBSET Message) /\ Len(holds') = Len(holds)
    BY <1>4, <2>1 DEF MarkDeleted
  <2> QED BY <1>4, <2>4, <2>5 DEF MarkDeleted
<1>5. ASSUME NEW c \in Consumer, MergeUpdate(c) PROVE TypeOK'
  <2>1. existing[c] \in DOMAIN flights
    BY <1>5 DEF MergeUpdate
  <2>0. PICK leg \in LegsAfter(msg[c].keys) :
           flights' = [flights EXCEPT ![existing[c]] =
                         [keys   |-> Merged(@.keys, msg[c].keys, leg),
                          status |-> "active"]]
    BY <1>5 DEF MergeUpdate
  <2> DEFINE new == [keys   |-> Merged(flights[existing[c]].keys, msg[c].keys, leg),
                     status |-> "active"]
  <2>2. flights[existing[c]] \in Doc /\ msg[c] \in Message
    BY <2>1
  <2>3. new \in Doc
    BY <2>2, MergedType DEF Doc, Message
  <2>4. flights' = [flights EXCEPT ![existing[c]] = new]
    BY <2>0
  <2> HIDE DEF new
  <2>5. flights' \in Seq(Doc) /\ Len(flights') = Len(flights)
    BY <2>1, <2>3, <2>4
  <2>6. holds' \in Seq(SUBSET Message) /\ Len(holds') = Len(holds)
    <3> DEFINE kept == {m \in holds[existing[c]] : ~Renames(msg[c], m)} \cup {msg[c]}
    <3>1. kept \in SUBSET Message /\ existing[c] \in 1..Len(holds)
      BY <2>1, <2>2
    <3>2. holds' = [holds EXCEPT ![existing[c]] = kept]
      BY <1>5 DEF MergeUpdate, HoldsAfter
    <3> HIDE DEF kept
    <3> QED BY <3>1, <3>2
  <2> QED BY <1>5, <2>5, <2>6 DEF MergeUpdate
<1>6. ASSUME NEW c \in Consumer, IgnoreDelete(c) \/ Abandon(c) PROVE TypeOK'
  BY <1>6 DEF IgnoreDelete, Abandon
<1>7. ASSUME NEW c \in Consumer, InsertFlight(c) PROVE TypeOK'
  <2> DEFINE new == [keys |-> msg[c].keys, status |-> "active"]
  <2>1. new \in Doc
    BY DEF Doc, Message
  <2>2. flights' = Append(flights, new)
    BY <1>7 DEF InsertFlight
  <2> HIDE DEF new
  <2>3. flights' \in Seq(Doc) /\ Len(flights') = Len(flights) + 1
    BY <2>1, <2>2
  <2>4. existing \in [Consumer -> 0..Len(flights')]
    BY <2>3
  <2>5. holds' \in Seq(SUBSET Message) /\ Len(holds') = Len(holds) + 1
    BY <1>7 DEF InsertFlight
  <2> QED BY <1>7, <2>3, <2>4, <2>5 DEF InsertFlight
<1>8. CASE UNCHANGED vars
  BY <1>8 DEF vars, local
<1> QED BY <1>1, <1>2, <1>3, <1>4, <1>5, <1>6, <1>7, <1>8 DEF Next

\* Every variable keeps its type, whatever the number of consumers.
THEOREM FlightStoreTypes == Spec => []TypeOK
<1> QED BY InitTypes, NextTypes, PTL DEF Spec

-----------------------------------------------------------------------------
(* Uniqueness.                                                             *)

\* No active document has tfdm_id t.
Free(t) ==
    t = None \/ \A i \in DOMAIN flights : Active(i) => flights[i].keys.tfdm_id # t

LEMMA LookupHoldsIsFree ==
    LookupHolds <=>
      \A c \in Consumer :
        /\ pc[c] = "find" /\ key[c] > 1 => Free(msg[c].keys.tfdm_id)
        /\ pc[c] = "find" => existing[c] = 0
        /\ pc[c] = "write" /\ existing[c] = 0 => Free(msg[c].keys.tfdm_id)
        /\ pc[c] = "write" /\ existing[c] # 0 =>
              /\ Active(existing[c])
              /\ \/ Free(msg[c].keys.tfdm_id)
                 \/ flights[existing[c]].keys.tfdm_id = msg[c].keys.tfdm_id
BY DEF LookupHolds, Free

UInv == TypeOK /\ LookupHolds /\ UniqueTfdm

LEMMA InitUnique == Init => UInv
<1>1. Init => LookupHolds
  BY DEF Init, LookupHolds
<1>2. Init => UniqueTfdm
  BY DEF Init, UniqueTfdm
<1> QED BY <1>1, <1>2, InitTypes DEF UInv

LEMMA NextUnique ==
    ASSUME OneConsumer
    PROVE  UInv /\ [Next]_vars => UInv'
<1> SUFFICES ASSUME UInv, [Next]_vars PROVE LookupHolds' /\ UniqueTfdm'
  BY NextTypes DEF UInv
<1> USE DEF UInv, TypeOK, Done, Active
<1>0. TypeOK'
  BY NextTypes
<1>1. ASSUME NEW c \in Consumer, NEW m \in Message, Receive(c, m)
      PROVE  LookupHolds' /\ UniqueTfdm'
  BY <1>1 DEF Receive, OneConsumer, LookupHolds, UniqueTfdm
<1>2. ASSUME NEW c \in Consumer, FindHit(c)
      PROVE  LookupHolds' /\ UniqueTfdm'
  <2>1. UniqueTfdm'
    BY <1>2 DEF FindHit, UniqueTfdm
  <2>2. PICK i \in Matches(msg[c], KeyOrder[key[c]]) :
              existing' = [existing EXCEPT ![c] = i]
    BY <1>2 DEF FindHit
  <2>3. /\ i \in 1..Len(flights) /\ Active(i) /\ existing'[c] = i
        /\ flights[i].keys[KeyOrder[key[c]]] = msg[c].keys[KeyOrder[key[c]]]
    BY <2>2 DEF Matches, Agree
  <2>4. key[c] = 1 => flights[i].keys.tfdm_id = msg[c].keys.tfdm_id
    BY <2>3 DEF KeyOrder
  <2>5. key[c] # 1 => Free(msg[c].keys.tfdm_id)
    <3>1. key[c] \in 1..4 /\ pc[c] = "find"
      BY <1>2 DEF FindHit
    <3> QED BY <3>1, LookupHoldsIsFree
  <2>6. pc' = [pc EXCEPT ![c] = "write"] /\ UNCHANGED <<flights, msg>>
    BY <1>2 DEF FindHit
  <2> QED BY <2>1, <2>3, <2>4, <2>5, <2>6 DEF LookupHolds, OneConsumer, Free
<1>3. ASSUME NEW c \in Consumer, FindMiss(c)
      PROVE  LookupHolds' /\ UniqueTfdm'
  <2>1. UniqueTfdm'
    BY <1>3 DEF FindMiss, UniqueTfdm
  <2>2. key[c] = 1 => Free(msg[c].keys.tfdm_id)
    BY <1>3 DEF FindMiss, Matches, Agree, KeyOrder, Free
  <2>3. Free(msg[c].keys.tfdm_id)
    <3>1. key[c] \in 1..4 /\ pc[c] = "find"
      BY <1>3 DEF FindMiss
    <3> QED BY <2>2, <3>1, LookupHoldsIsFree
  <2> QED BY <1>3, <2>1, <2>3 DEF FindMiss, LookupHolds, OneConsumer, Free
<1>4. ASSUME NEW c \in Consumer, MarkDeleted(c)
      PROVE  LookupHolds' /\ UniqueTfdm'
  <2>1. existing[c] \in DOMAIN flights
    BY <1>4 DEF MarkDeleted
  <2>2. /\ DOMAIN flights' = DOMAIN flights
        /\ \A i \in DOMAIN flights : /\ flights'[i].keys = flights[i].keys
                                     /\ Active(i)' => Active(i)
    BY <1>4, <2>1 DEF MarkDeleted, Doc
  <2>3. UniqueTfdm'
    BY <2>2 DEF UniqueTfdm
  <2>4. LookupHolds'
    BY <1>4 DEF MarkDeleted, LookupHolds, OneConsumer
  <2> QED BY <2>3, <2>4
<1>5. ASSUME NEW c \in Consumer, MergeUpdate(c)
      PROVE  LookupHolds' /\ UniqueTfdm'
  <2> DEFINE e == existing[c]
             t == msg[c].keys.tfdm_id
  <2>1. e \in DOMAIN flights /\ Active(e) /\ (Free(t) \/ flights[e].keys.tfdm_id = t)
    BY <1>5, LookupHoldsIsFree DEF MergeUpdate
  <2>2. flights[e] \in Doc /\ msg[c] \in Message
    BY <2>1
  <2>3. /\ DOMAIN flights' = DOMAIN flights
        /\ \A i \in DOMAIN flights : i # e => flights'[i] = flights[i]
        /\ \E leg : flights'[e].keys = Merged(flights[e].keys, msg[c].keys, leg)
    BY <1>5, <2>1 DEF MergeUpdate
  <2>4. flights'[e].keys.tfdm_id = IF t = None THEN flights[e].keys.tfdm_id ELSE t
    BY <2>2, <2>3 DEF Merged, Doc, Keys, KeyName
  <2>5. ASSUME NEW i \in DOMAIN flights, i # e, Active(i),
               flights[i].keys.tfdm_id # None
        PROVE  flights[i].keys.tfdm_id # flights'[e].keys.tfdm_id
    BY <2>1, <2>4, <2>5 DEF UniqueTfdm, Free
  <2>6. UniqueTfdm'
    <3>1. ASSUME NEW i \in DOMAIN flights, NEW j \in DOMAIN flights,
                 Active(i)', Active(j)', flights'[i].keys.tfdm_id # None,
                 flights'[i].keys.tfdm_id = flights'[j].keys.tfdm_id
          PROVE  i = j
      <4>1. CASE i # e /\ j # e
        BY <2>3, <3>1, <4>1 DEF UniqueTfdm
      <4>2. CASE i = e /\ j # e
        BY <2>3, <2>5, <3>1, <4>2
      <4>3. CASE i # e /\ j = e
        BY <2>3, <2>5, <3>1, <4>3
      <4> QED BY <4>1, <4>2, <4>3
    <3> QED BY <2>3, <3>1 DEF UniqueTfdm
  <2>7. LookupHolds'
    BY <1>5 DEF MergeUpdate, LookupHolds, OneConsumer
  <2> QED BY <2>6, <2>7
<1>6. ASSUME NEW c \in Consumer, IgnoreDelete(c) \/ Abandon(c)
      PROVE  LookupHolds' /\ UniqueTfdm'
  BY <1>6 DEF IgnoreDelete, Abandon, OneConsumer, LookupHolds, UniqueTfdm
<1>7. ASSUME NEW c \in Consumer, InsertFlight(c)
      PROVE  LookupHolds' /\ UniqueTfdm'
  <2> DEFINE n == Len(flights) + 1
             t == msg[c].keys.tfdm_id
  <2>1. Free(t)
    BY <1>7, LookupHoldsIsFree DEF InsertFlight
  <2>2. /\ DOMAIN flights' = DOMAIN flights \cup {n}
        /\ \A i \in DOMAIN flights : flights'[i] = flights[i] /\ i # n
        /\ flights'[n].keys.tfdm_id = t
    BY <1>7 DEF InsertFlight
  <2>3. UniqueTfdm'
    BY <2>1, <2>2 DEF UniqueTfdm, Free
  <2>4. LookupHolds'
    BY <1>7 DEF InsertFlight, LookupHolds, OneConsumer
  <2> QED BY <2>3, <2>4
<1>8. CASE UNCHANGED vars
  BY <1>8 DEF vars, local, LookupHolds, UniqueTfdm
<1> QED BY <1>1, <1>2, <1>3, <1>4, <1>5, <1>6, <1>7, <1>8 DEF Next

\* With one consumer, what the finds established holds until the write.
THEOREM LookupsHold == ASSUME OneConsumer PROVE Spec => []LookupHolds
<1>1. UInv /\ [Next]_vars => UInv'
  BY NextUnique
<1>2. UInv => LookupHolds
  BY DEF UInv
<1> QED BY <1>1, <1>2, InitUnique, PTL DEF Spec

\* With one consumer, at most one active document has a given tfdm_id, though
\* no index enforces it and updates may change the tfdm_id of a document.
THEOREM TfdmIsUnique == ASSUME OneConsumer PROVE Spec => []UniqueTfdm
<1>1. UInv /\ [Next]_vars => UInv'
  BY NextUnique
<1>2. UInv => UniqueTfdm
  BY DEF UInv
<1> QED BY <1>1, <1>2, InitUnique, PTL DEF Spec

\* With one consumer, a deleted document is never written again.
THEOREM DeletedStaysDeleted == ASSUME OneConsumer PROVE Spec => DeletedIsFinal
<1>1. ASSUME TypeOK, LookupHolds, [Next]_vars
      PROVE  \A i \in DOMAIN flights :
                flights[i].status = "deleted" => flights'[i].status = "deleted"
  <2> SUFFICES ASSUME NEW i \in DOMAIN flights, flights[i].status = "deleted"
               PROVE  flights'[i].status = "deleted"
    OBVIOUS
  <2> USE <1>1 DEF TypeOK, Active
  <2>1. ASSUME NEW c \in Consumer, MarkDeleted(c)
        PROVE  flights'[i].status = "deleted"
    BY <2>1 DEF MarkDeleted, Doc
  <2>2. ASSUME NEW c \in Consumer, MergeUpdate(c)
        PROVE  flights'[i].status = "deleted"
    <3>1. existing[c] # i
      BY <2>2 DEF MergeUpdate, LookupHolds
    <3> QED BY <2>2, <3>1 DEF MergeUpdate
  <2>3. ASSUME NEW c \in Consumer, InsertFlight(c)
        PROVE  flights'[i].status = "deleted"
    BY <2>3 DEF InsertFlight
  <2>4. UNCHANGED flights => flights'[i].status = "deleted"
    OBVIOUS
  <2> QED BY <2>1, <2>2, <2>3, <2>4
          DEF Next, Receive, FindHit, FindMiss, IgnoreDelete, Abandon, vars
<1>2. TypeOK /\ LookupHolds /\ [Next]_vars
        => [\A i \in DOMAIN flights :
              flights[i].status = "deleted" => flights'[i].status = "deleted"]_vars
  BY <1>1
<1> QED BY <1>2, FlightStoreTypes, LookupsHold, PTL DEF Spec, DeletedIsFinal

\* With one consumer, a delete message leaves no active document with its
\* tfdm_id, even when the document it deletes was found by another key.
THEOREM DeletesAreComplete == ASSUME OneConsumer PROVE Spec => DeleteLeavesNone
<1> DEFINE A == \A c \in Consumer :
                   MarkDeleted(c) \/ IgnoreDelete(c) =>
                      \A i \in DOMAIN flights' :
                         flights'[i].status = "active"
                         /\ msg[c].keys.tfdm_id # None
                            => flights'[i].keys.tfdm_id # msg[c].keys.tfdm_id
<1>1. ASSUME UInv PROVE A
  <2> SUFFICES ASSUME NEW c \in Consumer, MarkDeleted(c) \/ IgnoreDelete(c),
                      NEW i \in DOMAIN flights', flights'[i].status = "active",
                      msg[c].keys.tfdm_id # None
               PROVE  flights'[i].keys.tfdm_id # msg[c].keys.tfdm_id
    OBVIOUS
  <2> USE <1>1 DEF UInv, TypeOK, Active
  <2>1. CASE IgnoreDelete(c)
    BY <2>1, LookupHoldsIsFree DEF IgnoreDelete, Free
  <2>2. CASE MarkDeleted(c)
    <3> DEFINE e == existing[c]
    <3>1. /\ e \in DOMAIN flights /\ Active(e)
          /\ \/ Free(msg[c].keys.tfdm_id)
             \/ flights[e].keys.tfdm_id = msg[c].keys.tfdm_id
      BY <2>2, LookupHoldsIsFree DEF MarkDeleted
    <3>2. i \in DOMAIN flights /\ i # e /\ flights'[i] = flights[i]
      BY <2>2, <3>1 DEF MarkDeleted, Doc
    <3> QED BY <3>1, <3>2 DEF Free, UniqueTfdm
  <2> QED BY <2>1, <2>2
<1>2. UInv => [A]_vars
  BY <1>1
<1>3. UInv /\ [Next]_vars => UInv'
  BY NextUnique
<1> QED BY <1>2, <1>3, InitUnique, PTL DEF Spec, DeleteLeavesNone

-----------------------------------------------------------------------------
(* Implementing Registry.                                                  *)

\* No active document agrees with the message of c on its j-th key.
Missed(c, j) == Matches(msg[c], KeyOrder[j]) = {}

\* What the finds saw is so at the write: those before the hit had none.
FindsHold ==
    \A c \in Consumer :
        /\ pc[c] # "idle" => Usable(msg[c])
        /\ pc[c] = "find" => \A j \in 1..4 : j < key[c] => Missed(c, j)
        /\ pc[c] = "write" /\ existing[c] = 0 => \A j \in 1..4 : Missed(c, j)
        /\ pc[c] = "write" /\ existing[c] # 0 =>
              \E k \in 1..4 : /\ existing[c] \in Matches(msg[c], KeyOrder[k])
                              /\ \A j \in 1..4 : j < k => Missed(c, j)

LEMMA InitFinds == Init => FindsHold
BY DEF Init, FindsHold

LEMMA NextFinds ==
    ASSUME OneConsumer, TypeOK, LookupHolds, FindsHold, [Next]_vars
    PROVE  FindsHold'
<1> USE DEF TypeOK, Done
<1>1. ASSUME NEW c \in Consumer, NEW m \in Message, Receive(c, m) PROVE FindsHold'
  BY <1>1, OneConsumer DEF Receive, OneConsumer, FindsHold
<1>2. ASSUME NEW c \in Consumer, FindHit(c) PROVE FindsHold'
  <2>1. PICK i \in Matches(msg[c], KeyOrder[key[c]]) :
              existing' = [existing EXCEPT ![c] = i]
    BY <1>2 DEF FindHit
  <2>2. i \in DOMAIN flights /\ i # 0
    BY <2>1 DEF Matches
  <2>3. /\ pc'[c] = "write" /\ existing'[c] = i /\ key[c] \in 1..4
        /\ msg' = msg /\ Usable(msg[c])
        /\ \A k : Matches(msg[c], k)' = Matches(msg[c], k)
        /\ \A j \in 1..4 : j < key[c] => Missed(c, j)
    BY <1>2, <2>1 DEF FindHit, FindsHold, Matches, Active
  <2> QED BY <2>1, <2>2, <2>3, OneConsumer DEF OneConsumer, FindsHold, Missed
<1>3. ASSUME NEW c \in Consumer, FindMiss(c) PROVE FindsHold'
  <2>1. /\ Missed(c, key[c]) /\ key[c] \in 1..4 /\ pc[c] = "find"
        /\ msg' = msg /\ existing' = existing /\ Usable(msg[c]) /\ existing[c] = 0
        /\ \A j \in 1..4 : j < key[c] => Missed(c, j)
        /\ \A j : Missed(c, j)' <=> Missed(c, j)
    BY <1>3 DEF FindMiss, FindsHold, Missed, Matches, Active, LookupHolds
  <2>2. CASE key[c] < 4 /\ key' = [key EXCEPT ![c] = @ + 1] /\ UNCHANGED pc
    BY <2>1, <2>2, OneConsumer DEF OneConsumer, FindsHold
  <2>3. CASE key[c] = 4 /\ pc' = [pc EXCEPT ![c] = "write"] /\ UNCHANGED key
    <3>1. \A j \in 1..4 : Missed(c, j)'
      BY <2>1, <2>3
    <3> QED BY <2>1, <2>3, <3>1, OneConsumer DEF OneConsumer, FindsHold
  <2> QED BY <1>3, <2>2, <2>3 DEF FindMiss
<1>4. ASSUME NEW c \in Consumer,
             \/ MarkDeleted(c) \/ MergeUpdate(c) \/ IgnoreDelete(c)
             \/ InsertFlight(c) \/ Abandon(c)
      PROVE  FindsHold'
  <2>1. \A d \in Consumer : pc'[d] = "idle"
    BY <1>4, OneConsumer
       DEF OneConsumer, MarkDeleted, MergeUpdate, IgnoreDelete, InsertFlight, Abandon
  <2> QED BY <2>1 DEF FindsHold
<1>5. CASE UNCHANGED vars
  BY <1>5 DEF vars, local, FindsHold, Missed, Matches, Active
<1> QED BY <1>1, <1>2, <1>3, <1>4, <1>5 DEF Next

LInv == UInv /\ FindsHold

LEMMA NextL == ASSUME OneConsumer PROVE LInv /\ [Next]_vars => LInv'
BY NextUnique, NextFinds DEF LInv, UInv

\* The document found is one the message is about, and none is found only if
\* there is none.
LEMMA FoundIsCandidate ==
    ASSUME TypeOK, FindsHold, NEW c \in Consumer, pc[c] = "write"
    PROVE  /\ existing[c] # 0 => existing[c] \in Registry!Candidates(msg[c])
           /\ existing[c] = 0 => Registry!Candidates(msg[c]) = {}
<1> DEFINE m == msg[c]
<1>1. \A k \in KeyName : Registry!AgreeOn(m, k) = Matches(m, k)
  BY DEF Registry!AgreeOn, Matches, Active, Agree, Registry!Agree, None, Registry!None
<1>2. /\ KeyOrder[1] = "tfdm_id" /\ KeyOrder[2] = "tfm_id"
      /\ KeyOrder[3] = "flight_plan_identifier" /\ KeyOrder[4] = "leg"
  BY DEF KeyOrder
<1>3. /\ Registry!Strength["tfdm_id"] = 4 /\ Registry!Strength["tfm_id"] = 3
      /\ Registry!Strength["flight_plan_identifier"] = 2 /\ Registry!Strength["leg"] = 1
  BY DEF Registry!Strength
<1>4. Registry!KeyName = KeyName
  BY DEF Registry!KeyName, KeyName
<1>5. ASSUME existing[c] # 0 PROVE existing[c] \in Registry!Candidates(m)
  <2>1. PICK n \in 1..4 : /\ existing[c] \in Matches(m, KeyOrder[n])
                          /\ \A j \in 1..4 : j < n => Missed(c, j)
    BY <1>5 DEF FindsHold
  <2> DEFINE k == KeyOrder[n]
  <2>2. k \in KeyName
    BY <1>2 DEF KeyName
  <2>3. ASSUME NEW l \in KeyName, Registry!Strength[l] > Registry!Strength[k]
        PROVE  Registry!AgreeOn(m, l) = {}
    <3>1. \E j \in 1..4 : l = KeyOrder[j] /\ j < n
      BY <1>2, <1>3, <2>3 DEF KeyName
    <3> QED BY <1>1, <2>1, <3>1 DEF Missed
  <2>4. existing[c] \in Registry!AgreeOn(m, k)
    BY <1>1, <2>1, <2>2
  <2> HIDE DEF k
  <2> QED BY <1>4, <2>2, <2>3, <2>4 DEF Registry!Candidates
<1>6. ASSUME existing[c] = 0 PROVE Registry!Candidates(m) = {}
  <2>1. \A j \in 1..4 : Matches(m, KeyOrder[j]) = {}
    BY <1>6 DEF FindsHold, Missed
  <2>2. \A k \in KeyName : Registry!AgreeOn(m, k) = {}
    BY <1>1, <1>2, <2>1 DEF KeyName
  <2> QED BY <1>4, <2>2 DEF Registry!Candidates
<1> QED BY <1>5, <1>6

LEMMA KeysReplaced ==
    ASSUME NEW d \in Doc, d.status = "active", NEW k
    PROVE  [d EXCEPT !.keys = k] = [keys |-> k, status |-> "active"]
BY DEF Doc

\* Every step is a step of Registry or leaves the collection as it is.
LEMMA StepImplements ==
    ASSUME OneConsumer, LInv, [Next]_vars
    PROVE  [Registry!Next]_flights
<1> USE DEF LInv, UInv, TypeOK, Done
<1>1. ASSUME NEW c \in Consumer, MarkDeleted(c) \/ MergeUpdate(c) \/ InsertFlight(c)
      PROVE  Registry!Next
  <2> DEFINE m == msg[c]
             e == existing[c]
  <2>1. /\ pc[c] = "write" /\ m \in Inbox
        /\ msg' = msg /\ \A d \in Consumer : pc'[d] = "idle"
    BY <1>1, OneConsumer DEF OneConsumer, MarkDeleted, MergeUpdate, InsertFlight, Inbox
  <2>2. Inbox' = {}
    BY <2>1 DEF Inbox
  <2>3. Registry!Usable(m)
    BY <2>1 DEF FindsHold, Usable, Registry!Usable, None, Registry!None
  <2>4. e # 0 => e \in Registry!Candidates(m) /\ e \in DOMAIN flights /\ Active(e)
    BY <2>1, FoundIsCandidate DEF LookupHolds
  <2>5. CASE MarkDeleted(c)
    <3>1. Registry!Delete(m)
      BY <2>4, <2>5 DEF MarkDeleted, Registry!Delete
    <3> QED BY <2>1, <2>2, <2>3, <3>1 DEF Registry!Next, Registry!Apply, Inbox
  <2>6. CASE MergeUpdate(c)
    <3>1. PICK leg \in LegsAfter(m.keys) :
             flights' = [flights EXCEPT ![e] =
                           [keys |-> Merged(@.keys, m.keys, leg), status |-> "active"]]
      BY <2>6 DEF MergeUpdate
    <3>2. e # 0 /\ ~m.delete
      BY <2>6 DEF MergeUpdate
    <3>3. flights[e] \in Doc /\ flights[e].status = "active"
      BY <2>4, <3>2 DEF Active
    <3> DEFINE new == Merged(flights[e].keys, m.keys, leg)
    <3>4. [flights[e] EXCEPT !.keys = new] = [keys |-> new, status |-> "active"]
      BY <3>3, KeysReplaced
    <3>5. flights' = [flights EXCEPT ![e] = [flights[e] EXCEPT !.keys = new]]
      BY <3>1, <3>4
    <3>6. new = Registry!Merged(flights[e].keys, m.keys, leg)
      BY DEF Merged, Registry!Merged, KeyName, Registry!KeyName, None, Registry!None
    <3>7. leg \in Registry!LegsAfter(m.keys)
      BY DEF LegsAfter, Registry!LegsAfter, None, Registry!None
    <3> HIDE DEF new
    <3>8. Registry!Update(m)
      BY <2>4, <3>2, <3>5, <3>6, <3>7 DEF Registry!Update
    <3> QED BY <2>1, <2>2, <2>3, <3>8 DEF Registry!Next, Registry!Apply, Inbox
  <2>7. CASE InsertFlight(c)
    <3>1. Registry!Insert(m)
      BY <2>1, <2>7, FoundIsCandidate DEF InsertFlight, Registry!Insert
    <3> QED BY <2>1, <2>2, <2>3, <3>1 DEF Registry!Next, Registry!Apply, Inbox
  <2> QED BY <1>1, <2>5, <2>6, <2>7
<1>2. ASSUME NEW c \in Consumer,
             \/ \E m \in Message : Receive(c, m)
             \/ FindHit(c) \/ FindMiss(c) \/ IgnoreDelete(c) \/ Abandon(c)
      PROVE  UNCHANGED flights
  BY <1>2 DEF Receive, FindHit, FindMiss, IgnoreDelete, Abandon
<1>3. CASE UNCHANGED vars
  BY <1>3 DEF vars
<1> QED BY <1>1, <1>2, <1>3 DEF Next

\* With one consumer the separate finds and the write of a message have the
\* effect of one step: FlightStore implements Registry.
THEOREM ActsAsRegistry == ASSUME OneConsumer PROVE Spec => ImplementsRegistry
<1>1. Init => LInv /\ Registry!Init
  <2>1. Init => Registry!Init
    BY DEF Init, Registry!Init, Inbox
  <2> QED BY <2>1, InitUnique, InitFinds DEF LInv
<1>2. LInv /\ [Next]_vars => LInv'
  BY NextL
<1>3. LInv /\ [Next]_vars => [Registry!Next]_flights
  BY StepImplements
<1> QED BY <1>1, <1>2, <1>3, PTL DEF Spec, ImplementsRegistry, Registry!Spec

-----------------------------------------------------------------------------
(* Messages delivered again.                                               *)

\* Document i has what message m says.
Has(i, m) ==
    /\ i \in DOMAIN flights
    /\ Active(i)
    /\ \A k \in {"tfdm_id", "tfm_id", "flight_plan_identifier"} :
          m.keys[k] # None => flights[i].keys[k] = m.keys[k]

\* A document has what the messages it holds say.
HeldAreThere == \A i \in DOMAIN holds : \A m \in holds[i] : Has(i, m)

RInv == LInv /\ HeldAreThere

LEMMA InitHeld == Init => HeldAreThere
BY DEF Init, HeldAreThere

LEMMA NextHeld ==
    ASSUME TypeOK, LookupHolds, HeldAreThere, [Next]_vars
    PROVE  HeldAreThere'
<1> USE DEF TypeOK
<1>1. ASSUME UNCHANGED <<flights, holds>> PROVE HeldAreThere'
  BY <1>1 DEF HeldAreThere, Has, Active
<1>2. ASSUME NEW c \in Consumer, MarkDeleted(c) PROVE HeldAreThere'
  <2> DEFINE e == existing[c]
  <2>1. /\ e \in 1..Len(holds) /\ Len(flights') = Len(flights)
        /\ DOMAIN holds' = DOMAIN holds /\ holds'[e] = {}
        /\ \A i \in DOMAIN holds : i # e => holds'[i] = holds[i]
        /\ \A i \in DOMAIN flights : i # e => flights'[i] = flights[i]
    BY <1>2 DEF MarkDeleted
  <2> HIDE DEF e
  <2> SUFFICES ASSUME NEW i \in DOMAIN holds', NEW m \in holds'[i] PROVE Has(i, m)'
    BY DEF HeldAreThere
  <2>2. i # e /\ Has(i, m)
    BY <2>1 DEF HeldAreThere
  <2>3. i \in DOMAIN flights' /\ flights'[i] = flights[i]
    BY <2>1, <2>2, NextTypes DEF Has
  <2> QED BY <2>2, <2>3 DEF Has, Active
<1>3. ASSUME NEW c \in Consumer, MergeUpdate(c) PROVE HeldAreThere'
  <2> DEFINE e == existing[c]
  <2>1. PICK leg \in LegsAfter(msg[c].keys) :
           flights' = [flights EXCEPT ![e] =
                         [keys |-> Merged(@.keys, msg[c].keys, leg), status |-> "active"]]
    BY <1>3 DEF MergeUpdate
  <2>2. /\ e \in 1..Len(holds) /\ DOMAIN flights' = DOMAIN flights
        /\ flights'[e] = [keys   |-> Merged(flights[e].keys, msg[c].keys, leg),
                          status |-> "active"]
        /\ \A i \in DOMAIN flights : i # e => flights'[i] = flights[i]
    BY <1>3, <2>1 DEF MergeUpdate
  <2>3. /\ DOMAIN holds' = DOMAIN holds
        /\ holds'[e] = {m \in holds[e] : ~Renames(msg[c], m)} \cup {msg[c]}
        /\ \A i \in DOMAIN holds : i # e => holds'[i] = holds[i]
    BY <1>3, <2>2 DEF MergeUpdate, HoldsAfter
  <2>4. \A k \in {"tfdm_id", "tfm_id", "flight_plan_identifier"} :
           flights'[e].keys[k] = IF msg[c].keys[k] = None THEN flights[e].keys[k]
                                 ELSE msg[c].keys[k]
    BY <2>2 DEF Merged, KeyName
  <2>5. e \in DOMAIN flights' /\ flights'[e].status = "active"
    BY <2>2
  <2> HIDE DEF e
  <2> SUFFICES ASSUME NEW i \in DOMAIN holds', NEW m \in holds'[i] PROVE Has(i, m)'
    BY DEF HeldAreThere
  <2>6. CASE i # e
    <3>1. Has(i, m)
      BY <2>3, <2>6 DEF HeldAreThere
    <3> QED BY <2>2, <2>6, <3>1 DEF Has, Active
  <2>7. CASE i = e /\ m = msg[c]
    BY <2>4, <2>5, <2>7 DEF Has, Active
  <2>8. CASE i = e /\ m \in holds[e] /\ ~Renames(msg[c], m)
    <3>1. Has(e, m)
      BY <2>2, <2>8 DEF HeldAreThere
    <3>2. \A k \in {"tfdm_id", "tfm_id", "flight_plan_identifier"} :
             m.keys[k] # None => msg[c].keys[k] \in {None, m.keys[k]}
      BY <2>8 DEF Renames
    <3> QED BY <2>4, <2>5, <2>8, <3>1, <3>2 DEF Has, Active
  <2> QED BY <2>3, <2>6, <2>7, <2>8
<1>4. ASSUME NEW c \in Consumer, InsertFlight(c) PROVE HeldAreThere'
  <2> DEFINE n == Len(flights) + 1
  <2>1. /\ DOMAIN holds' = DOMAIN holds \cup {n} /\ holds'[n] = {msg[c]}
        /\ \A i \in DOMAIN holds : i # n /\ holds'[i] = holds[i]
    BY <1>4 DEF InsertFlight
  <2>2. /\ DOMAIN flights' = DOMAIN flights \cup {n}
        /\ flights'[n] = [keys |-> msg[c].keys, status |-> "active"]
        /\ \A i \in DOMAIN flights : flights'[i] = flights[i]
    BY <1>4 DEF InsertFlight
  <2> HIDE DEF n
  <2> SUFFICES ASSUME NEW i \in DOMAIN holds', NEW m \in holds'[i] PROVE Has(i, m)'
    BY DEF HeldAreThere
  <2>3. CASE i = n
    BY <2>1, <2>2, <2>3 DEF Has, Active
  <2>4. CASE i \in DOMAIN holds
    <3>1. Has(i, m)
      BY <2>1, <2>4 DEF HeldAreThere
    <3> QED BY <2>2, <3>1 DEF Has, Active
  <2> QED BY <2>1, <2>3, <2>4
<1>5. ASSUME NEW c \in Consumer,
             \/ \E m \in Message : Receive(c, m)
             \/ FindHit(c) \/ FindMiss(c) \/ IgnoreDelete(c) \/ Abandon(c)
      PROVE  HeldAreThere'
  BY <1>1, <1>5 DEF Receive, FindHit, FindMiss, IgnoreDelete, Abandon
<1>6. CASE UNCHANGED vars
  BY <1>1, <1>6 DEF vars
<1> QED BY <1>2, <1>3, <1>4, <1>5, <1>6 DEF Next

\* With one consumer, an update that was written finds the document it was
\* written to, however often and however late it is delivered again, as long as
\* nobody deleted that document or gave one of the update's identifiers another
\* value: it is not inserted a second time.
THEOREM RepeatsAreMerged == ASSUME OneConsumer PROVE Spec => RepeatInsertsNothing
<1> DEFINE A == \A c \in Consumer :
                   InsertFlight(c) => \A i \in DOMAIN holds : msg[c] \notin holds[i]
<1>1. ASSUME RInv PROVE A
  <2> SUFFICES ASSUME NEW c \in Consumer, InsertFlight(c),
                      NEW i \in DOMAIN holds, msg[c] \in holds[i]
               PROVE  FALSE
    OBVIOUS
  <2> USE <1>1 DEF RInv, LInv, UInv, TypeOK
  <2>1. pc[c] = "write" /\ existing[c] = 0
    BY DEF InsertFlight
  <2>2. Has(i, msg[c])
    BY DEF HeldAreThere
  <2>3. PICK k \in {"tfdm_id", "tfm_id", "flight_plan_identifier"} : msg[c].keys[k] # None
    BY <2>1 DEF FindsHold, Usable
  <2>4. i \in Matches(msg[c], k)
    BY <2>2, <2>3 DEF Has, Matches, Agree
  <2>5. \E j \in 1..4 : KeyOrder[j] = k
    <3>1. KeyOrder[1] = "tfdm_id" /\ KeyOrder[2] = "tfm_id"
          /\ KeyOrder[3] = "flight_plan_identifier"
      BY DEF KeyOrder
    <3> QED BY <3>1
  <2>6. \A j \in 1..4 : Missed(c, j)
    BY <2>1 DEF FindsHold
  <2> QED BY <2>4, <2>5, <2>6 DEF Missed
<1>2. RInv => [A]_vars
  BY <1>1
<1>3. RInv /\ [Next]_vars => RInv'
  BY NextL, NextHeld DEF RInv, LInv, UInv
<1>4. Init => RInv
  BY InitUnique, InitFinds, InitHeld DEF RInv, LInv
<1> QED BY <1>2, <1>3, <1>4, PTL DEF Spec, RepeatInsertsNothing

=============================================================================

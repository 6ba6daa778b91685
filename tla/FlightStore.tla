---------------------------- MODULE FlightStore ----------------------------
(***************************************************************************)
(* How TFDM messages find, merge into, insert and delete the documents of  *)
(* the flights collection.                                                 *)
(*                                                                         *)
(* A message is looked up by up to four keys, one find_one after the       *)
(* other, and then written by one update_one or insert_one: the decision   *)
(* is made from what the finds saw.  Nothing but the finds keeps a flight  *)
(* unique, the indexes of the collection are not unique ones.              *)
(*                                                                         *)
(* The API process runs one TFDM consumer; while a deployment rolls over   *)
(* there are two.  Offsets and redelivery are the subject of module Feeds; *)
(* here any message may come at any time, again included.                  *)
(* Source: app/consumer.py.                                                *)
(***************************************************************************)
EXTENDS FlightDocs, Naturals, Sequences

CONSTANTS
    Consumer,     \* running TFDM consumers
    MaxMessages   \* bound: messages received

ASSUME FlightStoreAssumption == MaxMessages \in Nat

\* Mutated form of KeyOrder: tfm_id before tfdm_id.
KeyOrder_TfmFirst == <<"tfm_id", "tfdm_id", "flight_plan_identifier", "leg">>

\* The order of the finds.
KeyOrder == <<"tfdm_id", "tfm_id", "flight_plan_identifier", "leg">>

VARIABLES
    flights,     \* the collection: documents in the order of their insertion
    pc,          \* where each consumer is in _upsert
    msg,         \* the message it works on
    key,         \* which of KeyOrder it looks up next
    existing,    \* the document found, 0 when there is none
    received,    \* messages received so far (bound)
    holds        \* for each document, the updates written to it that nobody has
                 \* undone since (history)

local == <<pc, msg, key, existing>>
vars == <<flights, local, received, holds>>

TypeOK ==
    /\ flights \in Seq(Doc)
    /\ pc \in [Consumer -> {"idle", "find", "write"}]
    /\ msg \in [Consumer -> Message]
    /\ key \in [Consumer -> 1..4]
    /\ existing \in [Consumer -> 0..Len(flights)]
    /\ received \in 0..MaxMessages
    /\ holds \in Seq(SUBSET Message)
    /\ Len(holds) = Len(flights)

Init ==
    /\ flights = <<>>
    /\ pc = [c \in Consumer |-> "idle"]
    /\ msg = [c \in Consumer |-> NoMessage]
    /\ key = [c \in Consumer |-> 1]
    /\ existing = [c \in Consumer |-> 0]
    /\ received = 0
    /\ holds = <<>>

Active(i) == flights[i].status = "active"

-----------------------------------------------------------------------------
Receive(c, m) ==
    /\ received < MaxMessages
    /\ received' = received + 1
    /\ pc[c] = "idle"
    /\ Usable(m)
    /\ pc' = [pc EXCEPT ![c] = "find"]
    /\ msg' = [msg EXCEPT ![c] = m]
    /\ key' = [key EXCEPT ![c] = 1]
    /\ existing' = [existing EXCEPT ![c] = 0]
    /\ UNCHANGED <<flights, holds>>

\* The active documents a find_one by key k may return.
Matches(m, k) ==
    {i \in DOMAIN flights : Active(i) /\ Agree(flights[i], m, k)}

FindHit(c) ==
    /\ pc[c] = "find"
    /\ \E i \in Matches(msg[c], KeyOrder[key[c]]) :
          existing' = [existing EXCEPT ![c] = i]
    /\ pc' = [pc EXCEPT ![c] = "write"]
    /\ UNCHANGED <<flights, msg, key, received, holds>>

\* Mutated form of FindMiss: no find after the first one.
FindMiss_BreaksEarly(c) ==
    /\ pc[c] = "find"
    /\ Matches(msg[c], KeyOrder[key[c]]) = {}
    /\ pc' = [pc EXCEPT ![c] = "write"]
    /\ UNCHANGED <<flights, msg, key, existing, received, holds>>

FindMiss(c) ==
    /\ pc[c] = "find"
    /\ Matches(msg[c], KeyOrder[key[c]]) = {}
    /\ \/ /\ key[c] < 4
          /\ key' = [key EXCEPT ![c] = @ + 1]
          /\ UNCHANGED pc
       \/ /\ key[c] = 4
          /\ pc' = [pc EXCEPT ![c] = "write"]
          /\ UNCHANGED key
    /\ UNCHANGED <<flights, msg, existing, received, holds>>

Done(c) == pc' = [pc EXCEPT ![c] = "idle"]

\* new gives the document another value for an identifier that m gave it.
Renames(new, m) ==
    \E k \in {"tfdm_id", "tfm_id", "flight_plan_identifier"} :
        m.keys[k] # None /\ new.keys[k] \notin {None, m.keys[k]}

\* The merge of msg[c] adds it to what its document holds.
HoldsAfter(c) ==
    holds' = [holds EXCEPT ![existing[c]] =
                 {m \in @ : ~Renames(msg[c], m)} \cup {msg[c]}]

\* update_one by _id: whatever the status of the document is by now.
MarkDeleted(c) ==
    /\ pc[c] = "write"
    /\ existing[c] # 0
    /\ msg[c].delete
    /\ flights' = [flights EXCEPT ![existing[c]].status = "deleted"]
    /\ holds' = [holds EXCEPT ![existing[c]] = {}]
    /\ Done(c)
    /\ UNCHANGED <<msg, key, existing, received>>

\* Mutated form of MergeUpdate: fields the message lacks are erased.
MergeUpdate_Replaces(c) ==
    /\ pc[c] = "write"
    /\ existing[c] # 0
    /\ ~msg[c].delete
    /\ flights' = [flights EXCEPT ![existing[c]].keys = msg[c].keys]
    /\ HoldsAfter(c)
    /\ Done(c)
    /\ UNCHANGED <<msg, key, existing, received>>

MergeUpdate(c) ==
    /\ pc[c] = "write"
    /\ existing[c] # 0
    /\ ~msg[c].delete
    /\ \E leg \in LegsAfter(msg[c].keys) :
          flights' = [flights EXCEPT ![existing[c]] =
                         [keys |-> Merged(@.keys, msg[c].keys, leg), status |-> "active"]]
    /\ HoldsAfter(c)
    /\ Done(c)
    /\ UNCHANGED <<msg, key, existing, received>>

\* A delete message for an unknown flight is ignored.
IgnoreDelete(c) ==
    /\ pc[c] = "write"
    /\ existing[c] = 0
    /\ msg[c].delete
    /\ Done(c)
    /\ UNCHANGED <<flights, holds, msg, key, existing, received>>

InsertFlight(c) ==
    /\ pc[c] = "write"
    /\ existing[c] = 0
    /\ ~msg[c].delete
    /\ flights' = Append(flights, [keys |-> msg[c].keys, status |-> "active"])
    /\ holds' = Append(holds, {msg[c]})
    /\ Done(c)
    /\ UNCHANGED <<msg, key, existing, received>>

\* A call raises or the process dies before the write: nothing is written.
Abandon(c) ==
    /\ pc[c] # "idle"
    /\ Done(c)
    /\ UNCHANGED <<flights, holds, msg, key, existing, received>>

Next ==
    \E c \in Consumer :
        \/ \E m \in Message : Receive(c, m)
        \/ FindHit(c)
        \/ FindMiss(c)
        \/ MarkDeleted(c)
        \/ MergeUpdate(c)
        \/ IgnoreDelete(c)
        \/ InsertFlight(c)
        \/ Abandon(c)

Spec == Init /\ [][Next]_vars

-----------------------------------------------------------------------------
(* Properties.  All but TypeOK are about a single consumer.                *)

\* README.md: messages "are merged into the existing flights record by
\* tfdm_id": one active document per tfdm_id, although an update may give a
\* document found by another key a new tfdm_id.
UniqueTfdm ==
    \A i, j \in DOMAIN flights :
        /\ Active(i) /\ Active(j)
        /\ flights[i].keys.tfdm_id # None
        /\ flights[i].keys.tfdm_id = flights[j].keys.tfdm_id
        => i = j

\* What the finds established still holds when the write is made.
LookupHolds ==
    \A c \in Consumer :
        LET t == msg[c].keys.tfdm_id
            Free == t = None
                    \/ \A i \in DOMAIN flights : Active(i) => flights[i].keys.tfdm_id # t
        IN  /\ pc[c] = "find" /\ key[c] > 1 => Free
            /\ pc[c] = "find" => existing[c] = 0
            /\ pc[c] = "write" /\ existing[c] = 0 => Free
            /\ pc[c] = "write" /\ existing[c] # 0 =>
                  /\ Active(existing[c])
                  /\ Free \/ flights[existing[c]].keys.tfdm_id = t

\* A deleted document never becomes active again: a flight that comes back
\* gets a new one.
DeletedIsFinal ==
    [][\A i \in DOMAIN flights :
          flights[i].status = "deleted" => flights'[i].status = "deleted"]_vars

\* Once a delete message is through, no active document has its tfdm_id.
DeleteLeavesNone ==
    [][\A c \in Consumer :
          MarkDeleted(c) \/ IgnoreDelete(c) =>
              \A i \in DOMAIN flights' :
                  flights'[i].status = "active"
                  /\ msg[c].keys.tfdm_id # None
                      => flights'[i].keys.tfdm_id # msg[c].keys.tfdm_id]_vars

\* A message that was written may be delivered again long afterwards: the loop
\* goes on after a commit that raised, so that a restart comes back to an offset
\* well before the last one written.  It inserts no second document unless, in
\* the meantime, its flight was deleted or given another value for one of the
\* message's identifiers.
RepeatInsertsNothing ==
    [][\A c \in Consumer :
          InsertFlight(c) => \A i \in DOMAIN holds : msg[c] \notin holds[i]]_vars

\* The messages the consumers are at work on.
Inbox == {msg[c] : c \in {c \in Consumer : pc[c] # "idle"}}

Registry == INSTANCE Registry WITH inbox <- Inbox

\* The finds and the write of a message amount to one step: the message takes
\* effect on the collection as it is at the write, and only once.
ImplementsRegistry == Registry!Spec

=============================================================================

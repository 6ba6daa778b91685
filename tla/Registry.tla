------------------------------ MODULE Registry ------------------------------
(***************************************************************************)
(* What the TFDM consumer promises about the flights collection: it is     *)
(* as if every message were applied in one step, to an active document     *)
(* that agrees with it on the strongest key any active document agrees on. *)
(*                                                                         *)
(* FlightStore, which finds and writes in separate calls, is shown to      *)
(* implement this with one consumer.                                       *)
(* Source: app/consumer.py.                                                *)
(***************************************************************************)
EXTENDS FlightDocs, Naturals, Sequences

VARIABLES
    flights,   \* the collection, in the order of insertion
    inbox      \* the messages being worked on; the topic fills it

Init == flights = <<>> /\ inbox = {}

Strength == [tfdm_id |-> 4, tfm_id |-> 3, flight_plan_identifier |-> 2, leg |-> 1]

AgreeOn(m, k) ==
    {i \in DOMAIN flights : flights[i].status = "active" /\ Agree(flights[i], m, k)}

\* The documents m may be about.
Candidates(m) ==
    UNION {AgreeOn(m, k) : k \in {k \in KeyName :
              \A l \in KeyName : Strength[l] > Strength[k] => AgreeOn(m, l) = {}}}

Delete(m) ==
    /\ m.delete
    /\ \E i \in Candidates(m) : flights' = [flights EXCEPT ![i].status = "deleted"]

Update(m) ==
    /\ ~m.delete
    /\ \E i \in Candidates(m), leg \in LegsAfter(m.keys) :
          flights' = [flights EXCEPT ![i].keys = Merged(@, m.keys, leg)]

Insert(m) ==
    /\ ~m.delete
    /\ Candidates(m) = {}
    /\ flights' = Append(flights, [keys |-> m.keys, status |-> "active"])

\* A message takes effect at most once: it is out of the inbox after that.
Apply(m) ==
    /\ Usable(m)
    /\ Delete(m) \/ Update(m) \/ Insert(m)
    /\ m \notin inbox'

Next == \E m \in inbox : Apply(m)

Spec == Init /\ [][Next]_flights

=============================================================================

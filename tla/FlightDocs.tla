----------------------------- MODULE FlightDocs -----------------------------
(***************************************************************************)
(* TFDM messages and the documents of the flights collection, as far as    *)
(* the one finds the other.                                                *)
(* Source: app/parser.py, app/consumer.py.                                 *)
(***************************************************************************)
CONSTANTS
    Tfdm, Tfm, Plan,  \* values of tfdm_id, tfm_id, flight_plan_identifier
    Leg               \* values of flight number with both airports

None == "null"

ASSUME FlightDocsAssumption == None \notin Tfdm \cup Tfm \cup Plan \cup Leg

\* What a message or a document is found by.  "leg" stands for the fields
\* flight_number, departurePointText and destinationPointText together: it is
\* absent when any of them is.
Keys == [tfdm_id                : Tfdm \cup {None},
         tfm_id                 : Tfm \cup {None},
         flight_plan_identifier : Plan \cup {None},
         leg                    : Leg \cup {None}]

KeyName == {"tfdm_id", "tfm_id", "flight_plan_identifier", "leg"}

Message == [keys : Keys, delete : BOOLEAN]

NoMessage == [keys |-> [k \in KeyName |-> None], delete |-> FALSE]

Doc == [keys : Keys, status : {"active", "deleted"}]

\* A message without any of the three identifiers is skipped.
Usable(m) ==
    \E k \in {"tfdm_id", "tfm_id", "flight_plan_identifier"} : m.keys[k] # None

\* A document and a message agree on a key both have.
Agree(d, m, k) == m.keys[k] # None /\ d.keys[k] = m.keys[k]

\* Fields the message lacks keep their value, the others are overwritten.  A
\* message with a part of a leg may give the document another one: leg is what
\* comes of it.
Merged(old, new, leg) ==
    [k \in KeyName |->
        IF k = "leg" THEN leg ELSE IF new[k] = None THEN old[k] ELSE new[k]]

LegsAfter(new) == IF new.leg = None THEN Leg \cup {None} ELSE {new.leg}

=============================================================================

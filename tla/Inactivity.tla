----------------------------- MODULE Inactivity -----------------------------
(***************************************************************************)
(* The inactivity scanner: which subscriptions it removes, and when.       *)
(*                                                                         *)
(* A scan takes the time once, walks a cursor over the subscriptions and,  *)
(* for each, reads the newest document of its flight number and deletes    *)
(* the subscription by its id.  Flights are written, subscriptions come    *)
(* and go at every await; the cursor may return what is gone, and may miss *)
(* or return what is new.  An exception ends the scan, not the scanner.    *)
(*                                                                         *)
(* A date is modelled by its age.  The cutoffs of a scan do not move while *)
(* it runs, so that what lies beyond them is fixed when it starts, but for *)
(* the flights written since.                                              *)
(* Source: app/dispatcher.py.                                              *)
(***************************************************************************)
EXTENDS Naturals

CONSTANTS
    Flight,       \* flight numbers
    Sub,          \* subscription ids
    FlightOf,     \* the flight number each subscription asks for
    TzAware,      \* dates come back from the driver with a time zone, as in
                  \* Dispatcher
    Inactive,     \* settings.inactivity_timeout_min, in ticks
    Preflight,    \* settings.preflight_timeout_min, in ticks
    Interval,     \* settings.inactivity_scan_interval_min, in ticks
    MaxWrites,    \* bound: writes to the flights collection
    MaxFaults     \* bound: failed calls, restarts

ASSUME InactivityAssumption ==
    /\ FlightOf \in [Sub -> Flight]
    /\ TzAware \in BOOLEAN
    /\ Inactive \in Nat
    /\ Preflight \in Nat
    /\ Interval \in Nat
    /\ MaxWrites \in Nat
    /\ MaxFaults \in Nat

VARIABLES
    \* The database:
    known,        \* flight numbers that have a document
    flight_age,   \* age of the updated_at of the newest one
    status,       \* status of each subscription's document
    sub_age,      \* age of its created_at, 0 without a document
    \* The scanner:
    step,         \* where it is
    waited,       \* how long it has waited for the next scan
    silent,       \* flights whose updated_at is before active_cutoff
    overdue,      \* subscriptions whose created_at is before preflight_cutoff
    rest,         \* what the cursor has to return yet
    seen,         \* what it has returned
    sub,          \* the subscription in hand
    \* Bounds and history:
    writes, faults,
    revived       \* its flight was written after it was read

database == <<known, flight_age, status, sub_age>>
cutoffs == <<silent, overdue>>
cursor == <<rest, seen, sub>>
bounds == <<writes, faults>>
vars == <<database, step, waited, cutoffs, cursor, bounds, revived>>

SubStatus == {"unused", "stored", "removed", "expired"}

Step == {"wait", "scan", "read", "delete"}

TypeOK ==
    /\ known \subseteq Flight
    /\ flight_age \in [Flight -> 0..Inactive + 1]
    /\ status \in [Sub -> SubStatus]
    /\ sub_age \in [Sub -> 0..Preflight + 1]
    /\ step \in Step
    /\ waited \in 0..Interval
    /\ silent \subseteq known
    /\ overdue \subseteq Sub
    /\ rest \subseteq Sub
    /\ seen \subseteq Sub
    /\ sub \in Sub
    /\ writes \in 0..MaxWrites
    /\ faults \in 0..MaxFaults
    /\ revived \in BOOLEAN

\* The first scan starts with the process.
Init ==
    /\ known \in SUBSET Flight
    /\ flight_age = [f \in Flight |-> IF f \in known THEN Inactive + 1 ELSE 0]
    /\ status = [s \in Sub |-> "unused"]
    /\ sub_age = [s \in Sub |-> 0]
    /\ step = "wait"
    /\ waited = Interval
    /\ silent = {}
    /\ overdue = {}
    /\ rest = {}
    /\ seen = {}
    /\ sub \in Sub
    /\ writes = 0
    /\ faults = 0
    /\ revived = FALSE

Stored == {s \in Sub : status[s] = "stored"}

-----------------------------------------------------------------------------
(* The feeds, the clients, the rest of the dispatcher, and time.           *)

\* A consumer writes a document of f.  Documents are never removed.
WriteFlight(f) ==
    /\ writes < MaxWrites
    /\ writes' = writes + 1
    /\ known' = known \cup {f}
    /\ flight_age' = [flight_age EXCEPT ![f] = 0]
    /\ silent' = silent \ {f}
    /\ revived' = (revived \/ (step = "delete" /\ f = FlightOf[sub]))
    /\ UNCHANGED <<status, sub_age, step, waited, overdue, cursor, faults>>

\* create_subscription
Subscribe(s) ==
    /\ status[s] = "unused"
    /\ status' = [status EXCEPT ![s] = "stored"]
    /\ UNCHANGED <<known, flight_age, sub_age, step, waited, cutoffs, cursor, bounds,
                   revived>>

\* The client or an admin deletes it, its flight is deleted, or its deliveries
\* fail too often.
Remove(s) ==
    /\ status[s] = "stored"
    /\ status' = [status EXCEPT ![s] = "removed"]
    /\ sub_age' = [sub_age EXCEPT ![s] = 0]
    /\ UNCHANGED <<known, flight_age, step, waited, cutoffs, cursor, bounds,
                   revived>>

Older(age, limit) == IF age < limit THEN age + 1 ELSE age

Tick ==
    /\ flight_age' = [f \in Flight |->
                         IF f \in known THEN Older(flight_age[f], Inactive + 1) ELSE 0]
    /\ sub_age' = [s \in Sub |->
                      IF s \in Stored THEN Older(sub_age[s], Preflight + 1) ELSE sub_age[s]]
    /\ waited' = IF step = "wait" THEN Older(waited, Interval) ELSE waited
    /\ UNCHANGED <<known, status, step, cutoffs, cursor, bounds, revived>>

-----------------------------------------------------------------------------
(* _scan_inactivity.                                                       *)

Silent == {f \in known : flight_age[f] > Inactive}

\* Mutated form of Overdue: created_at is not looked at.
Overdue_Never == {}

Overdue == {s \in Stored : sub_age[s] > Preflight}

\* The time is taken, the cutoffs follow from it, and the cursor is opened.
StartScan ==
    /\ step = "wait"
    /\ waited = Interval
    /\ step' = "scan"
    /\ silent' = Silent
    /\ overdue' = Overdue
    /\ rest' = Stored
    /\ seen' = {}
    /\ UNCHANGED <<database, waited, sub, bounds, revived>>

\* The cursor returns each subscription once: those there were, as they were,
\* and perhaps one that has come since.
NextSub(s) ==
    /\ step = "scan"
    /\ s \in (rest \cup Stored) \ seen
    /\ rest' = rest \ {s}
    /\ seen' = seen \cup {s}
    /\ sub' = s
    /\ step' = "read"
    /\ UNCHANGED <<database, waited, cutoffs, bounds, revived>>

Wait ==
    /\ step' = "wait"
    /\ waited' = 0
    /\ silent' = {}
    /\ overdue' = {}
    /\ rest' = {}
    /\ seen' = {}

\* Mutated form of EndScan: the rest of the cursor is left for another time.
EndScan_Early ==
    /\ step = "scan"
    /\ Wait
    /\ UNCHANGED <<database, sub, bounds, revived>>

\* Nothing is left but what was removed meanwhile.
EndScan ==
    /\ step = "scan"
    /\ rest \cap Stored = {}
    /\ Wait
    /\ UNCHANGED <<database, sub, bounds, revived>>

\* Mutated form of Expired: a flight without a document counts as silent.
Expired_NoPreflight(s) == FlightOf[s] \notin known \/ FlightOf[s] \in silent

\* What the document read says of s.
Expired(s) ==
    \/ FlightOf[s] \in known /\ FlightOf[s] \in silent
    \/ FlightOf[s] \notin known /\ s \in overdue

ReadFlight ==
    /\ step = "read"
    /\ TzAware
    /\ step' = IF Expired(sub) THEN "delete" ELSE "scan"
    /\ revived' = FALSE
    /\ UNCHANGED <<database, waited, cutoffs, cursor, bounds>>

Expire(gone) ==
    /\ status' = [s \in Sub |-> IF s \in gone THEN "expired" ELSE status[s]]
    /\ sub_age' = [s \in Sub |-> IF s \in gone THEN 0 ELSE sub_age[s]]
    /\ step' = "scan"
    /\ UNCHANGED <<known, flight_age, waited, cutoffs, cursor, bounds, revived>>

\* delete_one by _id, whatever became of flight and subscription.
DeleteSub == step = "delete" /\ Expire({sub} \cap Stored)

Fault == faults < MaxFaults /\ faults' = faults + 1

\* A call raises, or a naive date is compared with an aware one: the rest of
\* the scan is given up until the next.
ScanRaises ==
    /\ step \in {"scan", "read", "delete"}
    /\ \/ Fault
       \/ step = "read" /\ ~TzAware /\ UNCHANGED faults
    /\ Wait
    /\ UNCHANGED <<database, sub, writes, revived>>

\* The process ends, and starts with a scan.
Restart ==
    /\ Fault
    /\ step' = "wait"
    /\ waited' = Interval
    /\ silent' = {}
    /\ overdue' = {}
    /\ rest' = {}
    /\ seen' = {}
    /\ UNCHANGED <<database, sub, writes, revived>>

-----------------------------------------------------------------------------
Scan ==
    \/ StartScan
    \/ \E s \in Sub : NextSub(s)
    \/ EndScan
    \/ ReadFlight
    \/ DeleteSub
    \/ ScanRaises

Next ==
    \/ \E f \in Flight : WriteFlight(f)
    \/ \E s \in Sub : Subscribe(s) \/ Remove(s)
    \/ Tick
    \/ Scan
    \/ Restart

Spec == Init /\ [][Next]_vars

\* The event loop runs the scanner, every call returns or raises, and time
\* passes.
FairSpec == Spec /\ WF_vars(Scan) /\ WF_vars(Tick)

-----------------------------------------------------------------------------
(* Properties.                                                             *)

\* README.md: a subscription is removed after the given "minutes of no SWIM
\* messages", or "before the first SWIM message".
Idle(s) ==
    IF FlightOf[s] \in known THEN flight_age[FlightOf[s]] > Inactive
    ELSE sub_age[s] > Preflight

\* The scanner removes a subscription only if that is so, or if the flight
\* was written between the read and the delete.
OnlyIdleAreRemoved ==
    [][\A s \in Sub :
          status[s] = "stored" /\ status'[s] = "expired" => Idle(s) \/ revived]_vars

\* What makes it inductive: what lies beyond a cutoff stays there, unless the
\* flight is written.
CutoffsHold ==
    /\ \A f \in silent : flight_age[f] > Inactive
    /\ \A s \in overdue : s \in Stored => sub_age[s] > Preflight
    /\ step = "delete" /\ sub \in Stored => Idle(sub) \/ revived

\* A scan leaves nobody out: of those there were when it began, and those it
\* met besides, the ones still there at its end were not due.
ScanIsThorough ==
    [][EndScan => \A s \in (rest \cup seen) \cap Stored : ~Expired(s)]_vars

\* When the feeds fall silent every subscription is removed in the end: also
\* one that came during a scan, or whose scan failed.
InactiveAreRemoved ==
    \A s \in Sub : (status[s] = "stored") ~> (status[s] # "stored")

=============================================================================

---------------------------- MODULE TasksProofs ----------------------------
(***************************************************************************)
(* Proofs about two tasks of the dispatcher process, the inactivity        *)
(* scanner and the change watcher, for any flights, subscriptions,         *)
(* timeouts, limit and bounds.                                             *)
(*                                                                         *)
(* The scanner: the inductive invariant adds to CutoffsHold where the      *)
(* cursor has been: what it returned and left is not due, but for the      *)
(* subscription in hand.                                                   *)
(*                                                                         *)
(* The watcher: TypeOK and ChangesAreAccounted are inductive together.     *)
(* Each is about its own specification: neither has the other's variables. *)
(***************************************************************************)
EXTENDS Inactivity, Watcher, TLAPS

USE InactivityAssumption

\* The subscription in hand has been returned by the cursor, and only while a
\* scan runs; what the cursor has or had to return was once stored.
CursorIsReal ==
    /\ step \in {"read", "delete"} => sub \in seen
    /\ \A s \in overdue \cup rest \cup seen : status[s] # "unused"

\* What the scan has left behind is not due.
Looked ==
    \A s \in seen \cap Stored :
        (step \in {"read", "delete"} /\ s = sub) \/ ~Expired(s)

ScanInv == CursorIsReal /\ Looked

Inv == TypeOK /\ CutoffsHold /\ ScanInv

-----------------------------------------------------------------------------
LEMMA AgesGrow ==
    ASSUME NEW limit \in Nat, NEW age \in 0..limit
    PROVE  /\ Older(age, limit) \in 0..limit
           /\ Older(age, limit) >= age
BY DEF Older

LEMMA InitInv == Init => Inv
<1> SUFFICES ASSUME Init PROVE Inv
  OBVIOUS
<1>1. TypeOK
  <2>1. flight_age \in [Flight -> 0..Inactive + 1]
    BY DEF Init
  <2>2. /\ sub_age \in [Sub -> 0..Preflight + 1]
        /\ waited \in 0..Interval /\ writes \in 0..MaxWrites
        /\ faults \in 0..MaxFaults
    BY DEF Init
  <2> QED BY <2>1, <2>2 DEF Init, TypeOK, SubStatus, Step
<1>2. CutoffsHold /\ ScanInv
  BY DEF Init, CutoffsHold, ScanInv, CursorIsReal, Looked
<1> QED BY <1>1, <1>2 DEF Inv

\* What the writes of the feeds do to a scan: fewer flights are silent, and
\* what was due may be no longer.
LEMMA WriteFlightInv ==
    ASSUME Inv, NEW f \in Flight, WriteFlight(f)
    PROVE  Inv'
<1> USE DEF Inv, WriteFlight, cursor, TypeOK
<1>1. TypeOK'
  OBVIOUS
<1>2. CutoffsHold'
  BY DEF CutoffsHold, Stored, Idle
<1>3. CursorIsReal'
  BY DEF ScanInv, CursorIsReal, Expired
<1>4. Looked'
  BY DEF ScanInv, Looked, Expired, Stored
<1> QED BY <1>1, <1>2, <1>3, <1>4 DEF ScanInv

LEMMA SubscribeInv ==
    ASSUME Inv, NEW s \in Sub, Subscribe(s)
    PROVE  Inv'
<1> USE DEF Inv, Subscribe, cutoffs, cursor, bounds, TypeOK
<1>1. TypeOK'
  BY DEF SubStatus
<1>2. CutoffsHold'
  BY DEF CutoffsHold, Stored, Idle, ScanInv, CursorIsReal
<1>3. CursorIsReal'
  BY DEF ScanInv, CursorIsReal, Expired
<1>4. Looked'
  BY DEF ScanInv, Looked, CursorIsReal, Expired, Stored
<1> QED BY <1>1, <1>2, <1>3, <1>4 DEF ScanInv

LEMMA RemoveInv ==
    ASSUME Inv, NEW s \in Sub, Remove(s)
    PROVE  Inv'
<1> USE DEF Inv, Remove, cutoffs, cursor, bounds, TypeOK
<1>1. TypeOK'
  BY DEF SubStatus
<1>2. CutoffsHold'
  BY DEF CutoffsHold, Stored, Idle
<1>3. CursorIsReal'
  BY DEF ScanInv, CursorIsReal, Expired
<1>4. Looked'
  BY DEF ScanInv, Looked, Expired, Stored
<1> QED BY <1>1, <1>2, <1>3, <1>4 DEF ScanInv

LEMMA TickInv ==
    ASSUME Inv, Tick
    PROVE  Inv'
<1> USE DEF Inv, Tick, cutoffs, cursor, bounds
<1>1. TypeOK'
  <2>1. flight_age' \in [Flight -> 0..Inactive + 1]
    BY AgesGrow DEF TypeOK
  <2>2. sub_age' \in [Sub -> 0..Preflight + 1]
    BY AgesGrow DEF TypeOK
  <2>3. waited' \in 0..Interval
    BY AgesGrow DEF TypeOK
  <2> QED BY <2>1, <2>2, <2>3 DEF TypeOK
<1>2. CutoffsHold'
  <2>1. \A f \in known : flight_age'[f] >= flight_age[f]
    BY AgesGrow DEF TypeOK
  <2>2. \A s \in Stored : sub_age'[s] >= sub_age[s]
    BY AgesGrow DEF TypeOK, Stored
  <2>3. \A s \in Sub : sub_age'[s] \in Nat /\ sub_age[s] \in Nat
    BY <1>1 DEF TypeOK
  <2>4. \A f \in Flight : flight_age'[f] \in Nat /\ flight_age[f] \in Nat
    BY <1>1 DEF TypeOK
  <2>5. silent \subseteq known /\ known \subseteq Flight /\ overdue \subseteq Sub
    BY DEF TypeOK
  <2>6. UNCHANGED <<known, status, step, silent, overdue, sub, revived>>
    OBVIOUS
  <2>7. FlightOf[sub] \in Flight /\ sub \in Sub
    BY DEF TypeOK
  <2> HIDE DEF Tick
  <2>8. \A f \in silent' : flight_age'[f] > Inactive
    BY <2>1, <2>4, <2>5, <2>6 DEF CutoffsHold
  <2>9. \A s \in overdue' : s \in Stored' => sub_age'[s] > Preflight
    BY <2>2, <2>3, <2>5, <2>6 DEF CutoffsHold, Stored
  <2>10. ASSUME step' = "delete", sub' \in Stored', ~revived'
         PROVE  Idle(sub)'
    <3>1. Idle(sub)
      BY <2>6, <2>10 DEF CutoffsHold, Stored
    <3>2. sub \in Stored
      BY <2>6, <2>10 DEF Stored
    <3> QED BY <3>1, <3>2, <2>1, <2>2, <2>3, <2>4, <2>6, <2>7 DEF Idle
  <2> QED BY <2>8, <2>9, <2>10 DEF CutoffsHold
<1>3. ScanInv'
  BY DEF ScanInv, CursorIsReal, Looked, Expired, Stored
<1> QED BY <1>1, <1>2, <1>3

LEMMA StartScanInv ==
    ASSUME Inv, StartScan
    PROVE  Inv'
<1> USE DEF Inv, StartScan, database, bounds, TypeOK
<1>1. TypeOK'
  BY DEF Silent, Overdue, Stored, Step
<1>2. CutoffsHold'
  BY DEF CutoffsHold, Silent, Overdue, Stored, Idle
<1>3. ScanInv'
  BY DEF ScanInv, CursorIsReal, Looked, Overdue, Stored
<1> QED BY <1>1, <1>2, <1>3

LEMMA NextSubInv ==
    ASSUME Inv, NEW s \in Sub, NextSub(s)
    PROVE  Inv'
<1> USE DEF Inv, NextSub, database, cutoffs, bounds
<1>1. TypeOK'
  BY DEF TypeOK, Step
<1>2. CutoffsHold'
  BY DEF CutoffsHold, Stored, Idle
<1>3. CursorIsReal'
  BY DEF ScanInv, CursorIsReal, Stored
<1>4. Looked'
  BY DEF ScanInv, Looked, Expired, Stored
<1> QED BY <1>1, <1>2, <1>3, <1>4 DEF ScanInv

\* A scan that ends, or is given up, leaves nothing behind.
LEMMA WaitInv ==
    ASSUME Inv, step' = "wait", waited' \in 0..Interval,
           silent' = {}, overdue' = {}, rest' = {}, seen' = {},
           faults' \in 0..MaxFaults,
           UNCHANGED <<database, sub, writes, revived>>
    PROVE  Inv'
<1> USE DEF Inv, database
<1>1. TypeOK'
  BY DEF TypeOK, Step
<1>2. CutoffsHold' /\ ScanInv'
  BY DEF CutoffsHold, ScanInv, CursorIsReal, Looked
<1> QED BY <1>1, <1>2

LEMMA EndScanInv ==
    ASSUME Inv, EndScan
    PROVE  Inv'
<1>1. faults' \in 0..MaxFaults
  BY DEF Inv, TypeOK, EndScan, bounds
<1>2. waited' = 0 /\ 0 \in 0..Interval
  BY DEF EndScan, Wait
<1> QED BY <1>1, <1>2, WaitInv DEF EndScan, Wait, bounds

LEMMA ScanRaisesInv ==
    ASSUME Inv, ScanRaises
    PROVE  Inv'
<1>1. faults' \in 0..MaxFaults
  BY DEF Inv, TypeOK, ScanRaises, Fault
<1>2. waited' = 0 /\ 0 \in 0..Interval
  BY DEF ScanRaises, Wait
<1> QED BY <1>1, <1>2, WaitInv DEF ScanRaises, Wait

LEMMA RestartInv ==
    ASSUME Inv, Restart
    PROVE  Inv'
<1>1. faults' \in 0..MaxFaults
  BY DEF Inv, TypeOK, Restart, Fault
<1>2. waited' = Interval /\ Interval \in 0..Interval
  BY DEF Restart
<1> QED BY <1>1, <1>2, WaitInv DEF Restart

LEMMA ReadFlightInv ==
    ASSUME Inv, ReadFlight
    PROVE  Inv'
<1> USE DEF Inv, ReadFlight, database, cutoffs, cursor, bounds
<1>1. TypeOK'
  BY DEF TypeOK, Step
<1>2. CutoffsHold'
  BY DEF CutoffsHold, Stored, Idle, Expired, TypeOK
<1>3. ScanInv'
  BY DEF ScanInv, CursorIsReal, Looked, Expired, Stored
<1> QED BY <1>1, <1>2, <1>3

LEMMA DeleteSubInv ==
    ASSUME Inv, DeleteSub
    PROVE  Inv'
<1> USE DEF Inv, DeleteSub, Expire, cutoffs, cursor, bounds
<1>1. TypeOK'
  <2>1. status' \in [Sub -> SubStatus]
    BY DEF TypeOK, SubStatus
  <2>2. sub_age' \in [Sub -> 0..Preflight + 1]
    BY DEF TypeOK
  <2> QED BY <2>1, <2>2 DEF TypeOK, Step
<1>2. CutoffsHold'
  BY DEF CutoffsHold, Stored, TypeOK
<1>3. ScanInv'
  BY DEF ScanInv, CursorIsReal, Looked, Expired, Stored, TypeOK
<1> QED BY <1>1, <1>2, <1>3

LEMMA NextInv == Inv /\ [Next]_vars => Inv'
<1> SUFFICES ASSUME Inv, [Next]_vars PROVE Inv'
  OBVIOUS
<1>1. ASSUME NEW f \in Flight, WriteFlight(f) PROVE Inv'
  BY <1>1, WriteFlightInv
<1>2. ASSUME NEW s \in Sub, Subscribe(s) \/ Remove(s) PROVE Inv'
  BY <1>2, SubscribeInv, RemoveInv
<1>3. CASE Tick
  BY <1>3, TickInv
<1>4. CASE Scan
  BY <1>4, StartScanInv, NextSubInv, EndScanInv, ReadFlightInv, DeleteSubInv,
     ScanRaisesInv DEF Scan
<1>5. CASE Restart
  BY <1>5, RestartInv
<1>6. CASE UNCHANGED vars
  BY <1>6 DEF vars, database, cutoffs, cursor, bounds, Inv, TypeOK, CutoffsHold,
     ScanInv, CursorIsReal, Looked, Idle, Expired, Stored
<1> QED BY <1>1, <1>2, <1>3, <1>4, <1>5, <1>6 DEF Next

-----------------------------------------------------------------------------
(* The theorems.                                                           *)

\* The inductive invariant of the scanner.
THEOREM ScannerInductive == Spec => []Inv
<1> QED BY InitInv, NextInv, PTL DEF Spec

\* Every variable keeps its type.
THEOREM TypeCorrect == Spec => []TypeOK
<1>1. Inv => TypeOK
  BY DEF Inv
<1> QED BY <1>1, ScannerInductive, PTL

\* What a scan found beyond its cutoffs stays there, however long it takes.
THEOREM CutoffsStayTrue == Spec => []CutoffsHold
<1>1. Inv => CutoffsHold
  BY DEF Inv
<1> QED BY <1>1, ScannerInductive, PTL

\* The scanner removes only subscriptions whose flight has been silent for too
\* long, or that have waited for it too long, but for a write that came
\* between its read and its delete.
THEOREM OnlyIdleGo == Spec => OnlyIdleAreRemoved
<1> DEFINE Fair(s) == status[s] = "stored" /\ status'[s] = "expired"
                         => Idle(s) \/ revived
<1>1. ASSUME Inv, [Next]_vars, NEW s \in Sub PROVE Fair(s)
  <2> USE DEF database, cutoffs, cursor, bounds
  <2>1. ASSUME NEW f \in Flight, WriteFlight(f) PROVE Fair(s)
    BY <2>1 DEF WriteFlight
  <2>2. ASSUME NEW t \in Sub, Subscribe(t) \/ Remove(t) PROVE Fair(s)
    BY <2>2, <1>1 DEF Subscribe, Remove, Inv, TypeOK
  <2>3. CASE DeleteSub
    BY <2>3, <1>1 DEF DeleteSub, Expire, Stored, Inv, CutoffsHold, TypeOK
  <2>4. CASE Tick \/ StartScan \/ EndScan \/ ReadFlight \/ ScanRaises \/ Restart
    BY <2>4 DEF Tick, StartScan, EndScan, ReadFlight, ScanRaises, Restart
  <2>5. ASSUME NEW t \in Sub, NextSub(t) PROVE Fair(s)
    BY <2>5 DEF NextSub
  <2>6. CASE UNCHANGED vars
    BY <2>6 DEF vars
  <2> QED BY <1>1, <2>1, <2>2, <2>3, <2>4, <2>5, <2>6 DEF Next, Scan
<1>2. Inv /\ [Next]_vars
        => [\A s \in Sub : status[s] = "stored" /\ status'[s] = "expired"
                              => Idle(s) \/ revived]_vars
  BY <1>1
<1> QED BY <1>2, ScannerInductive, PTL DEF Spec, OnlyIdleAreRemoved

\* A scan that comes to its end leaves no subscription that was due.
THEOREM ScansAreThorough == Spec => ScanIsThorough
<1>1. Inv /\ EndScan => \A s \in (rest \cup seen) \cap Stored : ~Expired(s)
  BY DEF Inv, EndScan, ScanInv, Looked
<1>2. Inv /\ [Next]_vars
        => [EndScan => \A s \in (rest \cup seen) \cap Stored : ~Expired(s)]_vars
  BY <1>1
<1> QED BY <1>2, ScannerInductive, PTL DEF Spec, ScanIsThorough

-----------------------------------------------------------------------------
(* The change watcher, a specification of its own.                         *)

USE WatcherAssumption

WatcherInv == WatcherTypeOK /\ ChangesAreAccounted

LEMMA WatcherStarts ==
    ASSUME WatcherInit
    PROVE  WatcherInv
BY DEF WatcherInit, WatcherInv, WatcherTypeOK, ChangesAreAccounted, Mode

-----------------------------------------------------------------------------
(* Type correctness of the watcher.                                        *)

LEMMA WatcherTypes ==
    ASSUME WatcherTypeOK, [WatcherNext]_watcherVars
    PROVE  WatcherTypeOK'
<1> USE DEF WatcherTypeOK, api, poll, Mode, Polling
<1>1. CASE Second
  BY <1>1 DEF Second, Write
<1>2. ASSUME NEW f \in Number, TakeTime(f) PROVE WatcherTypeOK'
  BY <1>2 DEF TakeTime, Write
<1>3. ASSUME NEW w \in writing, StoreFlight(w) PROVE WatcherTypeOK'
  <2>1. w.flight \in Number /\ w.at \in 1..clock
    BY DEF Write
  <2>2. stream' \in Seq(Number)
    BY <1>3, <2>1 DEF StoreFlight
  <2>3. missed' \subseteq unseen' /\ unseen' \subseteq Number
    BY <1>3, <2>1 DEF StoreFlight
  <2> QED
    BY <1>3, <2>1, <2>2, <2>3 DEF StoreFlight
<1>4. CASE NoSecondary
  BY <1>4 DEF NoSecondary, StartPolling
<1>5. CASE Secondary
  BY <1>5 DEF Secondary
<1>6. CASE StreamOpens
  BY <1>6 DEF StreamOpens
<1>7. CASE NextChange
  BY <1>7 DEF NextChange, Schedule
<1>8. CASE StreamFails
  BY <1>8 DEF StreamFails, StartPolling
<1>9. CASE WatcherEnds
  BY <1>9 DEF WatcherEnds
<1>10. CASE AskForChanges
  BY <1>10 DEF AskForChanges
<1>11. CASE FindChanges
  BY <1>11 DEF FindChanges, Changed
<1>12. CASE ScheduleChanges
  BY <1>12 DEF ScheduleChanges, Schedule
<1>13. CASE PollFails
  BY <1>13 DEF PollFails
<1>14. CASE RestartWatcher
  BY <1>14 DEF RestartWatcher
<1>15. CASE UNCHANGED watcherVars
  BY <1>15 DEF watcherVars
<1> QED
  BY <1>1, <1>2, <1>3, <1>4, <1>5, <1>6, <1>7, <1>8, <1>9, <1>10, <1>11,
     <1>12, <1>13, <1>14, <1>15
  DEF WatcherNext, Watch, Poll

-----------------------------------------------------------------------------
(* Accounting.                                                             *)

LEMMA AccountedStep ==
    ASSUME WatcherInv, [WatcherNext]_watcherVars
    PROVE  ChangesAreAccounted'
<1> SUFFICES ASSUME NEW f \in unseen' PROVE Accounted(f)'
  BY DEF ChangesAreAccounted
<1> USE DEF WatcherInv, WatcherTypeOK, ChangesAreAccounted,
    Accounted, api, poll, Polling
<1>1. ASSUME UNCHANGED <<updated_at, mode, stream, poll, unseen, missed>>
      PROVE  Accounted(f)'
  BY <1>1
<1>2. ASSUME NEW w \in writing, StoreFlight(w) PROVE Accounted(f)'
  <2>1. w.flight \in Number /\ w.at \in 1..clock
    BY DEF Write
  <2>2. ASSUME f # w.flight PROVE Accounted(f)'
    <3>1. f \in unseen /\ updated_at'[f] = updated_at[f]
          /\ (f \in missed => f \in missed')
      BY <1>2, <2>1, <2>2 DEF StoreFlight
    <3>2. \A i \in DOMAIN stream : i \in DOMAIN stream'
                                   /\ stream'[i] = stream[i]
      BY <1>2, <2>1 DEF StoreFlight
    <3> QED
      BY <1>2, <3>1, <3>2 DEF StoreFlight
  <2>3. ASSUME f = w.flight PROVE Accounted(f)'
    <3>1. updated_at'[f] = w.at
      BY <1>2, <2>1, <2>3 DEF StoreFlight
    <3>2. CASE TooLate(w)
      BY <1>2, <2>3, <3>2 DEF StoreFlight
    <3>3. CASE mode = "stream"
      <4>1. stream' = Append(stream, f) /\ mode' = "stream"
        BY <1>2, <2>3, <3>3 DEF StoreFlight
      <4>2. Len(stream) + 1 \in DOMAIN stream'
            /\ stream'[Len(stream) + 1] = f
        BY <2>1, <2>3, <4>1
      <4> QED
        BY <4>1, <4>2
    <3>4. CASE mode # "stream" /\ ~TooLate(w)
      BY <1>2, <2>1, <3>1, <3>4 DEF StoreFlight, TooLate, Asked, Mode
    <3> QED
      BY <3>2, <3>3, <3>4
  <2> QED
    BY <2>2, <2>3
<1>3. CASE NoSecondary \/ StreamFails
  BY <1>3 DEF NoSecondary, StreamFails, StartPolling
<1>4. CASE Secondary \/ StreamOpens \/ WatcherEnds \/ RestartWatcher
  BY <1>4 DEF Secondary, StreamOpens, WatcherEnds, RestartWatcher
<1>5. CASE NextChange
  <2>1. f \in unseen /\ f # Head(stream)
    BY <1>5 DEF NextChange, Schedule
  <2>2. ASSUME NEW i \in DOMAIN stream, stream[i] = f
        PROVE  i - 1 \in DOMAIN stream' /\ stream'[i - 1] = f
    BY <1>5, <2>1, <2>2 DEF NextChange
  <2> QED
    BY <1>5, <2>1, <2>2 DEF NextChange
<1>6. CASE AskForChanges
  BY <1>6 DEF AskForChanges
<1>7. CASE FindChanges
  BY <1>7 DEF FindChanges, Changed
<1>8. CASE ScheduleChanges
  BY <1>8 DEF ScheduleChanges, Schedule
<1>9. CASE PollFails
  BY <1>9 DEF PollFails
<1> QED
  BY <1>1, <1>2, <1>3, <1>4, <1>5, <1>6, <1>7, <1>8, <1>9
  DEF WatcherNext, Watch, Poll, watcherVars, Second, TakeTime

-----------------------------------------------------------------------------
(* The theorems about the watcher.                                         *)

THEOREM WatcherInductive == WatcherSpec => []WatcherInv
<1>1. WatcherInit => WatcherInv
  BY WatcherStarts
<1>2. WatcherInv /\ [WatcherNext]_watcherVars => WatcherInv'
  BY WatcherTypes, AccountedStep DEF WatcherInv
<1> QED BY <1>1, <1>2, PTL DEF WatcherSpec

\* Every variable of the watcher has its type, and a poll never asks from a
\* time that is still to come.
THEOREM WatcherTypeCorrect == WatcherSpec => []WatcherTypeOK
<1>1. WatcherInv => WatcherTypeOK
  BY DEF WatcherInv
<1> QED BY WatcherInductive, <1>1, PTL

\* The windows of the polls meet: a change is scheduled, on its way, or lost
\* in one of the ways that Accounted names.
THEOREM WindowsLeaveNoGap == WatcherSpec => []ChangesAreAccounted
<1>1. WatcherInv => ChangesAreAccounted
  BY DEF WatcherInv
<1> QED BY WatcherInductive, <1>1, PTL

=============================================================================

-------------------------- MODULE DispatcherProofs --------------------------
(***************************************************************************)
(* Proofs about Dispatcher, for any flights, subscriptions, payloads,      *)
(* throttle time and bounds.                                               *)
(*                                                                         *)
(* The inductive invariant is the conjunction below; every lemma treats    *)
(* one action, with a step for each of its conjuncts.  NoLostChange needs  *)
(* a driver that returns dates with a time zone: with the naive dates of   *)
(* the default the code loses changes, as a run shows.                     *)
(***************************************************************************)
EXTENDS Dispatcher, TLAPS

Inv ==
    /\ TypeOK
    /\ PendingIsSignalled
    /\ TzAware => NoLostChange
    /\ DocIsCurrent
    /\ BatchIsRested

USE DispatcherAssumption

LEMMA WriteFlightInv ==
    ASSUME Inv, NEW f \in Flight, NEW d \in Doc,
           WriteFlight(f, d)
    PROVE  Inv'
<1> USE DEF Inv, WriteFlight, queue, coalescer, clocks, TypeOK
<1>1. TypeOK'
  BY DEF Step, DispatchStep
<1>2. PendingIsSignalled'
  BY DEF PendingIsSignalled
<1>3. ASSUME TzAware PROVE NoLostChange'
  BY <1>3 DEF NoLostChange, OnItsWay, BeingDispatched, DispatchStep
<1>4. DocIsCurrent'
  BY DEF DocIsCurrent, OnItsWay, DispatchStep, Deleted, Changed
<1>5. BatchIsRested'
  BY DEF BatchIsRested, Rested, DispatchStep
<1> QED BY <1>1, <1>2, <1>3, <1>4, <1>5

LEMMA WatchOpensInv ==
    ASSUME Inv, WatchOpens
    PROVE  Inv'
<1> USE DEF Inv, WatchOpens, database, watcher, queue, coalescer, clocks,
            history, TypeOK
<1>1. TypeOK'
  BY DEF Step, DispatchStep
<1>2. PendingIsSignalled'
  BY DEF PendingIsSignalled
<1>3. ASSUME TzAware PROVE NoLostChange'
  BY <1>3 DEF NoLostChange, OnItsWay, BeingDispatched, DispatchStep
<1>4. DocIsCurrent'
  BY DEF DocIsCurrent, OnItsWay, DispatchStep, Deleted, Changed
<1>5. BatchIsRested'
  BY DEF BatchIsRested, Rested, DispatchStep
<1> QED BY <1>1, <1>2, <1>3, <1>4, <1>5

LEMMA NextChangeInv ==
    ASSUME Inv, NEW f \in Flight, NextChange(f)
    PROVE  Inv'
<1> USE DEF Inv, NextChange, Schedule, database, watcher, queue, coalescer,
            clocks, history, TypeOK
<1>1. TypeOK'
  BY DEF Step, DispatchStep
<1>2. PendingIsSignalled'
  BY DEF PendingIsSignalled
<1>3. ASSUME TzAware PROVE NoLostChange'
  BY <1>3 DEF NoLostChange, OnItsWay, BeingDispatched, DispatchStep
<1>4. DocIsCurrent'
  BY DEF DocIsCurrent, OnItsWay, DispatchStep, Deleted, Changed
<1>5. BatchIsRested'
  BY DEF BatchIsRested, Rested, DispatchStep
<1> QED BY <1>1, <1>2, <1>3, <1>4, <1>5

LEMMA WakeInv ==
    ASSUME Inv, Wake
    PROVE  Inv'
<1> USE DEF Inv, Wake, database, watcher, queue, coalescer, clocks, history,
            TypeOK
<1>1. TypeOK'
  BY DEF Step, DispatchStep
<1>2. PendingIsSignalled'
  BY DEF PendingIsSignalled
<1>3. ASSUME TzAware PROVE NoLostChange'
  BY <1>3 DEF NoLostChange, OnItsWay, BeingDispatched, DispatchStep
<1>4. DocIsCurrent'
  BY DEF DocIsCurrent, OnItsWay, DispatchStep, Deleted, Changed
<1>5. BatchIsRested'
  BY DEF BatchIsRested, Rested, DispatchStep
<1> QED BY <1>1, <1>2, <1>3, <1>4, <1>5

LEMMA TakeBatchInv ==
    ASSUME Inv, TakeBatch
    PROVE  Inv'
<1> USE DEF Inv, TakeBatch, database, watcher, queue, coalescer, clocks,
            history, TypeOK
<1>1. TypeOK'
  BY DEF Step, DispatchStep
<1>2. PendingIsSignalled'
  BY DEF PendingIsSignalled
<1>3. ASSUME TzAware PROVE NoLostChange'
  BY <1>3 DEF NoLostChange, OnItsWay, BeingDispatched, DispatchStep,
              BatchIsRested
<1>4. DocIsCurrent'
  BY DEF DocIsCurrent, OnItsWay, DispatchStep, Deleted, Changed
<1>5. BatchIsRested'
  BY DEF BatchIsRested, Rested, DispatchStep
<1> QED BY <1>1, <1>2, <1>3, <1>4, <1>5

LEMMA NextFlightInv ==
    ASSUME Inv, NEW f \in Flight, NextFlight(f)
    PROVE  Inv'
<1> USE DEF Inv, NextFlight, database, watcher, queue, coalescer, clocks,
            history, TypeOK
<1>1. TypeOK'
  BY DEF Step, DispatchStep
<1>2. PendingIsSignalled'
  BY DEF PendingIsSignalled
<1>3. ASSUME TzAware PROVE NoLostChange'
  BY <1>3 DEF NoLostChange, OnItsWay, BeingDispatched, DispatchStep
<1>4. DocIsCurrent'
  BY DEF DocIsCurrent, OnItsWay, DispatchStep, Deleted, Changed
<1>5. BatchIsRested'
  BY DEF BatchIsRested, Rested, DispatchStep
<1> QED BY <1>1, <1>2, <1>3, <1>4, <1>5

LEMMA BatchDoneInv ==
    ASSUME Inv, BatchDone
    PROVE  Inv'
<1> USE DEF Inv, BatchDone, database, watcher, queue, coalescer, clocks,
            history, TypeOK
<1>1. TypeOK'
  BY DEF Step, DispatchStep
<1>2. PendingIsSignalled'
  BY DEF PendingIsSignalled
<1>3. ASSUME TzAware PROVE NoLostChange'
  BY <1>3 DEF NoLostChange, OnItsWay, BeingDispatched, DispatchStep
<1>4. DocIsCurrent'
  BY DEF DocIsCurrent, OnItsWay, DispatchStep, Deleted, Changed
<1>5. BatchIsRested'
  BY DEF BatchIsRested, Rested, DispatchStep
<1> QED BY <1>1, <1>2, <1>3, <1>4, <1>5

LEMMA ReadFlightInv ==
    ASSUME Inv, ReadFlight
    PROVE  Inv'
<1> USE DEF Inv, ReadFlight, database, watcher, queue, coalescer, clocks,
            history, TypeOK
<1>1. TypeOK'
  BY DEF Step, DispatchStep
<1>2. PendingIsSignalled'
  BY DEF PendingIsSignalled
<1>3. ASSUME TzAware PROVE NoLostChange'
  BY <1>3 DEF NoLostChange, OnItsWay, BeingDispatched, DispatchStep, NoDoc,
              Doc
<1>4. DocIsCurrent'
  BY DEF DocIsCurrent, OnItsWay, DispatchStep, Deleted, Changed, NoDoc, Doc
<1>5. BatchIsRested'
  BY DEF BatchIsRested, Rested, DispatchStep
<1> QED BY <1>1, <1>2, <1>3, <1>4, <1>5

LEMMA StartFinalInv ==
    ASSUME Inv, StartFinal
    PROVE  Inv'
<1> USE DEF Inv, StartFinal, ReadRow, database, watcher, queue, coalescer,
            clocks, history, TypeOK
<1>1. TypeOK'
  BY DEF Step, DispatchStep
<1>2. PendingIsSignalled'
  BY DEF PendingIsSignalled
<1>3. ASSUME TzAware PROVE NoLostChange'
  BY <1>3 DEF NoLostChange, OnItsWay, BeingDispatched, DispatchStep
<1>4. DocIsCurrent'
  BY DEF DocIsCurrent, OnItsWay, DispatchStep, Deleted, Changed
<1>5. BatchIsRested'
  BY DEF BatchIsRested, Rested, DispatchStep
<1> QED BY <1>1, <1>2, <1>3, <1>4, <1>5

LEMMA UnchangedInv ==
    ASSUME Inv, Unchanged
    PROVE  Inv'
<1> USE DEF Inv, Unchanged, Return, database, watcher, queue, coalescer,
            clocks, history, TypeOK
<1>1. TypeOK'
  BY DEF Step, DispatchStep
<1>2. PendingIsSignalled'
  BY DEF PendingIsSignalled
<1>3. ASSUME TzAware PROVE NoLostChange'
  BY <1>3 DEF NoLostChange, OnItsWay, BeingDispatched, DispatchStep,
              DocIsCurrent, Deleted, Changed, Doc
<1>4. DocIsCurrent'
  BY DEF DocIsCurrent, OnItsWay, DispatchStep, Deleted, Changed
<1>5. BatchIsRested'
  BY DEF BatchIsRested, Rested, DispatchStep
<1> QED BY <1>1, <1>2, <1>3, <1>4, <1>5

LEMMA WithheldInv ==
    ASSUME Inv, Withheld
    PROVE  Inv'
<1> USE DEF Inv, Withheld, Return, TooRecent, database, watcher, queue,
            coalescer, clocks, history, TypeOK
<1>1. TypeOK'
  BY DEF Step, DispatchStep
<1>2. PendingIsSignalled'
  BY DEF PendingIsSignalled
<1>3. ASSUME TzAware PROVE NoLostChange'
  BY <1>3 DEF NoLostChange, OnItsWay, BeingDispatched, DispatchStep,
              BatchIsRested, Rested
<1>4. DocIsCurrent'
  BY DEF DocIsCurrent, OnItsWay, DispatchStep, Deleted, Changed
<1>5. BatchIsRested'
  BY DEF BatchIsRested, Rested, DispatchStep
<1> QED BY <1>1, <1>2, <1>3, <1>4, <1>5

LEMMA StartSaveInv ==
    ASSUME Inv, StartSave
    PROVE  Inv'
<1> USE DEF Inv, StartSave, ReadRow, database, watcher, queue, coalescer,
            clocks, history, TypeOK
<1>1. TypeOK'
  BY DEF Step, DispatchStep
<1>2. PendingIsSignalled'
  BY DEF PendingIsSignalled
<1>3. ASSUME TzAware PROVE NoLostChange'
  BY <1>3 DEF NoLostChange, OnItsWay, BeingDispatched, DispatchStep
<1>4. DocIsCurrent'
  BY DEF DocIsCurrent, OnItsWay, DispatchStep, Deleted, Changed
<1>5. BatchIsRested'
  BY DEF BatchIsRested, Rested, DispatchStep
<1> QED BY <1>1, <1>2, <1>3, <1>4, <1>5

LEMMA SaveInv ==
    ASSUME Inv, SaveWebhookState
    PROVE  Inv'
<1> USE DEF Inv, SaveWebhookState, SaveRow, database, watcher, queue,
            coalescer, clocks, history, TypeOK
<1>1. TypeOK'
  BY DEF Step, DispatchStep, Doc, DocIsCurrent
<1>2. PendingIsSignalled'
  BY DEF PendingIsSignalled
<1>3. ASSUME TzAware PROVE NoLostChange'
  BY <1>3 DEF NoLostChange, OnItsWay, BeingDispatched, DispatchStep,
              DocIsCurrent, Deleted, Doc
<1>4. DocIsCurrent'
  BY DEF DocIsCurrent, OnItsWay, DispatchStep, Deleted, Changed, Doc
<1>5. BatchIsRested'
  BY DEF BatchIsRested, Rested, DispatchStep
<1> QED BY <1>1, <1>2, <1>3, <1>4, <1>5

LEMMA SendInv ==
    ASSUME Inv, SendToSubscriptions
    PROVE  Inv'
<1> USE DEF Inv, SendToSubscriptions, FanOut, Return, database, watcher,
            queue, coalescer, clocks, history, TypeOK
<1>1. TypeOK'
  BY DEF Step, DispatchStep, DocIsCurrent, Doc
<1>2. PendingIsSignalled'
  BY DEF PendingIsSignalled
<1>3. ASSUME TzAware PROVE NoLostChange'
  BY <1>3 DEF NoLostChange, OnItsWay, BeingDispatched, DispatchStep,
              DocIsCurrent, Deleted, Changed, Doc
<1>4. DocIsCurrent'
  BY DEF DocIsCurrent, OnItsWay, DispatchStep, Deleted, Changed
<1>5. BatchIsRested'
  BY DEF BatchIsRested, Rested, DispatchStep
<1> QED BY <1>1, <1>2, <1>3, <1>4, <1>5

LEMMA SendFinalInv ==
    ASSUME Inv, SendFinal
    PROVE  Inv'
<1> USE DEF Inv, SendFinal, FanOut, database, watcher, queue, coalescer,
            clocks, history, TypeOK
<1>1. TypeOK'
  BY DEF Step, DispatchStep, DocIsCurrent, Doc, Stored
<1>2. PendingIsSignalled'
  BY DEF PendingIsSignalled
<1>3. ASSUME TzAware PROVE NoLostChange'
  BY <1>3 DEF NoLostChange, OnItsWay, BeingDispatched, DispatchStep
<1>4. DocIsCurrent'
  BY DEF DocIsCurrent, OnItsWay, DispatchStep, Deleted, Changed
<1>5. BatchIsRested'
  BY DEF BatchIsRested, Rested, DispatchStep
<1> QED BY <1>1, <1>2, <1>3, <1>4, <1>5

LEMMA DropSubscriptionsInv ==
    ASSUME Inv, DropSubscriptions
    PROVE  Inv'
<1> USE DEF Inv, DropSubscriptions, database, watcher, queue, coalescer,
            clocks, history, TypeOK
<1>1. TypeOK'
  BY DEF Step, DispatchStep, SubStatus
<1>2. PendingIsSignalled'
  BY DEF PendingIsSignalled
<1>3. ASSUME TzAware PROVE NoLostChange'
  BY <1>3 DEF NoLostChange, OnItsWay, BeingDispatched, DispatchStep
<1>4. DocIsCurrent'
  BY DEF DocIsCurrent, OnItsWay, DispatchStep, Deleted, Changed
<1>5. BatchIsRested'
  BY DEF BatchIsRested, Rested, DispatchStep
<1> QED BY <1>1, <1>2, <1>3, <1>4, <1>5

LEMMA DropWebhookStateInv ==
    ASSUME Inv, DropWebhookState
    PROVE  Inv'
<1> USE DEF Inv, DropWebhookState, Return, database, watcher, queue,
            coalescer, clocks, history, TypeOK
<1>1. TypeOK'
  BY DEF Step, DispatchStep
<1>2. PendingIsSignalled'
  BY DEF PendingIsSignalled
<1>3. ASSUME TzAware PROVE NoLostChange'
  BY <1>3 DEF NoLostChange, OnItsWay, BeingDispatched, DispatchStep,
              DocIsCurrent, Deleted
<1>4. DocIsCurrent'
  BY DEF DocIsCurrent, OnItsWay, DispatchStep, Deleted, Changed
<1>5. BatchIsRested'
  BY DEF BatchIsRested, Rested, DispatchStep
<1> QED BY <1>1, <1>2, <1>3, <1>4, <1>5

LEMMA DispatchRaisesInv ==
    ASSUME Inv, DispatchRaises
    PROVE  Inv'
<1> USE DEF Inv, DispatchRaises, Return, Fault, database, watcher, queue,
            coalescer, clocks, history, TypeOK
<1>1. TypeOK'
  BY DEF Step, DispatchStep, HalfDone
<1>2. PendingIsSignalled'
  BY DEF PendingIsSignalled
<1>3. ASSUME TzAware PROVE NoLostChange'
  BY <1>3 DEF NoLostChange, OnItsWay, BeingDispatched, DispatchStep
<1>4. DocIsCurrent'
  BY DEF DocIsCurrent, OnItsWay, DispatchStep, Deleted, Changed
<1>5. BatchIsRested'
  BY DEF BatchIsRested, Rested, DispatchStep
<1> QED BY <1>1, <1>2, <1>3, <1>4, <1>5

LEMMA RestartInv ==
    ASSUME Inv, Restart
    PROVE  Inv'
<1> USE DEF Inv, Restart, Fault, database, watcher, queue, coalescer, clocks,
            history, TypeOK
<1>1. TypeOK'
  <2> DEFINE lost == {f \in Flight : OnItsWay(f) \/ BeingDispatched(f)}
  <2>1. lost \subseteq Flight
    OBVIOUS
  <2>2. missed' = missed \cup lost
    OBVIOUS
  <2> HIDE DEF lost
  <2>3. missed' \subseteq Flight
    BY <2>1, <2>2
  <2>4. step' \in Step
    BY DEF Step
  <2> HIDE DEF Restart
  <2>5. /\ slept' \in 0..Throttle /\ now_age' \in 0..Throttle
        /\ faults' \in 0..MaxFaults
    BY DEF Restart
  <2>6. stream' \in [Flight -> Nat]
    BY DEF Restart
  <2>7. torn' \subseteq Flight
    BY DEF Restart, HalfDone
  <2> QED BY <2>3, <2>4, <2>5, <2>6, <2>7 DEF Restart
<1>2. PendingIsSignalled'
  BY DEF PendingIsSignalled
<1>3. ASSUME TzAware PROVE NoLostChange'
  BY <1>3 DEF NoLostChange, OnItsWay, BeingDispatched, DispatchStep,
              DocIsCurrent
<1>4. DocIsCurrent'
  BY DEF DocIsCurrent, OnItsWay, DispatchStep, Deleted, Changed
<1>5. BatchIsRested'
  BY DEF BatchIsRested, Rested, DispatchStep
<1> QED BY <1>1, <1>2, <1>3, <1>4, <1>5

LEMMA ClockStepsBackInv ==
    ASSUME Inv, ClockStepsBack
    PROVE  Inv'
<1> USE DEF Inv, ClockStepsBack, Fault, database, watcher, queue, coalescer,
            clocks, history, TypeOK
<1>1. TypeOK'
  BY DEF Step, DispatchStep
<1>2. PendingIsSignalled'
  BY DEF PendingIsSignalled
<1>3. ASSUME TzAware PROVE NoLostChange'
  BY <1>3 DEF NoLostChange, OnItsWay, BeingDispatched, DispatchStep
<1>4. DocIsCurrent'
  BY DEF DocIsCurrent, OnItsWay, DispatchStep, Deleted, Changed
<1>5. BatchIsRested'
  BY DEF BatchIsRested, Rested, DispatchStep
<1> QED BY <1>1, <1>2, <1>3, <1>4, <1>5

LEMMA TickInv ==
    ASSUME Inv, Tick
    PROVE  Inv'
<1> USE DEF Inv, Tick, Older, database, watcher, queue, coalescer, clocks,
            history, TypeOK
<1>1. TypeOK'
  BY DEF Step, DispatchStep
<1>2. PendingIsSignalled'
  BY DEF PendingIsSignalled
<1>3. ASSUME TzAware PROVE NoLostChange'
  BY <1>3 DEF NoLostChange, OnItsWay, BeingDispatched, DispatchStep
<1>4. DocIsCurrent'
  BY DEF DocIsCurrent, OnItsWay, DispatchStep, Deleted, Changed
<1>5. BatchIsRested'
  BY DEF BatchIsRested, Rested, DispatchStep
<1> QED BY <1>1, <1>2, <1>3, <1>4, <1>5

LEMMA SubscriptionInv ==
    ASSUME Inv, NEW s \in Sub,
           \/ EnsureWebhookRow(s)
           \/ InsertSubscription(s)
           \/ RemoveSubscription(s)
    PROVE  Inv'
<1>1. /\ subs' \in [Sub -> SubStatus]
      /\ late' \subseteq Sub
      /\ UNCHANGED <<flight, last_payload, last_sent_at, watcher, queue,
                     coalescer, clocks, writes, faults, unread, missed, skewed,
                     fanned, torn, final>>
  BY DEF EnsureWebhookRow, InsertSubscription, RemoveSubscription, Inv, TypeOK,
         SubStatus, history
<1> QED BY <1>1
        DEF Inv, TypeOK, PendingIsSignalled, NoLostChange, DocIsCurrent,
        BatchIsRested, Rested, OnItsWay, BeingDispatched, Deleted, Changed,
        watcher, queue, coalescer, clocks

LEMMA StutterInv ==
    ASSUME Inv, UNCHANGED vars
    PROVE  Inv'
BY DEF vars, Inv, TypeOK, PendingIsSignalled, NoLostChange, DocIsCurrent,
       BatchIsRested, Rested, OnItsWay, BeingDispatched, Deleted, Changed,
       database, watcher, queue, coalescer, clocks, history

LEMMA InitInv == Init => Inv
<1> SUFFICES ASSUME Init PROVE Inv
  OBVIOUS
<1> USE DEF Init
<1>1. TypeOK
  <2>1. /\ flight \in [Flight -> Doc \cup {NoDoc}]
        /\ last_payload \in [Flight -> Content \cup {NoPayload}]
        /\ fanned \in [Flight -> Content \cup {NoPayload}]
        /\ last_sent_at \in [Flight -> BOOLEAN]
    OBVIOUS
  <2>2. subs \in [Sub -> SubStatus] /\ stream \in [Flight -> Nat]
    BY DEF SubStatus
  <2>3. /\ slept \in 0..Throttle /\ now_age \in 0..Throttle
        /\ sent_age \in [Flight -> 0..Throttle]
        /\ fan_age \in [Flight -> 0..Throttle]
        /\ writes \in 0..MaxWrites /\ faults \in 0..MaxFaults
    OBVIOUS
  <2> QED BY <2>1, <2>2, <2>3 DEF TypeOK, Step
<1>2. PendingIsSignalled
  BY DEF PendingIsSignalled
<1>3. NoLostChange
  BY DEF NoLostChange, NoDoc
<1>4. DocIsCurrent
  BY DEF DocIsCurrent, DispatchStep
<1>5. BatchIsRested
  BY DEF BatchIsRested, DispatchStep
<1> QED BY <1>1, <1>2, <1>3, <1>4, <1>5 DEF Inv

LEMMA NextInv == Inv /\ [Next]_vars => Inv'
<1> SUFFICES ASSUME Inv, [Next]_vars PROVE Inv'
  OBVIOUS
<1>1. ASSUME NEW f \in Flight, NEW d \in Doc, WriteFlight(f, d) PROVE Inv'
  BY <1>1, WriteFlightInv
<1>2. ASSUME NEW s \in Sub,
             \/ EnsureWebhookRow(s)
             \/ InsertSubscription(s)
             \/ RemoveSubscription(s)
      PROVE  Inv'
  BY <1>2, SubscriptionInv
<1>3. CASE WatchOpens
  BY <1>3, WatchOpensInv
<1>4. ASSUME NEW f \in Flight, NextChange(f) PROVE Inv'
  BY <1>4, NextChangeInv
<1>5. CASE Coalesce
  BY <1>5, WakeInv, TakeBatchInv, NextFlightInv, BatchDoneInv DEF Coalesce
<1>6. CASE Dispatch
  BY <1>6, ReadFlightInv, StartFinalInv, UnchangedInv, WithheldInv,
     StartSaveInv, SaveInv, SendInv, SendFinalInv, DropSubscriptionsInv,
     DropWebhookStateInv
     DEF Dispatch
<1>7. CASE DispatchRaises
  BY <1>7, DispatchRaisesInv
<1>8. CASE Restart
  BY <1>8, RestartInv
<1>9. CASE ClockStepsBack
  BY <1>9, ClockStepsBackInv
<1>10. CASE Tick
  BY <1>10, TickInv
<1>11. CASE UNCHANGED vars
  BY <1>11, StutterInv
<1> QED BY <1>1, <1>2, <1>3, <1>4, <1>5, <1>6, <1>7, <1>8, <1>9, <1>10, <1>11
        DEF Next

-----------------------------------------------------------------------------
(* Rows, fan-outs and dropped subscriptions.                               *)

\* What NoRepeatedSnapshot needs: what is about to be saved is a change.
SaveIsChange == step = "save" => Changed

RowInv ==
    /\ SavedIsSent
    /\ NoRepeatedSnapshot
    /\ SaveIsChange

\* A step that leaves these variables alone, or moves the dispatch between two
\* steps that say nothing of the row.
RowFrame ==
    /\ UNCHANGED <<last_payload, fanned>>
    /\ \/ UNCHANGED <<step, cur, doc, torn>>
       \/ /\ step \notin {"send", "drop", "forget"}
          /\ step' \notin {"save", "send"}
          /\ UNCHANGED torn

LEMMA RowFrameInv ==
    ASSUME RowInv, RowFrame
    PROVE  RowInv'
BY DEF RowInv, RowFrame, SavedIsSent, NoRepeatedSnapshot, SaveIsChange, Changed

LEMMA DispatchRowInv ==
    ASSUME Inv, RowInv, Dispatch
    PROVE  RowInv'
<1> USE DEF database, watcher, queue, coalescer, clocks, history
<1>1. CASE ReadFlight
  BY <1>1, RowFrameInv DEF ReadFlight, RowFrame
<1>2. CASE StartFinal
  BY <1>2, RowFrameInv DEF StartFinal, RowFrame
<1>3. CASE Unchanged
  BY <1>3, RowFrameInv DEF Unchanged, Return, RowFrame
<1>4. CASE Withheld
  BY <1>4, RowFrameInv DEF Withheld, Return, RowFrame
<1>5. CASE StartSave
  BY <1>5 DEF StartSave, RowInv, SavedIsSent, NoRepeatedSnapshot, SaveIsChange,
              Changed
<1>6. CASE SaveWebhookState
  BY <1>6 DEF SaveWebhookState, SaveRow, RowInv, SavedIsSent,
              NoRepeatedSnapshot, SaveIsChange, Changed, Inv, TypeOK
<1>7. CASE SendToSubscriptions
  BY <1>7 DEF SendToSubscriptions, FanOut, Return, RowInv, SavedIsSent,
              NoRepeatedSnapshot, SaveIsChange, Changed, Inv, TypeOK,
              DocIsCurrent, DispatchStep
<1>8. CASE SendFinal
  BY <1>8 DEF SendFinal, FanOut, RowInv, SavedIsSent, NoRepeatedSnapshot,
              SaveIsChange, Inv, TypeOK
<1>9. CASE DropSubscriptions
  BY <1>9 DEF DropSubscriptions, RowInv, SavedIsSent, NoRepeatedSnapshot,
              SaveIsChange
<1>10. CASE DropWebhookState
  BY <1>10 DEF DropWebhookState, Return, RowInv, SavedIsSent,
               NoRepeatedSnapshot, SaveIsChange, Inv, TypeOK
<1> QED BY <1>1, <1>2, <1>3, <1>4, <1>5, <1>6, <1>7, <1>8, <1>9, <1>10
        DEF Dispatch

LEMMA RowNextInv == Inv /\ RowInv /\ [Next]_vars => RowInv'
<1> SUFFICES ASSUME Inv, RowInv, [Next]_vars PROVE RowInv'
  OBVIOUS
<1> USE DEF database, watcher, queue, coalescer, clocks, history
<1>1. ASSUME NEW f \in Flight, NEW d \in Doc, WriteFlight(f, d) PROVE RowInv'
  BY <1>1, RowFrameInv DEF WriteFlight, RowFrame
<1>2. ASSUME NEW s \in Sub,
             \/ EnsureWebhookRow(s)
             \/ InsertSubscription(s)
             \/ RemoveSubscription(s)
      PROVE  RowInv'
  BY <1>2, RowFrameInv DEF EnsureWebhookRow, InsertSubscription,
     RemoveSubscription, RowFrame
<1>3. CASE WatchOpens
  BY <1>3, RowFrameInv DEF WatchOpens, RowFrame
<1>4. ASSUME NEW f \in Flight, NextChange(f) PROVE RowInv'
  BY <1>4, RowFrameInv DEF NextChange, RowFrame
<1>5. CASE Coalesce
  BY <1>5, RowFrameInv DEF Coalesce, Wake, TakeBatch, NextFlight, BatchDone,
     RowFrame
<1>6. CASE Dispatch
  BY <1>6, DispatchRowInv
<1>7. CASE DispatchRaises
  BY <1>7 DEF DispatchRaises, Return, HalfDone, RowInv, SavedIsSent,
              NoRepeatedSnapshot, SaveIsChange
<1>8. CASE Restart
  BY <1>8 DEF Restart, HalfDone, RowInv, SavedIsSent, NoRepeatedSnapshot,
              SaveIsChange
<1>9. CASE ClockStepsBack
  BY <1>9, RowFrameInv DEF ClockStepsBack, RowFrame
<1>10. CASE Tick
  BY <1>10, RowFrameInv DEF Tick, RowFrame
<1>11. CASE UNCHANGED vars
  BY <1>11, RowFrameInv DEF vars, RowFrame
<1> QED BY <1>1, <1>2, <1>3, <1>4, <1>5, <1>6, <1>7, <1>8, <1>9, <1>10, <1>11
        DEF Next

\* A step that touches neither subscriptions nor the place of the dispatch
\* between its final fan-out and the drop.
SubFrame ==
    /\ UNCHANGED <<subs, final, late>>
    /\ \/ UNCHANGED <<step, cur>>
       \/ step' # "drop"

LEMMA SubFrameInv ==
    ASSUME FinalBeforeDrop, SubFrame
    PROVE  FinalBeforeDrop'
BY DEF FinalBeforeDrop, SubFrame, Stored

LEMMA DispatchFinalInv ==
    ASSUME Inv, FinalBeforeDrop, Dispatch
    PROVE  FinalBeforeDrop'
<1> USE DEF database, watcher, queue, coalescer, clocks, history
<1>1. CASE ReadFlight
  BY <1>1, SubFrameInv DEF ReadFlight, SubFrame
<1>2. CASE StartFinal \/ Unchanged \/ Withheld \/ StartSave
  BY <1>2, SubFrameInv DEF StartFinal, Unchanged, Withheld, Return, StartSave,
     SubFrame
<1>3. CASE SaveWebhookState \/ SendToSubscriptions
  BY <1>3, SubFrameInv DEF SaveWebhookState, SaveRow, SendToSubscriptions,
     Return, SubFrame
<1>4. CASE SendFinal
  BY <1>4 DEF SendFinal, FinalBeforeDrop, Stored
<1>5. CASE DropSubscriptions
  BY <1>5 DEF DropSubscriptions, FinalBeforeDrop, Stored
<1>6. CASE DropWebhookState
  BY <1>6, SubFrameInv DEF DropWebhookState, Return, SubFrame
<1> QED BY <1>1, <1>2, <1>3, <1>4, <1>5, <1>6 DEF Dispatch

LEMMA FinalNextInv == Inv /\ FinalBeforeDrop /\ [Next]_vars => FinalBeforeDrop'
<1> SUFFICES ASSUME Inv, FinalBeforeDrop, [Next]_vars PROVE FinalBeforeDrop'
  OBVIOUS
<1> USE DEF database, watcher, queue, coalescer, clocks, history
<1>1. ASSUME NEW f \in Flight, NEW d \in Doc, WriteFlight(f, d)
      PROVE  FinalBeforeDrop'
  BY <1>1, SubFrameInv DEF WriteFlight, SubFrame
<1>2. ASSUME NEW s \in Sub, EnsureWebhookRow(s) PROVE FinalBeforeDrop'
  BY <1>2 DEF EnsureWebhookRow, FinalBeforeDrop, Stored, Inv, TypeOK
<1>3. ASSUME NEW s \in Sub, InsertSubscription(s) PROVE FinalBeforeDrop'
  BY <1>3 DEF InsertSubscription, FinalBeforeDrop, Stored, Inv, TypeOK
<1>4. ASSUME NEW s \in Sub, RemoveSubscription(s) PROVE FinalBeforeDrop'
  BY <1>4 DEF RemoveSubscription, FinalBeforeDrop, Stored, Inv, TypeOK
<1>5. CASE WatchOpens
  BY <1>5, SubFrameInv DEF WatchOpens, SubFrame
<1>6. ASSUME NEW f \in Flight, NextChange(f) PROVE FinalBeforeDrop'
  BY <1>6, SubFrameInv DEF NextChange, SubFrame
<1>7. CASE Coalesce
  BY <1>7, SubFrameInv DEF Coalesce, Wake, TakeBatch, NextFlight, BatchDone,
     SubFrame
<1>8. CASE Dispatch
  BY <1>8, DispatchFinalInv
<1>9. CASE DispatchRaises \/ Restart
  BY <1>9, SubFrameInv DEF DispatchRaises, Return, Restart, SubFrame
<1>10. CASE ClockStepsBack \/ Tick
  BY <1>10, SubFrameInv DEF ClockStepsBack, Tick, SubFrame
<1>11. CASE UNCHANGED vars
  BY <1>11, SubFrameInv DEF vars, SubFrame
<1> QED BY <1>1, <1>2, <1>3, <1>4, <1>5, <1>6, <1>7, <1>8, <1>9, <1>10, <1>11
        DEF Next

-----------------------------------------------------------------------------
(* The promise of Webhooks.                                                *)

\* A webhook that is being made follows the last one, and differs from it.
PreviousInv ==
    /\ step \in {"save", "send"} => doc.content # previous
    /\ step \in {"save", "send", "final"} /\ cur \notin torn => previous = fanned[cur]

LEMMA PreviousNext == Inv /\ RowInv /\ PreviousInv /\ [Next]_vars => PreviousInv'
<1> SUFFICES ASSUME Inv, RowInv, PreviousInv, [Next]_vars PROVE PreviousInv'
  OBVIOUS
<1> USE DEF PreviousInv, database, watcher, queue, coalescer, clocks, history
<1>1. ASSUME UNCHANGED <<coalescer, fanned, torn>> PROVE PreviousInv'
  BY <1>1
<1>2. CASE Coalesce
  BY <1>2 DEF Coalesce, Wake, TakeBatch, NextFlight, BatchDone
<1>3. CASE StartFinal \/ StartSave
  BY <1>3 DEF StartFinal, StartSave, ReadRow, Changed, RowInv, SavedIsSent, Inv, TypeOK
<1>4. CASE Dispatch /\ ~StartFinal /\ ~StartSave
  BY <1>4 DEF Dispatch, ReadFlight, Unchanged, Withheld, SaveWebhookState, SaveRow,
     SendToSubscriptions, SendFinal, DropSubscriptions, DropWebhookState, Return
<1>5. CASE DispatchRaises \/ Restart
  BY <1>5 DEF DispatchRaises, Restart, Return
<1> QED
  BY <1>1, <1>2, <1>3, <1>4, <1>5 DEF Next, Dispatch, WriteFlight, EnsureWebhookRow,
     InsertSubscription, RemoveSubscription, WatchOpens, NextChange,
     ClockStepsBack, Tick, vars

\* What the steps of Webhooks find: all that is known of a reachable state.
PromiseInv == Inv /\ RowInv /\ FinalBeforeDrop /\ PreviousInv

\* The subscribers are the stored subscriptions.
LEMMA SubscribersAreStored ==
    ASSUME TypeOK, NEW f \in Flight
    PROVE  Webhooks!Subscribers(f) = Stored(f)
BY DEF Webhooks!Subscribers, Stored, Subscription, TypeOK, SubStatus

\* What is being made of a flight depends on its own dispatch only, and on the
\* row as long as it may be read.
LEMMA SameDispatch ==
    ASSUME UNCHANGED <<cur, step, doc, previous>>, step = "row" => UNCHANGED last_payload
    PROVE  UNCHANGED <<Taken, Ending>>
BY DEF Taken, Ending

\* Between dispatches nothing is being made.
LEMMA NothingTaken ==
    /\ step \notin {"row", "save", "send", "final"} =>
           Taken = [f \in Flight |-> Webhooks!Nothing]
    /\ step \notin {"drop", "forget"} => Ending = [f \in Flight |-> "no"]
BY DEF Taken, Ending, Webhooks!Nothing, Webhooks!NoDoc, Webhooks!None, NoDoc, NoPayload

LEMMA NothingTakenNext ==
    /\ step' \notin {"row", "save", "send", "final"} =>
           Taken' = [f \in Flight |-> Webhooks!Nothing]
    /\ step' \notin {"drop", "forget"} => Ending' = [f \in Flight |-> "no"]
BY DEF Taken, Ending, Webhooks!Nothing, Webhooks!NoDoc, Webhooks!None, NoDoc, NoPayload

\* A step is none of Webhooks if it leaves these alone.
LEMMA NoStep ==
    ASSUME UNCHANGED <<flight, fanned, torn, final, late, fan_age, Taken, Ending,
                       Subscription>>
    PROVE  UNCHANGED Webhooks!vars
BY DEF Webhooks!vars

\* The feeds, the subscribers and time.
LEMMA PromiseOfEnvironment ==
    ASSUME PromiseInv,
           \/ \E f \in Flight, d \in Doc : WriteFlight(f, d)
           \/ \E s \in Sub : \/ EnsureWebhookRow(s)
                             \/ InsertSubscription(s)
                             \/ RemoveSubscription(s)
           \/ ClockStepsBack
           \/ Tick
    PROVE  [Webhooks!Next]_(Webhooks!vars)
<1> USE DEF PromiseInv, Inv, TypeOK, coalescer, clocks, history, database, watcher, queue
<1>1. ASSUME NEW f \in Flight, NEW d \in Doc, WriteFlight(f, d) PROVE Webhooks!Next
  <2>1. UNCHANGED <<Taken, Ending>>
    BY <1>1, SameDispatch DEF WriteFlight
  <2>2. UNCHANGED Subscription
    BY <1>1 DEF WriteFlight, Subscription
  <2>3. Webhooks!Change(f, d)
    BY <1>1, <2>1, <2>2 DEF WriteFlight, Webhooks!Change
  <2> QED BY <2>3 DEF Webhooks!Next, Webhooks!Doc, Doc
<1>2. ASSUME NEW s \in Sub, EnsureWebhookRow(s) PROVE UNCHANGED Webhooks!vars
  <2>1. UNCHANGED <<Taken, Ending>>
    BY <1>2, SameDispatch DEF EnsureWebhookRow
  <2>2. UNCHANGED Subscription
    BY <1>2 DEF EnsureWebhookRow, Subscription
  <2> QED BY <1>2, <2>1, <2>2, NoStep DEF EnsureWebhookRow
<1>3. ASSUME NEW s \in Sub, InsertSubscription(s) PROVE Webhooks!Next
  <2>1. UNCHANGED <<Taken, Ending>>
    BY <1>3, SameDispatch DEF InsertSubscription
  <2>2. Subscription[s] = "new" /\ Subscription' = [Subscription EXCEPT ![s] = "there"]
    BY <1>3 DEF InsertSubscription, Subscription
  <2>3. Ending[FlightOf[s]] = "told" <=> step = "drop" /\ FlightOf[s] = cur
    BY DEF Ending
  <2>4. Webhooks!Subscribe(s)
    BY <1>3, <2>1, <2>2, <2>3 DEF InsertSubscription, Webhooks!Subscribe
  <2> QED BY <2>4 DEF Webhooks!Next
<1>4. ASSUME NEW s \in Sub, RemoveSubscription(s) PROVE Webhooks!Next
  <2>1. UNCHANGED <<Taken, Ending>>
    BY <1>4, SameDispatch DEF RemoveSubscription
  <2>2. Subscription[s] = "there" /\ Subscription' = [Subscription EXCEPT ![s] = "gone"]
    BY <1>4 DEF RemoveSubscription, Subscription
  <2>3. Webhooks!Unsubscribe(s)
    BY <1>4, <2>1, <2>2 DEF RemoveSubscription, Webhooks!Unsubscribe
  <2> QED BY <2>3 DEF Webhooks!Next
<1>5. CASE ClockStepsBack
  <2>1. UNCHANGED <<Taken, Ending>>
    BY <1>5, SameDispatch DEF ClockStepsBack
  <2>2. UNCHANGED Subscription
    BY <1>5 DEF ClockStepsBack, Subscription
  <2>3. UNCHANGED Webhooks!vars
    BY <1>5, <2>1, <2>2, NoStep DEF ClockStepsBack
  <2> QED BY <2>3
<1>6. CASE Tick
  <2>1. UNCHANGED <<Taken, Ending>>
    BY <1>6, SameDispatch DEF Tick
  <2>2. UNCHANGED Subscription
    BY <1>6 DEF Tick, Subscription
  <2>3. Webhooks!Pass
    BY <1>6, <2>1, <2>2 DEF Tick, Older, Webhooks!Pass
  <2> QED BY <2>3 DEF Webhooks!Next
<1> QED BY <1>1, <1>2, <1>3, <1>4, <1>5, <1>6

\* The queue and the coalescer, up to the read of a document.
LEMMA PromiseOfQueue ==
    ASSUME PromiseInv, WatchOpens \/ (\E f \in Flight : NextChange(f)) \/ Coalesce
    PROVE  UNCHANGED Webhooks!vars
<1> USE DEF coalescer, clocks, history, database, watcher, queue
<1>1. CASE WatchOpens \/ \E f \in Flight : NextChange(f)
  <2>1. UNCHANGED <<Taken, Ending>>
    BY <1>1, SameDispatch DEF WatchOpens, NextChange
  <2>2. UNCHANGED Subscription
    BY <1>1 DEF WatchOpens, NextChange, Subscription
  <2> QED BY <1>1, <2>1, <2>2, NoStep DEF WatchOpens, NextChange
<1>2. CASE Coalesce
  <2>1. UNCHANGED Subscription
    BY <1>2 DEF Coalesce, Wake, TakeBatch, NextFlight, BatchDone, Subscription
  <2>2. UNCHANGED <<Taken, Ending>>
    <3>1. /\ step \in {"idle", "sleep", "next"}
          /\ step' \in {"idle", "sleep", "next", "read"}
      BY <1>2 DEF Coalesce, Wake, TakeBatch, NextFlight, BatchDone
    <3> QED BY <3>1, NothingTaken, NothingTakenNext
  <2>3. UNCHANGED <<flight, fanned, torn, final, late, fan_age>>
    BY <1>2 DEF Coalesce, Wake, TakeBatch, NextFlight, BatchDone
  <2> QED BY <2>1, <2>2, <2>3, NoStep
<1> QED BY <1>1, <1>2

\* A function that differs at the flight in hand only.
LEMMA AtCur ==
    ASSUME TypeOK, UNCHANGED cur
    PROVE  /\ Taken' = [Taken EXCEPT ![cur] = Taken'[cur]]
           /\ Ending' = [Ending EXCEPT ![cur] = Ending'[cur]]
<1>1. \A f \in Flight : f # cur => Taken'[f] = Taken[f] /\ Ending'[f] = Ending[f]
  BY DEF Taken, Ending
<1>2. Taken = [f \in Flight |-> Taken[f]] /\ Taken' = [f \in Flight |-> Taken'[f]]
  BY DEF Taken
<1>3. Ending = [f \in Flight |-> Ending[f]] /\ Ending' = [f \in Flight |-> Ending'[f]]
  BY DEF Ending
<1> HIDE DEF Taken, Ending
<1> QED BY <1>1, <1>2, <1>3

\* What is known of the flight in hand.
LEMMA TakenNow ==
    ASSUME TypeOK
    PROVE  /\ step = "row" =>
                  Taken[cur] = [document |-> doc, previous |-> last_payload[cur]]
           /\ step \in {"save", "send", "final"} =>
                  Taken[cur] = [document |-> doc, previous |-> previous]
           /\ step \notin {"row", "save", "send", "final"} =>
                  Taken[cur] = Webhooks!Nothing
           /\ step \notin {"drop", "forget"} => Ending[cur] = "no"
           /\ step = "drop" => Ending[cur] = "told"
           /\ step = "forget" => Ending[cur] = "removed"
BY DEF Taken, Ending, TypeOK, Webhooks!Nothing, Webhooks!NoDoc, Webhooks!None, NoDoc,
       NoPayload

LEMMA TakenNext ==
    ASSUME TypeOK'
    PROVE  /\ step' = "row" =>
                  Taken'[cur'] = [document |-> doc', previous |-> last_payload'[cur']]
           /\ step' \in {"save", "send", "final"} =>
                  Taken'[cur'] = [document |-> doc', previous |-> previous']
           /\ step' \notin {"row", "save", "send", "final"} =>
                  Taken'[cur'] = Webhooks!Nothing
           /\ step' \notin {"drop", "forget"} => Ending'[cur'] = "no"
           /\ step' = "drop" => Ending'[cur'] = "told"
           /\ step' = "forget" => Ending'[cur'] = "removed"
BY DEF Taken, Ending, TypeOK, Webhooks!Nothing, Webhooks!NoDoc, Webhooks!None, NoDoc,
       NoPayload

\* A dispatch that ends with a webhook in the making gives it up.
LEMMA GivenUp ==
    ASSUME PromiseInv, TypeOK', UNCHANGED <<cur, flight, fanned, torn, final, late,
                                           fan_age, Subscription>>,
           step \in {"row", "save", "final"}, step' \in {"idle", "next"}
    PROVE  Webhooks!Next
<1>1. TypeOK /\ cur \in Flight
  BY DEF PromiseInv, Inv, TypeOK
<1>2. doc # Webhooks!NoDoc
  BY DEF PromiseInv, Inv, DocIsCurrent, DispatchStep, Doc, Webhooks!NoDoc
<1>3. Taken[cur] # Webhooks!Nothing
  <2>1. Taken[cur].document = doc
    BY <1>1, TakenNow
  <2> QED BY <1>2, <2>1 DEF Webhooks!Nothing
<1>4. UNCHANGED Ending
  BY NothingTaken, NothingTakenNext
<1>5. Taken'[cur] = Webhooks!Nothing
  BY TakenNext
<1>6. Webhooks!GiveUp(cur)
  BY <1>1, <1>3, <1>4, <1>5, AtCur DEF Webhooks!GiveUp
<1> QED BY <1>1, <1>6 DEF Webhooks!Next

\* The dispatch, call by call.
LEMMA PromiseOfDispatch ==
    ASSUME PromiseInv, TypeOK', Dispatch
    PROVE  [Webhooks!Next]_(Webhooks!vars)
<1> cur \in Flight /\ cur' = cur
  BY DEF PromiseInv, Inv, TypeOK, Dispatch, ReadFlight, StartFinal, Unchanged, Withheld,
     StartSave, SaveWebhookState, SaveRow, SendToSubscriptions, SendFinal,
     DropSubscriptions, DropWebhookState
<1> TypeOK
  BY DEF PromiseInv, Inv
<1> USE DEF coalescer, clocks, history, database, watcher, queue
<1>1. CASE ReadFlight
  <2>1. UNCHANGED <<flight, fanned, torn, final, late, fan_age, subs, Subscription>>
    BY <1>1 DEF ReadFlight, Subscription
  <2>2. CASE flight[cur] = NoDoc
    <3>1. step = "read" /\ step' = "next"
      BY <1>1, <2>2 DEF ReadFlight
    <3> QED BY <2>1, <3>1, NothingTaken, NothingTakenNext, NoStep
  <2>3. CASE flight[cur] # NoDoc
    <3>1. /\ step = "read" /\ step' = "row" /\ doc' = flight[cur]
          /\ UNCHANGED last_payload
      BY <1>1, <2>3 DEF ReadFlight
    <3>2. /\ Taken[cur] = Webhooks!Nothing /\ Ending[cur] = "no" /\ Ending'[cur] = "no"
          /\ Taken'[cur] = [document |-> flight[cur], previous |-> last_payload[cur]]
      BY <3>1, TakenNow, TakenNext
    <3>3. last_payload[cur] = fanned[cur] \/ cur \in torn
      BY <3>1 DEF PromiseInv, RowInv, SavedIsSent
    <3>4. UNCHANGED Ending
      BY <3>1, NothingTaken, NothingTakenNext
    <3>5. Taken' = [Taken EXCEPT ![cur] =
                       [document |-> flight[cur], previous |-> last_payload[cur]]]
      BY <3>2, AtCur
    <3>6. flight[cur] # Webhooks!NoDoc
      BY <2>3 DEF Webhooks!NoDoc, Webhooks!None, NoDoc, NoPayload
    <3>7. Webhooks!Take(cur, last_payload[cur])
      BY <2>1, <3>2, <3>3, <3>4, <3>5, <3>6 DEF Webhooks!Take
    <3>8. last_payload[cur] \in Content \cup {Webhooks!None}
      BY DEF TypeOK, Webhooks!None, NoPayload
    <3> QED BY <3>7, <3>8 DEF Webhooks!Next
  <2> QED BY <2>2, <2>3
<1>2. CASE StartFinal \/ StartSave
  <2>1. UNCHANGED <<flight, fanned, torn, final, late, fan_age, Subscription>>
    BY <1>2 DEF StartFinal, StartSave, Subscription
  <2>2. /\ step = "row" /\ step' \in {"save", "final"}
        /\ doc' = doc /\ previous' = last_payload[cur]
    BY <1>2 DEF StartFinal, StartSave, ReadRow
  <2>3. UNCHANGED Ending
    BY <2>2, NothingTaken, NothingTakenNext
  <2>4. UNCHANGED Taken
    BY <2>2 DEF Taken
  <2> QED BY <2>1, <2>3, <2>4, NoStep
<1>3. CASE Unchanged \/ Withheld
  <2>1. UNCHANGED <<flight, fanned, torn, final, late, fan_age, Subscription>>
    BY <1>3 DEF Unchanged, Withheld, Return, Subscription
  <2>2. step = "row" /\ step' = "next"
    BY <1>3 DEF Unchanged, Withheld, Return
  <2> QED BY <2>1, <2>2, GivenUp
<1>4. CASE SaveWebhookState
  <2>1. UNCHANGED <<flight, fanned, torn, final, late, fan_age, Subscription>>
    BY <1>4 DEF SaveWebhookState, SaveRow, Subscription
  <2>2. step = "save" /\ step' = "send" /\ UNCHANGED <<doc, previous>>
    BY <1>4 DEF SaveWebhookState, SaveRow
  <2>3. UNCHANGED <<Taken, Ending>>
    BY <2>2 DEF Taken, Ending
  <2> QED BY <2>1, <2>3, NoStep
<1>5. CASE SendToSubscriptions
  <2>1. UNCHANGED <<flight, final, late, Subscription>>
    BY <1>5 DEF SendToSubscriptions, Subscription
  <2>2. step = "send" /\ step' = "next"
    BY <1>5 DEF SendToSubscriptions, Return
  <2>3. /\ Taken[cur].document = doc /\ Taken[cur].previous = previous
        /\ Taken'[cur] = Webhooks!Nothing
    BY <2>2, TakenNow, TakenNext
  <2>4. UNCHANGED Ending
    BY <2>2, NothingTaken, NothingTakenNext
  <2>5. doc.status = "active" /\ doc.content # previous /\ fan_age[cur] = Throttle
    BY <2>2 DEF PromiseInv, Inv, DocIsCurrent, DispatchStep, Doc, Deleted,
       PreviousInv, BatchIsRested
  <2>6. Webhooks!Post(cur)
    BY <1>5, <2>3, <2>5, AtCur, SubscribersAreStored
    DEF SendToSubscriptions, FanOut, Webhooks!Post
  <2>7. Webhooks!Send(cur)
    BY <2>1, <2>3, <2>4, <2>5, <2>6, <1>5 DEF SendToSubscriptions, Webhooks!Send
  <2> QED BY <2>7 DEF Webhooks!Next
<1>6. CASE SendFinal
  <2>1. UNCHANGED <<flight, late, Subscription>> /\ final' = final \cup Stored(cur)
    BY <1>6 DEF SendFinal, Subscription
  <2>2. step = "final" /\ step' = "drop"
    BY <1>6 DEF SendFinal
  <2>3. /\ Taken[cur].document = doc
        /\ Taken'[cur] = Webhooks!Nothing /\ Ending'[cur] = "told"
    BY <2>2, TakenNow, TakenNext
  <2>4. doc.status = "deleted" /\ fan_age[cur] = Throttle
    BY <2>2 DEF PromiseInv, Inv, DocIsCurrent, Deleted, BatchIsRested
  <2>5. Webhooks!Post(cur)
    BY <1>6, <2>3, <2>4, AtCur, SubscribersAreStored DEF SendFinal, FanOut, Webhooks!Post
  <2>6. Webhooks!SendFinal(cur)
    BY <2>1, <2>3, <2>4, <2>5, AtCur, SubscribersAreStored DEF Webhooks!SendFinal
  <2> QED BY <2>6 DEF Webhooks!Next
<1>7. CASE DropSubscriptions
  <2>1. UNCHANGED <<flight, fanned, torn, final, late, fan_age>>
    BY <1>7 DEF DropSubscriptions
  <2>2. step = "drop" /\ step' = "forget"
    BY <1>7 DEF DropSubscriptions
  <2>3. UNCHANGED Taken
    BY <2>2, NothingTaken, NothingTakenNext
  <2>4. Ending[cur] = "told" /\ Ending'[cur] = "removed"
    BY <2>2, TakenNow, TakenNext
  <2>5. Stored(cur) \subseteq final \cup late
    BY <2>2 DEF PromiseInv, FinalBeforeDrop
  <2>6. Subscription' = [s \in Sub |-> IF s \in Stored(cur) THEN "gone" ELSE Subscription[s]]
    BY <1>7 DEF DropSubscriptions, Subscription, Stored, TypeOK, SubStatus
  <2>7. Webhooks!Remove(cur)
    BY <2>1, <2>3, <2>4, <2>5, <2>6, AtCur, SubscribersAreStored DEF Webhooks!Remove
  <2> QED BY <2>7 DEF Webhooks!Next
<1>8. CASE DropWebhookState
  <2>1. UNCHANGED <<flight, torn, final, late, fan_age, Subscription>>
    BY <1>8 DEF DropWebhookState, Return, Subscription
  <2>2. step = "forget" /\ step' = "next" /\ fanned' = [fanned EXCEPT ![cur] = NoPayload]
    BY <1>8 DEF DropWebhookState, Return
  <2>3. UNCHANGED Taken
    BY <2>2, NothingTaken, NothingTakenNext
  <2>4. Ending[cur] = "removed" /\ Ending'[cur] = "no"
    BY <2>2, TakenNow, TakenNext
  <2>5. Webhooks!Forget(cur)
    BY <2>1, <2>2, <2>3, <2>4, AtCur DEF Webhooks!Forget, Webhooks!None, NoPayload
  <2> QED BY <2>5 DEF Webhooks!Next
<1> QED BY <1>1, <1>2, <1>3, <1>4, <1>5, <1>6, <1>7, <1>8 DEF Dispatch

\* An exception, and the end of the process: of the flight in hand a webhook
\* is given up, or one that the row knows of already is swallowed.
LEMMA PromiseOfFaults ==
    ASSUME PromiseInv, TypeOK', DispatchRaises \/ Restart
    PROVE  [Webhooks!Next]_(Webhooks!vars)
<1> TypeOK
  BY DEF PromiseInv, Inv
<1> USE DEF coalescer, clocks, history, database, watcher, queue
<1>1. /\ UNCHANGED <<flight, fanned, final, late, fan_age, cur, Subscription>>
      /\ torn' = torn \cup HalfDone /\ step' \in {"idle", "next"}
  BY DEF DispatchRaises, Restart, Return, Subscription
<1> cur \in Flight /\ cur' = cur
  BY <1>1 DEF TypeOK
<1>2. CASE step \in {"row", "save", "final"}
  BY <1>1, <1>2, GivenUp DEF HalfDone
<1>3. CASE step \in {"send", "drop", "forget"}
  <2>1. torn' = torn \cup {cur}
    BY <1>1, <1>3 DEF HalfDone
  <2>2. Taken[cur].document.status = "active" \/ Ending[cur] # "no"
    BY <1>3, TakenNow DEF PromiseInv, Inv, DocIsCurrent, DispatchStep, Doc, Deleted
  <2>3. Taken'[cur] = Webhooks!Nothing /\ Ending'[cur] = "no"
    BY <1>1, TakenNext
  <2>4. Webhooks!Swallow(cur)
    BY <1>1, <2>1, <2>2, <2>3, AtCur DEF Webhooks!Swallow
  <2> QED BY <2>4 DEF Webhooks!Next
<1>4. CASE step \notin {"row", "save", "final", "send", "drop", "forget"}
  <2>1. UNCHANGED <<Taken, Ending, torn>>
    BY <1>1, <1>4, NothingTaken, NothingTakenNext DEF HalfDone
  <2> QED BY <1>1, <2>1, NoStep
<1> QED BY <1>2, <1>3, <1>4

LEMMA PromiseStep ==
    ASSUME PromiseInv, TypeOK', [Next]_vars
    PROVE  [Webhooks!Next]_(Webhooks!vars)
<1>1. CASE UNCHANGED vars
  <2>1. UNCHANGED <<Taken, Ending, Subscription>>
    BY <1>1, SameDispatch DEF vars, coalescer, database, Subscription
  <2> QED BY <1>1, <2>1, NoStep DEF vars, database, clocks, history
<1> QED
  BY <1>1, PromiseOfEnvironment, PromiseOfQueue, PromiseOfDispatch, PromiseOfFaults
  DEF Next

LEMMA PromiseInit == Init => Webhooks!Init
<1> SUFFICES ASSUME Init PROVE Webhooks!Init
  OBVIOUS
<1>1. Taken = [f \in Flight |-> Webhooks!Nothing] /\ Ending = [f \in Flight |-> "no"]
  BY NothingTaken DEF Init
<1>2. Subscription = [s \in Sub |-> "new"]
  BY DEF Init, Subscription
<1> QED
  BY <1>1, <1>2 DEF Init, Webhooks!Init, Webhooks!NoDoc, Webhooks!None, NoDoc, NoPayload

-----------------------------------------------------------------------------
(* The theorems.                                                           *)

\* The inductive invariant of the path from a change to its fan-out.
THEOREM DispatcherInductive == Spec => []Inv
<1> QED BY InitInv, NextInv, PTL DEF Spec

\* Every variable keeps its type.
THEOREM DispatcherTypes == Spec => []TypeOK
<1>1. Inv => TypeOK
  BY DEF Inv
<1> QED BY <1>1, DispatcherInductive, PTL

\* _pending_event is set exactly while _pending is not empty.
THEOREM NoLostWakeup == Spec => []PendingIsSignalled
<1>1. Inv => PendingIsSignalled
  BY DEF Inv
<1> QED BY <1>1, DispatcherInductive, PTL

\* While a dispatch runs, its document is the newest or a newer one is on its
\* way, and the flights that wait have rested for the throttle time.
THEOREM DispatchWorksOnCurrent == Spec => []CoalescerInv
<1>1. Inv => CoalescerInv
  BY DEF Inv, CoalescerInv
<1> QED BY <1>1, DispatcherInductive, PTL

\* Two fan-outs of one flight are at least the throttle time apart, whatever
\* the driver's dates, the faults and the wall clock do.
THEOREM ThrottleIsKept == Spec => []ThrottleHolds
<1>1. Inv => ThrottleHolds
  BY DEF Inv, BatchIsRested, Rested, ThrottleHolds, TypeOK
<1> QED BY <1>1, DispatcherInductive, PTL

\* With dates that carry a time zone, a change is never lost between the
\* database and the saved snapshot except to a fault.
THEOREM ChangesAreKept == ASSUME TzAware PROVE Spec => []NoLostChange
<1>1. Inv => NoLostChange
  BY DEF Inv
<1> QED BY <1>1, DispatcherInductive, PTL

\* The row and the fan-outs of a flight agree, a dispatch that died between
\* the two excepted.
THEOREM SavedSnapshotsAreSent == Spec => []SavedIsSent
<1>1. Init => RowInv
  BY DEF Init, RowInv, SavedIsSent, NoRepeatedSnapshot, SaveIsChange
<1>2. RowInv => SavedIsSent
  BY DEF RowInv
<1> QED BY <1>1, <1>2, RowNextInv, DispatcherInductive, PTL DEF Spec

\* No fan-out repeats the one before it.
THEOREM SnapshotsAreNew == Spec => []NoRepeatedSnapshot
<1>1. Init => RowInv
  BY DEF Init, RowInv, SavedIsSent, NoRepeatedSnapshot, SaveIsChange
<1>2. RowInv => NoRepeatedSnapshot
  BY DEF RowInv
<1> QED BY <1>1, <1>2, RowNextInv, DispatcherInductive, PTL DEF Spec

\* A dispatch drops no subscription that it found and did not send a final
\* snapshot to.
THEOREM DroppedAfterFinal == Spec => []FinalBeforeDrop
<1>1. Init => FinalBeforeDrop
  BY DEF Init, FinalBeforeDrop
<1> QED BY <1>1, FinalNextInv, DispatcherInductive, PTL DEF Spec

\* All that the steps of Webhooks need to know.
LEMMA PromiseInductive == Spec => []PromiseInv
<1>1. Init => RowInv /\ FinalBeforeDrop /\ PreviousInv
  BY DEF Init, RowInv, SavedIsSent, NoRepeatedSnapshot, SaveIsChange, FinalBeforeDrop,
     PreviousInv
<1>2. Init => PromiseInv
  BY <1>1, InitInv DEF PromiseInv
<1>3. PromiseInv /\ [Next]_vars => PromiseInv'
  BY NextInv, RowNextInv, FinalNextInv, PreviousNext DEF PromiseInv
<1> QED BY <1>2, <1>3, PTL DEF Spec

\* The previous_flight of a webhook is the flight of the one before, for any
\* number of changes, dispatches that fail, restarts and legs between them.
THEOREM WebhooksAreChained == Spec => []PreviousIsLastSent
<1>1. PromiseInv => PreviousIsLastSent
  BY DEF PromiseInv, PreviousInv, PreviousIsLastSent
<1> QED BY <1>1, PromiseInductive, PTL

\* The dispatcher, with its one coalescer, its rows, its faults and whatever
\* comes between its calls, implements what Webhooks promises of each flight.
THEOREM KeepsThePromise == Spec => ImplementsWebhooks
<1>1. PromiseInv /\ PromiseInv' /\ [Next]_vars => [Webhooks!Next]_(Webhooks!vars)
  BY PromiseStep DEF PromiseInv, Inv
<1> QED
  BY <1>1, PromiseInit, PromiseInductive, PTL DEF Spec, ImplementsWebhooks, Webhooks!Spec

=============================================================================

---------------------------- MODULE BloopProofs -----------------------------
(***************************************************************************)
(* Proofs about Bloop, for any number of tasks, callers, timers and        *)
(* events: no event and no wake-up is lost.                                *)
(***************************************************************************)
EXTENDS Bloop, TLAPS, SequenceTheorems, WellFoundedInduction

(* The types the argument needs. *)
Types ==
  /\ evt_type_map_async \in [Task -> SUBSET Bit]
  /\ evt_type_map_sync \in [Task -> SUBSET Bit]
  /\ owed \subseteq Event
  /\ caller \in [Caller -> [step : {"idle", "set", "notify"}, evt : Event]]
  /\ timer_dlist \in Seq(LedTimer) /\ timer_dued \in Seq(LedTimer)
  /\ waiting_queue \in Seq(LedTimer)
  /\ time_added \in [LedTimer -> Int] /\ time_target \in [LedTimer -> Int] /\ now \in Int

(* Where an owed event is: still in the asynchronous map of its task, and  *)
(* the task is marked, but not merely by the mark the running handler is   *)
(* about to take away.                                                     *)
Pending(e) ==
  /\ e[2] \in evt_type_map_async[e[1]]
  /\ \/ e[1] \in bitmap_evt_async
     \/ e[1] \in bitmap_evt_sync /\ ~(pc = "handler" /\ e[1] = highest_evt)

OwedPending == \A e \in owed : Pending(e)

(* Between the halves of bloop_evt_set_sync nobody changes the map of the  *)
(* LED's task.                                                             *)
StoreSafe ==
  pc = "store" => /\ Led \in bitmap_evt_sync /\ old_map = evt_type_map_async[Led]
                  /\ timer_dlist # <<>>

(* On its way to sleep the looper has no marked task it knows of, and a    *)
(* notification or a caller about to give one for those it does not.       *)
Resting ==
  /\ pc \in {"idle", "sleep"} =>
       /\ bitmap_evt_sync = {}
       /\ bitmap_evt_async # {} /\ ~notified => \E c \in Caller : caller[c].step = "notify"
  /\ pc = "sleep" =>
       IF timer_dlist = <<>> THEN wake = Never ELSE wake = time_target[Head(timer_dlist)]

Inv == Types /\ OwedPending /\ StoreSafe /\ TriggerAnnounced /\ Resting

-----------------------------------------------------------------------------
(* A nonempty set of naturals has a least element. *)
LEMMA MinIn == ASSUME NEW S \in SUBSET Nat, S # {} PROVE Min(S) \in S
<1>1. PICK x \in S : \A y \in S : ~(<<y, x>> \in OpToRel(<, Nat))
  BY NatLessThanWellFounded, WFMin
<1>2. ASSUME NEW y \in S PROVE x =< y
  <2>1. y < x => <<y, x>> \in OpToRel(<, Nat)
    BY DEF OpToRel
  <2>2. ~(y < x)
    BY <1>1, <2>1, Zenon
  <2> QED
    BY <2>2
<1> QED
  BY <1>2 DEF Min

(* The differences of clock readings are integers. *)
LEMMA DiffInt == ASSUME NEW a \in Int, NEW b \in Int PROVE Diff(a, b) \in Int
  BY ConstantsAssumption DEF Diff

(* Registering a timer gives a list of timers again. *)
LEMMA RegisteredSeq ==
  ASSUME NEW list \in Seq(LedTimer), NEW m \in LedTimer, NEW tt
  PROVE  Registered(list, m, tt) \in Seq(LedTimer)
<1> DEFINE later == {k \in 1 .. Len(list) : Diff(tt[m], tt[list[k]]) <= 0}
           k == IF later = {} THEN Len(list) + 1 ELSE Min(later)
           a == SubSeq(list, 1, k - 1)
           b == SubSeq(list, k, Len(list))
<1>1. Len(list) \in Nat /\ \A i \in 1 .. Len(list) : list[i] \in LedTimer
  BY ElementOfSeq, LenProperties
<1>2. k \in 1 .. Len(list) + 1
  <2>1. later \in SUBSET Nat /\ later \subseteq 1 .. Len(list)
    BY <1>1
  <2>2. CASE later = {}
    BY <1>1, <2>2
  <2>3. CASE later # {}
    <3>1. Min(later) \in later
      BY <2>1, <2>3, MinIn
    <3>2. k = Min(later)
      BY <2>3
    <3>3. Min(later) \in 1 .. Len(list)
      BY <2>1, <3>1, Zenon
    <3> HIDE DEF later, k
    <3> QED
      BY <1>1, <3>2, <3>3
  <2> QED
    BY <2>2, <2>3
<1> HIDE DEF k, later
<1>3. a \in Seq(LedTimer)
  BY <1>1, <1>2, SubSeqProperties
<1>4. b \in Seq(LedTimer)
  BY <1>1, <1>2, SubSeqProperties
<1>5. Registered(list, m, tt) = a \o <<m>> \o b
  BY DEF Registered, later, k
<1> HIDE DEF a, b
<1>6. <<m>> \in Seq(LedTimer)
  OBVIOUS
<1>7. a \o <<m>> \in Seq(LedTimer)
  BY <1>3, <1>6, ConcatProperties
<1> QED
  BY <1>4, <1>5, <1>7, ConcatProperties

(* The LED's events are events. *)
LEMMA LedEvents == Trigger \in Event /\ Waiting \in Event
  BY ConstantsAssumption DEF Trigger, Waiting, Event

(* Every step keeps the types. *)
LEMMA TypesStep == Inv /\ [Next]_vars => Types'
<1> SUFFICES ASSUME Inv, [Next]_vars PROVE Types'
  OBVIOUS
<1> USE ConstantsAssumption
<1>1. CASE tick
  BY <1>1 DEF tick, Inv, Types, evtVars, timerVars, callVars
<1>2. ASSUME NEW c \in Caller, NEW m \in LedTimer, loopset_led_trigger(c, m)
      PROVE  Types'
  <2>1. caller' \in [Caller -> [step : {"idle", "set", "notify"}, evt : Event]]
    BY <1>2, LedEvents DEF loopset_led_trigger, Inv, Types
  <2>2. waiting_queue' \in Seq(LedTimer)
    <3>1. <<m>> \in Seq(LedTimer)
      OBVIOUS
    <3> QED
      BY <1>2, <3>1, ConcatProperties DEF loopset_led_trigger, Inv, Types
  <2>3. time_added' \in [LedTimer -> Int] /\ time_target' \in [LedTimer -> Int]
    <3>1. Period[m] \in Int /\ (now + Period[m]) % ClockMod \in Int
      BY DEF Inv, Types
    <3> QED
      BY <1>2, <3>1 DEF loopset_led_trigger, bloop_timer_configure, Inv, Types
  <2> QED
    BY <1>2, <2>1, <2>2, <2>3 DEF loopset_led_trigger, Inv, Types, evtVars
<1>3. ASSUME NEW c \in Caller, NEW e \in OtherEvent, looprt_evt_notify_async(c, e)
      PROVE  Types'
  BY <1>3 DEF looprt_evt_notify_async, OtherEvent, Inv, Types, Event, evtVars, timerVars
<1>4. ASSUME NEW e \in OtherEvent, bloop_evt_set_async_fromISR(e)
      PROVE  Types'
  BY <1>4
    DEF bloop_evt_set_async_fromISR, Raise, OtherEvent, Inv, Types, Event, timerVars
<1>5. ASSUME NEW c \in Caller, bloop_evt_set_async(c)
      PROVE  Types'
  <2>1. caller' \in [Caller -> [step : {"idle", "set", "notify"}, evt : Event]]
    BY <1>5, LedEvents DEF bloop_evt_set_async, Inv, Types
  <2>2. PICK e \in Event : caller[c].evt = e
    BY DEF Inv, Types
  <2>3. e[1] \in Task /\ e[2] \in Bit
    BY DEF Event
  <2>4. owed' \subseteq Event /\ evt_type_map_async' \in [Task -> SUBSET Bit]
    BY <1>5, <2>2, <2>3 DEF bloop_evt_set_async, Raise, Inv, Types
  <2> QED
    BY <1>5, <2>1, <2>4 DEF bloop_evt_set_async, Raise, Inv, Types, timerVars
<1>6. ASSUME NEW c \in Caller, xTaskNotifyGive(c)
      PROVE  Types'
  <2>1. caller' \in [Caller -> [step : {"idle", "set", "notify"}, evt : Event]]
    BY <1>6, LedEvents DEF xTaskNotifyGive, Inv, Types, Idle
  <2> QED
    BY <1>6, <2>1 DEF xTaskNotifyGive, Inv, Types, evtVars, timerVars
<1>7. CASE copy_evt
  BY <1>7 DEF copy_evt, Inv, Types, timerVars, callVars
<1>8. CASE idle
  BY <1>8 DEF idle, Inv, Types, evtVars, timerVars, callVars
<1>9. CASE ulTaskNotifyTake
  BY <1>9 DEF ulTaskNotifyTake, Inv, Types, evtVars, timerVars, callVars
<1>10. CASE handle_timer
  BY <1>10 DEF handle_timer, Inv, Types, evtVars, timerVars, callVars
<1>11. CASE timer_is_up
  BY <1>11 DEF timer_is_up, Inv, Types, timerVars, callVars
<1>12. CASE timer_is_up_store
  <2>1. evt_type_map_async' \in [Task -> SUBSET Bit] /\ owed' \subseteq Event
    BY <1>12, LedEvents DEF timer_is_up_store, Inv, Types, StoreSafe
  <2>2. timer_dlist # <<>>
    BY <1>12 DEF timer_is_up_store, Inv, StoreSafe
  <2>3. Tail(timer_dlist) \in Seq(LedTimer) /\ <<Head(timer_dlist)>> \in Seq(LedTimer)
    BY <2>2, HeadTailProperties DEF Inv, Types
  <2>4. timer_dued' \in Seq(LedTimer) /\ timer_dlist' \in Seq(LedTimer)
    BY <1>12, <2>3, ConcatProperties DEF timer_is_up_store, Inv, Types
  <2> QED
    BY <1>12, <2>1, <2>4 DEF timer_is_up_store, Inv, Types, callVars
<1>13. CASE timer_dued_clean
  <2> DEFINE m == Head(timer_dued)
             d == Diff(time_target[m], time_added[m])
  <2>1. m \in LedTimer /\ Tail(timer_dued) \in Seq(LedTimer)
    BY <1>13, HeadTailProperties DEF timer_dued_clean, Inv, Types
  <2>2. d \in Int
    BY <2>1, DiffInt DEF Inv, Types
  <2>3. /\ bloop_timer_configure(m, d) /\ timer_dued' = Tail(timer_dued)
        /\ timer_dlist' = Registered(timer_dlist, m, time_target')
    BY <1>13 DEF timer_dued_clean
  <2> HIDE DEF m, d
  <2>4. time_added' \in [LedTimer -> Int] /\ time_target' \in [LedTimer -> Int]
    <3>1. (now + d) % ClockMod \in Int
      BY <2>2 DEF Inv, Types
    <3> QED
      BY <2>1, <2>3, <3>1 DEF bloop_timer_configure, Inv, Types
  <2>5. timer_dlist' \in Seq(LedTimer)
    BY <2>1, <2>3, RegisteredSeq DEF Inv, Types
  <2> QED
    BY <1>13, <2>1, <2>3, <2>4, <2>5 DEF timer_dued_clean, Inv, Types, evtVars, callVars
<1>14. CASE timers_done
  BY <1>14 DEF timers_done, Inv, Types, evtVars, timerVars, callVars
<1>15. CASE evt_handle
  BY <1>15 DEF evt_handle, Inv, Types, timerVars, callVars
<1>16. CASE waiting_queue_handle
  <2>1. waiting_queue # <<>>
    BY <1>16 DEF waiting_queue_handle, HasTriggers
  <2>2. Head(waiting_queue) \in LedTimer /\ Tail(waiting_queue) \in Seq(LedTimer)
    BY <2>1, HeadTailProperties DEF Inv, Types
  <2>3. timer_dlist' \in Seq(LedTimer) /\ waiting_queue' \in Seq(LedTimer)
    BY <1>16, <2>2, RegisteredSeq DEF waiting_queue_handle, Inv, Types
  <2> QED
    BY <1>16, <2>3 DEF waiting_queue_handle, Inv, Types, evtVars, callVars
<1>17. CASE handler_evt
  BY <1>17 DEF handler_evt, Inv, Types, timerVars, callVars
<1>18. CASE UNCHANGED vars
  BY <1>18 DEF Inv, Types, vars
<1> QED
  BY <1>1, <1>2, <1>3, <1>4, <1>5, <1>6, <1>7, <1>8, <1>9, <1>10,
     <1>11, <1>12, <1>13, <1>14, <1>15, <1>16, <1>17, <1>18
    DEF Next, Looper, Post

(* Every step keeps an owed event where the looper will find it. *)
LEMMA OwedStep == Inv /\ [Next]_vars => OwedPending'
<1> SUFFICES ASSUME Inv, [Next]_vars PROVE OwedPending'
  OBVIOUS
<1> USE ConstantsAssumption
<1>1. CASE tick
  BY <1>1 DEF tick, Inv, OwedPending, Pending, evtVars, localVars
<1>2. ASSUME NEW c \in Caller, NEW m \in LedTimer, loopset_led_trigger(c, m)
      PROVE  OwedPending'
  BY <1>2 DEF loopset_led_trigger, Inv, OwedPending, Pending, evtVars, localVars
<1>3. ASSUME NEW c \in Caller, NEW e \in OtherEvent, looprt_evt_notify_async(c, e)
      PROVE  OwedPending'
  BY <1>3 DEF looprt_evt_notify_async, Inv, OwedPending, Pending, evtVars, localVars
<1>4. ASSUME NEW e \in OtherEvent, bloop_evt_set_async_fromISR(e)
      PROVE  OwedPending'
  BY <1>4
    DEF bloop_evt_set_async_fromISR, Raise, Inv, Types, OwedPending, Pending,
        localVars
<1>5. ASSUME NEW c \in Caller, bloop_evt_set_async(c)
      PROVE  OwedPending'
  BY <1>5
    DEF bloop_evt_set_async, Raise, Inv, Types, Event, OwedPending, Pending, localVars
<1>6. ASSUME NEW c \in Caller, xTaskNotifyGive(c)
      PROVE  OwedPending'
  BY <1>6 DEF xTaskNotifyGive, Inv, OwedPending, Pending, evtVars, localVars
<1>7. CASE copy_evt
  BY <1>7 DEF copy_evt, Inv, OwedPending, Pending
<1>8. CASE idle
  BY <1>8 DEF idle, Inv, OwedPending, Pending, evtVars
<1>9. CASE ulTaskNotifyTake
  BY <1>9 DEF ulTaskNotifyTake, Inv, OwedPending, Pending, evtVars
<1>10. CASE handle_timer
  BY <1>10 DEF handle_timer, Inv, OwedPending, Pending, evtVars
<1>11. CASE timer_is_up
  BY <1>11 DEF timer_is_up, Inv, OwedPending, Pending
<1>12. CASE timer_is_up_store
  BY <1>12
    DEF timer_is_up_store, Inv, Types, OwedPending, Pending, StoreSafe, Trigger,
        callVars
<1>13. CASE timer_dued_clean
  BY <1>13 DEF timer_dued_clean, Inv, OwedPending, Pending, evtVars
<1>14. CASE timers_done
  BY <1>14 DEF timers_done, Inv, OwedPending, Pending, evtVars
<1>15. CASE evt_handle
  BY <1>15 DEF evt_handle, Inv, Types, Event, OwedPending, Pending
<1>16. CASE waiting_queue_handle
  BY <1>16 DEF waiting_queue_handle, Inv, OwedPending, Pending, evtVars, localVars
<1>17. CASE handler_evt
  BY <1>17 DEF handler_evt, Inv, OwedPending, Pending
<1>18. CASE UNCHANGED vars
  BY <1>18 DEF Inv, OwedPending, Pending, vars
<1> QED
  BY <1>1, <1>2, <1>3, <1>4, <1>5, <1>6, <1>7, <1>8, <1>9, <1>10,
     <1>11, <1>12, <1>13, <1>14, <1>15, <1>16, <1>17, <1>18
    DEF Next, Looper, Post

(* The map read by bloop_evt_set_sync is the map it overwrites. *)
LEMMA StoreStep == Inv /\ [Next]_vars => StoreSafe'
<1> SUFFICES ASSUME Inv, [Next]_vars PROVE StoreSafe'
  OBVIOUS
<1> USE ConstantsAssumption
<1>1. CASE tick
  BY <1>1 DEF tick, Inv, StoreSafe, evtVars, timerVars, localVars
<1>2. ASSUME NEW c \in Caller, NEW m \in LedTimer, loopset_led_trigger(c, m)
      PROVE  StoreSafe'
  BY <1>2 DEF loopset_led_trigger, Inv, StoreSafe, evtVars, localVars
<1>3. ASSUME NEW c \in Caller, NEW e \in OtherEvent, looprt_evt_notify_async(c, e)
      PROVE  StoreSafe'
  BY <1>3 DEF looprt_evt_notify_async, Inv, StoreSafe, evtVars, timerVars, localVars
<1>4. ASSUME NEW e \in OtherEvent, bloop_evt_set_async_fromISR(e)
      PROVE  StoreSafe'
  BY <1>4 DEF bloop_evt_set_async_fromISR, Raise, Inv, StoreSafe, timerVars, localVars
<1>5. ASSUME NEW c \in Caller, bloop_evt_set_async(c)
      PROVE  StoreSafe'
  BY <1>5 DEF bloop_evt_set_async, Blocked, StoreSafe
<1>6. ASSUME NEW c \in Caller, xTaskNotifyGive(c)
      PROVE  StoreSafe'
  BY <1>6 DEF xTaskNotifyGive, Inv, StoreSafe, evtVars, timerVars, localVars
<1>7. CASE copy_evt
  BY <1>7 DEF copy_evt, StoreSafe
<1>8. CASE idle
  BY <1>8 DEF idle, StoreSafe
<1>9. CASE ulTaskNotifyTake
  BY <1>9 DEF ulTaskNotifyTake, StoreSafe
<1>10. CASE handle_timer
  BY <1>10 DEF handle_timer, StoreSafe
<1>11. CASE timer_is_up
  BY <1>11 DEF timer_is_up, StoreSafe, Due, timerVars
<1>12. CASE timer_is_up_store
  BY <1>12 DEF timer_is_up_store, StoreSafe
<1>13. CASE timer_dued_clean
  BY <1>13 DEF timer_dued_clean, StoreSafe
<1>14. CASE timers_done
  BY <1>14 DEF timers_done, StoreSafe
<1>15. CASE evt_handle
  BY <1>15 DEF evt_handle, StoreSafe
<1>16. CASE waiting_queue_handle
  BY <1>16 DEF waiting_queue_handle, StoreSafe
<1>17. CASE handler_evt
  BY <1>17 DEF handler_evt, StoreSafe
<1>18. CASE UNCHANGED vars
  BY <1>18 DEF Inv, StoreSafe, vars
<1> QED
  BY <1>1, <1>2, <1>3, <1>4, <1>5, <1>6, <1>7, <1>8, <1>9, <1>10,
     <1>11, <1>12, <1>13, <1>14, <1>15, <1>16, <1>17, <1>18
    DEF Next, Looper, Post

(* A queued trigger stays announced. *)
LEMMA AnnouncedStep == Inv /\ [Next]_vars => TriggerAnnounced'
<1> SUFFICES ASSUME Inv, [Next]_vars PROVE TriggerAnnounced'
  OBVIOUS
<1> USE ConstantsAssumption
<1>1. CASE tick
  BY <1>1 DEF tick, Inv, TriggerAnnounced, Given, evtVars, localVars, callVars
<1>2. ASSUME NEW c \in Caller, NEW m \in LedTimer, loopset_led_trigger(c, m)
      PROVE  TriggerAnnounced'
  BY <1>2 DEF loopset_led_trigger, Inv, Types, TriggerAnnounced
<1>3. ASSUME NEW c \in Caller, NEW e \in OtherEvent, looprt_evt_notify_async(c, e)
      PROVE  TriggerAnnounced'
  <2> SUFFICES ASSUME waiting_queue # <<>>
                PROVE  \/ Waiting \in owed' \cup Given'
                       \/ \E d \in Caller : caller'[d] = [step |-> "set", evt |-> Waiting]
    BY <1>3 DEF looprt_evt_notify_async, TriggerAnnounced
  <2>1. CASE Waiting \in owed \cup Given
    BY <1>3, <2>1 DEF looprt_evt_notify_async, Given, evtVars, localVars
  <2>2. CASE \E d \in Caller : caller[d] = [step |-> "set", evt |-> Waiting]
    <3>1. PICK d \in Caller : caller[d] = [step |-> "set", evt |-> Waiting]
      BY <2>2
    <3>2. d # c /\ caller'[d] = caller[d]
      BY <1>3, <3>1 DEF looprt_evt_notify_async
    <3> QED
      BY <3>1, <3>2
  <2> QED
    BY <2>1, <2>2 DEF Inv, TriggerAnnounced
<1>4. ASSUME NEW e \in OtherEvent, bloop_evt_set_async_fromISR(e)
      PROVE  TriggerAnnounced'
  BY <1>4
    DEF bloop_evt_set_async_fromISR, Raise, Inv, TriggerAnnounced, Given, localVars
<1>5. ASSUME NEW c \in Caller, bloop_evt_set_async(c)
      PROVE  TriggerAnnounced'
  <2> SUFFICES ASSUME waiting_queue # <<>>
                PROVE  \/ Waiting \in owed' \cup Given'
                       \/ \E d \in Caller : caller'[d] = [step |-> "set", evt |-> Waiting]
    BY <1>5 DEF bloop_evt_set_async, TriggerAnnounced
  <2>1. CASE Waiting \in owed \cup Given
    BY <1>5, <2>1 DEF bloop_evt_set_async, Raise, Given, localVars
  <2>2. CASE \E d \in Caller : caller[d] = [step |-> "set", evt |-> Waiting]
    <3>1. PICK d \in Caller : caller[d] = [step |-> "set", evt |-> Waiting]
      BY <2>2
    <3>2. CASE d = c
      BY <1>5, <3>1, <3>2 DEF bloop_evt_set_async, Raise
    <3>3. CASE d # c
      <4>1. caller'[d] = caller[d]
        BY <1>5, <3>3 DEF bloop_evt_set_async
      <4> QED
        BY <3>1, <4>1
    <3> QED
      BY <3>2, <3>3
  <2> QED
    BY <2>1, <2>2 DEF Inv, TriggerAnnounced
<1>6. ASSUME NEW c \in Caller, xTaskNotifyGive(c)
      PROVE  TriggerAnnounced'
  <2> SUFFICES ASSUME waiting_queue # <<>>
                PROVE  \/ Waiting \in owed' \cup Given'
                       \/ \E d \in Caller : caller'[d] = [step |-> "set", evt |-> Waiting]
    BY <1>6 DEF xTaskNotifyGive, TriggerAnnounced
  <2>1. CASE Waiting \in owed \cup Given
    BY <1>6, <2>1 DEF xTaskNotifyGive, Given, evtVars, localVars
  <2>2. CASE \E d \in Caller : caller[d] = [step |-> "set", evt |-> Waiting]
    <3>1. PICK d \in Caller : caller[d] = [step |-> "set", evt |-> Waiting]
      BY <2>2
    <3>2. d # c /\ caller'[d] = caller[d]
      BY <1>6, <3>1 DEF xTaskNotifyGive
    <3> QED
      BY <3>1, <3>2
  <2> QED
    BY <2>1, <2>2 DEF Inv, TriggerAnnounced
<1>7. CASE copy_evt
  BY <1>7 DEF copy_evt, Inv, TriggerAnnounced, Given, callVars
<1>8. CASE idle
  BY <1>8 DEF idle, Inv, TriggerAnnounced, Given, callVars
<1>9. CASE ulTaskNotifyTake
  BY <1>9 DEF ulTaskNotifyTake, Inv, TriggerAnnounced, Given, callVars
<1>10. CASE handle_timer
  BY <1>10 DEF handle_timer, Inv, TriggerAnnounced, Given, callVars
<1>11. CASE timer_is_up
  BY <1>11 DEF timer_is_up, Inv, TriggerAnnounced, Given, callVars
<1>12. CASE timer_is_up_store
  BY <1>12 DEF timer_is_up_store, Inv, TriggerAnnounced, Given, callVars
<1>13. CASE timer_dued_clean
  BY <1>13 DEF timer_dued_clean, Inv, TriggerAnnounced, Given, callVars
<1>14. CASE timers_done
  BY <1>14 DEF timers_done, Inv, TriggerAnnounced, Given, callVars
<1>15. CASE evt_handle
  BY <1>15 DEF evt_handle, Inv, TriggerAnnounced, Given, callVars
<1>16. CASE waiting_queue_handle
  BY <1>16
    DEF waiting_queue_handle, TriggerAnnounced, Given, Waiting, HasTriggers, evtVars,
        localVars
<1>17. CASE handler_evt
  BY <1>17 DEF handler_evt, Inv, TriggerAnnounced, Given, Waiting, HasTriggers, callVars
<1>18. CASE UNCHANGED vars
  BY <1>18 DEF Inv, TriggerAnnounced, Given, vars
<1> QED
  BY <1>1, <1>2, <1>3, <1>4, <1>5, <1>6, <1>7, <1>8, <1>9, <1>10,
     <1>11, <1>12, <1>13, <1>14, <1>15, <1>16, <1>17, <1>18
    DEF Next, Looper, Post

(* The looper never goes to sleep on an event, nor past a timer. *)
LEMMA RestingStep == Inv /\ [Next]_vars => Resting'
<1> SUFFICES ASSUME Inv, [Next]_vars PROVE Resting'
  OBVIOUS
<1> USE ConstantsAssumption
<1>1. CASE tick
  BY <1>1 DEF tick, Inv, Resting, evtVars, timerVars, localVars, callVars
<1>2. ASSUME NEW c \in Caller, NEW m \in LedTimer, loopset_led_trigger(c, m)
      PROVE  Resting'
  <2>1. pc = "sleep" /\ pc' = pc /\ m \notin Configured
    BY <1>2 DEF loopset_led_trigger, Blocked
  <2>2. bitmap_evt_async' # {} /\ ~notified' => \E d \in Caller : caller'[d].step = "notify"
    <3> SUFFICES ASSUME bitmap_evt_async # {}, ~notified
                  PROVE  \E d \in Caller : caller'[d].step = "notify"
      BY <1>2 DEF loopset_led_trigger, evtVars
    <3>1. PICK d \in Caller : caller[d].step = "notify"
      BY <2>1 DEF Inv, Resting
    <3>2. d # c /\ caller'[d] = caller[d]
      BY <1>2, <3>1 DEF loopset_led_trigger
    <3> QED
      BY <3>1, <3>2
  <2>3. ASSUME timer_dlist # <<>>
        PROVE  time_target'[Head(timer_dlist)] = time_target[Head(timer_dlist)]
    <3>1. 1 \in DOMAIN timer_dlist /\ Head(timer_dlist) = timer_dlist[1] /\ Head(timer_dlist) \in LedTimer
      BY <2>3, EmptySeq, LenProperties, HeadTailProperties DEF Inv, Types
    <3>2. Head(timer_dlist) # m
      BY <2>1, <3>1 DEF Configured, ToSet
    <3> QED
      BY <1>2, <3>1, <3>2 DEF loopset_led_trigger, bloop_timer_configure
  <2> QED
    BY <1>2, <2>1, <2>2, <2>3 DEF loopset_led_trigger, Inv, Resting, evtVars, localVars
<1>3. ASSUME NEW c \in Caller, NEW e \in OtherEvent, looprt_evt_notify_async(c, e)
      PROVE  Resting'
  BY <1>3 DEF looprt_evt_notify_async, Inv, Resting, evtVars, timerVars, localVars
<1>4. ASSUME NEW e \in OtherEvent, bloop_evt_set_async_fromISR(e)
      PROVE  Resting'
  BY <1>4 DEF bloop_evt_set_async_fromISR, Raise, Inv, Resting, timerVars, localVars
<1>5. ASSUME NEW c \in Caller, bloop_evt_set_async(c)
      PROVE  Resting'
  BY <1>5 DEF bloop_evt_set_async, Raise, Inv, Types, Resting, timerVars, localVars
<1>6. ASSUME NEW c \in Caller, xTaskNotifyGive(c)
      PROVE  Resting'
  BY <1>6 DEF xTaskNotifyGive, Inv, Resting, evtVars, timerVars, localVars
<1>7. CASE copy_evt
  BY <1>7 DEF copy_evt, Resting
<1>8. CASE idle
  BY <1>8 DEF idle, Inv, Resting, evtVars, timerVars, callVars
<1>9. CASE ulTaskNotifyTake
  BY <1>9 DEF ulTaskNotifyTake, Resting
<1>10. CASE handle_timer
  BY <1>10 DEF handle_timer, Resting
<1>11. CASE timer_is_up
  BY <1>11 DEF timer_is_up, Resting
<1>12. CASE timer_is_up_store
  BY <1>12 DEF timer_is_up_store, Resting
<1>13. CASE timer_dued_clean
  BY <1>13 DEF timer_dued_clean, Resting
<1>14. CASE timers_done
  BY <1>14 DEF timers_done, Resting
<1>15. CASE evt_handle
  BY <1>15 DEF evt_handle, Resting
<1>16. CASE waiting_queue_handle
  BY <1>16 DEF waiting_queue_handle, Resting
<1>17. CASE handler_evt
  BY <1>17 DEF handler_evt, Resting
<1>18. CASE UNCHANGED vars
  BY <1>18 DEF Inv, Resting, vars
<1> QED
  BY <1>1, <1>2, <1>3, <1>4, <1>5, <1>6, <1>7, <1>8, <1>9, <1>10,
     <1>11, <1>12, <1>13, <1>14, <1>15, <1>16, <1>17, <1>18
    DEF Next, Looper, Post

(* The invariant holds in every state. *)
THEOREM Inductive == Spec => []Inv
<1>1. Init => Inv
  <2> SUFFICES ASSUME Init PROVE Inv
    OBVIOUS
  <2>1. Types
    BY ConstantsAssumption, EmptySeq DEF Init, Types, Idle, Event, Waiting
  <2>2. OwedPending /\ StoreSafe /\ TriggerAnnounced /\ Resting
    BY DEF Init, OwedPending, StoreSafe, TriggerAnnounced, Resting
  <2> QED
    BY <2>1, <2>2 DEF Inv
<1>2. Inv /\ [Next]_vars => Inv'
  BY TypesStep, OwedStep, StoreStep, AnnouncedStep, RestingStep DEF Inv
<1> QED
  BY <1>1, <1>2, PTL DEF Spec

(* No event is lost between the two stages of the looper's maps, and a     *)
(* queued trigger stays announced.                                         *)
THEOREM NoEventLost == Spec => []EventNotLost
<1>1. Inv => EventNotLost
  BY DEF Inv, OwedPending, Pending, EventNotLost
<1> QED
  BY <1>1, Inductive, PTL

(* The looper never sleeps on an event nobody will announce, nor past its  *)
(* first timer.                                                            *)
THEOREM NoWakeupLost == Spec => []WakeupNotLost
<1>1. Inv => WakeupNotLost
  BY DEF Inv, Resting, WakeupNotLost
<1> QED
  BY <1>1, Inductive, PTL

=============================================================================

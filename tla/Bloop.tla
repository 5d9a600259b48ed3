------------------------------- MODULE Bloop --------------------------------
(***************************************************************************)
(* The bloop scheduler (bloop_base.c), as the task bloop_rt runs it        *)
(* (looprt.c), with the LED application (loopset_led.c) on top.            *)
(*                                                                         *)
(* Events are bits of a task's event map, raised by other tasks in a       *)
(* critical section or by interrupts, and taken by the looper in two       *)
(* stages: first which tasks have events, later which events the chosen    *)
(* task has.  Timers live in an ascending list only the looper changes,    *)
(* ordered by signed differences of a clock that wraps.  An LED trigger is *)
(* configured and queued by its caller, registered as a timer by the       *)
(* looper, and re-armed for ever.                                          *)
(*                                                                         *)
(* A local of a task is reset when it is no longer used.                   *)
(*                                                                         *)
(* The looper has priority 26.  The tasks that raise events run below it,  *)
(* so they run only while it is blocked; interrupts come at any time       *)
(* outside critical sections.  Handlers were registered at startup.        *)
(***************************************************************************)
EXTENDS Integers, Sequences, SequencesExt, FiniteSets, FiniteSetsExt

CONSTANTS
  NTask,      \* LOOP_TASK_MAX, tasks of the looper by priority
  Led,        \* task of the LED handler (1 in the code)
  Caller,     \* tasks below the looper that raise events
  IsrTask,    \* tasks whose events interrupts raise (I2C, IR)
  Bit,        \* bits of an event map the applications use
  LedTimer,   \* loop_timers of the LED triggers
  Period,     \* timeon_ms each LED is triggered with, in ticks
  ClockMod,   \* 2^32, ticks wrap there
  MaxLate,    \* bound: ticks a timer may be overdue
  MaxPost     \* bound: events raised, besides the LED's

Task == 0 .. NTask - 1
Tick == 0 .. ClockMod - 1
Event == Task \X Bit
Never == ClockMod     \* portMAX_DELAY, no tick

(* EVT_MAP_LED_TRIGGER and EVT_MAP_LED_WAITING. *)
Trigger == <<Led, "TRIGGER">>
Waiting == <<Led, "WAITING">>

(* No interrupt raises events of a task that timers raise events of:       *)
(* bloop_evt_set_sync changes the map outside a critical section.          *)
ASSUME ConstantsAssumption ==
  /\ NTask \in Nat \ {0} /\ Led \in Task /\ IsrTask \subseteq Task \ {Led}
  /\ {"TRIGGER", "WAITING"} \subseteq Bit
  /\ ClockMod \in Nat \ {0} /\ MaxLate \in Nat /\ MaxPost \in Nat
  /\ Period \in [LedTimer -> Nat \ {0}]
  /\ \A m \in LedTimer : 2 * (Period[m] + MaxLate) < ClockMod

VARIABLES
  bitmap_evt_async, bitmap_evt_sync,      \* loop_ctx, as sets of tasks
  evt_type_map_async, evt_type_map_sync,  \* loop_ctx, as sets of bits per task
  timer_dlist, timer_dued,                \* loop_ctx
  time_added, time_target,                \* loop_timer
  waiting_queue,      \* led_ctx, head first
  notified,           \* notification value of the looper is not zero
  now,                \* xTaskGetTickCount
  pc, wake,           \* looper: its place, end of its wait
  time_now, old_map, highest_evt,   \* looper: locals
  caller,             \* tasks raising an event: their step and the event
  posts,              \* bound
  owed                \* history: events raised and not yet given to a handler

evtVars == <<bitmap_evt_async, bitmap_evt_sync, evt_type_map_async, evt_type_map_sync>>
timerVars == <<timer_dlist, timer_dued, time_added, time_target>>
localVars == <<wake, time_now, old_map, highest_evt>>
callVars == <<caller, posts>>
vars == <<bitmap_evt_async, bitmap_evt_sync, evt_type_map_async, evt_type_map_sync,
          timer_dlist, timer_dued, time_added, time_target, waiting_queue, notified,
          now, pc, wake, time_now, old_map, highest_evt, caller, posts, owed>>

(* (int)a - (int)b of two ticks. *)
Diff(a, b) ==
  LET d == (a - b) % ClockMod IN IF 2 * d >= ClockMod THEN d - ClockMod ELSE d

Idle == [step |-> "idle", evt |-> Waiting]

Init ==
  /\ bitmap_evt_async = {} /\ bitmap_evt_sync = {}
  /\ evt_type_map_async = [t \in Task |-> {}] /\ evt_type_map_sync = [t \in Task |-> {}]
  /\ timer_dlist = <<>> /\ timer_dued = <<>>
  /\ time_added = [m \in LedTimer |-> 0] /\ time_target = [m \in LedTimer |-> 0]
  /\ waiting_queue = <<>>
  /\ notified = FALSE
  /\ now = 0
  /\ pc = "copy" /\ wake = Never /\ time_now = 0 /\ old_map = {} /\ highest_evt = 0
  /\ caller = [c \in Caller |-> Idle] /\ posts = 0
  /\ owed = {}

-----------------------------------------------------------------------------
(* Time, other tasks and interrupts. *)

Configured == ToSet(timer_dlist) \cup ToSet(timer_dued) \cup ToSet(waiting_queue)

(* The looper is scheduled soon enough that no timer is overdue for longer *)
(* than MaxLate.                                                           *)
tick ==
  /\ \A m \in Configured : Diff(now, time_target[m]) < MaxLate
  /\ now' = (now + 1) % ClockMod
  /\ UNCHANGED <<evtVars, timerVars, waiting_queue, notified, pc, localVars, callVars, owed>>

(* The wait of ulTaskNotifyTake is over. *)
Ready == notified \/ (wake # Never /\ Diff(now, wake) >= 0)

(* Tasks below the looper run. *)
Blocked == pc = "sleep" /\ ~Ready

(* Mutant: the target does not wrap with the clock. *)
bloop_timer_configure_NoWrap(m, d) ==
  /\ time_added' = [time_added EXCEPT ![m] = now]
  /\ time_target' = [time_target EXCEPT ![m] = now + d]

(* bloop_timer_configure. *)
bloop_timer_configure(m, d) ==
  /\ time_added' = [time_added EXCEPT ![m] = now]
  /\ time_target' = [time_target EXCEPT ![m] = (now + d) % ClockMod]

(* A task triggers an LED: the timer is configured and queued, the event   *)
(* raised in the steps that follow.                                        *)
loopset_led_trigger(c, m) ==
  /\ Blocked /\ caller[c].step = "idle"
  /\ m \notin Configured
  /\ bloop_timer_configure(m, Period[m])
  /\ waiting_queue' = <<m>> \o waiting_queue
  /\ caller' = [caller EXCEPT ![c] = [step |-> "set", evt |-> Waiting]]
  /\ UNCHANGED <<evtVars, timer_dlist, timer_dued, notified, now, pc, localVars, posts, owed>>

(* A task raises an event. *)
looprt_evt_notify_async(c, e) ==
  /\ Blocked /\ caller[c].step = "idle" /\ posts < MaxPost
  /\ caller' = [caller EXCEPT ![c] = [step |-> "set", evt |-> e]]
  /\ posts' = posts + 1
  /\ UNCHANGED <<evtVars, timerVars, waiting_queue, notified, now, pc, localVars, owed>>

(* The bits an asynchronous event sets. *)
Raise(e) ==
  /\ bitmap_evt_async' = bitmap_evt_async \cup {e[1]}
  /\ evt_type_map_async' = [evt_type_map_async EXCEPT ![e[1]] = @ \cup {e[2]}]
  /\ owed' = owed \cup {e}
  /\ UNCHANGED <<bitmap_evt_sync, evt_type_map_sync>>

(* The critical section of bloop_evt_set_async. *)
bloop_evt_set_async(c) ==
  /\ Blocked /\ caller[c].step = "set"
  /\ Raise(caller[c].evt)
  /\ caller' = [caller EXCEPT ![c] = [step |-> "notify", evt |-> Waiting]]
  /\ UNCHANGED <<timerVars, waiting_queue, notified, now, pc, localVars, posts>>

(* Its xTaskNotifyGive. *)
xTaskNotifyGive(c) ==
  /\ Blocked /\ caller[c].step = "notify"
  /\ notified' = TRUE
  /\ caller' = [caller EXCEPT ![c] = Idle]
  /\ UNCHANGED <<evtVars, timerVars, waiting_queue, now, pc, localVars, posts, owed>>

bloop_evt_set_async_fromISR(e) ==
  /\ e[1] \in IsrTask /\ posts < MaxPost
  /\ Raise(e)
  /\ notified' = TRUE
  /\ posts' = posts + 1
  /\ UNCHANGED <<timerVars, waiting_queue, now, pc, localVars, caller>>

-----------------------------------------------------------------------------
(* The looper: _bloop_wait. *)

copy_evt ==
  /\ pc = "copy"
  /\ bitmap_evt_sync' = bitmap_evt_sync \cup bitmap_evt_async
  /\ bitmap_evt_async' = {}
  /\ pc' = IF bitmap_evt_sync' = {} THEN "idle" ELSE "timers"
  /\ UNCHANGED <<evt_type_map_async, evt_type_map_sync, timerVars, waiting_queue, notified,
                 now, localVars, callVars, owed>>

(* Mutant: the looper waits for the last timer of the list. *)
idle_LastTimer ==
  /\ pc = "idle"
  /\ pc' = "sleep"
  /\ wake' = IF timer_dlist = <<>> THEN Never ELSE time_target[timer_dlist[Len(timer_dlist)]]
  /\ UNCHANGED <<evtVars, timerVars, waiting_queue, notified, now, time_now, old_map,
                 highest_evt, callVars, owed>>

(* Mutant: a timer with one tick left counts as up when the wait is        *)
(* skipped, but not when the timers are handled.                           *)
idle_OneTickEarly ==
  /\ pc = "idle"
  /\ \/ timer_dlist = <<>> /\ pc' = "sleep" /\ wake' = Never
     \/ /\ timer_dlist # <<>>
        /\ \/ /\ Diff(time_target[Head(timer_dlist)], now) > 1
              /\ pc' = "sleep" /\ wake' = time_target[Head(timer_dlist)]
           \/ /\ Diff(time_target[Head(timer_dlist)], now) <= 1
              /\ pc' = "timers" /\ UNCHANGED wake
  /\ UNCHANGED <<evtVars, timerVars, waiting_queue, notified, now, time_now, old_map,
                 highest_evt, callVars, owed>>

(* Nothing to handle: wait for a notification or the first timer. *)
idle ==
  /\ pc = "idle"
  /\ \/ timer_dlist = <<>> /\ pc' = "sleep" /\ wake' = Never
     \/ /\ timer_dlist # <<>>
        /\ \/ /\ Diff(time_target[Head(timer_dlist)], now) > 0
              /\ pc' = "sleep" /\ wake' = time_target[Head(timer_dlist)]
           \/ /\ Diff(time_target[Head(timer_dlist)], now) <= 0
              /\ pc' = "timers" /\ UNCHANGED wake
  /\ UNCHANGED <<evtVars, timerVars, waiting_queue, notified, now, time_now, old_map,
                 highest_evt, callVars, owed>>

ulTaskNotifyTake ==
  /\ pc = "sleep" /\ Ready
  /\ notified' = FALSE
  /\ pc' = "copy" /\ wake' = Never
  /\ UNCHANGED <<evtVars, timerVars, waiting_queue, now, time_now, old_map, highest_evt,
                 callVars, owed>>

handle_timer ==
  /\ pc = "timers"
  /\ \/ timer_dlist = <<>> /\ pc' = "pick" /\ UNCHANGED time_now
     \/ timer_dlist # <<>> /\ pc' = "due" /\ time_now' = now
  /\ UNCHANGED <<evtVars, timerVars, waiting_queue, notified, now, wake, old_map,
                 highest_evt, callVars, owed>>

Due == timer_dlist # <<>> /\ Diff(time_now, time_target[Head(timer_dlist)]) >= 0

(* bloop_evt_set_sync reads the event map ... *)
timer_is_up ==
  /\ pc = "due" /\ Due
  /\ bitmap_evt_sync' = bitmap_evt_sync \cup {Led}
  /\ old_map' = evt_type_map_async[Led]
  /\ pc' = "store"
  /\ UNCHANGED <<bitmap_evt_async, evt_type_map_async, evt_type_map_sync, timerVars,
                 waiting_queue, notified, now, wake, time_now, highest_evt, callVars, owed>>

(* ... and writes it back; the timer moves to timer_dued. *)
timer_is_up_store ==
  /\ pc = "store"
  /\ evt_type_map_async' = [evt_type_map_async EXCEPT ![Led] = old_map \cup {"TRIGGER"}]
  /\ owed' = owed \cup {Trigger}
  /\ timer_dued' = <<Head(timer_dlist)>> \o timer_dued
  /\ timer_dlist' = Tail(timer_dlist)
  /\ pc' = "due" /\ old_map' = {}
  /\ UNCHANGED <<bitmap_evt_async, bitmap_evt_sync, evt_type_map_sync, time_added,
                 time_target, waiting_queue, notified, now, wake, time_now, highest_evt,
                 callVars>>

(* Mutant: targets are compared as plain numbers. *)
Registered_Unsigned(list, m, tt) ==
  LET later == {k \in 1 .. Len(list) : tt[m] <= tt[list[k]]}
      k == IF later = {} THEN Len(list) + 1 ELSE Min(later)
  IN SubSeq(list, 1, k - 1) \o <<m>> \o SubSeq(list, k, Len(list))

(* The list with timer m in its place: before the first timer that is not  *)
(* earlier, by the targets tt.                                             *)
Registered(list, m, tt) ==
  LET later == {k \in 1 .. Len(list) : Diff(tt[m], tt[list[k]]) <= 0}
      k == IF later = {} THEN Len(list) + 1 ELSE Min(later)
  IN SubSeq(list, 1, k - 1) \o <<m>> \o SubSeq(list, k, Len(list))

(* Mutant: a timer that repeats is not registered again. *)
timer_dued_clean_Once ==
  /\ pc = "due" /\ ~Due /\ timer_dued # <<>>
  /\ timer_dued' = Tail(timer_dued)
  /\ UNCHANGED <<evtVars, timer_dlist, time_added, time_target, waiting_queue, notified, now,
                 pc, localVars, callVars, owed>>

(* One turn of _timer_dued_clean's loop: the timer repeats. *)
timer_dued_clean ==
  LET m == Head(timer_dued)
      delay == Diff(time_target[m], time_added[m])
  IN
  /\ pc = "due" /\ ~Due /\ timer_dued # <<>>
  /\ bloop_timer_configure(m, delay)
  /\ timer_dued' = Tail(timer_dued)
  /\ timer_dlist' = Registered(timer_dlist, m, time_target')
  /\ UNCHANGED <<evtVars, waiting_queue, notified, now, pc, localVars, callVars, owed>>

timers_done ==
  /\ pc = "due" /\ ~Due /\ timer_dued = <<>>
  /\ pc' = "pick" /\ time_now' = 0
  /\ UNCHANGED <<evtVars, timerVars, waiting_queue, notified, now, wake, old_map, highest_evt,
                 callVars, owed>>

-----------------------------------------------------------------------------
(* The looper: bloop_run and _evt_handle. *)

(* Mutant: the lowest task goes first. *)
evt_handle_Lowest ==
  /\ pc = "pick"
  /\ LET h == Min(bitmap_evt_sync)
     IN /\ highest_evt' = h
        /\ evt_type_map_sync' = [evt_type_map_sync EXCEPT ![h] = @ \cup evt_type_map_async[h]]
        /\ evt_type_map_async' = [evt_type_map_async EXCEPT ![h] = {}]
        /\ owed' = owed \ ({h} \X evt_type_map_sync'[h])
  /\ pc' = "handler"
  /\ UNCHANGED <<bitmap_evt_async, bitmap_evt_sync, timerVars, waiting_queue, notified, now,
                 wake, time_now, old_map, callVars>>

(* The highest task with an event; its event map is taken.  The message    *)
(* branch of bloop_run is not taken: nothing posts a loop message, so      *)
(* bitmap_msg stays 0 and, where clz(0) is 32, highest_msg is -1.          *)
evt_handle ==
  /\ pc = "pick"
  /\ LET h == Max(bitmap_evt_sync)
     IN /\ highest_evt' = h
        /\ evt_type_map_sync' = [evt_type_map_sync EXCEPT ![h] = @ \cup evt_type_map_async[h]]
        /\ evt_type_map_async' = [evt_type_map_async EXCEPT ![h] = {}]
        /\ owed' = owed \ ({h} \X evt_type_map_sync'[h])
  /\ pc' = "handler"
  /\ UNCHANGED <<bitmap_evt_async, bitmap_evt_sync, timerVars, waiting_queue, notified, now,
                 wake, time_now, old_map, callVars>>

(* The LED handler has triggers to register. *)
HasTriggers ==
  /\ highest_evt = Led /\ "WAITING" \in evt_type_map_sync[Led]
  /\ waiting_queue # <<>>

(* One turn of _waiting_queue_handle's loop: the first queued trigger is   *)
(* registered.                                                             *)
waiting_queue_handle ==
  /\ pc = "handler" /\ HasTriggers
  /\ timer_dlist' = Registered(timer_dlist, Head(waiting_queue), time_target)
  /\ waiting_queue' = Tail(waiting_queue)
  /\ UNCHANGED <<evtVars, timer_dued, time_added, time_target, notified, now, pc, localVars,
                 callVars, owed>>

(* Mutant: the handler clears the asynchronous event map too. *)
handler_evt_ClearsAsync ==
  /\ pc = "handler" /\ ~HasTriggers
  /\ evt_type_map_sync' = [evt_type_map_sync EXCEPT ![highest_evt] = {}]
  /\ evt_type_map_async' = [evt_type_map_async EXCEPT ![highest_evt] = {}]
  /\ bitmap_evt_sync' = bitmap_evt_sync \ {highest_evt}
  /\ pc' = "copy" /\ highest_evt' = 0
  /\ UNCHANGED <<bitmap_evt_async, timerVars, waiting_queue, notified, now, wake, time_now,
                 old_map, callVars, owed>>

(* The handler has taken all the events it was given; its task is unmarked *)
(* (bloop_evt_unset_sync).                                                 *)
handler_evt ==
  /\ pc = "handler" /\ ~HasTriggers
  /\ evt_type_map_sync' = [evt_type_map_sync EXCEPT ![highest_evt] = {}]
  /\ bitmap_evt_sync' = bitmap_evt_sync \ {highest_evt}
  /\ pc' = "copy" /\ highest_evt' = 0
  /\ UNCHANGED <<bitmap_evt_async, evt_type_map_async, timerVars, waiting_queue, notified,
                 now, wake, time_now, old_map, callVars, owed>>

-----------------------------------------------------------------------------
Looper ==
  \/ copy_evt \/ idle \/ ulTaskNotifyTake \/ handle_timer \/ timer_is_up
  \/ timer_is_up_store \/ timer_dued_clean \/ timers_done \/ evt_handle
  \/ waiting_queue_handle \/ handler_evt

(* Events other tasks raise, besides the LED's. *)
OtherEvent == (Task \ {Led}) \X (Bit \ {"TRIGGER", "WAITING"})

Post(c) == bloop_evt_set_async(c) \/ xTaskNotifyGive(c)

Next ==
  \/ tick
  \/ \E c \in Caller, m \in LedTimer : loopset_led_trigger(c, m)
  \/ \E c \in Caller, e \in OtherEvent : looprt_evt_notify_async(c, e)
  \/ \E e \in OtherEvent : bloop_evt_set_async_fromISR(e)
  \/ \E c \in Caller : Post(c)
  \/ Looper

Spec == Init /\ [][Next]_vars

(* Time passes, the looper runs when it can, and the tasks below it get to *)
(* run between its activities.                                             *)
FairSpec ==
  /\ Spec /\ WF_vars(tick) /\ WF_vars(Looper)
  /\ SF_vars(\E c \in Caller : Post(c))

-----------------------------------------------------------------------------
(* Properties. *)

(* Every variable has its type. *)
TypeOK ==
  /\ bitmap_evt_async \subseteq Task /\ bitmap_evt_sync \subseteq Task
  /\ evt_type_map_async \in [Task -> SUBSET Bit] /\ evt_type_map_sync \in [Task -> SUBSET Bit]
  /\ timer_dlist \in Seq(LedTimer) /\ timer_dued \in Seq(LedTimer)
  /\ waiting_queue \in Seq(LedTimer)
  /\ time_added \in [LedTimer -> Tick] /\ time_target \in [LedTimer -> Tick]
  /\ notified \in BOOLEAN /\ now \in Tick /\ time_now \in Tick
  /\ wake \in Tick \cup {Never} /\ old_map \subseteq Bit /\ highest_evt \in Task
  /\ pc \in {"copy", "idle", "sleep", "timers", "due", "store", "pick", "handler"}
  /\ caller \in [Caller -> [step : {"idle", "set", "notify"}, evt : Event]]
  /\ posts \in 0 .. MaxPost /\ owed \subseteq Event

(* Events a handler has been given and not yet handled. *)
Given == IF pc = "handler" THEN {highest_evt} \X evt_type_map_sync[highest_evt] ELSE {}

(* A queued trigger is always announced. *)
TriggerAnnounced ==
  waiting_queue # <<>> =>
    Waiting \in owed \cup Given \/ \E c \in Caller : caller[c] = [step |-> "set", evt |-> Waiting]

(* No event is lost between the two stages: whatever was raised and not    *)
(* yet given to its handler is in an event map, and its task is marked in  *)
(* one of the two bitmaps, in whatever order events are raised, copied,    *)
(* merged, handled and unmarked; and a queued LED trigger is announced by  *)
(* such an event.                                                          *)
EventNotLost ==
  /\ \A e \in owed : /\ e[2] \in evt_type_map_async[e[1]] \cup evt_type_map_sync[e[1]]
                     /\ e[1] \in bitmap_evt_async \cup bitmap_evt_sync
  /\ TriggerAnnounced

(* No wake-up is lost: while the looper waits without a notification every *)
(* marked task was marked by a task that is about to notify, and the wait  *)
(* ends with the first timer.                                              *)
WakeupNotLost ==
  pc = "sleep" /\ ~notified =>
    /\ bitmap_evt_sync = {}
    /\ bitmap_evt_async # {} => \E c \in Caller : caller[c].step = "notify"
    /\ IF timer_dlist = <<>> THEN wake = Never ELSE wake = time_target[Head(timer_dlist)]

(* The highest bit of bitmap_evt_sync is asked for only when there is one: *)
(* __builtin_clz(0) is undefined.                                          *)
PicksSomething == pc = "pick" => bitmap_evt_sync # {}

(* "ascend list on time_target": the timers stay in order across the wrap  *)
(* of the clock, and none is in two lists or twice in one.                 *)
TimersAscend ==
  /\ \A j, k \in DOMAIN timer_dlist :
       j < k => Diff(time_target[timer_dlist[j]], time_target[timer_dlist[k]]) <= 0
  /\ LET all == timer_dlist \o timer_dued \o waiting_queue
     IN Cardinality(ToSet(all)) = Len(all)

Fires(m) == pc = "store" /\ Head(timer_dlist) = m

(* A triggered LED blinks for ever: its timer is never dropped, whatever   *)
(* list it is in, and fires again and again.                               *)
KeepsBlinking ==
  /\ [][Configured \subseteq Configured']_vars
  /\ \A m \in LedTimer : []<>(m \in Configured => Fires(m))

(* Every event another task or an interrupt raises for a task no lower     *)
(* than the LED's reaches its handler, however often timers fire: it does  *)
(* not stay owed for ever.  (Lower tasks starve while a timer's period is  *)
(* no longer than a pass of the loop.)                                     *)
EventHandled ==
  \A e \in OtherEvent \cup {Waiting} : []<>(e[1] >= Led => e \notin owed)

=============================================================================

------------------------------- MODULE STimer -------------------------------
(***************************************************************************)
(* The software timers, src/src/service/timer/stimer.c: a wheel of WheelSlots *)
(* lists that the interrupt of a hardware timer turns by one slot, a list  *)
(* of timers that fell due, and the task that empties it.  A timer is put  *)
(* into the slot of its period modulo WheelSlots, with the number of whole *)
(* turns it still has to wait.                                             *)
(*                                                                         *)
(* The timers are created (stimer_create) before the first step.  A        *)
(* callback is called outside the critical section and touches the timers  *)
(* only as any other task may, so it is no step of its own.                *)
(***************************************************************************)
EXTENDS Integers, Sequences, FiniteSets, Functions

CONSTANTS OnceTimers, PeriodTimers,   \* timers by STIMER_TYPE
          Periods,                    \* timeout_ms of the calls
          WheelSlots,                 \* TBOX_STIMER_WHEEL_SLOTE_NUM
          Supplementary               \* STIMER_SPPLEMENTARY_THREASHOLD

ASSUME STimerAssumption == /\ Periods \subseteq Nat \ {0}
                           /\ WheelSlots \in Nat \ {0}
                           /\ Supplementary \in Nat \ {0}

VARIABLES stimer_info,      \* start, round, period and active_count of a timer
          stimer_wheel,     \* the slots' lists
          stimer_timeout_list,
          current_slot,     \* stimer_wheel_current_slot
          hw_timer,         \* the hardware timer runs
          timer_handle,     \* stimer_task_handle: "own" task, "none", "shell" task
          timer_events,     \* notification bits of the task
          timer_pc,         \* the task waits, or empties the timeout list
          left,             \* history: interrupts until a timer is to fall due
          unnoticed         \* history: due timers whose notification was used up

timerVars == <<stimer_info, stimer_wheel, stimer_timeout_list, current_slot, hw_timer,
               timer_handle, timer_events, timer_pc, left, unnoticed>>
lists == <<stimer_info, stimer_wheel, stimer_timeout_list, current_slot, left>>
timer_task == <<timer_handle, timer_events, timer_pc>>

Timer == OnceTimers \cup PeriodTimers
Slots == 0..(WheelSlots - 1)

(* active_count is set anew by a start, and read of periodic timers only.  *)
Stopped == [start |-> FALSE, round |-> 0, period |-> 0, count |-> 0]

TimerInit ==
  /\ stimer_info = [t \in Timer |-> Stopped]
  /\ stimer_wheel = [s \in Slots |-> <<>>]
  /\ stimer_timeout_list = <<>> /\ current_slot = 0
  /\ hw_timer = TRUE
  /\ timer_handle = "own" /\ timer_events = {} /\ timer_pc = "wait"
  /\ left = [t \in Timer |-> 0] /\ unnoticed = FALSE
-----------------------------------------------------------------------------
SlotAfter(n) == (current_slot + (n % WheelSlots)) % WheelSlots

RoundsOf(n) == n \div WheelSlots

(* The nodes of a list that are in T, in their order.                      *)
Those(l, T) ==
  LET places == {i \in DOMAIN l : l[i] \in T}
      kth(k) == CHOOSE i \in places : Cardinality({j \in places : j <= i}) = k
  IN [k \in 1..Cardinality(places) |-> l[kth(k)]]

(* dlist_del_entry: the timer leaves the list it is in.                    *)
Unlinked(t) == [s \in Slots |-> Those(stimer_wheel[s], Timer \ {t})]
NotDue(t) == Those(stimer_timeout_list, Timer \ {t})

Linked(w, t, n) == [w EXCEPT ![SlotAfter(n)] = Append(@, t)]

Started(T) == [start |-> TRUE, round |-> RoundsOf(T), period |-> T, count |-> 0]

(* Wrong: a timer that was started already stays where it is as well. *)
StartAgain(t, T) ==
  /\ stimer_wheel' = Linked(stimer_wheel, t, T)
  /\ stimer_info' = [stimer_info EXCEPT ![t] = Started(T)]
  /\ left' = [left EXCEPT ![t] = T + 1]
  /\ UNCHANGED <<stimer_timeout_list, current_slot, hw_timer, timer_task, unnoticed>>

stimer_start(t, T) ==
  /\ stimer_wheel' = Linked(Unlinked(t), t, T)
  /\ stimer_timeout_list' = NotDue(t)
  /\ stimer_info' = [stimer_info EXCEPT ![t] = Started(T)]
  /\ left' = [left EXCEPT ![t] = T + 1]
  /\ UNCHANGED <<current_slot, hw_timer, timer_task, unnoticed>>

stimer_stop(t) ==
  /\ stimer_info[t].start
  /\ stimer_info' = [stimer_info EXCEPT ![t] = Stopped]
  /\ stimer_wheel' = Unlinked(t) /\ stimer_timeout_list' = NotDue(t)
  /\ left' = [left EXCEPT ![t] = 0]
  /\ UNCHANGED <<current_slot, hw_timer, timer_task, unnoticed>>

IsDue(t) == t \in Range(stimer_timeout_list)

(* Nothing in the repository calls stimer_trigger or stimer_clear.  For a  *)
(* timer that is not started, stimer_trigger would leave a node in the     *)
(* list that the next stimer_start links into the wheel without removing   *)
(* it; it is taken to be for started timers.                               *)
stimer_trigger(t) ==
  /\ stimer_info[t].start /\ ~IsDue(t)
  /\ stimer_info' = [stimer_info EXCEPT ![t].round = 0]
  /\ stimer_wheel' = Unlinked(t)
  /\ stimer_timeout_list' = Append(stimer_timeout_list, t)
  /\ left' = [left EXCEPT ![t] = 0] /\ unnoticed' = TRUE
  /\ UNCHANGED <<current_slot, hw_timer, timer_task>>

stimer_clear(t) ==
  LET T == stimer_info[t].period
  IN /\ IsDue(t)
     /\ stimer_info' = [stimer_info EXCEPT ![t].round = RoundsOf(T)]
     /\ stimer_wheel' = Linked(stimer_wheel, t, T) /\ stimer_timeout_list' = NotDue(t)
     /\ left' = [left EXCEPT ![t] = T + 1]
     /\ UNCHANGED <<current_slot, hw_timer, timer_task, unnoticed>>
-----------------------------------------------------------------------------
Notified(e) == IF timer_handle = "own" THEN timer_events \cup {e} ELSE timer_events

(* One turn of the wheel: of the slot's timers those with rounds left wait *)
(* on, the others fall due; the task is notified whenever the timeout list *)
(* holds something, old or new.                                            *)
Turn ==
  LET here == stimer_wheel[current_slot]
      keeps == {t \in Timer : stimer_info[t].start /\ stimer_info[t].round > 0}
      falls == {t \in Timer : stimer_info[t].start /\ stimer_info[t].round = 0}
  IN /\ stimer_wheel' = [stimer_wheel EXCEPT ![current_slot] = Those(here, keeps)]
     /\ stimer_timeout_list' = stimer_timeout_list \o Those(here, falls)
     /\ stimer_info' = [t \in Timer |->
          IF t \notin Range(here) THEN stimer_info[t]
          ELSE IF t \in keeps THEN [stimer_info[t] EXCEPT !.round = @ - 1]
          ELSE IF t \in falls \cap PeriodTimers
               THEN [stimer_info[t] EXCEPT !.count = IF @ < Supplementary THEN @ + 1 ELSE @]
          ELSE stimer_info[t]]
     /\ left' = [t \in Timer |-> IF left[t] > 0 THEN left[t] - 1 ELSE 0]
     /\ current_slot' = (current_slot + 1) % WheelSlots

(* Wrong: the task is notified of new ones only. *)
InterruptNotifiesNew ==
  /\ hw_timer /\ Turn
  /\ timer_events' = IF stimer_timeout_list' # stimer_timeout_list
                     THEN Notified("INPUT") ELSE timer_events
  /\ unnoticed' = FALSE
  /\ UNCHANGED <<hw_timer, timer_handle, timer_pc>>

tbox_stimer_interrupt ==
  /\ hw_timer /\ Turn
  /\ timer_events' = IF stimer_timeout_list' # <<>> THEN Notified("INPUT") ELSE timer_events
  /\ unnoticed' = FALSE
  /\ UNCHANGED <<hw_timer, timer_handle, timer_pc>>

(* tbox_stimer_start and tbox_stimer_stop, around the sleep of the unit.   *)
SwitchTimers ==
  /\ hw_timer' = ~hw_timer
  /\ timer_events' = Notified(IF hw_timer THEN "STOP" ELSE "START")
  /\ UNCHANGED <<lists, timer_handle, timer_pc, unnoticed>>

(* The task: START and STOP use up an INPUT that came with them.           *)
Wakes ==
  /\ timer_pc = "wait" /\ timer_events # {}
  /\ timer_events' = {}
  /\ timer_pc' = IF timer_events = {"INPUT"} THEN "empty" ELSE "wait"
  /\ unnoticed' = (unnoticed \/ (timer_pc' = "wait" /\ "INPUT" \in timer_events))
  /\ UNCHANGED <<lists, hw_timer, timer_handle>>

(* A periodic timer goes back with a period less 1, as the slot of the     *)
(* current turn is over, and less 2 after every Supplementary firings; one *)
(* of period 1 stays 1, and fires at every second turn.                    *)
Again(T, fired) ==
  LET n == IF T > 1 THEN T - 1 ELSE T
  IN IF n > 1 /\ fired >= Supplementary THEN n - 1 ELSE n

Takes ==
  /\ timer_pc = "empty" /\ stimer_timeout_list # <<>>
  /\ stimer_timeout_list' = Tail(stimer_timeout_list)
  /\ LET t == Head(stimer_timeout_list)
         i == stimer_info[t]
         n == Again(i.period, i.count)
         longer == i.period > 2 /\ i.count >= Supplementary
     IN IF t \in PeriodTimers
        THEN /\ stimer_wheel' = Linked(stimer_wheel, t, n)
             /\ stimer_info' = [stimer_info EXCEPT ![t].round = RoundsOf(n),
                                                   ![t].count = IF longer THEN 0 ELSE @]
             /\ left' = [left EXCEPT ![t] = IF longer THEN i.period - 1
                                            ELSE IF i.period = 1 THEN 2 ELSE i.period]
        ELSE /\ stimer_info' = [stimer_info EXCEPT ![t] = Stopped]
             /\ UNCHANGED <<stimer_wheel, left>>
  /\ UNCHANGED <<current_slot, hw_timer, timer_task, unnoticed>>

Empties ==
  /\ timer_pc = "empty" /\ stimer_timeout_list = <<>> /\ timer_pc' = "wait"
  /\ UNCHANGED <<lists, hw_timer, timer_handle, timer_events, unnoticed>>

(* The supervisor resets the task: the first message makes the handle NULL,*)
(* the second is compared with the id of the shell's module                *)
(* (stimer.c:529), so that the new task's handle is never stored, and the  *)
(* shell's is, when its task is reset.                                     *)
OwnTaskReset ==
  /\ timer_handle' = IF timer_handle = "own" THEN "none" ELSE timer_handle
  /\ timer_pc' = "wait" /\ timer_events' = {}
  /\ UNCHANGED <<lists, hw_timer, unnoticed>>

ShellTaskReset ==
  /\ timer_handle' = "shell"
  /\ UNCHANGED <<lists, hw_timer, timer_events, timer_pc, unnoticed>>

TimerNext ==
  \/ \E t \in Timer : \/ \E T \in Periods : stimer_start(t, T)
                      \/ stimer_stop(t) \/ stimer_trigger(t) \/ stimer_clear(t)
  \/ tbox_stimer_interrupt \/ SwitchTimers
  \/ Wakes \/ Takes \/ Empties
  \/ OwnTaskReset \/ ShellTaskReset

TimerSpec == TimerInit /\ [][TimerNext]_timerVars
-----------------------------------------------------------------------------
(* The places where a timer is linked, in the list of the due ones or in a *)
(* slot of the wheel.                                                      *)
DueList == WheelSlots
ListOf(s) == IF s = DueList THEN stimer_timeout_list ELSE stimer_wheel[s]
Links(t) == {l \in UNION {{s} \X DOMAIN ListOf(s) : s \in Slots \cup {DueList}} :
               ListOf(l[1])[l[2]] = t}

(* A started timer is linked into exactly one list and once, a stopped one *)
(* into none, while tasks start and stop it between the interrupt and the  *)
(* task that take it from list to list: its node has one pair of links.    *)
LinkedOnce ==
  \A t \in Timer : Cardinality(Links(t)) = IF stimer_info[t].start THEN 1 ELSE 0

(* A timer's slot and its rounds are the time it still has to wait:        *)
(* timeout + 1 turns after a start (the first one is not a whole           *)
(* millisecond), period turns after the task put it back, one less when it *)
(* was corrected, whatever slot the wheel is at and however often it turns.*)
FallsDueOnTime ==
  \A t \in Timer, s \in Slots :
    t \in Range(stimer_wheel[s]) =>
      left[t] = ((s - current_slot) % WheelSlots) + WheelSlots * stimer_info[t].round + 1

(* Every started timer is in its one place on the wheel or in the list of  *)
(* the due ones, and on the wheel at the place its time left asks for.     *)
TimersInPlace == LinkedOnce /\ FallsDueOnTime

(* A due timer does not wait for a task that sleeps: the task has been     *)
(* notified, or the next interrupt will do it.  The exception is a task    *)
(* that the supervisor reset, or whose place the shell's took: it is never *)
(* notified again.                                                         *)
DueIsNoticed ==
  stimer_timeout_list # <<>> /\ timer_pc = "wait" /\ timer_handle = "own" =>
    timer_events # {} \/ unnoticed
=============================================================================

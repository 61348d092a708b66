---------------------------- MODULE CanRecovery -----------------------------
(***************************************************************************)
(* How one port of the CAN manager gets over bus errors and bus-off:       *)
(* src/src/service/can/can_buserr.c and can_busoff.c, the handlers of      *)
(* can.c that call them, can_if_init, and driver/can/drv_can.c.            *)
(*                                                                         *)
(* Four tasks meet here: can_task runs the handlers of the interrupt's     *)
(* events, can_tx_task reports a transmission as a good frame, the timer   *)
(* service runs the callbacks of the two one-shot timers, and power        *)
(* management stops and starts the module.  No lock covers the recovery    *)
(* records: a task is the sequence of steps it still has to do, and the    *)
(* steps of the tasks interleave.                                          *)
(***************************************************************************)
EXTENDS Integers, Sequences, FiniteSets

CONSTANTS ErrorThreshold,    \* CAN_BUSERR_THRD
          MaxMishaps         \* bound on failing set-ups and on stops

ASSUME RecoveryAssumption == {ErrorThreshold, MaxMishaps} \subseteq Nat

VARIABLES port,      \* is_init of the controller and its error interrupt BEIE
          buserr,    \* can_buserr_ctl and whether its timer runs
          busoff,    \* can_busoff_ctl and whether its timer runs
          events,    \* pending event bits of can_task
          awake,     \* bus_sleep is FALSE
          task,      \* the steps can_task has left
          good,      \* the steps can_tx_task has left
          expiry,    \* the bus-off timer's callback is inside can_if_init
          switch,    \* the steps can_stop or can_start has left
          mishaps,   \* counter of the bound
          past       \* history, see Past

recVars == <<port, buserr, busoff, events, awake, task, good, expiry, switch,
             mishaps, past>>

Event == {"RECEIVE", "BUSERROR", "BUSOFF", "BUSOK"}

(* muted: a good frame stopped the timer that re-enables the interrupt;    *)
(* given_up: a good frame or a failed set-up ended the recovery while the  *)
(* port was down; late: a handler or a callback was under way when the     *)
(* stop that the port is in had stopped the timers.                        *)
Past == [muted : BOOLEAN, given_up : BOOLEAN, late : BOOLEAN]

RecInit ==
  /\ port = [is_init |-> TRUE, report |-> TRUE]
  /\ buserr = [cnt |-> 0, is_recovering |-> FALSE, timer |-> FALSE]
  /\ busoff = [is_recovering |-> FALSE, timer |-> FALSE]
  /\ events = {} /\ awake = TRUE
  /\ task = <<>> /\ good = <<>> /\ expiry = FALSE /\ switch = <<>>
  /\ mishaps = 0
  /\ past = [muted |-> FALSE, given_up |-> FALSE, late |-> FALSE]
-----------------------------------------------------------------------------
(* can_if_init sets the controller up with all its interrupts, or fails.   *)
Mishap == mishaps < MaxMishaps /\ mishaps' = mishaps + 1

can_if_init ==
  \/ /\ port' = [is_init |-> TRUE, report |-> TRUE]
     /\ past' = [past EXCEPT !.muted = FALSE, !.given_up = FALSE]
     /\ UNCHANGED mishaps
  \/ /\ Mishap
     /\ past' = [past EXCEPT !.given_up = @ \/ ~port.is_init]
     /\ UNCHANGED port

can_if_deinit == port' = [port EXCEPT !.is_init = FALSE]

(* drv_can_enable_error_report does nothing to a port that is down.        *)
ErrorReport(on) == port' = [port EXCEPT !.report = IF port.is_init THEN on ELSE @]

(* The steps of can_buserr_callback and can_busoff_callback.  Assignments  *)
(* are one step when no other task acts on the state between them.         *)
GoodFrame == <<"err_ok", "off_stop", "off_clear">>
BusError == <<"err_mute", "err_arm">>
BusOff == <<"off_down", "off_arm">>

(* can_buserr_callback(FALSE): the timer is stopped, the record cleared.   *)
ErrOk ==
  /\ buserr' = [cnt |-> 0, is_recovering |-> FALSE, timer |-> FALSE]
  /\ past' = [past EXCEPT !.muted = @ \/ (buserr.timer /\ ~port.report)]
  /\ UNCHANGED <<port, busoff>>

(* can_busoff_callback(FALSE), when the port is recovering: the timer is   *)
(* stopped, then the record is cleared.                                    *)
OffStop ==
  /\ busoff' = [busoff EXCEPT !.timer = FALSE]
  /\ past' = [past EXCEPT !.given_up = @ \/ ~port.is_init]
  /\ UNCHANGED <<port, buserr>>

OffClear ==
  /\ busoff' = [busoff EXCEPT !.is_recovering = FALSE]
  /\ past' = [past EXCEPT !.given_up = @ \/ ~port.is_init]
  /\ UNCHANGED <<port, buserr>>

(* can_buserr_callback(TRUE) only counts up to the threshold; above it the *)
(* error interrupt is muted and a timer is to enable it again.  The count  *)
(* only matters up to the first value above the threshold.                 *)
Counted == IF buserr.cnt > ErrorThreshold THEN buserr.cnt ELSE buserr.cnt + 1

ErrCount == /\ buserr' = [buserr EXCEPT !.cnt = Counted]
            /\ UNCHANGED <<port, busoff, past>>

ErrMute == ErrorReport(FALSE) /\ UNCHANGED <<buserr, busoff, past>>

ErrArm ==
  /\ buserr' = [cnt |-> Counted, is_recovering |-> TRUE, timer |-> TRUE]
  /\ UNCHANGED <<port, busoff, past>>

(* can_busoff_callback(TRUE) takes the port down while there is main power *)
(* and has a timer set it up again.                                        *)
OffDown == /\ \/ can_if_deinit
              \/ UNCHANGED port
           /\ UNCHANGED <<buserr, busoff, past>>

OffArm == /\ busoff' = [is_recovering |-> TRUE, timer |-> TRUE]
          /\ UNCHANGED <<port, buserr, past>>

(* One step of a task; the steps that follow an untaken branch are skipped.*)
Do(steps, next) ==
  LET step == Head(steps)
      rest == Tail(steps)
      Muting == buserr.cnt > ErrorThreshold /\ ~buserr.is_recovering
      Idle == UNCHANGED <<port, buserr, busoff, past>>
  IN /\ steps # <<>>
     /\ \/ step = "err_ok" /\ ErrOk /\ next = rest
        \/ step = "off_stop" /\ busoff.is_recovering /\ OffStop /\ next = rest
        \/ step = "off_stop" /\ ~busoff.is_recovering /\ Idle /\ next = Tail(rest)
        \/ step = "off_clear" /\ OffClear /\ next = rest
        \/ step = "err_mute" /\ Muting /\ ErrMute /\ next = rest
        \/ step = "err_mute" /\ ~Muting /\ ErrCount /\ next = Tail(rest)
        \/ step = "err_arm" /\ ErrArm /\ next = rest
        \/ step = "off_down" /\ OffDown /\ next = rest
        \/ step = "off_arm" /\ OffArm /\ next = rest
-----------------------------------------------------------------------------
(* The interrupt.  Errors are only reported while BEIE is set.             *)
RecInterrupt ==
  /\ port.is_init
  /\ \E e \in Event : (e = "BUSERROR" => port.report) /\ events' = events \cup {e}
  /\ UNCHANGED <<port, buserr, busoff, awake, task, good, expiry, switch,
                 mishaps, past>>

(* can_task takes all its bits and handles them in this order.  A handler  *)
(* does nothing when the list was cleared meanwhile (RECEIVE) or when the  *)
(* controller still sees errors (BUSOK).                                   *)
TakeEvents ==
  /\ task = <<>> /\ events # {}
  /\ \E received \in {<<>>} \cup (IF "RECEIVE" \in events THEN {GoodFrame} ELSE {}),
        ok \in {<<>>} \cup (IF "BUSOK" \in events
                            THEN {<<"err_ok">>} ELSE {}) :
       task' = IF ~awake THEN <<>>
               ELSE received \o (IF "BUSERROR" \in events THEN BusError ELSE <<>>)
                             \o (IF "BUSOFF" \in events THEN BusOff ELSE <<>>) \o ok
  /\ events' = {}
  /\ UNCHANGED <<port, buserr, busoff, awake, good, expiry, switch,
                 mishaps, past>>

RecTask == /\ Do(task, task')
           /\ UNCHANGED <<events, awake, good, expiry, switch, mishaps>>

(* can_tx_task handles DONE.                                               *)
TakeDone == /\ good = <<>> /\ port.is_init /\ awake
            /\ good' = GoodFrame
            /\ UNCHANGED <<port, buserr, busoff, events, awake, task, expiry,
                           switch, mishaps, past>>

RecTxTask == /\ Do(good, good')
             /\ UNCHANGED <<events, awake, task, expiry, switch, mishaps>>
-----------------------------------------------------------------------------
can_buserr_timer_callback ==
  /\ buserr.timer
  /\ buserr' = [buserr EXCEPT !.timer = FALSE, !.cnt = 0]
  /\ ErrorReport(TRUE)
  /\ past' = [past EXCEPT !.muted = @ /\ ~port.is_init]
  /\ UNCHANGED <<busoff, events, awake, task, good, expiry, switch, mishaps>>

(* Wrong: without power the timer is not started again. *)
BusoffTimerOnce ==
  /\ busoff.timer /\ ~expiry
  /\ busoff' = [busoff EXCEPT !.timer = FALSE]
  /\ expiry' \in IF busoff.is_recovering THEN BOOLEAN ELSE {FALSE}
  /\ UNCHANGED <<port, buserr, events, awake, task, good, switch, mishaps, past>>

(* The callback sets the port up when main power and ACC are there, and    *)
(* waits on when one is missing.                                           *)
can_busoff_timer_callback ==
  /\ busoff.timer /\ ~expiry
  /\ \E supplied \in BOOLEAN :
       /\ busoff' = [busoff EXCEPT !.timer = busoff.is_recovering /\ ~supplied]
       /\ expiry' = (busoff.is_recovering /\ supplied)
  /\ UNCHANGED <<port, buserr, events, awake, task, good, switch, mishaps, past>>

SetUpAgain ==
  /\ expiry
  /\ can_if_init
  /\ expiry' = FALSE
  /\ UNCHANGED <<buserr, busoff, events, awake, task, good, switch>>
-----------------------------------------------------------------------------
(* can_stop and can_start of power management.                             *)
can_stop_begins ==
  /\ awake /\ switch = <<>> /\ Mishap
  /\ events' = {} /\ awake' = FALSE
  /\ switch' = <<"err_sleep", "off_sleep", "deinit">>
  /\ UNCHANGED <<port, buserr, busoff, task, good, expiry, past>>

can_buserr_sleep ==
  /\ switch # <<>> /\ Head(switch) = "err_sleep"
  /\ IF buserr.is_recovering THEN ErrorReport(TRUE) ELSE UNCHANGED port
  /\ buserr' = [cnt |-> 0, is_recovering |-> FALSE, timer |-> FALSE]
  /\ switch' = Tail(switch)
  /\ UNCHANGED <<busoff, events, awake, task, good, expiry, mishaps, past>>

(* Wrong: the recovery that is under way survives the stop. *)
BusoffSleepsOn ==
  /\ switch # <<>> /\ Head(switch) = "off_sleep"
  /\ switch' = Tail(switch)
  /\ UNCHANGED <<port, buserr, busoff, events, awake, task, good, expiry,
                 mishaps, past>>

can_busoff_sleep ==
  /\ switch # <<>> /\ Head(switch) = "off_sleep"
  /\ busoff' = [is_recovering |-> FALSE, timer |-> FALSE]
  /\ past' = [past EXCEPT !.late = task # <<>> \/ expiry]
  /\ switch' = Tail(switch)
  /\ UNCHANGED <<port, buserr, events, awake, task, good, expiry, mishaps>>

can_mgr_deinit_port ==
  /\ switch # <<>> /\ Head(switch) = "deinit"
  /\ can_if_deinit
  /\ switch' = <<>>
  /\ UNCHANGED <<buserr, busoff, events, awake, task, good, expiry, mishaps, past>>

can_start_begins ==
  /\ ~awake /\ switch = <<>>
  /\ awake' = TRUE
  /\ switch' = <<"init">>
  /\ past' = [past EXCEPT !.late = FALSE]
  /\ UNCHANGED <<port, buserr, busoff, events, task, good, expiry, mishaps>>

can_mgr_init_port ==
  /\ switch # <<>> /\ Head(switch) = "init"
  /\ can_if_init
  /\ switch' = <<>>
  /\ UNCHANGED <<buserr, busoff, events, awake, task, good, expiry>>

RecPower == \/ can_stop_begins \/ can_buserr_sleep \/ can_busoff_sleep
            \/ can_mgr_deinit_port \/ can_start_begins \/ can_mgr_init_port
-----------------------------------------------------------------------------
RecNext == \/ RecInterrupt \/ TakeEvents \/ RecTask \/ TakeDone \/ RecTxTask
           \/ can_buserr_timer_callback \/ can_busoff_timer_callback \/ SetUpAgain
           \/ RecPower

RecSpec == RecInit /\ [][RecNext]_recVars
-----------------------------------------------------------------------------
Steps(s) == {s[i] : i \in DOMAIN s}

(* A port that bus-off took down is on its way back: its timer runs and    *)
(* will find it recovering, or a task is just seeing to that.  The         *)
(* exceptions are a failed set-up, which is not repeated, and a frame that *)
(* was good before the port went down and is reported after.               *)
PortComesBack ==
  awake /\ switch = <<>> /\ ~port.is_init /\ ~past.given_up
    => \/ busoff.timer /\ busoff.is_recovering
       \/ expiry
       \/ "off_arm" \in Steps(task)

(* A muted error interrupt is on its way back, too, unless a good frame    *)
(* stopped the timer and left the interrupt off.                           *)
ReportComesBack ==
  awake /\ port.is_init /\ ~port.report /\ ~past.muted
    => buserr.timer \/ "err_arm" \in Steps(task)

(* The port is down while the unit sleeps, unless a handler or a callback  *)
(* was still under way when can_stop had stopped the timers.               *)
PortSleeps ==
  ~awake /\ switch = <<>> /\ port.is_init => past.late

(* What an error handler of the port took down, or switched off, is put    *)
(* back: neither the port nor its error report stays down for good.  But   *)
(* nothing of it puts the port up while the unit sleeps.                   *)
PortRecovers == PortComesBack /\ ReportComesBack /\ PortSleeps
=============================================================================

----------------------------- MODULE CanFrames ------------------------------
(***************************************************************************)
(* The way of the frames of one port through the CAN manager,              *)
(* src/src/service/can/can.c, with can_list.c and driver/can/drv_can.c:    *)
(* senders and the interrupt take list nodes out of one pool, can_task     *)
(* hands received frames to the clients, can_tx_task refills the transmit  *)
(* buffer, and power management stops and starts both modules.             *)
(*                                                                         *)
(* The check timer may expire at any moment, so its notification bits are  *)
(* not kept.  A task may be held up between any two of its critical        *)
(* sections, because it logs there.  Received frames are only counted.     *)
(*                                                                         *)
(* Of bus errors and bus-off (can_buserr.c, can_busoff.c) what they do to  *)
(* the frames is here: the lists are cleared, and the controller is shut   *)
(* down and set up again, which empties its buffer.  How the two handlers  *)
(* and their timers get on with each other is in module CanRecovery.       *)
(***************************************************************************)
EXTENDS Integers, Sequences, FiniteSets

CONSTANTS CanNodes,      \* CAN_LIST_MAX_SIZE
          CanSlots,      \* frames the secondary transmit buffer holds
          CanRounds,     \* CAN_RX_RETRY_COUNT
          CanOnce,       \* CAN_RX_PROCESS_ONCE_SIZE
          MaxSends,      \* bound on the frames that are sent
          MaxArrivals,   \* bound on the frames that are received
          MaxStops,      \* bound on how often power management stops the port
          MaxFaults,     \* bound on the bus errors and bus-offs
          MaxCan         \* bound on all four together, see CanBound

ASSUME CanAssumption == /\ {CanSlots, CanRounds, CanOnce} \subseteq Nat \ {0}
                        /\ {CanNodes, MaxSends, MaxArrivals, MaxStops, MaxFaults, MaxCan}
                              \subseteq Nat

VARIABLES rx_list,       \* number of frames in the receive list
          tx_list,       \* the frames in the transmit list
          hw_buffer,     \* the frames in the transmit buffer of the controller
          tx_tick,       \* TRUE when tx_tick is not 0: a transmission is timed
          is_init,       \* can_state[].is_init: the controller is set up
          recovery,      \* bus-off: its timer is armed, its callback is inside
          bus_active, bus_sleep,
          rxBits, txBits,        \* pending notification bits of the two tasks
          rxTask, txTask, sender,   \* where the tasks are in their code
          pm,            \* what power management does with the two modules
          told,          \* what the clients were last told about the bus
          outcome,       \* what became of the frames, see Outcome
          count,         \* counters of the bounds
          hist           \* history, see History

canVars == <<rx_list, tx_list, hw_buffer, tx_tick, is_init, recovery, bus_active, bus_sleep,
             rxBits, txBits, rxTask, txTask, sender, pm, told, outcome, count, hist>>

Frame == 1..MaxSends
NoFrame == 0
TxBit == {"CHECK", "START", "DONE"}

(* bus: frames the controller sent; gone: frames that were in its buffer   *)
(* when it was shut down or set up anew; sent, dropped: frames that the    *)
(* statistics counted as sent and as dropped; refused: frames of which the *)
(* caller was told that they are not sent.                                 *)
Outcome == [{"bus", "gone", "sent", "dropped", "refused"} -> SUBSET Frame]

(* backlog: the frames that waited when can_task last took RECEIVE;        *)
(* unread, untimed: the notification of waiting frames, the timing of      *)
(* waiting transmissions was dropped by a stop or a start; slept: the bus  *)
(* was declared inactive by a stop or a start, and not seen active since.  *)
History == [backlog : 0..CanNodes, unread : BOOLEAN, untimed : BOOLEAN,
            slept : BOOLEAN]

Free == CanNodes - rx_list - Len(tx_list)
Elements(s) == {s[i] : i \in DOMAIN s}

CanInit ==
  /\ rx_list = 0 /\ tx_list = <<>> /\ hw_buffer = <<>> /\ tx_tick = FALSE
  /\ is_init = TRUE /\ recovery = {} /\ bus_active = FALSE /\ bus_sleep = FALSE
  /\ rxBits = {} /\ txBits = {}
  /\ rxTask = [at |-> "wait", todo |-> {}, round |-> 0]
  /\ txTask = [at |-> "wait", todo |-> {}, frame |-> NoFrame]
  /\ sender = [at |-> "idle", frame |-> NoFrame]
  /\ pm = [going |-> "up", can |-> "on", tx |-> "on"]
  /\ told = "INACTIVE"
  /\ outcome = [bus |-> {}, gone |-> {}, sent |-> {}, dropped |-> {}, refused |-> {}]
  /\ count = [arrivals |-> 0, stops |-> 0, faults |-> 0]
  /\ hist = [backlog |-> 0, unread |-> FALSE, untimed |-> FALSE, slept |-> FALSE]
-----------------------------------------------------------------------------
(* The bound on all that happens, in which a fault counts twice.           *)
CanBound(n) == sender.frame + count.arrivals + count.stops + 2 * count.faults + n <= MaxCan

(* can_if_send, by one task.  drv_can_send takes the frame when the        *)
(* controller is set up and its buffer has room; otherwise a node is taken *)
(* from the pool, and the caller is refused when there is none.            *)
drv_can_accepts == is_init /\ Len(hw_buffer) < CanSlots

rxSide == <<rx_list, rxBits, rxTask, bus_active, told>>
power == <<is_init, recovery, bus_sleep, pm, count>>

Ask ==
  /\ sender.at = "idle" /\ sender.frame < MaxSends /\ CanBound(1)
  /\ IF is_init
     THEN sender' = [at |-> "asked", frame |-> sender.frame + 1] /\ UNCHANGED outcome
     ELSE /\ sender' = [sender EXCEPT !.frame = @ + 1]
          /\ outcome' = [outcome EXCEPT !.refused = @ \cup {sender.frame + 1}]
  /\ UNCHANGED <<tx_list, hw_buffer, tx_tick, txBits, txTask, hist, rxSide, power>>

Offer ==
  /\ sender.at = "asked"
  /\ IF drv_can_accepts
     THEN /\ hw_buffer' = Append(hw_buffer, sender.frame)
          /\ sender' = [sender EXCEPT !.at = "taken"]
     ELSE sender' = [sender EXCEPT !.at = "full"] /\ UNCHANGED hw_buffer
  /\ UNCHANGED <<tx_list, tx_tick, txBits, txTask, outcome, hist, rxSide, power>>

Timed == tx_tick' = TRUE /\ hist' = [hist EXCEPT !.untimed = FALSE]

Taken ==
  /\ sender.at = "taken"
  /\ Timed
  /\ sender' = [sender EXCEPT !.at = "idle"]
  /\ outcome' = [outcome EXCEPT !.sent = @ \cup {sender.frame}]
  /\ UNCHANGED <<tx_list, hw_buffer, txBits, txTask, rxSide, power>>

(* Wrong: the queued frame is not timed. *)
QueueUntimed ==
  /\ sender.at = "full" /\ Free > 0
  /\ tx_list' = Append(tx_list, sender.frame)
  /\ sender' = [sender EXCEPT !.at = "idle"]
  /\ UNCHANGED <<hw_buffer, tx_tick, txBits, txTask, outcome, hist, rxSide, power>>

Queue ==
  /\ sender.at = "full"
  /\ IF Free = 0
     THEN /\ outcome' = [outcome EXCEPT !.refused = @ \cup {sender.frame}]
          /\ UNCHANGED <<tx_list, tx_tick, hist>>
     ELSE tx_list' = Append(tx_list, sender.frame) /\ Timed /\ UNCHANGED outcome
  /\ sender' = [sender EXCEPT !.at = "idle"]
  /\ UNCHANGED <<hw_buffer, txBits, txTask, rxSide, power>>

can_if_send == Ask \/ Offer \/ Taken \/ Queue
-----------------------------------------------------------------------------
(* The interrupt: a frame was received, a transmission is done, the bus    *)
(* has an error or the port is off the bus.                                *)

Received ==
  /\ is_init /\ count.arrivals < MaxArrivals /\ CanBound(1)
  /\ count' = [count EXCEPT !.arrivals = @ + 1]
  /\ rx_list' = IF Free = 0 THEN rx_list ELSE rx_list + 1
  /\ rxBits' = rxBits \cup {"RECEIVE"}
  /\ UNCHANGED <<tx_list, hw_buffer, tx_tick, is_init, recovery, bus_active, bus_sleep,
                 txBits, rxTask, txTask, sender, pm, told, outcome, hist>>

Transmitted ==
  /\ is_init /\ hw_buffer # <<>>
  /\ hw_buffer' = Tail(hw_buffer)
  /\ outcome' = [outcome EXCEPT !.bus = @ \cup {Head(hw_buffer)}]
  /\ txBits' = txBits \cup {"DONE"}
  /\ UNCHANGED <<tx_list, tx_tick, txTask, sender, hist, rxSide, power>>

BusFault ==
  /\ is_init /\ count.faults < MaxFaults /\ CanBound(2)
  /\ count' = [count EXCEPT !.faults = @ + 1]
  /\ \E fault \in {"BUSERROR", "BUSOFF"} : rxBits' = rxBits \cup {fault}
  /\ UNCHANGED <<rx_list, tx_list, hw_buffer, tx_tick, is_init, recovery, bus_active,
                 bus_sleep, txBits, rxTask, txTask, sender, pm, told, outcome, hist>>

can_isr_callback == Received \/ Transmitted \/ BusFault
-----------------------------------------------------------------------------
(* can_task: CHECK, RECEIVE, BUSERROR and BUSOFF, in this order.           *)
txSide == <<tx_list, hw_buffer, tx_tick, txBits, txTask, sender, outcome>>

can_task ==
  /\ rxTask.at = "wait"
  /\ \E check \in SUBSET {"CHECK"} :
       /\ rxBits \cup check # {}
       /\ rxTask' = IF bus_sleep THEN rxTask
                    ELSE [at |-> "todo", todo |-> rxBits \cup check, round |-> 0]
  /\ rxBits' = {}
  /\ hist' = [hist EXCEPT !.backlog = IF "RECEIVE" \in rxBits THEN rx_list ELSE @,
                          !.unread = (@ \/ bus_sleep) /\ rx_list > 0]
  /\ UNCHANGED <<rx_list, bus_active, told, txSide, power>>

(* Ten seconds without a frame: what waits is discarded.                   *)
Silence(stillActive) ==
  /\ rxTask.at = "todo" /\ "CHECK" \in rxTask.todo
  /\ \/ UNCHANGED <<rx_list, bus_active>>
        /\ rxTask' = [rxTask EXCEPT !.todo = @ \ {"CHECK"}]
     \/ /\ bus_active
        /\ rx_list' = 0
        /\ bus_active' = stillActive
        /\ rxTask' = [rxTask EXCEPT !.todo = @ \ {"CHECK"},
                                    !.at = IF bus_sleep THEN "todo" ELSE "inactive"]
  /\ UNCHANGED <<rxBits, told, hist, txSide, power>>

(* Wrong: the bus stays active when the clients are told that it is not. *)
CheckStaysActive == Silence(TRUE)

can_rx_handle_check == Silence(FALSE)

TellInactive ==
  /\ rxTask.at = "inactive"
  /\ told' = "INACTIVE"
  /\ rxTask' = [rxTask EXCEPT !.at = "todo"]
  /\ UNCHANGED <<rx_list, rxBits, bus_active, hist, txSide, power>>

(* The handler of an event is done: can_task goes on, or waits again.      *)
Handled(event) ==
  LET rest == rxTask.todo \ {event}
  IN rxTask' = [at |-> IF rest = {} THEN "wait" ELSE "todo", todo |-> rest, round |-> 0]

(* One round of can_rx_handle_receive takes at most CanOnce frames; a bus  *)
(* that was not active is announced before they are handed over.           *)
can_rx_handle_receive ==
  /\ rxTask.at = "todo" /\ "CHECK" \notin rxTask.todo /\ "RECEIVE" \in rxTask.todo
  /\ IF rx_list = 0
     THEN /\ Handled("RECEIVE")
          /\ UNCHANGED <<rx_list, bus_active>>
     ELSE /\ rx_list' = IF rx_list > CanOnce THEN rx_list - CanOnce ELSE 0
          /\ rxTask' = [rxTask EXCEPT !.at = IF bus_active THEN "data" ELSE "active"]
          /\ bus_active' = TRUE
  /\ hist' = [hist EXCEPT !.slept = @ /\ rx_list = 0]
  /\ UNCHANGED <<rxBits, told, txSide, power>>

TellActive ==
  /\ rxTask.at = "active"
  /\ told' = "ACTIVE"
  /\ rxTask' = [rxTask EXCEPT !.at = "data"]
  /\ UNCHANGED <<rx_list, rxBits, bus_active, hist, txSide, power>>

(* A good frame ends the recovery from bus-off: its timer is stopped.      *)
CanGoodFrame == recovery' = recovery \ {"armed"}

HandOver ==
  /\ rxTask.at = "data"
  /\ IF rxTask.round + 1 < CanRounds
     THEN rxTask' = [rxTask EXCEPT !.at = "todo", !.round = @ + 1]
     ELSE Handled("RECEIVE")
  /\ CanGoodFrame
  /\ UNCHANGED <<rx_list, rxBits, bus_active, told, hist, txSide, is_init, bus_sleep, pm,
                 count>>

(* A bus error clears both lists, a bus-off that of received frames.       *)
can_rx_handle_buserror ==
  /\ rxTask.at = "todo" /\ rxTask.todo \cap {"CHECK", "RECEIVE"} = {}
  /\ "BUSERROR" \in rxTask.todo
  /\ rx_list' = 0 /\ tx_list' = <<>>
  /\ outcome' = [outcome EXCEPT !.dropped = @ \cup Elements(tx_list)]
  /\ Handled("BUSERROR")
  /\ UNCHANGED <<rxBits, bus_active, told, hist, hw_buffer, tx_tick, txBits, txTask, sender,
                 power>>

can_rx_handle_busoff ==
  /\ rxTask.at = "todo" /\ rxTask.todo = {"BUSOFF"}
  /\ rx_list' = 0
  /\ rxTask' = [rxTask EXCEPT !.at = "busoff", !.todo = {}]
  /\ UNCHANGED <<rxBits, bus_active, told, hist, txSide, power>>

(* The controller is shut down or set up: its buffer is empty, and nothing *)
(* counts the frames that were in it.                                      *)
ControllerReset ==
  /\ hw_buffer' = <<>>
  /\ outcome' = [outcome EXCEPT !.gone = @ \cup Elements(hw_buffer)]

(* With main power, bus-off takes the controller down; a timer is to set   *)
(* it up again.                                                            *)
BusOffDown ==
  /\ rxTask.at = "busoff"
  /\ rxTask' = [rxTask EXCEPT !.at = "wait"]
  /\ \/ is_init' = FALSE /\ ControllerReset
     \/ UNCHANGED <<is_init, hw_buffer, outcome>>
  /\ recovery' = recovery \cup {"armed"}
  /\ UNCHANGED <<rx_list, rxBits, bus_active, told, hist, tx_list, tx_tick, txBits, txTask,
                 sender, bus_sleep, pm, count>>

(* The timer expires; its callback, once begun, is not stopped any more.   *)
BusOffExpires ==
  /\ "armed" \in recovery
  /\ recovery' = (recovery \ {"armed"}) \cup {"inside"}
  /\ UNCHANGED <<is_init, bus_sleep, pm, count, hist, rxSide, txSide>>

BusOffUp ==
  /\ "inside" \in recovery
  /\ recovery' = recovery \ {"inside"}
  /\ is_init' = TRUE /\ ControllerReset
  /\ UNCHANGED <<tx_list, tx_tick, txBits, txTask, sender, bus_sleep, pm, count, hist, rxSide>>

RxIdle ==
  /\ rxTask.at = "todo" /\ rxTask.todo = {}
  /\ rxTask' = [rxTask EXCEPT !.at = "wait"]
  /\ UNCHANGED <<rx_list, rxBits, bus_active, told, hist, txSide, power>>

CanTask == \/ can_task \/ can_rx_handle_check \/ TellInactive
           \/ can_rx_handle_receive \/ TellActive \/ HandOver \/ RxIdle
           \/ can_rx_handle_buserror \/ can_rx_handle_busoff \/ BusOffDown
-----------------------------------------------------------------------------
(* can_tx_task: CHECK, START and DONE, in this order.                      *)
can_tx_task ==
  /\ txTask.at = "wait"
  /\ \E check \in SUBSET {"CHECK"} :
       /\ txBits \cup check # {}
       /\ txTask' = IF bus_sleep THEN txTask
                    ELSE [txTask EXCEPT !.at = "todo", !.todo = txBits \cup check]
  /\ txBits' = {}
  /\ hist' = [hist EXCEPT !.untimed = @ \/ (bus_sleep /\ tx_list # <<>>)]
  /\ UNCHANGED <<tx_list, hw_buffer, tx_tick, sender, outcome, rxSide, power>>

(* 100 ms without a frame sent or done: the next frame is started.         *)
can_tx_handle_check ==
  /\ txTask.at = "todo" /\ "CHECK" \in txTask.todo
  /\ tx_tick' \in IF tx_tick THEN BOOLEAN ELSE {FALSE}
  /\ txTask' = [txTask EXCEPT !.todo = @ \ {"CHECK"},
                              !.at = IF tx_tick THEN "checked" ELSE "todo"]
  /\ UNCHANGED <<tx_list, hw_buffer, txBits, sender, outcome, hist, rxSide, power>>

Checked ==
  /\ txTask.at = "checked"
  /\ txTask' = [txTask EXCEPT !.at = "todo"]
  /\ txBits' = IF tx_tick THEN txBits ELSE txBits \cup {"START"}
  /\ UNCHANGED <<tx_list, hw_buffer, tx_tick, sender, outcome, hist, rxSide, power>>

(* The next frame leaves the list; nothing happens when there is none.     *)
TakeNext(bit) ==
  IF tx_list = <<>>
  THEN txTask' = [txTask EXCEPT !.todo = @ \ {bit}] /\ UNCHANGED tx_list
  ELSE /\ txTask' = [at |-> "send", todo |-> txTask.todo \ {bit}, frame |-> Head(tx_list)]
       /\ tx_list' = Tail(tx_list)

can_tx_handle_start ==
  /\ txTask.at = "todo" /\ "CHECK" \notin txTask.todo /\ "START" \in txTask.todo
  /\ TakeNext("START")
  /\ UNCHANGED <<hw_buffer, tx_tick, txBits, sender, outcome, hist, rxSide, power>>

can_tx_handle_done ==
  /\ txTask.at = "todo" /\ txTask.todo = {"DONE"}
  /\ TakeNext("DONE")
  /\ tx_tick' = FALSE
  /\ CanGoodFrame
  /\ UNCHANGED <<hw_buffer, txBits, sender, outcome, hist, rxSide, is_init, bus_sleep, pm,
                 count>>

(* Wrong: a frame the driver refuses is forgotten and not counted. *)
SendNextUncounted ==
  /\ txTask.at = "send"
  /\ IF drv_can_accepts
     THEN /\ hw_buffer' = Append(hw_buffer, txTask.frame)
          /\ outcome' = [outcome EXCEPT !.sent = @ \cup {txTask.frame}]
     ELSE UNCHANGED <<hw_buffer, outcome>>
  /\ txTask' = [txTask EXCEPT !.at = "sent", !.frame = NoFrame]
  /\ UNCHANGED <<tx_list, tx_tick, txBits, sender, hist, rxSide, power>>

SendNext ==
  /\ txTask.at = "send"
  /\ IF drv_can_accepts
     THEN /\ hw_buffer' = Append(hw_buffer, txTask.frame)
          /\ outcome' = [outcome EXCEPT !.sent = @ \cup {txTask.frame}]
     ELSE /\ outcome' = [outcome EXCEPT !.dropped = @ \cup {txTask.frame}]
          /\ UNCHANGED hw_buffer
  /\ txTask' = [txTask EXCEPT !.at = "sent", !.frame = NoFrame]
  /\ UNCHANGED <<tx_list, tx_tick, txBits, sender, hist, rxSide, power>>

SentNext ==
  /\ txTask.at = "sent"
  /\ Timed
  /\ txTask' = [txTask EXCEPT !.at = "todo"]
  /\ UNCHANGED <<tx_list, hw_buffer, txBits, sender, outcome, rxSide, power>>

TxIdle ==
  /\ txTask.at = "todo" /\ txTask.todo = {}
  /\ txTask' = [txTask EXCEPT !.at = "wait"]
  /\ UNCHANGED <<tx_list, hw_buffer, tx_tick, txBits, sender, outcome, hist, rxSide, power>>

CanTxTask == \/ can_tx_task \/ can_tx_handle_check \/ Checked
             \/ can_tx_handle_start \/ can_tx_handle_done
             \/ SendNext \/ SentNext \/ TxIdle
-----------------------------------------------------------------------------
(* Power management takes both modules down and up again, each in its own  *)
(* time; can_stop and can_start do so in two steps, the second of which    *)
(* shuts down or sets up the controller; before the shutdown the recovery  *)
(* from bus-off is ended.                                                  *)
GoDown ==
  /\ pm = [going |-> "up", can |-> "on", tx |-> "on"] /\ count.stops < MaxStops /\ CanBound(1)
  /\ pm' = [pm EXCEPT !.going = "down"]
  /\ count' = [count EXCEPT !.stops = @ + 1]
  /\ UNCHANGED <<is_init, recovery, bus_sleep, hist, rxSide, txSide>>

can_stop ==
  /\ pm.going = "down" /\ pm.can = "on"
  /\ pm' = [pm EXCEPT !.can = "stopping"]
  /\ rxBits' = {} /\ rx_list' = 0
  /\ bus_active' = FALSE /\ bus_sleep' = TRUE
  /\ hist' = [hist EXCEPT !.slept = TRUE, !.unread = FALSE]
  /\ UNCHANGED <<is_init, recovery, count, rxTask, told, txSide>>

can_mgr_deinit ==
  /\ pm.can = "stopping"
  /\ pm' = [pm EXCEPT !.can = "off"]
  /\ recovery' = recovery \ {"armed"}
  /\ is_init' = FALSE /\ ControllerReset
  /\ UNCHANGED <<bus_sleep, count, tx_list, tx_tick, txBits, txTask, sender, hist, rxSide>>

can_tx_stop ==
  /\ pm.going = "down" /\ pm.tx = "on"
  /\ pm' = [pm EXCEPT !.tx = "off"]
  /\ txBits' = {} /\ tx_list' = <<>>
  /\ outcome' = [outcome EXCEPT !.dropped = @ \cup Elements(tx_list)]
  /\ UNCHANGED <<is_init, recovery, bus_sleep, count, hw_buffer, tx_tick, txTask, sender, hist, rxSide>>

GoUp ==
  /\ pm = [going |-> "down", can |-> "off", tx |-> "off"]
  /\ pm' = [pm EXCEPT !.going = "up"]
  /\ UNCHANGED <<is_init, recovery, bus_sleep, count, hist, rxSide, txSide>>

can_start ==
  /\ pm.going = "up" /\ pm.can = "off"
  /\ pm' = [pm EXCEPT !.can = "starting"]
  /\ bus_active' = FALSE /\ bus_sleep' = FALSE
  /\ hist' = [hist EXCEPT !.slept = TRUE]
  /\ UNCHANGED <<is_init, recovery, count, rx_list, rxBits, rxTask, told, txSide>>

can_mgr_init ==
  /\ pm.can = "starting"
  /\ pm' = [pm EXCEPT !.can = "on"]
  /\ is_init' = TRUE /\ ControllerReset
  /\ UNCHANGED <<recovery, bus_sleep, count, tx_list, tx_tick, txBits, txTask, sender, hist,
                 rxSide>>

can_tx_start ==
  /\ pm.going = "up" /\ pm.tx = "off"
  /\ pm' = [pm EXCEPT !.tx = "on"]
  /\ tx_tick' = FALSE
  /\ hist' = [hist EXCEPT !.untimed = @ \/ tx_list # <<>>]
  /\ UNCHANGED <<is_init, recovery, bus_sleep, count, tx_list, hw_buffer, txBits, txTask,
                 sender, outcome, rxSide>>

CanPower == \/ GoDown \/ can_stop \/ can_mgr_deinit \/ can_tx_stop
            \/ GoUp \/ can_start \/ can_mgr_init \/ can_tx_start
-----------------------------------------------------------------------------
CanNext == \/ can_if_send \/ can_isr_callback \/ CanTask \/ CanTxTask \/ CanPower
           \/ BusOffExpires \/ BusOffUp

CanSpec == CanInit /\ [][CanNext]_canVars
-----------------------------------------------------------------------------
(* Every frame of can_if_send is in one place: on its way to the driver (in *)
(* the list, or in the hands of a task between two critical sections), with *)
(* the driver or past it, dropped, or refused.  The statistics know it: what *)
(* the driver took is counted as sent, what it did not take as dropped, and *)
(* none as both.  Sent is not on the bus: a frame that is in the buffer     *)
(* when the controller is shut down or set up anew is gone, and stays       *)
(* counted as sent.  And the two lists never hold more nodes than the pool. *)
NoFrameVanishes ==
  LET driver == Elements(hw_buffer) \cup outcome.bus \cup outcome.gone
      underway == Elements(tx_list) \cup {txTask.frame}
                    \cup (IF sender.at \in {"asked", "full"} THEN {sender.frame} ELSE {})
      over == outcome.dropped \cup outcome.refused
  IN /\ 1..sender.frame \subseteq driver \cup underway \cup over
     /\ underway \cap (driver \cup over) = {} /\ driver \cap over = {}
     /\ Elements(hw_buffer) \cap (outcome.bus \cup outcome.gone) = {}
     /\ outcome.bus \cap outcome.gone = {}
     /\ outcome.sent = driver \ (IF sender.at = "taken" THEN {sender.frame} ELSE {})
     /\ Free >= 0

(* A frame in the transmit list is never forgotten: a transmission is      *)
(* timed or done, or the task is at it.  The exception is a frame that was *)
(* queued around a stop, whose timing can_tx_start throws away.            *)
TxNotStuck ==
  tx_list # <<>> /\ ~hist.untimed
    => tx_tick \/ txBits # {} \/ txTask.at # "wait"

(* Received frames wait without a notification only when more of them had  *)
(* piled up than one pass of can_rx_handle_receive takes, or across a stop.*)
RxNotStuck ==
  rx_list > 0 /\ "RECEIVE" \notin rxBits /\ rxTask.at = "wait" /\ ~hist.unread
    => hist.backlog > CanRounds * CanOnce

(* No frame waits in either list for an event that will not come, however  *)
(* the interrupt, the two tasks, a sender and a stop interleave.           *)
NoFrameWaits == TxNotStuck /\ RxNotStuck

(* A client hears that the bus is active before it gets frames, and what   *)
(* it last heard is what the manager believes, except that a stop and a    *)
(* start declare the bus inactive and tell SLEEP and WAKEUP, which no      *)
(* client handles.                                                         *)
ClientsKnowTheBus ==
  /\ rxTask.at = "data" => told = "ACTIVE"
  /\ rxTask.at = "wait" /\ ~hist.slept => (told = "ACTIVE") = bus_active
=============================================================================

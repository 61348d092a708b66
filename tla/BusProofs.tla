------------------------------ MODULE BusProofs ------------------------------
(***************************************************************************)
(* Proofs about the CAN manager and the J1939 stack.                       *)
(*                                                                         *)
(* CanFrames: what its runs check holds for every size of the pool, of the *)
(* transmit buffer and of a pass, and any number of frames, stops and      *)
(* faults of the bus.                                                      *)
(* CanRecovery: a port recovers, whatever the limits of the recovery are.  *)
(* J1939Transport: the properties of the transport hold for any nodes,     *)
(* lengths, buffers and limits.                                            *)
(* J1939Filter: what is subscribed passes, for any groups and addresses.   *)
(***************************************************************************)
EXTENDS CanFrames, CanRecovery, J1939Transport, J1939Filter,
        SequenceTheorems, FiniteSetTheorems, WellFoundedInduction, TLAPS

(* Frames are numbered from 1; NoFrame is 0.                              *)
FrameNo == Nat \ {0}
RxStep == {"wait", "todo", "inactive", "active", "data", "busoff"}
RxBit == {"CHECK", "RECEIVE", "BUSERROR", "BUSOFF"}
TxStep == {"wait", "todo", "checked", "send", "sent"}

FramesTyped ==
  /\ rx_list \in Nat /\ tx_list \in Seq(FrameNo) /\ hw_buffer \in Seq(FrameNo)
  /\ Free >= 0

TasksTyped ==
  /\ rxTask \in [at : RxStep, todo : SUBSET RxBit, round : Nat]
  /\ rxBits \subseteq RxBit \ {"CHECK"}
  /\ txTask \in [at : TxStep, todo : SUBSET TxBit, frame : Nat]
  /\ txBits \subseteq {"START", "DONE"}
  /\ sender \in [at : {"idle", "asked", "taken", "full"}, frame : Nat]
  /\ sender.at # "idle" => sender.frame \in FrameNo
  /\ txTask.at = "send" => txTask.frame \in FrameNo
  /\ txTask.at # "send" => txTask.frame = NoFrame

OutcomeTyped ==
  outcome \in [bus : SUBSET FrameNo, gone : SUBSET FrameNo, sent : SUBSET FrameNo,
              dropped : SUBSET FrameNo, refused : SUBSET FrameNo]

(* A record of these four fields; nothing depends on their being Boolean.  *)
HistTyped ==
  /\ hist = [backlog |-> hist.backlog, unread |-> hist.unread,
             untimed |-> hist.untimed, slept |-> hist.slept]
  /\ hist.backlog \in Nat

BusTyped == bus_active \in BOOLEAN /\ told \in {"ACTIVE", "INACTIVE"}

CanTyped == FramesTyped /\ TasksTyped /\ OutcomeTyped /\ HistTyped /\ BusTyped

LEMMA ElementsAre ==
  ASSUME NEW T, NEW s \in Seq(T)
  PROVE  /\ Elements(s) \subseteq T
         /\ Elements(<<>>) = {}
         /\ \A e \in T : /\ Append(s, e) \in Seq(T) /\ Len(Append(s, e)) = Len(s) + 1
                         /\ Elements(Append(s, e)) = Elements(s) \cup {e}
         /\ s # <<>> => /\ Head(s) \in T /\ Tail(s) \in Seq(T)
                        /\ Len(Tail(s)) = Len(s) - 1 /\ Len(s) > 0
                        /\ Elements(s) = {Head(s)} \cup Elements(Tail(s))
<1>1. Elements(s) \subseteq T
  BY DEF Elements
<1>2. Elements(<<>>) = {}
  BY DEF Elements
<1>3. ASSUME NEW e \in T
      PROVE  /\ Append(s, e) \in Seq(T) /\ Len(Append(s, e)) = Len(s) + 1
             /\ Elements(Append(s, e)) = Elements(s) \cup {e}
  <2>1. /\ Append(s, e) \in Seq(T) /\ Len(Append(s, e)) = Len(s) + 1
        /\ \A i \in 1..Len(s) : Append(s, e)[i] = s[i]
        /\ Append(s, e)[Len(s) + 1] = e
    BY AppendProperties
  <2> QED
    BY <2>1 DEF Elements
<1>4. ASSUME s # <<>>
      PROVE  /\ Head(s) \in T /\ Tail(s) \in Seq(T)
             /\ Len(Tail(s)) = Len(s) - 1 /\ Len(s) > 0
             /\ Elements(s) = {Head(s)} \cup Elements(Tail(s))
  <2>1. /\ Head(s) \in T /\ Tail(s) \in Seq(T) /\ Len(Tail(s)) = Len(s) - 1 /\ Len(s) > 0
        /\ Head(s) = s[1] /\ \A i \in 1..(Len(s) - 1) : Tail(s)[i] = s[i + 1]
    BY <1>4
  <2>2. DOMAIN s = 1..Len(s) /\ DOMAIN Tail(s) = 1..(Len(s) - 1)
    BY <2>1
  <2>3. \A i \in 2..Len(s) : s[i] = Tail(s)[i - 1] /\ i - 1 \in 1..(Len(s) - 1)
    BY <2>1
  <2>4. Elements(s) \subseteq {Head(s)} \cup Elements(Tail(s))
    <3>1. SUFFICES ASSUME NEW i \in 1..Len(s)
                   PROVE  s[i] \in {Head(s)} \cup Elements(Tail(s))
      BY <2>2 DEF Elements
    <3>2. CASE i = 1
      BY <2>1, <3>2
    <3>3. CASE i \in 2..Len(s)
      BY <2>2, <2>3, <3>3 DEF Elements
    <3> QED
      BY <2>1, <3>2, <3>3
  <2>5. {Head(s)} \cup Elements(Tail(s)) \subseteq Elements(s)
    BY <2>1, <2>2 DEF Elements
  <2> QED
    BY <2>1, <2>4, <2>5
<1> QED
  BY <1>1, <1>2, <1>3, <1>4

LEMMA CanConstants ==
  /\ CanNodes \in Nat /\ MaxSends \in Nat
  /\ CanRounds \in Nat /\ CanRounds > 0 /\ CanOnce \in Nat /\ CanOnce > 0
<1>1. CanNodes \in {CanNodes, MaxSends, MaxArrivals, MaxStops, MaxFaults, MaxCan}
  OBVIOUS
<1>2. MaxSends \in {CanNodes, MaxSends, MaxArrivals, MaxStops, MaxFaults, MaxCan}
  OBVIOUS
<1>3. CanRounds \in {CanSlots, CanRounds, CanOnce} /\ CanOnce \in {CanSlots, CanRounds, CanOnce}
  OBVIOUS
<1> QED
  BY <1>1, <1>2, <1>3, CanAssumption DEF CanAssumption

LEMMA FramesAre ==
  ASSUME NEW s \in Seq(FrameNo)
  PROVE  /\ Elements(s) \subseteq FrameNo
         /\ \A e \in FrameNo : /\ Append(s, e) \in Seq(FrameNo) /\ Len(Append(s, e)) = Len(s) + 1
                         /\ Elements(Append(s, e)) = Elements(s) \cup {e}
         /\ s # <<>> => /\ Head(s) \in FrameNo /\ Tail(s) \in Seq(FrameNo)
                        /\ Len(Tail(s)) = Len(s) - 1 /\ Len(s) > 0
                        /\ Elements(s) = {Head(s)} \cup Elements(Tail(s))
  BY ElementsAre

LEMMA CanTypedInit == CanInit => CanTyped
<1> SUFFICES ASSUME CanInit PROVE CanTyped
  OBVIOUS
<1>1. FramesTyped
  BY CanConstants DEF CanInit, FramesTyped, Free
<1>2. TasksTyped
  BY DEF CanInit, TasksTyped, RxStep, RxBit, TxStep, TxBit, NoFrame
<1>3. OutcomeTyped /\ HistTyped /\ BusTyped
  BY DEF CanInit, OutcomeTyped, HistTyped, BusTyped
<1> QED
  BY <1>1, <1>2, <1>3 DEF CanTyped

LEMMA FramesTypedNext == ASSUME CanTyped, CanNext PROVE FramesTyped'
<1> USE DEF CanTyped
<1>1. CASE UNCHANGED <<rx_list, tx_list, hw_buffer>>
  BY <1>1 DEF FramesTyped, Free
<1>2. CASE Offer
  <2>1. sender.frame \in FrameNo
    BY <1>2 DEF Offer, TasksTyped
  <2>2. hw_buffer' \in {hw_buffer, Append(hw_buffer, sender.frame)} /\ UNCHANGED <<rx_list, tx_list>>
    BY <1>2 DEF Offer, rxSide
  <2>3. hw_buffer' \in Seq(FrameNo)
    BY <2>1, <2>2, FramesAre DEF FramesTyped
  <2> QED
    BY <2>2, <2>3 DEF FramesTyped, Free
<1>3. CASE Queue
  <2>1. sender.frame \in FrameNo
    BY <1>3 DEF Queue, TasksTyped
  <2>2. CASE Free # 0
    <3>1. tx_list' = Append(tx_list, sender.frame) /\ UNCHANGED <<rx_list, hw_buffer>>
      BY <1>3, <2>2 DEF Queue, rxSide
    <3>2. tx_list' \in Seq(FrameNo) /\ Len(tx_list') = Len(tx_list) + 1
      BY <2>1, <3>1, FramesAre DEF FramesTyped
    <3> QED
      BY <2>2, <3>1, <3>2, CanConstants DEF FramesTyped, Free
  <2> QED
    BY <1>1, <1>3, <2>2 DEF Queue, rxSide
<1>4. CASE Received
  <2>1. rx_list' \in Nat /\ UNCHANGED <<tx_list, hw_buffer>> /\ (rx_list' = rx_list \/ (rx_list' = rx_list + 1 /\ Free # 0))
    BY <1>4 DEF Received, FramesTyped
  <2> QED
    BY <2>1, CanConstants DEF FramesTyped, Free
<1>5. CASE Transmitted
  BY <1>5, FramesAre DEF Transmitted, rxSide, power, FramesTyped, Free
<1>6. ASSUME rx_list' \in Nat, rx_list' <= rx_list, UNCHANGED <<tx_list, hw_buffer>>
      PROVE  FramesTyped'
  BY <1>6, CanConstants DEF FramesTyped, Free
<1>7. CASE can_rx_handle_check
  BY <1>6, <1>7 DEF can_rx_handle_check, Silence, txSide, FramesTyped
<1>8. CASE can_rx_handle_receive
  BY <1>6, <1>8, CanConstants DEF can_rx_handle_receive, txSide, FramesTyped
<1>9. CASE can_stop
  BY <1>6, <1>9 DEF can_stop, txSide, FramesTyped
<1>10. ASSUME tx_list' \in Seq(FrameNo), Len(tx_list') <= Len(tx_list), UNCHANGED <<rx_list, hw_buffer>>
       PROVE  FramesTyped'
  BY <1>10, CanConstants DEF FramesTyped, Free
<1>11. CASE can_tx_handle_start \/ can_tx_handle_done
  <2>1. /\ (tx_list # <<>> /\ tx_list' = Tail(tx_list)) \/ tx_list' = tx_list
        /\ UNCHANGED <<rx_list, hw_buffer>>
    BY <1>11 DEF can_tx_handle_start, can_tx_handle_done, TakeNext, rxSide
  <2> QED
    BY <1>10, <2>1, FramesAre DEF FramesTyped
<1>12. CASE SendNext
  <2>1. txTask.frame \in FrameNo
    BY <1>12 DEF SendNext, TasksTyped
  <2>2. hw_buffer' \in {hw_buffer, Append(hw_buffer, txTask.frame)} /\ UNCHANGED <<rx_list, tx_list>>
    BY <1>12 DEF SendNext, rxSide
  <2>3. hw_buffer' \in Seq(FrameNo)
    BY <2>1, <2>2, FramesAre DEF FramesTyped
  <2> QED
    BY <2>2, <2>3 DEF FramesTyped, Free
<1>13. ASSUME ControllerReset, UNCHANGED <<rx_list, tx_list>>
       PROVE  FramesTyped'
  BY <1>13 DEF ControllerReset, FramesTyped, Free
<1>14. CASE can_tx_stop
  BY <1>10, <1>14 DEF can_tx_stop, rxSide, FramesTyped
<1>20. CASE can_rx_handle_buserror
  BY <1>20, CanConstants DEF can_rx_handle_buserror, FramesTyped, Free
<1>21. CASE can_rx_handle_busoff
  BY <1>6, <1>21 DEF can_rx_handle_busoff, txSide, FramesTyped
<1>22. CASE BusOffDown
  BY <1>1, <1>13, <1>22 DEF BusOffDown
<1>23. CASE can_mgr_deinit \/ can_mgr_init \/ BusOffUp
  BY <1>13, <1>23 DEF can_mgr_deinit, can_mgr_init, BusOffUp, rxSide
<1>24. BusFault \/ BusOffExpires => UNCHANGED <<rx_list, tx_list, hw_buffer>>
  BY DEF BusFault, BusOffExpires, rxSide, txSide
<1>15. Ask \/ Taken => UNCHANGED <<rx_list, tx_list, hw_buffer>>
  BY DEF Ask, Taken, rxSide
<1>16. can_task \/ TellInactive \/ TellActive \/ HandOver \/ RxIdle
         => UNCHANGED <<rx_list, tx_list, hw_buffer>>
  BY DEF can_task, TellInactive, TellActive, HandOver, RxIdle, txSide
<1>17. can_tx_task \/ can_tx_handle_check \/ Checked \/ SentNext \/ TxIdle
         => UNCHANGED <<rx_list, tx_list, hw_buffer>>
  BY DEF can_tx_task, can_tx_handle_check, Checked, SentNext, TxIdle, rxSide
<1>18. GoDown \/ GoUp \/ can_start \/ can_tx_start => UNCHANGED <<rx_list, tx_list, hw_buffer>>
  BY DEF GoDown, GoUp, can_start, can_tx_start, rxSide, txSide
<1> QED
  BY <1>1, <1>2, <1>3, <1>4, <1>5, <1>7, <1>8, <1>9, <1>11, <1>12, <1>14,
     <1>15, <1>16, <1>17, <1>18, <1>20, <1>21, <1>22, <1>23, <1>24
     DEF CanNext, can_if_send, can_isr_callback, CanTask, CanTxTask, CanPower

LEMMA TasksTypedNext == ASSUME CanTyped, CanNext PROVE TasksTyped'
<1> USE DEF CanTyped
<1>1. CASE UNCHANGED <<rxTask, rxBits, txTask, txBits, sender>>
  BY <1>1 DEF TasksTyped
<1>2. CASE can_if_send
  <2>1. UNCHANGED <<rxTask, rxBits, txTask, txBits>>
    BY <1>2 DEF can_if_send, Ask, Offer, Taken, Queue, rxSide
  <2>2. /\ sender' \in [at : {"idle", "asked", "taken", "full"}, frame : Nat]
        /\ sender'.at # "idle" => sender'.frame \in FrameNo
    BY <1>2 DEF can_if_send, Ask, Offer, Taken, Queue, TasksTyped, FrameNo
  <2> QED
    BY <2>1, <2>2 DEF TasksTyped
<1>3. CASE Received \/ BusFault
  BY <1>3 DEF Received, BusFault, TasksTyped, RxBit
<1>4. CASE Transmitted
  BY <1>4 DEF Transmitted, TasksTyped, rxSide
<1>5. CASE CanTask
  <2>1. UNCHANGED <<txTask, txBits, sender>>
    BY <1>5 DEF CanTask, can_task, can_rx_handle_check, Silence, TellInactive, can_rx_handle_receive,
                TellActive, HandOver, RxIdle, can_rx_handle_buserror, can_rx_handle_busoff,
                BusOffDown, txSide
  <2>2. rxBits' \subseteq RxBit \ {"CHECK"}
    BY <1>5 DEF CanTask, can_task, can_rx_handle_check, Silence, TellInactive, can_rx_handle_receive,
                TellActive, HandOver, RxIdle, can_rx_handle_buserror, can_rx_handle_busoff,
                BusOffDown, TasksTyped
  <2>a. rxTask \in [at : RxStep, todo : SUBSET RxBit, round : Nat] /\ rxBits \subseteq RxBit
    BY DEF TasksTyped
  <2>b. \A event : Handled(event) => rxTask' \in [at : RxStep, todo : SUBSET RxBit, round : Nat]
    BY <2>a DEF Handled, RxStep
  <2>3. rxTask' \in [at : RxStep, todo : SUBSET RxBit, round : Nat]
    <3>1. CASE can_task
      <4>1. PICK check \in SUBSET {"CHECK"} :
              rxTask' = IF bus_sleep THEN rxTask
                        ELSE [at |-> "todo", todo |-> rxBits \cup check, round |-> 0]
        BY <3>1 DEF can_task
      <4>2. rxBits \cup check \in SUBSET RxBit
        BY <2>a, <4>1 DEF RxBit
      <4> QED
        BY <2>a, <4>1, <4>2 DEF RxStep
    <3>2. CASE can_rx_handle_check
      BY <2>a, <3>2 DEF can_rx_handle_check, Silence, RxStep
    <3>5. CASE TellInactive
      BY <2>a, <3>5 DEF TellInactive, RxStep
    <3>3. CASE can_rx_handle_receive
      BY <2>a, <2>b, <3>3 DEF can_rx_handle_receive, RxStep
    <3>7. CASE TellActive
      BY <2>a, <3>7 DEF TellActive, RxStep
    <3>4. CASE HandOver
      <4>1. CASE rxTask.round + 1 < CanRounds
        <5>1. rxTask' = [rxTask EXCEPT !.at = "todo", !.round = rxTask.round + 1]
          BY <3>4, <4>1 DEF HandOver
        <5>2. rxTask.round + 1 \in Nat
          BY <2>a
        <5> QED
          BY <2>a, <5>1, <5>2 DEF RxStep
      <4>2. CASE ~(rxTask.round + 1 < CanRounds)
        BY <2>b, <3>4, <4>2 DEF HandOver
      <4> QED
        BY <4>1, <4>2
    <3>6. CASE RxIdle
      BY <2>a, <3>6 DEF RxIdle, RxStep
    <3>8. CASE can_rx_handle_buserror
      BY <2>b, <3>8 DEF can_rx_handle_buserror
    <3>9. CASE can_rx_handle_busoff \/ BusOffDown
      BY <2>a, <3>9 DEF can_rx_handle_busoff, BusOffDown, RxStep
    <3> QED
      BY <1>5, <3>1, <3>2, <3>3, <3>4, <3>5, <3>6, <3>7, <3>8, <3>9 DEF CanTask
  <2> QED
    BY <2>1, <2>2, <2>3 DEF TasksTyped
<1>6. CASE CanTxTask
  <2>1. UNCHANGED <<rxTask, rxBits, sender>>
    BY <1>6 DEF CanTxTask, can_tx_task, can_tx_handle_check, Checked, can_tx_handle_start,
                can_tx_handle_done, SendNext, SentNext, TxIdle, rxSide
  <2>2. txBits' \subseteq {"START", "DONE"}
    BY <1>6 DEF CanTxTask, can_tx_task, can_tx_handle_check, Checked, can_tx_handle_start,
                can_tx_handle_done, SendNext, SentNext, TxIdle, TasksTyped
  <2>a. /\ txTask \in [at : TxStep, todo : SUBSET TxBit, frame : Nat]
        /\ txBits \subseteq TxBit
        /\ txTask.at = "send" => txTask.frame \in FrameNo
        /\ txTask.at # "send" => txTask.frame = NoFrame
    BY DEF TasksTyped, TxBit
  <2>3. /\ txTask' \in [at : TxStep, todo : SUBSET TxBit, frame : Nat]
        /\ txTask'.at = "send" => txTask'.frame \in FrameNo
        /\ txTask'.at # "send" => txTask'.frame = NoFrame
    <3>1. CASE can_tx_task
      <4>1. PICK todo \in SUBSET TxBit : txTask' \in {txTask, [txTask EXCEPT !.at = "todo", !.todo = todo]}
        <5>1. PICK check \in SUBSET {"CHECK"} : txTask' = IF bus_sleep THEN txTask
                    ELSE [txTask EXCEPT !.at = "todo", !.todo = txBits \cup check]
          BY <3>1 DEF can_tx_task
        <5>2. txBits \cup check \in SUBSET TxBit
          BY <2>a, <5>1 DEF TxBit
        <5> QED
          BY <5>1, <5>2
      <4> QED
        BY <2>a, <4>1, <3>1 DEF TxStep, can_tx_task
    <3>2. CASE can_tx_handle_check
      BY <2>a, <3>2 DEF can_tx_handle_check, TxStep
    <3>5. CASE Checked
      BY <2>a, <3>5 DEF Checked, TxStep
    <3>3. CASE can_tx_handle_start \/ can_tx_handle_done
      <4>1. tx_list # <<>> => Head(tx_list) \in FrameNo
        BY FramesAre DEF FramesTyped
      <4>2. FrameNo \subseteq Nat
        BY DEF FrameNo
      <4> QED
        BY <3>3, <4>1, <4>2 DEF can_tx_handle_start, can_tx_handle_done, TakeNext, TasksTyped, TxStep
    <3>4. CASE SendNext
      BY <2>a, <3>4 DEF SendNext, TxStep, NoFrame
    <3>6. CASE SentNext \/ TxIdle
      BY <2>a, <3>6 DEF SentNext, TxIdle, TxStep
    <3> QED
      BY <1>6, <3>1, <3>2, <3>3, <3>4, <3>5, <3>6 DEF CanTxTask
  <2> QED
    BY <2>1, <2>2, <2>3 DEF TasksTyped
<1>7. CASE CanPower
  BY <1>7 DEF CanPower, GoDown, can_stop, can_mgr_deinit, can_tx_stop, GoUp, can_start,
              can_mgr_init, can_tx_start, TasksTyped, rxSide, txSide
<1>8. CASE BusOffExpires \/ BusOffUp
  BY <1>1, <1>8 DEF BusOffExpires, BusOffUp, rxSide, txSide
<1> QED
  BY <1>2, <1>3, <1>4, <1>5, <1>6, <1>7, <1>8 DEF CanNext, can_isr_callback

LEMMA OutcomeTypedNext == ASSUME CanTyped, CanNext PROVE OutcomeTyped'
<1> USE DEF CanTyped
<1>1. CASE UNCHANGED outcome
  BY <1>1 DEF OutcomeTyped
<1>2. CASE can_if_send
  <2>1. sender.frame + 1 \in FrameNo /\ (sender.at # "idle" => sender.frame \in FrameNo)
    BY DEF TasksTyped, FrameNo
  <2>2. \/ UNCHANGED outcome
        \/ outcome' = [outcome EXCEPT !.refused = @ \cup {sender.frame + 1}]
        \/ sender.at # "idle" /\ outcome' = [outcome EXCEPT !.sent = @ \cup {sender.frame}]
        \/ sender.at # "idle" /\ outcome' = [outcome EXCEPT !.refused = @ \cup {sender.frame}]
    <3>1. CASE Ask
      BY <3>1 DEF Ask
    <3>2. CASE Queue
      BY <3>2 DEF Queue
    <3>3. CASE Taken
      BY <3>3 DEF Taken
    <3> QED
      BY <1>2, <3>1, <3>2, <3>3 DEF can_if_send, Offer
  <2> QED
    BY <2>1, <2>2 DEF OutcomeTyped
<1>3. CASE Transmitted
  <2>1. Head(hw_buffer) \in FrameNo
    BY <1>3, FramesAre DEF Transmitted, FramesTyped
  <2> QED
    BY <1>3, <2>1 DEF Transmitted, OutcomeTyped
<1>4. CASE SendNext
  BY <1>4 DEF SendNext, TasksTyped, OutcomeTyped
<1>5. Elements(hw_buffer) \subseteq FrameNo /\ Elements(tx_list) \subseteq FrameNo
  BY FramesAre DEF FramesTyped
<1>6. CASE ControllerReset
  BY <1>5, <1>6 DEF ControllerReset, OutcomeTyped
<1>7. CASE can_tx_stop \/ can_rx_handle_buserror
  BY <1>5, <1>7 DEF can_tx_stop, can_rx_handle_buserror, OutcomeTyped
<1>8. Received \/ BusFault \/ BusOffExpires => UNCHANGED outcome
  BY DEF Received, BusFault, BusOffExpires, txSide
<1>9. CanTask => UNCHANGED outcome \/ ControllerReset \/ can_rx_handle_buserror
  BY DEF CanTask, can_task, can_rx_handle_check, Silence, TellInactive, can_rx_handle_receive,
         TellActive, HandOver, RxIdle, can_rx_handle_busoff, BusOffDown, txSide
<1>10. CanTxTask => UNCHANGED outcome \/ SendNext
  BY DEF CanTxTask, can_tx_task, can_tx_handle_check, Checked, can_tx_handle_start,
         can_tx_handle_done, SentNext, TxIdle
<1>11. CanPower \/ BusOffUp => UNCHANGED outcome \/ ControllerReset \/ can_tx_stop
  BY DEF CanPower, GoDown, can_stop, can_mgr_deinit, GoUp, can_start, can_mgr_init, can_tx_start,
         BusOffUp, txSide
<1> QED
  BY <1>1, <1>2, <1>3, <1>4, <1>6, <1>7, <1>8, <1>9, <1>10, <1>11 DEF CanNext, can_isr_callback

LEMMA HistTypedNext == ASSUME CanTyped, CanNext PROVE HistTyped'
<1> USE DEF CanTyped
<1>1. CASE UNCHANGED hist
  BY <1>1 DEF HistTyped
<1>2. CASE can_task
  BY <1>2 DEF can_task, HistTyped, FramesTyped
<1>3. ASSUME NEW x, hist' = [hist EXCEPT !.untimed = x] \/ hist' = [hist EXCEPT !.slept = x]
      PROVE  HistTyped'
  BY <1>3 DEF HistTyped
<1>4. can_if_send => UNCHANGED hist \/ hist' = [hist EXCEPT !.untimed = FALSE]
  BY DEF can_if_send, Ask, Offer, Taken, Queue, Timed
<1>5. can_isr_callback \/ BusOffExpires \/ BusOffUp => UNCHANGED hist
  BY DEF can_isr_callback, Received, Transmitted, BusFault, BusOffExpires, BusOffUp
<1>6. CanTask => \/ UNCHANGED hist \/ can_task
                 \/ hist' = [hist EXCEPT !.slept = @ /\ rx_list = 0]
  BY DEF CanTask, can_rx_handle_check, Silence, TellInactive, can_rx_handle_receive, TellActive,
         HandOver, RxIdle, can_rx_handle_buserror, can_rx_handle_busoff, BusOffDown
<1>7. CanTxTask => \/ UNCHANGED hist \/ hist' = [hist EXCEPT !.untimed = FALSE]
                   \/ hist' = [hist EXCEPT !.untimed = @ \/ (bus_sleep /\ tx_list # <<>>)]
  BY DEF CanTxTask, can_tx_task, can_tx_handle_check, Checked, can_tx_handle_start,
         can_tx_handle_done, SendNext, SentNext, TxIdle, Timed
<1>8. CanPower => \/ UNCHANGED hist \/ can_stop \/ hist' = [hist EXCEPT !.slept = TRUE]
                  \/ hist' = [hist EXCEPT !.untimed = @ \/ tx_list # <<>>]
  BY DEF CanPower, GoDown, can_mgr_deinit, can_tx_stop, GoUp, can_start, can_mgr_init, can_tx_start
<1>9. CASE can_stop
  BY <1>9 DEF can_stop, HistTyped
<1> QED
  BY <1>1, <1>2, <1>3, <1>4, <1>5, <1>6, <1>7, <1>8, <1>9 DEF CanNext

LEMMA BusTypedNext == ASSUME CanTyped, CanNext PROVE BusTyped'
<1> USE DEF CanTyped
<1>1. can_if_send \/ can_isr_callback \/ CanTxTask \/ BusOffExpires \/ BusOffUp
        => UNCHANGED <<bus_active, told>>
  BY DEF can_if_send, Ask, Offer, Taken, Queue, can_isr_callback, Received, Transmitted,
         BusFault, BusOffExpires, BusOffUp,
         CanTxTask, can_tx_task, can_tx_handle_check, Checked, can_tx_handle_start,
         can_tx_handle_done, SendNext, SentNext, TxIdle, rxSide
<1>2. CanTask => bus_active' \in {bus_active, TRUE, FALSE} /\ told' \in {told, "ACTIVE", "INACTIVE"}
  BY DEF CanTask, can_task, can_rx_handle_check, Silence, TellInactive, can_rx_handle_receive,
         TellActive, HandOver, RxIdle, can_rx_handle_buserror, can_rx_handle_busoff, BusOffDown
<1>3. CanPower => bus_active' \in {bus_active, FALSE} /\ told' = told
  BY DEF CanPower, GoDown, can_stop, can_mgr_deinit, can_tx_stop, GoUp, can_start, can_mgr_init,
         can_tx_start, rxSide
<1> QED
  BY <1>1, <1>2, <1>3 DEF CanNext, BusTyped

LEMMA CanTypedNext == CanTyped /\ [CanNext]_canVars => CanTyped'
<1>1. CanTyped /\ UNCHANGED canVars => CanTyped'
  BY DEF canVars, CanTyped, FramesTyped, TasksTyped, OutcomeTyped, HistTyped, BusTyped, Free
<1> QED
  BY <1>1, FramesTypedNext, TasksTypedNext, OutcomeTypedNext, HistTypedNext, BusTypedNext DEF CanTyped

LEMMA CanTypedAlways == CanSpec => []CanTyped
  BY CanTypedInit, CanTypedNext, PTL DEF CanSpec
-----------------------------------------------------------------------------
(* Every frame asked for so far is in exactly one place, once.             *)
InHand == {txTask.frame} \ {NoFrame}
Offered == IF sender.at \in {"asked", "full"} THEN {sender.frame} ELSE {}
Dropped == outcome.dropped \cup outcome.refused
Injective(s) == \A i, j \in DOMAIN s : s[i] = s[j] => i = j

Partition(list, buffer, hand, offer, bus, gone, dropped, n) ==
  /\ list \cap (buffer \cup hand \cup offer \cup bus \cup gone \cup dropped) = {}
  /\ buffer \cap (hand \cup offer \cup bus \cup gone \cup dropped) = {}
  /\ hand \cap (offer \cup bus \cup gone \cup dropped) = {}
  /\ offer \cap (bus \cup gone \cup dropped) = {}
  /\ bus \cap (gone \cup dropped) = {} /\ gone \cap dropped = {}
  /\ list \cup buffer \cup hand \cup offer \cup bus \cup gone \cup dropped = 1..n

Places ==
  /\ Injective(tx_list) /\ Injective(hw_buffer)
  /\ Partition(Elements(tx_list), Elements(hw_buffer), InHand, Offered,
               outcome.bus, outcome.gone, Dropped, sender.frame)

LEMMA InjectiveIs ==
  ASSUME NEW s \in Seq(FrameNo), Injective(s)
  PROVE  /\ \A e \in FrameNo : e \notin Elements(s) => Injective(Append(s, e))
         /\ s # <<>> => Injective(Tail(s)) /\ Head(s) \notin Elements(Tail(s))
<1>1. ASSUME NEW e \in FrameNo, e \notin Elements(s)
      PROVE  Injective(Append(s, e))
  <2>1. /\ DOMAIN Append(s, e) = 1..(Len(s) + 1) /\ DOMAIN s = 1..Len(s) /\ Len(s) \in Nat
        /\ \A i \in 1..Len(s) : Append(s, e)[i] = s[i]
        /\ Append(s, e)[Len(s) + 1] = e
    BY AppendProperties
  <2>2. \A i \in 1..Len(s) : s[i] # e
    BY <1>1, <2>1 DEF Elements
  <2> QED
    BY <2>1, <2>2 DEF Injective
<1>2. ASSUME s # <<>>
      PROVE  Injective(Tail(s)) /\ Head(s) \notin Elements(Tail(s))
  <2>1. /\ Len(s) \in Nat /\ Len(s) > 0 /\ Head(s) = s[1]
        /\ DOMAIN s = 1..Len(s) /\ DOMAIN Tail(s) = 1..(Len(s) - 1)
        /\ \A i \in 1..(Len(s) - 1) : Tail(s)[i] = s[i + 1]
    BY <1>2
  <2>2. \A i \in 1..(Len(s) - 1) : i + 1 \in DOMAIN s /\ 1 \in DOMAIN s /\ i + 1 # 1
    BY <2>1
  <2> QED
    BY <2>1, <2>2 DEF Injective, Elements
<1> QED
  BY <1>1, <1>2

(* A frame, or all that one place holds, moves to another place.           *)
LEMMA Moves ==
  ASSUME NEW l, NEW b, NEW h, NEW o, NEW s, NEW g, NEW d, NEW n \in Nat,
         Partition(l, b, h, o, s, g, d, n)
  PROVE  /\ o = {} => /\ Partition(l, b, h, {n + 1}, s, g, d, n + 1)
                      /\ Partition(l, b, h, o, s, g, d \cup {n + 1}, n + 1)
         /\ Partition(l, b \cup o, h, {}, s, g, d, n) /\ Partition(l \cup o, b, h, {}, s, g, d, n)
         /\ Partition(l, b, h, {}, s, g, d \cup o, n)
         /\ Partition(l, b \cup h, {}, o, s, g, d, n) /\ Partition(l, b, {}, o, s, g, d \cup h, n)
         /\ Partition(l, {}, h, o, s, g \cup b, d, n) /\ Partition({}, b, h, o, s, g, d \cup l, n)
         /\ \A x, rest :
              /\ b = {x} \cup rest /\ x \notin rest
                   => Partition(l, rest, h, o, s \cup {x}, g, d, n)
              /\ l = {x} \cup rest /\ x \notin rest /\ h = {}
                   => Partition(rest, b, {x}, o, s, g, d, n)
<1>1. 1..(n + 1) = (1..n) \cup {n + 1} /\ n + 1 \notin 1..n
  OBVIOUS
<1>2. o = {} => /\ Partition(l, b, h, {n + 1}, s, g, d, n + 1)
                /\ Partition(l, b, h, o, s, g, d \cup {n + 1}, n + 1)
  <2> SUFFICES ASSUME o = {} PROVE /\ Partition(l, b, h, {n + 1}, s, g, d, n + 1)
                                   /\ Partition(l, b, h, o, s, g, d \cup {n + 1}, n + 1)
    OBVIOUS
  <2> DEFINE m == n + 1
  <2>1. m \notin l \cup b \cup h \cup o \cup s \cup g \cup d
    BY <1>1 DEF Partition
  <2>2. l \cup b \cup h \cup o \cup s \cup g \cup d \cup {m} = 1..m
    BY <1>1 DEF Partition
  <2> HIDE DEF m
  <2>3. Partition(l, b, h, {m}, s, g, d, m)
    BY <2>1, <2>2 DEF Partition
  <2>4. Partition(l, b, h, o, s, g, d \cup {m}, m)
    BY <2>1, <2>2 DEF Partition
  <2> QED
    BY <2>3, <2>4 DEF m
<1>3. Partition(l, b \cup o, h, {}, s, g, d, n) /\ Partition(l \cup o, b, h, {}, s, g, d, n)
  BY DEF Partition
<1>4. Partition(l, b, h, {}, s, g, d \cup o, n)
  BY DEF Partition
<1>5. Partition(l, b \cup h, {}, o, s, g, d, n) /\ Partition(l, b, {}, o, s, g, d \cup h, n)
  BY DEF Partition
<1>6. Partition(l, {}, h, o, s, g \cup b, d, n) /\ Partition({}, b, h, o, s, g, d \cup l, n)
  BY DEF Partition
<1>7. ASSUME NEW x, NEW rest
      PROVE  /\ b = {x} \cup rest /\ x \notin rest
                  => Partition(l, rest, h, o, s \cup {x}, g, d, n)
             /\ l = {x} \cup rest /\ x \notin rest /\ h = {}
                  => Partition(rest, b, {x}, o, s, g, d, n)
  BY DEF Partition
<1> QED
  BY <1>2, <1>3, <1>4, <1>5, <1>6, <1>7

placeVars == <<tx_list, hw_buffer, InHand, Offered, outcome.bus, outcome.gone, Dropped,
               sender.frame>>

LEMMA PlacesKept == Places /\ UNCHANGED placeVars => Places'
  BY DEF Places, placeVars, Injective, Partition, Elements

LEMMA PlacesInit == CanInit => Places
<1> SUFFICES ASSUME CanInit PROVE Places
  OBVIOUS
<1>1. tx_list = <<>> /\ hw_buffer = <<>> /\ Elements(<<>>) = {} /\ Injective(<<>>)
  BY ElementsAre DEF CanInit, Elements, Injective
<1>2. /\ InHand = {} /\ Offered = {} /\ outcome.bus = {} /\ outcome.gone = {}
      /\ Dropped = {} /\ sender.frame = 0
  BY DEF CanInit, InHand, Offered, Dropped, NoFrame
<1> QED
  BY <1>1, <1>2 DEF Places, Partition

LEMMA PlacesNext == ASSUME CanTyped, Places, CanNext PROVE Places'
<1> DEFINE l == Elements(tx_list)
           b == Elements(hw_buffer)
           n == sender.frame
           s == outcome.bus
           g == outcome.gone
<1>1. /\ n \in Nat /\ tx_list \in Seq(FrameNo) /\ hw_buffer \in Seq(FrameNo)
      /\ Injective(tx_list) /\ Injective(hw_buffer)
      /\ Partition(l, b, InHand, Offered, s, g, Dropped, n)
  BY DEF CanTyped, FramesTyped, TasksTyped, Places
<1>2. /\ outcome \in [bus : SUBSET FrameNo, gone : SUBSET FrameNo, sent : SUBSET FrameNo,
                      dropped : SUBSET FrameNo, refused : SUBSET FrameNo]
      /\ sender \in [at : {"idle", "asked", "taken", "full"}, frame : Nat]
  BY DEF CanTyped, OutcomeTyped, TasksTyped
<1>3. CASE Ask
  <2>1. Offered = {} /\ sender'.frame = n + 1 /\ UNCHANGED <<tx_list, hw_buffer, InHand>>
    BY <1>2, <1>3 DEF Ask, Offered, InHand
  <2>2. CASE is_init
    <3>1. Offered' = {n + 1} /\ UNCHANGED outcome
      BY <1>2, <1>3, <2>2 DEF Ask, Offered
    <3>2. Partition(l, b, InHand, {n + 1}, s, g, Dropped, n + 1)
      BY <1>1, <2>1, Moves
    <3> QED
      BY <1>1, <2>1, <3>1, <3>2 DEF Places, Dropped, Injective
  <2>3. CASE ~is_init
    <3>1. Offered' = {} /\ outcome'.bus = s /\ outcome'.gone = g /\ Dropped' = Dropped \cup {n + 1}
      BY <1>2, <1>3, <2>3 DEF Ask, Offered, Dropped
    <3>2. Partition(l, b, InHand, Offered, s, g, Dropped \cup {n + 1}, n + 1)
      BY <1>1, <2>1, Moves
    <3> QED
      BY <1>1, <2>1, <3>1, <3>2 DEF Places, Injective
  <2> QED
    BY <2>2, <2>3
<1>4. CASE Offer
  <2>1. /\ sender.at = "asked" /\ sender'.frame = n /\ Offered = {n} /\ n \in FrameNo
        /\ UNCHANGED <<tx_list, InHand, outcome>>
    BY <1>2, <1>4 DEF Offer, Offered, InHand, CanTyped, TasksTyped
  <2>2. CASE drv_can_accepts
    <3>1. Offered' = {} /\ hw_buffer' = Append(hw_buffer, n)
      BY <1>2, <1>4, <2>2 DEF Offer, Offered
    <3>2. n \notin b
      BY <1>1, <2>1 DEF Partition
    <3>3. Elements(hw_buffer)' = b \cup Offered /\ Injective(hw_buffer)'
      BY <1>1, <2>1, <3>1, <3>2, FramesAre, InjectiveIs
    <3>4. Partition(l, b \cup Offered, InHand, {}, s, g, Dropped, n)
      BY <1>1, Moves
    <3> QED
      BY <1>1, <2>1, <3>1, <3>3, <3>4 DEF Places, Dropped, Injective
  <2>3. CASE ~drv_can_accepts
    <3>1. UNCHANGED placeVars
      BY <1>2, <1>4, <2>1, <2>3 DEF Offer, Offered, Dropped, placeVars
    <3> QED
      BY <3>1, PlacesKept
  <2> QED
    BY <2>2, <2>3
<1>5. CASE Taken
  <2>1. UNCHANGED placeVars
    BY <1>2, <1>5 DEF Taken, Offered, InHand, Dropped, placeVars
  <2> QED
    BY <2>1, PlacesKept
<1>6. CASE Queue
  <2>1. /\ sender'.frame = n /\ Offered = {n} /\ n \in FrameNo /\ Offered' = {}
        /\ UNCHANGED <<hw_buffer, InHand>>
    BY <1>2, <1>6 DEF Queue, Offered, InHand, CanTyped, TasksTyped
  <2>2. CASE Free = 0
    <3>1. UNCHANGED tx_list /\ outcome'.bus = s /\ outcome'.gone = g /\ Dropped' = Dropped \cup Offered
      BY <1>2, <1>6, <2>1, <2>2 DEF Queue, Dropped
    <3>2. Partition(l, b, InHand, {}, s, g, Dropped \cup Offered, n)
      BY <1>1, Moves
    <3> QED
      BY <1>1, <2>1, <3>1, <3>2 DEF Places, Injective
  <2>3. CASE Free # 0
    <3>1. tx_list' = Append(tx_list, n) /\ UNCHANGED outcome
      BY <1>6, <2>3 DEF Queue
    <3>2. n \notin l
      BY <1>1, <2>1 DEF Partition
    <3>3. Elements(tx_list)' = l \cup Offered /\ Injective(tx_list)'
      BY <1>1, <2>1, <3>1, <3>2, FramesAre, InjectiveIs
    <3>4. Partition(l \cup Offered, b, InHand, {}, s, g, Dropped, n)
      BY <1>1, Moves
    <3> QED
      BY <1>1, <2>1, <3>1, <3>3, <3>4 DEF Places, Dropped, Injective
  <2> QED
    BY <2>2, <2>3
<1>7. CASE Transmitted
  <2>1. /\ hw_buffer # <<>> /\ hw_buffer' = Tail(hw_buffer)
        /\ outcome'.bus = s \cup {Head(hw_buffer)} /\ outcome'.gone = g /\ Dropped' = Dropped
        /\ UNCHANGED <<tx_list, InHand, Offered, sender>>
    BY <1>2, <1>7 DEF Transmitted, InHand, Offered, Dropped
  <2>2. b = {Head(hw_buffer)} \cup Elements(hw_buffer)' /\ Head(hw_buffer) \notin Elements(hw_buffer)'
        /\ Injective(hw_buffer)'
    BY <1>1, <2>1, FramesAre, InjectiveIs
  <2>3. Partition(l, Elements(hw_buffer)', InHand, Offered, s \cup {Head(hw_buffer)}, g, Dropped, n)
    BY <1>1, <2>2, Moves
  <2> QED
    BY <1>1, <2>1, <2>2, <2>3 DEF Places, Injective
<1>8. CASE can_tx_handle_start \/ can_tx_handle_done
  <2>1. txTask.at = "todo" /\ InHand = {} /\ UNCHANGED <<hw_buffer, Offered, outcome, sender>>
    BY <1>8 DEF can_tx_handle_start, can_tx_handle_done, InHand, Offered, CanTyped, TasksTyped
  <2>2. CASE tx_list = <<>>
    <3>1. UNCHANGED <<tx_list, InHand>>
      BY <1>8, <2>2 DEF can_tx_handle_start, can_tx_handle_done, TakeNext, InHand, CanTyped, TasksTyped
    <3> QED
      BY <2>1, <3>1, PlacesKept DEF placeVars, Dropped
  <2>3. CASE tx_list # <<>>
    <3>1. tx_list' = Tail(tx_list) /\ txTask'.frame = Head(tx_list)
      BY <1>8, <2>3 DEF can_tx_handle_start, can_tx_handle_done, TakeNext
    <3>2. /\ l = {Head(tx_list)} \cup Elements(tx_list)' /\ Head(tx_list) \notin Elements(tx_list)'
          /\ Injective(tx_list)' /\ Head(tx_list) \in FrameNo
      BY <1>1, <2>3, <3>1, FramesAre, InjectiveIs
    <3>3. InHand' = {Head(tx_list)}
      BY <3>1, <3>2 DEF InHand, NoFrame, FrameNo
    <3>4. Partition(Elements(tx_list)', b, {Head(tx_list)}, Offered, s, g, Dropped, n)
      BY <1>1, <2>1, <3>2, Moves
    <3> QED
      BY <1>1, <2>1, <3>2, <3>3, <3>4 DEF Places, Dropped, Injective
  <2> QED
    BY <2>2, <2>3
<1>9. CASE SendNext
  <2>1. /\ txTask.frame \in FrameNo /\ InHand = {txTask.frame} /\ InHand' = {}
        /\ UNCHANGED <<tx_list, Offered, sender>>
    BY <1>9 DEF SendNext, InHand, Offered, NoFrame, FrameNo, CanTyped, TasksTyped
  <2>2. CASE drv_can_accepts
    <3>1. /\ hw_buffer' = Append(hw_buffer, txTask.frame)
          /\ outcome'.bus = s /\ outcome'.gone = g /\ Dropped' = Dropped
      BY <1>2, <1>9, <2>2 DEF SendNext, Dropped
    <3>2. txTask.frame \notin b
      BY <1>1, <2>1 DEF Partition
    <3>3. Elements(hw_buffer)' = b \cup InHand /\ Injective(hw_buffer)'
      BY <1>1, <2>1, <3>1, <3>2, FramesAre, InjectiveIs
    <3>4. Partition(l, b \cup InHand, {}, Offered, s, g, Dropped, n)
      BY <1>1, Moves
    <3> QED
      BY <1>1, <2>1, <3>1, <3>3, <3>4 DEF Places, Dropped, Injective
  <2>3. CASE ~drv_can_accepts
    <3>1. outcome'.bus = s /\ outcome'.gone = g /\ Dropped' = Dropped \cup InHand /\ UNCHANGED hw_buffer
      BY <1>2, <1>9, <2>1, <2>3 DEF SendNext, Dropped
    <3>2. Partition(l, b, {}, Offered, s, g, Dropped \cup InHand, n)
      BY <1>1, Moves
    <3> QED
      BY <1>1, <2>1, <3>1, <3>2 DEF Places, Injective
  <2> QED
    BY <2>2, <2>3
<1>10. ASSUME ControllerReset, UNCHANGED <<tx_list, InHand, Offered, sender>>
       PROVE  Places'
  <2>1. /\ hw_buffer' = <<>> /\ outcome'.bus = s /\ outcome'.gone = g \cup b
        /\ Dropped' = Dropped
    BY <1>2, <1>10 DEF ControllerReset, Dropped
  <2>2. Elements(hw_buffer)' = {} /\ Injective(hw_buffer)'
    BY <2>1 DEF Elements, Injective
  <2>3. Partition(l, {}, InHand, Offered, s, g \cup b, Dropped, n)
    BY <1>1, Moves
  <2> QED
    BY <1>1, <1>10, <2>1, <2>2, <2>3 DEF Places, Injective
<1>11. CASE can_tx_stop \/ can_rx_handle_buserror
  <2>1. /\ tx_list' = <<>> /\ outcome'.bus = s /\ outcome'.gone = g /\ Dropped' = Dropped \cup l
        /\ UNCHANGED <<hw_buffer, InHand, Offered, sender>>
    BY <1>2, <1>11 DEF can_tx_stop, can_rx_handle_buserror, InHand, Offered, Dropped
  <2>2. Elements(tx_list)' = {} /\ Injective(tx_list)'
    BY <2>1 DEF Elements, Injective
  <2>3. Partition({}, b, InHand, Offered, s, g, Dropped \cup l, n)
    BY <1>1, Moves
  <2> QED
    BY <1>1, <2>1, <2>2, <2>3 DEF Places, Injective
<1>12. Received \/ BusFault \/ BusOffExpires => UNCHANGED placeVars
  BY DEF Received, BusFault, BusOffExpires, txSide, placeVars, InHand, Offered, Dropped
<1>15. CASE can_mgr_deinit \/ can_mgr_init \/ BusOffUp
  <2>1. ControllerReset /\ UNCHANGED <<tx_list, txTask, sender>>
    BY <1>15 DEF can_mgr_deinit, can_mgr_init, BusOffUp
  <2> QED
    BY <1>10, <2>1 DEF InHand, Offered
<1>16. CanTask => \/ UNCHANGED placeVars \/ can_rx_handle_buserror
                  \/ ControllerReset /\ UNCHANGED <<tx_list, InHand, Offered, sender>>
  BY DEF CanTask, can_task, can_rx_handle_check, Silence, TellInactive, can_rx_handle_receive,
         TellActive, HandOver, RxIdle, can_rx_handle_busoff, BusOffDown, txSide, placeVars,
         InHand, Offered, Dropped
<1>13. can_tx_task \/ can_tx_handle_check \/ Checked \/ SentNext \/ TxIdle => UNCHANGED placeVars
  <2>1. \/ txTask'.frame = txTask.frame
        \/ ~(can_tx_task \/ can_tx_handle_check \/ Checked \/ SentNext \/ TxIdle)
    BY DEF can_tx_task, can_tx_handle_check, Checked, SentNext, TxIdle, CanTyped, TasksTyped
  <2> QED
    BY <2>1 DEF can_tx_task, can_tx_handle_check, Checked, SentNext, TxIdle, placeVars, InHand,
                Offered, Dropped
<1>14. GoDown \/ can_stop \/ GoUp \/ can_start \/ can_tx_start => UNCHANGED placeVars
  BY DEF GoDown, can_stop, GoUp, can_start, can_tx_start, rxSide, txSide, placeVars, InHand,
         Offered, Dropped
<1> QED
  BY <1>3, <1>4, <1>5, <1>6, <1>7, <1>8, <1>9, <1>10, <1>11, <1>12, <1>13, <1>14, <1>15, <1>16,
     PlacesKept
     DEF CanNext, can_if_send, can_isr_callback, CanTxTask, CanPower

(* The statistics: a frame is counted as sent when the driver took it, and *)
(* the sender counts its own after that.                                   *)
Driver == Elements(hw_buffer) \cup outcome.bus \cup outcome.gone
Uncounted == IF sender.at = "taken" THEN {sender.frame} ELSE {}

SentCounted == Uncounted \subseteq Driver /\ outcome.sent = Driver \ Uncounted

LEMMA SentCountedNext ==
  ASSUME CanTyped, Places, SentCounted, CanNext
  PROVE  SentCounted'
<1>1. /\ outcome \in [bus : SUBSET FrameNo, gone : SUBSET FrameNo, sent : SUBSET FrameNo,
                      dropped : SUBSET FrameNo, refused : SUBSET FrameNo]
      /\ sender \in [at : {"idle", "asked", "taken", "full"}, frame : Nat]
      /\ hw_buffer \in Seq(FrameNo)
  BY DEF CanTyped, OutcomeTyped, TasksTyped, FramesTyped
<1>2. CASE UNCHANGED <<Driver, Uncounted, outcome.sent>>
  BY <1>2 DEF SentCounted
<1>3. CASE Ask \/ Queue
  <2>1. sender.at # "taken" /\ sender'.at # "taken"
    BY <1>1, <1>3 DEF Ask, Queue
  <2>2. UNCHANGED <<hw_buffer, outcome.sent, outcome.bus, outcome.gone>>
    BY <1>1, <1>3 DEF Ask, Queue
  <2> QED
    BY <1>2, <2>1, <2>2 DEF Driver, Uncounted
<1>4. CASE Offer
  <2>1. /\ sender.at = "asked" /\ UNCHANGED outcome /\ sender'.frame = sender.frame
        /\ sender.frame \in FrameNo
    BY <1>1, <1>4 DEF Offer, CanTyped, TasksTyped
  <2>2. CASE drv_can_accepts
    <3>1. hw_buffer' = Append(hw_buffer, sender.frame) /\ sender'.at = "taken"
      BY <1>1, <1>4, <2>2 DEF Offer
    <3>2. Driver' = Driver \cup {sender.frame} /\ Uncounted' = {sender.frame} /\ Uncounted = {}
      BY <1>1, <2>1, <3>1, FramesAre DEF Driver, Uncounted
    <3>3. sender.frame \notin Driver
      BY <2>1 DEF Places, Partition, Offered, Driver
    <3> QED
      BY <2>1, <3>2, <3>3 DEF SentCounted
  <2>3. CASE ~drv_can_accepts
    <3>1. UNCHANGED hw_buffer /\ sender'.at = "full"
      BY <1>1, <1>4, <2>3 DEF Offer
    <3> QED
      BY <1>2, <2>1, <3>1 DEF Driver, Uncounted
  <2> QED
    BY <2>2, <2>3
<1>5. CASE Taken
  <2>1. /\ Uncounted = {sender.frame} /\ Uncounted' = {} /\ Driver' = Driver
        /\ outcome'.sent = outcome.sent \cup {sender.frame}
    BY <1>1, <1>5 DEF Taken, Uncounted, Driver
  <2> QED
    BY <2>1 DEF SentCounted
<1>6. CASE Transmitted
  <2>1. /\ hw_buffer # <<>> /\ hw_buffer' = Tail(hw_buffer) /\ UNCHANGED sender
        /\ outcome'.bus = outcome.bus \cup {Head(hw_buffer)}
        /\ outcome'.gone = outcome.gone /\ outcome'.sent = outcome.sent
    BY <1>1, <1>6 DEF Transmitted
  <2>2. Elements(hw_buffer) = {Head(hw_buffer)} \cup Elements(hw_buffer)'
    BY <1>1, <2>1, FramesAre
  <2> QED
    BY <1>2, <2>1, <2>2 DEF Driver, Uncounted
<1>7. ASSUME ControllerReset, UNCHANGED sender
      PROVE  SentCounted'
  <2>1. /\ hw_buffer' = <<>> /\ outcome'.gone = outcome.gone \cup Elements(hw_buffer)
        /\ outcome'.bus = outcome.bus /\ outcome'.sent = outcome.sent
    BY <1>1, <1>7 DEF ControllerReset
  <2>2. Elements(hw_buffer)' = {}
    BY <2>1 DEF Elements
  <2> QED
    BY <1>2, <1>7, <2>1, <2>2 DEF Driver, Uncounted
<1>8. CASE SendNext
  <2>1. txTask.frame \in FrameNo /\ UNCHANGED sender
    BY <1>8 DEF SendNext, CanTyped, TasksTyped
  <2>2. CASE drv_can_accepts
    <3>1. /\ hw_buffer' = Append(hw_buffer, txTask.frame)
          /\ outcome'.sent = outcome.sent \cup {txTask.frame}
          /\ outcome'.bus = outcome.bus /\ outcome'.gone = outcome.gone
      BY <1>1, <1>8, <2>2 DEF SendNext
    <3>2. Driver' = Driver \cup {txTask.frame} /\ Uncounted' = Uncounted
      BY <1>1, <2>1, <3>1, FramesAre DEF Driver, Uncounted
    <3>3. txTask.frame \notin Driver
      BY <2>1 DEF Places, Partition, InHand, Driver, NoFrame, FrameNo
    <3> QED
      BY <3>1, <3>2, <3>3 DEF SentCounted
  <2>3. CASE ~drv_can_accepts
    <3>1. UNCHANGED <<hw_buffer, outcome.sent, outcome.bus, outcome.gone>>
      BY <1>1, <1>8, <2>3 DEF SendNext
    <3> QED
      BY <1>2, <2>1, <3>1 DEF Driver, Uncounted
  <2> QED
    BY <2>2, <2>3
<1>9. ASSUME UNCHANGED <<hw_buffer, sender, outcome.sent, outcome.bus, outcome.gone>>
      PROVE  SentCounted'
  BY <1>2, <1>9 DEF Driver, Uncounted
<1>10. CASE can_tx_stop \/ can_rx_handle_buserror
  BY <1>1, <1>9, <1>10 DEF can_tx_stop, can_rx_handle_buserror
<1>11. CASE can_mgr_deinit \/ can_mgr_init \/ BusOffUp
  BY <1>7, <1>11 DEF can_mgr_deinit, can_mgr_init, BusOffUp
<1>12. Received \/ BusFault \/ BusOffExpires => UNCHANGED <<hw_buffer, sender, outcome>>
  BY DEF Received, BusFault, BusOffExpires, txSide
<1>13. CanTask => \/ can_rx_handle_buserror
                  \/ ControllerReset /\ UNCHANGED sender
                  \/ UNCHANGED <<hw_buffer, sender, outcome>>
  BY DEF CanTask, can_task, can_rx_handle_check, Silence, TellInactive, can_rx_handle_receive,
         TellActive, HandOver, RxIdle, can_rx_handle_busoff, BusOffDown, txSide
<1>14. CanTxTask => SendNext \/ UNCHANGED <<hw_buffer, sender, outcome>>
  BY DEF CanTxTask, can_tx_task, can_tx_handle_check, Checked, can_tx_handle_start,
         can_tx_handle_done, SentNext, TxIdle
<1>15. GoDown \/ can_stop \/ GoUp \/ can_start \/ can_tx_start
         => UNCHANGED <<hw_buffer, sender, outcome>>
  BY DEF GoDown, can_stop, GoUp, can_start, can_tx_start, txSide
<1> QED
  BY <1>3, <1>4, <1>5, <1>6, <1>7, <1>8, <1>9, <1>10, <1>11, <1>12, <1>13, <1>14, <1>15
     DEF CanNext, can_if_send, can_isr_callback, CanTxTask, CanPower

(* Every frame of can_if_send is on its way, with the driver or past it,   *)
(* dropped or refused, in exactly one place and counted accordingly, over  *)
(* bus errors, bus-off and stops, and the pool is never overdrawn.         *)
THEOREM FramesAccountedFor == CanSpec => []NoFrameVanishes
<1>1. CanTyped /\ Places /\ SentCounted => NoFrameVanishes
  <2> SUFFICES ASSUME CanTyped, Places, SentCounted PROVE NoFrameVanishes
    OBVIOUS
  <2> DEFINE l == Elements(tx_list)
             b == Elements(hw_buffer)
  <2>1. Partition(l, b, InHand, Offered, outcome.bus, outcome.gone, Dropped, sender.frame)
    BY DEF Places
  <2>2. {txTask.frame} \subseteq InHand \cup {0} /\ InHand \subseteq {txTask.frame}
    BY DEF InHand, NoFrame
  <2>3. Free >= 0 /\ 0 \notin 1..sender.frame
    BY DEF CanTyped, FramesTyped
  <2> HIDE DEF l, b
  <2>4. LET underway == l \cup {txTask.frame} \cup Offered
            driver == b \cup outcome.bus \cup outcome.gone
        IN /\ 1..sender.frame \subseteq driver \cup underway \cup Dropped
           /\ underway \cap (driver \cup Dropped) = {} /\ driver \cap Dropped = {}
           /\ b \cap (outcome.bus \cup outcome.gone) = {} /\ outcome.bus \cap outcome.gone = {}
    BY <2>1, <2>2, <2>3 DEF Partition
  <2> QED
    BY <2>3, <2>4 DEF NoFrameVanishes, SentCounted, Driver, Uncounted, Offered, Dropped, l, b
<1>2. Places /\ SentCounted /\ UNCHANGED canVars => Places' /\ SentCounted'
  <2>1. UNCHANGED canVars => UNCHANGED placeVars
    BY DEF canVars, placeVars, InHand, Offered, Dropped
  <2> QED
    BY <2>1, PlacesKept DEF canVars, SentCounted, Driver, Uncounted
<1>3. CanInit => SentCounted
  BY ElementsAre DEF CanInit, SentCounted, Driver, Uncounted, Elements
<1> QED
  BY <1>1, <1>2, <1>3, CanTypedAlways, PlacesInit, PlacesNext, SentCountedNext, PTL DEF CanSpec
-----------------------------------------------------------------------------
(* What waits for transmission is timed, notified, or being seen to.       *)
TxServed ==
  tx_list # <<>> /\ ~hist.untimed /\ txTask.at \in {"wait", "todo"}
    => \/ tx_tick \/ txBits # {}
       \/ txTask.at = "todo" /\ txTask.todo \ {"CHECK"} # {}

LEMMA TxServedNext == ASSUME CanTyped, TxServed, CanNext PROVE TxServed'
<1>1. /\ hist = [backlog |-> hist.backlog, unread |-> hist.unread,
                 untimed |-> hist.untimed, slept |-> hist.slept]
      /\ txTask \in [at : TxStep, todo : SUBSET TxBit, frame : Nat]
      /\ txBits \subseteq {"START", "DONE"}
  BY DEF CanTyped, HistTyped, TasksTyped
<1>2. CASE UNCHANGED <<tx_list, tx_tick, txBits, txTask, hist.untimed>>
  BY <1>2 DEF TxServed
<1>3. Ask \/ Offer \/ Received \/ BusFault \/ BusOffExpires \/ BusOffUp
        => UNCHANGED <<tx_list, tx_tick, txBits, txTask, hist.untimed>>
  BY DEF Ask, Offer, Received, BusFault, BusOffExpires, BusOffUp, txSide
<1>4. CASE tx_tick'
  BY <1>4 DEF TxServed
<1>5. CASE Taken \/ SentNext
  BY <1>4, <1>5 DEF Taken, SentNext, Timed
<1>6. CASE Queue
  BY <1>2, <1>4, <1>6 DEF Queue, Timed
<1>7. CASE Transmitted
  BY <1>7 DEF Transmitted, TxServed
<1>8. CanTask => \/ can_rx_handle_buserror
                 \/ UNCHANGED <<tx_list, tx_tick, txBits, txTask, hist.untimed>>
  BY <1>1 DEF CanTask, can_task, can_rx_handle_check, Silence, TellInactive,
         can_rx_handle_receive, TellActive, HandOver, RxIdle, can_rx_handle_busoff, BusOffDown,
         txSide
<1>18. CASE can_rx_handle_buserror
  BY <1>18 DEF can_rx_handle_buserror, TxServed
<1>9. CASE can_tx_task
  <2>1. PICK check \in SUBSET {"CHECK"} :
          /\ txBits \cup check # {}
          /\ txTask' = IF bus_sleep THEN txTask
                       ELSE [txTask EXCEPT !.at = "todo", !.todo = txBits \cup check]
    BY <1>9 DEF can_tx_task
  <2>2. /\ UNCHANGED <<tx_list, tx_tick>> /\ txTask.at = "wait"
        /\ hist'.untimed = (hist.untimed \/ (bus_sleep /\ tx_list # <<>>))
    BY <1>1, <1>9 DEF can_tx_task
  <2>3. CASE bus_sleep
    BY <2>2, <2>3 DEF TxServed
  <2>4. CASE ~bus_sleep
    <3>1. txTask'.at = "todo" /\ txTask'.todo = txBits \cup check
      BY <1>1, <2>1, <2>4
    <3> QED
      BY <1>1, <2>1, <2>2, <2>4, <3>1 DEF TxServed
  <2> QED
    BY <2>3, <2>4
<1>10. CASE can_tx_handle_check
  <2>1. /\ UNCHANGED <<tx_list, txBits, hist>> /\ txTask.at = "todo"
        /\ txTask'.todo = txTask.todo \ {"CHECK"}
        /\ txTask'.at = IF tx_tick THEN "checked" ELSE "todo"
    BY <1>1, <1>10 DEF can_tx_handle_check
  <2> QED
    BY <2>1 DEF TxServed
<1>11. CASE Checked
  <2>1. /\ UNCHANGED <<tx_list, tx_tick, hist>> /\ txTask'.todo = txTask.todo
        /\ txTask'.at = "todo" /\ txBits' = IF tx_tick THEN txBits ELSE txBits \cup {"START"}
    BY <1>1, <1>11 DEF Checked
  <2> QED
    BY <2>1 DEF TxServed
<1>12. CASE can_tx_handle_start \/ can_tx_handle_done
  <2>1. tx_list # <<>> => txTask'.at = "send"
    BY <1>12 DEF can_tx_handle_start, can_tx_handle_done, TakeNext
  <2>2. tx_list = <<>> => tx_list' = <<>>
    BY <1>12 DEF can_tx_handle_start, can_tx_handle_done, TakeNext
  <2> QED
    BY <2>1, <2>2 DEF TxServed
<1>13. CASE SendNext
  BY <1>1, <1>13 DEF SendNext, TxServed
<1>14. CASE TxIdle
  BY <1>1, <1>14 DEF TxIdle, TxServed
<1>15. GoDown \/ can_stop \/ can_mgr_deinit \/ GoUp \/ can_start \/ can_mgr_init
         => UNCHANGED <<tx_list, tx_tick, txBits, txTask, hist.untimed>>
  BY <1>1 DEF GoDown, can_stop, can_mgr_deinit, GoUp, can_start, can_mgr_init, txSide
<1>16. CASE can_tx_stop
  BY <1>16 DEF can_tx_stop, TxServed
<1>17. CASE can_tx_start
  <2>1. hist'.untimed = (hist.untimed \/ tx_list # <<>>) /\ tx_list' = tx_list
    BY <1>1, <1>17 DEF can_tx_start
  <2> QED
    BY <2>1 DEF TxServed
<1> QED
  BY <1>2, <1>3, <1>5, <1>6, <1>7, <1>8, <1>9, <1>10, <1>11, <1>12, <1>13, <1>14, <1>15, <1>16, <1>17,
     <1>18
     DEF CanNext, can_if_send, can_isr_callback, CanTxTask, CanPower
-----------------------------------------------------------------------------
(* Frames that wait without a notification: the pass that is under way     *)
(* takes them, or more had piled up than a pass takes.                     *)
RxServed ==
  /\ rxTask.round < CanRounds
  /\ rxTask.at \in {"active", "data"} => "RECEIVE" \in rxTask.todo /\ "CHECK" \notin rxTask.todo
  /\ rx_list > 0 /\ "RECEIVE" \notin rxBits /\ ~hist.unread
       => /\ \/ rxTask.at \in {"wait", "busoff"}
             \/ rxTask.at \in {"todo", "inactive"} /\ "RECEIVE" \notin rxTask.todo
             => hist.backlog > CanRounds * CanOnce
          /\ rxTask.at \in {"todo", "inactive"} /\ "RECEIVE" \in rxTask.todo
             => hist.backlog >= rx_list + CanOnce * rxTask.round
          /\ rxTask.at \in {"active", "data"}
             => hist.backlog >= rx_list + CanOnce * (rxTask.round + 1)

LEMMA RoundsAdd ==
  ASSUME NEW r \in Nat
  PROVE  /\ CanOnce * (r + 1) = CanOnce * r + CanOnce
         /\ CanOnce * r \in Nat /\ CanRounds * CanOnce = CanOnce * CanRounds
  BY CanConstants

LEMMA HandledIs ==
  ASSUME NEW event, Handled(event)
  PROVE  /\ rxTask'.at \in {"wait", "todo"} /\ rxTask'.round = 0
         /\ rxTask'.todo = rxTask.todo \ {event}
  BY DEF Handled

LEMMA RxServedNext == ASSUME CanTyped, RxServed, CanNext PROVE RxServed'
<1>1. /\ hist = [backlog |-> hist.backlog, unread |-> hist.unread,
                 untimed |-> hist.untimed, slept |-> hist.slept]
      /\ rxTask \in [at : RxStep, todo : SUBSET RxBit, round : Nat]
      /\ rxBits \subseteq RxBit \ {"CHECK"} /\ hist.backlog \in Nat /\ rx_list \in Nat
  BY DEF CanTyped, HistTyped, TasksTyped, FramesTyped
<1>2. CASE UNCHANGED <<rx_list, rxBits, rxTask, hist.backlog, hist.unread>>
  BY <1>2 DEF RxServed
<1>3. can_if_send \/ Transmitted \/ CanTxTask \/ BusOffExpires \/ BusOffUp
        => UNCHANGED <<rx_list, rxBits, rxTask, hist.backlog, hist.unread>>
  BY <1>1 DEF can_if_send, Ask, Offer, Taken, Queue, Transmitted, BusOffExpires, BusOffUp,
         CanTxTask, can_tx_task, can_tx_handle_check, Checked, can_tx_handle_start,
         can_tx_handle_done, SendNext, SentNext, TxIdle, rxSide, Timed
<1>4. CASE Received \/ BusFault
  BY <1>4 DEF Received, BusFault, RxServed
<1>5. CASE can_task
  <2>1. PICK check \in SUBSET {"CHECK"} :
          rxTask' = IF bus_sleep THEN rxTask
                    ELSE [at |-> "todo", todo |-> rxBits \cup check, round |-> 0]
    BY <1>5 DEF can_task
  <2>2. /\ rxTask.at = "wait" /\ UNCHANGED rx_list
        /\ hist'.backlog = IF "RECEIVE" \in rxBits THEN rx_list ELSE hist.backlog
        /\ hist'.unread = ((hist.unread \/ bus_sleep) /\ rx_list > 0)
    BY <1>1, <1>5 DEF can_task
  <2>3. CASE bus_sleep
    BY <2>1, <2>2, <2>3 DEF RxServed
  <2>4. CASE ~bus_sleep
    <3>1. /\ rxTask'.at = "todo" /\ rxTask'.round = 0
          /\ "RECEIVE" \in rxTask'.todo <=> "RECEIVE" \in rxBits
      BY <2>1, <2>4
    <3>2. CASE "RECEIVE" \notin rxBits
      BY <1>1, <2>2, <2>4, <3>1, <3>2, CanConstants DEF RxServed
    <3>3. CASE "RECEIVE" \in rxBits
      BY <1>1, <2>2, <2>4, <3>1, <3>3, CanConstants DEF RxServed
    <3> QED
      BY <3>2, <3>3
  <2> QED
    BY <2>3, <2>4
<1>6. CASE can_rx_handle_check
  <2>1. /\ rxTask.at = "todo" /\ rxTask'.todo = rxTask.todo \ {"CHECK"}
        /\ rxTask'.at \in {"todo", "inactive"} /\ rxTask'.round = rxTask.round
        /\ rx_list' \in {rx_list, 0} /\ UNCHANGED <<rxBits, hist>>
    BY <1>1, <1>6 DEF can_rx_handle_check, Silence
  <2> QED
    BY <1>1, <2>1 DEF RxServed
<1>7. CASE TellInactive
  <2>1. /\ rxTask.at = "inactive" /\ rxTask'.at = "todo" /\ rxTask'.todo = rxTask.todo
        /\ rxTask'.round = rxTask.round /\ UNCHANGED <<rx_list, rxBits, hist>>
    BY <1>1, <1>7 DEF TellInactive
  <2> QED
    BY <2>1 DEF RxServed
<1>8. CASE can_rx_handle_receive
  <2>1. /\ rxTask.at = "todo" /\ "RECEIVE" \in rxTask.todo /\ "CHECK" \notin rxTask.todo
        /\ UNCHANGED rxBits /\ hist'.backlog = hist.backlog /\ hist'.unread = hist.unread
    BY <1>1, <1>8 DEF can_rx_handle_receive
  <2>2. CASE rx_list = 0
    <3>1. rx_list' = 0 /\ rxTask'.at \in {"wait", "todo"} /\ rxTask'.round = 0
      BY <1>1, <1>8, <2>2 DEF can_rx_handle_receive, Handled
    <3> QED
      BY <2>1, <3>1, CanConstants DEF RxServed
  <2>3. CASE rx_list # 0
    <3>1. /\ rx_list' = IF rx_list > CanOnce THEN rx_list - CanOnce ELSE 0
          /\ rxTask'.at \in {"active", "data"} /\ rxTask'.todo = rxTask.todo
          /\ rxTask'.round = rxTask.round
      BY <1>1, <1>8, <2>1, <2>3 DEF can_rx_handle_receive
    <3>2. CanOnce * (rxTask.round + 1) = CanOnce * rxTask.round + CanOnce
          /\ CanOnce * rxTask.round \in Nat
      BY <1>1, RoundsAdd
    <3> QED
      BY <1>1, <2>1, <2>3, <3>1, <3>2, CanConstants DEF RxServed
  <2> QED
    BY <2>2, <2>3
<1>9. CASE TellActive
  <2>1. /\ rxTask.at = "active" /\ rxTask'.at = "data" /\ rxTask'.todo = rxTask.todo
        /\ rxTask'.round = rxTask.round /\ UNCHANGED <<rx_list, rxBits, hist>>
    BY <1>1, <1>9 DEF TellActive
  <2> QED
    BY <2>1 DEF RxServed
<1>10. CASE HandOver
  <2>1. rxTask.at = "data" /\ UNCHANGED <<rx_list, rxBits, hist>>
    BY <1>10 DEF HandOver
  <2>2. CASE rxTask.round + 1 < CanRounds
    <3>1. rxTask'.at = "todo" /\ rxTask'.todo = rxTask.todo /\ rxTask'.round = rxTask.round + 1
      BY <1>1, <1>10, <2>2 DEF HandOver
    <3> QED
      BY <1>1, <2>1, <2>2, <3>1 DEF RxServed
  <2>3. CASE ~(rxTask.round + 1 < CanRounds)
    <3>1. rxTask'.at \in {"wait", "todo"} /\ rxTask'.round = 0 /\ "RECEIVE" \notin rxTask'.todo
      BY <1>10, <2>3 DEF HandOver, Handled
    <3>2. rxTask.round + 1 = CanRounds
      BY <1>1, <2>3, CanConstants DEF RxServed
    <3>3. CanOnce * (rxTask.round + 1) = CanRounds * CanOnce /\ CanRounds * CanOnce \in Nat
      BY <3>2, RoundsAdd, CanConstants
    <3> QED
      BY <1>1, <2>1, <3>1, <3>3, CanConstants DEF RxServed
  <2> QED
    BY <2>2, <2>3
<1>11. CASE RxIdle
  <2>1. /\ rxTask.at = "todo" /\ rxTask.todo = {} /\ rxTask'.at = "wait"
        /\ rxTask'.round = rxTask.round /\ UNCHANGED <<rx_list, rxBits, hist>>
    BY <1>1, <1>11 DEF RxIdle
  <2> QED
    BY <2>1 DEF RxServed
<1>12. CASE can_stop
  BY <1>12 DEF can_stop, txSide, RxServed
<1>14. CASE can_rx_handle_buserror \/ can_rx_handle_busoff
  <2>1. rx_list' = 0
    BY <1>14 DEF can_rx_handle_buserror, can_rx_handle_busoff
  <2>2. CASE can_rx_handle_buserror
    <3>1. rxTask'.at \in {"wait", "todo"} /\ rxTask'.round = 0
      BY <2>2, HandledIs DEF can_rx_handle_buserror
    <3> QED
      BY <2>1, <3>1, CanConstants DEF RxServed
  <2>3. CASE can_rx_handle_busoff
    <3>1. rxTask'.at = "busoff" /\ rxTask'.round = rxTask.round
      BY <1>1, <2>3 DEF can_rx_handle_busoff
    <3> QED
      BY <2>1, <3>1 DEF RxServed
  <2> QED
    BY <1>14, <2>2, <2>3
<1>15. CASE BusOffDown
  <2>1. /\ rxTask.at = "busoff" /\ rxTask'.at = "wait" /\ rxTask'.round = rxTask.round
        /\ UNCHANGED <<rx_list, rxBits, hist>>
    BY <1>1, <1>15 DEF BusOffDown
  <2> QED
    BY <2>1 DEF RxServed
<1>13. CanPower => can_stop \/ UNCHANGED <<rx_list, rxBits, rxTask, hist.backlog, hist.unread>>
  BY <1>1 DEF CanPower, GoDown, can_mgr_deinit, can_tx_stop, GoUp, can_start, can_mgr_init,
              can_tx_start, rxSide
<1> QED
  BY <1>2, <1>3, <1>4, <1>5, <1>6, <1>7, <1>8, <1>9, <1>10, <1>11, <1>12, <1>13,
     <1>14, <1>15
     DEF CanNext, can_isr_callback, CanTask

(* No frame waits in either list of the CAN manager for an event that will *)
(* not come, for every size of a pass and however the steps interleave.    *)
THEOREM NothingIsStuck == CanSpec => []NoFrameWaits
<1>1. CanTyped /\ TxServed /\ RxServed => NoFrameWaits
  BY DEF TxServed, RxServed, NoFrameWaits, TxNotStuck, RxNotStuck
<1>2. CanInit => TxServed /\ RxServed
  BY CanConstants DEF CanInit, TxServed, RxServed
<1>3. TxServed /\ RxServed /\ UNCHANGED canVars => TxServed' /\ RxServed'
  BY DEF canVars, TxServed, RxServed
<1> QED
  BY <1>1, <1>2, <1>3, CanTypedAlways, TxServedNext, RxServedNext, PTL DEF CanSpec
-----------------------------------------------------------------------------
(* What the clients were told, at every step of can_task.                  *)
Informed ==
  /\ rxTask.at \in {"wait", "todo", "data", "busoff"} /\ bus_active => told = "ACTIVE"
  /\ rxTask.at = "data" => told = "ACTIVE"
  /\ rxTask.at \in {"wait", "todo", "data", "busoff"} /\ told = "ACTIVE" => bus_active \/ hist.slept
  /\ rxTask.at = "inactive" => ~bus_active
  /\ rxTask.at = "active" => bus_active \/ hist.slept
  /\ bus_sleep /\ "CHECK" \in rxTask.todo => hist.slept

informedVars == <<rxTask, bus_active, bus_sleep, told, hist.slept>>

LEMMA InformedNext == ASSUME CanTyped, Informed, CanNext PROVE Informed'
<1>1. /\ hist = [backlog |-> hist.backlog, unread |-> hist.unread,
                 untimed |-> hist.untimed, slept |-> hist.slept]
      /\ rxTask \in [at : RxStep, todo : SUBSET RxBit, round : Nat]
  BY DEF CanTyped, HistTyped, TasksTyped
<1>2. CASE UNCHANGED informedVars
  BY <1>2 DEF Informed, informedVars
<1>3. can_if_send \/ can_isr_callback \/ CanTxTask \/ BusOffExpires \/ BusOffUp
        => UNCHANGED informedVars
  BY <1>1 DEF can_if_send, Ask, Offer, Taken, Queue, can_isr_callback, Received, Transmitted,
         BusFault, BusOffExpires, BusOffUp,
         CanTxTask, can_tx_task, can_tx_handle_check, Checked, can_tx_handle_start,
         can_tx_handle_done, SendNext, SentNext, TxIdle, rxSide, power, Timed, informedVars
<1>4. CASE can_task
  <2>1. /\ rxTask.at = "wait" /\ UNCHANGED <<bus_active, bus_sleep, told, hist.slept>>
        /\ rxTask' = rxTask \/ (rxTask'.at = "todo" /\ ~bus_sleep)
    BY <1>1, <1>4 DEF can_task, power
  <2> QED
    BY <2>1 DEF Informed
<1>5. CASE can_rx_handle_check
  <2>1. /\ rxTask.at = "todo" /\ "CHECK" \in rxTask.todo /\ "CHECK" \notin rxTask'.todo
        /\ UNCHANGED <<told, hist>>
        /\ \/ rxTask'.at = "todo" /\ UNCHANGED bus_active
           \/ /\ bus_active /\ bus_active' = FALSE
              /\ rxTask'.at = IF bus_sleep THEN "todo" ELSE "inactive"
    BY <1>1, <1>5 DEF can_rx_handle_check, Silence
  <2> QED
    BY <2>1 DEF Informed
<1>6. CASE TellInactive
  <2>1. /\ rxTask.at = "inactive" /\ rxTask'.at = "todo" /\ told' = "INACTIVE"
        /\ rxTask'.todo = rxTask.todo /\ UNCHANGED <<bus_active, bus_sleep, hist>>
    BY <1>1, <1>6 DEF TellInactive, power
  <2> QED
    BY <2>1 DEF Informed
<1>7. CASE can_rx_handle_receive
  <2>1. rxTask.at = "todo" /\ "CHECK" \notin rxTask.todo /\ UNCHANGED told
    BY <1>7 DEF can_rx_handle_receive
  <2>2. "CHECK" \notin rxTask'.todo
    BY <1>1, <1>7, <2>1 DEF can_rx_handle_receive, Handled
  <2>3. rx_list = 0 /\ hist.slept => hist'.slept
    BY <1>1, <1>7 DEF can_rx_handle_receive
  <2>4. \/ rx_list = 0 /\ rxTask'.at \in {"wait", "todo"} /\ UNCHANGED bus_active
        \/ rx_list # 0 /\ rxTask'.at = (IF bus_active THEN "data" ELSE "active") /\ bus_active' = TRUE
    BY <1>1, <1>7 DEF can_rx_handle_receive, Handled
  <2> QED
    BY <2>1, <2>2, <2>3, <2>4 DEF Informed, RxStep
<1>8. CASE TellActive
  <2>1. /\ rxTask.at = "active" /\ rxTask'.at = "data" /\ told' = "ACTIVE"
        /\ rxTask'.todo = rxTask.todo /\ UNCHANGED <<bus_active, bus_sleep, hist>>
    BY <1>1, <1>8 DEF TellActive, power
  <2> QED
    BY <2>1 DEF Informed
<1>9. CASE HandOver
  <2>1. /\ rxTask.at = "data" /\ rxTask'.at \in {"todo", "wait"}
        /\ rxTask'.todo \subseteq rxTask.todo /\ UNCHANGED <<bus_active, bus_sleep, told, hist>>
    BY <1>1, <1>9, HandledIs DEF HandOver
  <2> QED
    BY <2>1 DEF Informed
<1>10. CASE RxIdle
  <2>1. /\ rxTask.at = "todo" /\ rxTask'.at = "wait" /\ rxTask'.todo = rxTask.todo
        /\ UNCHANGED <<bus_active, bus_sleep, told, hist>>
    BY <1>1, <1>10 DEF RxIdle, power
  <2> QED
    BY <2>1 DEF Informed
<1>13. CASE can_rx_handle_buserror \/ can_rx_handle_busoff \/ BusOffDown
  <2>1. /\ rxTask.at \in {"todo", "busoff"} /\ rxTask'.at \in {"wait", "todo", "busoff"}
        /\ rxTask'.todo \subseteq rxTask.todo /\ UNCHANGED <<bus_active, bus_sleep, told, hist>>
    BY <1>1, <1>13, HandledIs DEF can_rx_handle_buserror, can_rx_handle_busoff, BusOffDown, power
  <2> QED
    BY <2>1 DEF Informed
<1>11. CASE can_stop \/ can_start
  <2>1. UNCHANGED <<rxTask, told>> /\ bus_active' = FALSE /\ hist'.slept
    BY <1>1, <1>11 DEF can_stop, can_start, txSide
  <2> QED
    BY <2>1 DEF Informed
<1>12. CanPower => can_stop \/ can_start \/ UNCHANGED informedVars
  BY <1>1 DEF CanPower, GoDown, can_mgr_deinit, can_tx_stop, GoUp, can_mgr_init,
              can_tx_start, rxSide, informedVars
<1> QED
  BY <1>2, <1>3, <1>4, <1>5, <1>6, <1>7, <1>8, <1>9, <1>10, <1>11, <1>12,
     <1>13 DEF CanNext, CanTask

(* The clients hear that the bus is active before they get frames, and the *)
(* manager believes what they last heard, except across a stop.            *)
THEOREM ClientsAreTold == CanSpec => []ClientsKnowTheBus
<1>1. CanTyped /\ Informed => ClientsKnowTheBus
  BY DEF CanTyped, BusTyped, Informed, ClientsKnowTheBus
<1>2. CanInit => Informed
  BY DEF CanInit, Informed
<1>3. Informed /\ UNCHANGED canVars => Informed'
  BY DEF canVars, Informed
<1> QED
  BY <1>1, <1>2, <1>3, CanTypedAlways, InformedNext, PTL DEF CanSpec
-----------------------------------------------------------------------------
(***************************************************************************)
(* CanRecovery: what a task still has to do is a sequence of steps in      *)
(* which a port taken down is armed next, and a muted interrupt too.       *)
(***************************************************************************)
StepName == {"err_ok", "off_stop", "off_clear", "err_mute", "err_arm", "off_down", "off_arm"}
GoodStep == {"err_ok", "off_stop", "off_clear"}

Paired(s) ==
  \A i \in 1..Len(s) :
    /\ s[i] = "off_down" => i < Len(s) /\ s[i + 1] = "off_arm"
    /\ s[i] = "err_mute" => i < Len(s) /\ s[i + 1] = "err_arm"
    /\ s[i] = "off_stop" => i < Len(s)

Heads(s, step) == s # <<>> /\ Head(s) = step

(* Records of these fields, which nothing needs to be Boolean.             *)
RecTyped ==
  /\ port = [is_init |-> port.is_init, report |-> port.report]
  /\ buserr = [cnt |-> buserr.cnt, is_recovering |-> buserr.is_recovering, timer |-> buserr.timer]
  /\ busoff = [is_recovering |-> busoff.is_recovering, timer |-> busoff.timer]
  /\ past = [muted |-> past.muted, given_up |-> past.given_up, late |-> past.late]

StepsTyped ==
  /\ task \in Seq(StepName) /\ Paired(task)
  /\ good \in Seq(GoodStep) /\ Paired(good)

SwitchTyped ==
  \/ awake /\ switch \in {<<>>, <<"init">>}
  \/ ~awake /\ switch \in {<<>>, <<"deinit">>, <<"off_sleep", "deinit">>,
                           <<"err_sleep", "off_sleep", "deinit">>}

(* What took the port down, or muted it, has armed a timer, or does so in  *)
(* its next step.                                                          *)
OnItsWay ==
  /\ buserr.timer => buserr.is_recovering
  /\ awake /\ switch = <<>> /\ ~port.is_init /\ ~past.given_up
       => \/ busoff.timer /\ busoff.is_recovering
          \/ expiry
          \/ Heads(task, "off_arm")
  /\ port.is_init /\ ~port.report /\ ~past.muted => buserr.timer \/ Heads(task, "err_arm")

(* Once can_stop has stopped the bus-off timer, nothing can put the port   *)
(* up that was not under way then.                                         *)
Asleep ==
  /\ ~awake /\ switch \in {<<>>, <<"deinit">>}
       => past.late \/ (task = <<>> /\ ~expiry /\ ~busoff.timer)
  /\ ~awake /\ switch = <<>> /\ port.is_init => past.late

RecTidy == RecTyped /\ StepsTyped /\ SwitchTyped /\ OnItsWay /\ Asleep

LEMMA HeadIs ==
  ASSUME NEW S, NEW s \in Seq(S), Len(s) > 0
  PROVE  s # <<>> /\ Head(s) = s[1]
  OBVIOUS

LEMMA PairedTail ==
  ASSUME NEW S, NEW s \in Seq(S), s # <<>>, Paired(s)
  PROVE  /\ Tail(s) \in Seq(S) /\ Paired(Tail(s)) /\ Head(s) \in S
         /\ Head(s) = "off_down" => Heads(Tail(s), "off_arm")
         /\ Head(s) = "err_mute" => Heads(Tail(s), "err_arm")
         /\ Head(s) = "off_stop" => Tail(s) # <<>>
<1>1. /\ Tail(s) \in Seq(S) /\ Len(Tail(s)) = Len(s) - 1 /\ Head(s) = s[1] /\ Len(s) \in Nat /\ Len(s) > 0
      /\ \A i \in 1..(Len(s) - 1) : Tail(s)[i] = s[i + 1]
      /\ Head(s) \in S
  OBVIOUS
<1>2. Paired(Tail(s))
  <2> SUFFICES ASSUME NEW i \in 1..Len(Tail(s))
               PROVE  /\ Tail(s)[i] = "off_down" => i < Len(Tail(s)) /\ Tail(s)[i + 1] = "off_arm"
                      /\ Tail(s)[i] = "err_mute" => i < Len(Tail(s)) /\ Tail(s)[i + 1] = "err_arm"
                      /\ Tail(s)[i] = "off_stop" => i < Len(Tail(s))
    BY DEF Paired
  <2>1. Tail(s)[i] = s[i + 1] /\ i + 1 \in 1..Len(s)
    BY <1>1
  <2>2. i < Len(Tail(s)) => Tail(s)[i + 1] = s[i + 1 + 1]
    BY <1>1
  <2>3. i + 1 < Len(s) => i < Len(Tail(s))
    BY <1>1
  <2> QED
    BY <2>1, <2>2, <2>3 DEF Paired
<1>3. /\ Head(s) = "off_down" => Len(s) > 1 /\ s[2] = "off_arm"
      /\ Head(s) = "err_mute" => Len(s) > 1 /\ s[2] = "err_arm"
      /\ Head(s) = "off_stop" => Len(s) > 1
  BY <1>1 DEF Paired
<1>4. Len(s) > 1 => Tail(s) # <<>> /\ Head(Tail(s)) = s[2]
  <2> SUFFICES ASSUME Len(s) > 1 PROVE Tail(s) # <<>> /\ Head(Tail(s)) = s[2]
    OBVIOUS
  <2>1. Len(Tail(s)) > 0 /\ Tail(s)[1] = s[2]
    BY <1>1
  <2> QED
    BY <1>1, <2>1, HeadIs
<1> QED
  BY <1>1, <1>2, <1>3, <1>4 DEF Heads

LEMMA PairedConcat ==
  ASSUME NEW s \in Seq(StepName), NEW t \in Seq(StepName), Paired(s), Paired(t)
  PROVE  s \o t \in Seq(StepName) /\ Paired(s \o t)
<1>1. /\ s \o t \in Seq(StepName) /\ Len(s \o t) = Len(s) + Len(t) /\ Len(s) \in Nat /\ Len(t) \in Nat
      /\ \A i \in 1..(Len(s) + Len(t)) : (s \o t)[i] = IF i <= Len(s) THEN s[i] ELSE t[i - Len(s)]
  OBVIOUS
<1> SUFFICES ASSUME NEW i \in 1..Len(s \o t)
             PROVE  /\ (s \o t)[i] = "off_down" => i < Len(s \o t) /\ (s \o t)[i + 1] = "off_arm"
                    /\ (s \o t)[i] = "err_mute" => i < Len(s \o t) /\ (s \o t)[i + 1] = "err_arm"
                    /\ (s \o t)[i] = "off_stop" => i < Len(s \o t)
  BY <1>1 DEF Paired
<1>2. CASE i <= Len(s)
  <2>1. i \in 1..Len(s) /\ (s \o t)[i] = s[i]
    BY <1>1, <1>2
  <2>2. i < Len(s) => i < Len(s \o t) /\ (s \o t)[i + 1] = s[i + 1]
    BY <1>1, <1>2
  <2> QED
    BY <2>1, <2>2 DEF Paired
<1>3. CASE ~(i <= Len(s))
  <2> DEFINE k == i - Len(s)
  <2>1. k \in 1..Len(t) /\ (s \o t)[i] = t[k]
    BY <1>1, <1>3
  <2>2. k < Len(t) => i < Len(s \o t) /\ (s \o t)[i + 1] = t[k + 1]
    <3>1. k < Len(t) => i + 1 \in 1..(Len(s) + Len(t)) /\ ~(i + 1 <= Len(s)) /\ (i + 1) - Len(s) = k + 1
      BY <1>1, <1>3
    <3> QED
      BY <1>1, <3>1
  <2> HIDE DEF k
  <2> QED
    BY <2>1, <2>2 DEF Paired
<1> QED
  BY <1>2, <1>3

LEMMA Handlers ==
  /\ <<>> \in Seq(StepName) /\ Paired(<<>>)
  /\ \A h \in {GoodFrame, BusError, BusOff, <<"err_ok">>} : h \in Seq(StepName) /\ Paired(h)
  /\ GoodFrame \in Seq(GoodStep) /\ <<>> \in Seq(GoodStep)
<1>1. <<>> \in Seq(StepName) /\ Paired(<<>>) /\ <<>> \in Seq(GoodStep)
  BY DEF Paired
<1>2. GoodFrame \in Seq(StepName) /\ Paired(GoodFrame) /\ GoodFrame \in Seq(GoodStep)
  BY DEF GoodFrame, StepName, GoodStep, Paired
<1>3. BusError \in Seq(StepName) /\ Paired(BusError)
  BY DEF BusError, StepName, Paired
<1>4. BusOff \in Seq(StepName) /\ Paired(BusOff)
  BY DEF BusOff, StepName, Paired
<1>5. <<"err_ok">> \in Seq(StepName) /\ Paired(<<"err_ok">>)
  BY DEF StepName, Paired
<1> QED
  BY <1>1, <1>2, <1>3, <1>4, <1>5

LEMMA DoTakes ==
  ASSUME NEW S, NEW steps \in Seq(S), Paired(steps), NEW next, Do(steps, next)
  PROVE  /\ next \in Seq(S) /\ Paired(next)
         /\ \/ Heads(steps, "err_ok") /\ ErrOk
            \/ Heads(steps, "off_stop") /\ OffStop
            \/ Heads(steps, "off_clear") /\ OffClear
            \/ Heads(steps, "err_mute") /\ ErrMute /\ Heads(next, "err_arm")
            \/ Heads(steps, "err_mute") /\ ErrCount
            \/ Heads(steps, "off_stop") /\ UNCHANGED <<port, buserr, busoff, past>>
            \/ Heads(steps, "err_arm") /\ ErrArm
            \/ Heads(steps, "off_down") /\ OffDown /\ Heads(next, "off_arm")
            \/ Heads(steps, "off_arm") /\ OffArm
<1>1. steps # <<>> /\ Tail(steps) \in Seq(S) /\ Paired(Tail(steps))
  BY PairedTail DEF Do
<1>2. next = Tail(steps) \/ (next = Tail(Tail(steps)) /\ Head(steps) \in {"off_stop", "err_mute"})
  BY DEF Do
<1>3. Head(steps) \in {"off_stop", "err_mute"} => Tail(steps) # <<>>
  BY <1>1, PairedTail DEF Heads
<1>4. next \in Seq(S) /\ Paired(next)
  BY <1>1, <1>2, <1>3, PairedTail
<1> QED
  BY <1>1, <1>4, PairedTail DEF Do, Heads

LEMMA RecTidyInit == RecInit => RecTidy
<1> SUFFICES ASSUME RecInit PROVE RecTidy
  OBVIOUS
<1>1. RecTyped /\ SwitchTyped /\ OnItsWay /\ Asleep
  BY DEF RecInit, RecTyped, SwitchTyped, OnItsWay, Asleep
<1>2. StepsTyped
  BY Handlers DEF RecInit, StepsTyped
<1> QED
  BY <1>1, <1>2 DEF RecTidy

(* The handlers of a good frame: whichever task runs them.                 *)
LEMMA GoodKeeps ==
  ASSUME RecTyped, ErrOk \/ OffStop \/ OffClear \/ UNCHANGED <<port, buserr, busoff, past>>,
         UNCHANGED <<awake, switch, expiry>>, OnItsWay,
         UNCHANGED task \/ Heads(task, "err_ok") \/ Heads(task, "off_stop") \/ Heads(task, "off_clear")
  PROVE  RecTyped' /\ OnItsWay' /\ (past.late => past'.late) /\ UNCHANGED port.is_init
         /\ (busoff'.timer => busoff.timer)
<1>1. \A step \in {"off_arm", "err_arm"} : Heads(task, step) => Heads(task, step)'
  BY DEF Heads
<1>2. CASE ErrOk
  <2>1. /\ UNCHANGED <<port, busoff, past.given_up, past.late>> /\ ~buserr'.timer
        /\ past'.muted <=> (past.muted \/ (buserr.timer /\ ~port.report))
    BY <1>2 DEF ErrOk, RecTyped
  <2>2. RecTyped'
    BY <1>2 DEF ErrOk, RecTyped
  <2> QED
    BY <1>1, <2>1, <2>2 DEF OnItsWay
<1>3. CASE OffStop \/ OffClear
  <2>1. /\ UNCHANGED <<port, buserr, past.muted, past.late>> /\ (busoff'.timer => busoff.timer)
        /\ past'.given_up <=> (past.given_up \/ ~port.is_init)
    BY <1>3 DEF OffStop, OffClear, RecTyped
  <2>2. RecTyped'
    BY <1>3 DEF OffStop, OffClear, RecTyped
  <2> QED
    BY <1>1, <2>1, <2>2 DEF OnItsWay
<1>4. CASE UNCHANGED <<port, buserr, busoff, past>>
  BY <1>1, <1>4 DEF RecTyped, OnItsWay
<1> QED
  BY <1>2, <1>3, <1>4

(* The controller is set up, or that fails.                                *)
LEMMA InitDoes ==
  ASSUME RecTyped, can_if_init
  PROVE  /\ port' = [is_init |-> port'.is_init, report |-> port'.report]
         /\ past' = [muted |-> past'.muted, given_up |-> past'.given_up, late |-> past'.late]
         /\ past'.late = past.late
         /\ \/ port'.is_init /\ port'.report
            \/ port' = port /\ past'.muted = past.muted /\ (~port.is_init => past'.given_up)
<1>1. CASE port' = [is_init |-> TRUE, report |-> TRUE]
           /\ past' = [past EXCEPT !.muted = FALSE, !.given_up = FALSE]
  BY <1>1 DEF RecTyped
<1>2. CASE UNCHANGED port /\ past' = [past EXCEPT !.given_up = @ \/ ~port.is_init]
  BY <1>2 DEF RecTyped
<1> QED
  BY <1>1, <1>2 DEF can_if_init

LEMMA TaskTidy == ASSUME RecTidy, RecTask PROVE RecTidy'
<1>1. /\ RecTyped /\ OnItsWay /\ UNCHANGED <<awake, switch, expiry, good>>
      /\ Do(task, task') /\ task # <<>>
  BY DEF RecTidy, RecTask, Do
<1>2. StepsTyped'
  BY <1>1, DoTakes DEF RecTidy, StepsTyped
<1>3. /\ \/ Heads(task, "err_ok") /\ ErrOk
         \/ Heads(task, "off_stop") /\ OffStop
         \/ Heads(task, "off_clear") /\ OffClear
         \/ Heads(task, "err_mute") /\ ErrMute /\ Heads(task', "err_arm")
         \/ Heads(task, "err_mute") /\ ErrCount
         \/ Heads(task, "off_stop") /\ UNCHANGED <<port, buserr, busoff, past>>
         \/ Heads(task, "err_arm") /\ ErrArm
         \/ Heads(task, "off_down") /\ OffDown /\ Heads(task', "off_arm")
         \/ Heads(task, "off_arm") /\ OffArm
  BY <1>1, DoTakes DEF RecTidy, StepsTyped
<1>4. SwitchTyped'
  BY <1>1 DEF RecTidy, SwitchTyped
<1>5. (~port.is_init => ~port'.is_init) /\ past'.late = past.late => Asleep'
  BY <1>1 DEF RecTidy, Asleep
<1>6. CASE \/ Heads(task, "err_ok") /\ ErrOk
           \/ Heads(task, "off_stop") /\ OffStop
           \/ Heads(task, "off_clear") /\ OffClear
           \/ Heads(task, "off_stop") /\ UNCHANGED <<port, buserr, busoff, past>>
  <2>1. RecTyped' /\ OnItsWay' /\ UNCHANGED port.is_init
    BY <1>1, <1>6, GoodKeeps
  <2>2. past'.late = past.late
    BY <1>1, <1>6 DEF ErrOk, OffStop, OffClear, RecTyped
  <2> QED
    BY <1>2, <1>4, <1>5, <2>1, <2>2 DEF RecTidy
<1>7. CASE Heads(task, "err_mute") /\ ErrMute /\ Heads(task', "err_arm")
  <2>1. /\ UNCHANGED <<buserr, busoff, past, port.is_init>> /\ RecTyped'
    BY <1>1, <1>7 DEF ErrMute, ErrorReport, RecTyped
  <2>2. ~Heads(task, "off_arm") /\ Heads(task, "err_arm")'
    BY <1>7 DEF Heads
  <2>3. OnItsWay'
    BY <1>1, <2>1, <2>2 DEF OnItsWay
  <2> QED
    BY <1>2, <1>4, <1>5, <2>1, <2>3 DEF RecTidy
<1>8. CASE Heads(task, "err_mute") /\ ErrCount
  <2>1. /\ UNCHANGED <<port, busoff, past, buserr.timer, buserr.is_recovering>> /\ RecTyped'
    BY <1>1, <1>8 DEF ErrCount, RecTyped
  <2>2. ~Heads(task, "off_arm") /\ ~Heads(task, "err_arm")
    BY <1>8 DEF Heads
  <2>3. OnItsWay'
    BY <1>1, <2>1, <2>2 DEF OnItsWay
  <2> QED
    BY <1>2, <1>4, <1>5, <2>1, <2>3 DEF RecTidy
<1>9. CASE Heads(task, "err_arm") /\ ErrArm
  <2>1. /\ UNCHANGED <<port, busoff, past>> /\ buserr'.timer /\ buserr'.is_recovering /\ RecTyped'
    BY <1>1, <1>9 DEF ErrArm, RecTyped
  <2>2. ~Heads(task, "off_arm")
    BY <1>9 DEF Heads
  <2>3. OnItsWay'
    BY <1>1, <2>1, <2>2 DEF OnItsWay
  <2> QED
    BY <1>2, <1>4, <1>5, <2>1, <2>3 DEF RecTidy
<1>10. CASE Heads(task, "off_down") /\ OffDown /\ Heads(task', "off_arm")
  <2>1. /\ UNCHANGED <<buserr, busoff, past, port.report>> /\ RecTyped'
        /\ ~port.is_init => ~port'.is_init
    BY <1>1, <1>10 DEF OffDown, can_if_deinit, RecTyped
  <2>2. Heads(task, "off_arm")' /\ ~Heads(task, "err_arm")
    BY <1>10 DEF Heads
  <2>3. OnItsWay'
    BY <1>1, <2>1, <2>2 DEF OnItsWay
  <2> QED
    BY <1>2, <1>4, <1>5, <2>1, <2>3 DEF RecTidy
<1>11. CASE Heads(task, "off_arm") /\ OffArm
  <2>1. /\ UNCHANGED <<port, buserr, past>> /\ busoff'.timer /\ busoff'.is_recovering /\ RecTyped'
    BY <1>1, <1>11 DEF OffArm, RecTyped
  <2>2. ~Heads(task, "err_arm")
    BY <1>11 DEF Heads
  <2>3. OnItsWay'
    BY <1>1, <2>1, <2>2 DEF OnItsWay
  <2> QED
    BY <1>2, <1>4, <1>5, <2>1, <2>3 DEF RecTidy
<1> QED
  BY <1>3, <1>6, <1>7, <1>8, <1>9, <1>10, <1>11

LEMMA GoodTaskTidy == ASSUME RecTidy, RecTxTask PROVE RecTidy'
<1>1. RecTyped /\ OnItsWay /\ UNCHANGED <<awake, switch, expiry, task>> /\ Do(good, good')
  BY DEF RecTidy, RecTxTask
<1>2. StepsTyped'
  BY <1>1, DoTakes DEF RecTidy, StepsTyped
<1>3. Head(good) \in GoodStep
  BY <1>1, PairedTail DEF RecTidy, StepsTyped, Do
<1>4. ErrOk \/ OffStop \/ OffClear \/ UNCHANGED <<port, buserr, busoff, past>>
  BY <1>1, <1>3 DEF Do, GoodStep
<1>5. RecTyped' /\ OnItsWay' /\ (past.late => past'.late) /\ UNCHANGED port.is_init
         /\ (busoff'.timer => busoff.timer)
  BY <1>1, <1>4, GoodKeeps
<1>6. SwitchTyped' /\ Asleep'
  BY <1>1, <1>5 DEF RecTidy, SwitchTyped, Asleep
<1> QED
  BY <1>2, <1>5, <1>6 DEF RecTidy

LEMMA TakenTidy == ASSUME RecTidy, RecInterrupt \/ TakeEvents \/ TakeDone PROVE RecTidy'
<1>1. UNCHANGED <<port, buserr, busoff, awake, expiry, switch, past>>
  BY DEF RecInterrupt, TakeEvents, TakeDone
<1>2. RecTyped' /\ SwitchTyped'
  BY <1>1 DEF RecTidy, RecTyped, SwitchTyped
<1>3. StepsTyped'
  <2>1. CASE RecInterrupt
    BY <2>1 DEF RecInterrupt, RecTidy, StepsTyped
  <2>2. CASE TakeDone
    BY <2>2, Handlers DEF TakeDone, RecTidy, StepsTyped, GoodStep
  <2>3. CASE TakeEvents
    <3>1. PICK received \in {<<>>, GoodFrame}, ok \in {<<>>, <<"err_ok">>},
               errors \in {<<>>, BusError}, off \in {<<>>, BusOff} :
            task' \in {<<>>, received \o errors \o off \o ok}
      BY <2>3 DEF TakeEvents
    <3>2. received \o errors \in Seq(StepName) /\ Paired(received \o errors)
      BY <3>1, Handlers, PairedConcat
    <3>3. (received \o errors) \o off \in Seq(StepName) /\ Paired((received \o errors) \o off)
      BY <3>1, <3>2, Handlers, PairedConcat
    <3>4. task' \in Seq(StepName) /\ Paired(task')
      BY <3>1, <3>3, Handlers, PairedConcat
    <3> QED
      BY <2>3, <3>4 DEF TakeEvents, RecTidy, StepsTyped
  <2> QED
    BY <2>1, <2>2, <2>3
<1>4. UNCHANGED task \/ task = <<>>
  BY DEF RecInterrupt, TakeEvents, TakeDone
<1>5. OnItsWay'
  BY <1>1, <1>4 DEF RecTidy, OnItsWay, Heads
<1>6. ~awake /\ task = <<>> => task' = <<>>
  <2>1. TakeEvents /\ ~awake => task' = <<>>
    BY DEF TakeEvents
  <2> QED
    BY <2>1 DEF RecInterrupt, TakeDone
<1>7. Asleep'
  BY <1>1, <1>6 DEF RecTidy, Asleep
<1> QED
  BY <1>2, <1>3, <1>5, <1>7 DEF RecTidy

LEMMA TimersTidy ==
  ASSUME RecTidy, can_buserr_timer_callback \/ can_busoff_timer_callback \/ SetUpAgain
  PROVE  RecTidy'
<1>1. RecTyped /\ OnItsWay /\ UNCHANGED <<awake, switch, task, good>>
  BY DEF RecTidy, can_buserr_timer_callback, can_busoff_timer_callback, SetUpAgain
<1>2. StepsTyped' /\ SwitchTyped' /\ (\A step \in {"off_arm", "err_arm"} : Heads(task, step)' = Heads(task, step))
  BY <1>1 DEF RecTidy, StepsTyped, SwitchTyped, Heads
<1>3. CASE can_buserr_timer_callback
  <2>1. /\ UNCHANGED <<busoff, expiry, port.is_init, past.given_up, past.late>> /\ RecTyped'
        /\ ~buserr'.timer /\ (port.is_init => port'.report)
    BY <1>1, <1>3 DEF can_buserr_timer_callback, ErrorReport, RecTyped
  <2> QED
    BY <1>1, <1>2, <2>1 DEF RecTidy, OnItsWay, Asleep
<1>4. CASE can_busoff_timer_callback
  <2>1. PICK supplied \in BOOLEAN :
          /\ busoff' = [busoff EXCEPT !.timer = busoff.is_recovering /\ ~supplied]
          /\ expiry' = (busoff.is_recovering /\ supplied)
    BY <1>4 DEF can_busoff_timer_callback
  <2>2. /\ UNCHANGED <<port, buserr, past, busoff.is_recovering>> /\ RecTyped'
        /\ busoff.timer /\ ~expiry
        /\ busoff.is_recovering => busoff'.timer \/ expiry'
    BY <1>1, <1>4, <2>1 DEF can_busoff_timer_callback, RecTyped
  <2> QED
    BY <1>1, <1>2, <2>2 DEF RecTidy, OnItsWay, Asleep
<1>5. CASE SetUpAgain
  <2>1. /\ UNCHANGED <<buserr, busoff>> /\ expiry /\ ~expiry' /\ can_if_init
    BY <1>5 DEF SetUpAgain
  <2>2. RecTyped' /\ OnItsWay' /\ past'.late = past.late
    BY <1>1, <1>2, <2>1, InitDoes DEF RecTyped, OnItsWay
  <2>3. Asleep'
    BY <1>1, <2>1, <2>2 DEF RecTidy, Asleep
  <2> QED
    BY <1>2, <2>2, <2>3 DEF RecTidy
<1> QED
  BY <1>3, <1>4, <1>5

LEMMA SwitchIs ==
  /\ Tail(<<"err_sleep", "off_sleep", "deinit">>) = <<"off_sleep", "deinit">>
  /\ Tail(<<"off_sleep", "deinit">>) = <<"deinit">>
  /\ Head(<<"err_sleep", "off_sleep", "deinit">>) = "err_sleep"
  /\ Head(<<"off_sleep", "deinit">>) = "off_sleep"
  /\ Head(<<"deinit">>) = "deinit" /\ Head(<<"init">>) = "init"
  /\ \A a, b, c : /\ <<a>> # <<>> /\ <<a, b>> # <<>> /\ <<a, b, c>> # <<>>
                  /\ <<a>> # <<b, c>>
                  /\ \A d : <<a, b, c>> # <<d>> /\ (\A e : <<a, b, c>> # <<d, e>>)
  OBVIOUS

LEMMA PowerTidy == ASSUME RecTidy, RecPower PROVE RecTidy'
<1>1. RecTyped /\ OnItsWay /\ SwitchTyped /\ UNCHANGED <<task, good, expiry>>
  BY DEF RecTidy, RecPower, can_stop_begins, can_buserr_sleep, can_busoff_sleep,
         can_mgr_deinit_port, can_start_begins, can_mgr_init_port
<1>2. StepsTyped' /\ (\A step \in {"off_arm", "err_arm"} : Heads(task, step)' = Heads(task, step))
  BY <1>1 DEF RecTidy, StepsTyped, Heads
<1>3. CASE can_stop_begins
  <2>1. /\ UNCHANGED <<port, buserr, busoff, past>> /\ ~awake'
        /\ switch' = <<"err_sleep", "off_sleep", "deinit">>
    BY <1>3 DEF can_stop_begins
  <2> QED
    BY <1>1, <1>2, <2>1, SwitchIs DEF RecTidy, RecTyped, SwitchTyped, OnItsWay, Asleep
<1>4. CASE can_buserr_sleep
  <2>1. ~awake /\ ~awake' /\ switch' = <<"off_sleep", "deinit">>
    BY <1>1, <1>4, SwitchIs DEF can_buserr_sleep, SwitchTyped
  <2>2. /\ UNCHANGED <<busoff, past, port.is_init>> /\ ~buserr'.timer /\ RecTyped'
        /\ \/ buserr.is_recovering /\ port.is_init /\ port'.report
           \/ buserr.is_recovering /\ ~port.is_init
           \/ ~buserr.is_recovering /\ UNCHANGED port
    BY <1>1, <1>4 DEF can_buserr_sleep, ErrorReport, RecTyped
  <2> QED
    BY <1>1, <1>2, <2>1, <2>2, SwitchIs DEF RecTidy, SwitchTyped, OnItsWay, Asleep
<1>5. CASE can_busoff_sleep
  <2>1. ~awake /\ ~awake' /\ switch' = <<"deinit">>
    BY <1>1, <1>5, SwitchIs DEF can_busoff_sleep, SwitchTyped
  <2>2. /\ UNCHANGED <<port, buserr, past.muted, past.given_up>> /\ ~busoff'.timer /\ RecTyped'
        /\ past'.late <=> task # <<>> \/ expiry
    BY <1>1, <1>5 DEF can_busoff_sleep, RecTyped
  <2> QED
    BY <1>1, <1>2, <2>1, <2>2, SwitchIs DEF RecTidy, SwitchTyped, OnItsWay, Asleep
<1>6. CASE can_mgr_deinit_port
  <2>1. ~awake /\ ~awake' /\ switch = <<"deinit">> /\ switch' = <<>>
    BY <1>1, <1>6, SwitchIs DEF can_mgr_deinit_port, SwitchTyped
  <2>2. UNCHANGED <<buserr, busoff, past>> /\ ~port'.is_init /\ RecTyped'
    BY <1>1, <1>6 DEF can_mgr_deinit_port, can_if_deinit, RecTyped
  <2> QED
    BY <1>1, <1>2, <2>1, <2>2 DEF RecTidy, SwitchTyped, OnItsWay, Asleep
<1>7. CASE can_start_begins
  <2>1. /\ UNCHANGED <<port, buserr, busoff, past.muted, past.given_up>> /\ RecTyped'
        /\ awake' /\ switch' = <<"init">>
    BY <1>1, <1>7 DEF can_start_begins, RecTyped
  <2> QED
    BY <1>1, <1>2, <2>1, SwitchIs DEF RecTidy, RecTyped, SwitchTyped, OnItsWay, Asleep
<1>8. CASE can_mgr_init_port
  <2>1. awake /\ awake' /\ switch' = <<>>
    BY <1>1, <1>8, SwitchIs DEF can_mgr_init_port, SwitchTyped
  <2>2. UNCHANGED <<buserr, busoff>> /\ can_if_init
    BY <1>8 DEF can_mgr_init_port
  <2>3. RecTyped' /\ OnItsWay'
    BY <1>1, <1>2, <2>2, InitDoes DEF RecTyped, OnItsWay
  <2> QED
    BY <1>2, <2>1, <2>3 DEF RecTidy, SwitchTyped, Asleep
<1> QED
  BY <1>3, <1>4, <1>5, <1>6, <1>7, <1>8 DEF RecPower

(* What an error handler takes down or switches off is put back, and       *)
(* nothing of it puts the port up while the unit sleeps.                   *)
THEOREM PortsRecover == RecSpec => []PortRecovers
<1>1. RecTidy => PortRecovers
  <2> SUFFICES ASSUME RecTidy PROVE PortRecovers
    OBVIOUS
  <2>1. \A step : Heads(task, step) => step \in Steps(task)
    BY DEF RecTidy, StepsTyped, Heads, Steps
  <2> QED
    BY <2>1 DEF RecTidy, OnItsWay, Asleep, PortRecovers, PortComesBack, ReportComesBack, PortSleeps
<1>2. RecTidy /\ [RecNext]_recVars => RecTidy'
  <2>1. RecTidy /\ UNCHANGED recVars => RecTidy'
    BY DEF recVars, RecTidy, RecTyped, StepsTyped, SwitchTyped, OnItsWay, Asleep, Heads
  <2> QED
    BY <2>1, TaskTidy, GoodTaskTidy, TakenTidy, TimersTidy, PowerTidy DEF RecNext
<1> QED
  BY <1>1, <1>2, RecTidyInit, PTL DEF RecSpec
-----------------------------------------------------------------------------
(***************************************************************************)
(* J1939Transport: one session at a time, and one place for a frame.       *)
(***************************************************************************)
AnyMsg == [src : Sources \cup {"none"}, id : Nat, len : Nat]
AnyFrame == [kind : {"none", "BAM", "RTS", "DT"}, msg : AnyMsg, seq : Nat]
Status == {"WAIT_FOR_MESSAGE", "WAIT_FOR_DATA", "INIT_REASSEMBLE_STRUCTURE"}

ReceiverTyped ==
  /\ dl_rx_list \in Seq(AnyFrame) /\ pdu \in AnyFrame
  /\ machine \in [status : Status, msg : AnyMsg, packet_number : Nat, timer : Nat]
  /\ expect \in [msg : AnyMsg, next : Nat, quiet : Nat]

(* A data frame of the session's own node that was not saved yet.          *)
Fresh(f) == f.kind = "DT" /\ f.msg.src = machine.msg.src /\ f.seq # 0

Ticked == IF machine.timer > TpLimit THEN machine.timer ELSE machine.timer + 1
Saved(f) == Append(data, [msg |-> f.msg, seq |-> f.seq])

(* What one tick makes of the frame it finds.                              *)
Opens(f) ==
  /\ machine.status = "WAIT_FOR_MESSAGE" /\ f.kind = "BAM" /\ f.msg.len < RxBuffers
  /\ machine' = [status |-> "WAIT_FOR_DATA", msg |-> f.msg, packet_number |-> 0, timer |-> 0]
  /\ pdu' = f /\ data' = <<>> /\ got' = got

Ignores(f) ==
  /\ machine.status = "WAIT_FOR_MESSAGE" /\ (f.kind = "BAM" => f.msg.len >= RxBuffers)
  /\ pdu' = f /\ data' = data /\ got' = got
  /\ \/ machine' = machine
     \/ machine' = [status |-> "INIT_REASSEMBLE_STRUCTURE", msg |-> machine.msg,
                    packet_number |-> machine.packet_number, timer |-> machine.timer]

Keeps(f) ==
  /\ machine.status = "WAIT_FOR_DATA" /\ ~Fresh(f)
  /\ f.kind = "DT" \/ Ticked <= TpLimit
  /\ pdu' = f /\ data' = data /\ got' = got
  /\ machine' = [status |-> "WAIT_FOR_DATA", msg |-> machine.msg,
                 packet_number |-> machine.packet_number, timer |-> Ticked]

Gives(f) ==
  /\ machine.status = "WAIT_FOR_DATA"
  /\ \/ Fresh(f) /\ f.seq # machine.packet_number + 1
     \/ f.kind # "DT" /\ Ticked > TpLimit
  /\ machine' = NoSession /\ pdu' = NoPdu /\ data' = data /\ got' = got

Saves(f) ==
  /\ machine.status = "WAIT_FOR_DATA" /\ Fresh(f) /\ f.seq = machine.packet_number + 1
  /\ f.seq # Packets(machine.msg)
  /\ machine' = [status |-> "WAIT_FOR_DATA", msg |-> machine.msg,
                 packet_number |-> f.seq, timer |-> 0]
  /\ pdu' = [kind |-> "DT", msg |-> f.msg, seq |-> 0] /\ data' = Saved(f) /\ got' = got

Completes(f) ==
  /\ machine.status = "WAIT_FOR_DATA" /\ Fresh(f) /\ f.seq = machine.packet_number + 1
  /\ f.seq = Packets(machine.msg)
  /\ machine' = NoSession /\ pdu' = NoPdu /\ data' = Saved(f)
  /\ \E kept \in BOOLEAN :
       /\ got' = got \cup {[msg |-> machine.msg, data |-> Saved(f), kept |-> kept]}
       /\ machine.msg.len < RxBuffers - 1 => kept

LEMMA TransportConstants ==
  RxBuffers \in Nat /\ TpLimit \in Nat /\ MaxMessages \in Nat
  BY TransportAssumption DEF TransportAssumption

LEMMA TickDoes ==
  ASSUME NEW f \in AnyFrame, ReceiverTyped, j1939_tl_periodic(f),
         machine.status # "INIT_REASSEMBLE_STRUCTURE"
  PROVE  Opens(f) \/ Ignores(f) \/ Keeps(f) \/ Gives(f) \/ Saves(f) \/ Completes(f)
<1>1. /\ machine = [status |-> machine.status, msg |-> machine.msg,
                    packet_number |-> machine.packet_number, timer |-> machine.timer]
      /\ machine.status \in Status /\ machine.msg \in AnyMsg
      /\ machine.packet_number \in Nat /\ machine.timer \in Nat /\ machine.msg.len \in Nat
      /\ f = [kind |-> f.kind, msg |-> f.msg, seq |-> f.seq]
      /\ f.msg.len \in Nat /\ f.seq \in Nat
  BY DEF ReceiverTyped, AnyFrame, AnyMsg
<1>2. CASE machine.status = "WAIT_FOR_MESSAGE"
  <2>1. WaitForMessage(f, machine)
    BY <1>2 DEF j1939_tl_periodic
  <2>2. CASE f.kind = "BAM" /\ f.msg.len < RxBuffers
    <3>1. machine' = Session(f.msg) /\ pdu' = f /\ data' = <<>> /\ UNCHANGED got
      BY <2>1, <2>2 DEF WaitForMessage
    <3> QED
      BY <1>2, <2>2, <3>1 DEF Opens, Session, NoSession
  <2>3. CASE f.kind = "RTS"
    <3>1. Waits(f, [machine EXCEPT !.status = "INIT_REASSEMBLE_STRUCTURE"])
      BY <2>1, <2>3 DEF WaitForMessage
    <3> QED
      BY <1>1, <1>2, <2>3, <3>1 DEF Ignores, Waits
  <2>4. CASE ~(f.kind = "BAM" /\ f.msg.len < RxBuffers) /\ f.kind # "RTS"
    <3>1. Waits(f, machine)
      BY <2>1, <2>4 DEF WaitForMessage
    <3> QED
      BY <1>1, <1>2, <2>4, <3>1, TransportConstants DEF Ignores, Waits
  <2> QED
    BY <2>2, <2>3, <2>4
<1>3. CASE machine.status = "WAIT_FOR_DATA"
  <2> DEFINE mc == [machine EXCEPT !.timer = IF @ > TpLimit THEN @ ELSE @ + 1]
  <2>1. WaitForData(f, mc)
    BY <1>3 DEF j1939_tl_periodic
  <2>2. mc = [status |-> "WAIT_FOR_DATA", msg |-> machine.msg,
              packet_number |-> machine.packet_number, timer |-> Ticked]
    BY <1>1, <1>3 DEF Ticked
  <2>3. /\ mc.msg = machine.msg /\ mc.packet_number = machine.packet_number
        /\ mc.timer = Ticked /\ Ticked \in Nat
    BY <1>1, <2>2, TransportConstants DEF Ticked
  <2> HIDE DEF mc
  <2>4. CASE f.kind # "DT"
    <3>1. CheckTimer(f, mc)
      BY <2>1, <2>4 DEF WaitForData
    <3>2. CASE Ticked > TpLimit
      BY <1>3, <2>3, <2>4, <3>1, <3>2 DEF CheckTimer, Reset, Gives
    <3>3. CASE ~(Ticked > TpLimit)
      BY <1>3, <2>2, <2>3, <2>4, <3>1, <3>3, TransportConstants DEF CheckTimer, Waits, Keeps, Fresh
    <3> QED
      BY <3>2, <3>3
  <2>5. CASE f.kind = "DT"
    <3>1. CheckDataPacket(f, mc)
      BY <2>1, <2>5 DEF WaitForData
    <3>2. CASE ~Fresh(f)
      BY <1>3, <2>2, <2>3, <2>5, <3>1, <3>2 DEF CheckDataPacket, Waits, Keeps, Fresh
    <3>3. CASE Fresh(f) /\ f.seq # machine.packet_number + 1
      BY <1>3, <2>3, <2>5, <3>1, <3>3 DEF CheckDataPacket, Reset, Gives, Fresh
    <3>4. CASE Fresh(f) /\ f.seq = machine.packet_number + 1
      <4>1. SaveData(f, mc)
        BY <2>3, <2>5, <3>1, <3>4 DEF CheckDataPacket, Fresh
      <4>2. CASE f.seq = Packets(machine.msg)
        <5>1. /\ machine' = NoSession /\ pdu' = NoPdu /\ data' = Saved(f)
              /\ got' = got \cup {[msg |-> machine.msg, data |-> Saved(f), kept |-> ~Overruns(mc)]}
          BY <2>3, <3>4, <4>1, <4>2 DEF SaveData, Saved
        <5>2. machine.msg.len < RxBuffers - 1 => ~Overruns(mc)
          BY <1>1, <2>3, TransportConstants DEF Overruns
        <5>3. (~Overruns(mc)) \in BOOLEAN
          OBVIOUS
        <5> QED
          BY <1>3, <3>4, <4>2, <5>1, <5>2, <5>3 DEF Completes
      <4>3. CASE f.seq # Packets(machine.msg)
        <5>1. /\ machine' = [mc EXCEPT !.packet_number = @ + 1, !.timer = 0]
              /\ pdu' = Consumed(f) /\ data' = Saved(f) /\ UNCHANGED got
          BY <2>3, <3>4, <4>1, <4>3 DEF SaveData, Saved
        <5>2. machine' = [status |-> "WAIT_FOR_DATA", msg |-> machine.msg,
                          packet_number |-> f.seq, timer |-> 0]
          BY <2>2, <3>4, <5>1
        <5>3. pdu' = [kind |-> "DT", msg |-> f.msg, seq |-> 0]
          BY <1>1, <2>5, <5>1 DEF Consumed
        <5> QED
          BY <1>3, <3>4, <4>3, <5>1, <5>2, <5>3 DEF Saves
      <4> QED
        BY <4>2, <4>3
    <3> QED
      BY <3>2, <3>3, <3>4
  <2> QED
    BY <2>4, <2>5
<1> QED
  BY <1>1, <1>2, <1>3 DEF Status

(* A step of a source leaves the receiver alone.                           *)
LEMMA SourceSends ==
  ASSUME NEW s \in Sources, Announces(s) \/ SendsData(s)
  PROVE  UNCHANGED receiver
  BY DEF Announces, SendsData, Sends

(* A tick works on the first frame of the list, or again on the last one.  *)
Finds(f, e) ==
  /\ f \in AnyFrame /\ j1939_tl_periodic(f) /\ Expected(e)
  /\ \/ dl_rx_list = <<>> /\ dl_rx_list' = <<>> /\ f = pdu /\ e = NoPdu
     \/ dl_rx_list # <<>> /\ dl_rx_list' = Tail(dl_rx_list) /\ f = Head(dl_rx_list) /\ e = f

LEMMA TickFinds ==
  ASSUME ReceiverTyped, j1939_stk_periodic
  PROVE  /\ machine.status # "INIT_REASSEMBLE_STRUCTURE" /\ UNCHANGED <<source, odd, whole>>
         /\ \E f, e : Finds(f, e)
<1>1. CASE dl_rx_list = <<>>
  BY <1>1 DEF j1939_stk_periodic, Finds, ReceiverTyped
<1>2. CASE dl_rx_list # <<>>
  <2>1. Head(dl_rx_list) \in AnyFrame
    BY <1>2 DEF ReceiverTyped
  <2> QED
    BY <1>2, <2>1 DEF j1939_stk_periodic, Finds
<1> QED
  BY <1>1, <1>2 DEF j1939_stk_periodic

SourceTyped ==
  /\ source \in [Sources -> [msg : AnyMsg, next : Nat, all : BOOLEAN]]
  /\ \A s \in Sources : source[s].msg.id <= MaxMessages

TransportTyped == ReceiverTyped /\ SourceTyped

LEMMA LengthsAre == Lengths \subseteq Nat /\ \A s \in Sources : s \in Sources \cup {"none"}
  BY TransportAssumption DEF TransportAssumption

(* What a source's step does to the list and to its own record.            *)
Sending(s, f, n) ==
  /\ UNCHANGED receiver
  /\ \E all \in BOOLEAN :
       /\ source' = [source EXCEPT ![s] = [msg |-> f.msg, next |-> n, all |-> all]]
       /\ all => dl_rx_list' = Append(dl_rx_list, f) /\ (f.kind = "DT" => source[s].all)
       /\ dl_rx_list' \in {dl_rx_list, Append(dl_rx_list, f)}
       /\ whole' = IF all /\ n > Packets(f.msg) THEN whole \cup {f.msg} ELSE whole

LEMMA SendsIs ==
  ASSUME NEW s \in Sources, NEW f, NEW n, SourceTyped, Sends(s, f, n)
  PROVE  Sending(s, f, n)
<1>1. source[s].all \in BOOLEAN
  BY DEF SourceTyped
<1>2. dl_rx_list' \in {dl_rx_list, Append(dl_rx_list, f)} /\ UNCHANGED receiver
  BY DEF Sends, Comes
<1> DEFINE all == dl_rx_list' # dl_rx_list /\ (f.kind = "DT" => source[s].all)
<1>3. /\ source' = [source EXCEPT ![s] = [msg |-> f.msg, next |-> n, all |-> all]]
      /\ whole' = IF all /\ n > Packets(f.msg) THEN whole \cup {f.msg} ELSE whole
  BY DEF Sends
<1>4. PICK b \in BOOLEAN : b = all
  OBVIOUS
<1>5. b => dl_rx_list' = Append(dl_rx_list, f) /\ (f.kind = "DT" => source[s].all)
  BY <1>2, <1>4
<1> HIDE DEF all
<1> QED
  BY <1>2, <1>3, <1>4, <1>5 DEF Sending

(* Announced is the largest number given so far.                           *)
LEMMA AnnouncedIs ==
  ASSUME SourceTyped
  PROVE  Announced \in Nat /\ \A s \in Sources : source[s].msg.id <= Announced
<1> DEFINE Upper == {n \in Nat : \A s \in Sources : source[s].msg.id <= n}
<1>1. MaxMessages \in Upper
  BY TransportConstants DEF SourceTyped
<1>2. PICK m \in Upper : \A n \in Upper : ~(<<n, m>> \in OpToRel(<, Nat))
  <2>1. Upper \subseteq Nat /\ Upper # {}
    BY <1>1
  <2> HIDE DEF Upper
  <2> QED
    BY <2>1, NatLessThanWellFounded, WFMin
<1>3. m \in Nat /\ \A s \in Sources : source[s].msg.id <= m
  OBVIOUS
<1>4. m <= MaxMessages
  <2>1. ~(MaxMessages < m)
    BY <1>1, <1>2, TransportConstants DEF OpToRel
  <2> QED
    BY <1>3, <2>1, TransportConstants
<1>5. m = 0 \/ \E s \in Sources : source[s].msg.id = m
  <2> SUFFICES ASSUME m # 0 PROVE \E s \in Sources : source[s].msg.id = m
    OBVIOUS
  <2>1. m - 1 \in Nat /\ m - 1 < m
    BY <1>3
  <2>2. m - 1 \notin Upper
    <3>1. m - 1 \in Upper => <<m - 1, m>> \in OpToRel(<, Nat)
      BY <1>3, <2>1 DEF OpToRel
    <3> QED
      BY <1>2, <3>1
  <2>3. PICK s \in Sources : ~(source[s].msg.id <= m - 1)
    BY <2>1, <2>2
  <2>4. source[s].msg.id \in Nat /\ source[s].msg.id <= m
    BY <1>3 DEF SourceTyped, AnyMsg
  <2>5. source[s].msg.id = m
    BY <1>3, <2>3, <2>4
  <2> QED
    BY <2>5
<1>6. \E n \in 0..MaxMessages : /\ n = 0 \/ \E s \in Sources : source[s].msg.id = n
                                /\ \A s \in Sources : source[s].msg.id <= n
  <2>1. m \in 0..MaxMessages
    BY <1>3, <1>4, TransportConstants
  <2> QED
    BY <1>3, <1>5, <2>1
<1>7. Announced \in 0..MaxMessages /\ \A s \in Sources : source[s].msg.id <= Announced
  BY <1>6 DEF Announced
<1> QED
  BY <1>7, TransportConstants

Begun(f, s) == /\ f.kind \in {"BAM", "RTS"} /\ f.seq = 0 /\ f.msg.src = s /\ f.msg.len > 0
               /\ f.msg.id = Announced + 1 /\ Announced < MaxMessages
Continued(f, s) == /\ f.kind = "DT" /\ f.msg = source[s].msg
                   /\ f.seq = source[s].next /\ f.seq \in 1..Packets(f.msg)

LEMMA SourceDoes ==
  ASSUME NEW s \in Sources, TransportTyped, Announces(s) \/ SendsData(s)
  PROVE  \E f \in AnyFrame, n \in Nat :
           Sending(s, f, n) /\ n = f.seq + 1 /\ (Begun(f, s) \/ Continued(f, s))
<1>1. CASE Announces(s)
  <2>1. PICK len \in Lengths, kind \in {"BAM", "RTS"} :
          Sends(s, [kind |-> kind, msg |-> [src |-> s, id |-> Announced + 1, len |-> len], seq |-> 0], 1)
    BY <1>1 DEF Announces
  <2> DEFINE m == [src |-> s, id |-> Announced + 1, len |-> len]
             f == [kind |-> kind, msg |-> m, seq |-> 0]
  <2>2. len \in Nat /\ len > 0 /\ Announced + 1 \in Nat
    BY TransportAssumption, AnnouncedIs DEF TransportTyped, TransportAssumption
  <2>3. m \in AnyMsg
    BY <2>2 DEF AnyMsg
  <2>4. m.src = s /\ m.id = Announced + 1 /\ m.len > 0
    BY <2>2
  <2>5. Sends(s, [kind |-> kind, msg |-> m, seq |-> 0], 1)
    BY <2>1
  <2> HIDE DEF m
  <2>6. f \in AnyFrame
    BY <2>3 DEF AnyFrame
  <2>7. Begun(f, s) /\ f.seq = 0
    BY <1>1, <2>4 DEF Begun, Announces
  <2>8. Sending(s, f, 1)
    BY <2>5, SendsIs DEF TransportTyped
  <2> HIDE DEF f
  <2> QED
    BY <2>6, <2>7, <2>8
<1>2. CASE SendsData(s)
  <2> DEFINE m == source[s].msg
             n == source[s].next
             f == [kind |-> "DT", msg |-> m, seq |-> n]
  <2>1. m \in AnyMsg /\ n \in Nat /\ n \in 1..Packets(m) /\ Sends(s, f, n + 1)
    BY <1>2 DEF SendsData, TransportTyped, SourceTyped
  <2>2. f \in AnyFrame
    BY <2>1 DEF AnyFrame
  <2>3. Sending(s, f, n + 1)
    BY <2>1, SendsIs DEF TransportTyped
  <2>4. Continued(f, s) /\ f.seq = n
    BY <2>1 DEF Continued
  <2> HIDE DEF f
  <2> QED
    BY <2>1, <2>2, <2>3, <2>4
<1> QED
  BY <1>1, <1>2

LEMMA TransportTypedInit == TpInit => TransportTyped
<1> SUFFICES ASSUME TpInit PROVE TransportTyped
  OBVIOUS
<1>1. NoMsg \in AnyMsg
  BY DEF NoMsg, AnyMsg
<1>2. NoPdu \in AnyFrame
  BY <1>1 DEF NoPdu, AnyFrame
<1>3. ReceiverTyped
  BY <1>1, <1>2 DEF TpInit, j1939_tl_init, NoSession, ReceiverTyped, Nothing, Expecting, Status
<1>4. SourceTyped
  BY <1>1, TransportConstants DEF TpInit, SourceTyped, NoMsg
<1> QED
  BY <1>3, <1>4 DEF TransportTyped

LEMMA TransportTypedNext == TransportTyped /\ [TpNext]_tpVars => TransportTyped'
<1>1. TransportTyped /\ UNCHANGED tpVars => TransportTyped'
  BY DEF tpVars, TransportTyped, ReceiverTyped, SourceTyped
<1>2. ASSUME TransportTyped, NEW s \in Sources, Announces(s) \/ SendsData(s)
      PROVE  TransportTyped'
  <2>1. PICK f \in AnyFrame, n \in Nat :
           Sending(s, f, n) /\ n = f.seq + 1 /\ (Begun(f, s) \/ Continued(f, s))
    BY <1>2, SourceDoes
  <2>2. dl_rx_list' \in Seq(AnyFrame) /\ UNCHANGED receiver
    <3>1. dl_rx_list' \in {dl_rx_list, Append(dl_rx_list, f)} /\ UNCHANGED receiver
      BY <2>1 DEF Sending
    <3>2. dl_rx_list \in Seq(AnyFrame)
      BY <1>2 DEF TransportTyped, ReceiverTyped
    <3>3. Append(dl_rx_list, f) \in Seq(AnyFrame)
      BY <3>2
    <3> QED
      BY <3>1, <3>2, <3>3
  <2>3. f.msg \in AnyMsg /\ f.msg.id <= MaxMessages
    BY <1>2, <2>1, AnnouncedIs, TransportConstants
       DEF Begun, Continued, TransportTyped, SourceTyped, AnyFrame
  <2>4. PICK all \in BOOLEAN :
          source' = [source EXCEPT ![s] = [msg |-> f.msg, next |-> n, all |-> all]]
    BY <2>1 DEF Sending
  <2>5. SourceTyped'
    BY <1>2, <2>1, <2>3, <2>4 DEF TransportTyped, SourceTyped
  <2> QED
    BY <1>2, <2>2, <2>5 DEF TransportTyped, ReceiverTyped, receiver
<1>3. ASSUME TransportTyped, j1939_stk_periodic
      PROVE  TransportTyped'
  <2>1. PICK f, e : Finds(f, e)
    BY <1>3, TickFinds DEF TransportTyped
  <2>2. UNCHANGED source /\ f \in AnyFrame
    BY <1>3, <2>1 DEF j1939_stk_periodic, Finds
  <2>3. NoMsg \in AnyMsg /\ NoPdu \in AnyFrame /\ NoSession \in [status : Status, msg : AnyMsg, packet_number : Nat, timer : Nat]
    BY DEF NoMsg, AnyMsg, NoPdu, AnyFrame, NoSession, Status
  <2>4. f.msg \in AnyMsg /\ f.seq \in Nat
    BY <2>2 DEF AnyFrame
  <2>5. Ticked \in Nat /\ machine.msg \in AnyMsg /\ machine.packet_number \in Nat /\ machine.timer \in Nat
    BY <1>3, TransportConstants DEF Ticked, TransportTyped, ReceiverTyped
  <2>6. pdu' \in AnyFrame /\ machine' \in [status : Status, msg : AnyMsg, packet_number : Nat, timer : Nat]
    <3>1. Opens(f) \/ Ignores(f) \/ Keeps(f) \/ Gives(f) \/ Saves(f) \/ Completes(f)
      BY <1>3, <2>1, <2>2, TickDoes, TickFinds DEF Finds, TransportTyped
    <3>2. CASE Opens(f)
      BY <2>2, <2>4, <3>2 DEF Opens, Status
    <3>3. CASE Ignores(f)
      BY <1>3, <2>2, <2>5, <3>3 DEF Ignores, Status, TransportTyped, ReceiverTyped
    <3>4. CASE Keeps(f)
      BY <2>2, <2>5, <3>4 DEF Keeps, Status
    <3>5. CASE Gives(f) \/ Completes(f)
      BY <2>3, <3>5 DEF Gives, Completes
    <3>6. CASE Saves(f)
      <4>1. pdu' \in AnyFrame
        BY <2>4, <3>6 DEF Saves, AnyFrame
      <4> QED
        BY <2>4, <2>5, <3>6, <4>1 DEF Saves, Status
    <3> QED
      BY <3>1, <3>2, <3>3, <3>4, <3>5, <3>6
  <2>7. dl_rx_list' \in Seq(AnyFrame)
    <3>1. dl_rx_list \in Seq(AnyFrame)
      BY <1>3 DEF TransportTyped, ReceiverTyped
    <3>2. dl_rx_list' = dl_rx_list \/ (dl_rx_list # <<>> /\ dl_rx_list' = Tail(dl_rx_list))
      BY <2>1 DEF Finds
    <3> QED
      BY <3>1, <3>2
  <2>8. expect' \in [msg : AnyMsg, next : Nat, quiet : Nat]
    <3>1. /\ expect \in [msg : AnyMsg, next : Nat, quiet : Nat]
          /\ expect.msg \in AnyMsg /\ expect.next + 1 \in Nat /\ expect.quiet + 1 \in Nat
          /\ e.msg \in AnyMsg
      BY <1>3, <2>1, <2>3, <2>4 DEF Finds, TransportTyped, ReceiverTyped, NoPdu
    <3>2. \A m \in AnyMsg, n \in Nat : Expecting(m, n) \in [msg : AnyMsg, next : Nat, quiet : Nat]
      BY DEF Expecting
    <3>3. \/ expect' = Expecting(e.msg, 1) \/ expect' = Nothing
          \/ expect' = Expecting(expect.msg, expect.next + 1)
          \/ expect' = [expect EXCEPT !.quiet = @ + 1]
      BY <2>1 DEF Finds, Expected
    <3> QED
      BY <2>3, <3>1, <3>2, <3>3 DEF Nothing
  <2> QED
    BY <1>3, <2>2, <2>6, <2>7, <2>8 DEF TransportTyped, ReceiverTyped, SourceTyped
<1> QED
  BY <1>1, <1>2, <1>3 DEF TpNext

LEMMA TransportTypedAlways == TpSpec => []TransportTyped
  BY TransportTypedInit, TransportTypedNext, PTL DEF TpSpec

(* A tick, by what it finds.                                               *)
Finding(f, e) ==
  /\ f \in AnyFrame /\ Expected(e) /\ UNCHANGED <<source, whole>>
  /\ \/ dl_rx_list = <<>> /\ dl_rx_list' = <<>> /\ f = pdu /\ e = NoPdu
     \/ dl_rx_list # <<>> /\ dl_rx_list' = Tail(dl_rx_list) /\ f = Head(dl_rx_list) /\ e = f
  /\ Opens(f) \/ Ignores(f) \/ Keeps(f) \/ Gives(f) \/ Saves(f) \/ Completes(f)

LEMMA TickIs ==
  ASSUME TransportTyped, j1939_stk_periodic
  PROVE  \E f, e : Finding(f, e)
<1>1. PICK f, e : Finds(f, e)
  BY TickFinds DEF TransportTyped
<1>2. Opens(f) \/ Ignores(f) \/ Keeps(f) \/ Gives(f) \/ Saves(f) \/ Completes(f)
  BY <1>1, TickFinds, TickDoes DEF Finds, TransportTyped
<1> QED
  BY <1>1, <1>2, TickFinds DEF Finding, Finds, TransportTyped

(* An overdue session does not outlive the next announcement.              *)
THEOREM StaleSessionsYield == TpSpec => []StaleSessionYields
<1>1. TpInit => StaleSessionYields
  BY DEF TpInit, j1939_tl_init, NoSession, StaleSessionYields
<1>2. TransportTyped /\ StaleSessionYields /\ [TpNext]_tpVars => StaleSessionYields'
  <2>1. StaleSessionYields /\ UNCHANGED receiver => StaleSessionYields'
    BY DEF receiver, StaleSessionYields
  <2>2. UNCHANGED tpVars => UNCHANGED receiver
    BY DEF tpVars, receiver
  <2>3. ASSUME TransportTyped, j1939_stk_periodic
        PROVE  StaleSessionYields'
    <3>1. PICK f, e : Finding(f, e)
      BY <2>3, TickIs
    <3>2. Ticked \in Nat
      BY <2>3, TransportConstants DEF Ticked, TransportTyped, ReceiverTyped
    <3> QED
      BY <3>1, <3>2, TransportConstants
         DEF Finding, Opens, Ignores, Keeps, Gives, Saves, Completes, NoSession, StaleSessionYields
  <2> QED
    BY <2>1, <2>2, <2>3, SourceSends DEF TpNext
<1> QED
  BY <1>1, <1>2, TransportTypedAlways, PTL DEF TpSpec

(* In a session, the frame in the machine's place has been saved already,  *)
(* or is of another node.                                                  *)
Spent == machine.status = "WAIT_FOR_DATA" => ~Fresh(pdu)

(* While a message is expected, its session is open, has saved just the    *)
(* packets before the expected one, and is not overdue.                    *)
Awaiting ==
  expect # Nothing =>
    /\ machine.status = "WAIT_FOR_DATA" /\ machine.msg = expect.msg
    /\ expect.next = machine.packet_number + 1
    /\ machine.timer <= expect.quiet /\ expect.quiet <= TpLimit

LEMMA SpentNext ==
  ASSUME TransportTyped, Spent, NEW f, NEW e, Finding(f, e)
  PROVE  Spent'
<1>1. CASE Opens(f)
  BY <1>1 DEF Opens, Spent, Fresh
<1>2. CASE Ignores(f)
  BY <1>2 DEF Ignores, Spent
<1>3. CASE Keeps(f)
  BY <1>3 DEF Keeps, Spent, Fresh
<1>4. CASE Gives(f) \/ Completes(f)
  BY <1>4 DEF Gives, Completes, NoSession, Spent
<1>5. CASE Saves(f)
  BY <1>5 DEF Saves, Spent, Fresh
<1> QED
  BY <1>1, <1>2, <1>3, <1>4, <1>5 DEF Finding

(* The cases of Expected, where they exclude one another.                  *)
LEMMA ExpectedIs ==
  ASSUME TransportTyped, Awaiting, NEW e, Expected(e)
  PROVE  \/ /\ e.kind = "BAM" /\ machine.status = "WAIT_FOR_MESSAGE" /\ e.msg.len < RxBuffers
            /\ expect' = Expecting(e.msg, 1) /\ due' = due
         \/ /\ expect # Nothing /\ e.kind = "DT" /\ e.msg = expect.msg /\ e.seq = expect.next
            /\ expect.next = Packets(expect.msg) /\ expect' = Nothing
            /\ due' = due \cup {expect.msg}
         \/ /\ expect # Nothing /\ e.kind = "DT" /\ e.msg = expect.msg /\ e.seq = expect.next
            /\ expect.next # Packets(expect.msg) /\ due' = due
            /\ expect' = Expecting(expect.msg, expect.next + 1)
         \/ /\ expect # Nothing /\ ~(e.kind # "none" /\ e.msg.src = expect.msg.src)
            /\ expect.quiet < TpLimit /\ due' = due
            /\ expect' = [msg |-> expect.msg, next |-> expect.next, quiet |-> expect.quiet + 1]
         \/ expect' = Nothing /\ due' = due
<1>1. expect = [msg |-> expect.msg, next |-> expect.next, quiet |-> expect.quiet]
  BY DEF TransportTyped, ReceiverTyped
<1>2. CASE expect = Nothing
  BY <1>2 DEF Expected
<1>3. CASE expect # Nothing
  <2>1. machine.status # "WAIT_FOR_MESSAGE"
    BY <1>3 DEF Awaiting
  <2>2. CASE e.kind = "DT" /\ e.msg = expect.msg /\ e.seq = expect.next
    BY <1>3, <2>1, <2>2 DEF Expected
  <2>3. CASE ~(e.kind = "DT" /\ e.msg = expect.msg /\ e.seq = expect.next)
    BY <1>1, <1>3, <2>1, <2>3 DEF Expected
  <2> QED
    BY <2>2, <2>3
<1> QED
  BY <1>2, <1>3

LEMMA AwaitingNext ==
  ASSUME TransportTyped, Spent, Awaiting, NothingMissed, NEW f, NEW e, Finding(f, e)
  PROVE  Awaiting' /\ NothingMissed'
<1>1. /\ machine.packet_number \in Nat /\ machine.timer \in Nat /\ expect.next \in Nat
      /\ expect.quiet \in Nat /\ TpLimit \in Nat /\ f.seq \in Nat
  BY TransportConstants DEF TransportTyped, ReceiverTyped, Finding, AnyFrame
<1>2. e = f \/ (e.kind = "none" /\ f = pdu)
  BY DEF Finding, NoPdu
<1>3. Expected(e)
  BY DEF Finding
<1>4. ASSUME due' = due, \A d \in got : d \in got'
      PROVE  NothingMissed'
  BY <1>4 DEF NothingMissed
<1>5. \A m, n : /\ Expecting(m, n).msg = m /\ Expecting(m, n).next = n /\ Expecting(m, n).quiet = 0
  BY DEF Expecting
<1>6. CASE Opens(f)
  <2>1. expect = Nothing
    BY <1>6 DEF Opens, Awaiting
  <2>2. due' = due /\ (expect' = Nothing \/ expect' = Expecting(f.msg, 1))
    BY <1>2, <1>3, <2>1, ExpectedIs
  <2> QED
    BY <1>1, <1>4, <1>5, <1>6, <2>2 DEF Opens, Awaiting
<1>7. CASE Ignores(f)
  <2>1. expect = Nothing /\ ~(f.kind = "BAM" /\ f.msg.len < RxBuffers)
    BY <1>7, TransportConstants DEF Ignores, Awaiting, Finding, AnyFrame, AnyMsg
  <2>2. due' = due /\ expect' = Nothing
    BY <1>2, <1>3, <2>1, ExpectedIs
  <2> QED
    BY <1>4, <1>7, <2>2 DEF Ignores, Awaiting
<1>8. CASE Keeps(f)
  <2>1. machine.status = "WAIT_FOR_DATA" /\ ~Fresh(f) /\ got' = got
        /\ machine'.status = "WAIT_FOR_DATA" /\ machine'.msg = machine.msg
        /\ machine'.packet_number = machine.packet_number /\ machine'.timer = Ticked
    BY <1>8 DEF Keeps
  <2>2. expect # Nothing /\ e.kind = "DT" => ~(e.msg = expect.msg /\ e.seq = expect.next)
    BY <1>1, <1>2, <2>1 DEF Awaiting, Fresh
  <2>3. \/ expect' = Nothing /\ due' = due
        \/ /\ expect # Nothing /\ expect.quiet < TpLimit /\ due' = due
           /\ expect'.msg = expect.msg /\ expect'.next = expect.next /\ expect'.quiet = expect.quiet + 1
    BY <1>3, <2>1, <2>2, ExpectedIs
  <2>4. expect # Nothing /\ expect.quiet < TpLimit => Ticked <= expect.quiet + 1
    BY <1>1 DEF Awaiting, Ticked
  <2> QED
    BY <1>1, <1>4, <2>1, <2>3, <2>4 DEF Awaiting
<1>9. CASE Gives(f)
  <2>1. machine.status = "WAIT_FOR_DATA" /\ got' = got
    BY <1>9 DEF Gives
  <2>2. CASE expect # Nothing
    <3>1. /\ machine.msg = expect.msg /\ expect.next = machine.packet_number + 1
          /\ machine.timer <= expect.quiet
      BY <2>2 DEF Awaiting
    <3>2. CASE Fresh(f) /\ f.seq # machine.packet_number + 1
      <4>1. e = f
        BY <1>2, <2>1, <3>2 DEF Spent
      <4>2. e.kind = "DT" /\ e.msg.src = expect.msg.src /\ e.seq # expect.next
        BY <3>1, <3>2, <4>1 DEF Fresh
      <4> QED
        BY <1>3, <1>4, <2>1, <4>2, ExpectedIs DEF Awaiting
    <3>3. CASE f.kind # "DT" /\ Ticked > TpLimit
      <4>1. e.kind # "DT" /\ ~(expect.quiet < TpLimit)
        BY <1>1, <1>2, <3>1, <3>3 DEF Ticked
      <4> QED
        BY <1>3, <1>4, <2>1, <4>1, ExpectedIs DEF Awaiting
    <3> QED
      BY <1>9, <3>2, <3>3 DEF Gives
  <2>3. CASE expect = Nothing
    BY <1>3, <1>4, <2>1, <2>3, ExpectedIs DEF Awaiting
  <2> QED
    BY <2>2, <2>3
<1>10. CASE Saves(f) \/ Completes(f)
  <2>1. /\ machine.status = "WAIT_FOR_DATA" /\ Fresh(f) /\ f.seq = machine.packet_number + 1
        /\ \A d \in got : d \in got'
    BY <1>10 DEF Saves, Completes
  <2>2. e = f
    BY <1>2, <2>1 DEF Spent
  <2>3. CASE expect = Nothing
    <3>1. expect' = Nothing /\ due' = due
      BY <1>3, <2>1, <2>3, ExpectedIs
    <3> QED
      BY <1>4, <2>1, <3>1 DEF Awaiting
  <2>4. CASE expect # Nothing
    <3>1. /\ machine.msg = expect.msg /\ expect.next = machine.packet_number + 1
          /\ e.kind = "DT" /\ e.msg.src = expect.msg.src
      BY <2>1, <2>2, <2>4 DEF Awaiting, Fresh
    <3>2. CASE Saves(f)
      <4>1. f.seq # Packets(machine.msg)
        BY <3>2 DEF Saves
      <4>2. due' = due /\ (expect' = Nothing \/ expect' = Expecting(expect.msg, expect.next + 1))
        BY <1>3, <2>1, <3>1, <4>1, ExpectedIs
      <4>3. /\ machine'.status = "WAIT_FOR_DATA" /\ machine'.msg = machine.msg
            /\ machine'.packet_number = f.seq /\ machine'.timer = 0
        BY <3>2 DEF Saves
      <4> QED
        BY <1>1, <1>4, <1>5, <2>1, <3>1, <4>2, <4>3 DEF Awaiting
    <3>3. CASE Completes(f)
      <4>1. f.seq = Packets(machine.msg)
        BY <3>3 DEF Completes
      <4>2. expect' = Nothing /\ due' \subseteq due \cup {machine.msg}
        BY <1>3, <2>1, <3>1, <4>1, ExpectedIs
      <4>3. \E d \in got' : d.msg = machine.msg
        <5>1. PICK kept \in BOOLEAN :
                got' = got \cup {[msg |-> machine.msg, data |-> Saved(f), kept |-> kept]}
          BY <3>3 DEF Completes
        <5>2. [msg |-> machine.msg, data |-> Saved(f), kept |-> kept].msg = machine.msg
          OBVIOUS
        <5> QED
          BY <5>1, <5>2
      <4>4. NothingMissed'
        BY <2>1, <4>2, <4>3 DEF NothingMissed
      <4> QED
        BY <4>2, <4>4 DEF Awaiting
    <3> QED
      BY <1>10, <3>2, <3>3
  <2> QED
    BY <2>3, <2>4
<1> QED
  BY <1>6, <1>7, <1>8, <1>9, <1>10 DEF Finding

(* A message that is announced while no session is open arrives if its     *)
(* frames come, whatever other nodes send in between.                      *)
THEOREM ExpectedArrive == TpSpec => []NothingMissed
<1> DEFINE Inv == Spent /\ Awaiting /\ NothingMissed
<1>1. TpInit => Inv
  BY DEF TpInit, j1939_tl_init, NoSession, Spent, Awaiting, NothingMissed
<1>2. TransportTyped /\ Inv /\ [TpNext]_tpVars => Inv'
  <2>1. Inv /\ UNCHANGED receiver => Inv'
    BY DEF receiver, Spent, Awaiting, NothingMissed, Fresh
  <2>2. UNCHANGED tpVars => UNCHANGED receiver
    BY DEF tpVars, receiver
  <2>3. ASSUME TransportTyped, Inv, j1939_stk_periodic
        PROVE  Inv'
    <3>1. PICK f, e : Finding(f, e)
      BY <2>3, TickIs
    <3> QED
      BY <2>3, <3>1, SpentNext, AwaitingNext
  <2> QED
    BY <2>1, <2>2, <2>3, SourceSends DEF TpNext
<1> QED
  BY <1>1, <1>2, TransportTypedAlways, PTL DEF TpSpec
-----------------------------------------------------------------------------
(* A message is known when its announcement was sent, by its source, which *)
(* is still at it or went on to a later one.  It is unbroken while all the *)
(* frames that were sent of it came into the list.                         *)
Known(m) ==
  /\ m \in AnyMsg /\ m.src \in Sources /\ m.len > 0
  /\ m.id < source[m.src].msg.id \/ m = source[m.src].msg

Unbroken(m) == m \in whole \/ (source[m.src].msg = m /\ source[m.src].all)
SentOf(m, k) == k \in 1..Packets(m) /\ (m \in whole \/ (source[m.src].msg = m /\ k < source[m.src].next))
Packet(m, k) == [kind |-> "DT", msg |-> m, seq |-> k]
InList(f) == \E i \in DOMAIN dl_rx_list : dl_rx_list[i] = f
QueuedFrom(m, p) == \A k \in Nat : k > p /\ SentOf(m, k) => InList(Packet(m, k))

Before(f, g) == f.msg.id < g.msg.id \/ (f.msg = g.msg /\ f.seq < g.seq)

SourcesKnown ==
  /\ \A s \in Sources : source[s].next # 0 => Known(source[s].msg) /\ source[s].msg.src = s
  /\ \A m \in whole : Known(m) /\ (source[m.src].msg = m => source[m.src].next > Packets(m))

(* The frames of one node stand in the list in the order of sending, and   *)
(* an unbroken message's packets behind its announcement.                  *)
Listed(f) ==
  /\ Known(f.msg) /\ (f.kind = "DT" <=> f.seq # 0)
  /\ f.msg = source[f.msg.src].msg => f.seq < source[f.msg.src].next
  /\ f.kind = "BAM" /\ Unbroken(f.msg) => QueuedFrom(f.msg, 0)

ListInOrder ==
  /\ \A f \in AnyFrame : InList(f) => Listed(f)
  /\ \A i, j \in DOMAIN dl_rx_list :
       i < j /\ dl_rx_list[i].msg.src = dl_rx_list[j].msg.src
         => Before(dl_rx_list[i], dl_rx_list[j])

(* The packets saved are the first ones.  Nothing of an unbroken message   *)
(* is left out between them and what is in the list.                       *)
Hears(m, p) ==
  /\ Known(m) /\ m.len < RxBuffers /\ p < Packets(m)
  /\ data \in Seq([msg : AnyMsg, seq : Nat]) /\ Len(data) = p
  /\ \A i \in DOMAIN data : /\ data[i].seq = i /\ data[i].msg.src = m.src
                            /\ Unbroken(m) => data[i].msg = m
  /\ Unbroken(m) =>
       /\ QueuedFrom(m, p)
       /\ m = source[m.src].msg => p < source[m.src].next
       /\ \A f \in AnyFrame : InList(f) /\ f.msg.src = m.src
                                => f.msg.id > m.id \/ (f.msg = m /\ f.seq > p)

Hearing ==
  \A m \in AnyMsg, p \in Nat :
    machine.status = "WAIT_FOR_DATA" /\ machine.msg = m /\ machine.packet_number = p
      => Hears(m, p)

OldAnnouncement ==
  machine.status = "WAIT_FOR_MESSAGE" /\ pdu.kind = "BAM" => pdu.msg.len >= RxBuffers

HandedOn ==
  \A d \in got :
    /\ Known(d.msg) /\ DOMAIN d.data = 1..Packets(d.msg)
    /\ \A i \in DOMAIN d.data : /\ d.data[i].seq = i /\ d.data[i].msg.src = d.msg.src
                                /\ Unbroken(d.msg) => d.data[i].msg = d.msg
    /\ d.msg.len # RxBuffers - 1 => d.kept

Unmixed == SourcesKnown /\ ListInOrder /\ Hearing /\ OldAnnouncement /\ HandedOn

LEMMA PacketsIs ==
  ASSUME NEW m \in AnyMsg
  PROVE  Packets(m) \in Int /\ (m.len > 0 => Packets(m) > 0)
<1>1. m.len \in Nat /\ PacketBytes \in Nat /\ PacketBytes > 0
  BY TransportAssumption DEF TransportAssumption, AnyMsg
<1>2. \A x, y \in Nat : y > 0 => x \div y \in Int /\ (x >= y => x \div y > 0)
  OBVIOUS
<1>3. m.len + PacketBytes - 1 \in Nat
  BY <1>1
<1>4. m.len > 0 => m.len + PacketBytes - 1 >= PacketBytes
  BY <1>1
<1> QED
  BY <1>1, <1>2, <1>3, <1>4 DEF Packets

LEMMA UnmixedInit == TpInit => Unmixed
<1> SUFFICES ASSUME TpInit PROVE Unmixed
  OBVIOUS
<1>1. SourcesKnown
  BY DEF TpInit, SourcesKnown
<1>2. ListInOrder
  BY DEF TpInit, ListInOrder, InList
<1>3. Hearing /\ OldAnnouncement /\ HandedOn
  BY DEF TpInit, j1939_tl_init, NoSession, NoPdu, Hearing, OldAnnouncement, HandedOn
<1> QED
  BY <1>1, <1>2, <1>3 DEF Unmixed

LEMMA AppendIs ==
  ASSUME NEW T, NEW s \in Seq(T), NEW e \in T
  PROVE  /\ DOMAIN s = 1..Len(s) /\ Len(s) \in Nat
         /\ DOMAIN Append(s, e) = 1..(Len(s) + 1) /\ Append(s, e) \in Seq(T)
         /\ Append(s, e)[Len(s) + 1] = e /\ Len(Append(s, e)) = Len(s) + 1
         /\ \A i \in 1..Len(s) : Append(s, e)[i] = s[i]
  BY AppendProperties

(* What a source's step may do to the messages, those known before and its *)
(* own.                                                                    *)
LEMMA StaysKnown ==
  ASSUME TransportTyped, SourcesKnown, NEW s \in Sources, NEW f \in AnyFrame, NEW n \in Nat,
         Sending(s, f, n), n = f.seq + 1, Begun(f, s) \/ Continued(f, s)
  PROVE  /\ Known(f.msg)' /\ f.msg.src = s
         /\ Begun(f, s) => ~Known(f.msg) /\ \A k : ~SentOf(f.msg, k)'
         /\ Continued(f, s) => Known(f.msg)
         /\ \A m : Known(m) => /\ Known(m)' /\ (Unbroken(m)' => Unbroken(m))
                               /\ \A k : SentOf(m, k)' => SentOf(m, k) \/ (m = f.msg /\ k = f.seq)
         /\ Unbroken(f.msg)' => dl_rx_list' = Append(dl_rx_list, f)
         /\ SourcesKnown'
<1>1. PICK all \in BOOLEAN :
        /\ source' = [source EXCEPT ![s] = [msg |-> f.msg, next |-> n, all |-> all]]
        /\ all => dl_rx_list' = Append(dl_rx_list, f) /\ (f.kind = "DT" => source[s].all)
        /\ whole' = IF all /\ n > Packets(f.msg) THEN whole \cup {f.msg} ELSE whole
  BY DEF Sending
<1>2. /\ source'[s].msg = f.msg /\ source'[s].next = f.seq + 1 /\ source'[s].all = all
      /\ \A r \in Sources : r # s => source'[r] = source[r]
  BY <1>1 DEF TransportTyped, SourceTyped
<1>3. /\ f.seq \in Nat /\ f.msg \in AnyMsg /\ Packets(f.msg) \in Int
      /\ f.msg.id \in Nat /\ (f.msg.len > 0 => Packets(f.msg) > 0)
      /\ \A r \in Sources : source[r].msg.id \in Nat /\ source[r].next \in Nat
      /\ Announced \in Nat /\ \A r \in Sources : source[r].msg.id <= Announced
  <2>1. f.seq \in Nat /\ f.msg \in AnyMsg
    BY DEF AnyFrame
  <2> QED
    BY <2>1, PacketsIs, AnnouncedIs DEF TransportTyped, SourceTyped, AnyMsg
<1>4. Continued(f, s) => Known(f.msg) /\ f.msg.src = s /\ f.msg = source[s].msg
                         /\ f.msg \notin whole /\ f.seq = source[s].next /\ f.seq > 0
  <2> SUFFICES ASSUME Continued(f, s)
               PROVE  Known(f.msg) /\ f.msg.src = s /\ f.msg = source[s].msg
                      /\ f.msg \notin whole /\ f.seq = source[s].next /\ f.seq > 0
    OBVIOUS
  <2>1. f.msg = source[s].msg /\ f.seq = source[s].next /\ f.seq > 0 /\ f.seq <= Packets(f.msg)
    BY <1>3 DEF Continued
  <2>2. Known(f.msg) /\ f.msg.src = s
    BY <1>3, <2>1 DEF SourcesKnown
  <2>3. f.msg \notin whole
    BY <1>3, <2>1, <2>2 DEF SourcesKnown
  <2> QED
    BY <2>1, <2>2, <2>3
<1>5. Begun(f, s) => /\ ~Known(f.msg) /\ f.msg \notin whole /\ f.msg.src = s /\ f.msg.len > 0
                     /\ f.seq = 0 /\ f.msg.id > source[s].msg.id /\ Packets(f.msg) > 0
  <2> SUFFICES ASSUME Begun(f, s)
               PROVE  /\ ~Known(f.msg) /\ f.msg \notin whole /\ f.msg.src = s /\ f.msg.len > 0
                      /\ f.seq = 0 /\ f.msg.id > source[s].msg.id /\ Packets(f.msg) > 0
    OBVIOUS
  <2>1. f.msg.src = s /\ f.msg.len > 0 /\ f.seq = 0 /\ f.msg.id > source[s].msg.id
    BY <1>3 DEF Begun
  <2>2. ~Known(f.msg)
    BY <1>3, <2>1 DEF Known
  <2> QED
    BY <1>3, <2>1, <2>2 DEF SourcesKnown
<1>6. f.msg.src = s /\ Known(f.msg)'
  <2>1. f.msg.src = s /\ f.msg.len > 0
    BY <1>4, <1>5 DEF Known
  <2> QED
    BY <1>2, <1>3, <2>1 DEF Known
<1>7. ASSUME Begun(f, s), NEW k
      PROVE  ~SentOf(f.msg, k)'
  <2>1. f.msg \notin whole'
    BY <1>1, <1>3, <1>5, <1>7
  <2>2. source'[s].next = 1
    BY <1>2, <1>5, <1>7
  <2> QED
    BY <1>6, <2>1, <2>2 DEF SentOf
<1>8. ASSUME NEW m, Known(m)
      PROVE  /\ Known(m)' /\ (Unbroken(m)' => Unbroken(m))
             /\ \A k : SentOf(m, k)' => SentOf(m, k) \/ (m = f.msg /\ k = f.seq)
  <2>1. m \in AnyMsg /\ m.src \in Sources /\ m.len > 0 /\ m.id \in Nat
    BY <1>8 DEF Known, AnyMsg
  <2>2. m = f.msg => Continued(f, s)
    BY <1>5, <1>8
  <2>3. Known(m)'
    <3>1. CASE m.src = s
      BY <1>2, <1>3, <1>4, <1>5, <1>8, <2>1, <3>1 DEF Known
    <3>2. CASE m.src # s
      BY <1>2, <1>8, <2>1, <3>2 DEF Known
    <3> QED
      BY <3>1, <3>2
  <2>4. Unbroken(m)' => Unbroken(m)
    <3>1. m = f.msg /\ all => Unbroken(m)
      <4> SUFFICES ASSUME m = f.msg, all PROVE Unbroken(m)
        OBVIOUS
      <4>1. source[s].msg = m /\ m.src = s /\ source[s].all
        BY <1>1, <1>4, <2>2 DEF Continued
      <4> QED
        BY <4>1 DEF Unbroken
    <3>2. m \in whole' => m \in whole \/ (m = f.msg /\ all)
      BY <1>1
    <3>3. source'[m.src].msg = m /\ source'[m.src].all
            => (source[m.src].msg = m /\ source[m.src].all) \/ (m = f.msg /\ all)
      BY <1>2, <2>1
    <3> QED
      BY <3>1, <3>2, <3>3 DEF Unbroken
  <2>5. ASSUME NEW k, SentOf(m, k)', ~(m = f.msg /\ k = f.seq)
        PROVE  SentOf(m, k)
    <3>1. k \in 1..Packets(m) /\ Packets(m) \in Int
      BY <2>1, <2>5, PacketsIs DEF SentOf
    <3>2. CASE m # f.msg
      <4>1. m \in whole' => m \in whole
        BY <1>1, <3>2
      <4>2. source'[m.src].msg = m => source'[m.src] = source[m.src]
        BY <1>2, <2>1, <3>2
      <4> QED
        BY <2>5, <4>1, <4>2 DEF SentOf
    <3>3. CASE m = f.msg
      <4>1. source[s].msg = m /\ m.src = s /\ f.seq = source[s].next
        BY <1>4, <2>2, <3>3
      <4>2. k < f.seq + 1
        <5>1. m \in whole' => n > Packets(m)
          BY <1>1, <1>4, <2>2, <3>3
        <5> QED
          BY <1>2, <1>3, <2>5, <3>1, <3>3, <4>1, <5>1 DEF SentOf
      <4>3. k < f.seq
        BY <1>3, <2>5, <3>1, <3>3, <4>2
      <4> QED
        BY <3>1, <4>1, <4>3 DEF SentOf
    <3> QED
      BY <3>2, <3>3
  <2> QED
    BY <2>3, <2>4, <2>5
<1>9. Unbroken(f.msg)' => dl_rx_list' = Append(dl_rx_list, f)
  <2>1. f.msg \in whole' => all
    BY <1>1, <1>4, <1>5
  <2>2. source'[f.msg.src].all => all
    BY <1>2, <1>6
  <2> QED
    BY <1>1, <2>1, <2>2 DEF Unbroken
<1>10. SourcesKnown'
  <2>1. ASSUME NEW r \in Sources, source'[r].next # 0
        PROVE  Known(source[r].msg)' /\ source'[r].msg.src = r
    <3>1. CASE r = s
      BY <1>2, <1>6, <3>1 DEF Known
    <3>2. CASE r # s
      <4>1. source'[r] = source[r]
        BY <1>2, <3>2
      <4>2. Known(source[r].msg) /\ source[r].msg.src = r
        BY <2>1, <4>1 DEF SourcesKnown
      <4> QED
        BY <4>1, <4>2 DEF Known
    <3> QED
      BY <3>1, <3>2
  <2>2. ASSUME NEW m \in whole'
        PROVE  Known(m)' /\ (source'[m.src].msg = m => source'[m.src].next > Packets(m))
    <3>1. CASE m \in whole
      <4>1. Known(m) /\ (source[m.src].msg = m => source[m.src].next > Packets(m))
        BY <3>1 DEF SourcesKnown
      <4>2. m # f.msg /\ m.src \in Sources
        BY <1>4, <1>5, <3>1, <4>1 DEF Known
      <4>3. source'[m.src].msg = m => source'[m.src] = source[m.src]
        BY <1>2, <4>2
      <4> QED
        BY <1>8, <4>1, <4>3
    <3>2. CASE m \notin whole
      <4>1. m = f.msg /\ n > Packets(m)
        BY <1>1, <2>2, <3>2
      <4> QED
        BY <1>2, <1>6, <4>1
    <3> QED
      BY <3>1, <3>2
  <2> QED
    BY <2>1, <2>2 DEF SourcesKnown
<1> QED
  BY <1>4, <1>5, <1>6, <1>7, <1>8, <1>9, <1>10

(* What was in the list stays there when a source sends, and only its      *)
(* frame is new.                                                           *)
LEMMA ListGrows ==
  ASSUME TransportTyped, NEW s, NEW f \in AnyFrame, NEW n, Sending(s, f, n)
  PROVE  /\ \A g : InList(g) => InList(g)'
         /\ \A g : InList(g)' => InList(g) \/ g = f
         /\ dl_rx_list' = Append(dl_rx_list, f) => InList(f)'
         /\ \A i \in DOMAIN dl_rx_list' :
              /\ Len(dl_rx_list) \in Nat /\ DOMAIN dl_rx_list = 1..Len(dl_rx_list) /\ i \in Nat
              /\ \/ i \in DOMAIN dl_rx_list /\ dl_rx_list'[i] = dl_rx_list[i]
                 \/ i = Len(dl_rx_list) + 1 /\ dl_rx_list'[i] = f
<1>1. dl_rx_list \in Seq(AnyFrame) /\ dl_rx_list' \in {dl_rx_list, Append(dl_rx_list, f)}
  BY DEF TransportTyped, ReceiverTyped, Sending
<1>2. CASE dl_rx_list' = dl_rx_list
  <2>1. dl_rx_list # Append(dl_rx_list, f)
    BY <1>1, AppendIs
  <2> QED
    BY <1>1, <1>2, <2>1 DEF InList
<1>3. CASE dl_rx_list' = Append(dl_rx_list, f)
  <2>1. /\ DOMAIN dl_rx_list = 1..Len(dl_rx_list) /\ Len(dl_rx_list) \in Nat
        /\ DOMAIN dl_rx_list' = 1..(Len(dl_rx_list) + 1)
        /\ dl_rx_list'[Len(dl_rx_list) + 1] = f
        /\ \A i \in 1..Len(dl_rx_list) : dl_rx_list'[i] = dl_rx_list[i]
    BY <1>1, <1>3, AppendIs
  <2>2. \A i \in DOMAIN dl_rx_list' : i \in DOMAIN dl_rx_list \/ i = Len(dl_rx_list) + 1
    BY <2>1
  <2>3. \A i \in DOMAIN dl_rx_list : i \in DOMAIN dl_rx_list'
    BY <2>1
  <2> QED
    BY <2>1, <2>2, <2>3 DEF InList
<1> QED
  BY <1>1, <1>2, <1>3

LEMMA QueuedStays ==
  ASSUME TransportTyped, SourcesKnown, NEW s \in Sources, NEW f \in AnyFrame, NEW n \in Nat,
         Sending(s, f, n), n = f.seq + 1, Begun(f, s) \/ Continued(f, s),
         NEW m, Known(m), Unbroken(m)', NEW p, QueuedFrom(m, p)
  PROVE  QueuedFrom(m, p)'
<1> SUFFICES ASSUME NEW k \in Nat, k > p, SentOf(m, k)' PROVE InList(Packet(m, k))'
  BY DEF QueuedFrom
<1>1. SentOf(m, k) \/ (m = f.msg /\ k = f.seq)
  BY StaysKnown
<1>2. CASE SentOf(m, k)
  <2>1. \A g : InList(g) => InList(g)'
    BY ListGrows
  <2>2. InList(Packet(m, k))
    BY <1>2 DEF QueuedFrom
  <2> QED
    BY <2>1, <2>2
<1>3. CASE m = f.msg /\ k = f.seq
  <2>1. Continued(f, s) /\ dl_rx_list' = Append(dl_rx_list, f)
    BY <1>3, StaysKnown
  <2>2. f = Packet(m, k)
    BY <1>3, <2>1 DEF Continued, Packet, AnyFrame
  <2>3. InList(f)'
    BY <2>1, ListGrows
  <2> QED
    BY <2>2, <2>3
<1> QED
  BY <1>1, <1>2, <1>3

(* The frame that is sent comes after every earlier frame of its node.     *)
LEMMA SentLast ==
  ASSUME TransportTyped, SourcesKnown, NEW s \in Sources, NEW f \in AnyFrame,
         Begun(f, s) \/ Continued(f, s), NEW g \in AnyFrame, g.msg.src = s, Known(g.msg),
         g.msg = source[s].msg => g.seq < source[s].next
  PROVE  Before(g, f)
<1>1. /\ g.msg.id \in Nat /\ g.seq \in Nat /\ f.msg.id \in Nat /\ f.seq \in Nat
      /\ source[s].msg.id \in Nat /\ Announced \in Nat /\ source[s].msg.id <= Announced
  BY AnnouncedIs DEF AnyFrame, AnyMsg, TransportTyped, SourceTyped
<1>2. g.msg.id < source[s].msg.id \/ g.msg = source[s].msg
  BY DEF Known
<1>3. CASE Begun(f, s)
  BY <1>1, <1>2, <1>3 DEF Begun, Before
<1>4. CASE Continued(f, s)
  BY <1>1, <1>2, <1>4 DEF Continued, Before
<1> QED
  BY <1>3, <1>4

LEMMA InOrderSent ==
  ASSUME TransportTyped, SourcesKnown, ListInOrder, NEW s \in Sources, NEW f \in AnyFrame, NEW n \in Nat,
         Sending(s, f, n), n = f.seq + 1, Begun(f, s) \/ Continued(f, s)
  PROVE  ListInOrder'
<1>1. dl_rx_list \in Seq(AnyFrame) /\ f.msg.src = s /\ f.seq \in Nat
  BY StaysKnown DEF TransportTyped, ReceiverTyped, AnyFrame
<1>2. /\ source'[s].msg = f.msg /\ source'[s].next = f.seq + 1
      /\ \A r \in Sources : r # s => source'[r] = source[r]
  BY DEF Sending, TransportTyped, SourceTyped
<1>3. ASSUME NEW g \in AnyFrame, g.msg.src = s, Known(g.msg),
             g.msg = source[s].msg => g.seq < source[s].next
      PROVE  g.msg = f.msg => g.seq < f.seq + 1
  <2>1. Before(g, f)
    BY <1>3, SentLast
  <2> QED
    BY <1>1, <1>3, <2>1 DEF Before, AnyFrame, AnyMsg
<1>4. ASSUME NEW g \in AnyFrame, InList(g)'
      PROVE  Listed(g)'
  <2>1. CASE InList(g)
    <3>1. Listed(g)
      BY <2>1 DEF ListInOrder
    <3>2. Known(g.msg)' /\ (Unbroken(g.msg)' => Unbroken(g.msg))
      BY <3>1, StaysKnown DEF Listed
    <3>3. g.kind = "BAM" /\ Unbroken(g.msg)' => QueuedFrom(g.msg, 0)'
      BY <3>1, <3>2, QueuedStays DEF Listed
    <3>4. g.msg = source'[g.msg.src].msg => g.seq < source'[g.msg.src].next
      <4>1. CASE g.msg.src = s
        BY <1>2, <1>3, <3>1, <4>1 DEF Listed
      <4>2. CASE g.msg.src # s
        BY <1>2, <3>1, <4>2 DEF Listed, Known
      <4> QED
        BY <4>1, <4>2
    <3> QED
      BY <3>1, <3>2, <3>3, <3>4 DEF Listed
  <2>2. CASE g = f
    <3>1. Known(f.msg)' /\ (f.kind = "DT" <=> f.seq # 0)
      <4>1. Begun(f, s) => f.kind # "DT" /\ f.seq = 0
        BY DEF Begun
      <4>2. Continued(f, s) => f.kind = "DT" /\ f.seq # 0
        BY DEF Continued
      <4> QED
        BY <4>1, <4>2, StaysKnown
    <3>2. source'[f.msg.src].next = f.seq + 1 /\ f.seq < f.seq + 1
      BY <1>1, <1>2
    <3>3. f.kind = "BAM" => QueuedFrom(f.msg, 0)'
      <4>1. f.kind = "BAM" => Begun(f, s)
        BY DEF Continued
      <4> QED
        BY <4>1, StaysKnown DEF QueuedFrom
    <3> QED
      BY <2>2, <3>1, <3>2, <3>3 DEF Listed
  <2> QED
    BY <1>4, <2>1, <2>2, ListGrows
<1>5. ASSUME NEW i \in DOMAIN dl_rx_list', NEW j \in DOMAIN dl_rx_list', i < j,
             dl_rx_list'[i].msg.src = dl_rx_list'[j].msg.src
      PROVE  Before(dl_rx_list'[i], dl_rx_list'[j])
  <2>1. i \in DOMAIN dl_rx_list /\ dl_rx_list'[i] = dl_rx_list[i]
    <3>1. j \in DOMAIN dl_rx_list \/ j = Len(dl_rx_list) + 1
      BY ListGrows
    <3>2. i \in Nat /\ j \in Nat /\ Len(dl_rx_list) \in Nat /\ DOMAIN dl_rx_list = 1..Len(dl_rx_list)
      BY ListGrows
    <3>3. i # Len(dl_rx_list) + 1
      BY <1>5, <3>1, <3>2
    <3> QED
      BY <3>3, ListGrows
  <2>2. CASE j \in DOMAIN dl_rx_list /\ dl_rx_list'[j] = dl_rx_list[j]
    BY <1>5, <2>1, <2>2 DEF ListInOrder
  <2>3. CASE dl_rx_list'[j] = f
    <3>1. PICK g \in AnyFrame : g = dl_rx_list[i]
      BY <1>1, <2>1
    <3>2. g.msg.src = s /\ InList(g)
      BY <1>1, <1>5, <2>1, <2>3, <3>1 DEF InList
    <3>3. Listed(g)
      BY <3>2 DEF ListInOrder
    <3>4. Before(g, f)
      BY <3>2, <3>3, SentLast DEF Listed
    <3> QED
      BY <2>1, <2>3, <3>1, <3>4
  <2> QED
    BY <2>2, <2>3, ListGrows
<1> QED
  BY <1>4, <1>5 DEF ListInOrder

LEMMA HearingSent ==
  ASSUME TransportTyped, SourcesKnown, Hearing, NEW s \in Sources, NEW f \in AnyFrame, NEW n \in Nat,
         Sending(s, f, n), n = f.seq + 1, Begun(f, s) \/ Continued(f, s)
  PROVE  Hearing'
<1>1. machine' = machine /\ data' = data /\ f.seq \in Nat /\ f.msg.src = s
  BY StaysKnown DEF Sending, receiver, AnyFrame
<1>2. /\ source'[s].msg = f.msg /\ source'[s].next = f.seq + 1
      /\ \A r \in Sources : r # s => source'[r] = source[r]
  BY DEF Sending, TransportTyped, SourceTyped
<1> SUFFICES ASSUME NEW m \in AnyMsg, NEW p \in Nat, Hears(m, p) PROVE Hears(m, p)'
  BY <1>1 DEF Hearing
<1>3. Known(m) /\ Known(m)' /\ (Unbroken(m)' => Unbroken(m))
  BY StaysKnown DEF Hears
<1>4. Unbroken(m)' => QueuedFrom(m, p)'
  BY <1>3, QueuedStays DEF Hears
<1>5. ASSUME Unbroken(m)', f.msg.src = m.src
      PROVE  f.msg.id > m.id \/ (f.msg = m /\ f.seq > p)
  <2> DEFINE g == Packet(m, p)
  <2>1. g \in AnyFrame /\ g.msg = m /\ g.seq = p
    BY DEF Packet, AnyFrame
  <2>2. m = source[s].msg => p < source[s].next
    BY <1>1, <1>3, <1>5 DEF Hears
  <2> HIDE DEF g
  <2>3. Before(g, f)
    BY <1>1, <1>3, <1>5, <2>1, <2>2, SentLast
  <2> QED
    BY <1>1, <2>1, <2>3 DEF Before, AnyFrame, AnyMsg
<1>6. ASSUME Unbroken(m)', m = source'[m.src].msg
      PROVE  p < source'[m.src].next
  <2>1. CASE m.src = s
    BY <1>1, <1>2, <1>5, <1>6, <2>1 DEF AnyMsg
  <2>2. CASE m.src # s
    BY <1>2, <1>3, <1>6, <2>2 DEF Hears, Known
  <2> QED
    BY <2>1, <2>2
<1>7. ASSUME Unbroken(m)', NEW g \in AnyFrame, InList(g)', g.msg.src = m.src
      PROVE  g.msg.id > m.id \/ (g.msg = m /\ g.seq > p)
  <2>1. InList(g) \/ g = f
    BY <1>7, ListGrows
  <2> QED
    BY <1>3, <1>5, <1>7, <2>1 DEF Hears
<1> QED
  BY <1>1, <1>3, <1>4, <1>6, <1>7 DEF Hears

LEMMA UnmixedSent ==
  ASSUME TransportTyped, Unmixed, NEW s \in Sources, Announces(s) \/ SendsData(s)
  PROVE  Unmixed'
<1>1. PICK f \in AnyFrame, n \in Nat :
        Sending(s, f, n) /\ n = f.seq + 1 /\ (Begun(f, s) \/ Continued(f, s))
  BY SourceDoes
<1>2. UNCHANGED receiver
  BY <1>1 DEF Sending
<1>3. HandedOn'
  <2> SUFFICES ASSUME NEW d \in got
               PROVE  /\ Known(d.msg)' /\ DOMAIN d.data = 1..Packets(d.msg)
                      /\ \A i \in DOMAIN d.data : /\ d.data[i].seq = i /\ d.data[i].msg.src = d.msg.src
                                                  /\ Unbroken(d.msg)' => d.data[i].msg = d.msg
                      /\ d.msg.len # RxBuffers - 1 => d.kept
    BY <1>2 DEF receiver, HandedOn
  <2>1. Known(d.msg)' /\ (Unbroken(d.msg)' => Unbroken(d.msg))
    BY <1>1, StaysKnown DEF Unmixed, HandedOn
  <2> QED
    BY <2>1 DEF Unmixed, HandedOn
<1>4. OldAnnouncement'
  BY <1>2 DEF receiver, Unmixed, OldAnnouncement
<1> QED
  BY <1>1, <1>3, <1>4, StaysKnown, InOrderSent, HearingSent DEF Unmixed

(* What a tick may do to the list: nothing, or it takes the first frame.   *)
LEMMA ListShrinks ==
  ASSUME TransportTyped, NEW f, NEW e, Finding(f, e)
  PROVE  \/ dl_rx_list = <<>> /\ dl_rx_list' = <<>> /\ f = pdu
         \/ /\ f \in AnyFrame /\ InList(f)
            /\ 1 \in DOMAIN dl_rx_list /\ dl_rx_list[1] = f
            /\ \A i \in DOMAIN dl_rx_list' :
                 i + 1 > 1 /\ i \in Nat /\ i + 1 \in DOMAIN dl_rx_list /\ dl_rx_list'[i] = dl_rx_list[i + 1]
            /\ \A g : InList(g) => g = f \/ InList(g)'
<1>1. CASE dl_rx_list # <<>>
  <2>1. dl_rx_list \in Seq(AnyFrame) /\ dl_rx_list' = Tail(dl_rx_list) /\ f = Head(dl_rx_list)
    BY <1>1 DEF Finding, TransportTyped, ReceiverTyped
  <2>2. /\ Len(dl_rx_list) \in Nat /\ Len(dl_rx_list) > 0 /\ DOMAIN dl_rx_list = 1..Len(dl_rx_list)
        /\ f = dl_rx_list[1] /\ f \in AnyFrame
        /\ DOMAIN dl_rx_list' = 1..(Len(dl_rx_list) - 1)
        /\ \A i \in 1..(Len(dl_rx_list) - 1) : dl_rx_list'[i] = dl_rx_list[i + 1]
    BY <1>1, <2>1
  <2>3. InList(f) /\ 1 \in DOMAIN dl_rx_list
    BY <2>2 DEF InList
  <2>4. \A i \in DOMAIN dl_rx_list' :
          i + 1 > 1 /\ i \in Nat /\ i + 1 \in DOMAIN dl_rx_list /\ dl_rx_list'[i] = dl_rx_list[i + 1]
    BY <2>2
  <2>5. ASSUME NEW g, InList(g), g # f
        PROVE  InList(g)'
    <3>1. PICK j \in DOMAIN dl_rx_list : dl_rx_list[j] = g
      BY <2>5 DEF InList
    <3>2. j - 1 \in DOMAIN dl_rx_list' /\ (j - 1) + 1 = j
      BY <2>2, <2>5, <3>1
    <3>3. dl_rx_list'[j - 1] = g
      BY <2>4, <3>1, <3>2
    <3> QED
      BY <3>2, <3>3 DEF InList
  <2> QED
    BY <2>2, <2>3, <2>4, <2>5
<1>2. CASE dl_rx_list = <<>>
  BY <1>2 DEF Finding
<1> QED
  BY <1>1, <1>2

(* Every frame of the taken frame's node that is still in the list was     *)
(* sent after it.                                                          *)
LEMMA TakenFirst ==
  ASSUME TransportTyped, ListInOrder, NEW f, NEW e, Finding(f, e), dl_rx_list # <<>>
  PROVE  /\ f \in AnyFrame /\ InList(f) /\ Listed(f)
         /\ \A g \in AnyFrame : InList(g)' => InList(g) /\ (g.msg.src = f.msg.src => Before(f, g))
         /\ \A g : InList(g) => g = f \/ InList(g)'
<1>1. /\ f \in AnyFrame /\ InList(f) /\ 1 \in DOMAIN dl_rx_list /\ dl_rx_list[1] = f
      /\ \A i \in DOMAIN dl_rx_list' :
           i + 1 > 1 /\ i \in Nat /\ i + 1 \in DOMAIN dl_rx_list /\ dl_rx_list'[i] = dl_rx_list[i + 1]
      /\ \A g : InList(g) => g = f \/ InList(g)'
  BY ListShrinks
<1>2. ASSUME NEW g \in AnyFrame, InList(g)'
      PROVE  InList(g) /\ (g.msg.src = f.msg.src => Before(f, g))
  <2>1. PICK i \in DOMAIN dl_rx_list' : dl_rx_list'[i] = g
    BY <1>2 DEF InList
  <2>2. PICK j \in DOMAIN dl_rx_list : j = i + 1 /\ dl_rx_list[j] = g /\ 1 < j
    BY <1>1, <2>1
  <2> QED
    BY <1>1, <2>2 DEF InList, ListInOrder
<1> QED
  BY <1>1, <1>2 DEF ListInOrder

LEMMA InOrderTick ==
  ASSUME TransportTyped, ListInOrder, NEW f, NEW e, Finding(f, e)
  PROVE  ListInOrder'
<1>1. source' = source /\ whole' = whole
  BY DEF Finding
<1>2. CASE dl_rx_list = <<>>
  <2>1. dl_rx_list' = dl_rx_list
    BY <1>2 DEF Finding
  <2> QED
    BY <1>1, <2>1 DEF ListInOrder, Listed, InList, Known, Unbroken, QueuedFrom, SentOf
<1>3. CASE dl_rx_list # <<>>
  <2>1. ASSUME NEW g \in AnyFrame, InList(g)'
        PROVE  Listed(g)'
    <3>1. InList(g) /\ (g.msg.src = f.msg.src => Before(f, g))
      BY <1>3, <2>1, TakenFirst
    <3>2. Listed(g)
      BY <3>1 DEF ListInOrder
    <3>3. ASSUME g.kind = "BAM", Unbroken(g.msg), NEW k \in Nat, k > 0, SentOf(g.msg, k)
          PROVE  InList(Packet(g.msg, k))'
      <4>1. InList(Packet(g.msg, k)) /\ g.seq = 0
        BY <3>2, <3>3 DEF Listed, QueuedFrom
      <4>2. f # Packet(g.msg, k)
        <5>1. Packet(g.msg, k).msg = g.msg /\ Packet(g.msg, k).seq = k
          BY DEF Packet
        <5>2. g.msg.id \in Nat /\ g.seq \in Nat
          BY DEF AnyFrame, AnyMsg
        <5> QED
          BY <3>1, <3>3, <4>1, <5>1, <5>2 DEF Before
      <4> QED
        BY <1>3, <4>1, <4>2, TakenFirst
    <3> QED
      BY <1>1, <3>2, <3>3 DEF Listed, Known, Unbroken, QueuedFrom, SentOf
  <2>2. ASSUME NEW i \in DOMAIN dl_rx_list', NEW j \in DOMAIN dl_rx_list', i < j,
               dl_rx_list'[i].msg.src = dl_rx_list'[j].msg.src
        PROVE  Before(dl_rx_list'[i], dl_rx_list'[j])
    <3>1. /\ i + 1 \in DOMAIN dl_rx_list /\ dl_rx_list'[i] = dl_rx_list[i + 1]
          /\ j + 1 \in DOMAIN dl_rx_list /\ dl_rx_list'[j] = dl_rx_list[j + 1]
          /\ i + 1 < j + 1
      BY <1>3, <2>2, ListShrinks
    <3> QED
      BY <2>2, <3>1 DEF ListInOrder
  <2> QED
    BY <2>1, <2>2 DEF ListInOrder
<1> QED
  BY <1>2, <1>3

(* A packet that is saved is the session's own, if nothing of its message  *)
(* was missed.                                                             *)
LEMMA SavedIs ==
  ASSUME TransportTyped, SourcesKnown, ListInOrder, Spent, NEW f, NEW e, Finding(f, e),
         NEW m \in AnyMsg, NEW p \in Nat, Hears(m, p),
         machine.status = "WAIT_FOR_DATA", machine.msg = m, machine.packet_number = p,
         Fresh(f), f.seq = p + 1
  PROVE  /\ dl_rx_list # <<>> /\ (Unbroken(m) => f = Packet(m, p + 1))
         /\ Saved(f) \in Seq([msg : AnyMsg, seq : Nat]) /\ DOMAIN Saved(f) = 1..(p + 1)
         /\ Len(Saved(f)) = p + 1
         /\ \A i \in DOMAIN Saved(f) : /\ Saved(f)[i].seq = i /\ Saved(f)[i].msg.src = m.src
                                       /\ Unbroken(m) => Saved(f)[i].msg = m
<1>1. dl_rx_list # <<>>
  BY DEF Finding, Spent
<1>2. /\ f \in AnyFrame /\ InList(f) /\ Listed(f) /\ f.kind = "DT" /\ f.msg.src = m.src
      /\ f.msg \in AnyMsg /\ f.seq \in Nat
  BY <1>1, TakenFirst DEF Fresh, AnyFrame
<1>3. ASSUME Unbroken(m)
      PROVE  f.msg = m
  <2> SUFFICES ASSUME f.msg # m PROVE FALSE
    OBVIOUS
  <2>1. f.msg.id > m.id
    BY <1>2, <1>3 DEF Hears
  <2>2. m \in whole
    <3>1. f.msg.id < source[m.src].msg.id \/ f.msg = source[m.src].msg
      BY <1>2 DEF Listed, Known
    <3>2. source[m.src].msg # m
      BY <2>1, <3>1, <1>2 DEF AnyMsg
    <3> QED
      BY <1>3, <3>2 DEF Unbroken
  <2>3. SentOf(m, p + 1)
    BY <2>2, PacketsIs DEF SentOf, Hears
  <2>4. InList(Packet(m, p + 1))
    BY <1>3, <2>3 DEF Hears, QueuedFrom
  <2>5. PICK g \in AnyFrame : g = Packet(m, p + 1) /\ g.msg = m /\ g.seq = p + 1
    <3>1. /\ Packet(m, p + 1) \in AnyFrame
          /\ Packet(m, p + 1).msg = m /\ Packet(m, p + 1).seq = p + 1
      BY DEF Packet, AnyFrame
    <3> QED
      BY <3>1
  <2>6. Before(f, g)
    BY <1>1, <1>2, <2>4, <2>5, TakenFirst
  <2> QED
    BY <1>2, <2>1, <2>5, <2>6 DEF Before, AnyMsg
<1>4. Unbroken(m) => f = Packet(m, p + 1)
  BY <1>2, <1>3 DEF Packet, AnyFrame
<1> DEFINE new == [msg |-> f.msg, seq |-> f.seq]
<1>5. new \in [msg : AnyMsg, seq : Nat] /\ new.msg = f.msg /\ new.seq = f.seq
  BY <1>2
<1>6. data \in Seq([msg : AnyMsg, seq : Nat]) /\ Len(data) = p /\ Saved(f) = Append(data, new)
  BY DEF Hears, Saved
<1> HIDE DEF new
<1>7. /\ Saved(f) \in Seq([msg : AnyMsg, seq : Nat]) /\ DOMAIN Saved(f) = 1..(p + 1)
      /\ Len(Saved(f)) = p + 1 /\ DOMAIN data = 1..p
      /\ Saved(f)[p + 1] = new /\ \A i \in 1..p : Saved(f)[i] = data[i]
  BY <1>5, <1>6, AppendIs
<1>8. ASSUME NEW i \in DOMAIN Saved(f)
      PROVE  /\ Saved(f)[i].seq = i /\ Saved(f)[i].msg.src = m.src
             /\ Unbroken(m) => Saved(f)[i].msg = m
  <2>1. CASE i = p + 1
    BY <1>2, <1>3, <1>5, <1>7, <2>1
  <2>2. CASE i # p + 1
    <3>1. i \in 1..p
      BY <1>7, <2>2
    <3> QED
      BY <1>7, <3>1 DEF Hears
  <2> QED
    BY <2>1, <2>2
<1> QED
  BY <1>1, <1>4, <1>7, <1>8

(* After a tick, what was queued of a message still is, unless it is the   *)
(* taken frame.                                                            *)
LEMMA StillQueued ==
  ASSUME TransportTyped, ListInOrder, NEW f, NEW e, Finding(f, e), dl_rx_list # <<>>,
         NEW m, NEW p, QueuedFrom(m, p), NEW q \in Nat, \A k \in Nat : k > q => k > p,
         \A k \in Nat : k > q => f # Packet(m, k)
  PROVE  QueuedFrom(m, q)'
<1>1. source' = source /\ whole' = whole
  BY DEF Finding
<1> SUFFICES ASSUME NEW k \in Nat, k > q, SentOf(m, k)' PROVE InList(Packet(m, k))'
  BY DEF QueuedFrom
<1>2. SentOf(m, k)
  BY <1>1 DEF SentOf
<1>3. InList(Packet(m, k)) /\ f # Packet(m, k)
  BY <1>2 DEF QueuedFrom
<1> QED
  BY <1>3, TakenFirst

LEMMA HearingTick ==
  ASSUME TransportTyped, Unmixed, Spent, NEW f, NEW e, Finding(f, e)
  PROVE  Hearing'
<1>1. source' = source /\ whole' = whole /\ f \in AnyFrame
  BY DEF Finding
<1>2. \A m : (Known(m)' <=> Known(m)) /\ (Unbroken(m)' <=> Unbroken(m))
  BY <1>1 DEF Known, Unbroken
<1>3. CASE Opens(f)
  <2>1. dl_rx_list # <<>>
    <3>1. f.msg.len \in Nat /\ RxBuffers \in Nat
      BY <1>1, TransportConstants DEF AnyFrame, AnyMsg
    <3> QED
      BY <1>3, <3>1 DEF Finding, Opens, Unmixed, OldAnnouncement
  <2>2. Listed(f) /\ f.msg \in AnyMsg /\ f.seq = 0 /\ f.kind = "BAM" /\ f.msg.len < RxBuffers
    BY <1>1, <1>3, <2>1, TakenFirst DEF Opens, Unmixed, Listed, AnyFrame
  <2> SUFFICES Hears(f.msg, 0)'
    BY <1>3 DEF Opens, Hearing
  <2>3. Known(f.msg) /\ Packets(f.msg) > 0
    BY <2>2, PacketsIs DEF Listed, Known
  <2>4. data' = <<>>
    BY <1>3 DEF Opens
  <2>5. Unbroken(f.msg) => QueuedFrom(f.msg, 0)'
    <3> SUFFICES ASSUME Unbroken(f.msg) PROVE QueuedFrom(f.msg, 0)'
      OBVIOUS
    <3>1. QueuedFrom(f.msg, 0)
      BY <2>2 DEF Listed
    <3>2. \A k \in Nat : f # Packet(f.msg, k)
      BY <2>2 DEF Packet
    <3> QED
      BY <2>1, <3>1, <3>2, StillQueued DEF Unmixed
  <2>6. ASSUME NEW g \in AnyFrame, InList(g)', g.msg.src = f.msg.src
        PROVE  g.msg.id > f.msg.id \/ (g.msg = f.msg /\ g.seq > 0)
    <3>1. Before(f, g)
      BY <2>1, <2>6, TakenFirst DEF Unmixed
    <3> QED
      BY <2>2, <3>1 DEF Before, AnyFrame, AnyMsg
  <2> QED
    BY <1>1, <1>2, <2>2, <2>3, <2>4, <2>5, <2>6 DEF Hears, Listed
<1>4. CASE Keeps(f)
  <2>1. /\ machine.status = "WAIT_FOR_DATA" /\ ~Fresh(f) /\ machine'.msg = machine.msg
        /\ machine'.packet_number = machine.packet_number /\ data' = data
    BY <1>4 DEF Keeps
  <2> SUFFICES ASSUME NEW m \in AnyMsg, NEW p \in Nat,
                      machine.msg = m, machine.packet_number = p
               PROVE  Hears(m, p)'
    BY <2>1 DEF Hearing
  <2>2. Hears(m, p)
    BY <2>1 DEF Unmixed, Hearing
  <2>3. \A g \in AnyFrame : InList(g)' => InList(g)
    <3>1. CASE dl_rx_list = <<>>
      BY <3>1 DEF Finding, InList
    <3>2. CASE dl_rx_list # <<>>
      BY <3>2, TakenFirst DEF Unmixed
    <3> QED
      BY <3>1, <3>2
  <2>4. QueuedFrom(m, p) => QueuedFrom(m, p)'
    <3>1. CASE dl_rx_list = <<>>
      <4>1. dl_rx_list' = dl_rx_list
        BY <3>1 DEF Finding
      <4> QED
        BY <1>1, <4>1 DEF QueuedFrom, SentOf, InList
    <3>2. CASE dl_rx_list # <<>>
      <4>1. ASSUME NEW k \in Nat, k > p PROVE f # Packet(m, k)
        <5>1. Packet(m, k).kind = "DT" /\ Packet(m, k).msg = m /\ Packet(m, k).seq = k /\ k # 0
          BY <4>1 DEF Packet
        <5> QED
          BY <2>1, <5>1 DEF Fresh
      <4> QED
        BY <3>2, <4>1, StillQueued DEF Unmixed
    <3> QED
      BY <3>1, <3>2
  <2> QED
    BY <1>1, <1>2, <2>1, <2>2, <2>3, <2>4 DEF Hears
<1>5. CASE Saves(f)
  <2>1. PICK m \in AnyMsg, p \in Nat : machine.msg = m /\ machine.packet_number = p
    BY DEF TransportTyped, ReceiverTyped
  <2>2. /\ machine.status = "WAIT_FOR_DATA" /\ Fresh(f) /\ f.seq = p + 1 /\ f.seq # Packets(m)
        /\ machine'.msg = m /\ machine'.packet_number = p + 1 /\ data' = Saved(f)
        /\ p + 1 \in Nat
    BY <1>5, <2>1 DEF Saves
  <2> SUFFICES Hears(m, p + 1)'
    BY <2>2 DEF Hearing
  <2>3. Hears(m, p)
    BY <2>1, <2>2 DEF Unmixed, Hearing
  <2>4. /\ dl_rx_list # <<>> /\ (Unbroken(m) => f = Packet(m, p + 1))
        /\ Saved(f) \in Seq([msg : AnyMsg, seq : Nat]) /\ Len(Saved(f)) = p + 1
        /\ \A i \in DOMAIN Saved(f) : /\ Saved(f)[i].seq = i /\ Saved(f)[i].msg.src = m.src
                                      /\ Unbroken(m) => Saved(f)[i].msg = m
    BY <2>1, <2>2, <2>3, SavedIs DEF Unmixed
  <2>5. p + 1 < Packets(m) /\ Known(m) /\ m.len < RxBuffers
    BY <2>2, <2>3, PacketsIs DEF Hears
  <2>6. ASSUME Unbroken(m)
        PROVE  /\ QueuedFrom(m, p + 1)'
               /\ m = source[m.src].msg => p + 1 < source[m.src].next
               /\ \A g \in AnyFrame : InList(g)' /\ g.msg.src = m.src
                                        => g.msg.id > m.id \/ (g.msg = m /\ g.seq > p + 1)
    <3>1. f = Packet(m, p + 1) /\ f.msg = m /\ f.seq = p + 1
      BY <2>4, <2>6 DEF Packet
    <3>2. QueuedFrom(m, p + 1)'
      <4>1. \A k \in Nat : k > p + 1 => k > p
        OBVIOUS
      <4>2. \A k \in Nat : k > p + 1 => f # Packet(m, k)
        BY <3>1 DEF Packet
      <4>3. QueuedFrom(m, p)
        BY <2>3, <2>6 DEF Hears
      <4> QED
        BY <2>2, <2>4, <4>1, <4>2, <4>3, StillQueued DEF Unmixed
    <3>3. m = source[m.src].msg => p + 1 < source[m.src].next
      <4>1. Listed(f)
        BY <2>4, TakenFirst DEF Unmixed
      <4> QED
        BY <3>1, <4>1 DEF Listed
    <3>4. ASSUME NEW g \in AnyFrame, InList(g)', g.msg.src = m.src
          PROVE  g.msg.id > m.id \/ (g.msg = m /\ g.seq > p + 1)
      <4>1. Before(f, g)
        BY <2>4, <3>1, <3>4, TakenFirst DEF Unmixed
      <4> QED
        BY <3>1, <4>1 DEF Before, AnyFrame, AnyMsg
    <3> QED
      BY <3>2, <3>3, <3>4
  <2> QED
    BY <1>1, <1>2, <2>2, <2>4, <2>5, <2>6 DEF Hears
<1>6. CASE Ignores(f) \/ Gives(f) \/ Completes(f)
  <2>1. machine'.status # "WAIT_FOR_DATA"
    BY <1>6 DEF Ignores, Gives, Completes, NoSession
  <2> QED
    BY <2>1 DEF Hearing
<1> QED
  BY <1>3, <1>4, <1>5, <1>6 DEF Finding

LEMMA HandedOnTick ==
  ASSUME TransportTyped, Unmixed, Spent, NEW f, NEW e, Finding(f, e)
  PROVE  HandedOn'
<1>1. source' = source /\ whole' = whole
  BY DEF Finding
<1>2. \A m : (Known(m)' <=> Known(m)) /\ (Unbroken(m)' <=> Unbroken(m))
  BY <1>1 DEF Known, Unbroken
<1>3. CASE got' = got
  BY <1>2, <1>3 DEF Unmixed, HandedOn
<1>4. CASE Completes(f)
  <2>1. PICK m \in AnyMsg, p \in Nat : machine.msg = m /\ machine.packet_number = p
    BY DEF TransportTyped, ReceiverTyped
  <2>2. PICK kept \in BOOLEAN :
          /\ got' = got \cup {[msg |-> m, data |-> Saved(f), kept |-> kept]}
          /\ m.len < RxBuffers - 1 => kept
    BY <1>4, <2>1 DEF Completes
  <2>3. /\ machine.status = "WAIT_FOR_DATA" /\ Fresh(f) /\ f.seq = p + 1 /\ Packets(m) = p + 1
    BY <1>4, <2>1 DEF Completes
  <2>4. Hears(m, p)
    BY <2>1, <2>3 DEF Unmixed, Hearing
  <2>5. /\ DOMAIN Saved(f) = 1..(p + 1)
        /\ \A i \in DOMAIN Saved(f) : /\ Saved(f)[i].seq = i /\ Saved(f)[i].msg.src = m.src
                                      /\ Unbroken(m) => Saved(f)[i].msg = m
    BY <2>1, <2>3, <2>4, SavedIs DEF Unmixed
  <2>6. m.len # RxBuffers - 1 => kept
    <3>1. m.len < RxBuffers /\ m.len \in Nat
      BY <2>4 DEF Hears, AnyMsg
    <3> QED
      BY <2>2, <3>1, TransportConstants
  <2> DEFINE new == [msg |-> m, data |-> Saved(f), kept |-> kept]
  <2>7. new.msg = m /\ new.data = Saved(f) /\ new.kept = kept /\ got' = got \cup {new}
    BY <2>2
  <2>8. Known(m)
    BY <2>4 DEF Hears
  <2> HIDE DEF new
  <2> SUFFICES ASSUME NEW d \in got'
               PROVE  /\ Known(d.msg) /\ DOMAIN d.data = 1..Packets(d.msg)
                      /\ \A i \in DOMAIN d.data : /\ d.data[i].seq = i /\ d.data[i].msg.src = d.msg.src
                                                  /\ Unbroken(d.msg) => d.data[i].msg = d.msg
                      /\ d.msg.len # RxBuffers - 1 => d.kept
    BY <1>2 DEF HandedOn
  <2>9. CASE d \in got
    BY <2>9 DEF Unmixed, HandedOn
  <2>10. CASE d = new
    BY <2>3, <2>5, <2>6, <2>7, <2>8, <2>10
  <2> QED
    BY <2>7, <2>9, <2>10
<1> QED
  BY <1>3, <1>4 DEF Finding, Opens, Ignores, Keeps, Gives, Saves

LEMMA UnmixedTick ==
  ASSUME TransportTyped, Unmixed, Spent, j1939_stk_periodic
  PROVE  Unmixed' /\ Spent'
<1>1. PICK f, e : Finding(f, e)
  BY TickIs
<1>2. SourcesKnown'
  <2>1. source' = source /\ whole' = whole
    BY <1>1 DEF Finding
  <2> QED
    BY <2>1 DEF Unmixed, SourcesKnown, Known
<1>3. OldAnnouncement'
  <2>1. CASE Ignores(f)
    BY <2>1 DEF Ignores, OldAnnouncement
  <2>2. CASE Gives(f) \/ Completes(f)
    BY <2>2 DEF Gives, Completes, NoPdu, OldAnnouncement
  <2>3. CASE Opens(f) \/ Keeps(f) \/ Saves(f)
    BY <2>3 DEF Opens, Keeps, Saves, OldAnnouncement
  <2> QED
    BY <1>1, <2>1, <2>2, <2>3 DEF Finding
<1> QED
  BY <1>1, <1>2, <1>3, SpentNext, InOrderTick, HearingTick, HandedOnTick DEF Unmixed

(* A message handed on is made of its announced number of packets, in      *)
(* order, from the node that announced it, and all its own when none of    *)
(* its frames was missed.                                                  *)
THEOREM PacketsStayApart == TpSpec => []NothingMixed
<1> DEFINE Inv == Unmixed /\ Spent
<1>1. TpInit => Inv
  BY UnmixedInit DEF TpInit, j1939_tl_init, NoSession, Spent
<1>2. TransportTyped /\ Inv /\ [TpNext]_tpVars => Inv'
  <2>1. ASSUME Inv, UNCHANGED tpVars
        PROVE  Inv'
    <3>1. UNCHANGED <<dl_rx_list, pdu, machine, data, got, source, whole>>
      BY <2>1 DEF tpVars
    <3>2. SourcesKnown'
      BY <2>1, <3>1 DEF Unmixed, SourcesKnown, Known
    <3>3. ListInOrder'
      BY <2>1, <3>1 DEF Unmixed, ListInOrder, Listed, InList, Known, Unbroken, QueuedFrom, SentOf
    <3>4. Hearing'
      <4>1. ASSUME NEW m, NEW p, Hears(m, p)
            PROVE  Hears(m, p)'
        <5>1. QueuedFrom(m, p)' <=> QueuedFrom(m, p)
          BY <3>1 DEF QueuedFrom, SentOf, InList
        <5>2. \A g : InList(g)' <=> InList(g)
          BY <3>1 DEF InList
        <5>3. (Known(m)' <=> Known(m)) /\ (Unbroken(m)' <=> Unbroken(m))
          BY <3>1 DEF Known, Unbroken
        <5> QED
          BY <3>1, <4>1, <5>1, <5>2, <5>3 DEF Hears
      <4> QED
        BY <2>1, <3>1, <4>1 DEF Unmixed, Hearing
    <3>5. HandedOn'
      BY <2>1, <3>1 DEF Unmixed, HandedOn, Known, Unbroken
    <3>6. OldAnnouncement' /\ Spent'
      BY <2>1, <3>1 DEF Unmixed, OldAnnouncement, Spent, Fresh
    <3> QED
      BY <3>2, <3>3, <3>4, <3>5, <3>6 DEF Unmixed
  <2>2. Spent /\ UNCHANGED receiver => Spent'
    BY DEF receiver, Spent, Fresh
  <2> QED
    BY <2>1, <2>2, UnmixedSent, UnmixedTick, SourceSends DEF TpNext
<1>3. Inv => NothingMixed
  <2> SUFFICES ASSUME Inv, NEW d \in got
               PROVE  /\ DOMAIN d.data = 1..Packets(d.msg)
                      /\ \A i \in DOMAIN d.data : /\ d.data[i].seq = i /\ d.data[i].msg.src = d.msg.src
                                                  /\ d.msg \in whole => d.data[i].msg = d.msg
                      /\ d.msg.len # RxBuffers - 1 => d.kept
    BY DEF NothingMixed
  <2> QED
    BY DEF Unmixed, HandedOn, Unbroken
<1> QED
  BY <1>1, <1>2, <1>3, TransportTypedAlways, PTL DEF TpSpec
-----------------------------------------------------------------------------
(***************************************************************************)
(* J1939Filter.  The search is a recursive function; that there is one     *)
(* that solves its equation, and what it returns, are shown for longer     *)
(* and longer intervals, as it goes on in shorter ones only.  The table    *)
(* keeps one entry for each of its first groups, because those always pass *)
(* and so are never added again.                                           *)
(***************************************************************************)
(* A set of natural numbers that is not empty has a least one.             *)
LEMMA LeastIs ==
  ASSUME NEW S \in SUBSET Nat, S # {}
  PROVE  \E i \in S : \A j \in S : i <= j
<1>1. PICK i \in S : \A j \in S : ~(<<j, i>> \in OpToRel(<, Nat))
  BY NatLessThanWellFounded, WFMin
<1>2. ASSUME NEW j \in S PROVE i <= j
  <2>1. i \in Nat /\ j \in Nat /\ ~(j < i)
    BY <1>1 DEF OpToRel
  <2> QED BY <2>1
<1> QED BY <1>2

(* No entry has a greater number than the next ones.                        *)
Ordered == \A i, j \in DOMAIN pgn_table : i < j => pgn_table[i].pgn <= pgn_table[j].pgn

(* The middle of an interval is in it.                                     *)
LEMMA MiddleIs ==
  ASSUME NEW lo \in Nat, NEW hi \in Nat, lo <= hi
  PROVE  LET m == (lo + hi) \div 2 IN m \in Nat /\ lo <= m /\ m <= hi
  OBVIOUS

(* What a turn of the search needs of f: its value for shorter intervals.  *)
LEMMA HalveNeeds ==
  ASSUME pgn_table \in Seq(Entry), NEW pgn, NEW x \in Intervals, NEW k \in Nat, x[2] - x[1] < k + 1,
         NEW f, NEW g, \A y \in Intervals : y[2] - y[1] < k => f[y] = g[y]
  PROVE  Halve(f, x, pgn) = Halve(g, x, pgn)
<1> DEFINE n == Len(pgn_table)
           m == (x[1] + x[2]) \div 2
<1>1. CASE x[1] > x[2]
  BY <1>1 DEF Halve
<1>2. CASE ~(x[1] > x[2])
  <2>1. n \in Nat /\ x[1] \in 1..(n + 1) /\ x[2] \in 0..n
    BY DEF Intervals
  <2>2. m \in Nat /\ x[1] <= m /\ m <= x[2]
    BY <1>2, <2>1, MiddleIs
  <2> HIDE DEF m
  <2>3. <<m + 1, x[2]>> \in Intervals /\ <<x[1], m - 1>> \in Intervals
    BY <2>1, <2>2 DEF Intervals
  <2>4. f[<<m + 1, x[2]>>] = g[<<m + 1, x[2]>>]
    <3>1. x[2] - (m + 1) < k
      BY <2>1, <2>2
    <3> QED BY <2>3, <3>1
  <2>5. f[<<x[1], m - 1>>] = g[<<x[1], m - 1>>]
    <3>1. (m - 1) - x[1] < k
      BY <2>1, <2>2
    <3> QED BY <2>3, <3>1
  <2> QED BY <1>2, <2>4, <2>5 DEF Halve, m
<1> QED BY <1>1, <1>2

(* The search goes on in shorter intervals only, so it has an end.         *)
LEMMA SearchEnds ==
  ASSUME pgn_table \in Seq(Entry), NEW pgn
  PROVE  \E f : /\ f = [x \in Intervals |-> Halve(f, x, pgn)]
                /\ Search(pgn) = f[<<1, Len(pgn_table)>>]
<1> DEFINE n == Len(pgn_table)
           Solves(f, k) == /\ f = [x \in Intervals |-> f[x]]
                           /\ \A x \in Intervals : x[2] - x[1] < k => f[x] = Halve(f, x, pgn)
<1>1. n \in Nat
  OBVIOUS
<1>2. \E f : Solves(f, 0)
  <2> DEFINE f == [x \in Intervals |-> 0]
  <2>1. ASSUME NEW x \in Intervals, x[2] - x[1] < 0 PROVE Halve(f, x, pgn) = 0
    <3>1. x[1] > x[2]
      BY <1>1, <2>1 DEF Intervals
    <3> QED BY <3>1 DEF Halve
  <2>2. Solves(f, 0)
    BY <2>1
  <2> HIDE DEF f, Solves
  <2> QED BY <2>2
<1>3. ASSUME NEW k \in Nat, NEW f, Solves(f, k) PROVE \E g : Solves(g, k + 1)
  <2>1. PICK g : g = [x \in Intervals |-> Halve(f, x, pgn)]
    OBVIOUS
  <2>2. \A y \in Intervals : y[2] - y[1] < k => f[y] = g[y]
    BY <1>3, <2>1
  <2>3. ASSUME NEW x \in Intervals, x[2] - x[1] < k + 1 PROVE g[x] = Halve(g, x, pgn)
    <3>1. Halve(f, x, pgn) = Halve(g, x, pgn)
      BY <2>2, <2>3, HalveNeeds
    <3> QED BY <2>1, <3>1
  <2>4. Solves(g, k + 1)
    BY <2>1, <2>3
  <2> HIDE DEF Solves
  <2> QED BY <2>4
<1>4. \A k \in Nat : \E f : Solves(f, k)
  <2> DEFINE Bad == {k \in Nat : ~ \E f : Solves(f, k)}
  <2> HIDE DEF Solves
  <2> SUFFICES ASSUME Bad # {} PROVE FALSE
    OBVIOUS
  <2>1. PICK i \in Bad : \A j \in Bad : i <= j
    BY LeastIs
  <2>2. i \in Nat /\ i # 0
    BY <1>2, <2>1
  <2>3. i - 1 \in Nat /\ ~(i <= i - 1) /\ (i - 1) + 1 = i
    BY <2>2
  <2>4. PICK f : Solves(f, i - 1)
    BY <2>1, <2>3
  <2>5. \E g : Solves(g, (i - 1) + 1)
    BY <1>3, <2>3, <2>4
  <2> QED BY <2>1, <2>3, <2>5
<1>5. PICK f : Solves(f, n + 1)
  <2> HIDE DEF Solves
  <2>1. n + 1 \in Nat
    BY <1>1
  <2> QED BY <1>4, <2>1
<1>6. f = [x \in Intervals |-> Halve(f, x, pgn)]
  <2>1. ASSUME NEW x \in Intervals PROVE f[x] = Halve(f, x, pgn)
    <3>1. x[2] - x[1] < n + 1
      BY <1>1 DEF Intervals
    <3> QED BY <1>5, <3>1
  <2> QED BY <1>5, <2>1
<1>7. PICK g : g = CHOOSE h : h = [x \in Intervals |-> Halve(h, x, pgn)]
  OBVIOUS
<1>8. g = [x \in Intervals |-> Halve(g, x, pgn)]
  BY <1>6, <1>7
<1>9. Search(pgn) = g[<<1, n>>]
  BY <1>7 DEF Search
<1> QED BY <1>8, <1>9

(* The search finds the group if it is in the table, and nothing if not.    *)
LEMMA SearchIs ==
  ASSUME pgn_table \in Seq(Entry), Pgn \subseteq Nat, Ordered, NEW pgn \in Nat
  PROVE  \/ /\ Search(pgn) \in DOMAIN pgn_table
            /\ pgn_table[Search(pgn)].pgn = pgn
         \/ /\ Search(pgn) = 0
            /\ \A i \in DOMAIN pgn_table : pgn_table[i].pgn # pgn
<1> DEFINE n == Len(pgn_table)
<1>1. PICK f : /\ f = [x \in Intervals |-> Halve(f, x, pgn)]
               /\ Search(pgn) = f[<<1, n>>]
  BY SearchEnds
<1>2. /\ n \in Nat /\ DOMAIN pgn_table = 1..n
      /\ \A i \in 1..n : pgn_table[i].pgn \in Nat
      /\ \A i, j \in 1..n : i <= j => pgn_table[i].pgn <= pgn_table[j].pgn
  <2>1. n \in Nat /\ DOMAIN pgn_table = 1..n /\ \A i \in 1..n : pgn_table[i] \in Entry
    OBVIOUS
  <2>2. \A i \in 1..n : pgn_table[i].pgn \in Nat
    BY <2>1 DEF Entry
  <2>3. ASSUME NEW i \in 1..n, NEW j \in 1..n, i <= j PROVE pgn_table[i].pgn <= pgn_table[j].pgn
    <3>1. CASE i = j
      BY <2>2, <3>1
    <3>2. CASE i # j
      BY <2>1, <2>3, <3>2 DEF Ordered
    <3> QED BY <3>1, <3>2
  <2> QED BY <2>1, <2>2, <2>3
<1> DEFINE Right(x) ==
             \/ f[x] \in x[1]..x[2] /\ pgn_table[f[x]].pgn = pgn
             \/ f[x] = 0 /\ \A i \in x[1]..x[2] : pgn_table[i].pgn # pgn
           Upto(k) == \A x \in Intervals : x[2] - x[1] < k => Right(x)
<1>3. Upto(0)
  <2> SUFFICES ASSUME NEW x \in Intervals, x[2] - x[1] < 0 PROVE Right(x)
    OBVIOUS
  <2>1. x[1] > x[2] /\ x[1] \in Nat /\ x[2] \in Nat
    BY <1>2 DEF Intervals
  <2>2. f[x] = 0
    BY <1>1, <2>1 DEF Halve
  <2> QED BY <2>1, <2>2
<1>4. ASSUME NEW k \in Nat, Upto(k) PROVE Upto(k + 1)
  <2> SUFFICES ASSUME NEW x \in Intervals, x[2] - x[1] < k + 1 PROVE Right(x)
    OBVIOUS
  <2> DEFINE lo == x[1]
             hi == x[2]
             m == (lo + hi) \div 2
  <2>1. lo \in 1..(n + 1) /\ hi \in 0..n /\ x = <<lo, hi>>
    BY DEF Intervals
  <2>2. CASE lo > hi
    BY <1>3, <1>2, <2>1, <2>2
  <2>3. CASE lo <= hi
    <3>1. m \in Nat /\ lo <= m /\ m <= hi
      BY <1>2, <2>1, <2>3, MiddleIs
    <3>2. f[x] = IF pgn > pgn_table[m].pgn THEN f[<<m + 1, hi>>]
                 ELSE IF pgn < pgn_table[m].pgn THEN f[<<lo, m - 1>>]
                 ELSE m
      <4>1. f[x] = Halve(f, x, pgn)
        BY <1>1
      <4> QED BY <1>2, <2>1, <2>3, <4>1 DEF Halve
    <3> HIDE DEF m, lo, hi, Right
    <3>3. m \in 1..n /\ pgn_table[m].pgn \in Nat
      <4>1. m \in 1..n
        BY ONLY <1>2, <2>1, <3>1
      <4> QED BY <1>2, <4>1
    <3>4. CASE pgn > pgn_table[m].pgn
      <4>1. Right(<<m + 1, hi>>)
        <5>1. <<m + 1, hi>> \in Intervals
          BY <1>2, <2>1, <3>1 DEF Intervals
        <5>2. hi - (m + 1) < k
          BY <1>2, <2>1, <3>1 DEF lo, hi
        <5> QED BY <1>4, <5>1, <5>2
      <4>2. ASSUME NEW i \in lo..m PROVE pgn_table[i].pgn # pgn
        <5>1. i \in 1..n /\ i <= m
          BY <1>2, <2>1, <3>3
        <5> QED BY <1>2, <3>3, <3>4, <5>1
      <4>3. lo..hi = (lo..m) \cup ((m + 1)..hi) /\ (m + 1)..hi \subseteq lo..hi
        BY <1>2, <2>1, <3>1
      <4> QED BY <3>2, <3>4, <4>1, <4>2, <4>3 DEF Right, lo, hi
    <3>5. CASE pgn < pgn_table[m].pgn
      <4>1. Right(<<lo, m - 1>>)
        <5>1. <<lo, m - 1>> \in Intervals
          BY <1>2, <2>1, <3>1 DEF Intervals
        <5>2. (m - 1) - lo < k
          BY <1>2, <2>1, <3>1 DEF lo, hi
        <5> QED BY <1>4, <5>1, <5>2
      <4>2. ASSUME NEW i \in m..hi PROVE pgn_table[i].pgn # pgn
        <5>1. i \in 1..n /\ m <= i
          BY <1>2, <2>1, <3>3
        <5>2. pgn_table[m].pgn <= pgn_table[i].pgn
          BY <1>2, <3>3, <5>1
        <5> QED BY <1>2, <3>3, <3>5, <5>1, <5>2
      <4>3. lo..hi = (lo..(m - 1)) \cup (m..hi) /\ lo..(m - 1) \subseteq lo..hi
        BY <1>2, <2>1, <3>1
      <4>4. ~(pgn > pgn_table[m].pgn)
        BY <3>3, <3>5
      <4> QED BY <3>2, <3>5, <4>1, <4>2, <4>3, <4>4 DEF Right, lo, hi
    <3>6. CASE pgn = pgn_table[m].pgn
      <4>1. f[x] = m
        BY <3>2, <3>3, <3>6
      <4>2. m \in lo..hi
        BY <1>2, <2>1, <3>1
      <4> QED BY <3>6, <4>1, <4>2 DEF Right, lo, hi
    <3> QED BY <3>3, <3>4, <3>5, <3>6
  <2> QED BY <1>2, <2>1, <2>2, <2>3
<1>5. \A k \in Nat : Upto(k)
  <2> DEFINE Bad == {k \in Nat : ~Upto(k)}
  <2> HIDE DEF Upto
  <2> SUFFICES ASSUME Bad # {} PROVE FALSE
    OBVIOUS
  <2>1. PICK i \in Bad : \A j \in Bad : i <= j
    BY LeastIs
  <2>2. i \in Nat /\ i # 0
    BY <1>3, <2>1
  <2>3. i - 1 \in Nat /\ ~(i <= i - 1) /\ (i - 1) + 1 = i
    BY <2>2
  <2>4. Upto(i - 1)
    BY <2>1, <2>3
  <2>5. Upto((i - 1) + 1)
    BY <1>4, <2>3, <2>4
  <2> QED BY <2>1, <2>3, <2>5
<1>6. Right(<<1, n>>)
  <2>1. Upto(n + 1)
    BY <1>2, <1>5
  <2>2. <<1, n>> \in Intervals /\ n - 1 < n + 1
    BY <1>2 DEF Intervals
  <2> QED BY <2>1, <2>2
<1> QED BY <1>1, <1>2, <1>6

(* The numbers of a finite set, counted from the smallest.                 *)
Rank(I, i) == Cardinality({j \in I : j <= i})

LEMMA RanksAre ==
  ASSUME NEW I \in SUBSET Nat, IsFiniteSet(I)
  PROVE  /\ Cardinality(I) \in Nat
         /\ \A i \in I : Rank(I, i) \in 1..Cardinality(I)
         /\ \A i, j \in I : i < j => Rank(I, i) < Rank(I, j)
         /\ \A k \in 1..Cardinality(I) : \E i \in I : Rank(I, i) = k
<1> DEFINE n == Cardinality(I)
           Below(i) == {j \in I : j <= i}
<1>1. n \in Nat
  BY FS_CardinalityType
<1>2. ASSUME NEW i \in I PROVE Rank(I, i) \in 1..n
  <2>1. IsFiniteSet(Below(i)) /\ Cardinality(Below(i)) <= n
    BY FS_Subset
  <2>2. i \in Below(i)
    OBVIOUS
  <2>3. Cardinality(Below(i)) \in Nat /\ Cardinality(Below(i)) # 0
    BY <2>1, <2>2, FS_CardinalityType, FS_EmptySet
  <2> QED BY <1>1, <2>1, <2>3 DEF Rank
<1>3. ASSUME NEW i \in I, NEW j \in I, i < j PROVE Rank(I, i) < Rank(I, j)
  <2>0. i \in Nat /\ j \in Nat /\ j <= j /\ ~(j <= i)
    <3>1. i \in Nat /\ j \in Nat
      OBVIOUS
    <3> QED BY <1>3, <3>1
  <2>1. Below(i) \subseteq Below(j) /\ j \in Below(j) /\ j \notin Below(i)
    <3>1. ASSUME NEW x \in I, x <= i PROVE x <= j
      <4>1. x \in Nat
        OBVIOUS
      <4> QED BY <1>3, <2>0, <3>1, <4>1
    <3> QED BY <2>0, <3>1
  <2>2. IsFiniteSet(Below(j))
    BY FS_Subset
  <2>3. IsFiniteSet(Below(i)) /\ Cardinality(Below(i)) <= Cardinality(Below(j))
        /\ Cardinality(Below(i)) # Cardinality(Below(j))
    BY <2>1, <2>2, FS_Subset
  <2>4. Cardinality(Below(i)) \in Nat /\ Cardinality(Below(j)) \in Nat
    BY <2>2, <2>3, FS_CardinalityType
  <2> QED BY <2>3, <2>4 DEF Rank
<1>4. ASSUME NEW k \in 1..n PROVE \E i \in I : Rank(I, i) = k
  <2> DEFINE f == [i \in I |-> Rank(I, i)]
  <2>1. f \in [I -> 1..n]
    BY <1>2
  <2>2. ASSUME NEW i \in I, NEW j \in I, f[i] = f[j] PROVE i = j
    <3>1. i \in Nat /\ j \in Nat /\ f[i] \in Nat
      BY <1>1, <2>1
    <3> QED BY <1>3, <2>2, <3>1
  <2>3. f \in Injection(I, 1..n)
    BY <2>1, <2>2 DEF Injection, IsInjective
  <2>4. IsFiniteSet(1..n) /\ Cardinality(1..n) = n
    BY <1>1, FS_Interval
  <2>5. f \in Surjection(I, 1..n)
    BY <2>3, <2>4, FS_Injection
  <2> QED BY <2>5 DEF Surjection
<1> QED BY <1>1, <1>2, <1>3, <1>4

(* j1939_pgn_init: the initial table can be sorted, and has each group.     *)
LEMMA SortedIs ==
  /\ j1939_pgn_init \in Seq(Entry) /\ Len(j1939_pgn_init) = Cardinality(KnownPgns)
  /\ \A i, j \in DOMAIN j1939_pgn_init : i < j => j1939_pgn_init[i].pgn < j1939_pgn_init[j].pgn
  /\ \A i \in DOMAIN j1939_pgn_init : j1939_pgn_init[i].addr = AnyAddr
  /\ \A p \in KnownPgns : \E i \in DOMAIN j1939_pgn_init : j1939_pgn_init[i].pgn = p
<1> DEFINE n == Cardinality(KnownPgns)
           Tables == [1..n -> [addr : {AnyAddr}, pgn : KnownPgns]]
           Sorted(t) == \A i, j \in DOMAIN t : i < j => t[i].pgn < t[j].pgn
<1>1. KnownPgns \in SUBSET Nat /\ IsFiniteSet(KnownPgns)
  BY FilterAssumption, FS_Subset
<1>2. /\ n \in Nat
      /\ \A p \in KnownPgns : Rank(KnownPgns, p) \in 1..n
      /\ \A p, q \in KnownPgns : p < q => Rank(KnownPgns, p) < Rank(KnownPgns, q)
      /\ \A k \in 1..n : \E p \in KnownPgns : Rank(KnownPgns, p) = k
  BY <1>1, RanksAre
<1>3. \E t \in Tables : Sorted(t)
  <2> DEFINE kth(k) == CHOOSE p \in KnownPgns : Rank(KnownPgns, p) = k
             t == [k \in 1..n |-> [addr |-> AnyAddr, pgn |-> kth(k)]]
  <2>1. \A k \in 1..n : kth(k) \in KnownPgns /\ Rank(KnownPgns, kth(k)) = k
    BY <1>2
  <2> HIDE DEF kth
  <2>2. t \in Tables
    BY <2>1
  <2>3. ASSUME NEW i \in 1..n, NEW j \in 1..n, i < j PROVE kth(i) < kth(j)
    <3>1. kth(i) \in Nat /\ kth(j) \in Nat
      BY <1>1, <2>1
    <3>2. i \in Nat /\ j \in Nat
      BY <1>2
    <3>3. ~(kth(j) < kth(i)) /\ kth(i) # kth(j)
      BY <1>2, <2>1, <2>3, <3>2
    <3> QED BY <3>1, <3>3
  <2>4. Sorted(t)
    BY <2>3
  <2> HIDE DEF t, Sorted
  <2> QED BY <2>2, <2>4
<1>4. PICK t : t = j1939_pgn_init
  OBVIOUS
<1>5. t \in Tables /\ Sorted(t)
  BY <1>3, <1>4 DEF j1939_pgn_init
<1>6. t \in Seq(Entry) /\ Len(t) = n /\ DOMAIN t = 1..n
  <2>1. \A i \in 1..n : t[i] \in Entry
    BY <1>5 DEF Entry, Address, Pgn
  <2>2. t \in [1..n -> Entry]
    BY <1>5, <2>1
  <2> QED BY <1>2, <2>2
<1>7. \A i \in DOMAIN t : t[i].addr = AnyAddr
  BY <1>5, <1>6
<1>8. \A p \in KnownPgns : \E i \in DOMAIN t : t[i].pgn = p
  <2> DEFINE g == [i \in 1..n |-> t[i].pgn]
  <2>1. g \in [1..n -> KnownPgns]
    BY <1>5
  <2>2. ASSUME NEW i \in 1..n, NEW j \in 1..n, g[i] = g[j] PROVE i = j
    <3>0. i \in Nat /\ j \in Nat /\ g[i] \in KnownPgns
      BY <1>2, <2>1
    <3>1. i \in Nat /\ j \in Nat /\ g[i] \in Nat
      BY <1>1, <3>0
    <3>2. ~(g[i] < g[j]) /\ ~(g[j] < g[i])
      BY <2>2, <3>1
    <3> QED BY <1>5, <1>6, <3>1, <3>2
  <2>3. g \in Injection(1..n, KnownPgns)
    BY <2>1, <2>2 DEF Injection, IsInjective
  <2>4. IsFiniteSet(1..n) /\ Cardinality(1..n) = n
    BY <1>2, FS_Interval
  <2>5. g \in Surjection(1..n, KnownPgns)
    BY <1>1, <2>3, <2>4, FS_Injection
  <2> QED BY <1>6, <2>5 DEF Surjection
<1> QED BY <1>4, <1>5, <1>6, <1>7, <1>8

(* A sequence with an element put in behind the first ones.                 *)
PutIn(t, at, e) == SubSeq(t, 1, at) \o <<e>> \o SubSeq(t, at + 1, Len(t))

LEMMA PutInIs ==
  ASSUME NEW S, NEW t \in Seq(S), NEW at \in 0..Len(t), NEW e \in S
  PROVE  /\ PutIn(t, at, e) \in Seq(S) /\ Len(PutIn(t, at, e)) = Len(t) + 1
         /\ PutIn(t, at, e)[at + 1] = e
         /\ \A i \in 1..at : PutIn(t, at, e)[i] = t[i]
         /\ \A i \in (at + 1)..Len(t) : PutIn(t, at, e)[i + 1] = t[i]
<1> DEFINE n == Len(t)
<1>1. n \in Nat /\ at \in Nat /\ at <= n /\ \A i \in 1..n : t[i] \in S
  OBVIOUS
<1>2. PICK l : l = SubSeq(t, 1, at)
  OBVIOUS
<1>3. PICK r : r = SubSeq(t, at + 1, n)
  OBVIOUS
<1>4. l \in Seq(S) /\ Len(l) = at /\ \A i \in 1..at : l[i] = t[i]
  <2> HIDE DEF n
  <2>1. 1 \in Int /\ at \in Int /\ \A i \in 1..at : t[i] \in S
    BY <1>1
  <2>2. /\ l \in Seq(S) /\ Len(l) = IF 1 <= at THEN at - 1 + 1 ELSE 0
        /\ \A i \in 1..(at - 1 + 1) : l[i] = t[1 + i - 1]
    BY <1>2, <2>1, SubSeqProperties
  <2> QED BY <1>1, <2>2
<1>5. r \in Seq(S) /\ Len(r) = n - at /\ \A i \in 1..(n - at) : r[i] = t[at + i]
  <2> HIDE DEF n
  <2>1. at + 1 \in Int /\ n \in Int /\ \A i \in (at + 1)..n : t[i] \in S
    BY <1>1
  <2>2. /\ r \in Seq(S) /\ Len(r) = IF at + 1 <= n THEN n - (at + 1) + 1 ELSE 0
        /\ \A i \in 1..(n - (at + 1) + 1) : r[i] = t[at + 1 + i - 1]
    BY <1>3, <2>1, SubSeqProperties
  <2> QED BY <1>1, <2>2
<1>6. PICK s : s = l \o <<e>>
  OBVIOUS
<1>7. /\ s \in Seq(S) /\ Len(s) = at + 1 /\ s[at + 1] = e
      /\ \A i \in 1..at : s[i] = t[i]
  <2>1. s = Append(l, e)
    BY <1>4, <1>6, AppendIsConcat
  <2> QED BY <1>4, <2>1, AppendProperties
<1>8. s \in Seq(S) /\ r \in Seq(S)
  BY <1>5, <1>7
<1> HIDE DEF n
<1> DEFINE g == s \o r
<1>9. /\ g \in Seq(S) /\ Len(g) = Len(s) + Len(r)
      /\ \A i \in 1..(Len(s) + Len(r)) : g[i] = IF i <= Len(s) THEN s[i] ELSE r[i - Len(s)]
  BY <1>8, ConcatProperties
<1>10. g = PutIn(t, at, e)
  BY <1>2, <1>3, <1>6 DEF n, PutIn
<1> HIDE DEF g
<1>11. Len(g) = n + 1
  BY <1>1, <1>5, <1>7, <1>9
<1>12. ASSUME NEW i \in 1..(at + 1) PROVE g[i] = s[i]
  <2>1. i \in 1..(Len(s) + Len(r)) /\ i <= Len(s)
    BY <1>1, <1>5, <1>7
  <2> QED BY <1>9, <2>1
<1>13. ASSUME NEW i \in (at + 1)..n PROVE g[i + 1] = t[i]
  <2>1. /\ i + 1 \in 1..(Len(s) + Len(r)) /\ ~(i + 1 <= Len(s)) /\ i + 1 - Len(s) = i - at
    BY <1>1, <1>5, <1>7
  <2>2. i - at \in 1..(n - at) /\ at + (i - at) = i
    BY <1>1
  <2>3. g[i + 1] = r[i - at]
    BY <1>9, <2>1
  <2> QED BY <1>5, <2>2, <2>3
<1>14. \A i \in 1..at : i \in 1..(at + 1)
  BY <1>1
<1>15. \A i \in 1..at : g[i] = t[i]
  BY <1>7, <1>12, <1>14
<1>16. g[at + 1] = e
  BY <1>1, <1>7, <1>12
<1>17. g \in Seq(S)
  BY <1>9
<1> QED BY <1>10, <1>11, <1>13, <1>15, <1>16, <1>17 DEF n

(* j1939_pgn_add puts the entry behind those with the same number or a      *)
(* smaller one, and leaves all others in their order.                       *)
LEMMA AddIs ==
  ASSUME pgn_table \in Seq(Entry), Pgn \subseteq Nat, Ordered, NEW addr \in Address, NEW pgn \in Pgn
  PROVE  \E at \in 0..Len(pgn_table) :
           /\ j1939_pgn_add(addr, pgn) \in Seq(Entry)
           /\ Len(j1939_pgn_add(addr, pgn)) = Len(pgn_table) + 1
           /\ \A i \in 1..at : /\ j1939_pgn_add(addr, pgn)[i] = pgn_table[i]
                               /\ pgn_table[i].pgn <= pgn
           /\ j1939_pgn_add(addr, pgn)[at + 1] = [addr |-> addr, pgn |-> pgn]
           /\ \A i \in (at + 1)..Len(pgn_table) : /\ j1939_pgn_add(addr, pgn)[i + 1] = pgn_table[i]
                                                  /\ pgn < pgn_table[i].pgn
<1> DEFINE n == Len(pgn_table)
           after == {i \in DOMAIN pgn_table : pgn < pgn_table[i].pgn}
           at == n - Cardinality(after)
           e == [addr |-> addr, pgn |-> pgn]
<1>1. /\ n \in Nat /\ DOMAIN pgn_table = 1..n /\ pgn \in Nat
      /\ \A i \in 1..n : pgn_table[i].pgn \in Nat
  <2>1. n \in Nat /\ DOMAIN pgn_table = 1..n /\ \A i \in 1..n : pgn_table[i] \in Entry
    OBVIOUS
  <2> QED BY <2>1 DEF Entry
<1>2. PICK c \in 1..(n + 1) : after = c..n
  <2>1. CASE after = {}
    <3>1. n + 1 \in 1..(n + 1) /\ (n + 1)..n = {}
      BY <1>1
    <3> QED BY <2>1, <3>1
  <2>2. CASE after # {}
    <3>1. after \in SUBSET Nat
      BY <1>1
    <3>2. PICK c \in after : \A j \in after : c <= j
      BY <2>2, <3>1, LeastIs
    <3>3. c \in 1..n
      BY <1>1
    <3>4. ASSUME NEW i \in 1..n, c <= i PROVE i \in after
      <4>1. CASE c = i
        BY <4>1
      <4>2. CASE c # i
        <5>1. pgn_table[c].pgn <= pgn_table[i].pgn
          BY <1>1, <3>3, <3>4, <4>2 DEF Ordered
        <5> QED BY <1>1, <3>3, <5>1
      <4> QED BY <4>1, <4>2
    <3>5. after \subseteq c..n
      BY <1>1, <3>2, <3>3
    <3>6. c..n \subseteq after
      BY <1>1, <3>3, <3>4
    <3> QED BY <1>1, <3>3, <3>5, <3>6
  <2> QED BY <2>1, <2>2
<1>3. at = c - 1
  <2>1. c \in Int /\ n \in Int
    BY <1>1
  <2>2. Cardinality(c..n) = IF c > n THEN 0 ELSE n - c + 1
    BY <2>1, FS_Interval
  <2>3. PICK k : k = Cardinality(after)
    OBVIOUS
  <2>4. k = IF c > n THEN 0 ELSE n - c + 1
    BY <1>2, <2>2, <2>3
  <2>5. at = n - k
    BY <2>3
  <2> HIDE DEF at, after, n
  <2>6. c \in Nat /\ c <= n + 1
    BY <1>1
  <2> QED BY <1>1, <2>4, <2>5, <2>6
<1>4. at \in 0..n
  BY <1>1, <1>3
<1>5. j1939_pgn_add(addr, pgn) = SubSeq(pgn_table, 1, at) \o <<e>> \o SubSeq(pgn_table, at + 1, n)
  BY DEF j1939_pgn_add
<1>6. e \in Entry
  BY DEF Entry
<1> HIDE DEF e, at, after, n
<1>7. ASSUME NEW i \in 1..at PROVE pgn_table[i].pgn <= pgn
  <2>1. i \in 1..n /\ i \notin after
    BY <1>1, <1>2, <1>3, <1>4
  <2> QED BY <1>1, <2>1 DEF after
<1>8. ASSUME NEW i \in (at + 1)..n PROVE pgn < pgn_table[i].pgn
  <2>1. i \in after
    BY <1>1, <1>2, <1>3, <1>4
  <2> QED BY <2>1 DEF after
<1>9. j1939_pgn_add(addr, pgn) = PutIn(pgn_table, at, e)
  BY <1>5 DEF PutIn, n
<1>10. at \in 0..Len(pgn_table)
  BY <1>4 DEF n
<1>11. PICK a : a = PutIn(pgn_table, at, e)
  OBVIOUS
<1>12. /\ a \in Seq(Entry) /\ Len(a) = n + 1 /\ a[at + 1] = e
       /\ \A i \in 1..at : a[i] = pgn_table[i]
       /\ \A i \in (at + 1)..n : a[i + 1] = pgn_table[i]
  <2>1. pgn_table \in Seq(Entry)
    OBVIOUS
  <2> HIDE DEF n
  <2>2. PICK p : p = at
    OBVIOUS
  <2>3. p \in 0..Len(pgn_table) /\ a = PutIn(pgn_table, p, e)
    BY <1>10, <1>11, <2>2
  <2>4. PICK t : t = pgn_table
    OBVIOUS
  <2>5. t \in Seq(Entry) /\ p \in 0..Len(t) /\ e \in Entry
    BY <1>6, <2>1, <2>3, <2>4
  <2>6. PutIn(t, p, e) \in Seq(Entry)
    BY ONLY <2>5, PutInIs
  <2>7. Len(PutIn(t, p, e)) = Len(t) + 1
    BY ONLY <2>5, PutInIs
  <2>8. PutIn(t, p, e)[p + 1] = e
    BY ONLY <2>5, PutInIs
  <2>9. \A i \in 1..p : PutIn(t, p, e)[i] = t[i]
    BY ONLY <2>5, PutInIs
  <2>10. \A i \in (p + 1)..Len(t) : PutIn(t, p, e)[i + 1] = t[i]
    BY ONLY <2>5, PutInIs
  <2> QED BY <2>2, <2>3, <2>6, <2>7, <2>8, <2>9, <2>10, <2>4 DEF n
<1> QED BY <1>4, <1>7, <1>8, <1>9, <1>11, <1>12 DEF e, n

(* The table is sorted and within its array.                                *)
FilterTyped ==
  /\ pgn_table \in Seq(Entry) /\ Len(pgn_table) <= TableSize
  /\ al_table \in Seq(Entry)
  /\ Ordered

(* A group of the initial table has one entry, for any address.            *)
KnownOnce ==
  \A p \in KnownPgns :
    /\ \E i \in DOMAIN pgn_table : pgn_table[i].pgn = p
    /\ \A i \in DOMAIN pgn_table : pgn_table[i].pgn = p => pgn_table[i].addr = AnyAddr
    /\ ~SharedPgn(p)

(* A subscription has an entry that lets its frames pass.                  *)
Stored ==
  \A k \in DOMAIN al_table : \E i \in DOMAIN pgn_table :
    pgn_table[i].pgn = al_table[k].pgn /\ pgn_table[i].addr \in {AnyAddr, al_table[k].addr}

FilterInv == FilterTyped /\ KnownOnce /\ Stored

(* Numbers of parameter groups are natural.                                 *)
LEMMA PgnsAre == Pgn \subseteq Nat
  BY FilterAssumption DEF Pgn

(* A group with one entry passes by what that entry says.                  *)
LEMMA PassesBy ==
  ASSUME FilterTyped, NEW i \in DOMAIN pgn_table, ~SharedPgn(pgn_table[i].pgn), NEW a,
         pgn_table[i].addr \in {AnyAddr, a}
  PROVE  j1939_pgn_filter(a, pgn_table[i].pgn)
<1> DEFINE p == pgn_table[i].pgn
           m == Search(p)
<1>1. /\ p \in Nat /\ 0 \notin DOMAIN pgn_table
  <2>1. pgn_table \in Seq(Entry)
    BY DEF FilterTyped
  <2>2. pgn_table[i] \in Entry /\ 0 \notin DOMAIN pgn_table
    BY <2>1
  <2> QED BY <2>2, PgnsAre DEF Entry
<1>2. \/ m \in DOMAIN pgn_table /\ pgn_table[m].pgn = p
      \/ m = 0 /\ \A j \in DOMAIN pgn_table : pgn_table[j].pgn # p
  BY <1>1, PgnsAre, SearchIs DEF FilterTyped
<1> HIDE DEF m
<1>3. m = i
  BY <1>2 DEF SharedPgn
<1> QED BY <1>1, <1>3 DEF j1939_pgn_filter, m

(* What passes has an entry that says so.                                   *)
LEMMA PassedBy ==
  ASSUME FilterTyped, NEW a, NEW p \in Pgn, j1939_pgn_filter(a, p)
  PROVE  \E i \in DOMAIN pgn_table : pgn_table[i].pgn = p /\ pgn_table[i].addr \in {AnyAddr, a}
<1> DEFINE m == Search(p)
<1>1. \/ m \in DOMAIN pgn_table /\ pgn_table[m].pgn = p
      \/ m = 0
  BY PgnsAre, SearchIs DEF FilterTyped
<1>2. m # 0 /\ pgn_table[m].addr \in {AnyAddr, a}
  BY DEF j1939_pgn_filter
<1> HIDE DEF m
<1> QED BY <1>1, <1>2

(* The groups of the initial table always pass.                             *)
LEMMA KnownPasses ==
  ASSUME FilterTyped, KnownOnce, NEW p \in KnownPgns, NEW a
  PROVE  j1939_pgn_filter(a, p)
<1>1. PICK i \in DOMAIN pgn_table : pgn_table[i].pgn = p
  BY DEF KnownOnce
<1>2. pgn_table[i].addr = AnyAddr /\ ~SharedPgn(p)
  BY <1>1 DEF KnownOnce
<1> QED BY <1>1, <1>2, PassesBy

(* What an accepted subscription adds.                                      *)
LEMMA SubscribedIs ==
  ASSUME al_table \in Seq(Entry), NEW addr \in Address, NEW pgn \in Pgn, Subscribed(addr, pgn)
  PROVE  /\ al_table' \in Seq(Entry)
         /\ \A k \in DOMAIN al_table' : \/ k \in DOMAIN al_table /\ al_table'[k] = al_table[k]
                                        \/ al_table'[k] = [addr |-> addr, pgn |-> pgn]
<1>1. [addr |-> addr, pgn |-> pgn] \in Entry
  BY DEF Entry
<1> DEFINE e == [addr |-> addr, pgn |-> pgn]
<1> HIDE DEF e
<1>2. al_table' = Append(al_table, e) \/ al_table' = al_table
  BY DEF Subscribed, e
<1>3. CASE al_table' = al_table
  BY <1>3
<1>4. CASE al_table' = Append(al_table, e)
  <2>1. e \in Entry
    BY <1>1 DEF e
  <2>2. /\ al_table' \in Seq(Entry) /\ Len(al_table') = Len(al_table) + 1 /\ Len(al_table) \in Nat
        /\ \A i \in 1..Len(al_table) : al_table'[i] = al_table[i]
        /\ al_table'[Len(al_table) + 1] = e
    BY <1>4, <2>1, AppendProperties
  <2>3. DOMAIN al_table = 1..Len(al_table) /\ DOMAIN al_table' = 1..(Len(al_table) + 1)
    BY <2>2
  <2>4. ASSUME NEW k \in DOMAIN al_table'
        PROVE  \/ k \in DOMAIN al_table /\ al_table'[k] = al_table[k]
               \/ al_table'[k] = e
    <3>1. k \in 1..Len(al_table) \/ k = Len(al_table) + 1
      BY <2>2, <2>3
    <3> QED BY <2>2, <2>3, <3>1
  <2> QED BY <2>2, <2>4 DEF e
<1> QED BY <1>2, <1>3, <1>4

(* Every subscription leaves the table as the search needs it.              *)
LEMMA SubscribeKeeps ==
  ASSUME FilterInv, NEW addr \in Address, NEW pgn \in Pgn, j1939_al_subscribe(addr, pgn)
  PROVE  FilterInv'
<1>1. FilterTyped /\ KnownOnce /\ Stored /\ pgn_table \in Seq(Entry) /\ al_table \in Seq(Entry)
      /\ Len(pgn_table) \in Nat /\ DOMAIN pgn_table = 1..Len(pgn_table)
  BY DEF FilterInv, FilterTyped
<1>2. Subscribed(addr, pgn)
  BY DEF j1939_al_subscribe
<1>3. /\ al_table' \in Seq(Entry)
      /\ \A k \in DOMAIN al_table' : \/ k \in DOMAIN al_table /\ al_table'[k] = al_table[k]
                                     \/ al_table'[k] = [addr |-> addr, pgn |-> pgn]
  BY <1>1, <1>2, SubscribedIs
<1>4. CASE j1939_pgn_filter(addr, pgn)
  <2>1. pgn_table' = pgn_table
    BY <1>4 DEF j1939_al_subscribe
  <2>2. PICK i \in DOMAIN pgn_table : pgn_table[i].pgn = pgn /\ pgn_table[i].addr \in {AnyAddr, addr}
    BY <1>1, <1>4, PassedBy
  <2>3. Stored'
    <3> SUFFICES ASSUME NEW k \in DOMAIN al_table'
                 PROVE  \E j \in DOMAIN pgn_table : /\ pgn_table[j].pgn = al_table'[k].pgn
                                                    /\ pgn_table[j].addr \in {AnyAddr, al_table'[k].addr}
      BY <2>1 DEF Stored
    <3>1. CASE k \in DOMAIN al_table /\ al_table'[k] = al_table[k]
      BY <1>1, <3>1 DEF Stored
    <3>2. CASE al_table'[k] = [addr |-> addr, pgn |-> pgn]
      BY <2>2, <3>2
    <3> QED BY <1>3, <3>1, <3>2
  <2>4. FilterTyped' /\ KnownOnce'
    BY <1>1, <1>3, <2>1 DEF FilterTyped, Ordered, KnownOnce, SharedPgn
  <2> QED BY <2>3, <2>4 DEF FilterInv
<1>5. CASE ~j1939_pgn_filter(addr, pgn)
  <2>1. Len(pgn_table) < TableSize /\ pgn_table' = j1939_pgn_add(addr, pgn) /\ pgn \notin KnownPgns
    BY <1>1, <1>5, KnownPasses DEF j1939_al_subscribe
  <2> DEFINE e == [addr |-> addr, pgn |-> pgn]
             n == Len(pgn_table)
             new == pgn_table'
  <2>2. PICK at \in 0..n :
           /\ new \in Seq(Entry) /\ Len(new) = n + 1
           /\ \A i \in 1..at : new[i] = pgn_table[i] /\ pgn_table[i].pgn <= pgn
           /\ new[at + 1] = e
           /\ \A i \in (at + 1)..n : new[i + 1] = pgn_table[i] /\ pgn < pgn_table[i].pgn
    BY <1>1, <2>1, AddIs, PgnsAre DEF FilterTyped
  <2> DEFINE Old(i) == IF i <= at THEN i ELSE i - 1
             New(i) == IF i <= at THEN i ELSE i + 1
  <2>3. e.pgn = pgn /\ e.addr = addr
    OBVIOUS
  <2> HIDE DEF e, new, n
  <2>4. n \in Nat /\ at \in Nat /\ at <= n /\ DOMAIN new = 1..(n + 1) /\ DOMAIN pgn_table = 1..n
    BY <1>1, <2>2 DEF n
  <2>5. ASSUME NEW i \in 1..(n + 1), i # at + 1
        PROVE  Old(i) \in 1..n /\ new[i] = pgn_table[Old(i)] /\ New(Old(i)) = i
               /\ (i <= at => pgn_table[Old(i)].pgn <= pgn) /\ (i > at => pgn < pgn_table[Old(i)].pgn)
    <3>1. CASE i <= at
      <4>1. i \in 1..at /\ Old(i) = i /\ i \in 1..n
        BY <2>4, <3>1
      <4> QED BY <2>2, <2>4, <3>1, <4>1
    <3>2. CASE i > at
      <4>1. i - 1 \in (at + 1)..n /\ Old(i) = i - 1 /\ (i - 1) + 1 = i /\ i - 1 \in 1..n
            /\ New(i - 1) = i /\ ~(i <= at)
        BY <2>4, <2>5, <3>2
      <4> HIDE DEF Old, New
      <4>2. new[(i - 1) + 1] = pgn_table[i - 1] /\ pgn < pgn_table[i - 1].pgn
        BY <2>2, <4>1
      <4> QED BY <4>1, <4>2
    <3> QED BY <2>4, <3>1, <3>2
  <2>6. ASSUME NEW i \in 1..n PROVE New(i) \in 1..(n + 1) /\ new[New(i)] = pgn_table[i]
    <3>1. CASE i <= at
      BY <2>2, <2>4, <3>1
    <3>2. CASE ~(i <= at)
      <4>1. i \in (at + 1)..n
        BY <2>4, <3>2
      <4> QED BY <2>2, <2>4, <3>2, <4>1
    <3> QED BY <3>1, <3>2
  <2> HIDE DEF New
  <2>7. \A i \in 1..n : pgn_table[i].pgn \in Nat
    <3>1. \A i \in 1..n : pgn_table[i] \in Entry
      BY <1>1 DEF n
    <3> QED BY <3>1, PgnsAre DEF Entry
  <2>8. ASSUME NEW i \in 1..(n + 1), NEW j \in 1..(n + 1), i < j PROVE new[i].pgn <= new[j].pgn
    <3>1. pgn \in Nat
      BY PgnsAre
    <3>2. CASE i = at + 1
      <4>1. j # at + 1 /\ j > at
        BY <2>4, <2>8, <3>2
      <4>2. Old(j) \in 1..n /\ new[j] = pgn_table[Old(j)] /\ pgn < pgn_table[Old(j)].pgn
        BY <2>5, <4>1
      <4> HIDE DEF Old
      <4> QED BY <2>2, <2>3, <2>7, <3>1, <3>2, <4>2
    <3>3. CASE j = at + 1
      <4>1. i # at + 1 /\ i <= at
        BY <2>4, <2>8, <3>3
      <4>2. Old(i) \in 1..n /\ new[i] = pgn_table[Old(i)] /\ pgn_table[Old(i)].pgn <= pgn
        BY <2>5, <4>1
      <4> HIDE DEF Old
      <4> QED BY <2>2, <2>3, <2>7, <3>1, <3>3, <4>2
    <3>4. CASE i # at + 1 /\ j # at + 1
      <4>1. Old(i) < Old(j)
        BY <2>4, <2>8, <3>4
      <4>2. /\ Old(i) \in 1..n /\ new[i] = pgn_table[Old(i)]
            /\ Old(j) \in 1..n /\ new[j] = pgn_table[Old(j)]
        BY <2>5, <3>4
      <4> HIDE DEF Old
      <4> QED BY <1>1, <2>4, <4>1, <4>2 DEF FilterTyped, Ordered
    <3> QED BY <3>2, <3>3, <3>4
  <2>9. FilterTyped'
    <3>1. Len(new) <= TableSize
      BY <2>1, <2>2, <2>4, FilterAssumption DEF n
    <3>2. \A i, j \in DOMAIN new : i < j => new[i].pgn <= new[j].pgn
      BY <2>4, <2>8
    <3> QED BY <1>3, <2>2, <3>1, <3>2 DEF FilterTyped, Ordered, new
  <2>10. Stored'
    <3> SUFFICES ASSUME NEW k \in DOMAIN al_table'
                 PROVE  \E i \in DOMAIN new : /\ new[i].pgn = al_table'[k].pgn
                                              /\ new[i].addr \in {AnyAddr, al_table'[k].addr}
      BY DEF Stored, new
    <3>1. CASE k \in DOMAIN al_table /\ al_table'[k] = al_table[k]
      <4>1. PICK i \in 1..n : /\ pgn_table[i].pgn = al_table[k].pgn
                              /\ pgn_table[i].addr \in {AnyAddr, al_table[k].addr}
        BY <1>1, <2>4, <3>1 DEF Stored
      <4>2. New(i) \in DOMAIN new /\ new[New(i)] = pgn_table[i]
        BY <2>4, <2>6
      <4> QED BY <3>1, <4>1, <4>2
    <3>2. CASE al_table'[k] = e
      <4>1. at + 1 \in DOMAIN new
        BY <2>4
      <4> QED BY <2>2, <3>2, <4>1
    <3> QED BY <1>3, <3>1, <3>2 DEF e
  <2>11. KnownOnce'
    <3> SUFFICES ASSUME NEW p \in KnownPgns
                 PROVE  /\ \E i \in DOMAIN new : new[i].pgn = p
                        /\ \A i \in DOMAIN new : new[i].pgn = p => new[i].addr = AnyAddr
                        /\ \A i, j \in DOMAIN new : new[i].pgn = p /\ new[j].pgn = p => i = j
      BY DEF KnownOnce, SharedPgn, new
    <3>1. PICK i \in 1..n : pgn_table[i].pgn = p
      BY <1>1, <2>4 DEF KnownOnce
    <3>2. New(i) \in DOMAIN new /\ new[New(i)] = pgn_table[i]
      BY <2>4, <2>6
    <3>3. ASSUME NEW j \in DOMAIN new, new[j].pgn = p
          PROVE  Old(j) = i /\ j = New(i) /\ new[j].addr = AnyAddr
      <4>1. j # at + 1
        BY <2>1, <2>2, <2>3, <3>3
      <4>2. Old(j) \in 1..n /\ new[j] = pgn_table[Old(j)] /\ New(Old(j)) = j
        BY <2>4, <2>5, <4>1
      <4> HIDE DEF Old
      <4>3. Old(j) = i
        BY <1>1, <2>4, <3>1, <3>3, <4>2 DEF KnownOnce, SharedPgn
      <4> QED BY <1>1, <2>4, <3>3, <4>2, <4>3 DEF KnownOnce
    <3> QED BY <3>1, <3>2, <3>3
  <2> QED BY <2>9, <2>10, <2>11 DEF FilterInv
<1> QED BY <1>4, <1>5

(* j1939_pgn_filter: a frame somebody subscribed to passes, unless its      *)
(* group is in the table for several addresses, and the groups of the       *)
(* initial table pass.                                                      *)
THEOREM SubscribedFramesPass == FilterSpec => []SubscribedPasses
<1>1. FilterInit => FilterInv
  <2> SUFFICES ASSUME FilterInit PROVE FilterInv
    OBVIOUS
  <2>1. /\ pgn_table \in Seq(Entry) /\ Len(pgn_table) = Cardinality(KnownPgns)
        /\ \A i, j \in DOMAIN pgn_table : i < j => pgn_table[i].pgn < pgn_table[j].pgn
        /\ \A i \in DOMAIN pgn_table : pgn_table[i].addr = AnyAddr
        /\ \A p \in KnownPgns : \E i \in DOMAIN pgn_table : pgn_table[i].pgn = p
    BY SortedIs DEF FilterInit
  <2>2. \A i \in DOMAIN pgn_table : i \in Nat /\ pgn_table[i].pgn \in Nat
    <3>1. \A i \in DOMAIN pgn_table : i \in Nat /\ pgn_table[i] \in Entry
      BY <2>1
    <3> QED BY <3>1, PgnsAre DEF Entry
  <2>3. Ordered
    BY <2>1, <2>2 DEF Ordered
  <2>4. al_table \in Seq(Entry) /\ DOMAIN al_table = {}
    BY DEF FilterInit
  <2>5. Len(pgn_table) <= TableSize
    BY <2>1, FilterAssumption
  <2>6. \A i, j \in DOMAIN pgn_table : i # j => pgn_table[i].pgn # pgn_table[j].pgn
    <3> SUFFICES ASSUME NEW i \in DOMAIN pgn_table, NEW j \in DOMAIN pgn_table, i # j
                 PROVE  pgn_table[i].pgn # pgn_table[j].pgn
      OBVIOUS
    <3>1. i < j \/ j < i
      BY <2>2
    <3>2. pgn_table[i].pgn < pgn_table[j].pgn \/ pgn_table[j].pgn < pgn_table[i].pgn
      BY <2>1, <3>1
    <3> QED BY <2>2, <3>2
  <2>7. KnownOnce
    BY <2>1, <2>6 DEF KnownOnce, SharedPgn
  <2> QED BY <2>1, <2>3, <2>4, <2>5, <2>7 DEF FilterInv, FilterTyped, Stored
<1>2. FilterInv /\ [FilterNext]_filterVars => FilterInv'
  <2> SUFFICES ASSUME FilterInv, [FilterNext]_filterVars PROVE FilterInv'
    OBVIOUS
  <2>1. CASE FilterNext
    BY <2>1, SubscribeKeeps DEF FilterNext
  <2>2. CASE UNCHANGED filterVars
    BY <2>2 DEF filterVars, FilterInv, FilterTyped, Ordered, KnownOnce, SharedPgn, Stored
  <2> QED BY <2>1, <2>2
<1>3. FilterInv => SubscribedPasses
  <2> SUFFICES ASSUME FilterInv PROVE SubscribedPasses
    OBVIOUS
  <2>1. FilterTyped /\ KnownOnce /\ Stored
    BY DEF FilterInv
  <2>2. TableSorted
    BY <2>1 DEF FilterTyped, Ordered, Stored, TableSorted
  <2>3. ASSUME NEW k \in DOMAIN al_table, NEW a \in SourceAddrs,
               al_table[k].addr \in {AnyAddr, a}, ~SharedPgn(al_table[k].pgn)
        PROVE  j1939_pgn_filter(a, al_table[k].pgn)
    <3>1. PICK i \in DOMAIN pgn_table : /\ pgn_table[i].pgn = al_table[k].pgn
                                        /\ pgn_table[i].addr \in {AnyAddr, al_table[k].addr}
      BY <2>1 DEF Stored
    <3>2. pgn_table[i].addr \in {AnyAddr, a} /\ ~SharedPgn(pgn_table[i].pgn)
      BY <2>3, <3>1
    <3>3. j1939_pgn_filter(a, pgn_table[i].pgn)
      BY <2>1, <3>2, PassesBy
    <3> QED BY <3>1, <3>3
  <2>4. \A p \in KnownPgns, a \in Address : j1939_pgn_filter(a, p)
    BY <2>1, KnownPasses
  <2> QED BY <2>2, <2>3, <2>4 DEF SubscribedPasses
<1> QED BY <1>1, <1>2, <1>3, PTL DEF FilterSpec
=============================================================================

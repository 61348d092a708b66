--------------------------- MODULE J1939Transport ---------------------------
(***************************************************************************)
(* How long messages are put together from frames: the receive list of     *)
(* src/src/service/j1939/j1939_dl.c, which can_task fills and the J1939    *)
(* task empties by one frame per tick, and the state machine of j1939_tl.c *)
(* with its single place for a transport frame and its single session.     *)
(*                                                                         *)
(* The stack runs only while the bus is active (j1939_service.c:93): a     *)
(* tick that does not come is such a time, in which no timer runs either.  *)
(***************************************************************************)
EXTENDS Integers, Sequences, FiniteSets

CONSTANTS Sources,       \* the nodes that send messages
          Lengths,       \* their messages' byte counts
          PacketBytes,   \* bytes of one data frame: 7
          RxBuffers,     \* NUMBER_TRANS_RX_BUFFERS
          TpLimit,       \* 750 / J1939_PERIODIC_TICK
          RxListSize,    \* frames dl_rx_list_t holds: 31 of its 32
          MaxMessages,   \* bound on the messages that are announced
          MaxOdd         \* bound on lost frames and on unusual announcements

ASSUME TransportAssumption ==
  /\ IsFiniteSet(Sources) /\ Lengths \subseteq Nat \ {0}
  /\ PacketBytes \in Nat \ {0} /\ RxBuffers \in Nat \ {0}
  /\ TpLimit \in Nat /\ RxListSize \in Nat \ {0}
  /\ MaxMessages \in Nat /\ MaxOdd \in Nat

VARIABLES dl_rx_list,    \* received frames
          pdu,        \* the transport frame that was taken last
          machine,    \* the session: status, message, packets saved, timer
          data,       \* msg.data: the packets saved
          got,        \* the messages handed to the application layer
          source,     \* what each source is sending
          odd,        \* counter of the bound
          whole,      \* messages all frames of which came into dl_rx_list
          expect,     \* the message that has to come next, if any
          due         \* the messages that had to come

tpVars == <<dl_rx_list, pdu, machine, data, got, source, odd, whole, expect, due>>
receiver == <<pdu, machine, data, got, expect, due>>

Messages == [src : Sources, id : 1..MaxMessages, len : Lengths]
NoMsg == [src |-> "none", id |-> 0, len |-> 0]
TpFrame == [kind : {"BAM", "RTS", "DT"}, msg : Messages, seq : Nat]
NoPdu == [kind |-> "none", msg |-> NoMsg, seq |-> 0]

Packets(m) == (m.len + PacketBytes - 1) \div PacketBytes
NoSession == [status |-> "WAIT_FOR_MESSAGE", msg |-> NoMsg, packet_number |-> 0, timer |-> 0]
Expecting(m, n) == [msg |-> m, next |-> n, quiet |-> 0]
Nothing == Expecting(NoMsg, 0)

j1939_tl_init == machine = NoSession /\ pdu = NoPdu /\ data = <<>>

TpInit ==
  /\ j1939_tl_init /\ dl_rx_list = <<>> /\ got = {}
  /\ source = [s \in Sources |-> [msg |-> NoMsg, next |-> 0, all |-> TRUE]]
  /\ odd = 0 /\ whole = {} /\ expect = Nothing /\ due = {}
-----------------------------------------------------------------------------
(* A source sends its announcement and then its packets in turn; it may    *)
(* give a message up for the next one.  A frame can be missed before it    *)
(* is here, and j1939_dl_process drops it when the list is full.           *)
Comes(f) == IF Len(dl_rx_list) < RxListSize THEN Append(dl_rx_list, f) ELSE dl_rx_list

(* An announcement the receiver is not made for, or one that gives up the  *)
(* message before it.                                                      *)
Unusual(s, f) ==
  \/ f.kind = "RTS"
  \/ f.kind = "BAM" /\ f.msg.len >= RxBuffers
  \/ f.kind = "BAM" /\ source[s].next \in 1..Packets(source[s].msg)

Sends(s, f, n) ==
  \E missed \in BOOLEAN :
    /\ dl_rx_list' = IF missed THEN dl_rx_list ELSE Comes(f)
    /\ IF dl_rx_list' = dl_rx_list \/ Unusual(s, f)
       THEN odd < MaxOdd /\ odd' = odd + 1
       ELSE UNCHANGED odd
    /\ LET all == dl_rx_list' # dl_rx_list /\ (f.kind = "DT" => source[s].all)
       IN /\ source' = [source EXCEPT ![s] = [msg |-> f.msg, next |-> n, all |-> all]]
          /\ whole' = IF all /\ n > Packets(f.msg) THEN whole \cup {f.msg} ELSE whole
    /\ UNCHANGED receiver

(* Messages are numbered in the order in which they are announced.         *)
Announced == CHOOSE n \in 0..MaxMessages :
               /\ n = 0 \/ \E s \in Sources : source[s].msg.id = n
               /\ \A s \in Sources : source[s].msg.id <= n

Announces(s) ==
  /\ Announced < MaxMessages
  /\ \E len \in Lengths, kind \in {"BAM", "RTS"} :
       LET m == [src |-> s, id |-> Announced + 1, len |-> len]
       IN Sends(s, [kind |-> kind, msg |-> m, seq |-> 0], 1)

SendsData(s) ==
  LET m == source[s].msg n == source[s].next
  IN n \in 1..Packets(m) /\ Sends(s, [kind |-> "DT", msg |-> m, seq |-> n], n + 1)
-----------------------------------------------------------------------------
(* j1939_tl_periodic, which runs on until the machine has to wait.  Each   *)
(* operator below is what happens in one tick from one status on.          *)
Session(m) == [NoSession EXCEPT !.status = "WAIT_FOR_DATA", !.msg = m]

Reset == machine' = NoSession /\ pdu' = NoPdu /\ UNCHANGED <<data, got>>

Waits(f, mc) == machine' = mc /\ pdu' = f /\ UNCHANGED <<data, got>>

(* SAVE_DATA writes at packet_number * 7 + i while the index before was    *)
(* not above byte_count: its last byte may be one behind the buffer, where *)
(* the message's byte_count is.                                            *)
Overruns(mc) ==
  \E i \in 1..(PacketBytes - 1) :
    /\ mc.packet_number * PacketBytes + i = RxBuffers
    /\ RxBuffers - 1 <= mc.msg.len

(* Wrong: the number of the frame stays, and the next tick finds it again. *)
ConsumedStays(f) == f

Consumed(f) == [f EXCEPT !.seq = 0]

SaveData(f, mc) ==
  LET saved == Append(data, [msg |-> f.msg, seq |-> f.seq])
  IN IF mc.packet_number + 1 = Packets(mc.msg)
     THEN /\ machine' = NoSession /\ pdu' = NoPdu /\ data' = saved
          /\ got' = got \cup {[msg |-> mc.msg, data |-> saved, kept |-> ~Overruns(mc)]}
     ELSE /\ machine' = [mc EXCEPT !.packet_number = @ + 1, !.timer = 0]
          /\ pdu' = Consumed(f) /\ data' = saved /\ UNCHANGED got

(* Wrong: data of every source is taken. *)
CheckAnySource(f, mc) ==
  IF f.seq = mc.packet_number + 1 THEN SaveData(f, mc)
  ELSE IF f.seq # 0 THEN Reset ELSE Waits(f, mc)

CheckDataPacket(f, mc) ==
  IF f.msg.src # mc.msg.src \/ f.seq = 0 THEN Waits(f, mc)
  ELSE IF f.seq = mc.packet_number + 1 THEN SaveData(f, mc)
  ELSE Reset

(* Wrong: nobody looks at the timer. *)
CheckNoTimer(f, mc) == Waits(f, mc)

CheckTimer(f, mc) == IF mc.timer > TpLimit THEN Reset ELSE Waits(f, mc)

WaitForData(f, mc) == IF f.kind = "DT" THEN CheckDataPacket(f, mc) ELSE CheckTimer(f, mc)

(* A BAM opens a session, and the same tick goes on to WAIT_FOR_DATA, where*)
(* the timer is 0.  One that is too long leaves the machine where it is.   *)
(* For an RTS the loop never ends: nothing in its cases stops it.          *)
WaitForMessage(f, mc) ==
  CASE f.kind = "BAM" /\ f.msg.len < RxBuffers ->
         machine' = Session(f.msg) /\ pdu' = f /\ data' = <<>> /\ UNCHANGED got
    [] f.kind = "RTS" -> Waits(f, [mc EXCEPT !.status = "INIT_REASSEMBLE_STRUCTURE"])
    [] OTHER -> Waits(f, mc)

(* The timer is looked at in a session only, which starts it at 0; it is   *)
(* not counted on above the limit (the code's wraps after 2^16 ticks).     *)
j1939_tl_periodic(f) ==
  IF machine.status = "WAIT_FOR_MESSAGE" THEN WaitForMessage(f, machine)
  ELSE WaitForData(f, [machine EXCEPT !.timer = IF @ > TpLimit THEN @ ELSE @ + 1])

(* What the bus may expect of the receiver: a message that is announced    *)
(* while no session is open has to come when its frames follow one another,*)
(* whatever other sources send in between.                                 *)
Expected(f) ==
  LET own == f.kind # "none" /\ f.msg.src = expect.msg.src
      last == expect.next = Packets(expect.msg)
  IN CASE f.kind = "BAM" /\ machine.status = "WAIT_FOR_MESSAGE" /\ f.msg.len < RxBuffers ->
            expect' = Expecting(f.msg, 1) /\ UNCHANGED due
       [] expect # Nothing /\ f.kind = "DT" /\ f.msg = expect.msg /\ f.seq = expect.next ->
            /\ expect' = IF last THEN Nothing ELSE Expecting(expect.msg, expect.next + 1)
            /\ due' = IF last THEN due \cup {expect.msg} ELSE due
       [] expect # Nothing /\ ~own /\ expect.quiet < TpLimit ->
            expect' = [expect EXCEPT !.quiet = @ + 1] /\ UNCHANGED due
       [] OTHER -> expect' = Nothing /\ UNCHANGED due

(* One tick of the task: j1939_dl_periodic takes a frame, if there is one, *)
(* j1939_tl_process puts it over the one before, j1939_tl_periodic and     *)
(* j1939_al_periodic follow.                                               *)
j1939_stk_periodic ==
  /\ machine.status # "INIT_REASSEMBLE_STRUCTURE"
  /\ UNCHANGED <<source, odd, whole>>
  /\ IF dl_rx_list = <<>>
     THEN j1939_tl_periodic(pdu) /\ Expected(NoPdu) /\ UNCHANGED dl_rx_list
     ELSE /\ j1939_tl_periodic(Head(dl_rx_list)) /\ Expected(Head(dl_rx_list))
          /\ dl_rx_list' = Tail(dl_rx_list)

TpNext == (\E s \in Sources : Announces(s) \/ SendsData(s)) \/ j1939_stk_periodic

TpSpec == TpInit /\ [][TpNext]_tpVars
-----------------------------------------------------------------------------
(* A message handed on is made of its announced number of packets, in      *)
(* order and all from the node that announced it; when all its frames were *)
(* received they are all its own.  (A node that gives a message up before  *)
(* its first packet, or of which enough frames are missed, can have the    *)
(* next one's packets under the first one's name.)  Its byte count is the  *)
(* announced one unless that is one below the size of the buffer, where    *)
(* the last packet's padding is written over it (j1939_tl.c:273).          *)
NothingMixed ==
  \A d \in got :
    /\ DOMAIN d.data = 1..Packets(d.msg)
    /\ \A i \in DOMAIN d.data :
         /\ d.data[i].seq = i /\ d.data[i].msg.src = d.msg.src
         /\ d.msg \in whole => d.data[i].msg = d.msg
    /\ d.msg.len # RxBuffers - 1 => d.kept

(* A message announced while no session is open arrives if its frames      *)
(* come, whatever other sources send between them and however the ticks    *)
(* fall.                                                                   *)
NothingMissed == due \subseteq {d.msg : d \in got}

(* An overdue session does not outlive the next announcement: with the     *)
(* limit behind it, only data frames can have been last.  (While no        *)
(* announcement comes it stays open for ever: after the first packet the   *)
(* place for a frame holds data and the timer is not looked at.)           *)
StaleSessionYields ==
  machine.status = "WAIT_FOR_DATA" /\ machine.timer > TpLimit => pdu.kind = "DT"
=============================================================================

-------------------------- MODULE AtCommandsProofs --------------------------
(***************************************************************************)
(* Proofs about AtCommands, for every number of places, buffers, commands, *)
(* resets and other tasks, all timeouts and all retry counts:              *)
(*   - no buffer leaks and none is given twice while the layer is not      *)
(*     torn, whatever other tasks do to it.  Inductive with it is that a   *)
(*     command that is current is one that is sent (AtTyped);              *)
(*   - a client is answered within its timeouts and retries: what a        *)
(*     command has left, waiting or current, is within its deadline        *)
(*     (WithinTime);                                                       *)
(*   - and it is told once: a command is in one place only until then      *)
(*     (Untold).                                                           *)
(***************************************************************************)
EXTENDS AtCommands, TLAPS

Kinds == {"order", "query", "quiet", "none"}
Levels == {"high", "mid", "low", "direct"}

Queued == [id : Nat \ {0}, mem : 1..AtBuffers, kind : Kinds, ticks : Int, org : Int, retry : Int]

Current == [id : Nat, state : SUBSET Request, bak : SUBSET Request, mem : 0..AtBuffers,
            pri : Levels, kind : Kinds, ticks : Int, retry : Int, known : BOOLEAN]

Sendable(c) == c.state # {} => "WAITSEND" \in c.bak

(* Where another task is, with its buffer and its place.                   *)
OtherAt ==
  {t \in [pc : {"idle", "found", "marked", "placed", "reinit", "transmit"},
          mem : 0..AtBuffers, place : {0} \cup Places] :
     /\ t.pc \in {"found", "marked", "placed"} => t.mem # 0
     /\ t.pc = "placed" => t.place # 0}

AtTyped == /\ at_queue \in [Places -> {NoCmd} \cup Queued]
           /\ cur \in Current /\ Sendable(cur)
           /\ mem_used \subseteq 1..AtBuffers
           /\ at_made \in Nat /\ torn \in BOOLEAN
           /\ other \in [AtOthers -> OtherAt]

AtInv == AtTyped /\ BufferOwned
-----------------------------------------------------------------------------
LEMMA PlacesAre == Places \subseteq Nat /\ 0 \notin Places
  BY AtAssumption DEF Places

LEMMA QueuedIs ==
  ASSUME NEW e \in Queued
  PROVE  /\ e.id \in Nat \ {0} /\ e.mem \in 1..AtBuffers /\ e.kind \in Kinds
         /\ e.ticks \in Int /\ e.org \in Int /\ e.retry \in Int
         /\ e # NoCmd
<1>1. NoCmd.id = 0
  BY DEF NoCmd
<1> QED
  BY <1>1 DEF Queued

LEMMA NobodyIs == Nobody \in Current /\ Nobody.state = {} /\ Nobody.mem = 0 /\ Sendable(Nobody)
<1>1. 0 \in 0..AtBuffers
  BY AtAssumption
<1> QED
  BY <1>1 DEF Nobody, Current, Levels, Kinds, Sendable

LEMMA PlaceIs ==
  ASSUME AtTyped, NEW p \in Places
  PROVE  /\ at_queue[p] = NoCmd \/ at_queue[p] \in Queued
         /\ at_queue[p].id = 0 <=> at_queue[p] = NoCmd
         /\ at_queue[p].id # 0 <=> at_queue[p] \in Queued
         /\ Memory(p) = IF at_queue[p] = NoCmd THEN 0 ELSE at_queue[p].mem
<1>1. at_queue[p] = NoCmd \/ at_queue[p] \in Queued
  BY DEF AtTyped
<1>2. NoCmd.id = 0
  BY DEF NoCmd
<1>3. at_queue[p] \in Queued => at_queue[p].id # 0
  BY QueuedIs
<1>4. p # 0
  BY PlacesAre
<1> QED
  BY <1>1, <1>2, <1>3, <1>4 DEF Memory

LEMMA OwnedIs ==
  Owned <=> /\ \A h \in Holders : Memory(h) # 0 => Memory(h) \in mem_used
            /\ \A b \in mem_used : \/ b \in OtherBuffers(AtOthers)
                                  \/ \E h \in Holders : Memory(h) = b
            /\ \A g, h \in Holders : g # h /\ Memory(g) = Memory(h) => Memory(g) = 0
  BY DEF Owned, Held

LEMMA OwnedThen ==
  ASSUME \A h \in Holders : Memory(h)' # 0 => Memory(h)' \in mem_used',
         \A b \in mem_used' : \/ b \in OtherBuffers(AtOthers)'
                              \/ \E h \in Holders : Memory(h)' = b,
         \A g, h \in Holders : g # h /\ Memory(g)' = Memory(h)' => Memory(g)' = 0
  PROVE  Owned'
  BY DEF Owned, Held

(* What the 4G task and the interrupt do to the layer.                      *)
LEMMA KeepsOwned ==
  ASSUME AtInv, AtTyped', cur'.state = {} => cur'.mem = 0, UNCHANGED <<other, torn>>,
         Owned => Owned'
  PROVE  AtInv'
  BY DEF AtInv, BufferOwned, Resetting

LEMMA SameOthers == UNCHANGED other => OtherBuffers(AtOthers)' = OtherBuffers(AtOthers)
  BY DEF OtherBuffers

LEMMA SameMemory ==
  ASSUME UNCHANGED <<at_queue, mem_used>>, cur'.mem = cur.mem,
         OtherBuffers(AtOthers) \subseteq OtherBuffers(AtOthers)', Owned
  PROVE  Owned'
<1>1. \A h \in Holders : Memory(h)' = Memory(h)
  BY DEF Memory
<1> QED
  BY <1>1, OwnedIs, OwnedThen

LEMMA AtInitHolds == AtInit => AtInv
<1> SUFFICES ASSUME AtInit PROVE AtInv
  OBVIOUS
<1>1. AtTyped
  <2>1. Elsewhere \in OtherAt
    BY AtAssumption DEF Elsewhere, OtherAt
  <2> QED
    BY <2>1, NobodyIs DEF AtInit, AtTyped
<1>2. \A h \in Holders : Memory(h) = 0
  BY <1>1, PlaceIs, NobodyIs DEF AtInit, Memory, Holders
<1>3. BufferOwned
  BY <1>2, NobodyIs, OwnedIs DEF BufferOwned, AtInit
<1> QED
  BY <1>1, <1>3 DEF AtInv

(* A step that leaves the queues alone and either keeps the buffer of the   *)
(* current command with the command or frees both.                          *)
LEMMA CurrentHolds ==
  ASSUME AtInv, UNCHANGED <<at_queue, at_made, other, torn>>, cur' \in Current, Sendable(cur)',
         \/ /\ cur'.mem = cur.mem /\ UNCHANGED mem_used
            /\ cur'.state = {} => cur.state = {}
         \/ Over
  PROVE  AtInv'
<1>1. AtTyped /\ (cur.state = {} => cur.mem = 0)
  BY DEF AtInv, BufferOwned
<1>2. AtTyped'
  BY <1>1 DEF AtTyped, Over
<1>3. \A p \in Places : Memory(p)' = Memory(p)
  BY PlacesAre DEF Memory
<1>4. CASE cur'.mem = cur.mem /\ UNCHANGED mem_used /\ (cur'.state = {} => cur.state = {})
  BY <1>1, <1>2, <1>4, KeepsOwned, SameMemory, SameOthers
<1>5. CASE Over
  <2>1. Memory(0) = cur.mem /\ Memory(0)' = 0 /\ cur'.state = {} /\ cur'.mem = 0
        /\ mem_used' = mem_used \ {cur.mem}
    BY <1>5, NobodyIs DEF Memory, Over
  <2>2. ASSUME Owned PROVE Owned'
    <3>1. /\ \A h \in Holders : Memory(h) # 0 => Memory(h) \in mem_used
          /\ \A b \in mem_used : b \in OtherBuffers(AtOthers) \/ \E h \in Holders : Memory(h) = b
          /\ \A g, h \in Holders : g # h /\ Memory(g) = Memory(h) => Memory(g) = 0
      BY <2>2, OwnedIs
    <3>2. \A h \in Holders : h = 0 \/ (h # 0 /\ h \in Places /\ Memory(h)' = Memory(h))
      BY <1>3, PlacesAre DEF Holders
    <3>3. 0 \in Holders
      BY DEF Holders
    <3>4. ASSUME NEW h \in Holders, Memory(h)' # 0 PROVE Memory(h)' \in mem_used'
      BY <2>1, <3>1, <3>2, <3>3, <3>4
    <3>5. ASSUME NEW b \in mem_used'
          PROVE  b \in OtherBuffers(AtOthers)' \/ \E h \in Holders : Memory(h)' = b
      BY <2>1, <3>1, <3>2, <3>5, SameOthers
    <3>6. ASSUME NEW g \in Holders, NEW h \in Holders, g # h, Memory(g)' = Memory(h)'
          PROVE  Memory(g)' = 0
      BY <2>1, <3>1, <3>2, <3>6
    <3> QED
      BY <3>4, <3>5, <3>6, OwnedThen
  <2> QED
    BY <1>2, <2>1, <2>2, KeepsOwned
<1> QED
  BY <1>4, <1>5
-----------------------------------------------------------------------------
LEMMA CurrentIs ==
  ASSUME NEW c \in Current
  PROVE  /\ c.id \in Nat /\ c.state \subseteq Request /\ c.bak \subseteq Request
         /\ c.mem \in 0..AtBuffers /\ c.pri \in Levels /\ c.kind \in Kinds
         /\ c.ticks \in Int /\ c.retry \in Int
         /\ \A S \in SUBSET Request : /\ [c EXCEPT !.state = S] \in Current
                                      /\ [c EXCEPT !.state = S].state = S
                                      /\ [c EXCEPT !.state = S].bak = c.bak
                                      /\ [c EXCEPT !.state = S].mem = c.mem
  BY DEF Current

LEMMA SentOff ==
  ASSUME NEW n \in Current, "WAITSEND" \in n.state, "WAITSEND" \in n.bak, dev_4g_check_send(n)
  PROVE  cur' \in Current /\ cur'.state # {} /\ Sendable(cur)' /\ cur'.mem = n.mem
<1>1. n.state \subseteq Request /\ "WAITSEND" \in n.state \ {"REQ"}
  BY CurrentIs
<1>2. cur' = n \/ cur' = [n EXCEPT !.state = n.state \ {"REQ"}]
  BY DEF dev_4g_check_send
<1>3. CASE cur' = n
  BY <1>1, <1>3 DEF Sendable
<1>4. CASE cur' = [n EXCEPT !.state = n.state \ {"REQ"}]
  <2>1. n.state \ {"REQ"} \in SUBSET Request
    BY <1>1
  <2>2. cur' \in Current /\ cur'.state = n.state \ {"REQ"} /\ cur'.bak = n.bak /\ cur'.mem = n.mem
    BY <1>4, <2>1, CurrentIs
  <2> QED
    BY <1>1, <2>2 DEF Sendable
<1> QED
  BY <1>2, <1>3, <1>4

LEMMA UartHolds == ASSUME AtInv, UartDone PROVE AtInv'
<1> DEFINE rest == cur.state \ {"WAITSEND"}
<1>1. cur \in Current /\ Sendable(cur) /\ UNCHANGED <<at_queue, at_made, other, torn>>
  BY DEF AtInv, AtTyped, UartDone, at_elsewhere
<1>2. CASE "WAITSEND" \in cur.state /\ rest = {} /\ Over
  BY <1>1, <1>2, CurrentHolds, NobodyIs DEF Over
<1>3. CASE ~("WAITSEND" \in cur.state /\ rest = {}) /\ cur' = [cur EXCEPT !.state = rest]
           /\ UNCHANGED mem_used
  <2>1. rest \in SUBSET Request
    BY <1>1, CurrentIs
  <2>2. cur' \in Current /\ cur'.state = rest /\ cur'.bak = cur.bak /\ cur'.mem = cur.mem
    BY <1>1, <1>3, <2>1, CurrentIs
  <2>3. rest = {} => cur.state = {}
    BY <1>3
  <2>4. Sendable(cur)'
    BY <1>1, <2>2 DEF Sendable
  <2> QED
    BY <1>1, <1>3, <2>2, <2>3, <2>4, CurrentHolds
<1> QED
  BY <1>2, <1>3 DEF UartDone

LEMMA RecvHolds == ASSUME AtInv, at_4g_transmit_check_recv PROVE AtInv'
<1>1. cur \in Current /\ Sendable(cur) /\ UNCHANGED <<at_queue, at_made, other, torn>>
  BY DEF AtInv, AtTyped, at_4g_transmit_check_recv, at_elsewhere
<1>2. CASE UNCHANGED <<cur, mem_used>>
  BY <1>1, <1>2, CurrentHolds DEF Sendable
<1>3. ASSUME NEW race \in BOOLEAN, cur.state # {}, AnswerTaken(race) PROVE AtInv'
  <2>1. CASE Over
    BY <1>1, <2>1, CurrentHolds, NobodyIs DEF Over
  <2>2. CASE /\ cur.state # {"WAITRESP"} /\ cur' = [cur EXCEPT !.state = cur.state \ {"WAITRESP"}]
             /\ UNCHANGED mem_used
    <3>1. cur.state \ {"WAITRESP"} \in SUBSET Request /\ cur.state \ {"WAITRESP"} # {}
      BY <1>1, <1>3, <2>2, CurrentIs
    <3>2. cur' \in Current /\ cur'.state # {} /\ cur'.bak = cur.bak /\ cur'.mem = cur.mem
      BY <1>1, <2>2, <3>1, CurrentIs
    <3> QED
      BY <1>1, <1>3, <2>2, <3>2, CurrentHolds DEF Sendable
  <2> QED
    BY <1>3, <2>1, <2>2 DEF AnswerTaken
<1>4. CASE cur' = [cur EXCEPT !.known = FALSE] /\ UNCHANGED mem_used
  <2>1. cur' \in Current /\ cur'.state = cur.state /\ cur'.bak = cur.bak /\ cur'.mem = cur.mem
    BY <1>1, <1>4 DEF Current
  <2> QED
    BY <1>1, <1>4, <2>1, CurrentHolds DEF Sendable
<1> QED
  BY <1>2, <1>3, <1>4 DEF at_4g_transmit_check_recv

LEMMA TimeoutHolds == ASSUME AtInv, at_4g_transmit_check_timeout PROVE AtInv'
<1>1. cur \in Current /\ Sendable(cur) /\ UNCHANGED <<at_queue, at_made, other, torn>>
  BY DEF AtInv, AtTyped, at_4g_transmit_check_timeout, at_elsewhere
<1>2. CASE UNCHANGED <<cur, mem_used>>
  BY <1>1, <1>2, CurrentHolds DEF Sendable
<1>3. CASE Over
  BY <1>1, <1>3, CurrentHolds, NobodyIs DEF Over
<1>4. CASE cur.state # {} /\ UNCHANGED mem_used
           /\ dev_4g_check_send([cur EXCEPT !.state = cur.bak, !.retry = cur.retry - 1])
  <2> DEFINE n == [cur EXCEPT !.state = cur.bak, !.retry = cur.retry - 1]
  <2>1. n \in Current /\ n.state = cur.bak /\ n.bak = cur.bak /\ n.mem = cur.mem
    <3>1. cur.retry - 1 \in Int
      BY <1>1 DEF Current
    <3> QED
      BY <1>1, <3>1 DEF Current
  <2>2. "WAITSEND" \in cur.bak
    BY <1>1, <1>4 DEF Sendable
  <2>3. cur' \in Current /\ cur'.state # {} /\ Sendable(cur)' /\ cur'.mem = cur.mem
    BY <1>4, <2>1, <2>2, SentOff
  <2> QED
    BY <1>1, <1>4, <2>3, CurrentHolds
<1> QED
  BY <1>2, <1>3, <1>4 DEF at_4g_transmit_check_timeout

LEMMA DirectHolds ==
  ASSUME AtInv, NEW ticks \in AtTicks, at_4g_transmit_direct(ticks)
  PROVE  AtInv'
<1> DEFINE n == [id |-> at_made + 1, state |-> Sending, bak |-> Sending, mem |-> 0,
                 pri |-> "direct", kind |-> "query", ticks |-> ticks, retry |-> 0,
                 known |-> TRUE]
<1>1. AtTyped /\ cur.mem = 0 /\ at_made \in Nat
  BY DEF AtInv, AtTyped, BufferOwned, at_4g_transmit_direct
<1>2. cur' = n /\ UNCHANGED <<at_queue, mem_used, other, torn>> /\ at_made' = at_made + 1
  BY DEF at_4g_transmit_direct, at_elsewhere, Expects
<1>3. ticks \in Int /\ Sending \subseteq Request /\ "WAITSEND" \in Sending
      /\ at_made + 1 \in Nat /\ 0 \in 0..AtBuffers /\ 0 \in Int
  BY <1>1, AtAssumption DEF Request, Sending
<1>4. n \in Current /\ n.state = Sending /\ n.bak = Sending /\ n.mem = 0
  BY <1>3 DEF Current, Levels, Kinds
<1>5. AtTyped'
  BY <1>1, <1>2, <1>3, <1>4 DEF AtTyped, Sendable
<1>6. cur'.mem = cur.mem
  BY <1>1, <1>2, <1>4
<1>7. Owned => Owned'
  BY <1>2, <1>6, SameMemory, SameOthers
<1> QED
  BY <1>1, <1>2, <1>5, <1>6, <1>7, KeepsOwned

(* A reset that nothing comes between leaves no buffer used; that of        *)
(* another task leaves those of tasks that are about to put a command.      *)
LEMMA EmptyOwned ==
  ASSUME at_queue' = [p \in Places |-> NoCmd], cur'.mem = 0,
         mem_used' \subseteq OtherBuffers(AtOthers)'
  PROVE  Owned'
<1>1. NoCmd.id = 0
  BY DEF NoCmd
<1>2. \A h \in Holders : Memory(h)' = 0
  BY <1>1, PlacesAre DEF Memory, Holders
<1> QED
  BY <1>2, OwnedThen

LEMMA ResetHolds == ASSUME AtInv, mgr_4g_reset PROVE AtInv'
<1>1. AtTyped'
  BY NobodyIs DEF AtInv, AtTyped, mgr_4g_reset
<1>2. at_queue' = [p \in Places |-> NoCmd] /\ cur'.mem = 0 /\ mem_used' = {}
  BY NobodyIs DEF mgr_4g_reset
<1>3. BufferOwned'
  BY <1>2, EmptyOwned DEF BufferOwned
<1> QED
  BY <1>1, <1>3 DEF AtInv
-----------------------------------------------------------------------------
LEMMA WaitedIs ==
  ASSUME NEW e \in Queued
  PROVE  Waited(e) = NoCmd \/ (Waited(e) \in Queued /\ Waited(e).mem = e.mem)
<1>1. e.ticks - 1 \in Int /\ e.retry - 1 \in Int
  BY DEF Queued
<1> QED
  BY <1>1 DEF Waited, Queued

(* The commands whose time in the queue is over take their buffers along.   *)
LEMMA MonitorHolds == ASSUME AtInv, at_4g_transmit_monitor_queue PROVE AtInv'
<1> DEFINE queued == {p \in Places : at_queue[p].id # 0}
           rest == [p \in Places |-> IF p \in queued THEN Waited(at_queue[p]) ELSE NoCmd]
           gone == {p \in queued : rest[p] = NoCmd}
           freed == {at_queue[p].mem : p \in gone}
<1>1. AtTyped /\ (cur.state = {} => cur.mem = 0)
  BY DEF AtInv, BufferOwned
<1>2. at_queue' = rest /\ mem_used' = mem_used \ freed /\ UNCHANGED <<cur, at_made, other, torn>>
  BY DEF at_4g_transmit_monitor_queue, at_elsewhere
<1>3. \A p \in Places :
        /\ p \in gone => rest[p] = NoCmd /\ Memory(p) = at_queue[p].mem
        /\ p \in queued \ gone => rest[p] \in Queued /\ rest[p].mem = at_queue[p].mem
                                  /\ Memory(p) = at_queue[p].mem
        /\ p \notin queued => rest[p] = NoCmd /\ Memory(p) = 0
  BY <1>1, PlaceIs, WaitedIs
<1>4. AtTyped'
  <2>1. rest \in [Places -> {NoCmd} \cup Queued]
    BY <1>3
  <2> QED
    BY <1>1, <1>2, <2>1 DEF AtTyped, Sendable
<1>5. \A p \in Places : Memory(p)' = IF p \in gone THEN 0 ELSE Memory(p)
  <2>1. SUFFICES ASSUME NEW p \in Places PROVE Memory(p)' = IF p \in gone THEN 0 ELSE Memory(p)
    OBVIOUS
  <2>2. p # 0 /\ at_queue'[p] = rest[p] /\ NoCmd.id = 0
    BY <1>2, PlacesAre DEF NoCmd
  <2>3. rest[p] \in Queued => rest[p].id # 0
    BY QueuedIs
  <2> QED
    BY <1>3, <2>2, <2>3 DEF Memory
<1>6. Memory(0)' = Memory(0) /\ Memory(0) = cur.mem
  BY <1>2 DEF Memory
<1>7. \A p \in gone : p \in Places /\ p \in Holders /\ Memory(p) # 0 /\ Memory(p) \in freed
  BY <1>1, <1>3, PlaceIs, QueuedIs DEF Holders
<1>8. \A h \in Holders : /\ h \in gone => Memory(h)' = 0
                         /\ h \notin gone => Memory(h)' = Memory(h)
  BY <1>5, <1>6 DEF Holders
<1>9. ASSUME Owned PROVE Owned'
  <2>1. /\ \A h \in Holders : Memory(h) # 0 => Memory(h) \in mem_used
        /\ \A b \in mem_used : b \in OtherBuffers(AtOthers) \/ \E h \in Holders : Memory(h) = b
        /\ \A g, h \in Holders : g # h /\ Memory(g) = Memory(h) => Memory(g) = 0
    BY <1>9, OwnedIs
  <2>2. ASSUME NEW h \in Holders, Memory(h) \in freed PROVE h \in gone
    <3>1. PICK p \in gone : Memory(h) = at_queue[p].mem
      BY <2>2
    <3>2. Memory(p) = Memory(h) /\ Memory(p) # 0 /\ p \in Holders
      BY <1>3, <1>7, <3>1
    <3> QED
      BY <2>1, <3>1, <3>2
  <2> HIDE DEF gone, freed
  <2>3. ASSUME NEW h \in Holders, Memory(h)' # 0 PROVE Memory(h)' \in mem_used'
    BY <1>2, <1>8, <2>1, <2>2, <2>3
  <2>4. ASSUME NEW b \in mem_used'
        PROVE  b \in OtherBuffers(AtOthers)' \/ \E h \in Holders : Memory(h)' = b
    <3>1. b \in mem_used /\ b \notin freed
      BY <1>2, <2>4
    <3>2. CASE b \in OtherBuffers(AtOthers)
      BY <1>2, <3>2, SameOthers
    <3>3. ASSUME NEW h \in Holders, Memory(h) = b PROVE Memory(h)' = b
      BY <1>7, <1>8, <3>1, <3>3
    <3> QED
      BY <2>1, <3>1, <3>2, <3>3
  <2>5. ASSUME NEW g \in Holders, NEW h \in Holders, g # h, Memory(g)' = Memory(h)'
        PROVE  Memory(g)' = 0
    BY <1>8, <2>1, <2>5
  <2> QED
    BY <2>3, <2>4, <2>5, OwnedThen
<1>10. cur'.state = {} => cur'.mem = 0
  BY <1>1, <1>2
<1> QED
  BY <1>2, <1>4, <1>9, <1>10, KeepsOwned

(* A command gets a place and a buffer that nobody holds.                   *)
LEMMA CommandIs ==
  ASSUME NEW cmd \in AtCommandSet
  PROVE  /\ cmd.kind \in Kinds /\ cmd.ticks \in Nat /\ cmd.ticks > 0 /\ cmd.retry \in Nat
<1>1. cmd \in [pri : {"high", "mid", "low"}, kind : {"order", "query", "quiet"},
               ticks : Nat \ {0}, retry : Nat]
  BY AtAssumption
<1> QED
  BY <1>1 DEF Kinds

(* The place of a new command, and the others.                              *)
LEMMA PutIs ==
  ASSUME AtTyped, NEW p \in Places, NEW c \in Nat \ {0}, NEW b \in 1..AtBuffers,
         NEW cmd \in AtCommandSet, Put(p, c, b, cmd)
  PROVE  /\ at_queue' \in [Places -> {NoCmd} \cup Queued]
         /\ at_queue'[p] \in Queued /\ at_queue'[p].id = c /\ at_queue'[p].mem = b
         /\ at_queue'[p].ticks = cmd.ticks /\ at_queue'[p].org = cmd.ticks
         /\ at_queue'[p].retry = cmd.retry
         /\ \A q \in Places : q # p => at_queue'[q] = at_queue[q]
         /\ Memory(p)' = b
         /\ \A h \in Holders : h # p /\ cur' = cur => Memory(h)' = Memory(h)
<1> DEFINE e == [id |-> c, mem |-> b, kind |-> cmd.kind, ticks |-> cmd.ticks,
                 org |-> cmd.ticks, retry |-> cmd.retry]
<1>1. at_queue' = [at_queue EXCEPT ![p] = e] /\ at_queue \in [Places -> {NoCmd} \cup Queued]
  BY DEF Put, AtTyped
<1>2. /\ e \in Queued /\ e.id = c /\ e.mem = b /\ e.ticks = cmd.ticks /\ e.org = cmd.ticks
      /\ e.retry = cmd.retry
  BY CommandIs DEF Queued
<1> HIDE DEF e
<1>3. /\ at_queue' \in [Places -> {NoCmd} \cup Queued] /\ at_queue'[p] = e
      /\ \A q \in Places : q # p => at_queue'[q] = at_queue[q]
  BY <1>1, <1>2
<1>4. Memory(p)' = b
  BY <1>2, <1>3, PlacesAre DEF Memory
<1>5. \A h \in Holders : h # p /\ cur' = cur => Memory(h)' = Memory(h)
  BY <1>3 DEF Memory, Holders
<1> QED
  BY <1>2, <1>3, <1>4, <1>5

LEMMA PutOwned ==
  ASSUME AtTyped, NEW p \in Places, NEW c \in Nat \ {0}, NEW b \in 1..AtBuffers,
         NEW cmd \in AtCommandSet, Put(p, c, b, cmd), UNCHANGED cur, at_queue[p] = NoCmd,
         Owned, b \notin Held, mem_used' = mem_used \cup {b},
         \A x \in OtherBuffers(AtOthers) : x = b \/ x \in OtherBuffers(AtOthers)'
  PROVE  Owned'
<1>1. Memory(p) = 0 /\ p \in Holders /\ b # 0
  BY PlaceIs DEF Holders
<1>2. Memory(p)' = b /\ \A h \in Holders : h # p => Memory(h)' = Memory(h)
  BY PutIs
<1>3. /\ \A h \in Holders : Memory(h) # 0 => Memory(h) \in mem_used
      /\ \A x \in mem_used : x \in OtherBuffers(AtOthers) \/ \E h \in Holders : Memory(h) = x
      /\ \A g, h \in Holders : g # h /\ Memory(g) = Memory(h) => Memory(g) = 0
      /\ \A h \in Holders : Memory(h) # b
  BY OwnedIs DEF Held
<1>4. ASSUME NEW h \in Holders, Memory(h)' # 0 PROVE Memory(h)' \in mem_used'
  BY <1>2, <1>3, <1>4
<1>5. ASSUME NEW x \in mem_used'
      PROVE  x \in OtherBuffers(AtOthers)' \/ \E h \in Holders : Memory(h)' = x
  <2>1. CASE x = b
    BY <1>1, <1>2, <2>1
  <2>2. CASE x # b /\ x \in mem_used /\ x \in OtherBuffers(AtOthers)
    BY <2>2
  <2>3. ASSUME x \in mem_used, NEW h \in Holders, Memory(h) = x PROVE Memory(h)' = x
    BY <1>1, <1>2, <1>5, <2>3 DEF AtTyped
  <2> QED
    BY <1>3, <1>5, <2>1, <2>2, <2>3
<1>6. ASSUME NEW g \in Holders, NEW h \in Holders, g # h, Memory(g)' = Memory(h)'
      PROVE  Memory(g)' = 0
  BY <1>2, <1>3, <1>6
<1> QED
  BY <1>4, <1>5, <1>6, OwnedThen

LEMMA PutHolds ==
  ASSUME AtInv, NEW cmd \in AtCommandSet, at_4g_transmit_putcmd(cmd)
  PROVE  AtInv'
<1>1. /\ AtTyped /\ (cur.state = {} => cur.mem = 0) /\ UNCHANGED <<cur, other, torn>>
      /\ at_made' = at_made + 1 /\ at_made + 1 \in Nat \ {0}
  BY DEF AtInv, BufferOwned, AtTyped, at_4g_transmit_putcmd, at_elsewhere, Expects
<1>2. PICK p \in Places, b \in (1..AtBuffers) \ mem_used :
        /\ at_queue[p] = NoCmd
        /\ Put(p, at_made + 1, b, cmd)
        /\ mem_used' = mem_used \cup {b}
  BY DEF at_4g_transmit_putcmd, First, FreePlaces, FreeBuffers
<1>3. at_queue' \in [Places -> {NoCmd} \cup Queued]
  BY <1>1, <1>2, PutIs
<1>4. AtTyped'
  BY <1>1, <1>2, <1>3 DEF AtTyped, Sendable
<1>5. ASSUME Owned PROVE Owned'
  <2>1. b \notin Held
    BY <1>2, <1>5 DEF Owned
  <2>2. OtherBuffers(AtOthers)' = OtherBuffers(AtOthers)
    BY <1>1, SameOthers
  <2> QED
    BY <1>1, <1>2, <1>5, <2>1, <2>2, PutOwned
<1> QED
  BY <1>1, <1>4, <1>5, KeepsOwned

(* A command leaves its place and takes its buffer along.                   *)
LEMMA SendHolds == ASSUME AtInv, at_4g_transmit_check_send PROVE AtInv'
<1>1. /\ AtTyped /\ (cur.state = {} => cur.mem = 0)
      /\ UNCHANGED <<mem_used, at_made, other, torn>>
  BY DEF AtInv, BufferOwned, at_4g_transmit_check_send, at_told
<1>2. CASE UNCHANGED <<at_queue, cur>>
  <2>1. AtTyped'
    BY <1>1, <1>2 DEF AtTyped, Sendable
  <2> QED
    BY <1>1, <1>2, <2>1, SameMemory, SameOthers, KeepsOwned
<1>3. ASSUME NEW p \in Places, at_queue[p].id # 0, cur.state = {},
             dev_4g_check_send(Sent(at_queue[p], AtPri[p])),
             at_queue' = [at_queue EXCEPT ![p] = NoCmd]
      PROVE  AtInv'
  <2> DEFINE e == at_queue[p]
             n == Sent(e, AtPri[p])
  <2>1. e \in Queued /\ Memory(p) = e.mem /\ p # 0 /\ p \in Holders /\ 0 \in Holders
    BY <1>1, <1>3, PlaceIs, PlacesAre DEF Holders
  <2>2. AtPri[p] \in Levels
    BY AtAssumption DEF Places, Levels
  <2>3. /\ e.id \in Nat /\ e.mem \in 0..AtBuffers /\ e.kind \in Kinds
        /\ e.ticks \in Int /\ e.retry \in Int
    BY <2>1, QueuedIs
  <2>4. n \in Current /\ "WAITSEND" \in n.state /\ "WAITSEND" \in n.bak /\ n.mem = e.mem
    BY <2>2, <2>3 DEF Sent, Current, Request, Sending
  <2>5. cur' \in Current /\ cur'.state # {} /\ Sendable(cur)' /\ cur'.mem = e.mem
    BY <1>3, <2>4, SentOff
  <2>6. AtTyped'
    BY <1>1, <1>3, <2>5 DEF AtTyped
  <2>7. Memory(0) = 0 /\ Memory(0)' = e.mem
    BY <1>1, <1>3, <2>5 DEF Memory
  <2>8. Memory(p)' = 0
    BY <1>1, <1>3, <2>1 DEF Memory, AtTyped, NoCmd
  <2>9. \A h \in Holders : h # p /\ h # 0 => Memory(h)' = Memory(h)
    BY <1>1, <1>3 DEF Memory, Holders, AtTyped
  <2>10. ASSUME Owned PROVE Owned'
    <3>1. /\ \A h \in Holders : Memory(h) # 0 => Memory(h) \in mem_used
          /\ \A b \in mem_used : b \in OtherBuffers(AtOthers) \/ \E h \in Holders : Memory(h) = b
          /\ \A g, h \in Holders : g # h /\ Memory(g) = Memory(h) => Memory(g) = 0
      BY <2>10, OwnedIs
    <3>2. e.mem # 0
      BY <2>1, QueuedIs
    <3> HIDE DEF e
    <3>3. ASSUME NEW h \in Holders, Memory(h)' # 0 PROVE Memory(h)' \in mem_used'
      BY <1>1, <2>1, <2>7, <2>8, <2>9, <3>1, <3>2, <3>3
    <3>4. ASSUME NEW b \in mem_used'
          PROVE  b \in OtherBuffers(AtOthers)' \/ \E h \in Holders : Memory(h)' = b
      <4>1. CASE b \in OtherBuffers(AtOthers)
        BY <1>1, <4>1, SameOthers
      <4>2. ASSUME NEW h \in Holders, Memory(h) = b
            PROVE  \E g \in Holders : Memory(g)' = b
        <5>1. CASE h = p
          BY <2>1, <2>7, <4>2, <5>1
        <5>2. CASE h = 0
          BY <1>1, <2>7, <3>4, <4>2, <5>2 DEF AtTyped
        <5>3. CASE h # p /\ h # 0
          BY <2>9, <4>2, <5>3
        <5> QED
          BY <5>1, <5>2, <5>3
      <4> QED
        BY <1>1, <3>1, <3>4, <4>1, <4>2
    <3>5. ASSUME NEW g \in Holders, NEW h \in Holders, g # h, Memory(g)' = Memory(h)'
          PROVE  Memory(g)' = 0
      BY <2>1, <2>7, <2>8, <2>9, <3>1, <3>5
    <3> QED
      BY <3>3, <3>4, <3>5, OwnedThen
  <2> QED
    BY <1>1, <2>5, <2>6, <2>10, KeepsOwned
<1> QED
  BY <1>2, <1>3 DEF at_4g_transmit_check_send, First
-----------------------------------------------------------------------------
(* The steps of another task o.                                             *)
LEMMA GoesIs ==
  ASSUME AtTyped, NEW o \in AtOthers, NEW pc, NEW b, NEW p, Goes(o, pc, b, p),
         pc \in {"idle", "found", "marked", "placed", "reinit", "transmit"},
         b \in 0..AtBuffers, p \in {0} \cup Places,
         pc \in {"found", "marked", "placed"} => b # 0, pc = "placed" => p # 0
  PROVE  /\ other' \in [AtOthers -> OtherAt]
         /\ other'[o].pc = pc /\ other'[o].mem = b /\ other'[o].place = p
         /\ \A q \in AtOthers : q # o => other'[q] = other[q]
<1> DEFINE t == [pc |-> pc, mem |-> b, place |-> p]
<1>1. t \in OtherAt /\ t.pc = pc /\ t.mem = b /\ t.place = p
  BY DEF OtherAt
<1>2. other' = [other EXCEPT ![o] = t] /\ other \in [AtOthers -> OtherAt]
  BY DEF Goes, AtTyped
<1> HIDE DEF t
<1> QED
  BY <1>1, <1>2

LEMMA ElsewhereIs ==
  ASSUME AtTyped, NEW o \in AtOthers
  PROVE  /\ other[o].mem \in 0..AtBuffers /\ other[o].place \in {0} \cup Places
         /\ other[o].pc \in {"found", "marked", "placed"} => other[o].mem \in 1..AtBuffers
         /\ other[o].pc = "placed" => other[o].place \in Places
<1>1. other[o] \in OtherAt
  BY DEF AtTyped
<1> QED
  BY <1>1 DEF OtherAt

LEMMA OtherBuffersAre ==
  /\ \A b : b \in OtherBuffers(AtOthers) <=>
        \E q \in AtOthers : other[q].pc \in {"marked", "placed"} /\ other[q].mem = b
  /\ \A b : b \in OtherBuffers(AtOthers)' <=>
        \E q \in AtOthers : other'[q].pc \in {"marked", "placed"} /\ other'[q].mem = b
  BY DEF OtherBuffers

LEMMA OtherHolds ==
  ASSUME AtInv, AtTyped', NEW o \in AtOthers, other[o].pc \notin {"reinit", "transmit"},
         \A q \in AtOthers : q # o => other'[q] = other[q],
         UNCHANGED cur, torn => torn', Owned /\ ~torn' => Owned'
  PROVE  AtInv'
<1>1. Resetting => Resetting'
  BY DEF Resetting
<1> QED
  BY <1>1 DEF AtInv, BufferOwned

LEMMA OtherFindsHolds == ASSUME AtInv, NEW o \in AtOthers, OtherFinds(o) PROVE AtInv'
<1>1. /\ AtTyped /\ other[o].pc = "idle"
      /\ UNCHANGED <<at_queue, cur, mem_used, at_made, torn>>
  BY DEF AtInv, OtherFinds, at_told, at_4g
<1>2. PICK b \in 1..AtBuffers : Goes(o, "found", b, 0)
  BY DEF OtherFinds, First, FreeBuffers
<1>3. /\ other' \in [AtOthers -> OtherAt]
      /\ \A q \in AtOthers : q # o => other'[q] = other[q]
  BY <1>1, <1>2, GoesIs
<1>4. AtTyped'
  BY <1>1, <1>3 DEF AtTyped, Sendable
<1>5. OtherBuffers(AtOthers) \subseteq OtherBuffers(AtOthers)'
  BY <1>1, <1>3, OtherBuffersAre
<1>6. Owned => Owned'
  BY <1>1, <1>5, SameMemory
<1> QED
  BY <1>1, <1>3, <1>4, <1>6, OtherHolds

LEMMA OtherMarksHolds == ASSUME AtInv, NEW o \in AtOthers, OtherMarks(o) PROVE AtInv'
<1> DEFINE b == other[o].mem
<1>1. /\ AtTyped /\ other[o].pc = "found" /\ mem_used' = mem_used \cup {b}
      /\ Goes(o, "marked", b, 0) /\ torn' = (torn \/ b \in mem_used)
      /\ UNCHANGED <<at_queue, cur, at_made>>
  BY DEF AtInv, OtherMarks, Torn, at_4g
<1>2. b \in 1..AtBuffers
  BY <1>1, ElsewhereIs
<1>3. /\ other' \in [AtOthers -> OtherAt] /\ other'[o].pc = "marked" /\ other'[o].mem = b
      /\ \A q \in AtOthers : q # o => other'[q] = other[q]
  BY <1>1, <1>2, GoesIs
<1>4. AtTyped'
  BY <1>1, <1>2, <1>3 DEF AtTyped, Sendable
<1>5. /\ b \in OtherBuffers(AtOthers)'
      /\ OtherBuffers(AtOthers) \subseteq OtherBuffers(AtOthers)'
  BY <1>1, <1>3, OtherBuffersAre
<1>6. \A h \in Holders : Memory(h)' = Memory(h)
  BY <1>1 DEF Memory
<1> HIDE DEF b
<1>7. ASSUME Owned PROVE Owned'
  <2>1. /\ \A h \in Holders : Memory(h) # 0 => Memory(h) \in mem_used
        /\ \A x \in mem_used : x \in OtherBuffers(AtOthers) \/ \E h \in Holders : Memory(h) = x
        /\ \A g, h \in Holders : g # h /\ Memory(g) = Memory(h) => Memory(g) = 0
    BY <1>7, OwnedIs
  <2> QED
    BY <1>1, <1>5, <1>6, <2>1, OwnedThen
<1> QED
  BY <1>1, <1>3, <1>4, <1>7, OtherHolds

LEMMA OtherPlacesHolds ==
  ASSUME AtInv, NEW o \in AtOthers, NEW pri, OtherPlaces(o, pri)
  PROVE  AtInv'
<1> DEFINE b == other[o].mem
<1>1. /\ AtTyped /\ other[o].pc = "marked" /\ UNCHANGED <<at_queue, cur, at_made>>
  BY DEF AtInv, OtherPlaces, at_4g
<1>2. b \in 1..AtBuffers /\ 0 \in 0..AtBuffers
  BY <1>1, ElsewhereIs, AtAssumption
<1>3. CASE /\ mem_used' = mem_used \ {b} /\ Goes(o, "idle", 0, 0)
           /\ torn' = (torn \/ b \in mem_used \cap Held)
  <2>1. /\ other' \in [AtOthers -> OtherAt]
        /\ \A q \in AtOthers : q # o => other'[q] = other[q]
    BY <1>1, <1>2, <1>3, GoesIs
  <2>2. AtTyped'
    BY <1>1, <1>3, <2>1 DEF AtTyped, Sendable
  <2>3. \A x \in OtherBuffers(AtOthers) : x = b \/ x \in OtherBuffers(AtOthers)'
    BY <2>1, OtherBuffersAre
  <2>4. \A h \in Holders : Memory(h)' = Memory(h)
    BY <1>1 DEF Memory
  <2>5. torn => torn'
    BY <1>3
  <2>6. ~torn' => b \notin mem_used \cap Held
    BY <1>3
  <2> HIDE DEF b
  <2>7. ASSUME Owned, ~torn' PROVE Owned'
    <3>1. /\ \A h \in Holders : Memory(h) # 0 => Memory(h) \in mem_used
          /\ \A x \in mem_used : x \in OtherBuffers(AtOthers) \/ \E h \in Holders : Memory(h) = x
          /\ \A g, h \in Holders : g # h /\ Memory(g) = Memory(h) => Memory(g) = 0
      BY <2>7, OwnedIs
    <3>2. \A h \in Holders : Memory(h) # b \/ b \notin mem_used
      BY <2>6, <2>7 DEF Held
    <3>3. ASSUME NEW h \in Holders, Memory(h)' # 0 PROVE Memory(h)' \in mem_used'
      BY <1>3, <2>4, <3>1, <3>2, <3>3
    <3>4. ASSUME NEW x \in mem_used'
          PROVE  x \in OtherBuffers(AtOthers)' \/ \E h \in Holders : Memory(h)' = x
      BY <1>3, <2>3, <2>4, <3>1, <3>4
    <3>5. ASSUME NEW g \in Holders, NEW h \in Holders, g # h, Memory(g)' = Memory(h)'
          PROVE  Memory(g)' = 0
      BY <2>4, <3>1, <3>5
    <3> QED
      BY <3>3, <3>4, <3>5, OwnedThen
  <2> QED
    BY <1>1, <2>1, <2>2, <2>5, <2>7, OtherHolds
<1>4. ASSUME NEW p \in Places, Goes(o, "placed", b, p), UNCHANGED <<mem_used, torn>>
      PROVE  AtInv'
  <2>1. p # 0
    BY PlacesAre
  <2>2. /\ other' \in [AtOthers -> OtherAt] /\ other'[o].pc = "placed" /\ other'[o].mem = b
        /\ \A q \in AtOthers : q # o => other'[q] = other[q]
    BY <1>1, <1>2, <1>4, <2>1, GoesIs
  <2>3. AtTyped'
    BY <1>1, <1>4, <2>2 DEF AtTyped, Sendable
  <2>4. OtherBuffers(AtOthers) \subseteq OtherBuffers(AtOthers)'
    BY <2>2, OtherBuffersAre
  <2>5. Owned => Owned'
    BY <1>1, <1>4, <2>4, SameMemory
  <2> QED
    BY <1>1, <1>4, <2>2, <2>3, <2>5, OtherHolds
<1> QED
  BY <1>3, <1>4 DEF OtherPlaces, Torn, First, FreePlaces

LEMMA OtherPutsHolds ==
  ASSUME AtInv, NEW o \in AtOthers, NEW cmd \in AtCommandSet, OtherPuts(o, cmd)
  PROVE  AtInv'
<1> DEFINE b == other[o].mem
           p == other[o].place
<1>1. /\ AtTyped /\ other[o].pc = "placed" /\ UNCHANGED <<cur, mem_used>>
      /\ Put(p, at_made + 1, b, cmd) /\ at_made' = at_made + 1 /\ Goes(o, "idle", 0, 0)
      /\ torn' = (torn \/ at_queue[p] # NoCmd \/ b \notin mem_used \/ b \in Held)
  BY DEF AtInv, OtherPuts, Torn, at_4g
<1>2. b \in 1..AtBuffers /\ p \in Places /\ 0 \in 0..AtBuffers
  BY <1>1, ElsewhereIs, AtAssumption
<1>3. at_made + 1 \in Nat \ {0}
  BY <1>1 DEF AtTyped
<1>4. /\ other' \in [AtOthers -> OtherAt]
      /\ \A q \in AtOthers : q # o => other'[q] = other[q]
  BY <1>1, <1>2, GoesIs
<1>5. \A x \in OtherBuffers(AtOthers) : x = b \/ x \in OtherBuffers(AtOthers)'
  BY <1>4, OtherBuffersAre
<1> HIDE DEF b, p
<1>6. at_queue' \in [Places -> {NoCmd} \cup Queued]
  BY <1>1, <1>2, <1>3, PutIs
<1>7. AtTyped'
  BY <1>1, <1>3, <1>4, <1>6 DEF AtTyped, Sendable
<1>8. ASSUME Owned, ~torn' PROVE Owned'
  <2>1. at_queue[p] = NoCmd /\ b \notin Held /\ mem_used' = mem_used \cup {b}
    BY <1>1, <1>8
  <2> QED
    BY <1>1, <1>2, <1>3, <1>5, <1>8, <2>1, PutOwned
<1>9. (torn => torn') /\ other[o].pc \notin {"reinit", "transmit"}
  BY <1>1
<1> QED
  BY <1>1, <1>4, <1>7, <1>8, <1>9, OtherHolds

LEMMA OtherResetsHolds ==
  ASSUME AtInv, NEW o \in AtOthers,
         data_4g_init(o) \/ sharemem_4g_reinit(o) \/ at_4g_transmit_reset(o)
  PROVE  AtInv'
<1>1. AtTyped /\ (cur.state = {} => cur.mem = 0) /\ 0 \in 0..AtBuffers
  BY AtAssumption DEF AtInv, BufferOwned
<1>2. CASE data_4g_init(o)
  <2>1. /\ cur' = Nobody /\ Goes(o, "reinit", 0, 0)
        /\ UNCHANGED <<at_queue, mem_used, at_made, torn>>
    BY <1>2 DEF data_4g_init
  <2>2. other' \in [AtOthers -> OtherAt] /\ other'[o].pc = "reinit"
    BY <1>1, <2>1, GoesIs
  <2>3. AtTyped'
    BY <1>1, <2>1, <2>2, NobodyIs DEF AtTyped
  <2> QED
    BY <2>1, <2>2, <2>3, NobodyIs DEF AtInv, BufferOwned, Resetting
<1>3. CASE sharemem_4g_reinit(o)
  <2>1. /\ mem_used' = {} /\ Goes(o, "transmit", 0, 0)
        /\ UNCHANGED <<at_queue, cur, at_made, torn>>
    BY <1>3 DEF sharemem_4g_reinit, at_told, at_4g
  <2>2. other' \in [AtOthers -> OtherAt] /\ other'[o].pc = "transmit"
    BY <1>1, <2>1, GoesIs
  <2>3. AtTyped'
    BY <1>1, <2>1, <2>2 DEF AtTyped, Sendable
  <2> QED
    BY <1>1, <2>1, <2>2, <2>3 DEF AtInv, BufferOwned, Resetting
<1>4. CASE at_4g_transmit_reset(o)
  <2>1. /\ at_queue' = [p \in Places |-> NoCmd] /\ Goes(o, "idle", 0, 0)
        /\ UNCHANGED <<cur, mem_used, at_made>> /\ other[o].pc = "transmit"
        /\ torn' = ~(cur.state = {} /\ mem_used \subseteq OtherBuffers(AtOthers))
    BY <1>4 DEF at_4g_transmit_reset, Torn
  <2>2. /\ other' \in [AtOthers -> OtherAt]
        /\ \A q \in AtOthers : q # o => other'[q] = other[q]
    BY <1>1, <2>1, GoesIs
  <2>3. AtTyped'
    BY <1>1, <2>1, <2>2 DEF AtTyped, Sendable
  <2>4. OtherBuffers(AtOthers) \subseteq OtherBuffers(AtOthers)'
    BY <2>1, <2>2, OtherBuffersAre
  <2>5. ~torn' => Owned'
    BY <1>1, <2>1, <2>4, EmptyOwned
  <2> QED
    BY <1>1, <2>1, <2>3, <2>5 DEF AtInv, BufferOwned
<1> QED
  BY <1>2, <1>3, <1>4

LEMMA AtOtherHolds == ASSUME AtInv, AtOther PROVE AtInv'
  BY OtherFindsHolds, OtherMarksHolds, OtherPlacesHolds, OtherPutsHolds, OtherResetsHolds
     DEF AtOther
-----------------------------------------------------------------------------
LEMMA AtStepHolds == AtInv /\ [AtNext]_atVars => AtInv'
<1> SUFFICES ASSUME AtInv, [AtNext]_atVars PROVE AtInv'
  OBVIOUS
<1>1. CASE ClientsDone \/ UNCHANGED atVars
  BY <1>1, CurrentHolds DEF ClientsDone, atVars, AtInv, AtTyped, Sendable, at_told
<1>2. CASE AtNext /\ ~ClientsDone
  BY <1>2, RecvHolds, TimeoutHolds, MonitorHolds, PutHolds, DirectHolds, SendHolds, UartHolds,
     ResetHolds, AtOtherHolds DEF AtNext
<1> QED
  BY <1>1, <1>2

(* For every number of buffers, places, commands and other tasks, every     *)
(* buffer is owned by exactly one command, or by another task about to put  *)
(* one, or free, whichever of answer, end of transmission, timeout, abort   *)
(* and reset comes first and wherever the steps of the other tasks fall -   *)
(* while no other task resets the layer and the layer is not torn.          *)
THEOREM BuffersAreOwned == AtSpec => []BufferOwned
<1>1. AtSpec => []AtInv
  BY AtInitHolds, AtStepHolds, PTL DEF AtSpec
<1>2. AtInv => BufferOwned
  BY DEF AtInv
<1> QED
  BY <1>1, <1>2, PTL
-----------------------------------------------------------------------------
(* The times.  What a command that waits, or the current one, has left     *)
(* before its client is told is within its deadline; the current one's     *)
(* timer has already been counted when the deadlines are.  Nothing is      *)
(* expected of a torn layer.                                               *)
Left(e) == e.ticks + 1 + e.retry * (e.org + 1)
CurrentLeft == cur_tick + cur.retry * (cur.ticks + 1) + (IF at_step = "monitor" THEN 1 ELSE 0)

TimesTyped ==
  /\ at_made <= MaxCmds /\ cur_tick \in Nat
  /\ cur.id <= at_made /\ cur.retry >= 0 /\ cur.ticks >= 0
  /\ cur.state = {} => cur.id = 0
  /\ ~torn /\ cur.state # {} => cur_tick > 0
  /\ torn => \A c \in Cmds : deadline[c] = 0
  /\ \A p \in Places : at_queue[p].id # 0 =>
       /\ at_queue[p].id <= at_made /\ at_queue[p].retry >= 0
       /\ at_queue[p].ticks > 0 /\ at_queue[p].ticks <= at_queue[p].org
  /\ deadline \in [Cmds -> Nat]

Has(p, c) == at_queue[p].id = c /\ deadline[c] >= Left(at_queue[p])

WithinTime ==
  \A c \in Cmds : \/ deadline[c] = 0
                  \/ cur.id = c /\ deadline[c] >= CurrentLeft
                  \/ \E p \in Places : Has(p, c)

LEMMA Products ==
  /\ \A r, t \in Nat : r * (t + 1) \in Nat /\ (t + 1) * (r + 1) = t + 1 + r * (t + 1)
                       /\ (r > 0 => r * (t + 1) = (r - 1) * (t + 1) + t + 1)
  /\ \A r, t, o \in Nat : t <= o => r * (t + 1) <= r * (o + 1)
<1>1. \A r, t \in Nat : r * (t + 1) \in Nat
  BY SMT
<1>2. \A r, t \in Nat : (t + 1) * (r + 1) = t + 1 + r * (t + 1)
  BY SMT
<1>3. \A r, t \in Nat : r > 0 => r * (t + 1) = (r - 1) * (t + 1) + t + 1
  BY SMT
<1>4. \A r, t, o \in Nat : t <= o => r * (t + 1) <= r * (o + 1)
  <2>1. ASSUME NEW r \in Nat, NEW t \in Nat, NEW o \in Nat, t <= o
        PROVE  r * (t + 1) <= r * (o + 1)
    <3>1. PICK d \in Nat : d = o - t
      BY <2>1
    <3>2. r * (o + 1) = r * (t + 1) + r * d /\ r * d \in Nat /\ r * (t + 1) \in Nat
      BY <2>1, <3>1
    <3> QED
      BY <3>2
  <2> QED
    BY <2>1
<1> QED
  BY <1>1, <1>2, <1>3, <1>4

LEMMA CmdsAre == Cmds \subseteq Nat \ {0} /\ MaxCmds \in Nat /\ \A n \in Nat : n > 0 /\ n <= MaxCmds => n \in Cmds
  BY AtAssumption DEF Cmds

(* The deadline of one command is cleared, and nothing else is later.      *)
LEMMA ClearedIs ==
  ASSUME TimesTyped, NEW c, deadline' = [deadline EXCEPT ![c] = 0]
  PROVE  /\ deadline' \in [Cmds -> Nat] /\ (c \in Cmds => deadline'[c] = 0)
         /\ \A d \in Cmds : d # c => deadline'[d] = deadline[d]
  BY DEF TimesTyped

(* A command that is sent, again or for the first time, keeps its number,  *)
(* its time and its retries.                                               *)
LEMMA SentOffTimes ==
  ASSUME NEW n \in Current, "WAITSEND" \in n.state, dev_4g_check_send(n)
  PROVE  /\ cur'.id = n.id /\ cur'.ticks = n.ticks /\ cur'.retry = n.retry
         /\ cur'.state # {}
<1>1. "WAITSEND" \in n.state \ {"REQ"}
  OBVIOUS
<1>2. cur' = n \/ cur' = [n EXCEPT !.state = n.state \ {"REQ"}]
  BY DEF dev_4g_check_send
<1>3. /\ [n EXCEPT !.state = n.state \ {"REQ"}].id = n.id
      /\ [n EXCEPT !.state = n.state \ {"REQ"}].ticks = n.ticks
      /\ [n EXCEPT !.state = n.state \ {"REQ"}].retry = n.retry
      /\ [n EXCEPT !.state = n.state \ {"REQ"}].state = n.state \ {"REQ"}
  BY DEF Current
<1> QED
  BY <1>1, <1>2, <1>3

LEMMA NobodyTimes == Nobody.id = 0 /\ Nobody.retry = 0 /\ Nobody.ticks = 0 /\ Nobody.state = {}
  BY DEF Nobody

(* A step that leaves the queues and the current command's number, time    *)
(* and retries alone.                                                      *)
LEMMA SameCurrent ==
  ASSUME AtTyped, TimesTyped, WithinTime, UNCHANGED <<at_queue, at_made, torn>>,
         cur'.id = cur.id, cur'.ticks = cur.ticks, cur'.retry = cur.retry,
         cur'.state = {} => cur.state = {}, cur.state = {} => cur'.state = {},
         cur_tick' \in Nat, ~torn /\ cur.state # {} => cur_tick' > 0,
         ~torn /\ cur.id # 0 => CurrentLeft' <= CurrentLeft,
         \/ deadline' = deadline
         \/ deadline' = [deadline EXCEPT ![cur.id] = 0]
  PROVE  TimesTyped' /\ WithinTime'
<1>1. deadline' \in [Cmds -> Nat] /\ \A c \in Cmds : deadline'[c] = 0 \/ deadline'[c] = deadline[c]
  BY ClearedIs DEF TimesTyped
<1>2. TimesTyped'
  BY <1>1 DEF TimesTyped
<1>3. CurrentLeft \in Int /\ CurrentLeft' \in Int
  <2>1. cur.retry * (cur.ticks + 1) \in Int
    BY CurrentIs DEF AtTyped
  <2> QED
    BY <2>1 DEF CurrentLeft, TimesTyped
<1>4. ASSUME NEW c \in Cmds
      PROVE  \/ deadline'[c] = 0
             \/ cur'.id = c /\ deadline'[c] >= CurrentLeft'
             \/ \E p \in Places : Has(p, c)'
  <2>1. CASE deadline[c] = 0 \/ deadline'[c] = 0
    BY <1>1, <2>1
  <2>2. CASE /\ deadline[c] # 0 /\ deadline'[c] = deadline[c]
             /\ cur.id = c /\ deadline[c] >= CurrentLeft
    <3>1. c # 0 /\ deadline[c] \in Nat /\ ~torn
      BY <2>2, CmdsAre DEF TimesTyped
    <3> QED
      BY <1>3, <2>2, <3>1
  <2>3. ASSUME deadline'[c] = deadline[c], NEW p \in Places, Has(p, c)
        PROVE  Has(p, c)'
    BY <2>3 DEF Has, Left
  <2> QED
    BY <1>1, <2>1, <2>2, <2>3 DEF WithinTime
<1> QED
  BY <1>2, <1>4 DEF WithinTime

(* The current command is over and its client is told, or needs not be.    *)
LEMMA OverTimes ==
  ASSUME AtTyped, TimesTyped, WithinTime, UNCHANGED <<at_queue, at_made, torn>>,
         cur' = Nobody, cur_tick' \in Nat, deadline' = [deadline EXCEPT ![cur.id] = 0]
  PROVE  TimesTyped' /\ WithinTime'
<1>1. /\ deadline' \in [Cmds -> Nat] /\ (cur.id \in Cmds => deadline'[cur.id] = 0)
      /\ \A c \in Cmds : c # cur.id => deadline'[c] = deadline[c]
  BY ClearedIs
<1>2. at_made \in Nat
  BY DEF AtTyped
<1>3. TimesTyped'
  <2>1. torn => \A c \in Cmds : deadline'[c] = 0
    BY <1>1 DEF TimesTyped
  <2> QED
    BY <1>1, <1>2, <2>1, NobodyTimes DEF TimesTyped
<1>4. ASSUME NEW c \in Cmds
      PROVE  deadline'[c] = 0 \/ \E p \in Places : Has(p, c)'
  <2>1. CASE c = cur.id
    BY <1>1, <2>1
  <2>2. CASE c # cur.id
    <3>1. deadline'[c] = deadline[c]
      BY <1>1, <2>2
    <3>2. \A p \in Places : Has(p, c) => Has(p, c)'
      BY <3>1 DEF Has, Left
    <3> QED
      BY <2>2, <3>1, <3>2 DEF WithinTime
  <2> QED
    BY <2>1, <2>2
<1> QED
  BY <1>3, <1>4 DEF WithinTime

LEMMA UartInTime ==
  ASSUME AtTyped, TimesTyped, WithinTime, UartDone
  PROVE  TimesTyped' /\ WithinTime'
<1> DEFINE rest == cur.state \ {"WAITSEND"}
<1>1. /\ cur \in Current /\ cur_tick \in Nat
      /\ UNCHANGED <<at_queue, at_made, cur_tick, at_step, torn>>
  BY DEF AtTyped, TimesTyped, UartDone, at_elsewhere
<1>2. CASE Over /\ deadline' = [deadline EXCEPT ![cur.id] = 0]
  BY <1>1, <1>2, OverTimes DEF Over
<1>3. CASE ~("WAITSEND" \in cur.state /\ rest = {}) /\ cur' = [cur EXCEPT !.state = rest]
           /\ UNCHANGED <<mem_used, deadline>>
  <2>1. /\ cur'.id = cur.id /\ cur'.ticks = cur.ticks /\ cur'.retry = cur.retry /\ cur'.state = rest
    BY <1>1, <1>3 DEF Current
  <2>2. rest = {} <=> cur.state = {}
    BY <1>3
  <2>3. CurrentLeft' = CurrentLeft
    BY <1>1, <2>1 DEF CurrentLeft
  <2>4. CurrentLeft \in Int
    <3>1. cur.retry * (cur.ticks + 1) \in Int
      BY <1>1, CurrentIs
    <3> QED
      BY <1>1, <3>1 DEF CurrentLeft
  <2> QED
    BY <1>1, <1>3, <2>1, <2>2, <2>3, <2>4, SameCurrent DEF TimesTyped
<1> QED
  BY <1>2, <1>3 DEF UartDone

LEMMA RecvInTime ==
  ASSUME AtTyped, TimesTyped, WithinTime, at_4g_transmit_check_recv
  PROVE  TimesTyped' /\ WithinTime'
<1>1. /\ cur \in Current /\ cur_tick \in Nat /\ UNCHANGED <<at_queue, at_made, torn>>
      /\ at_step = "recv" /\ at_step' = "timeout"
  BY DEF AtTyped, TimesTyped, at_4g_transmit_check_recv, at_elsewhere
<1>2. CurrentLeft \in Int
  <2>1. cur.retry * (cur.ticks + 1) \in Int
    BY <1>1, CurrentIs
  <2> QED
    BY <1>1, <2>1 DEF CurrentLeft
<1>3. ASSUME cur'.id = cur.id, cur'.ticks = cur.ticks, cur'.retry = cur.retry,
             cur'.state = {} <=> cur.state = {}, cur_tick' = cur_tick,
             deadline' = deadline \/ deadline' = [deadline EXCEPT ![cur.id] = 0]
      PROVE  TimesTyped' /\ WithinTime'
  <2>1. CurrentLeft' = CurrentLeft
    BY <1>1, <1>3 DEF CurrentLeft
  <2> QED
    BY <1>1, <1>2, <1>3, <2>1, SameCurrent DEF TimesTyped
<1>4. CASE UNCHANGED <<cur, cur_tick, deadline>>
  BY <1>3, <1>4
<1>5. CASE cur' = [cur EXCEPT !.known = FALSE] /\ UNCHANGED <<cur_tick, deadline>>
  <2>1. cur'.id = cur.id /\ cur'.ticks = cur.ticks /\ cur'.retry = cur.retry /\ cur'.state = cur.state
    BY <1>1, <1>5 DEF Current
  <2> QED
    BY <1>3, <1>5, <2>1
<1>6. ASSUME NEW race \in BOOLEAN, cur.state # {}, AnswerTaken(race),
             deadline' = [deadline EXCEPT ![cur.id] = 0]
      PROVE  TimesTyped' /\ WithinTime'
  <2>1. CASE cur' = Nobody /\ cur_tick' = 0
    BY <1>1, <1>6, <2>1, OverTimes
  <2>2. CASE /\ cur.state # {"WAITRESP"} /\ cur' = [cur EXCEPT !.state = cur.state \ {"WAITRESP"}]
             /\ UNCHANGED cur_tick
    <3>1. cur.state \ {"WAITRESP"} # {}
      BY <1>6, <2>2
    <3>2. /\ cur'.id = cur.id /\ cur'.ticks = cur.ticks /\ cur'.retry = cur.retry
          /\ cur'.state = cur.state \ {"WAITRESP"}
      BY <1>1, <2>2 DEF Current
    <3> QED
      BY <1>3, <1>6, <2>2, <3>1, <3>2
  <2> QED
    BY <1>6, <2>1, <2>2 DEF AnswerTaken, Over
<1> QED
  BY <1>4, <1>5, <1>6 DEF at_4g_transmit_check_recv, Answered, at_told

LEMMA TimeoutInTime ==
  ASSUME AtTyped, TimesTyped, WithinTime, at_4g_transmit_check_timeout
  PROVE  TimesTyped' /\ WithinTime'
<1>1. /\ cur \in Current /\ cur_tick \in Nat /\ UNCHANGED <<at_queue, at_made, torn>>
      /\ at_step = "timeout" /\ at_step' = "monitor"
  BY DEF AtTyped, TimesTyped, at_4g_transmit_check_timeout, at_elsewhere
<1>2. /\ cur.id \in Nat /\ cur.ticks \in Nat /\ cur.retry \in Nat
      /\ cur.retry * (cur.ticks + 1) \in Nat
  BY <1>1, CurrentIs, Products DEF TimesTyped
<1>3. /\ CurrentLeft = cur_tick + cur.retry * (cur.ticks + 1) /\ CurrentLeft \in Nat
      /\ CurrentLeft' = cur_tick' + cur'.retry * (cur'.ticks + 1) + 1
  BY <1>1, <1>2 DEF CurrentLeft
<1>4. CASE (cur.state = {} \/ cur_tick # 1) /\ UNCHANGED <<cur, deadline>>
           /\ cur_tick' = IF cur.state = {} \/ cur_tick = 0 THEN 0 ELSE cur_tick - 1
  <2>1. ~torn /\ cur.state # {} => cur_tick > 1 /\ cur_tick' = cur_tick - 1
    BY <1>1, <1>4 DEF TimesTyped
  <2>2. cur.id # 0 => cur.state # {}
    BY DEF TimesTyped
  <2>3. cur_tick' \in Nat /\ (~torn /\ cur.state # {} => cur_tick' > 0)
    BY <1>1, <1>4, <2>1
  <2>4. ~torn /\ cur.id # 0 => CurrentLeft' <= CurrentLeft
    BY <1>1, <1>2, <1>3, <1>4, <2>1, <2>2
  <2> QED
    BY <1>1, <1>4, <2>3, <2>4, SameCurrent
<1>5. CASE Over /\ cur_tick' = 0 /\ Answered(cur.id)
  BY <1>1, <1>5, OverTimes DEF Over, Answered
<1>6. CASE /\ ~(cur.state = {} \/ cur_tick # 1) /\ ~(cur.retry = 0 \/ HigherWaits)
           /\ dev_4g_check_send([cur EXCEPT !.state = cur.bak, !.retry = cur.retry - 1])
           /\ cur_tick' = cur.ticks + 1 /\ UNCHANGED deadline
  <2> DEFINE n == [cur EXCEPT !.state = cur.bak, !.retry = cur.retry - 1]
  <2>1. /\ n \in Current /\ n.state = cur.bak /\ n.id = cur.id /\ n.ticks = cur.ticks
        /\ n.retry = cur.retry - 1
    <3>1. cur.retry - 1 \in Int
      BY <1>2
    <3> QED
      BY <1>1, <3>1 DEF Current
  <2>2. "WAITSEND" \in n.state
    BY <1>6, <2>1 DEF AtTyped, Sendable
  <2>3. dev_4g_check_send(n) /\ cur_tick = 1 /\ cur.state # {} /\ cur.retry > 0
    BY <1>2, <1>6
  <2> HIDE DEF n
  <2>4. cur'.id = cur.id /\ cur'.ticks = cur.ticks /\ cur'.retry = cur.retry - 1 /\ cur'.state # {}
    BY <2>1, <2>2, <2>3, SentOffTimes
  <2>5. cur.retry * (cur.ticks + 1) = (cur.retry - 1) * (cur.ticks + 1) + cur.ticks + 1
    BY <1>2, <2>3, Products
  <2>6. CurrentLeft' = CurrentLeft
    <3>1. (cur.retry - 1) * (cur.ticks + 1) \in Int
      BY <1>2
    <3> QED
      BY <1>2, <1>3, <1>6, <2>3, <2>4, <2>5, <3>1
  <2>7. TimesTyped'
    BY <1>1, <1>2, <1>6, <2>3, <2>4 DEF TimesTyped
  <2>8. ASSUME NEW c \in Cmds
        PROVE  \/ deadline'[c] = 0
               \/ cur'.id = c /\ deadline'[c] >= CurrentLeft'
               \/ \E p \in Places : Has(p, c)'
    <3>1. \A p \in Places : Has(p, c) => Has(p, c)'
      BY <1>1, <1>6 DEF Has, Left
    <3> QED
      BY <1>6, <2>4, <2>6, <3>1 DEF WithinTime
  <2> QED
    BY <2>7, <2>8 DEF WithinTime
<1> QED
  BY <1>4, <1>5, <1>6 DEF at_4g_transmit_check_timeout

(* The deadlines, the waiting commands and the timer of the current one    *)
(* are counted together.                                                   *)
LEMMA WaitedTimes ==
  ASSUME NEW e \in Queued, e.ticks > 0, e.ticks <= e.org, e.retry >= 0
  PROVE  \/ Waited(e) = NoCmd
         \/ /\ Waited(e) \in Queued /\ Waited(e).id = e.id /\ Waited(e).retry >= 0
            /\ Waited(e).ticks > 0 /\ Waited(e).ticks <= Waited(e).org
            /\ Left(Waited(e)) <= Left(e) - 1 /\ Left(e) > 1
<1>1. /\ e.id \in Nat /\ e.ticks \in Nat /\ e.org \in Nat /\ e.retry \in Nat
      /\ e.ticks - 1 \in Int /\ e.retry - 1 \in Int /\ e.retry * (e.org + 1) \in Nat
      /\ (e.retry > 0 => e.retry * (e.org + 1) = (e.retry - 1) * (e.org + 1) + e.org + 1)
  BY QueuedIs, Products
<1>2. Left(e) = e.ticks + 1 + e.retry * (e.org + 1) /\ Left(e) > 1
  BY <1>1 DEF Left
<1>3. CASE e.ticks > 1
  <2>1. Waited(e) = [e EXCEPT !.ticks = e.ticks - 1]
    BY <1>3 DEF Waited
  <2>2. /\ Waited(e) \in Queued /\ Waited(e).id = e.id /\ Waited(e).retry = e.retry
        /\ Waited(e).ticks = e.ticks - 1 /\ Waited(e).org = e.org
    BY <1>1, <2>1 DEF Queued
  <2> QED
    BY <1>1, <1>2, <1>3, <2>2 DEF Left
<1>4. CASE ~(e.ticks > 1) /\ e.retry # 0
  <2>1. Waited(e) = [e EXCEPT !.ticks = e.org, !.retry = e.retry - 1]
    BY <1>4 DEF Waited
  <2>2. /\ Waited(e) \in Queued /\ Waited(e).id = e.id /\ Waited(e).retry = e.retry - 1
        /\ Waited(e).ticks = e.org /\ Waited(e).org = e.org
    BY <1>1, <2>1 DEF Queued
  <2>3. Left(Waited(e)) = e.org + 1 + (e.retry - 1) * (e.org + 1)
    BY <2>2 DEF Left
  <2>4. e.retry > 0 /\ e.ticks = 1 /\ (e.retry - 1) * (e.org + 1) \in Int
    BY <1>1, <1>4
  <2> QED
    BY <1>1, <1>2, <2>2, <2>3, <2>4
<1>5. CASE ~(e.ticks > 1) /\ e.retry = 0
  BY <1>5 DEF Waited
<1> QED
  BY <1>3, <1>4, <1>5

LEMMA MonitorInTime ==
  ASSUME AtTyped, TimesTyped, WithinTime, at_4g_transmit_monitor_queue
  PROVE  TimesTyped' /\ WithinTime'
<1> DEFINE queued == {p \in Places : at_queue[p].id # 0}
           rest == [p \in Places |-> IF p \in queued THEN Waited(at_queue[p]) ELSE NoCmd]
           gone == {p \in queued : rest[p] = NoCmd}
           over == {at_queue[p].id : p \in gone}
<1>1. /\ at_queue' = rest /\ UNCHANGED <<cur, cur_tick, at_made, torn>>
      /\ at_step = "monitor" /\ at_step' = "clients"
      /\ deadline' = [c \in Cmds |-> IF c \in over THEN 0
                                ELSE IF deadline[c] = 1 THEN -1
                                ELSE IF deadline[c] > 1 THEN deadline[c] - 1 ELSE deadline[c]]
  BY DEF at_4g_transmit_monitor_queue, at_elsewhere
<1>2. ASSUME NEW p \in Places
      PROVE  /\ p \notin queued \/ p \in gone => rest[p] = NoCmd
             /\ p \in queued \ gone => /\ rest[p] \in Queued /\ rest[p].id = at_queue[p].id
                                       /\ rest[p].id <= at_made /\ rest[p].retry >= 0
                                       /\ rest[p].ticks > 0 /\ rest[p].ticks <= rest[p].org
                                       /\ Left(rest[p]) <= Left(at_queue[p]) - 1
                                       /\ Left(at_queue[p]) > 1
  <2>1. CASE p \in queued
    <3>1. at_queue[p] \in Queued /\ at_queue[p].ticks > 0 /\ at_queue[p].ticks <= at_queue[p].org
          /\ at_queue[p].retry >= 0 /\ at_queue[p].id <= at_made
      BY <2>1, PlaceIs DEF TimesTyped
    <3>2. rest[p] = Waited(at_queue[p])
      BY <2>1
    <3> QED
      BY <2>1, <3>1, <3>2, WaitedTimes
  <2>2. CASE p \notin queued
    BY <2>2
  <2> QED
    BY <2>1, <2>2
<1>3. NoCmd.id = 0
  BY DEF NoCmd
<1>4. /\ cur.retry * (cur.ticks + 1) \in Nat /\ cur.id \in Nat /\ cur_tick \in Nat
      /\ ~torn /\ cur.id # 0 => cur_tick > 0
  <2>1. cur.id \in Nat /\ cur.ticks \in Nat /\ cur.retry \in Nat
    BY CurrentIs DEF AtTyped, TimesTyped
  <2> QED
    BY <2>1, Products DEF TimesTyped
<1>5. /\ CurrentLeft' = CurrentLeft - 1 /\ CurrentLeft \in Nat
      /\ ~torn /\ cur.id # 0 => CurrentLeft > 1
  BY <1>1, <1>4 DEF CurrentLeft
<1>6. ASSUME NEW c \in Cmds
      PROVE  /\ deadline'[c] \in Nat
             /\ \/ deadline'[c] = 0
                \/ cur'.id = c /\ deadline'[c] >= CurrentLeft'
                \/ \E p \in Places : Has(p, c)'
  <2>1. deadline[c] \in Nat /\ c # 0
    BY CmdsAre DEF TimesTyped
  <2>2. CASE c \in over \/ deadline[c] = 0
    BY <1>1, <2>1, <2>2
  <2>3. ASSUME c \notin over, deadline[c] > 1
        PROVE  deadline'[c] = deadline[c] - 1 /\ deadline'[c] \in Nat
    BY <1>1, <2>1, <2>3
  <2>4. CASE c \notin over /\ deadline[c] # 0 /\ cur.id = c /\ deadline[c] >= CurrentLeft
    <3>1. ~torn
      BY <2>4 DEF TimesTyped
    <3>2. CurrentLeft > 1 /\ CurrentLeft \in Nat /\ CurrentLeft' = CurrentLeft - 1
      BY <1>5, <2>1, <2>4, <3>1
    <3>3. deadline[c] > 1
      BY <2>1, <2>4, <3>2
    <3>4. deadline'[c] = deadline[c] - 1 /\ deadline'[c] \in Nat /\ cur'.id = c
      BY <1>1, <2>3, <2>4, <3>3
    <3> QED
      BY <2>1, <2>4, <3>2, <3>4
  <2>5. ASSUME c \notin over, NEW p \in Places, Has(p, c)
        PROVE  deadline'[c] \in Nat /\ Has(p, c)'
    <3>1. at_queue[p].id = c /\ p \in queued /\ p \notin gone /\ deadline[c] >= Left(at_queue[p])
      BY <2>1, <2>5 DEF Has
    <3>2. /\ rest[p] \in Queued /\ rest[p].id = c /\ Left(at_queue[p]) > 1
          /\ Left(rest[p]) <= Left(at_queue[p]) - 1
      BY <1>2, <3>1
    <3>3. Left(at_queue[p]) \in Int /\ Left(rest[p]) \in Int
      <4>1. at_queue[p] \in Queued
        BY <2>1, <3>1, PlaceIs
      <4>2. \A e \in Queued : Left(e) \in Int
        <5>1. \A a, b, d \in Int : a + 1 + b * (d + 1) \in Int
          OBVIOUS
        <5> QED
          BY <5>1, QueuedIs DEF Left
      <4> QED
        BY <3>2, <4>1, <4>2
    <3>4. deadline'[c] = deadline[c] - 1 /\ deadline'[c] \in Nat
      BY <2>1, <2>3, <2>5, <3>1, <3>2, <3>3
    <3>5. deadline'[c] >= Left(rest[p])
      BY <2>1, <3>1, <3>2, <3>3, <3>4
    <3>6. at_queue'[p] = rest[p]
      BY <1>1
    <3> HIDE DEF rest
    <3> QED
      BY <3>2, <3>4, <3>5, <3>6 DEF Has, Left
  <2> QED
    BY <2>2, <2>4, <2>5 DEF WithinTime
<1>7. TimesTyped'
  <2>1. deadline' \in [Cmds -> Nat]
    BY <1>1, <1>6
  <2>2. ASSUME NEW p \in Places, at_queue'[p].id # 0
        PROVE  /\ at_queue'[p].id <= at_made /\ at_queue'[p].retry >= 0
               /\ at_queue'[p].ticks > 0 /\ at_queue'[p].ticks <= at_queue'[p].org
    BY <1>1, <1>2, <1>3, <2>2
  <2>3. torn => \A c \in Cmds : deadline'[c] = 0
    BY <1>1 DEF TimesTyped
  <2> QED
    BY <1>1, <2>1, <2>2, <2>3 DEF TimesTyped
<1> QED
  BY <1>6, <1>7 DEF WithinTime

(* A command that gets a place, or tears the layer.                        *)
LEMMA NewInTime ==
  ASSUME AtTyped, TimesTyped, WithinTime, NEW cmd \in AtCommandSet, NEW p \in Places,
         NEW b \in 1..AtBuffers, at_made + 1 \in Cmds, at_made' = at_made + 1,
         UNCHANGED <<cur, cur_tick, at_step>>, Put(p, at_made + 1, b, cmd),
         torn => torn', torn' => deadline' \in [Cmds -> {0}],
         ~torn' => /\ at_queue[p] = NoCmd
                   /\ deadline' = [deadline EXCEPT ![at_made + 1] = AllPeriods(cmd)]
  PROVE  TimesTyped' /\ WithinTime'
<1>1. at_made \in Nat /\ at_made + 1 \in Nat \ {0} /\ NoCmd.id = 0
  BY DEF AtTyped, NoCmd
<1>2. cmd.ticks \in Nat /\ cmd.ticks > 0 /\ cmd.retry \in Nat
  BY CommandIs
<1>3. /\ at_queue'[p].id = at_made + 1 /\ at_queue'[p].ticks = cmd.ticks
      /\ at_queue'[p].org = cmd.ticks /\ at_queue'[p].retry = cmd.retry
      /\ \A q \in Places : q # p => at_queue'[q] = at_queue[q]
  BY <1>1, PutIs
<1>4. /\ AllPeriods(cmd) = cmd.ticks + 1 + cmd.retry * (cmd.ticks + 1)
      /\ AllPeriods(cmd) \in Nat
  <2>1. /\ cmd.retry * (cmd.ticks + 1) \in Nat
        /\ (cmd.ticks + 1) * (cmd.retry + 1) = cmd.ticks + 1 + cmd.retry * (cmd.ticks + 1)
    BY <1>2, Products
  <2> QED
    BY <1>2, <2>1 DEF AllPeriods
<1>5. deadline' \in [Cmds -> Nat]
  <2>1. CASE torn'
    BY <2>1
  <2>2. CASE ~torn'
    BY <1>4, <2>2 DEF TimesTyped
  <2> QED
    BY <2>1, <2>2
<1>6. ASSUME ~torn'
      PROVE  /\ deadline'[at_made + 1] = AllPeriods(cmd) /\ at_queue[p].id = 0 /\ ~torn
             /\ \A c \in Cmds : c # at_made + 1 => deadline'[c] = deadline[c]
  BY <1>1, <1>6 DEF TimesTyped
<1>7. TimesTyped'
  <2>1. at_made + 1 <= MaxCmds /\ MaxCmds \in Nat
    BY <1>1, AtAssumption DEF Cmds
  <2>2. cur.id \in Nat
    BY CurrentIs DEF AtTyped
  <2>3. ASSUME NEW q \in Places, at_queue'[q].id # 0
        PROVE  /\ at_queue'[q].id <= at_made' /\ at_queue'[q].retry >= 0
               /\ at_queue'[q].ticks > 0 /\ at_queue'[q].ticks <= at_queue'[q].org
    <3>1. CASE q = p
      BY <1>1, <1>2, <1>3, <3>1
    <3>2. CASE q # p
      <4>1. at_queue[q].id \in Nat
        BY <1>1, <1>3, <2>3, <3>2, PlaceIs, QueuedIs
      <4> QED
        BY <1>1, <1>3, <2>3, <3>2, <4>1 DEF TimesTyped
    <3> QED
      BY <3>1, <3>2
  <2>4. /\ torn' => \A c \in Cmds : deadline'[c] = 0
        /\ ~torn' /\ cur'.state # {} => cur_tick' > 0
    BY <1>6 DEF TimesTyped
  <2> QED
    BY <1>1, <1>5, <2>1, <2>2, <2>3, <2>4 DEF TimesTyped
<1>8. ASSUME NEW c \in Cmds, ~torn'
      PROVE  \/ deadline'[c] = 0
             \/ cur'.id = c /\ deadline'[c] >= CurrentLeft'
             \/ \E q \in Places : Has(q, c)'
  <2>1. CASE c = at_made + 1
    <3>1. deadline'[c] = cmd.ticks + 1 + cmd.retry * (cmd.ticks + 1) /\ deadline'[c] \in Int
      BY <1>4, <1>6, <1>8, <2>1
    <3>2. Has(p, c)'
      BY <1>3, <2>1, <3>1 DEF Has, Left
    <3> QED
      BY <3>2
  <2>2. CASE c # at_made + 1
    <3>1. deadline'[c] = deadline[c] /\ CurrentLeft' = CurrentLeft
      BY <1>6, <1>8, <2>2 DEF CurrentLeft
    <3>2. \A q \in Places : Has(q, c) => Has(q, c)'
      <4>1. \A q \in Places : Has(q, c) => q # p
        BY <1>6, <1>8, CmdsAre DEF Has
      <4> QED
        BY <1>3, <3>1, <4>1 DEF Has, Left
    <3> QED
      BY <3>1, <3>2 DEF WithinTime
  <2> QED
    BY <2>1, <2>2
<1>9. torn' => \A c \in Cmds : deadline'[c] = 0
  OBVIOUS
<1> QED
  BY <1>7, <1>8, <1>9 DEF WithinTime

LEMMA PutInTime ==
  ASSUME AtTyped, TimesTyped, WithinTime, NEW cmd \in AtCommandSet, at_4g_transmit_putcmd(cmd)
  PROVE  TimesTyped' /\ WithinTime'
<1>1. /\ UNCHANGED <<cur, cur_tick, at_step, torn>> /\ at_made' = at_made + 1
      /\ at_made + 1 \in Cmds
      /\ deadline' = [deadline EXCEPT ![at_made + 1] = IF torn THEN 0 ELSE AllPeriods(cmd)]
  BY DEF at_4g_transmit_putcmd, Expects, at_elsewhere
<1>2. PICK p \in Places, b \in 1..AtBuffers :
        at_queue[p] = NoCmd /\ Put(p, at_made + 1, b, cmd)
  BY DEF at_4g_transmit_putcmd, First, FreePlaces, FreeBuffers
<1>3. torn => deadline' \in [Cmds -> {0}]
  BY <1>1 DEF TimesTyped
<1> QED
  BY <1>1, <1>2, <1>3, NewInTime

LEMMA DirectInTime ==
  ASSUME AtTyped, TimesTyped, WithinTime, NEW ticks \in AtTicks, at_4g_transmit_direct(ticks)
  PROVE  TimesTyped' /\ WithinTime'
<1>1. /\ UNCHANGED <<at_queue, at_step>> /\ at_made' = at_made + 1 /\ at_made \in Nat
      /\ at_made + 1 \in Cmds /\ cur.state = {} /\ at_step = "clients"
      /\ deadline' = [deadline EXCEPT ![at_made + 1] = IF torn THEN 0 ELSE ticks + 1]
      /\ cur_tick' = ticks + 1 /\ UNCHANGED torn
      /\ cur'.id = at_made + 1 /\ cur'.retry = 0 /\ cur'.ticks = ticks /\ cur'.state # {}
  BY DEF at_4g_transmit_direct, AtTyped, Sending, Expects, at_elsewhere
<1>2. ticks \in Nat /\ 0 * (ticks + 1) = 0
  BY AtAssumption
<1>3. /\ deadline' \in [Cmds -> Nat]
      /\ deadline'[at_made + 1] = IF torn THEN 0 ELSE ticks + 1
      /\ \A c \in Cmds : c # at_made + 1 => deadline'[c] = deadline[c]
  BY <1>1, <1>2 DEF TimesTyped
<1>4. CurrentLeft' = ticks + 1
  BY <1>1, <1>2 DEF CurrentLeft
<1>5. TimesTyped'
  <2>1. at_made + 1 <= MaxCmds /\ MaxCmds \in Nat
    BY <1>1, AtAssumption DEF Cmds
  <2>2. ASSUME NEW q \in Places, at_queue[q].id # 0
        PROVE  at_queue[q].id \in Nat
    BY <2>2, PlaceIs, QueuedIs
  <2>3. torn => \A c \in Cmds : deadline'[c] = 0
    BY <1>3 DEF TimesTyped
  <2> QED
    BY <1>1, <1>2, <1>3, <2>1, <2>2, <2>3 DEF TimesTyped
<1>6. ASSUME NEW c \in Cmds
      PROVE  \/ deadline'[c] = 0
             \/ cur'.id = c /\ deadline'[c] >= CurrentLeft'
             \/ \E q \in Places : Has(q, c)'
  <2>1. CASE c = at_made + 1
    BY <1>1, <1>2, <1>3, <1>4, <2>1
  <2>2. CASE c # at_made + 1
    <3>1. cur.id # c
      BY <1>1, CmdsAre DEF TimesTyped
    <3>2. \A q \in Places : Has(q, c) => Has(q, c)'
      BY <1>1, <1>3, <2>2 DEF Has, Left
    <3> QED
      BY <1>3, <2>2, <3>1, <3>2 DEF WithinTime
  <2> QED
    BY <2>1, <2>2
<1> QED
  BY <1>5, <1>6 DEF WithinTime

LEMMA SendInTime ==
  ASSUME AtTyped, TimesTyped, WithinTime, at_4g_transmit_check_send
  PROVE  TimesTyped' /\ WithinTime'
<1>1. /\ UNCHANGED <<at_made, deadline, torn>> /\ at_step = "send" /\ at_step' = "recv" /\ at_made \in Nat
  BY DEF at_4g_transmit_check_send, at_told, AtTyped
<1>2. CASE UNCHANGED <<at_queue, cur, cur_tick>>
  <2>1. CurrentLeft' = CurrentLeft
    BY <1>1, <1>2 DEF CurrentLeft
  <2> QED
    BY <1>1, <1>2, <2>1 DEF TimesTyped, WithinTime, Has, Left
<1>3. ASSUME NEW p \in Places, at_queue[p].id # 0, cur.state = {},
             dev_4g_check_send(Sent(at_queue[p], AtPri[p])), cur_tick' = at_queue[p].ticks + 1,
             at_queue' = [at_queue EXCEPT ![p] = NoCmd]
      PROVE  TimesTyped' /\ WithinTime'
  <2> DEFINE e == at_queue[p]
             n == Sent(e, AtPri[p])
  <2>1. /\ e \in Queued /\ e.id <= at_made /\ e.retry >= 0 /\ e.ticks > 0 /\ e.ticks <= e.org
    BY <1>3, PlaceIs DEF TimesTyped
  <2>2. AtPri[p] \in Levels
    BY AtAssumption DEF Places, Levels
  <2>3. /\ e.id \in Nat /\ e.mem \in 0..AtBuffers /\ e.kind \in Kinds
        /\ e.ticks \in Nat /\ e.org \in Nat /\ e.retry \in Nat
    BY <2>1, QueuedIs
  <2>4. /\ n \in Current /\ "WAITSEND" \in n.state /\ n.id = e.id /\ n.ticks = e.ticks
        /\ n.retry = e.retry
    BY <2>2, <2>3 DEF Sent, Current, Request, Sending
  <2>5. cur'.id = e.id /\ cur'.ticks = e.ticks /\ cur'.retry = e.retry /\ cur'.state # {}
    BY <1>3, <2>4, SentOffTimes
  <2>6. /\ at_queue'[p] = NoCmd /\ NoCmd.id = 0
        /\ \A q \in Places : q # p => at_queue'[q] = at_queue[q]
    BY <1>3 DEF AtTyped, NoCmd
  <2>7. CurrentLeft' <= Left(e) /\ CurrentLeft' \in Int /\ Left(e) \in Int
    <3>1. /\ e.retry * (e.ticks + 1) <= e.retry * (e.org + 1)
          /\ e.retry * (e.ticks + 1) \in Nat /\ e.retry * (e.org + 1) \in Nat
      BY <2>1, <2>3, Products
    <3>2. CurrentLeft' = e.ticks + 1 + e.retry * (e.ticks + 1)
      BY <1>1, <1>3, <2>3, <2>5, <3>1 DEF CurrentLeft
    <3>3. Left(e) = e.ticks + 1 + e.retry * (e.org + 1)
      BY DEF Left
    <3> QED
      BY <2>3, <3>1, <3>2, <3>3
  <2>8. TimesTyped'
    BY <1>1, <1>3, <2>1, <2>3, <2>5, <2>6 DEF TimesTyped
  <2>9. ASSUME NEW c \in Cmds
        PROVE  \/ deadline'[c] = 0
               \/ cur'.id = c /\ deadline'[c] >= CurrentLeft'
               \/ \E q \in Places : Has(q, c)'
    <3>1. cur.id # c /\ deadline[c] \in Nat
      BY <1>3, CmdsAre DEF TimesTyped
    <3>2. \A q \in Places : q # p /\ Has(q, c) => Has(q, c)'
      BY <1>1, <2>6 DEF Has, Left
    <3>3. Has(p, c) => cur'.id = c /\ deadline'[c] >= CurrentLeft'
      BY <1>1, <2>5, <2>7, <3>1 DEF Has
    <3> QED
      BY <1>1, <3>1, <3>2, <3>3 DEF WithinTime
  <2> QED
    BY <2>8, <2>9 DEF WithinTime
<1> QED
  BY <1>2, <1>3 DEF at_4g_transmit_check_send, First

LEMMA ResetInTime ==
  ASSUME AtTyped, TimesTyped, mgr_4g_reset
  PROVE  TimesTyped' /\ WithinTime'
<1>1. at_made \in Nat /\ NoCmd.id = 0
  BY DEF AtTyped, NoCmd
<1> QED
  BY <1>1, NobodyTimes DEF mgr_4g_reset, Forgotten, TimesTyped, WithinTime

(* Another task finds, marks or frees a buffer.                            *)
LEMMA ElsewhereInTime ==
  ASSUME TimesTyped, WithinTime, UNCHANGED <<at_queue, cur, cur_tick, at_step, at_made>>,
         torn => torn', deadline' = IF torn' THEN Forgotten ELSE deadline
  PROVE  TimesTyped' /\ WithinTime'
<1>1. CurrentLeft' = CurrentLeft
  BY DEF CurrentLeft
<1>2. CASE ~torn'
  BY <1>1, <1>2 DEF TimesTyped, WithinTime, Has, Left
<1>3. CASE torn'
  BY <1>3 DEF TimesTyped, WithinTime, Forgotten
<1> QED
  BY <1>2, <1>3

LEMMA AtOtherInTime ==
  ASSUME AtTyped, TimesTyped, WithinTime, AtOther
  PROVE  TimesTyped' /\ WithinTime'
<1>1. ASSUME NEW o \in AtOthers, NEW cmd \in AtCommandSet, OtherPuts(o, cmd)
      PROVE  TimesTyped' /\ WithinTime'
  <2> DEFINE b == other[o].mem
             p == other[o].place
  <2>1. /\ UNCHANGED <<cur, cur_tick, at_step>> /\ at_made' = at_made + 1
        /\ at_made + 1 \in Cmds /\ Put(p, at_made + 1, b, cmd) /\ other[o].pc = "placed"
        /\ torn' = (torn \/ at_queue[p] # NoCmd \/ b \notin mem_used \/ b \in Held)
        /\ deadline' = IF torn' THEN Forgotten
                                ELSE [deadline EXCEPT ![at_made + 1] = AllPeriods(cmd)]
    BY <1>1 DEF OtherPuts, Torn, at_4g
  <2>2. b \in 1..AtBuffers /\ p \in Places
    BY <2>1, ElsewhereIs
  <2> HIDE DEF b, p
  <2>3. torn' => deadline' \in [Cmds -> {0}]
    BY <2>1 DEF Forgotten
  <2> QED
    BY <2>1, <2>2, <2>3, NewInTime
<1>2. ASSUME NEW o \in AtOthers,
             OtherFinds(o) \/ OtherMarks(o) \/ sharemem_4g_reinit(o)
             \/ \E cmd \in AtCommandSet : OtherPlaces(o, cmd.pri)
      PROVE  TimesTyped' /\ WithinTime'
  <2>1. /\ UNCHANGED <<at_queue, cur, cur_tick, at_step, at_made>>
        /\ \/ UNCHANGED <<torn, deadline>>
           \/ (torn => torn') /\ deadline' = IF torn' THEN Forgotten ELSE deadline
    BY <1>2 DEF OtherFinds, OtherMarks, sharemem_4g_reinit, OtherPlaces, Torn, at_4g, at_told
  <2>2. torn => deadline = Forgotten
    BY DEF TimesTyped, Forgotten
  <2> QED
    BY <2>1, <2>2, ElsewhereInTime
<1>3. ASSUME NEW o \in AtOthers, data_4g_init(o) PROVE TimesTyped' /\ WithinTime'
  BY <1>3, OverTimes DEF data_4g_init, TimesTyped
<1>4. ASSUME NEW o \in AtOthers, at_4g_transmit_reset(o) PROVE TimesTyped' /\ WithinTime'
  <2>1. /\ at_queue' = [p \in Places |-> NoCmd] /\ cur_tick' = 0 /\ deadline' = Forgotten
        /\ torn' = ~(cur.state = {} /\ mem_used \subseteq OtherBuffers(AtOthers))
        /\ UNCHANGED <<cur, at_made>> /\ NoCmd.id = 0
    BY <1>4 DEF at_4g_transmit_reset, Torn, NoCmd
  <2>2. WithinTime'
    BY <2>1 DEF WithinTime, Forgotten
  <2> QED
    BY <2>1, <2>2 DEF TimesTyped, Forgotten
<1> QED
  BY <1>1, <1>2, <1>3, <1>4 DEF AtOther

LEMMA RestInTime ==
  ASSUME TimesTyped, WithinTime, ClientsDone \/ UNCHANGED atVars
  PROVE  TimesTyped' /\ WithinTime'
<1>1. /\ UNCHANGED <<at_queue, cur, cur_tick, at_made, deadline, torn>>
      /\ at_step = "monitor" <=> at_step' = "monitor"
  BY DEF ClientsDone, atVars, at_told
<1>2. CurrentLeft' = CurrentLeft
  BY <1>1 DEF CurrentLeft
<1> QED
  BY <1>1, <1>2 DEF TimesTyped, WithinTime, Has, Left

LEMMA InTimeInit == AtInit => TimesTyped /\ WithinTime
<1>1. 0 <= MaxCmds /\ NoCmd.id = 0
  BY AtAssumption DEF NoCmd
<1> QED
  BY <1>1, NobodyTimes DEF AtInit, TimesTyped, WithinTime

(* Every client is told the end of its command within the time of all its  *)
(* retries, however the command shares it between a queue and the UART.    *)
THEOREM ClientsAreAnswered == AtSpec => []AnsweredInTime
<1>1. AtSpec => []AtInv
  BY AtInitHolds, AtStepHolds, PTL DEF AtSpec
<1>2. AtInv /\ TimesTyped /\ WithinTime /\ [AtNext]_atVars => (TimesTyped /\ WithinTime)'
  BY UartInTime, RecvInTime, TimeoutInTime, MonitorInTime, PutInTime, DirectInTime, SendInTime,
     ResetInTime, AtOtherInTime, RestInTime DEF AtInv, AtNext
<1>3. TimesTyped => AnsweredInTime
  BY DEF TimesTyped, AnsweredInTime
<1> QED
  BY <1>1, <1>2, <1>3, InTimeInit, PTL DEF AtSpec
-----------------------------------------------------------------------------
(* The answers.  A command is in one place only, or current, until its     *)
(* client was told - or was answered early.                                *)
IdOf(h) == IF h = 0 THEN cur.id ELSE at_queue[h].id

Untold ==
  /\ answers \in [Cmds -> Nat]
  /\ \A g, h \in Holders : g # h /\ IdOf(g) = IdOf(h) => IdOf(g) = 0
  /\ \A c \in Cmds \ early :
       answers[c] = 0 \/ (answers[c] = 1 /\ c <= at_made /\ \A h \in Holders : IdOf(h) # c)

LEMMA IdsAre ==
  ASSUME AtTyped, TimesTyped, NEW h \in Holders
  PROVE  IdOf(h) \in Nat /\ IdOf(h) <= at_made
<1>1. CASE h = 0
  BY <1>1, CurrentIs DEF IdOf, AtTyped, TimesTyped
<1>2. CASE h # 0
  <2>1. h \in Places /\ at_made \in Nat /\ NoCmd.id = 0
    BY <1>2 DEF Holders, AtTyped, NoCmd
  <2> QED
    BY <1>2, <2>1, PlaceIs, QueuedIs DEF IdOf, TimesTyped
<1> QED
  BY <1>1, <1>2

(* Commands end, and the client of one that ends may be told.              *)
LEMMA EndsTold ==
  ASSUME AtTyped, TimesTyped, Untold, \A h \in Holders : IdOf(h)' \in {0, IdOf(h)},
         at_made' = at_made, early \subseteq early', answers' \in [Cmds -> Nat],
         \A c \in Cmds \ early' :
           \/ answers'[c] = answers[c]
           \/ /\ answers[c] < 2 => answers'[c] = answers[c] + 1
              /\ \E h \in Holders : IdOf(h) = c /\ IdOf(h)' = 0
  PROVE  Untold'
<1>1. \A g, h \in Holders : g # h /\ IdOf(g)' = IdOf(h)' => IdOf(g)' = 0
  BY DEF Untold
<1>2. ASSUME NEW c \in Cmds \ early'
      PROVE  \/ answers'[c] = 0
             \/ answers'[c] = 1 /\ c <= at_made' /\ \A h \in Holders : IdOf(h)' # c
  <2>1. c \notin early /\ c # 0
    BY CmdsAre
  <2>2. CASE answers'[c] = answers[c]
    BY <2>1, <2>2 DEF Untold
  <2>3. ASSUME answers[c] < 2 => answers'[c] = answers[c] + 1,
               NEW h \in Holders, IdOf(h) = c, IdOf(h)' = 0
        PROVE  answers'[c] = 1 /\ c <= at_made' /\ \A g \in Holders : IdOf(g)' # c
    <3>1. answers[c] = 0 /\ c <= at_made
      BY <2>1, <2>3, IdsAre DEF Untold
    <3>2. ASSUME NEW g \in Holders PROVE IdOf(g)' # c
      BY <2>1, <2>3 DEF Untold
    <3> QED
      BY <2>3, <3>1, <3>2
  <2> QED
    BY <2>2, <2>3
<1> QED
  BY <1>1, <1>2 DEF Untold

(* A new command.                                                          *)
LEMMA NewUntold ==
  ASSUME AtTyped, TimesTyped, Untold, NEW h \in Holders, IdOf(h)' = at_made + 1,
         \A g \in Holders : g # h => IdOf(g)' = IdOf(g),
         at_made' = at_made + 1, UNCHANGED <<answers, early>>
  PROVE  Untold'
<1>1. at_made \in Nat
  BY DEF AtTyped
<1>2. ASSUME NEW f \in Holders, NEW g \in Holders, f # g, IdOf(f)' = IdOf(g)'
      PROVE  IdOf(f)' = 0
  <2>1. f # h /\ g # h
    BY <1>1, <1>2, IdsAre
  <2> QED
    BY <1>2, <2>1 DEF Untold
<1>3. ASSUME NEW c \in Cmds \ early'
      PROVE  \/ answers'[c] = 0
             \/ answers'[c] = 1 /\ c <= at_made' /\ \A g \in Holders : IdOf(g)' # c
  <2>1. c \in Nat
    BY CmdsAre
  <2>2. CASE answers[c] = 0
    BY <2>2
  <2>3. CASE answers[c] = 1 /\ c <= at_made /\ \A g \in Holders : IdOf(g) # c
    <3>1. c <= at_made' /\ c # at_made + 1
      BY <1>1, <2>1, <2>3
    <3> QED
      BY <2>3, <3>1
  <2> QED
    BY <2>2, <2>3 DEF Untold
<1> QED
  BY <1>2, <1>3 DEF Untold

(* The ids of the holders that a step leaves alone.                        *)
LEMMA SameIds ==
  /\ at_queue' = at_queue => \A h \in Holders : h # 0 => IdOf(h)' = IdOf(h)
  /\ cur' = cur => IdOf(0)' = IdOf(0)
  /\ cur' = Nobody => IdOf(0)' = 0
  /\ IdOf(0) = cur.id /\ IdOf(0)' = cur'.id /\ 0 \in Holders
  BY NobodyTimes DEF IdOf, Holders

LEMMA UartTold ==
  ASSUME AtTyped, TimesTyped, Untold, UartDone
  PROVE  Untold'
<1>1. cur \in Current /\ UNCHANGED <<at_queue, at_made, answers, early>>
  BY DEF AtTyped, UartDone
<1>2. IdOf(0)' \in {0, IdOf(0)}
  <2>1. cur'.id = cur.id \/ cur' = Nobody
    BY <1>1 DEF UartDone, Over, Current
  <2> QED
    BY <2>1, SameIds
<1>3. \A h \in Holders : IdOf(h)' \in {0, IdOf(h)}
  BY <1>1, <1>2, SameIds
<1> QED
  BY <1>1, <1>3, EndsTold DEF Untold

(* The current command's client is told; the command is over or was        *)
(* answered early.                                                         *)
LEMMA CurrentTold ==
  ASSUME AtTyped, TimesTyped, Untold, UNCHANGED <<at_queue, at_made>>, Answered(cur.id),
         cur' = Nobody \/ (cur'.id = cur.id /\ cur.id \in early'), early \subseteq early'
  PROVE  Untold'
<1>1. \A h \in Holders : IdOf(h)' \in {0, IdOf(h)}
  BY SameIds
<1>2. answers' = [answers EXCEPT ![cur.id] = IF answers[cur.id] < 2 THEN answers[cur.id] + 1 ELSE 2]
  BY DEF Answered
<1>3. answers' \in [Cmds -> Nat]
  <2>1. \A c \in Cmds : answers[c] \in Nat /\ answers[c] + 1 \in Nat
    BY DEF Untold
  <2> QED
    BY <1>2, <2>1 DEF Untold
<1>4. ASSUME NEW c \in Cmds \ early'
      PROVE  \/ answers'[c] = answers[c]
             \/ /\ answers[c] < 2 => answers'[c] = answers[c] + 1
                /\ \E h \in Holders : IdOf(h) = c /\ IdOf(h)' = 0
  <2>1. CASE c = cur.id
    <3>1. cur' = Nobody /\ (answers[c] < 2 => answers'[c] = answers[c] + 1)
      BY <1>2, <1>4, <2>1 DEF Untold
    <3> QED
      BY <2>1, <3>1, SameIds
  <2>2. CASE c # cur.id
    BY <1>2, <2>2 DEF Untold
  <2> QED
    BY <2>1, <2>2
<1> QED
  BY <1>1, <1>3, <1>4, EndsTold

LEMMA RecvTold ==
  ASSUME AtTyped, TimesTyped, Untold, at_4g_transmit_check_recv
  PROVE  Untold'
<1>1. cur \in Current /\ UNCHANGED <<at_queue, at_made>>
  BY DEF AtTyped, at_4g_transmit_check_recv
<1>2. CASE cur'.id = cur.id /\ UNCHANGED <<answers, early>>
  <2>1. \A h \in Holders : IdOf(h)' \in {0, IdOf(h)}
    BY <1>1, <1>2, SameIds
  <2> QED
    BY <1>1, <1>2, <2>1, EndsTold DEF Untold
<1>3. ASSUME NEW race \in BOOLEAN, AnswerTaken(race), Answered(cur.id),
             early' = IF cur.state = {"WAITRESP"} THEN early ELSE early \cup {cur.id}
      PROVE  Untold'
  <2>1. CASE cur.state = {"WAITRESP"}
    BY <1>1, <1>3, <2>1, CurrentTold DEF AnswerTaken, Over
  <2>2. CASE cur.state # {"WAITRESP"}
    <3>1. cur'.id = cur.id
      BY <1>1, <1>3, <2>2 DEF AnswerTaken, Current
    <3> QED
      BY <1>1, <1>3, <2>2, <3>1, CurrentTold
  <2> QED
    BY <2>1, <2>2
<1>4. [cur EXCEPT !.known = FALSE].id = cur.id
  BY <1>1 DEF Current
<1> QED
  BY <1>2, <1>3, <1>4 DEF at_4g_transmit_check_recv, at_told

LEMMA TimeoutTold ==
  ASSUME AtTyped, TimesTyped, Untold, at_4g_transmit_check_timeout
  PROVE  Untold'
<1>1. cur \in Current /\ UNCHANGED <<at_queue, at_made, early>>
  BY DEF AtTyped, at_4g_transmit_check_timeout
<1>2. CASE cur'.id = cur.id /\ UNCHANGED answers
  <2>1. \A h \in Holders : IdOf(h)' \in {0, IdOf(h)}
    BY <1>1, <1>2, SameIds
  <2> QED
    BY <1>1, <1>2, <2>1, EndsTold DEF Untold
<1>3. CASE Over /\ Answered(cur.id)
  BY <1>1, <1>3, CurrentTold DEF Over
<1>4. CASE cur.state # {} /\ UNCHANGED answers
           /\ dev_4g_check_send([cur EXCEPT !.state = cur.bak, !.retry = cur.retry - 1])
  <2> DEFINE n == [cur EXCEPT !.state = cur.bak, !.retry = cur.retry - 1]
  <2>1. n \in Current /\ n.state = cur.bak /\ n.id = cur.id
    <3>1. cur.retry - 1 \in Int
      BY <1>1 DEF Current
    <3> QED
      BY <1>1, <3>1 DEF Current
  <2>2. "WAITSEND" \in n.state
    BY <1>4, <2>1 DEF AtTyped, Sendable
  <2>3. dev_4g_check_send(n)
    BY <1>4
  <2> HIDE DEF n
  <2>4. cur'.id = cur.id
    BY <2>1, <2>2, <2>3, SentOffTimes
  <2> QED
    BY <1>2, <1>4, <2>4
<1> QED
  BY <1>2, <1>3, <1>4 DEF at_4g_transmit_check_timeout

LEMMA MonitorTold ==
  ASSUME AtTyped, TimesTyped, Untold, at_4g_transmit_monitor_queue
  PROVE  Untold'
<1> DEFINE queued == {p \in Places : at_queue[p].id # 0}
           rest == [p \in Places |-> IF p \in queued THEN Waited(at_queue[p]) ELSE NoCmd]
           gone == {p \in queued : rest[p] = NoCmd}
           over == {at_queue[p].id : p \in gone}
<1>1. /\ at_queue' = rest /\ UNCHANGED <<cur, at_made, early>>
      /\ answers' = [c \in Cmds |-> IF c \in over THEN answers[c] + 1 ELSE answers[c]]
  BY DEF at_4g_transmit_monitor_queue
<1>2. NoCmd.id = 0
  BY DEF NoCmd
<1>3. ASSUME NEW p \in Places
      PROVE  /\ p \in Holders /\ IdOf(p) = at_queue[p].id /\ IdOf(p)' = rest[p].id
             /\ rest[p].id \in {0, at_queue[p].id}
  <2>1. p \in Holders /\ IdOf(p) = at_queue[p].id /\ IdOf(p)' = at_queue'[p].id
    BY PlacesAre DEF Holders, IdOf
  <2>2. CASE p \in queued
    <3>1. at_queue[p] \in Queued /\ at_queue[p].ticks > 0 /\ at_queue[p].ticks <= at_queue[p].org
          /\ at_queue[p].retry >= 0
      BY <2>2, PlaceIs DEF TimesTyped
    <3>2. rest[p] = Waited(at_queue[p])
      BY <2>2
    <3> HIDE DEF rest
    <3> QED
      BY <1>1, <1>2, <2>1, <3>1, <3>2, WaitedTimes
  <2>3. CASE p \notin queued
    BY <1>1, <1>2, <2>1, <2>3
  <2> QED
    BY <2>2, <2>3
<1>4. \A h \in Holders : IdOf(h)' \in {0, IdOf(h)}
  <2>1. ASSUME NEW h \in Holders PROVE IdOf(h)' \in {0, IdOf(h)}
    <3>1. CASE h = 0
      BY <1>1, <3>1, SameIds
    <3>2. CASE h \in Places
      BY <1>3, <3>2
    <3> QED
      BY <3>1, <3>2 DEF Holders
  <2> QED
    BY <2>1
<1>5. answers' \in [Cmds -> Nat]
  <2>1. \A c \in Cmds : answers[c] \in Nat /\ answers[c] + 1 \in Nat
    BY DEF Untold
  <2> QED
    BY <1>1, <2>1
<1>6. ASSUME NEW c \in Cmds
      PROVE  \/ answers'[c] = answers[c]
             \/ /\ answers[c] < 2 => answers'[c] = answers[c] + 1
                /\ \E h \in Holders : IdOf(h) = c /\ IdOf(h)' = 0
  <2>1. CASE c \in over
    <3>1. PICK p \in gone : at_queue[p].id = c
      BY <2>1
    <3>2. p \in Places /\ rest[p] = NoCmd
      OBVIOUS
    <3>3. p \in Holders /\ IdOf(p) = c /\ IdOf(p)' = 0
      BY <1>2, <1>3, <3>1, <3>2
    <3> QED
      BY <1>1, <2>1, <3>3
  <2>2. CASE c \notin over
    BY <1>1, <2>2
  <2> QED
    BY <2>1, <2>2
<1> QED
  BY <1>1, <1>4, <1>5, <1>6, EndsTold

LEMMA PutTold ==
  ASSUME AtTyped, TimesTyped, Untold, NEW cmd \in AtCommandSet, NEW p \in Places,
         NEW b \in 1..AtBuffers, Put(p, at_made + 1, b, cmd), at_made' = at_made + 1,
         UNCHANGED <<cur, answers, early>>
  PROVE  Untold'
<1>1. at_made + 1 \in Nat \ {0} /\ p \in Holders /\ p # 0
  BY PlacesAre DEF AtTyped, Holders
<1>2. /\ at_queue'[p].id = at_made + 1
      /\ \A q \in Places : q # p => at_queue'[q] = at_queue[q]
  BY <1>1, PutIs
<1>3. IdOf(p)' = at_made + 1
  BY <1>1, <1>2 DEF IdOf
<1>4. \A g \in Holders : g # p => IdOf(g)' = IdOf(g)
  BY <1>2 DEF IdOf, Holders
<1> QED
  BY <1>1, <1>3, <1>4, NewUntold

LEMMA PutcmdTold ==
  ASSUME AtTyped, TimesTyped, Untold, NEW cmd \in AtCommandSet, at_4g_transmit_putcmd(cmd)
  PROVE  Untold'
<1>1. UNCHANGED <<cur, answers, early>> /\ at_made' = at_made + 1
  BY DEF at_4g_transmit_putcmd, Expects
<1>2. PICK p \in Places, b \in 1..AtBuffers : Put(p, at_made + 1, b, cmd)
  BY DEF at_4g_transmit_putcmd, First, FreePlaces, FreeBuffers
<1> QED
  BY <1>1, <1>2, PutTold

LEMMA DirectTold ==
  ASSUME AtTyped, TimesTyped, Untold, NEW ticks, at_4g_transmit_direct(ticks)
  PROVE  Untold'
<1>1. /\ UNCHANGED <<at_queue, answers, early>> /\ at_made' = at_made + 1
      /\ cur.state = {} /\ cur'.id = at_made + 1
  BY DEF at_4g_transmit_direct, Expects
<1>2. IdOf(0) = 0 /\ IdOf(0)' = at_made + 1 /\ 0 \in Holders
  BY <1>1, SameIds DEF TimesTyped
<1> QED
  BY <1>1, <1>2, SameIds, NewUntold

LEMMA SendTold ==
  ASSUME AtTyped, TimesTyped, Untold, at_4g_transmit_check_send
  PROVE  Untold'
<1>1. UNCHANGED <<at_made, answers, early>>
  BY DEF at_4g_transmit_check_send, at_told
<1>2. CASE UNCHANGED <<at_queue, cur>>
  BY <1>1, <1>2 DEF Untold, IdOf
<1>3. ASSUME NEW p \in Places, at_queue[p].id # 0, cur.state = {},
             dev_4g_check_send(Sent(at_queue[p], AtPri[p])),
             at_queue' = [at_queue EXCEPT ![p] = NoCmd]
      PROVE  Untold'
  <2> DEFINE e == at_queue[p]
             n == Sent(e, AtPri[p])
  <2>1. e \in Queued
    BY <1>3, PlaceIs
  <2>2. AtPri[p] \in Levels
    BY AtAssumption DEF Places, Levels
  <2>3. /\ e.id \in Nat /\ e.mem \in 0..AtBuffers /\ e.kind \in Kinds
        /\ e.ticks \in Int /\ e.retry \in Int
    BY <2>1, QueuedIs
  <2>4. n \in Current /\ "WAITSEND" \in n.state /\ n.id = e.id
    BY <2>2, <2>3 DEF Sent, Current, Request, Sending
  <2>5. cur'.id = e.id
    BY <1>3, <2>4, SentOffTimes
  <2>6. p \in Holders /\ p # 0 /\ IdOf(p) = e.id /\ IdOf(p)' = 0
    BY <1>3, PlacesAre DEF Holders, IdOf, AtTyped, NoCmd
  <2>7. IdOf(0) = 0 /\ IdOf(0)' = IdOf(p)
    BY <1>3, <2>5, <2>6, SameIds DEF TimesTyped
  <2>8. \A g \in Holders : g # p /\ g # 0 => IdOf(g)' = IdOf(g)
    BY <1>3 DEF IdOf, Holders, AtTyped
  <2>9. \A f, g \in Holders : f # g /\ IdOf(f)' = IdOf(g)' => IdOf(f)' = 0
    BY <2>6, <2>7, <2>8 DEF Untold
  <2>10. ASSUME NEW c \in Cmds, \A g \in Holders : IdOf(g) # c
         PROVE  \A g \in Holders : IdOf(g)' # c
    BY <2>6, <2>7, <2>8, <2>10, CmdsAre
  <2> QED
    BY <1>1, <2>9, <2>10 DEF Untold
<1> QED
  BY <1>2, <1>3 DEF at_4g_transmit_check_send, First

LEMMA ResetTold ==
  ASSUME AtTyped, TimesTyped, Untold, mgr_4g_reset
  PROVE  Untold'
<1>1. \A h \in Holders : IdOf(h)' = 0
  BY NobodyTimes DEF mgr_4g_reset, IdOf, Holders, NoCmd
<1>2. UNCHANGED <<at_made, answers, early>>
  BY DEF mgr_4g_reset
<1> QED
  BY <1>1, <1>2, EndsTold DEF Untold

LEMMA AtOtherTold ==
  ASSUME AtTyped, TimesTyped, Untold, AtOther
  PROVE  Untold'
<1>1. ASSUME NEW o \in AtOthers, NEW cmd \in AtCommandSet, OtherPuts(o, cmd)
      PROVE  Untold'
  <2> DEFINE b == other[o].mem
             p == other[o].place
  <2>1. /\ UNCHANGED <<cur, answers, early>> /\ at_made' = at_made + 1
        /\ Put(p, at_made + 1, b, cmd) /\ other[o].pc = "placed"
    BY <1>1 DEF OtherPuts, at_4g
  <2>2. b \in 1..AtBuffers /\ p \in Places
    BY <2>1, ElsewhereIs
  <2> HIDE DEF b, p
  <2> QED
    BY <2>1, <2>2, PutTold
<1>2. ASSUME NEW o \in AtOthers,
             OtherFinds(o) \/ OtherMarks(o) \/ sharemem_4g_reinit(o)
             \/ \E cmd \in AtCommandSet : OtherPlaces(o, cmd.pri)
      PROVE  Untold'
  <2>1. UNCHANGED <<at_queue, cur, at_made, answers, early>>
    BY <1>2 DEF OtherFinds, OtherMarks, sharemem_4g_reinit, OtherPlaces, at_4g, at_told
  <2> QED
    BY <2>1 DEF Untold, IdOf
<1>3. ASSUME NEW o \in AtOthers, data_4g_init(o) \/ at_4g_transmit_reset(o)
      PROVE  Untold'
  <2>1. UNCHANGED <<at_made, answers, early>>
    BY <1>3 DEF data_4g_init, at_4g_transmit_reset
  <2>2. \A h \in Holders : IdOf(h)' \in {0, IdOf(h)}
    BY <1>3, SameIds DEF data_4g_init, at_4g_transmit_reset, IdOf, Holders, NoCmd
  <2> QED
    BY <2>1, <2>2, EndsTold DEF Untold
<1> QED
  BY <1>1, <1>2, <1>3 DEF AtOther

(* A client is told the end of a command once, unless the command was      *)
(* answered before all of it was sent.                                     *)
THEOREM ClientsAreAnsweredOnce == AtSpec => []AnsweredOnce
<1>1. AtSpec => []AtInv
  BY AtInitHolds, AtStepHolds, PTL DEF AtSpec
<1> DEFINE Inv == TimesTyped /\ WithinTime /\ Untold
<1>2. AtInit => Inv
  <2>1. AtInit => Untold
    BY NobodyTimes DEF AtInit, Untold, IdOf, Holders, NoCmd
  <2> QED
    BY <2>1, InTimeInit
<1>3. AtInv /\ Inv /\ [AtNext]_atVars => Inv'
  <2>1. AtInv /\ Inv /\ [AtNext]_atVars => (TimesTyped /\ WithinTime)'
    BY UartInTime, RecvInTime, TimeoutInTime, MonitorInTime, PutInTime, DirectInTime, SendInTime,
       ResetInTime, AtOtherInTime, RestInTime DEF AtInv, AtNext
  <2>2. Untold /\ (ClientsDone \/ UNCHANGED atVars) => Untold'
    BY DEF ClientsDone, atVars, at_told, Untold, IdOf
  <2>3. AtInv /\ Inv /\ [AtNext]_atVars => Untold'
    BY <2>2, UartTold, RecvTold, TimeoutTold, MonitorTold, PutcmdTold, DirectTold, SendTold,
       ResetTold, AtOtherTold DEF AtInv, AtNext
  <2> QED
    BY <2>1, <2>3
<1>4. Inv => AnsweredOnce
  <2>1. \A c \in Cmds \ early : Untold => answers[c] <= 1
    BY DEF Untold
  <2> QED
    BY <2>1 DEF AnsweredOnce
<1> QED
  BY <1>1, <1>2, <1>3, <1>4, PTL DEF AtSpec
=============================================================================

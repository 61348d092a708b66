----------------------------- MODULE AtCommands -----------------------------
(***************************************************************************)
(* The AT command layer of the 4G modem: three queues of commands, the one *)
(* command under way (data_4g_cur_send), its answer, its timeouts and its  *)
(* retries (src/src/service/4g/4g_at_transmit.c), the UART that sends from *)
(* the command's buffer and reports the end in its interrupt (4g_dev.c,    *)
(* 4g_data.c), and the buffers (4g_sharememery.c).                         *)
(*                                                                         *)
(* The 4G task runs the steps of mgr_4g_all_period every 10 ms; between    *)
(* them, and inside one that changes the state of the command, the         *)
(* interrupt comes.  Times are counted in these periods.                   *)
(*                                                                         *)
(* Tasks of lower priority reset the layer (tbox_4g_reset, power_4g_wakeup *)
(* and their callers) and put commands (if_4g_ntp, if_4g_set_phone_num,    *)
(* power_4g_at_wakeup) without a lock: the 4G task, and each other, come   *)
(* between any two steps of theirs.                                        *)
(***************************************************************************)
EXTENDS Integers, Sequences, FiniteSets

CONSTANTS AtPri,       \* the priorities of the queues' places, in the order
                       \* check_send looks at them: high, mid, low
          AtBuffers,   \* number of buffers
          AtCommandSet, \* the commands of the clients, with their timeouts and retries
          AtTicks,     \* the timeouts of a socket's data
          AtOthers,    \* the other tasks that reset the layer and put commands
          MaxCmds,     \* bound on the commands of a behaviour
          MaxResets    \* bound on the resets

ASSUME AtAssumption == /\ AtPri \in Seq({"high", "mid", "low"})
                       /\ AtBuffers \in Nat /\ MaxCmds \in Nat /\ MaxResets \in Nat
                       /\ AtTicks \subseteq Nat \ {0}
                       /\ AtCommandSet \subseteq
                            [pri : {"high", "mid", "low"}, kind : {"order", "query", "quiet"},
                             ticks : Nat \ {0}, retry : Nat]

VARIABLES at_queue,    \* the places of the queues, NoCmd or a command
          cur,         \* data_4g_cur_send
          cur_tick,    \* at_4g_trans_current_tick
          mem_used,    \* sharemem_4g_mgr[].is_used
          at_uart,     \* the command whose bytes the UART sends, or 0
          at_irq,      \* the UART's interrupt is enabled
          at_step,     \* where the task is in its period
          other,       \* where the other tasks are, and what they found
          heard,       \* commands the modem has received and not answered
          at_made, at_resets,
          deadline,    \* history: periods in which a command is to be answered
          answers,     \* history: how often the command's resp was told an end
          early,       \* history: commands answered before they were sent
          torn         \* history: see Torn

atVars == <<at_queue, cur, cur_tick, mem_used, at_uart, at_irq, at_step, other,
            heard, at_made, at_resets, deadline, answers, early, torn>>
modem == <<at_uart, at_irq, heard>>
at_told == <<deadline, answers, early, torn>>
at_elsewhere == <<other, torn>>

Cmds == 1..MaxCmds
Places == DOMAIN AtPri
NoCmd == [id |-> 0]
Nobody == [id |-> 0, state |-> {}, bak |-> {}, mem |-> 0, pri |-> "low", kind |-> "none",
           ticks |-> 0, retry |-> 0, known |-> TRUE]

Elsewhere == [pc |-> "idle", mem |-> 0, place |-> 0]

(* The buffer of the current command, at 0, or of a place; 0 is none.       *)
Memory(h) == IF h = 0 THEN cur.mem ELSE IF at_queue[h].id = 0 THEN 0 ELSE at_queue[h].mem
Holders == Places \cup {0}

(* The search for a place or a buffer ends at the first one.               *)
First(S) == {x \in S : \A y \in S : x <= y}

Sending == {"WAITSEND", "WAITRESP"}
Request == {"REQ"} \cup Sending

AtInit ==
  /\ at_queue = [p \in Places |-> NoCmd]
  /\ cur = Nobody /\ cur_tick = 0
  /\ mem_used = {} /\ at_uart = 0 /\ at_irq = TRUE
  /\ at_step = "recv" /\ heard = {}
  /\ other = [o \in AtOthers |-> Elsewhere] /\ torn = FALSE
  /\ at_made = 0 /\ at_resets = 0
  /\ deadline = [c \in Cmds |-> 0] /\ answers = [c \in Cmds |-> 0] /\ early = {}

(* resp(TIMEOUT), resp(ABORT), or an answer that resp took.                *)
Answered(c) == /\ deadline' = [deadline EXCEPT ![c] = 0]
               /\ answers' = [answers EXCEPT ![c] = IF @ < 2 THEN @ + 1 ELSE 2]
-----------------------------------------------------------------------------
(* dev_4g_check_send with command n current: a UART that is busy, or a     *)
(* buffer that is free, leaves the request for the next timeout.           *)
dev_4g_check_send(n) ==
  IF at_uart # 0 \/ "REQ" \notin n.state \/ n.mem \notin mem_used
  THEN cur' = n /\ UNCHANGED <<at_uart, at_irq>>
  ELSE cur' = [n EXCEPT !.state = @ \ {"REQ"}] /\ at_uart' = n.id /\ at_irq' = FALSE

(* Wrong: the buffer is not given back. *)
OverUnfreed == cur' = Nobody /\ UNCHANGED mem_used

(* The command is over: its buffer is free again.                          *)
Over == cur' = Nobody /\ mem_used' = mem_used \ {cur.mem}

(* The interrupt of the last byte: data_4g_send_finish_ind.  It clears the *)
(* flag of the command that is current, whoever's bytes were sent.         *)
UartDone ==
  /\ at_uart # 0 /\ at_irq
  /\ at_uart' = 0 /\ heard' = heard \cup {at_uart}
  /\ LET rest == cur.state \ {"WAITSEND"}
     IN IF "WAITSEND" \in cur.state /\ rest = {}
        THEN Over /\ deadline' = [deadline EXCEPT ![cur.id] = 0]
        ELSE cur' = [cur EXCEPT !.state = rest] /\ UNCHANGED <<mem_used, deadline>>
  /\ UNCHANGED <<at_queue, cur_tick, at_irq, at_step, at_made, at_resets, answers, early,
                 at_elsewhere>>
-----------------------------------------------------------------------------
(* A line of the modem: the end, OK or an error, of the answer to a        *)
(* command it received, or a state it reports on its own.  resp of a query *)
(* knows its answer by its text, and only while resp_code is UNKNOWN: the  *)
(* code of a line it did not take stays and makes it miss the answer.      *)
(* resp of an order takes any OK, and every resp takes any error.          *)
IsTaken(line, c) ==
  \/ line = "error"
  \/ line = "ok" /\ cur.kind = "order"
  \/ line = "ok" /\ cur.kind = "query" /\ c = cur.id /\ cur.known /\ "WAITRESP" \in cur.state

(* Wrong: the command goes on waiting for its answer. *)
TakenStillWaits(race) == UNCHANGED <<cur, cur_tick, mem_used>>

(* The answer is taken: WAITRESP is cleared, and the command is over when  *)
(* its transmission is.  When the interrupt clears WAITSEND between the    *)
(* read and the write of the state, the write sets it again.               *)
AnswerTaken(race) ==
  IF cur.state = {"WAITRESP"}
  THEN Over /\ cur_tick' = 0
  ELSE cur' = [cur EXCEPT !.state = @ \ {"WAITRESP"}] /\ UNCHANGED <<cur_tick, mem_used>>

(* At most one line in a period, or none.  A line that comes while a       *)
(* command without resp is sent is passed to it through a NULL pointer     *)
(* (4g_at_transmit.c:1042); the model does not go on there.                *)
at_4g_transmit_check_recv ==
  /\ at_step = "recv" /\ at_step' = "timeout" /\ at_irq' = TRUE
  /\ \/ UNCHANGED <<cur, cur_tick, mem_used, at_uart, heard, deadline, answers, early>>
     \/ \E c \in heard \cup {0}, line \in {"ok", "error", "state"}, race \in BOOLEAN :
          /\ (line = "state") = (c = 0)
          /\ cur.state # {} => cur.kind # "quiet"
          /\ race => /\ at_uart # 0 /\ {"WAITSEND", "WAITRESP"} \subseteq cur.state
                     /\ IsTaken(line, c)
          /\ heard' = (heard \ {c}) \cup (IF race THEN {at_uart} ELSE {})
          /\ at_uart' = IF race THEN 0 ELSE at_uart
          /\ IF cur.state = {}
             THEN UNCHANGED <<cur, cur_tick, mem_used, deadline, answers, early>>
             ELSE IF IsTaken(line, c)
             THEN /\ AnswerTaken(race) /\ Answered(cur.id)
                  /\ early' = IF cur.state = {"WAITRESP"} THEN early ELSE early \cup {cur.id}
             ELSE /\ cur' = [cur EXCEPT !.known = FALSE]
                  /\ UNCHANGED <<cur_tick, mem_used, deadline, answers, early>>
  /\ UNCHANGED <<at_queue, at_made, at_resets, at_elsewhere>>

HigherWaits ==
  \E p \in Places : /\ at_queue[p].id # 0
                    /\ \/ cur.pri = "low" /\ AtPri[p] # "low"
                       \/ cur.pri = "mid" /\ AtPri[p] = "high"

(* The time of the current command is over: it is told so, or told that it *)
(* gives way to one of higher priority, or sent again.                     *)
at_4g_transmit_check_timeout ==
  /\ at_step = "timeout" /\ at_step' = "monitor"
  /\ IF cur.state = {} \/ cur_tick # 1
     THEN /\ cur_tick' = IF cur.state = {} \/ cur_tick = 0 THEN 0 ELSE cur_tick - 1
          /\ UNCHANGED <<cur, mem_used, at_uart, at_irq, deadline, answers>>
     ELSE IF cur.retry = 0 \/ HigherWaits
     THEN /\ Over /\ cur_tick' = 0 /\ Answered(cur.id)
          /\ UNCHANGED <<at_uart, at_irq>>
     ELSE /\ dev_4g_check_send([cur EXCEPT !.state = cur.bak, !.retry = @ - 1])
          /\ cur_tick' = cur.ticks + 1
          /\ UNCHANGED <<mem_used, deadline, answers>>
  /\ UNCHANGED <<at_queue, heard, at_made, at_resets, early, at_elsewhere>>

(* Wrong: the retries do not become fewer while a command waits. *)
WaitsForGood(e) ==
  IF e.ticks > 1 THEN [e EXCEPT !.ticks = @ - 1] ELSE [e EXCEPT !.ticks = e.org]

(* A command that waits uses up its time and its retries; the time it is   *)
(* sent with is what is left.                                              *)
Waited(e) ==
  IF e.ticks > 1 THEN [e EXCEPT !.ticks = @ - 1]
  ELSE IF e.retry = 0 THEN NoCmd
  ELSE [e EXCEPT !.ticks = e.org, !.retry = @ - 1]

at_4g_transmit_monitor_queue ==
  LET queued == {p \in Places : at_queue[p].id # 0}
      rest == [p \in Places |-> IF p \in queued THEN Waited(at_queue[p]) ELSE NoCmd]
      gone == {p \in queued : rest[p] = NoCmd}
      over == {at_queue[p].id : p \in gone}
  IN /\ at_step = "monitor" /\ at_step' = "clients"
     /\ at_queue' = rest
     /\ mem_used' = mem_used \ {at_queue[p].mem : p \in gone}
     /\ answers' = [c \in Cmds |-> IF c \in over THEN answers[c] + 1 ELSE answers[c]]
     /\ deadline' = [c \in Cmds |-> IF c \in over THEN 0
                               ELSE IF deadline[c] = 1 THEN -1
                               ELSE IF deadline[c] > 1 THEN deadline[c] - 1 ELSE deadline[c]]
     /\ UNCHANGED <<cur, cur_tick, modem, at_made, at_resets, early, at_elsewhere>>
-----------------------------------------------------------------------------
(* A client of the 4G task allocates a buffer, fills it and puts the       *)
(* command into the first free place of its priority; without a buffer or  *)
(* a place nothing changes.  It is to be told the end when every retry     *)
(* timed out, unless the layer is torn.                                    *)
FreePlaces(pri) == {p \in Places : AtPri[p] = pri /\ at_queue[p] = NoCmd}
FreeBuffers == (1..AtBuffers) \ mem_used

Put(p, c, b, cmd) ==
  at_queue' = [at_queue EXCEPT ![p] = [id |-> c, mem |-> b, kind |-> cmd.kind, ticks |-> cmd.ticks,
                                       org |-> cmd.ticks, retry |-> cmd.retry]]

AllPeriods(cmd) == (cmd.ticks + 1) * (cmd.retry + 1)

Expects(c, periods) ==
  /\ at_made' = c
  /\ deadline' = [deadline EXCEPT ![c] = IF torn THEN 0 ELSE periods]

at_4g_transmit_putcmd(cmd) ==
  LET c == at_made + 1
  IN /\ at_step = "clients" /\ c \in Cmds
     /\ \E p \in First(FreePlaces(cmd.pri)), b \in First(FreeBuffers) :
          /\ Put(p, c, b, cmd)
          /\ mem_used' = mem_used \cup {b}
     /\ Expects(c, AllPeriods(cmd))
     /\ UNCHANGED <<cur, cur_tick, modem, at_step, at_resets, answers, early, at_elsewhere>>

(* net_4g_send_data: the data of a socket goes past the queues.  When the  *)
(* UART is busy the client is told of a failure, and the command stays.    *)
at_4g_transmit_direct(ticks) ==
  LET c == at_made + 1
  IN /\ at_step = "clients" /\ c \in Cmds /\ cur.state = {}
     /\ cur' = [id |-> c, state |-> Sending, bak |-> Sending, mem |-> 0, pri |-> "direct",
                kind |-> "query", ticks |-> ticks, retry |-> 0, known |-> TRUE]
     /\ cur_tick' = ticks + 1
     /\ IF at_uart = 0 THEN at_uart' = c /\ at_irq' = FALSE ELSE UNCHANGED <<at_uart, at_irq>>
     /\ Expects(c, ticks + 1)
     /\ UNCHANGED <<at_queue, mem_used, at_step, heard, at_resets, answers, early,
                    at_elsewhere>>

(* The command of a place, as it becomes the current one.                  *)
Sent(e, pri) ==
  LET flags == IF e.kind = "quiet" THEN Request \ {"WAITRESP"} ELSE Request
  IN [id |-> e.id, state |-> flags, bak |-> flags, mem |-> e.mem, pri |-> pri,
      kind |-> e.kind, ticks |-> e.ticks, retry |-> e.retry, known |-> TRUE]

ClientsDone == /\ at_step = "clients" /\ at_step' = "send"
               /\ UNCHANGED <<at_queue, cur, cur_tick, mem_used, modem, other, at_made,
                              at_resets, at_told>>

at_4g_transmit_check_send ==
  LET queued == {p \in Places : at_queue[p].id # 0}
  IN /\ at_step = "send" /\ at_step' = "recv"
     /\ IF cur.state # {} \/ queued = {}
        THEN UNCHANGED <<at_queue, cur, cur_tick, at_uart, at_irq>>
        ELSE \E p \in First(queued) :
               /\ dev_4g_check_send(Sent(at_queue[p], AtPri[p]))
               /\ cur_tick' = at_queue[p].ticks + 1
               /\ at_queue' = [at_queue EXCEPT ![p] = NoCmd]
     /\ UNCHANGED <<mem_used, heard, other, at_made, at_resets, at_told>>

AtReset == at_resets < MaxResets /\ at_resets' = at_resets + 1
Forgotten == [c \in Cmds |-> 0]

(* mgr_4g_reset in the 4G task: every command is forgotten and none is     *)
(* told; the UART sends on.                                                *)
mgr_4g_reset ==
  /\ AtReset
  /\ at_queue' = [p \in Places |-> NoCmd] /\ cur' = Nobody /\ cur_tick' = 0
  /\ mem_used' = {} /\ deadline' = Forgotten /\ torn' = FALSE
  /\ UNCHANGED <<modem, at_step, other, at_made, answers, early>>
-----------------------------------------------------------------------------
(* The other tasks.  The layer is torn when what such a task found free is *)
(* not free any more when it takes it, or when a reset of it leaves a      *)
(* command current, whose time it set to 0, or a buffer used: a command is *)
(* then lost or never over, a buffer leaks or has two owners, and nobody   *)
(* can count on an answer, until a reset that nothing comes between.       *)
Torn(now, deadlines) == torn' = now /\ deadline' = IF now THEN Forgotten ELSE deadlines

Goes(o, pc, b, p) == other' = [other EXCEPT ![o] = [pc |-> pc, mem |-> b, place |-> p]]
OtherBuffers(S) == {other[o].mem : o \in {q \in S : other[q].pc \in {"marked", "placed"}}}
Held == {Memory(h) : h \in Holders}
at_4g == <<cur, cur_tick, modem, at_step, answers, early>>

(* sharemem_4g_alloc finds a buffer, and marks the one it found.           *)
OtherFinds(o) ==
  /\ other[o].pc = "idle" /\ at_made < MaxCmds
  /\ \E b \in First(FreeBuffers) : Goes(o, "found", b, 0)
  /\ UNCHANGED <<at_queue, mem_used, at_made, at_resets, at_told, at_4g>>

OtherMarks(o) ==
  LET b == other[o].mem
  IN /\ other[o].pc = "found"
     /\ mem_used' = mem_used \cup {b}
     /\ Goes(o, "marked", b, 0)
     /\ Torn(torn \/ b \in mem_used, deadline)
     /\ UNCHANGED <<at_queue, at_made, at_resets, at_4g>>

(* The client gives up when sharemem_4g_getmem finds the buffer free       *)
(* again; at_4g_transmit_putcmd then looks for a place, and without one    *)
(* the client frees the buffer.                                            *)
OtherPlaces(o, pri) ==
  LET b == other[o].mem
  IN /\ other[o].pc = "marked"
     /\ IF b \notin mem_used \/ FreePlaces(pri) = {}
        THEN /\ mem_used' = mem_used \ {b}
             /\ Goes(o, "idle", 0, 0)
             /\ Torn(torn \/ b \in mem_used \cap Held, deadline)
        ELSE /\ \E p \in First(FreePlaces(pri)) : Goes(o, "placed", b, p)
             /\ UNCHANGED <<mem_used, torn, deadline>>
     /\ UNCHANGED <<at_queue, at_made, at_resets, at_4g>>

(* The command is copied to the place, which is used from then on.         *)
OtherPuts(o, cmd) ==
  LET p == other[o].place
      b == other[o].mem
      c == at_made + 1
  IN /\ other[o].pc = "placed" /\ AtPri[p] = cmd.pri /\ c \in Cmds
     /\ Put(p, c, b, cmd)
     /\ at_made' = c
     /\ Goes(o, "idle", 0, 0)
     /\ Torn(torn \/ at_queue[p] # NoCmd \/ b \notin mem_used \/ b \in Held,
             [deadline EXCEPT ![c] = AllPeriods(cmd)])
     /\ UNCHANGED <<mem_used, at_resets, at_4g>>

(* mgr_4g_reset in another task: data_4g_init, sharemem_4g_reinit,         *)
(* at_4g_transmit_reset.                                                   *)
data_4g_init(o) ==
  /\ other[o].pc = "idle" /\ AtReset
  /\ cur' = Nobody
  /\ deadline' = [deadline EXCEPT ![cur.id] = 0]
  /\ Goes(o, "reinit", 0, 0)
  /\ UNCHANGED <<at_queue, cur_tick, mem_used, modem, at_step, at_made, answers, early, torn>>

sharemem_4g_reinit(o) ==
  /\ other[o].pc = "reinit"
  /\ mem_used' = {}
  /\ Goes(o, "transmit", 0, 0)
  /\ UNCHANGED <<at_queue, at_made, at_resets, at_told, at_4g>>

at_4g_transmit_reset(o) ==
  /\ other[o].pc = "transmit"
  /\ at_queue' = [p \in Places |-> NoCmd] /\ cur_tick' = 0
  /\ Goes(o, "idle", 0, 0)
  /\ Torn(~(cur.state = {} /\ mem_used \subseteq OtherBuffers(AtOthers)), Forgotten)
  /\ UNCHANGED <<cur, mem_used, modem, at_step, at_made, at_resets, answers, early>>

(* They run while the 4G task, of higher priority, waits: for its next     *)
(* period, or in a client of its own.                                      *)
AtOther ==
  at_step \in {"recv", "clients"} /\ \E o \in AtOthers :
    \/ OtherFinds(o) \/ OtherMarks(o)
    \/ \E cmd \in AtCommandSet : OtherPlaces(o, cmd.pri) \/ OtherPuts(o, cmd)
    \/ data_4g_init(o) \/ sharemem_4g_reinit(o) \/ at_4g_transmit_reset(o)
-----------------------------------------------------------------------------
AtNext ==
  \/ at_4g_transmit_check_recv \/ at_4g_transmit_check_timeout \/ at_4g_transmit_monitor_queue
  \/ \E cmd \in AtCommandSet : at_4g_transmit_putcmd(cmd)
  \/ \E ticks \in AtTicks : at_4g_transmit_direct(ticks)
  \/ ClientsDone \/ at_4g_transmit_check_send
  \/ UartDone \/ mgr_4g_reset \/ AtOther

AtSpec == AtInit /\ [][AtNext]_atVars
-----------------------------------------------------------------------------
(* A buffer is used by exactly one command, in a queue or current, or by   *)
(* another task that is about to put one, and is free otherwise: none      *)
(* leaks and none is given twice, whichever of answer, end of              *)
(* transmission, timeout, abort and reset ends a command first, and        *)
(* wherever the 4G task comes between the steps of another task.  The      *)
(* exceptions are a reset under way in such a task, and a torn layer.      *)
Owned ==
  /\ Held \ {0} \subseteq mem_used
  /\ mem_used \subseteq Held \cup OtherBuffers(AtOthers)
  /\ \A g, h \in Holders : g # h /\ Memory(g) = Memory(h) => Memory(g) = 0

Resetting == \E o \in AtOthers : other[o].pc \in {"reinit", "transmit"}

BufferOwned ==
  /\ ~torn /\ ~Resetting => Owned
  /\ cur.state = {} => cur.mem = 0

(* A client waits no longer than its timeouts and retries, counted from    *)
(* the call and however the time is shared between the queue and the UART, *)
(* unless the layer is reset or torn.                                      *)
AnsweredInTime == \A c \in Cmds : deadline[c] >= 0

(* A client is told the end of a command once.  The exception is a command *)
(* that was answered before all of it was sent: it stays current, and      *)
(* another line or its timeout tells its client again.                     *)
AnsweredOnce == \A c \in Cmds \ early : answers[c] <= 1
=============================================================================

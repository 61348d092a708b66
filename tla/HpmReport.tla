----------------------------- MODULE HpmReport ------------------------------
(***************************************************************************)
(* The reporting path of the HPM application: reports are made by          *)
(* hpm_dev.c, kept in the pack lists of hpm_data.c and in flash, sent over *)
(* one TCP socket by hpm_session.c and freed by the server's answer; the   *)
(* socket is run by hpm_socket.c, started and stopped by hpm_mgr.c.        *)
(*                                                                         *)
(* All of it runs in the handler of one 100 ms message, one worker at a    *)
(* time: every part is one atomic step.  The handler runs the manager and  *)
(* the socket once per second; their counters and the intervals of the     *)
(* session are abstracted to "the time has come", so that the parts run in *)
(* any order.  The 4G task fills the receive buffer in between.            *)
(***************************************************************************)
EXTENDS Naturals, Sequences, FiniteSets

CONSTANTS MaxReports,   \* bound on the reports made
          PackNum,      \* HPM_PACK_NUM, 6 in the code
          StoreCap,     \* reports the flash store has room for
          MaxTroubles   \* bound on failures, late or broken answers, ACC changes, heartbeats

ASSUME ReportAssumption == /\ MaxReports \in Nat /\ PackNum \in Nat \ {0}
                           /\ StoreCap \in Nat \ {0}
                           /\ MaxTroubles \in Nat

VARIABLES acc,        \* tbox_pm_io_acc_is_active
          woken,      \* a wake source that lets the manager start without ACC
          asleep,     \* between hpm_stop and hpm_start
          mgr,        \* hpm_mgr_status
          sock,       \* hpm_socket_info: status and run
          ses,        \* session: step, run and the senders in state WAIT
          data,       \* hpm_data.c's lists and the flash store
          rx,         \* hpm_data_recv_queue, packet by packet
          link,       \* the socket of the 4G module
          up,         \* requests under way on the connection, unanswered
          rest,       \* the rest of an answer of which the first part arrived
          made,       \* number of reports made
          freed,      \* history: reports an answer has freed
          received,   \* history: reports the server has got
          lost,       \* history: reports dropped by a full or failing store
          misread,    \* history: an answer may have been taken for a report's
          troubles

hpmVars == <<acc, woken, asleep, mgr, sock, ses, data, rx, link, up, rest,
             made, freed, received, lost, misread, troubles>>

Reports == 1..MaxReports
Login == MaxReports + 1
Logout == MaxReports + 2
Heartbeat == MaxReports + 3
Requests == Reports \cup {Login, Logout, Heartbeat}
(* An answer names its request; ok is its result.  Of a cut one only the   *)
(* first part has been received: without its result it reads as a failure. *)
(* Noise is what is no packet at all.                                      *)
Answers == [to : Requests, ok : BOOLEAN, cut : BOOLEAN]
Noise == [to |-> 0, ok |-> FALSE, cut |-> FALSE]
None == [to |-> 0, ok |-> FALSE, cut |-> TRUE]

Trouble == troubles < MaxTroubles /\ troubles' = troubles + 1

ToSet(s) == {s[i] : i \in 1..Len(s)}
-----------------------------------------------------------------------------
(* hpm_data.c: the lists, as functions of the record d.                    *)
Used(d) == Len(d.realtm) + Len(d.delay) + Len(d.trans)

hpm_data_flush_realtm_data(d) ==
  [d EXCEPT !.delay = @ \o d.realtm, !.realtm = <<>>]

hpm_data_flush_one_realtm_data(d) ==
  IF d.realtm = <<>> THEN d
  ELSE [d EXCEPT !.delay = Append(@, Head(d.realtm)), !.realtm = Tail(@)]

(* Wrong: what is under transmission is forgotten. *)
FlushForgetsTrans(d) == [d EXCEPT !.trans = <<>>]

(* A pack under transmission returns to the tail of the list it is from.   *)
hpm_data_flush_trans_list(d) ==
  IF d.trans = <<>> THEN d
  ELSE LET t == Head(d.trans)
       IN  IF t.from = "realtm" THEN [d EXCEPT !.trans = <<>>, !.realtm = Append(@, t.id)]
                                ELSE [d EXCEPT !.trans = <<>>, !.delay = Append(@, t.id)]

(* The pack that is saved next: a delayed one before one in real time.     *)
OldestOf(d) == IF d.delay # <<>> THEN Head(d.delay) ELSE Head(d.realtm)
WithoutOldest(d) == IF d.delay # <<>> THEN [d EXCEPT !.delay = Tail(@)]
                                      ELSE [d EXCEPT !.realtm = Tail(@)]

(* A full store gives up its oldest report for the new one.                *)
Overwritten(d) == IF Len(d.flash) = StoreCap THEN {Head(d.flash)} ELSE {}
SavedIn(d, r) == [d EXCEPT !.flash = Append(IF Len(@) = StoreCap THEN Tail(@) ELSE @, r)]

hpm_data_save_one_pack(d) == SavedIn(WithoutOldest(d), OldestOf(d))

(* "with_samepos" puts it to the tail of its list. *)
SaveOneFails(d) == IF d.delay # <<>> THEN [d EXCEPT !.delay = Append(Tail(@), Head(@))]
                                     ELSE [d EXCEPT !.realtm = Append(Tail(@), Head(@))]

(* hpm_data_get_report_pack: what is sent next, and the lists without it;  *)
(* a report from flash needs a free pack and goes through the delay list.  *)
NothingToSend(d) == /\ d.realtm = <<>> /\ d.delay = <<>>
                    /\ d.flash = <<>> \/ Used(d) = PackNum
hpm_data_get_report_pack(d) ==
  IF d.realtm # <<>> THEN [id |-> Head(d.realtm), from |-> "realtm"]
  ELSE [id |-> IF d.delay # <<>> THEN Head(d.delay) ELSE Head(d.flash), from |-> "delay"]
Taken(d) == IF d.realtm # <<>> THEN [d EXCEPT !.realtm = Tail(@)]
            ELSE IF d.delay # <<>> THEN [d EXCEPT !.delay = Tail(@)]
            ELSE [d EXCEPT !.flash = Tail(@)]

hpm_data_put_back_report_pack(d, p) ==
  IF p.from = "realtm" THEN [d EXCEPT !.realtm = <<p.id>> \o @]
                       ELSE [d EXCEPT !.delay = <<p.id>> \o @]

hpm_data_put_trans_list(d, p) == [d EXCEPT !.trans = Append(@, p)]
-----------------------------------------------------------------------------
(* hpm_session_force_stop also empties the receive buffer. *)
hpm_session_force_stop == [step |-> "INIT", run |-> FALSE, waits |-> {}]

(* socket_4g_close: the modem is told to close whatever there is. *)
Closing(l) == IF l \in {"on", "drop"} THEN "drop" ELSE "cancel"

(* Wrong: a closed socket does not count as idle. *)
ClosedIsNotIdle == sock.status = "IDLE"

hpm_socket_in_idle == sock.status \in {"IDLE", "CLOSED"}

(* Only a connected or connecting socket is closed. *)
hpm_socket_force_stop ==
  /\ link' = IF sock.status \in {"CONNECTED", "CONNECTING"} THEN Closing(link) ELSE link
  /\ sock' = [status |-> "CLOSED", run |-> FALSE]
  /\ ses' = hpm_session_force_stop
  /\ rx' = <<>>

HpmInit ==
  /\ acc \in BOOLEAN /\ woken \in (IF acc THEN {FALSE} ELSE BOOLEAN) /\ asleep = FALSE
  /\ mgr = "INIT"
  /\ sock = [status |-> "IDLE", run |-> FALSE]
  /\ ses = hpm_session_force_stop
  /\ data = [realtm |-> <<>>, delay |-> <<>>, trans |-> <<>>, flash |-> <<>>]
  /\ rx = <<>> /\ link = "off" /\ up = <<>> /\ rest = None
  /\ made = 0 /\ freed = {} /\ received = {} /\ lost = {} /\ misread = FALSE
  /\ troubles = 0

history == <<made, freed, received, lost, misread>>
network == <<link, up, rest>>
power == <<acc, woken, asleep>>
-----------------------------------------------------------------------------
(* hpm_mgr_process, by status. *)
ManagerStarts ==
  /\ ~asleep
  /\ \/ mgr \in {"INIT", "IDLE"} /\ (acc \/ woken)
     \/ mgr = "STOPPED" /\ acc
  /\ sock' = [sock EXCEPT !.run = TRUE]
  /\ mgr' = "RUNNING"
  /\ woken' = FALSE      \* not looked at again before the next wake-up
  /\ UNCHANGED <<acc, asleep, ses, data, rx, network, history, troubles>>

ManagerIdles ==
  /\ ~asleep /\ mgr = "INIT" /\ ~acc /\ ~woken
  /\ mgr' = "IDLE"
  /\ UNCHANGED <<power, sock, ses, data, rx, network, history, troubles>>

(* A socket that was forced to stop is started again, with ACC on only. *)
ManagerRestarts ==
  /\ ~asleep /\ mgr = "RUNNING" /\ acc /\ hpm_socket_in_idle /\ ~sock.run
  /\ sock' = [sock EXCEPT !.run = TRUE]
  /\ UNCHANGED <<power, mgr, ses, data, rx, network, history, troubles>>

(* 60 s without ACC. *)
ManagerStops ==
  /\ ~asleep /\ mgr = "RUNNING" /\ ~acc
  /\ sock' = [sock EXCEPT !.run = FALSE]
  /\ mgr' = "WAIT_STOP"
  /\ UNCHANGED <<power, ses, data, rx, network, history, troubles>>

(* Wrong: the socket is not forced to stop when its time is over. *)
StopWithoutForce ==
  /\ ~asleep /\ mgr = "WAIT_STOP"
  /\ UNCHANGED <<sock, ses, rx, link>>
  /\ mgr' = "STOPPED"
  /\ UNCHANGED <<power, data, up, rest, history, troubles>>

(* The delay until sleep is over, or ACC is on again. *)
hpm_mgr_in_wait_stop ==
  /\ ~asleep /\ mgr = "WAIT_STOP"
  /\ IF hpm_socket_in_idle THEN UNCHANGED <<sock, ses, rx, link>> ELSE hpm_socket_force_stop
  /\ mgr' = "STOPPED"
  /\ UNCHANGED <<power, data, up, rest, history, troubles>>

hpm_mgr_process == ManagerStarts \/ ManagerIdles \/ ManagerRestarts \/ ManagerStops
                   \/ hpm_mgr_in_wait_stop
-----------------------------------------------------------------------------
(* hpm_socket_process, by status. *)
To(status) == sock' = [sock EXCEPT !.status = status]

hpm_socket_handle_idle ==
  /\ sock.status = "IDLE" /\ sock.run
  /\ To("WAIT_DIAL")
  /\ UNCHANGED <<ses, rx, link>>

(* socket_4g_connect fails while the modem is busy with the socket, and    *)
(* returns 0 at once for one that is still connected.                      *)
hpm_socket_handle_wait_dial ==
  /\ sock.status = "WAIT_DIAL"
  /\ \/ ~sock.run /\ To("IDLE") /\ UNCHANGED <<ses, rx, link>>
     \/ /\ sock.run /\ ses.step # "INIT"
        /\ ses' = hpm_session_force_stop /\ rx' = <<>>
        /\ UNCHANGED <<sock, link>>
     \/ /\ sock.run /\ ses.step = "INIT" /\ link \in {"off", "on"}
        /\ To("CONNECTING")
        /\ link' = IF link = "on" THEN "on" ELSE "dial"
        /\ UNCHANGED <<ses, rx>>

hpm_session_start == ses' = [ses EXCEPT !.run = TRUE]

(* The timeout of 30 s may come before the modem has connected. *)
hpm_socket_handle_connecting ==
  /\ sock.status = "CONNECTING"
  /\ \/ ~sock.run /\ To("CLOSING") /\ link' = Closing(link) /\ UNCHANGED <<ses, rx, troubles>>
     \/ /\ sock.run /\ link \in {"on", "drop"}
        /\ hpm_session_start /\ To("CONNECTED")
        /\ UNCHANGED <<rx, link, troubles>>
     \/ /\ sock.run /\ link \notin {"on", "drop"}
        /\ IF link = "dial" THEN Trouble ELSE UNCHANGED troubles
        /\ To("CLOSING") /\ link' = Closing(link)
        /\ UNCHANGED <<ses, rx>>

hpm_socket_handle_connected ==
  /\ sock.status = "CONNECTED"
  /\ \/ /\ ~sock.run
        /\ ses' = [ses EXCEPT !.run = FALSE]
        /\ To("STOPPING")
        /\ UNCHANGED <<rx, link>>
     \/ /\ sock.run /\ link \notin {"on", "drop"}
        /\ ses' = hpm_session_force_stop /\ rx' = <<>>
        /\ To("CLOSING") /\ link' = Closing(link)
     \/ /\ sock.run /\ link \in {"on", "drop"} /\ ses.step = "INIT" /\ ~ses.run
        /\ hpm_session_start
        /\ UNCHANGED <<sock, rx, link>>

(* The session has logged out, or 30 s are over. *)
hpm_socket_handle_stopping ==
  /\ sock.status = "STOPPING"
  /\ ses' = IF ses.step = "INIT" THEN ses ELSE hpm_session_force_stop
  /\ rx' = <<>>
  /\ To("CLOSING") /\ link' = Closing(link)

(* The modem has closed the socket, or 10 s are over. *)
hpm_socket_handle_closing ==
  /\ sock.status = "CLOSING"
  /\ To("CLOSED")
  /\ UNCHANGED <<ses, rx, link>>

hpm_socket_handle_closed ==
  /\ sock.status = "CLOSED" /\ sock.run
  /\ IF ses.step # "INIT" THEN ses' = hpm_session_force_stop /\ rx' = <<>>
                          ELSE UNCHANGED <<ses, rx>>
  /\ To("WAIT_DIAL")
  /\ UNCHANGED link

hpm_socket_process ==
  /\ ~asleep
  /\ \/ /\ \/ hpm_socket_handle_idle \/ hpm_socket_handle_wait_dial
           \/ hpm_socket_handle_connected \/ hpm_socket_handle_stopping
           \/ hpm_socket_handle_closing \/ hpm_socket_handle_closed
        /\ UNCHANGED troubles
     \/ hpm_socket_handle_connecting
  /\ UNCHANGED <<power, mgr, data, up, rest, history>>

(* A new server address in the configuration, or the answer to a control   *)
(* command that could not be sent.                                         *)
hpm_socket_handle_msg ==
  /\ ~asleep /\ Trouble
  /\ hpm_socket_force_stop
  /\ UNCHANGED <<power, mgr, data, up, rest, history>>
-----------------------------------------------------------------------------
(* hpm_dev_report: without a free pack the oldest report goes to flash; if *)
(* that fails, or the only pack is under transmission, the new one is      *)
(* dropped.                                                                *)
hpm_dev_report ==
  LET r == made + 1
      d == hpm_data_flush_one_realtm_data(data)
  IN  /\ ~asleep /\ made < MaxReports
      /\ made' = r
      /\ \/ /\ Used(data) < PackNum
            /\ data' = [data EXCEPT !.realtm = Append(@, r)]
            /\ UNCHANGED <<lost, troubles>>
         \/ /\ Used(data) = PackNum /\ data.realtm = <<>> /\ data.delay = <<>>
            /\ lost' = lost \cup {r}
            /\ UNCHANGED <<data, troubles>>
         \/ /\ Used(data) = PackNum /\ d.delay # <<>>
            /\ data' = [hpm_data_save_one_pack(d) EXCEPT !.realtm = Append(@, r)]
            /\ lost' = lost \cup Overwritten(data)
            /\ UNCHANGED troubles
         \/ /\ Used(data) = PackNum /\ d.delay # <<>> /\ Trouble
            /\ data' = SaveOneFails(d)
            /\ lost' = lost \cup {r}
      /\ UNCHANGED <<power, mgr, sock, ses, rx, network, freed, received, misread>>
-----------------------------------------------------------------------------
(* hpm_data_recv_process: what the session finds, and what stays in the    *)
(* buffer: a packet that is not complete leaves its command and result     *)
(* behind and stays; what is no packet stays until the buffer is cleared.  *)
Blocked == rx # <<>> /\ Head(rx) = Noise
Info == IF rx = <<>> \/ Blocked THEN None ELSE Head(rx)
Rest == IF rx = <<>> \/ Blocked \/ Head(rx).cut THEN rx ELSE Tail(rx)
(* hpm_data_recv_push: nothing behind bytes that are no packet is read;    *)
(* what follows a packet that will not be completed ends it, wrongly.      *)
Arrives(a) == rx' = IF Blocked THEN rx
                    ELSE IF rx # <<>> /\ rx[Len(rx)].cut THEN [rx EXCEPT ![Len(rx)] = Noise]
                    ELSE Append(rx, a)

(* An answer to k is still on its way to the session. *)
Coming(k) == link \in {"on", "drop"} /\ (k \in ToSet(up) \/ rest.to = k)
InBuffer(k) == ~Blocked /\ \E a \in ToSet(Rest) : a.to = k /\ ~a.cut
Answered(k) == Coming(k) \/ InBuffer(k)

(* hpm_net_send: the modem takes the packet, or does not. *)
SendOk == link = "on" /\ UNCHANGED troubles
SendFails == IF link = "on" THEN Trouble ELSE UNCHANGED troubles

Receive == rx' = Rest /\ UNCHANGED <<up, troubles>>

(* An answer that is overdue; that it is lost costs nothing, that it is    *)
(* late is a fault of the network.                                         *)
Overdue(k) == IF Answered(k) THEN Trouble ELSE UNCHANGED troubles

(* The session after com_login.  If it fails, it has forced the session to *)
(* stop, and the sender waits all the same.  A login that is sent while an *)
(* answer is coming will get an answer the session takes for a report's.   *)
hpm_session_com_login(step, failed) ==
  \/ /\ link = "on" /\ Overdue(Login)
     /\ ses' = [ses EXCEPT !.step = step, !.waits = @ \cup {"login"}]
     /\ up' = Append(up, Login)
     /\ rx' = Rest
     /\ misread' = (misread \/ Answered(Login) \/ step = "SESSION")
  \/ /\ SendFails
     /\ ses' = [step |-> failed, run |-> FALSE, waits |-> {"login"}]
     /\ rx' = <<>>
     /\ UNCHANGED <<up, misread>>

(* A session that does not run consumes what is received. *)
SessionStopped ==
  /\ ~ses.run /\ ses.step # "LOGOUT"
  /\ ses' = [ses EXCEPT !.step = IF ses.step = "SESSION" THEN "LOGOUT" ELSE "INIT"]
  /\ Receive
  /\ UNCHANGED <<sock, data, link, freed, misread>>

(* The login is sent, again or for the first time, or is not due.          *)
hpm_session_proc_init ==
  /\ ses.run /\ ses.step = "INIT"
  /\ \/ hpm_session_com_login("LOGIN", "LOGIN")
     \/ /\ Receive /\ UNCHANGED misread
        /\ ses' = [ses EXCEPT !.step = "LOGIN"]
     \/ /\ "login" \in ses.waits /\ Overdue(Login)
        /\ ses' = [ses EXCEPT !.step = "LOGIN", !.waits = @ \ {"login"}]
        /\ rx' = Rest /\ UNCHANGED <<up, misread>>
  /\ UNCHANGED <<sock, data, link, freed>>

(* Wrong: any answer is taken for that to the login. *)
AnyAnswer == Info # None

LoginAnswer == Info.to = Login

hpm_session_proc_login ==
  /\ ses.run /\ ses.step = "LOGIN"
  /\ \/ /\ LoginAnswer /\ Info.ok
        /\ data' = hpm_data_flush_realtm_data(hpm_data_flush_trans_list(data))
        /\ \/ /\ ses' = [ses EXCEPT !.step = "SESSION", !.waits = @ \ {"login"}]
              /\ Receive /\ UNCHANGED misread
           \/ /\ "login" \notin ses.waits      \* due again since the last one
              /\ hpm_session_com_login("SESSION", "INIT")
     \/ /\ LoginAnswer /\ ~Info.ok
        /\ \/ /\ ses' = [ses EXCEPT !.waits = @ \ {"login"}]
              /\ Receive /\ UNCHANGED misread
           \/ /\ "login" \notin ses.waits
              /\ hpm_session_com_login("LOGIN", "INIT")
        /\ UNCHANGED data
     \/ /\ ~LoginAnswer
        /\ \/ hpm_session_com_login("LOGIN", "INIT")
           \/ /\ Receive /\ UNCHANGED <<ses, misread>>
           \/ /\ "login" \in ses.waits /\ Overdue(Login)
              /\ ses' = [ses EXCEPT !.step = "INIT", !.waits = @ \ {"login"}]
              /\ rx' = Rest /\ UNCHANGED <<up, misread>>
        /\ UNCHANGED data
  /\ UNCHANGED <<sock, link, freed>>
-----------------------------------------------------------------------------
(* hpm_session_proc_session: hpm_session_send_report.  Any answer counts   *)
(* as one to the report.                                                   *)
(* A report that is sent while the answer to a heartbeat is coming may get *)
(* that answer for its own.                                                *)
SendReport ==
  LET p == hpm_data_get_report_pack(data)
      d == Taken(data)
  IN  /\ "report" \notin ses.waits /\ ~NothingToSend(data)
      /\ \/ /\ SendOk
            /\ data' = hpm_data_put_trans_list(d, p)
            /\ up' = Append(up, p.id)
            /\ misread' = (misread \/ Answered(Heartbeat))
         \/ /\ SendFails
            /\ data' = hpm_data_put_back_report_pack(d, p)
            /\ UNCHANGED <<up, misread>>
      /\ ses' = [ses EXCEPT !.waits = @ \cup {"report"}]
      /\ rx' = Rest
      /\ UNCHANGED <<sock, link, freed>>

(* hpm_session_send_heartbeat follows in the same step: a heartbeat is due *)
(* and sent, or is not due; nobody waits for its answer.                   *)
hpm_session_send_heartbeat ==
  \/ UNCHANGED <<up, troubles>>
  \/ link = "on" /\ up' = Append(up, Heartbeat) /\ Trouble

(* Nothing to send, or no answer yet.                                      *)
NothingSent ==
  /\ IF "report" \in ses.waits THEN Info = None ELSE NothingToSend(data)
  /\ rx' = Rest /\ hpm_session_send_heartbeat
  /\ UNCHANGED <<ses, sock, data, link, freed, misread>>

hpm_data_ack_pack ==
  /\ data' = [data EXCEPT !.trans = IF @ = <<>> THEN @ ELSE Tail(@)]
  /\ freed' = freed \cup {data.trans[i].id : i \in {1} \cap 1..Len(data.trans)}

ReportAcked ==
  /\ "report" \in ses.waits /\ Info # None /\ Info.ok
  /\ hpm_data_ack_pack
  /\ ses' = [ses EXCEPT !.waits = @ \ {"report"}]
  /\ rx' = Rest /\ hpm_session_send_heartbeat
  /\ UNCHANGED <<sock, link, misread>>

(* An answer without success, or none in time; after a send that failed    *)
(* there is nothing to wait for.                                           *)
ReportFails ==
  /\ "report" \in ses.waits
  /\ \/ Info # None /\ ~Info.ok /\ UNCHANGED troubles
     \/ Info = None /\ IF data.trans # <<>> THEN Overdue(Head(data.trans).id) ELSE UNCHANGED troubles
  /\ data' = hpm_data_flush_trans_list(data)
  /\ hpm_socket_force_stop
  /\ UNCHANGED <<up, freed, misread>>

(* hpm_session_com_heartbeat fails. *)
HeartbeatFails ==
  /\ SendFails
  /\ ses' = hpm_session_force_stop /\ rx' = <<>>
  /\ UNCHANGED <<sock, data, link, up, freed, misread>>

hpm_session_proc_session ==
  /\ ses.run /\ ses.step = "SESSION"
  /\ SendReport \/ NothingSent \/ ReportAcked \/ ReportFails \/ HeartbeatFails

(* hpm_session_proc_logout does not look at the run status.  The logout is *)
(* repeated until it is answered or the socket is closed.                  *)
hpm_session_proc_logout ==
  /\ ses.step = "LOGOUT"
  /\ \/ /\ Info.to = Logout /\ Info.ok
        /\ \/ /\ "logout" \in ses.waits
              /\ ses' = [ses EXCEPT !.step = "INIT", !.waits = @ \ {"logout"}]
              /\ Receive
           \/ /\ "logout" \notin ses.waits
              /\ ses' = [ses EXCEPT !.step = "INIT", !.waits = @ \cup {"logout"}]
              /\ rx' = Rest
              /\ \/ SendOk /\ up' = Append(up, Logout)
                 \/ SendFails /\ UNCHANGED up
     \/ /\ ~(Info.to = Logout /\ Info.ok)
        /\ \/ /\ "logout" \in ses.waits => Overdue(Logout)
              /\ "logout" \notin ses.waits => UNCHANGED troubles
              /\ IF link = "on" THEN up' = Append(up, Logout) ELSE UNCHANGED up
              /\ ses' = [ses EXCEPT !.waits = @ \cup {"logout"}]
              /\ rx' = Rest
           \/ "logout" \in ses.waits /\ Receive /\ UNCHANGED ses
  /\ UNCHANGED <<sock, data, link, freed, misread>>

(* Nothing is processed while a file is downloaded: the step is not taken. *)
hpm_session_process ==
  /\ ~asleep
  /\ \/ SessionStopped \/ hpm_session_proc_init \/ hpm_session_proc_login
     \/ hpm_session_proc_session \/ hpm_session_proc_logout
  /\ UNCHANGED <<power, mgr, rest, made, received, lost>>
-----------------------------------------------------------------------------
(* 4g_socket.c and the network: the connection is made, fails, drops or    *)
(* closes.  What was under way on it is gone; the server may have got the  *)
(* first requests of it, their answers are lost.                           *)
LinkChanges ==
  /\ \/ link = "dial" /\ link' = "on" /\ UNCHANGED troubles
     \/ link \in {"dial", "on"} /\ link' = "off" /\ Trouble
     \/ link \in {"drop", "cancel"} /\ link' = "off" /\ UNCHANGED troubles
  /\ \E got \in 0..Len(up) : received' = received \cup (ToSet(SubSeq(up, 1, got)) \cap Reports)
  /\ up' = <<>> /\ rest' = None
  /\ UNCHANGED <<power, mgr, sock, ses, data, rx, made, freed, lost, misread>>

(* The server answers the requests in their order - a heartbeat, for which *)
(* nobody waits, perhaps not - and the 4G task calls hpm_data_recv_push.  A *)
(* refusal is a fault; another is that only the first part of an answer    *)
(* arrives, with its result or without.                                    *)
Server ==
  /\ link \in {"on", "drop"} /\ up # <<>> /\ rest = None
  /\ up' = Tail(up)
  /\ received' = received \cup ({Head(up)} \cap Reports)
  /\ LET a == [to |-> Head(up), ok |-> TRUE, cut |-> FALSE]
     IN  \/ /\ Arrives(a)
            /\ UNCHANGED <<rest, misread, troubles>>
         \/ /\ Trouble
            /\ Arrives([a EXCEPT !.ok = FALSE])
            /\ UNCHANGED <<rest, misread>>
         \/ /\ Trouble
            /\ rest' = a
            /\ \E ok \in BOOLEAN : /\ Arrives([a EXCEPT !.ok = ok, !.cut = TRUE])
                                   /\ misread' = (misread \/ ok)
         \/ /\ Head(up) = Heartbeat
            /\ UNCHANGED <<rx, rest, misread, troubles>>
  /\ UNCHANGED <<power, mgr, sock, ses, data, link, made, freed, lost>>

(* The rest of an answer, of no use when the buffer was cleared.           *)
RestArrives ==
  /\ link \in {"on", "drop"} /\ rest # None
  /\ LET n == Len(rx)
     IN  IF n > 0 /\ rx[n].cut THEN rx' = [rx EXCEPT ![n] = rest] ELSE Arrives(Noise)
  /\ rest' = None
  /\ UNCHANGED <<power, mgr, sock, ses, data, link, up, history, troubles>>

(* Bytes that are no packet. *)
NoiseArrives ==
  /\ link \in {"on", "drop"} /\ rest = None /\ Trouble
  /\ Arrives(Noise)
  /\ UNCHANGED <<power, mgr, sock, ses, data, network, history>>
-----------------------------------------------------------------------------
AccChanges ==
  /\ Trouble /\ acc' = ~acc
  /\ UNCHANGED <<woken, asleep, mgr, sock, ses, data, rx, network, history>>

(* hpm_stop: what is in the lists goes to flash, until a save fails; that  *)
(* report goes to the tail of its list.                                    *)
hpm_data_flush_alldata(d, saved) ==
  LET all == d.delay
      flash == d.flash \o SubSeq(all, 1, saved)
      over == IF Len(flash) > StoreCap THEN Len(flash) - StoreCap ELSE 0
      kept == [d EXCEPT !.flash = SubSeq(flash, over + 1, Len(flash)),
                        !.delay = IF saved = Len(all) THEN <<>>
                                  ELSE SubSeq(all, saved + 2, Len(all)) \o <<all[saved + 1]>>]
  IN  /\ data' = kept
      /\ lost' = lost \cup ToSet(SubSeq(flash, 1, over))

HpmSleeps ==
  LET d == hpm_data_flush_realtm_data(hpm_data_flush_trans_list(data))
  IN  /\ ~asleep /\ ~acc /\ mgr \in {"IDLE", "STOPPED"}    \* hpm_mgr_allow_sleep
      /\ asleep' = TRUE
      /\ \E saved \in 0..Len(d.delay) :
           /\ hpm_data_flush_alldata(d, saved)
           /\ IF saved < Len(d.delay) THEN Trouble ELSE UNCHANGED troubles
      /\ link' = "off" /\ up' = <<>> /\ rest' = None       \* the modem is off
      /\ \E got \in 0..Len(up) : received' = received \cup (ToSet(SubSeq(up, 1, got)) \cap Reports)
      /\ UNCHANGED <<acc, woken, mgr, sock, ses, rx, made, freed, misread>>

(* hpm_start: hpm_mgr_wakeup and hpm_session_wake; the socket, the senders *)
(* and the run status of the session are left as they were.                *)
HpmWakes ==
  /\ asleep /\ asleep' = FALSE
  /\ \/ acc /\ woken' = FALSE /\ UNCHANGED troubles
     \/ ~acc /\ Trouble /\ woken' \in BOOLEAN
  /\ mgr' = "INIT"
  /\ ses' = [ses EXCEPT !.step = "INIT"]
  /\ data' = hpm_data_flush_realtm_data(hpm_data_flush_trans_list(data))
  /\ UNCHANGED <<acc, sock, rx, network, history>>
-----------------------------------------------------------------------------
Manager == hpm_mgr_process
Wake == acc /\ HpmWakes

HpmNext == \/ Manager \/ hpm_socket_process \/ hpm_socket_handle_msg
           \/ hpm_dev_report \/ hpm_session_process
           \/ LinkChanges \/ Server \/ RestArrives \/ NoiseArrives
           \/ AccChanges \/ HpmSleeps \/ HpmWakes

(* The message of the 100 ms timer is always delivered again, so that the  *)
(* manager, the socket and the session take the steps that stay possible;  *)
(* the modem and the server answer in the end; ACC wakes the device.       *)
HpmFair ==
  /\ WF_hpmVars(Manager) /\ WF_hpmVars(hpm_socket_process)
  /\ WF_hpmVars(hpm_session_process)
  /\ WF_hpmVars(LinkChanges) /\ WF_hpmVars(Server) /\ WF_hpmVars(RestArrives)
  /\ WF_hpmVars(Wake)

HpmSpec == HpmInit /\ [][HpmNext]_hpmVars /\ HpmFair
-----------------------------------------------------------------------------
Places(r) == Cardinality({i \in DOMAIN data.realtm : data.realtm[i] = r})
             + Cardinality({i \in DOMAIN data.delay : data.delay[i] = r})
             + Cardinality({i \in DOMAIN data.trans : data.trans[i].id = r})
             + Cardinality({i \in DOMAIN data.flash : data.flash[i] = r})

(* At most one report is under transmission, and the session does not send *)
(* the next one while one is: hpm_data_ack_pack frees the first of the     *)
(* list, whatever the answer is for.                                       *)
OneInFlight == /\ Len(data.trans) <= 1
               /\ ses.step = "SESSION" /\ "report" \notin ses.waits => data.trans = <<>>

(* A report that was made and neither acknowledged nor dropped by a full   *)
(* or failing flash is in exactly one list or in flash; one that was freed *)
(* is in none: reports are neither forgotten nor duplicated by the four    *)
(* lists, the flash, the failures and the sleep, and at most one is under  *)
(* transmission.                                                           *)
NothingForgotten ==
  /\ \A r \in Reports : Places(r) = IF r \in 1..made \ (freed \cup lost) THEN 1 ELSE 0
  /\ Used(data) <= PackNum /\ Len(data.flash) <= StoreCap
  /\ OneInFlight

(* A report is freed only after the server got it - as long as no login    *)
(* was repeated while its answer was coming, no report was sent while that *)
(* to a heartbeat was, and no answer was cut behind its result, the three  *)
(* cases in which an answer is taken for another's.                        *)
AckedIsReceived == ~misread => freed \subseteq received

(* When the manager says that the application has stopped, and the device  *)
(* may sleep, the socket and the session have stopped too.                 *)
QuietWhenStopped ==
  mgr = "STOPPED" => hpm_socket_in_idle /\ ~sock.run /\ ses.step = "INIT" /\ ~ses.run

(* With ACC on for good every report leaves the device, through sleep,     *)
(* refused and late answers, lost connections and failing sends - unless   *)
(* bytes that are no packet block the receive buffer.                      *)
Delivered ==
  <>[]acc /\ <>[]~Blocked => <>[](1..made \subseteq freed \cup lost)
=============================================================================

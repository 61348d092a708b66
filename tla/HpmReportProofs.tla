--------------------------- MODULE HpmReportProofs ---------------------------
(***************************************************************************)
(* Proofs about HpmReport: when the manager has stopped, the socket and    *)
(* the session have (StoppedIsQuiet); every report is in one place as long *)
(* as it is neither freed nor lost, and at most one is under transmission  *)
(* (ReportsAreKept); what was freed the server has got, unless an answer   *)
(* may have been misread (FreedWereReceived).                              *)
(*                                                                         *)
(* The first needs what the statuses of the manager, the socket and the    *)
(* session say of each other (Settled).  The second counts, for each       *)
(* operation of hpm_data.c, how often a report is in the lists.  The third *)
(* follows the answers on their way: at any time at most the last of them  *)
(* is one to a login, and in the session that to the report under          *)
(* transmission comes before those to heartbeats.                          *)
(***************************************************************************)
EXTENDS HpmReport, SequenceTheorems, FiniteSetTheorems, TLAPS
-----------------------------------------------------------------------------
(* What the statuses of the manager, the socket and the session say of     *)
(* each other.                                                             *)
Steps == {"INIT", "LOGIN", "SESSION", "LOGOUT"}
Senders == {"login", "report", "logout"}
SocketStates == {"IDLE", "WAIT_DIAL", "CONNECTING", "CONNECTED", "STOPPING", "CLOSING", "CLOSED"}

(* The socket and the session have their types.                            *)
StagesTyped == /\ sock \in [status : SocketStates, run : BOOLEAN]
               /\ ses \in [step : Steps, run : BOOLEAN, waits : SUBSET Senders]

(* A session runs on a connected socket only and is at its start on any    *)
(* other; the manager stops and starts the socket with itself; the device  *)
(* sleeps only while the manager does nothing.                             *)
Settled ==
  /\ sock.status \notin {"CONNECTED", "STOPPING"} => ses.step = "INIT" /\ ~ses.run
  /\ sock.status = "STOPPING" => ~ses.run
  /\ mgr \in {"INIT", "IDLE", "STOPPED"} => hpm_socket_in_idle
  /\ mgr # "RUNNING" => ~sock.run
  /\ asleep => mgr \in {"IDLE", "STOPPED"}

(* hpm_session_force_stop puts the session at its start.                   *)
LEMMA ForceStopTyped == hpm_session_force_stop \in [step : Steps, run : BOOLEAN, waits : SUBSET Senders]
                        /\ hpm_session_force_stop.step = "INIT" /\ ~hpm_session_force_stop.run
BY DEF hpm_session_force_stop, Steps, Senders

(* hpm_mgr_process keeps them in order: a socket that is not idle is       *)
(* forced to stop when the manager says STOPPED.                           *)
LEMMA ManagerSettles ==
  ASSUME StagesTyped, Settled, hpm_mgr_process PROVE StagesTyped' /\ Settled'
<1>1. CASE ManagerStarts
  BY <1>1 DEF ManagerStarts, StagesTyped, Settled, hpm_socket_in_idle
<1>2. CASE ManagerIdles
  BY <1>2 DEF ManagerIdles, StagesTyped, Settled, hpm_socket_in_idle, power
<1>3. CASE ManagerRestarts
  BY <1>3 DEF ManagerRestarts, StagesTyped, Settled, hpm_socket_in_idle, power
<1>4. CASE ManagerStops
  BY <1>4 DEF ManagerStops, StagesTyped, Settled, hpm_socket_in_idle, power
<1>5. CASE hpm_mgr_in_wait_stop
  <2>1. CASE hpm_socket_in_idle
    BY <1>5, <2>1 DEF hpm_mgr_in_wait_stop, StagesTyped, Settled, hpm_socket_in_idle, power
  <2>2. CASE ~hpm_socket_in_idle
    <3>1. hpm_socket_force_stop /\ mgr' = "STOPPED" /\ asleep' = FALSE
      BY <1>5, <2>2 DEF hpm_mgr_in_wait_stop, power
    <3>2. QED
      BY <3>1, ForceStopTyped
      DEF hpm_socket_force_stop, StagesTyped, Settled, hpm_socket_in_idle, SocketStates
  <2>3. QED BY <2>1, <2>2
<1>6. QED BY <1>1, <1>2, <1>3, <1>4, <1>5 DEF hpm_mgr_process

(* So does hpm_socket_process, status by status.                           *)
LEMMA SocketSettles ==
  ASSUME StagesTyped, Settled, hpm_socket_process PROVE StagesTyped' /\ Settled'
<1> USE DEF hpm_socket_process, StagesTyped, Settled, hpm_socket_in_idle, power, To, SocketStates
<1>1. CASE hpm_socket_handle_idle
  BY <1>1 DEF hpm_socket_handle_idle
<1>2. CASE hpm_socket_handle_wait_dial
  BY <1>2, ForceStopTyped DEF hpm_socket_handle_wait_dial
<1>3. CASE hpm_socket_handle_connecting
  BY <1>3 DEF hpm_socket_handle_connecting, hpm_session_start
<1>4. CASE hpm_socket_handle_connected
  BY <1>4, ForceStopTyped DEF hpm_socket_handle_connected, hpm_session_start
<1>5. CASE hpm_socket_handle_stopping
  BY <1>5, ForceStopTyped DEF hpm_socket_handle_stopping
<1>6. CASE hpm_socket_handle_closing
  BY <1>6 DEF hpm_socket_handle_closing
<1>7. CASE hpm_socket_handle_closed
  BY <1>7, ForceStopTyped DEF hpm_socket_handle_closed
<1>8. QED BY <1>1, <1>2, <1>3, <1>4, <1>5, <1>6, <1>7

(* So does a socket that is forced to stop by a message or by the session. *)
LEMMA ForceStopSettles ==
  ASSUME StagesTyped, Settled, hpm_socket_force_stop, UNCHANGED <<mgr, asleep>>
  PROVE  StagesTyped' /\ Settled'
BY ForceStopTyped
DEF hpm_socket_force_stop, StagesTyped, Settled, hpm_socket_in_idle, SocketStates

(* A login is sent or fails: the session does not start to run.            *)
LEMMA LoginStages ==
  ASSUME StagesTyped, NEW step \in Steps, NEW failed \in Steps,
         hpm_session_com_login(step, failed)
  PROVE  ses' \in [step : Steps, run : BOOLEAN, waits : SUBSET Senders] /\ (ses'.run => ses.run)
<1>1. CASE ses' = [ses EXCEPT !.step = step, !.waits = @ \cup {"login"}]
  BY <1>1 DEF StagesTyped, Senders
<1>2. CASE ses' = [step |-> failed, run |-> FALSE, waits |-> {"login"}]
  BY <1>2 DEF StagesTyped, Senders
<1>3. QED BY <1>1, <1>2 DEF hpm_session_com_login

(* So does hpm_session_process: it leaves the socket alone, never starts   *)
(* itself and leaves its first step only while it runs.                    *)
LEMMA SessionSettles ==
  ASSUME StagesTyped, Settled, hpm_session_process PROVE StagesTyped' /\ Settled'
<1>0. /\ UNCHANGED <<mgr, asleep>>
      /\ \/ SessionStopped \/ hpm_session_proc_init \/ hpm_session_proc_login
         \/ hpm_session_proc_session \/ hpm_session_proc_logout
  BY DEF hpm_session_process, power
<1>1. SUFFICES /\ StagesTyped'
               /\ hpm_socket_force_stop \/ (sock' = sock /\ (ses'.run => ses.run)
                    /\ (ses.run \/ ses.step # "INIT" \/ ses'.step = "INIT"))
  <2>1. CASE hpm_socket_force_stop
    BY <1>0, <2>1, ForceStopSettles
  <2>2. CASE /\ StagesTyped' /\ sock' = sock /\ (ses'.run => ses.run)
             /\ ses.run \/ ses.step # "INIT" \/ ses'.step = "INIT"
    BY <1>0, <2>2 DEF StagesTyped, Settled, hpm_socket_in_idle
  <2>3. QED BY <2>1, <2>2
<1>2. CASE SessionStopped
  BY <1>2 DEF SessionStopped, StagesTyped, Steps
<1>3. CASE hpm_session_proc_init
  BY <1>3, LoginStages DEF hpm_session_proc_init, StagesTyped, Steps
<1>4. CASE hpm_session_proc_login
  BY <1>4, LoginStages DEF hpm_session_proc_login, StagesTyped, Steps
<1>5. CASE hpm_session_proc_session
  <2>1. CASE SendReport \/ NothingSent \/ ReportAcked
    BY <1>5, <2>1
    DEF hpm_session_proc_session, SendReport, NothingSent, ReportAcked, StagesTyped, Steps, Senders
  <2>2. CASE ReportFails
    BY <1>0, <2>2, ForceStopSettles DEF ReportFails
  <2>3. CASE HeartbeatFails
    BY <1>5, <2>3, ForceStopTyped DEF hpm_session_proc_session, HeartbeatFails, StagesTyped, Steps
  <2>4. QED BY <1>5, <2>1, <2>2, <2>3 DEF hpm_session_proc_session
<1>6. CASE hpm_session_proc_logout
  <2>1. PICK w \in SUBSET Senders :
          ses' = ses \/ ses' = [ses EXCEPT !.step = "INIT", !.waits = w]
          \/ ses' = [ses EXCEPT !.waits = w]
    <3>1. /\ ses.waits \cup {"logout"} \in SUBSET Senders
          /\ ses.waits \ {"logout"} \in SUBSET Senders
      BY DEF StagesTyped, Senders
    <3>2. \/ ses' = [ses EXCEPT !.step = "INIT", !.waits = @ \ {"logout"}]
          \/ ses' = [ses EXCEPT !.step = "INIT", !.waits = @ \cup {"logout"}]
          \/ ses' = [ses EXCEPT !.waits = @ \cup {"logout"}]
          \/ ses' = ses
      BY <1>6, Zenon DEF hpm_session_proc_logout
    <3>3. QED BY <3>1, <3>2 DEF StagesTyped
  <2>2. sock' = sock /\ ses.step # "INIT"
    BY <1>6 DEF hpm_session_proc_logout
  <2>3. QED BY <2>1, <2>2 DEF StagesTyped, Steps
<1>7. QED BY <1>0, <1>2, <1>3, <1>4, <1>5, <1>6

(* So does every step.                                                     *)
LEMMA StepSettles ==
  ASSUME StagesTyped, Settled, [HpmNext]_hpmVars PROVE StagesTyped' /\ Settled'
<1>1. CASE Manager
  BY <1>1, ManagerSettles DEF Manager
<1>2. CASE hpm_socket_process
  BY <1>2, SocketSettles
<1>3. CASE hpm_socket_handle_msg
  BY <1>3, ForceStopSettles DEF hpm_socket_handle_msg, power
<1>4. CASE hpm_session_process
  BY <1>4, SessionSettles
<1>5. CASE hpm_dev_report \/ LinkChanges \/ Server \/ RestArrives \/ NoiseArrives \/ AccChanges
           \/ UNCHANGED hpmVars
  <2>1. UNCHANGED <<mgr, asleep, sock, ses>>
    BY <1>5 DEF hpm_dev_report, LinkChanges, Server, RestArrives, NoiseArrives, AccChanges, hpmVars,
                power
  <2>2. QED BY <2>1 DEF StagesTyped, Settled, hpm_socket_in_idle
<1>6. CASE HpmSleeps
  BY <1>6 DEF HpmSleeps, StagesTyped, Settled, hpm_socket_in_idle
<1>7. CASE HpmWakes
  BY <1>7 DEF HpmWakes, StagesTyped, Settled, hpm_socket_in_idle, Steps
<1>8. QED BY <1>1, <1>2, <1>3, <1>4, <1>5, <1>6, <1>7 DEF HpmNext

(* They are in order at first.                                             *)
LEMMA InitSettled == ASSUME HpmInit PROVE StagesTyped /\ Settled
BY ForceStopTyped DEF HpmInit, StagesTyped, Settled, hpm_socket_in_idle, SocketStates

(* When hpm_mgr says that the application has stopped, and the device may  *)
(* sleep, hpm_socket and hpm_session have stopped too.                     *)
THEOREM StoppedIsQuiet == HpmSpec => []QuietWhenStopped
<1>1. StagesTyped /\ Settled => QuietWhenStopped
  BY DEF StagesTyped, Settled, QuietWhenStopped, hpm_socket_in_idle
<1>2. QED BY <1>1, InitSettled, StepSettles, PTL DEF HpmSpec

-----------------------------------------------------------------------------
(* Counting in a sequence.                                                 *)
Is(x, S) == IF x \in S THEN 1 ELSE 0
CountIn(s, S) == Cardinality({i \in DOMAIN s : s[i] \in S})

(* The count is a number, at least one if there is such a place.           *)
LEMMA CountTyped ==
  ASSUME NEW T, NEW s \in Seq(T), NEW S
  PROVE  /\ IsFiniteSet({i \in DOMAIN s : s[i] \in S})
         /\ CountIn(s, S) \in Nat
         /\ (\E i \in 1..Len(s) : s[i] \in S) => CountIn(s, S) >= 1
<1>1. IsFiniteSet(1..Len(s)) /\ DOMAIN s = 1..Len(s)
  BY FS_Interval, LenProperties
<1>2. IsFiniteSet({i \in DOMAIN s : s[i] \in S})
  BY <1>1, FS_Subset
<1> DEFINE A == {i \in DOMAIN s : s[i] \in S}
<1>3. CountIn(s, S) = Cardinality(A)
  BY DEF CountIn
<1>4. Cardinality(A) \in Nat /\ (A # {} => Cardinality(A) >= 1)
  <2>1. Cardinality(A) \in Nat /\ (Cardinality(A) = 0 <=> A = {})
    BY <1>2, FS_CardinalityType, FS_EmptySet
  <2>2. \A n \in Nat : n = 0 \/ n >= 1
    OBVIOUS
  <2>3. QED BY <2>1, <2>2, Zenon
<1>5. A # {} <=> \E i \in 1..Len(s) : s[i] \in S
  BY <1>1
<1>6. QED BY <1>2, <1>3, <1>4, <1>5, Zenon

(* Nothing is in the empty sequence.                                       *)
LEMMA CountEmpty == ASSUME NEW S PROVE CountIn(<<>>, S) = 0
BY FS_EmptySet DEF CountIn

(* A sequence of one element.                                              *)
LEMMA CountOne == ASSUME NEW x, NEW S PROVE CountIn(<<x>>, S) = Is(x, S)
<1>1. {i \in DOMAIN <<x>> : <<x>>[i] \in S} = IF x \in S THEN {1} ELSE {}
  OBVIOUS
<1>2. QED BY <1>1, FS_EmptySet, FS_Singleton DEF CountIn, Is

(* The count of two sequences in a row is the sum of theirs.               *)
LEMMA CountConcat ==
  ASSUME NEW T, NEW s \in Seq(T), NEW t \in Seq(T), NEW S
  PROVE  CountIn(s \o t, S) = CountIn(s, S) + CountIn(t, S)
<1> DEFINE A == {i \in DOMAIN s : s[i] \in S}
           B == {i \in DOMAIN t : t[i] \in S}
           C == {i \in DOMAIN (s \o t) : (s \o t)[i] \in S}
           D == {i + Len(s) : i \in B}
           f == [i \in B |-> i + Len(s)]
<1>1. /\ Len(s) \in Nat /\ Len(t) \in Nat
      /\ DOMAIN s = 1..Len(s) /\ DOMAIN t = 1..Len(t)
      /\ DOMAIN (s \o t) = 1..(Len(s) + Len(t))
      /\ \A i \in 1..Len(s) : (s \o t)[i] = s[i]
      /\ \A i \in 1..Len(t) : (s \o t)[i + Len(s)] = t[i]
  BY ConcatProperties, LenProperties
<1>2. IsFiniteSet(A) /\ IsFiniteSet(B)
  BY CountTyped
<1>3. f \in Bijection(B, D)
  <2>1. B \subseteq Nat
    BY <1>1
  <2>2. f \in Injection(B, D)
    BY <1>1, <2>1 DEF Injection, IsInjective
  <2>3. f \in Surjection(B, D)
    BY DEF Surjection
  <2>4. QED BY <2>2, <2>3 DEF Bijection
<1>4. IsFiniteSet(D) /\ Cardinality(D) = Cardinality(B)
  BY <1>2, <1>3, FS_Bijection DEF ExistsBijection
<1>5. C = A \cup D
  <2>1. ASSUME NEW i \in C PROVE i \in A \cup D
    <3>1. CASE i \in 1..Len(s)
      BY <1>1, <3>1
    <3>2. CASE i \notin 1..Len(s)
      <4>1. i - Len(s) \in 1..Len(t) /\ i = (i - Len(s)) + Len(s)
        BY <1>1, <3>2
      <4>2. i - Len(s) \in B
        BY <1>1, <4>1
      <4>3. QED BY <4>1, <4>2
    <3>3. QED BY <3>1, <3>2
  <2>2. ASSUME NEW i \in A PROVE i \in C
    BY <1>1
  <2>3. ASSUME NEW i \in B PROVE i + Len(s) \in C
    BY <1>1
  <2>4. QED BY <2>1, <2>2, <2>3
<1>6. A \cap D = {}
  BY <1>1
<1>7. Cardinality(A \cup D) = Cardinality(A) + Cardinality(D) - Cardinality(A \cap D)
  BY <1>2, <1>4, FS_Union
<1>8. Cardinality(A) \in Nat /\ Cardinality(D) \in Nat /\ Cardinality(A \cap D) = 0
  BY <1>2, <1>4, <1>6, FS_CardinalityType, FS_EmptySet
<1>9. /\ CountIn(s \o t, S) = Cardinality(C)
      /\ CountIn(s, S) = Cardinality(A) /\ CountIn(t, S) = Cardinality(B)
  BY DEF CountIn
<1> HIDE DEF A, B, C, D, f
<1>10. QED BY <1>4, <1>5, <1>7, <1>8, <1>9

(* One more element at the end, and at the head.                           *)
LEMMA CountAppend ==
  ASSUME NEW T, NEW s \in Seq(T), NEW x \in T, NEW S
  PROVE  CountIn(Append(s, x), S) = CountIn(s, S) + Is(x, S)
<1>1. Append(s, x) = s \o <<x>> /\ <<x>> \in Seq(T)
  BY AppendIsConcat, IsASeq
<1>2. CountIn(s \o <<x>>, S) = CountIn(s, S) + CountIn(<<x>>, S)
  BY <1>1, CountConcat
<1>3. QED BY <1>1, <1>2, CountOne

LEMMA CountPush ==
  ASSUME NEW T, NEW s \in Seq(T), NEW x \in T, NEW S
  PROVE  CountIn(<<x>> \o s, S) = CountIn(s, S) + Is(x, S)
<1>1. <<x>> \in Seq(T)
  OBVIOUS
<1>2. CountIn(<<x>> \o s, S) = CountIn(<<x>>, S) + CountIn(s, S)
  BY <1>1, CountConcat
<1>3. CountIn(s, S) \in Nat
  BY CountTyped
<1>4. QED BY <1>2, <1>3, CountOne DEF Is

(* One less at the head.                                                   *)
LEMMA CountTail ==
  ASSUME NEW T, NEW s \in Seq(T), s # <<>>, NEW S
  PROVE  /\ Head(s) \in T /\ Tail(s) \in Seq(T) /\ Len(Tail(s)) = Len(s) - 1
         /\ CountIn(s, S) = CountIn(Tail(s), S) + Is(Head(s), S)
<1>1. /\ Head(s) \in T /\ Tail(s) \in Seq(T) /\ Len(Tail(s)) = Len(s) - 1
      /\ Head(s) = s[1]
  BY HeadTailProperties, LenProperties, EmptySeq
<1>2. s = <<Head(s)>> \o Tail(s)
  <2>1. s = SubSeq(s, 1, Len(s)) /\ Tail(s) = SubSeq(s, 2, Len(s))
    BY SubSeqFull, TailIsSubSeq
  <2>2. Len(s) \in Nat /\ Len(s) # 0
    BY LenProperties, EmptySeq
  <2>3. SubSeq(s, 1, Len(s)) = <<s[1]>> \o SubSeq(s, 1 + 1, Len(s))
    BY <2>2, SubSeqRecursiveFirst
  <2>4. QED BY <1>1, <2>1, <2>3
<1>3. CountIn(<<Head(s)>> \o Tail(s), S) = CountIn(Tail(s), S) + Is(Head(s), S)
  BY <1>1, CountPush
<1>4. QED BY <1>1, <1>2, <1>3

(* A sequence that is cut in two.                                          *)
LEMMA CountSplit ==
  ASSUME NEW T, NEW s \in Seq(T), NEW k \in 0..Len(s), NEW S
  PROVE  /\ SubSeq(s, 1, k) \in Seq(T) /\ SubSeq(s, k + 1, Len(s)) \in Seq(T)
         /\ Len(SubSeq(s, 1, k)) = k /\ Len(SubSeq(s, k + 1, Len(s))) = Len(s) - k
         /\ CountIn(s, S) = CountIn(SubSeq(s, 1, k), S) + CountIn(SubSeq(s, k + 1, Len(s)), S)
<1>1. Len(s) \in Nat /\ \A i \in 1..Len(s) : s[i] \in T
  BY LenProperties, ElementOfSeq
<1>2. SubSeq(s, 1, k) \in Seq(T) /\ Len(SubSeq(s, 1, k)) = k
  BY <1>1, SubSeqProperties
<1>3. SubSeq(s, k + 1, Len(s)) \in Seq(T) /\ Len(SubSeq(s, k + 1, Len(s))) = Len(s) - k
  <2>1. \A i \in (k + 1)..Len(s) : s[i] \in T
    BY <1>1
  <2>2. SubSeq(s, k + 1, Len(s)) \in Seq(T)
        /\ Len(SubSeq(s, k + 1, Len(s))) = IF k + 1 <= Len(s) THEN Len(s) - (k + 1) + 1 ELSE 0
    BY <1>1, <2>1, SubSeqProperties
  <2>3. QED BY <1>1, <2>2
<1>4. SubSeq(s, 1, k) \o SubSeq(s, k + 1, Len(s)) = s
  <2>1. 1 \in 1..(Len(s) + 1) /\ k \in (1 - 1)..Len(s) /\ Len(s) \in k..Len(s)
    BY <1>1
  <2>2. QED BY <2>1, ConcatAdjacentSubSeq, SubSeqFull
<1>5. CountIn(SubSeq(s, 1, k) \o SubSeq(s, k + 1, Len(s)), S)
        = CountIn(SubSeq(s, 1, k), S) + CountIn(SubSeq(s, k + 1, Len(s)), S)
  BY <1>2, <1>3, CountConcat
<1>6. QED BY <1>2, <1>3, <1>4, <1>5

-----------------------------------------------------------------------------
(* The lists of hpm_data.c and how often a report is in them.              *)
Packs == [id : Reports, from : {"realtm", "delay"}]
Lists == [realtm : Seq(Reports), delay : Seq(Reports), trans : Seq(Packs), flash : Seq(Reports)]

(* How often report r is in a list, and in the list of those under         *)
(* transmission.                                                           *)
Count(s, r) == CountIn(s, {r})
CountSent(s, r) == CountIn(s, {p \in Packs : p.id = r})
Size(s) == Len(s)
Same(x, r) == IF x = r THEN 1 ELSE 0

PlacesIn(d, r) == Count(d.realtm, r) + Count(d.delay, r) + CountSent(d.trans, r)
                  + Count(d.flash, r)

(* The count of one element for a report, and the length of a list.        *)
LEMMA SameIs == ASSUME NEW x, NEW r PROVE Is(x, {r}) = Same(x, r) /\ Same(x, r) \in Nat
BY DEF Is, Same

LEMMA SizeIs ==
  ASSUME NEW T, NEW s \in Seq(T)
  PROVE  Size(s) \in Nat /\ Size(<<>>) = 0 /\ (Size(s) = 0 <=> s = <<>>)
BY LenProperties, EmptySeq DEF Size

(* The same facts for a list of reports: its count, two lists in a row,    *)
(* one report more at the end or at the head, one less, a list cut in two. *)
LEMMA ReportCount ==
  ASSUME NEW s \in Seq(Reports), NEW r
  PROVE  /\ Count(s, r) \in Nat /\ Count(<<>>, r) = 0
         /\ \A i \in 1..Len(s) : s[i] = r => Count(s, r) >= 1
<1>1. /\ CountIn(s, {r}) \in Nat /\ CountIn(<<>>, {r}) = 0
      /\ (\E i \in 1..Len(s) : s[i] \in {r}) => CountIn(s, {r}) >= 1
  BY CountTyped, CountEmpty
<1>2. QED BY <1>1, Zenon DEF Count

LEMMA ReportJoined ==
  ASSUME NEW s \in Seq(Reports), NEW t \in Seq(Reports), NEW r
  PROVE  /\ s \o t \in Seq(Reports) /\ Size(s \o t) = Size(s) + Size(t)
         /\ Count(s \o t, r) = Count(s, r) + Count(t, r)
BY CountConcat, ConcatProperties DEF Count, Size

LEMMA ReportAdded ==
  ASSUME NEW s \in Seq(Reports), NEW x \in Reports, NEW r
  PROVE  /\ Append(s, x) \in Seq(Reports) /\ Size(Append(s, x)) = Size(s) + 1
         /\ Append(s, x) # <<>>
         /\ Count(Append(s, x), r) = Count(s, r) + Same(x, r)
<1>1. CountIn(Append(s, x), {r}) = CountIn(s, {r}) + Is(x, {r})
  BY CountAppend
<1>2. QED BY <1>1, SameIs, AppendProperties DEF Count, Size

LEMMA ReportPushed ==
  ASSUME NEW s \in Seq(Reports), NEW x \in Reports, NEW r
  PROVE  /\ <<x>> \o s \in Seq(Reports) /\ Size(<<x>> \o s) = Size(s) + 1
         /\ Count(<<x>> \o s, r) = Count(s, r) + Same(x, r)
<1>1. CountIn(<<x>> \o s, {r}) = CountIn(s, {r}) + Is(x, {r})
  BY CountPush
<1>2. <<x>> \in Seq(Reports) /\ Len(<<x>>) = 1
  OBVIOUS
<1>3. <<x>> \o s \in Seq(Reports) /\ Len(<<x>> \o s) = 1 + Len(s) /\ Len(s) \in Nat
  BY <1>2, ConcatProperties, LenProperties
<1>4. QED BY <1>1, <1>3, SameIs DEF Count, Size

LEMMA ReportRemoved ==
  ASSUME NEW s \in Seq(Reports), s # <<>>, NEW r
  PROVE  /\ Head(s) \in Reports /\ Head(s) = s[1] /\ 1 \in 1..Len(s)
         /\ Tail(s) \in Seq(Reports) /\ Size(s) = Size(Tail(s)) + 1
         /\ Count(s, r) = Count(Tail(s), r) + Same(Head(s), r)
<1>1. /\ Head(s) \in Reports /\ Tail(s) \in Seq(Reports) /\ Len(Tail(s)) = Len(s) - 1
      /\ CountIn(s, {r}) = CountIn(Tail(s), {r}) + Is(Head(s), {r})
  BY CountTail
<1>2. Head(s) = s[1] /\ 1 \in 1..Len(s) /\ Len(s) - 1 \in Nat
  BY EmptySeq, LenProperties
<1>3. QED BY <1>1, <1>2, SameIs DEF Count, Size

LEMMA ReportSplit ==
  ASSUME NEW s \in Seq(Reports), NEW k \in 0..Len(s), NEW r
  PROVE  /\ SubSeq(s, 1, k) \in Seq(Reports) /\ Size(SubSeq(s, 1, k)) = k
         /\ SubSeq(s, k + 1, Len(s)) \in Seq(Reports)
         /\ Size(SubSeq(s, k + 1, Len(s))) = Size(s) - k
         /\ Count(s, r) = Count(SubSeq(s, 1, k), r) + Count(SubSeq(s, k + 1, Len(s)), r)
BY CountSplit DEF Count, Size

(* And for the list of the packs under transmission: its count, one pack   *)
(* more, the only pack.                                                    *)
LEMMA SentCount ==
  ASSUME NEW s \in Seq(Packs), NEW r
  PROVE  /\ CountSent(s, r) \in Nat /\ CountSent(<<>>, r) = 0
         /\ \A i \in 1..Len(s) : s[i].id = r => CountSent(s, r) >= 1
<1> DEFINE S == {p \in Packs : p.id = r}
<1>1. \A i \in 1..Len(s) : s[i].id = r => s[i] \in S
  BY ElementOfSeq
<1>2. CountSent(s, r) = CountIn(s, S) /\ CountSent(<<>>, r) = CountIn(<<>>, S)
  BY DEF CountSent
<1> HIDE DEF S
<1>3. CountIn(s, S) \in Nat /\ CountIn(<<>>, S) = 0
      /\ ((\E i \in 1..Len(s) : s[i] \in S) => CountIn(s, S) >= 1)
  BY CountTyped, CountEmpty
<1>4. QED BY <1>1, <1>2, <1>3, Zenon

LEMMA SentAdded ==
  ASSUME NEW s \in Seq(Packs), NEW p \in Packs, NEW r
  PROVE  /\ Append(s, p) \in Seq(Packs) /\ Size(Append(s, p)) = Size(s) + 1
         /\ CountSent(Append(s, p), r) = CountSent(s, r) + Same(p.id, r)
         /\ CountSent(<<p>>, r) = Same(p.id, r)
<1> DEFINE S == {q \in Packs : q.id = r}
<1>1. Is(p, S) = Same(p.id, r)
  BY DEF Is, Same
<1>2. /\ CountSent(Append(s, p), r) = CountIn(Append(s, p), S)
      /\ CountSent(s, r) = CountIn(s, S) /\ CountSent(<<p>>, r) = CountIn(<<p>>, S)
  BY DEF CountSent
<1> HIDE DEF S
<1>3. CountIn(Append(s, p), S) = CountIn(s, S) + Is(p, S) /\ CountIn(<<p>>, S) = Is(p, S)
  BY CountAppend, CountOne
<1>4. QED BY <1>1, <1>2, <1>3, AppendProperties DEF Size

LEMMA OneSent ==
  ASSUME NEW s \in Seq(Packs), s # <<>>, Size(s) <= 1
  PROVE  /\ Head(s) \in Packs /\ Head(s).id \in Reports /\ Head(s).from \in {"realtm", "delay"}
         /\ s = <<Head(s)>> /\ Size(s) = 1 /\ Tail(s) = <<>> /\ s[1] = Head(s)
         /\ \A r : CountSent(s, r) = Same(Head(s).id, r)
<1>0. Size(s) = 1
  BY SizeIs
<1>1. Len(s) = 1
  BY <1>0, Zenon DEF Size
<1>2. Head(s) \in Packs /\ s = <<Head(s)>> /\ s[1] = Head(s)
  BY <1>1, HeadTailProperties
<1>3. Tail(s) = <<>>
  <2>1. Tail(s) \in Seq(Packs) /\ Len(Tail(s)) = 0
    BY <1>1, HeadTailProperties
  <2>2. QED BY <2>1, EmptySeq
<1>4. Head(s).id \in Reports /\ Head(s).from \in {"realtm", "delay"}
  BY <1>2 DEF Packs
<1>5. \A r : CountSent(<<Head(s)>>, r) = Same(Head(s).id, r)
  BY <1>2, SentAdded
<1>6. QED BY <1>0, <1>2, <1>3, <1>4, <1>5

(* The lists of a record of them, their lengths, counts and sum.           *)
LEMMA ListsTyped ==
  ASSUME NEW d \in Lists
  PROVE  /\ d.realtm \in Seq(Reports) /\ d.delay \in Seq(Reports)
         /\ d.trans \in Seq(Packs) /\ d.flash \in Seq(Reports)
         /\ <<>> \in Seq(Reports) /\ <<>> \in Seq(Packs)
         /\ Size(d.realtm) \in Nat /\ Size(d.delay) \in Nat /\ Size(d.trans) \in Nat
         /\ Size(d.flash) \in Nat /\ Size(<<>>) = 0
         /\ Used(d) = Size(d.realtm) + Size(d.delay) + Size(d.trans) /\ Used(d) \in Nat
<1>1. /\ d.realtm \in Seq(Reports) /\ d.delay \in Seq(Reports)
      /\ d.trans \in Seq(Packs) /\ d.flash \in Seq(Reports)
  BY DEF Lists
<1>2. /\ Size(d.realtm) \in Nat /\ Size(d.delay) \in Nat /\ Size(d.trans) \in Nat
      /\ Size(d.flash) \in Nat /\ Size(<<>>) = 0
  BY <1>1, SizeIs
<1>3. Used(d) = Size(d.realtm) + Size(d.delay) + Size(d.trans)
  BY Zenon DEF Used, Size
<1>4. <<>> \in Seq(Reports) /\ <<>> \in Seq(Packs)
  BY EmptySeq
<1>5. QED BY <1>1, <1>2, <1>3, <1>4

LEMMA UsedIs == ASSUME NEW d PROVE Used(d) = Size(d.realtm) + Size(d.delay) + Size(d.trans)
BY Zenon DEF Used, Size

LEMMA ListCounts ==
  ASSUME NEW d \in Lists, NEW r
  PROVE  /\ Count(d.realtm, r) \in Nat /\ Count(d.delay, r) \in Nat
         /\ CountSent(d.trans, r) \in Nat /\ Count(d.flash, r) \in Nat
         /\ Count(<<>>, r) = 0 /\ CountSent(<<>>, r) = 0
BY ListsTyped, ReportCount, SentCount

LEMMA PlacesOf ==
  ASSUME NEW d \in Lists, NEW r
  PROVE  /\ PlacesIn(d, r) \in Nat
         /\ (\E i \in 1..Len(d.flash) : d.flash[i] = r) => PlacesIn(d, r) >= 1
         /\ (\E i \in 1..Len(d.trans) : d.trans[i].id = r) => PlacesIn(d, r) >= 1
<1>1. /\ (\E i \in 1..Len(d.flash) : d.flash[i] = r) => Count(d.flash, r) >= 1
      /\ (\E i \in 1..Len(d.trans) : d.trans[i].id = r) => CountSent(d.trans, r) >= 1
  BY ListsTyped, ReportCount, SentCount, Zenon
<1>2. /\ Count(d.realtm, r) \in Nat /\ Count(d.delay, r) \in Nat
      /\ CountSent(d.trans, r) \in Nat /\ Count(d.flash, r) \in Nat
  BY ListCounts
<1>3. /\ PlacesIn(d, r) \in Nat
      /\ Count(d.flash, r) >= 1 => PlacesIn(d, r) >= 1
      /\ CountSent(d.trans, r) >= 1 => PlacesIn(d, r) >= 1
  BY <1>2 DEF PlacesIn
<1>4. QED BY <1>1, <1>3, Zenon

(* hpm_data_flush_realtm_data loses and doubles no report.                 *)
LEMMA FlushRealtmKeeps ==
  ASSUME NEW d \in Lists
  PROVE  LET e == hpm_data_flush_realtm_data(d)
         IN  /\ e \in Lists /\ Used(e) = Used(d)
             /\ e.realtm = <<>> /\ e.trans = d.trans /\ e.flash = d.flash
             /\ \A r : PlacesIn(e, r) = PlacesIn(d, r)
<1> DEFINE e == hpm_data_flush_realtm_data(d)
           s == d.delay \o d.realtm
<1>1. /\ s \in Seq(Reports) /\ Size(s) = Size(d.delay) + Size(d.realtm)
      /\ \A r : Count(s, r) = Count(d.delay, r) + Count(d.realtm, r)
  <2>1. d.delay \in Seq(Reports) /\ d.realtm \in Seq(Reports)
    BY ListsTyped
  <2>2. QED BY <2>1, ReportJoined
<1>2. e = [d EXCEPT !.delay = s, !.realtm = <<>>]
  BY DEF hpm_data_flush_realtm_data
<1> HIDE DEF s
<1>3. e \in Lists /\ e.realtm = <<>> /\ e.delay = s /\ e.trans = d.trans /\ e.flash = d.flash
  BY <1>1, <1>2, ListsTyped DEF Lists
<1> HIDE DEF e
<1>4. Used(e) = Used(d)
  <2>1. /\ Size(d.realtm) \in Nat /\ Size(d.delay) \in Nat /\ Size(d.trans) \in Nat
        /\ Size(<<>>) = 0
    BY ListsTyped
  <2>2. QED BY <1>1, <1>3, <2>1, UsedIs
<1>5. ASSUME NEW r PROVE PlacesIn(e, r) = PlacesIn(d, r)
  <2>1. /\ Count(d.realtm, r) \in Nat /\ Count(d.delay, r) \in Nat
        /\ CountSent(d.trans, r) \in Nat /\ Count(d.flash, r) \in Nat /\ Count(<<>>, r) = 0
    BY ListCounts
  <2>2. QED BY <1>1, <1>3, <2>1 DEF PlacesIn
<1>6. QED BY <1>3, <1>4, <1>5 DEF e

(* Nor does hpm_data_flush_one_realtm_data.                                *)
LEMMA FlushOneKeeps ==
  ASSUME NEW d \in Lists
  PROVE  LET e == hpm_data_flush_one_realtm_data(d)
         IN  /\ e \in Lists /\ Used(e) = Used(d) /\ e.trans = d.trans /\ e.flash = d.flash
             /\ \A r : PlacesIn(e, r) = PlacesIn(d, r)
             /\ d.realtm # <<>> \/ d.delay # <<>> => e.delay # <<>>
<1>1. CASE d.realtm = <<>>
  BY <1>1 DEF hpm_data_flush_one_realtm_data
<1>2. CASE d.realtm # <<>>
  <2> DEFINE e == hpm_data_flush_one_realtm_data(d)
             x == Head(d.realtm)
             s == Tail(d.realtm)
             t == Append(d.delay, x)
  <2>1. /\ x \in Reports /\ s \in Seq(Reports) /\ Size(d.realtm) = Size(s) + 1
        /\ \A r : Count(d.realtm, r) = Count(s, r) + Same(x, r)
    BY <1>2, ListsTyped, ReportRemoved, Zenon
  <2>2. e = [d EXCEPT !.delay = t, !.realtm = s]
    BY <1>2 DEF hpm_data_flush_one_realtm_data
  <2> HIDE DEF x, s
  <2>3. /\ t \in Seq(Reports) /\ Size(t) = Size(d.delay) + 1 /\ t # <<>>
        /\ \A r : Count(t, r) = Count(d.delay, r) + Same(x, r)
    BY <2>1, ListsTyped, ReportAdded, Zenon
  <2> HIDE DEF t
  <2>4. e \in Lists /\ e.realtm = s /\ e.delay = t /\ e.trans = d.trans /\ e.flash = d.flash
    BY <2>1, <2>2, <2>3 DEF Lists
  <2> HIDE DEF e
  <2>5. Used(e) = Used(d)
    <3>1. Size(s) \in Nat /\ Size(d.delay) \in Nat /\ Size(d.trans) \in Nat
      BY <2>1, ListsTyped, SizeIs
    <3>2. Used(e) = Size(s) + Size(t) + Size(d.trans)
          /\ Used(d) = Size(d.realtm) + Size(d.delay) + Size(d.trans)
      BY <2>4, UsedIs, Zenon
    <3>3. QED BY <2>1, <2>3, <3>1, <3>2
  <2>6. ASSUME NEW r PROVE PlacesIn(e, r) = PlacesIn(d, r)
    <3>1. /\ Count(s, r) \in Nat /\ Count(d.delay, r) \in Nat
          /\ CountSent(d.trans, r) \in Nat /\ Count(d.flash, r) \in Nat /\ Same(x, r) \in Nat
      BY <2>1, ListCounts, ReportCount, SameIs
    <3>2. QED BY <2>1, <2>3, <2>4, <3>1 DEF PlacesIn
  <2>7. QED BY <2>3, <2>4, <2>5, <2>6 DEF e
<1>3. QED BY <1>1, <1>2

-----------------------------------------------------------------------------
(* What each operation of hpm_data.c does to the places of a report.       *)
LEMMA FlushTransKeeps ==
  ASSUME NEW d \in Lists, Size(d.trans) <= 1
  PROVE  LET e == hpm_data_flush_trans_list(d)
         IN  /\ e \in Lists /\ Used(e) = Used(d) /\ e.trans = <<>> /\ e.flash = d.flash
             /\ \A r : PlacesIn(e, r) = PlacesIn(d, r)
<1>1. CASE d.trans = <<>>
  BY <1>1 DEF hpm_data_flush_trans_list
<1>2. CASE d.trans # <<>>
  <2> DEFINE e == hpm_data_flush_trans_list(d)
             x == Head(d.trans).id
  <2>1. /\ x \in Reports /\ Head(d.trans).from \in {"realtm", "delay"} /\ Size(d.trans) = 1
        /\ \A r : CountSent(d.trans, r) = Same(x, r)
    BY <1>2, ListsTyped, OneSent, Zenon
  <2>2. /\ d.realtm \in Seq(Reports) /\ d.delay \in Seq(Reports) /\ <<>> \in Seq(Packs)
        /\ Size(d.realtm) \in Nat /\ Size(d.delay) \in Nat /\ Size(<<>>) = 0
    BY ListsTyped
  <2>3. \/ e = [d EXCEPT !.trans = <<>>, !.realtm = Append(d.realtm, x)]
        \/ e = [d EXCEPT !.trans = <<>>, !.delay = Append(d.delay, x)]
    BY <1>2 DEF hpm_data_flush_trans_list
  <2> HIDE DEF x
  <2>4. ASSUME NEW s \in Seq(Reports)
        PROVE  /\ Append(s, x) \in Seq(Reports) /\ Size(Append(s, x)) = Size(s) + 1
               /\ \A r : Count(Append(s, x), r) = Count(s, r) + Same(x, r)
    BY <2>1, ReportAdded, Zenon
  <2>5. ASSUME NEW r
        PROVE  /\ Count(d.realtm, r) \in Nat /\ Count(d.delay, r) \in Nat
               /\ Count(d.flash, r) \in Nat /\ CountSent(<<>>, r) = 0 /\ Same(x, r) \in Nat
    BY ListCounts, SameIs
  <2> SUFFICES ASSUME NEW s, s = Append(d.realtm, x) \/ s = Append(d.delay, x),
                      \/ s = Append(d.realtm, x) /\ e = [d EXCEPT !.trans = <<>>, !.realtm = s]
                      \/ s = Append(d.delay, x) /\ e = [d EXCEPT !.trans = <<>>, !.delay = s]
               PROVE  /\ e \in Lists /\ Used(e) = Used(d) /\ e.trans = <<>> /\ e.flash = d.flash
                      /\ \A r : PlacesIn(e, r) = PlacesIn(d, r)
    BY <2>3
  <2>6. s \in Seq(Reports)
    BY <2>2, <2>4
  <2>7. /\ e \in Lists /\ e.trans = <<>> /\ e.flash = d.flash
        /\ \/ s = Append(d.realtm, x) /\ e.realtm = s /\ e.delay = d.delay
           \/ s = Append(d.delay, x) /\ e.realtm = d.realtm /\ e.delay = s
    <3>1. CASE s = Append(d.realtm, x) /\ e = [d EXCEPT !.trans = <<>>, !.realtm = s]
      <4>1. e \in Lists /\ e.trans = <<>> /\ e.flash = d.flash /\ e.realtm = s /\ e.delay = d.delay
        <5>1. e = [d EXCEPT !.trans = <<>>, !.realtm = s]
          BY <3>1
        <5>2. QED BY <2>2, <2>6, <5>1 DEF Lists
      <4>2. QED BY <3>1, <4>1, Zenon
    <3>2. CASE s = Append(d.delay, x) /\ e = [d EXCEPT !.trans = <<>>, !.delay = s]
      <4>1. e \in Lists /\ e.trans = <<>> /\ e.flash = d.flash /\ e.delay = s /\ e.realtm = d.realtm
        <5>1. e = [d EXCEPT !.trans = <<>>, !.delay = s]
          BY <3>2
        <5>2. QED BY <2>2, <2>6, <5>1 DEF Lists
      <4>2. QED BY <3>2, <4>1, Zenon
    <3>3. QED BY <3>1, <3>2
  <2> HIDE DEF e
  <2>8. Size(e.realtm) + Size(e.delay) = Size(d.realtm) + Size(d.delay) + 1
    <3>1. \/ Size(e.realtm) = Size(d.realtm) + 1 /\ Size(e.delay) = Size(d.delay)
          \/ Size(e.delay) = Size(d.delay) + 1 /\ Size(e.realtm) = Size(d.realtm)
      BY <2>2, <2>4, <2>7, Zenon
    <3>2. QED BY <2>2, <3>1
  <2>9. Used(e) = Used(d)
    <3>1. Used(e) = Size(e.realtm) + Size(e.delay) + Size(<<>>)
          /\ Used(d) = Size(d.realtm) + Size(d.delay) + Size(d.trans)
      BY <2>7, UsedIs, Zenon
    <3>2. QED BY <2>1, <2>2, <2>8, <3>1
  <2>10. ASSUME NEW r PROVE PlacesIn(e, r) = PlacesIn(d, r)
    <3>1. \/ Count(e.realtm, r) = Count(d.realtm, r) + Same(x, r)
             /\ Count(e.delay, r) = Count(d.delay, r)
          \/ Count(e.delay, r) = Count(d.delay, r) + Same(x, r)
             /\ Count(e.realtm, r) = Count(d.realtm, r)
      <4>1. /\ Count(Append(d.realtm, x), r) = Count(d.realtm, r) + Same(x, r)
            /\ Count(Append(d.delay, x), r) = Count(d.delay, r) + Same(x, r)
        BY <2>2, <2>4, Zenon
      <4>2. QED BY <2>7, <4>1, Zenon
    <3>2. CountSent(d.trans, r) = Same(x, r) /\ CountSent(e.trans, r) = 0
          /\ Count(e.flash, r) = Count(d.flash, r)
      BY <2>1, <2>5, <2>7, Zenon
    <3>3. QED BY <2>5, <3>1, <3>2 DEF PlacesIn
  <2>11. QED BY <2>7, <2>9, <2>10
<1>3. QED BY <1>1, <1>2

(* A new report is put into one place.                                     *)
LEMMA NewKeeps ==
  ASSUME NEW d \in Lists, NEW x \in Reports
  PROVE  LET e == [d EXCEPT !.realtm = Append(@, x)]
         IN  /\ e \in Lists /\ Used(e) = Used(d) + 1 /\ e.trans = d.trans /\ e.flash = d.flash
             /\ \A r : PlacesIn(e, r) = PlacesIn(d, r) + Same(x, r)
<1> DEFINE e == [d EXCEPT !.realtm = Append(@, x)]
           s == Append(d.realtm, x)
<1>1. /\ s \in Seq(Reports) /\ Size(s) = Size(d.realtm) + 1
      /\ \A r : Count(s, r) = Count(d.realtm, r) + Same(x, r)
  BY ListsTyped, ReportAdded, Zenon
<1>2. e = [d EXCEPT !.realtm = s]
  OBVIOUS
<1> HIDE DEF s
<1>3. e \in Lists /\ e.realtm = s /\ e.delay = d.delay /\ e.trans = d.trans /\ e.flash = d.flash
  BY <1>1, <1>2 DEF Lists
<1> HIDE DEF e
<1>4. Used(e) = Used(d) + 1
  <2>1. Size(d.realtm) \in Nat /\ Size(d.delay) \in Nat /\ Size(d.trans) \in Nat
    BY ListsTyped
  <2>2. Used(e) = Size(s) + Size(d.delay) + Size(d.trans)
        /\ Used(d) = Size(d.realtm) + Size(d.delay) + Size(d.trans)
    BY <1>3, UsedIs, Zenon
  <2>3. QED BY <1>1, <2>1, <2>2
<1>5. ASSUME NEW r PROVE PlacesIn(e, r) = PlacesIn(d, r) + Same(x, r)
  <2>1. /\ Count(d.realtm, r) \in Nat /\ Count(d.delay, r) \in Nat
        /\ CountSent(d.trans, r) \in Nat /\ Count(d.flash, r) \in Nat /\ Same(x, r) \in Nat
    BY ListCounts, SameIs
  <2>2. QED BY <1>1, <1>3, <2>1 DEF PlacesIn
<1>6. QED BY <1>3, <1>4, <1>5 DEF e

(* A save that fails moves the report to the tail of its list.             *)
LEMMA SaveFailsKeeps ==
  ASSUME NEW d \in Lists, d.delay # <<>>
  PROVE  LET e == SaveOneFails(d)
         IN  /\ e \in Lists /\ Used(e) = Used(d) /\ e.trans = d.trans /\ e.flash = d.flash
             /\ \A r : PlacesIn(e, r) = PlacesIn(d, r)
<1> DEFINE e == SaveOneFails(d)
           x == Head(d.delay)
           t == Tail(d.delay)
           s == Append(t, x)
<1>1. e = [d EXCEPT !.delay = s]
  BY DEF SaveOneFails
<1>2. /\ x \in Reports /\ t \in Seq(Reports) /\ Size(d.delay) = Size(t) + 1
      /\ \A r : Count(d.delay, r) = Count(t, r) + Same(x, r)
  BY ListsTyped, ReportRemoved, Zenon
<1> HIDE DEF x, t
<1>3. /\ s \in Seq(Reports) /\ Size(s) = Size(t) + 1
      /\ \A r : Count(s, r) = Count(t, r) + Same(x, r)
  BY <1>2, ReportAdded, Zenon
<1> HIDE DEF s
<1>4. e \in Lists /\ e.realtm = d.realtm /\ e.delay = s /\ e.trans = d.trans /\ e.flash = d.flash
  BY <1>1, <1>3 DEF Lists
<1> HIDE DEF e
<1>5. Size(s) = Size(d.delay) /\ \A r : Count(s, r) = Count(d.delay, r)
  BY <1>2, <1>3, Zenon
<1>6. Used(e) = Used(d)
  BY <1>4, <1>5, UsedIs, Zenon
<1>7. \A r : PlacesIn(e, r) = PlacesIn(d, r)
  BY <1>4, <1>5, Zenon DEF PlacesIn
<1>8. QED BY <1>4, <1>6, <1>7 DEF e

(* hpm_data_save_one_pack moves a delayed report to flash; a report that a *)
(* full store gives up for it was there once and is gone.                  *)
LEMMA SaveKeeps ==
  ASSUME NEW d \in Lists, d.delay # <<>>, Size(d.flash) <= StoreCap
  PROVE  LET e == hpm_data_save_one_pack(d)
         IN  /\ e \in Lists /\ Used(e) + 1 = Used(d) /\ e.trans = d.trans
             /\ Size(e.flash) <= StoreCap
             /\ \A r : /\ r \in Overwritten(d) => PlacesIn(d, r) = PlacesIn(e, r) + 1
                       /\ r \notin Overwritten(d) => PlacesIn(d, r) = PlacesIn(e, r)
             /\ \A r \in Overwritten(d) : PlacesIn(d, r) >= 1
<1> DEFINE e == hpm_data_save_one_pack(d)
           x == Head(d.delay)
           t == Tail(d.delay)
           f == IF Len(d.flash) = StoreCap THEN Tail(d.flash) ELSE d.flash
           s == Append(f, x)
<1>0. StoreCap \in Nat /\ StoreCap >= 1 /\ d.flash \in Seq(Reports) /\ Size(d.flash) \in Nat
      /\ Size(d.flash) = Len(d.flash)
  <2>1. StoreCap \in Nat /\ StoreCap >= 1
    BY ReportAssumption
  <2>2. QED BY <2>1, ListsTyped, Zenon DEF Size
<1>1. /\ x \in Reports /\ t \in Seq(Reports) /\ Size(d.delay) = Size(t) + 1
      /\ \A r : Count(d.delay, r) = Count(t, r) + Same(x, r)
  BY ListsTyped, ReportRemoved, Zenon
<1>2. /\ f \in Seq(Reports) /\ Size(f) + 1 <= StoreCap
      /\ \A r : /\ r \in Overwritten(d) => Count(d.flash, r) = Count(f, r) + 1
                /\ r \notin Overwritten(d) => Count(d.flash, r) = Count(f, r)
      /\ \A r \in Overwritten(d) : \E i \in 1..Len(d.flash) : d.flash[i] = r
  <2>1. CASE Len(d.flash) = StoreCap
    <3>1. d.flash # <<>>
      <4>1. Size(d.flash) >= 1
        BY <1>0, <2>1, Zenon
      <4>2. CASE d.flash = <<>>
        <5>1. Size(d.flash) = 0
          BY <4>2, ListsTyped, Zenon
        <5>2. QED BY <4>1, <5>1
      <4>3. QED BY <4>2
    <3>2. f = Tail(d.flash) /\ Overwritten(d) = {Head(d.flash)}
      BY <2>1, Zenon DEF Overwritten
    <3> HIDE DEF f
    <3>3. /\ f \in Seq(Reports) /\ Size(d.flash) = Size(f) + 1
          /\ Head(d.flash) = d.flash[1] /\ 1 \in 1..Len(d.flash)
          /\ \A r : Count(d.flash, r) = Count(f, r) + Same(Head(d.flash), r)
      BY <1>0, <3>1, <3>2, ReportRemoved, Zenon
    <3>4. Size(f) + 1 <= StoreCap
      BY <1>0, <2>1, <3>3, Zenon
    <3>5. ASSUME NEW r
          PROVE  /\ r \in Overwritten(d) => Count(d.flash, r) = Count(f, r) + 1
                 /\ r \notin Overwritten(d) => Count(d.flash, r) = Count(f, r)
      <4>1. Count(f, r) \in Nat
        BY <3>3, ReportCount
      <4>2. Count(d.flash, r) = Count(f, r) + Same(Head(d.flash), r)
        BY <3>3
      <4>3. Same(Head(d.flash), r) = IF r \in Overwritten(d) THEN 1 ELSE 0
        BY <3>2 DEF Same
      <4>4. QED BY <4>1, <4>2, <4>3
    <3>6. QED BY <3>2, <3>3, <3>4, <3>5, Zenon
  <2>2. CASE Len(d.flash) # StoreCap
    <3>1. f = d.flash /\ Overwritten(d) = {}
      BY <2>2, Zenon DEF Overwritten
    <3>2. Size(d.flash) # StoreCap
      BY <1>0, <2>2, Zenon
    <3>3. \A m, n \in Nat : m <= n /\ m # n => m + 1 <= n
      OBVIOUS
    <3>4. Size(d.flash) + 1 <= StoreCap
      BY <1>0, <3>2, <3>3, Zenon
    <3> HIDE DEF f
    <3>5. QED BY <1>0, <3>1, <3>4, Zenon
  <2>3. QED BY <2>1, <2>2
<1>3. e = [d EXCEPT !.delay = t, !.flash = s]
  BY DEF hpm_data_save_one_pack, SavedIn, WithoutOldest, OldestOf, Lists
<1> HIDE DEF f, x, t
<1>4. /\ s \in Seq(Reports) /\ Size(s) = Size(f) + 1
      /\ \A r : Count(s, r) = Count(f, r) + Same(x, r)
  BY <1>1, <1>2, ReportAdded, Zenon
<1> HIDE DEF s
<1>5. e \in Lists /\ e.realtm = d.realtm /\ e.delay = t /\ e.trans = d.trans /\ e.flash = s
  BY <1>1, <1>3, <1>4 DEF Lists
<1> HIDE DEF e
<1>6. Used(e) + 1 = Used(d)
  <2>1. Size(d.realtm) \in Nat /\ Size(t) \in Nat /\ Size(d.trans) \in Nat
    BY <1>1, ListsTyped, SizeIs
  <2>2. Used(e) = Size(d.realtm) + Size(t) + Size(d.trans)
        /\ Used(d) = Size(d.realtm) + Size(d.delay) + Size(d.trans)
    BY <1>5, UsedIs, Zenon
  <2>3. QED BY <1>1, <2>1, <2>2
<1>7. ASSUME NEW r
      PROVE  /\ r \in Overwritten(d) => PlacesIn(d, r) = PlacesIn(e, r) + 1
             /\ r \notin Overwritten(d) => PlacesIn(d, r) = PlacesIn(e, r)
  <2>1. /\ Count(d.realtm, r) \in Nat /\ Count(t, r) \in Nat /\ CountSent(d.trans, r) \in Nat
        /\ Count(f, r) \in Nat /\ Same(x, r) \in Nat
    BY <1>1, <1>2, ListCounts, ReportCount, SameIs
  <2>2. /\ Count(s, r) = Count(f, r) + Same(x, r)
        /\ Count(d.delay, r) = Count(t, r) + Same(x, r)
    BY <1>1, <1>4
  <2>3. /\ PlacesIn(d, r) = Count(d.realtm, r) + Count(d.delay, r) + CountSent(d.trans, r)
                            + Count(d.flash, r)
        /\ PlacesIn(e, r) = Count(d.realtm, r) + Count(t, r) + CountSent(d.trans, r)
                            + Count(s, r)
    BY <1>5, Zenon DEF PlacesIn
  <2>4. CASE r \in Overwritten(d)
    <3>1. Count(d.flash, r) = Count(f, r) + 1
      BY <1>2, <2>4
    <3>2. QED BY <2>1, <2>2, <2>3, <2>4, <3>1
  <2>5. CASE r \notin Overwritten(d)
    <3>1. Count(d.flash, r) = Count(f, r)
      BY <1>2, <2>5
    <3>2. QED BY <2>1, <2>2, <2>3, <2>5, <3>1
  <2>6. QED BY <2>4, <2>5
<1>8. \A r \in Overwritten(d) : PlacesIn(d, r) >= 1
  BY <1>2, PlacesOf, Zenon
<1>9. Size(e.flash) <= StoreCap
  BY <1>2, <1>4, <1>5
<1>10. QED BY <1>5, <1>6, <1>7, <1>8, <1>9 DEF e

(* hpm_data_get_report_pack takes one report out of one place.             *)
LEMMA TakeKeeps ==
  ASSUME NEW d \in Lists, ~NothingToSend(d), Used(d) <= PackNum
  PROVE  LET p == hpm_data_get_report_pack(d)
             e == Taken(d)
         IN  /\ p \in Packs /\ p.id \in Reports /\ p.from \in {"realtm", "delay"}
             /\ e \in Lists /\ e.trans = d.trans
             /\ Used(e) + 1 <= PackNum /\ Size(e.flash) <= Size(d.flash)
             /\ \A r : PlacesIn(d, r) = PlacesIn(e, r) + Same(p.id, r)
<1> DEFINE p == hpm_data_get_report_pack(d)
           e == Taken(d)
<1>0. PackNum \in Nat
  BY ReportAssumption
<1>1. /\ Size(d.realtm) \in Nat /\ Size(d.delay) \in Nat /\ Size(d.trans) \in Nat
      /\ Size(d.flash) \in Nat
      /\ Used(d) = Size(d.realtm) + Size(d.delay) + Size(d.trans)
      /\ Used(e) = Size(e.realtm) + Size(e.delay) + Size(e.trans)
      /\ d.realtm \in Seq(Reports) /\ d.delay \in Seq(Reports) /\ d.flash \in Seq(Reports)
  BY ListsTyped, UsedIs, Zenon
<1>2. CASE d.realtm # <<>>
  <2> DEFINE s == Tail(d.realtm)
             x == Head(d.realtm)
  <2>1. p = [id |-> x, from |-> "realtm"] /\ e = [d EXCEPT !.realtm = s]
    BY <1>2 DEF hpm_data_get_report_pack, Taken
  <2>2. /\ x \in Reports /\ s \in Seq(Reports) /\ Size(d.realtm) = Size(s) + 1
        /\ \A r : Count(d.realtm, r) = Count(s, r) + Same(x, r)
    BY <1>1, <1>2, ReportRemoved, Zenon
  <2> HIDE DEF s, x
  <2>3. p \in Packs /\ p.id = x /\ p.from = "realtm"
    BY <2>1, <2>2 DEF Packs
  <2>4. e \in Lists /\ e.realtm = s /\ e.delay = d.delay /\ e.trans = d.trans /\ e.flash = d.flash
    BY <2>1, <2>2 DEF Lists
  <2> HIDE DEF e, p
  <2>5. Used(e) + 1 <= PackNum
    <3>1. Size(s) \in Nat
      BY <2>2, SizeIs
    <3>2. Used(e) = Size(s) + Size(d.delay) + Size(d.trans)
      BY <1>1, <2>4, Zenon
    <3>3. QED BY <1>0, <1>1, <2>2, <3>1, <3>2
  <2>6. ASSUME NEW r PROVE PlacesIn(d, r) = PlacesIn(e, r) + Same(x, r)
    <3>1. /\ Count(s, r) \in Nat /\ Count(d.delay, r) \in Nat /\ CountSent(d.trans, r) \in Nat
          /\ Count(d.flash, r) \in Nat /\ Same(x, r) \in Nat
      BY <2>2, ListCounts, ReportCount, SameIs
    <3>2. QED BY <2>2, <2>4, <3>1 DEF PlacesIn
  <2>7. Size(e.flash) <= Size(d.flash)
    BY <1>1, <2>4
  <2>8. QED BY <2>2, <2>3, <2>4, <2>5, <2>6, <2>7 DEF e, p
<1>3. CASE d.realtm = <<>> /\ d.delay # <<>>
  <2> DEFINE s == Tail(d.delay)
             x == Head(d.delay)
  <2>1. p = [id |-> x, from |-> "delay"] /\ e = [d EXCEPT !.delay = s]
    BY <1>3 DEF hpm_data_get_report_pack, Taken
  <2>2. /\ x \in Reports /\ s \in Seq(Reports) /\ Size(d.delay) = Size(s) + 1
        /\ \A r : Count(d.delay, r) = Count(s, r) + Same(x, r)
    BY <1>1, <1>3, ReportRemoved, Zenon
  <2> HIDE DEF s, x
  <2>3. p \in Packs /\ p.id = x /\ p.from = "delay"
    BY <2>1, <2>2 DEF Packs
  <2>4. e \in Lists /\ e.realtm = d.realtm /\ e.delay = s /\ e.trans = d.trans /\ e.flash = d.flash
    BY <2>1, <2>2 DEF Lists
  <2> HIDE DEF e, p
  <2>5. Used(e) + 1 <= PackNum
    <3>1. Size(s) \in Nat
      BY <2>2, SizeIs
    <3>2. Used(e) = Size(d.realtm) + Size(s) + Size(d.trans)
      BY <1>1, <2>4, Zenon
    <3>3. QED BY <1>0, <1>1, <2>2, <3>1, <3>2
  <2>6. ASSUME NEW r PROVE PlacesIn(d, r) = PlacesIn(e, r) + Same(x, r)
    <3>1. /\ Count(d.realtm, r) \in Nat /\ Count(s, r) \in Nat /\ CountSent(d.trans, r) \in Nat
          /\ Count(d.flash, r) \in Nat /\ Same(x, r) \in Nat
      BY <2>2, ListCounts, ReportCount, SameIs
    <3>2. QED BY <2>2, <2>4, <3>1 DEF PlacesIn
  <2>7. Size(e.flash) <= Size(d.flash)
    BY <1>1, <2>4
  <2>8. QED BY <2>2, <2>3, <2>4, <2>5, <2>6, <2>7 DEF e, p
<1>4. CASE d.realtm = <<>> /\ d.delay = <<>>
  <2> DEFINE s == Tail(d.flash)
             x == Head(d.flash)
  <2>1. p = [id |-> x, from |-> "delay"] /\ e = [d EXCEPT !.flash = s]
    BY <1>4 DEF hpm_data_get_report_pack, Taken
  <2>2. d.flash # <<>> /\ Used(d) # PackNum
    BY <1>4 DEF NothingToSend
  <2>3. /\ x \in Reports /\ s \in Seq(Reports) /\ Size(d.flash) = Size(s) + 1
        /\ \A r : Count(d.flash, r) = Count(s, r) + Same(x, r)
    BY <1>1, <2>2, ReportRemoved, Zenon
  <2> HIDE DEF s, x
  <2>4. p \in Packs /\ p.id = x /\ p.from = "delay"
    BY <2>1, <2>3 DEF Packs
  <2>5. e \in Lists /\ e.realtm = d.realtm /\ e.delay = d.delay /\ e.trans = d.trans /\ e.flash = s
    BY <2>1, <2>3 DEF Lists
  <2> HIDE DEF e, p
  <2>6. Used(e) + 1 <= PackNum
    <3>1. Used(e) = Used(d) /\ Used(d) \in Nat
      BY <2>5, UsedIs, ListsTyped, Zenon
    <3>2. \A m, n \in Nat : m <= n /\ m # n => m + 1 <= n
      OBVIOUS
    <3>3. QED BY <1>0, <2>2, <3>1, <3>2, Zenon
  <2>7. ASSUME NEW r PROVE PlacesIn(d, r) = PlacesIn(e, r) + Same(x, r)
    <3>1. /\ Count(d.realtm, r) \in Nat /\ Count(d.delay, r) \in Nat
          /\ CountSent(d.trans, r) \in Nat /\ Count(s, r) \in Nat /\ Same(x, r) \in Nat
      BY <2>3, ListCounts, ReportCount, SameIs
    <3>2. QED BY <2>3, <2>5, <3>1 DEF PlacesIn
  <2>8. Size(e.flash) <= Size(d.flash)
    <3>1. Size(s) \in Nat
      BY <2>3, SizeIs
    <3>2. QED BY <2>3, <2>5, <3>1
  <2>9. QED BY <2>3, <2>4, <2>5, <2>6, <2>7, <2>8 DEF e, p
<1>5. QED BY <1>2, <1>3, <1>4

(* hpm_data_put_back_report_pack puts it back.                             *)
LEMMA PutBackKeeps ==
  ASSUME NEW d \in Lists, NEW p \in Packs
  PROVE  LET e == hpm_data_put_back_report_pack(d, p)
         IN  /\ e \in Lists /\ Used(e) = Used(d) + 1 /\ e.trans = d.trans /\ e.flash = d.flash
             /\ \A r : PlacesIn(e, r) = PlacesIn(d, r) + Same(p.id, r)
<1> DEFINE e == hpm_data_put_back_report_pack(d, p)
           x == p.id
<1>1. /\ Size(d.realtm) \in Nat /\ Size(d.delay) \in Nat /\ Size(d.trans) \in Nat
      /\ Used(d) = Size(d.realtm) + Size(d.delay) + Size(d.trans)
      /\ Used(e) = Size(e.realtm) + Size(e.delay) + Size(e.trans)
      /\ d.realtm \in Seq(Reports) /\ d.delay \in Seq(Reports)
  BY ListsTyped, UsedIs, Zenon
<1>2. x \in Reports
  BY DEF Packs
<1>3. ASSUME NEW r
      PROVE  /\ Count(d.realtm, r) \in Nat /\ Count(d.delay, r) \in Nat
             /\ CountSent(d.trans, r) \in Nat /\ Count(d.flash, r) \in Nat /\ Same(x, r) \in Nat
  BY ListCounts, SameIs
<1>4. CASE p.from = "realtm"
  <2> DEFINE s == <<x>> \o d.realtm
  <2>1. /\ s \in Seq(Reports) /\ Size(s) = Size(d.realtm) + 1
        /\ \A r : Count(s, r) = Count(d.realtm, r) + Same(x, r)
    BY <1>1, <1>2, ReportPushed, Zenon
  <2>2. e = [d EXCEPT !.realtm = s]
    BY <1>4 DEF hpm_data_put_back_report_pack
  <2> HIDE DEF s
  <2>3. e \in Lists /\ e.realtm = s /\ e.delay = d.delay /\ e.trans = d.trans /\ e.flash = d.flash
    BY <2>1, <2>2 DEF Lists
  <2> HIDE DEF e, x
  <2>4. Used(e) = Used(d) + 1
    BY <1>1, <2>1, <2>3
  <2>5. ASSUME NEW r PROVE PlacesIn(e, r) = PlacesIn(d, r) + Same(x, r)
    BY <1>3, <2>1, <2>3 DEF PlacesIn
  <2>6. QED BY <2>3, <2>4, <2>5 DEF e, x
<1>5. CASE p.from # "realtm"
  <2> DEFINE s == <<x>> \o d.delay
  <2>1. /\ s \in Seq(Reports) /\ Size(s) = Size(d.delay) + 1
        /\ \A r : Count(s, r) = Count(d.delay, r) + Same(x, r)
    BY <1>1, <1>2, ReportPushed, Zenon
  <2>2. e = [d EXCEPT !.delay = s]
    BY <1>5 DEF hpm_data_put_back_report_pack
  <2> HIDE DEF s
  <2>3. e \in Lists /\ e.realtm = d.realtm /\ e.delay = s /\ e.trans = d.trans /\ e.flash = d.flash
    BY <2>1, <2>2 DEF Lists
  <2> HIDE DEF e, x
  <2>4. Used(e) = Used(d) + 1
    BY <1>1, <2>1, <2>3
  <2>5. ASSUME NEW r PROVE PlacesIn(e, r) = PlacesIn(d, r) + Same(x, r)
    BY <1>3, <2>1, <2>3 DEF PlacesIn
  <2>6. QED BY <2>3, <2>4, <2>5 DEF e, x
<1>6. QED BY <1>4, <1>5

(* hpm_data_put_trans_list puts it under transmission.                     *)
LEMMA PutTransKeeps ==
  ASSUME NEW d \in Lists, NEW p \in Packs
  PROVE  LET e == hpm_data_put_trans_list(d, p)
         IN  /\ e \in Lists /\ Used(e) = Used(d) + 1 /\ e.flash = d.flash
             /\ e.trans = Append(d.trans, p) /\ Size(e.trans) = Size(d.trans) + 1
             /\ \A r : PlacesIn(e, r) = PlacesIn(d, r) + Same(p.id, r)
<1> DEFINE e == hpm_data_put_trans_list(d, p)
           s == Append(d.trans, p)
<1>1. /\ Size(d.realtm) \in Nat /\ Size(d.delay) \in Nat /\ Size(d.trans) \in Nat
      /\ Used(d) = Size(d.realtm) + Size(d.delay) + Size(d.trans)
      /\ Used(e) = Size(e.realtm) + Size(e.delay) + Size(e.trans)
  BY ListsTyped, UsedIs, Zenon
<1>2. /\ s \in Seq(Packs) /\ Size(s) = Size(d.trans) + 1
      /\ \A r : CountSent(s, r) = CountSent(d.trans, r) + Same(p.id, r)
  BY ListsTyped, SentAdded, Zenon
<1>3. e = [d EXCEPT !.trans = s]
  BY DEF hpm_data_put_trans_list
<1> SUFFICES /\ e \in Lists /\ Used(e) = Used(d) + 1 /\ e.flash = d.flash
             /\ e.trans = s /\ Size(e.trans) = Size(d.trans) + 1
             /\ \A r : PlacesIn(e, r) = PlacesIn(d, r) + Same(p.id, r)
  OBVIOUS
<1> HIDE DEF s
<1>4. e \in Lists /\ e.realtm = d.realtm /\ e.delay = d.delay /\ e.trans = s /\ e.flash = d.flash
  BY <1>2, <1>3 DEF Lists
<1> HIDE DEF e
<1>5. Used(e) = Used(d) + 1
  BY <1>1, <1>2, <1>4
<1>6. ASSUME NEW r PROVE PlacesIn(e, r) = PlacesIn(d, r) + Same(p.id, r)
  <2>1. /\ Count(d.realtm, r) \in Nat /\ Count(d.delay, r) \in Nat
        /\ CountSent(d.trans, r) \in Nat /\ Count(d.flash, r) \in Nat /\ Same(p.id, r) \in Nat
    BY ListCounts, SameIs
  <2>2. QED BY <1>2, <1>4, <2>1 DEF PlacesIn
<1>7. QED BY <1>2, <1>4, <1>5, <1>6

(* hpm_data_ack_pack takes the only pack out.                              *)
LEMMA AckKeeps ==
  ASSUME NEW d \in Lists, d.trans # <<>>, Size(d.trans) <= 1
  PROVE  LET e == [d EXCEPT !.trans = Tail(@)]
         IN  /\ e \in Lists /\ Used(e) + 1 = Used(d) /\ e.flash = d.flash /\ e.trans = <<>>
             /\ \A r : PlacesIn(d, r) = PlacesIn(e, r) + Same(d.trans[1].id, r)
             /\ d.trans[1].id \in Reports /\ Len(d.trans) = 1
<1> DEFINE e == [d EXCEPT !.trans = Tail(@)]
           x == d.trans[1].id
<1>1. /\ Size(d.realtm) \in Nat /\ Size(d.delay) \in Nat
      /\ Used(d) = Size(d.realtm) + Size(d.delay) + Size(d.trans)
      /\ Used(e) = Size(e.realtm) + Size(e.delay) + Size(e.trans)
      /\ Size(<<>>) = 0 /\ <<>> \in Seq(Packs)
  BY ListsTyped, UsedIs, Zenon
<1>2. /\ x \in Reports /\ Tail(d.trans) = <<>> /\ Size(d.trans) = 1
      /\ \A r : CountSent(d.trans, r) = Same(x, r)
  BY ListsTyped, OneSent, Zenon
<1>3. e = [d EXCEPT !.trans = <<>>]
  BY <1>2
<1>4. e \in Lists /\ e.realtm = d.realtm /\ e.delay = d.delay /\ e.trans = <<>> /\ e.flash = d.flash
  BY <1>1, <1>3 DEF Lists
<1> HIDE DEF e, x
<1>5. Used(e) + 1 = Used(d)
  BY <1>1, <1>2, <1>4
<1>6. ASSUME NEW r PROVE PlacesIn(d, r) = PlacesIn(e, r) + Same(x, r)
  <2>1. /\ Count(d.realtm, r) \in Nat /\ Count(d.delay, r) \in Nat /\ CountSent(<<>>, r) = 0
        /\ Count(d.flash, r) \in Nat /\ Same(x, r) \in Nat
    BY ListCounts, SameIs
  <2>2. QED BY <1>2, <1>4, <2>1 DEF PlacesIn
<1>7. Len(d.trans) = 1
  BY <1>2, Zenon DEF Size
<1>8. QED BY <1>2, <1>4, <1>5, <1>6, <1>7 DEF e, x

(* What stays in the delay list: all behind the reports saved, the one     *)
(* whose save failed at the end.                                           *)
LEMMA LeftKeeps ==
  ASSUME NEW all \in Seq(Reports), NEW saved \in 0..Len(all)
  PROVE  LET left == IF saved = Len(all) THEN <<>>
                     ELSE SubSeq(all, saved + 2, Len(all)) \o <<all[saved + 1]>>
         IN  /\ left \in Seq(Reports) /\ Size(left) <= Size(all)
             /\ \A r : Count(all, r) = Count(SubSeq(all, 1, saved), r) + Count(left, r)
<1> DEFINE left == IF saved = Len(all) THEN <<>>
                   ELSE SubSeq(all, saved + 2, Len(all)) \o <<all[saved + 1]>>
<1>0. Len(all) \in Nat /\ saved \in Nat /\ Size(all) = Len(all) /\ Size(all) \in Nat
  BY LenProperties DEF Size
<1>1. CASE saved = Len(all)
  <2>1. left = <<>> /\ SubSeq(all, 1, saved) = all
    BY <1>1, SubSeqFull
  <2> HIDE DEF left
  <2>2. left \in Seq(Reports) /\ Size(left) = 0
    BY <2>1, SizeIs, EmptySeq
  <2>3. ASSUME NEW r PROVE Count(all, r) = Count(SubSeq(all, 1, saved), r) + Count(left, r)
    <3>1. Count(all, r) \in Nat /\ Count(<<>>, r) = 0
      BY ReportCount
    <3>2. Count(SubSeq(all, 1, saved), r) = Count(all, r) /\ Count(left, r) = Count(<<>>, r)
      BY <2>1, Zenon
    <3>3. QED BY <3>1, <3>2
  <2>4. QED BY <1>0, <2>2, <2>3 DEF left
<1>2. CASE saved # Len(all)
  <2> DEFINE k == saved + 1
             x == all[k]
             s == SubSeq(all, k + 1, Len(all))
  <2>1. k \in 1..Len(all) /\ k \in 0..Len(all) /\ k - 1 = saved /\ k + 1 = saved + 2
    BY <1>0, <1>2
  <2>2. x \in Reports
    BY <2>1, ElementOfSeq
  <2>3. left = s \o <<x>>
    BY <1>2, <2>1
  <2>4. SubSeq(all, 1, k) = SubSeq(all, 1, saved) \o <<x>>
    <3>1. 1 \in 1..Len(all) /\ k \in 1..Len(all)
      BY <2>1
    <3>2. SubSeq(all, 1, k) = SubSeq(all, 1, k - 1) \o <<all[k]>>
      BY <3>1, SubSeqRecursiveSecond
    <3>3. QED BY <2>1, <3>2
  <2> HIDE DEF x, k, left
  <2>5. /\ s \in Seq(Reports) /\ Size(s) = Size(all) - k
        /\ SubSeq(all, 1, saved) \in Seq(Reports)
        /\ \A r : Count(all, r) = Count(SubSeq(all, 1, k), r) + Count(s, r)
    BY <2>1, ReportSplit
  <2> HIDE DEF s
  <2> DEFINE one == <<x>>
  <2>6. one \in Seq(Reports) /\ Size(one) = 1 /\ left = s \o one
        /\ SubSeq(all, 1, k) = SubSeq(all, 1, saved) \o one
    <3>1. one \in Seq(Reports) /\ Size(one) = 1
      BY <2>2 DEF Size
    <3>2. left = s \o one /\ SubSeq(all, 1, k) = SubSeq(all, 1, saved) \o one
      BY <2>3, <2>4, Zenon
    <3>3. QED BY <3>1, <3>2
  <2> HIDE DEF one
  <2>7. /\ left \in Seq(Reports) /\ Size(left) = Size(s) + Size(one)
        /\ \A r : Count(left, r) = Count(s, r) + Count(one, r)
    BY <2>5, <2>6, ReportJoined
  <2>8. \A r : Count(SubSeq(all, 1, k), r) = Count(SubSeq(all, 1, saved), r) + Count(one, r)
    <3> DEFINE t == SubSeq(all, 1, saved)
    <3>1. t \in Seq(Reports)
      BY <2>5
    <3> HIDE DEF t
    <3>2. \A r : Count(t \o one, r) = Count(t, r) + Count(one, r)
      BY <3>1, <2>6, ReportJoined
    <3>3. QED BY <2>6, <3>2 DEF t
  <2>9. Size(one) = 1
    BY <2>6
  <2>10. Size(left) <= Size(all)
    BY <1>0, <2>1, <2>5, <2>7, <2>9
  <2>11. ASSUME NEW r PROVE Count(all, r) = Count(SubSeq(all, 1, saved), r) + Count(left, r)
    <3>1. /\ Count(SubSeq(all, 1, saved), r) \in Nat /\ Count(s, r) \in Nat
          /\ Count(one, r) \in Nat
      BY <2>5, <2>6, ReportCount
    <3>2. QED BY <2>5, <2>7, <2>8, <3>1
  <2>12. QED BY <2>7, <2>10, <2>11 DEF left
<1>3. QED BY <1>1, <1>2

(* hpm_stop: what is saved, less what the store gives up for it.           *)
LEMMA FlushAllKeeps ==
  ASSUME NEW d \in Lists, NEW saved \in 0..Len(d.delay), hpm_data_flush_alldata(d, saved)
  PROVE  \E L : /\ L \subseteq Reports /\ lost' = lost \cup L
                /\ data' \in Lists /\ Used(data') <= Used(d) /\ data'.trans = d.trans
                /\ Size(data'.flash) <= StoreCap
                /\ \A r : /\ r \in L => PlacesIn(data', r) + 1 <= PlacesIn(d, r)
                          /\ r \notin L => PlacesIn(data', r) = PlacesIn(d, r)
<1> DEFINE all == d.delay
           got == SubSeq(all, 1, saved)
           left == IF saved = Len(all) THEN <<>>
                   ELSE SubSeq(all, saved + 2, Len(all)) \o <<all[saved + 1]>>
           flash == d.flash \o got
           over == IF Len(flash) > StoreCap THEN Len(flash) - StoreCap ELSE 0
           L == ToSet(SubSeq(flash, 1, over))
           new == SubSeq(flash, over + 1, Len(flash))
<1>1. data' = [d EXCEPT !.flash = new, !.delay = left] /\ lost' = lost \cup L
  BY DEF hpm_data_flush_alldata
<1>2. /\ d.realtm \in Seq(Reports) /\ all \in Seq(Reports) /\ d.flash \in Seq(Reports)
      /\ Size(d.realtm) \in Nat /\ Size(all) \in Nat /\ Size(d.trans) \in Nat
  BY ListsTyped
<1>3. /\ left \in Seq(Reports) /\ Size(left) <= Size(all)
      /\ \A r : Count(all, r) = Count(got, r) + Count(left, r)
  BY <1>2, LeftKeeps
<1>4. got \in Seq(Reports)
  BY <1>2, ReportSplit
<1> HIDE DEF left, got, all
<1>5. /\ flash \in Seq(Reports) /\ Len(flash) \in Nat
      /\ \A r : Count(flash, r) = Count(d.flash, r) + Count(got, r)
  BY <1>2, <1>4, ReportJoined, LenProperties
<1> HIDE DEF flash
<1>6. over \in 0..Len(flash) /\ Len(flash) - over <= StoreCap /\ over \in Nat
  BY <1>5, ReportAssumption
<1> HIDE DEF over
<1>7. /\ new \in Seq(Reports) /\ Size(new) = Size(flash) - over
      /\ SubSeq(flash, 1, over) \in Seq(Reports)
      /\ \A r : Count(flash, r) = Count(SubSeq(flash, 1, over), r) + Count(new, r)
  BY <1>5, <1>6, ReportSplit
<1>8. Size(new) <= StoreCap
  BY <1>6, <1>7, Zenon DEF Size
<1>9. \A r : /\ r \in L => Count(SubSeq(flash, 1, over), r) >= 1
             /\ r \notin L => Count(SubSeq(flash, 1, over), r) = 0
  <2> DEFINE t == SubSeq(flash, 1, over)
  <2>1. t \in Seq(Reports)
    BY <1>7
  <2> HIDE DEF t
  <2>2. ASSUME NEW r PROVE r \in ToSet(t) => Count(t, r) >= 1
    BY <2>1, ReportCount, Zenon DEF ToSet
  <2>3. ASSUME NEW r, r \notin ToSet(t) PROVE Count(t, r) = 0
    <3>1. {i \in DOMAIN t : t[i] \in {r}} = {}
      BY <2>1, <2>3, LenProperties DEF ToSet
    <3>2. QED BY <3>1, FS_EmptySet, Zenon DEF Count, CountIn
  <2>4. QED BY <2>2, <2>3 DEF t
<1>10. L \subseteq Reports
  <2> DEFINE t == SubSeq(flash, 1, over)
  <2>1. t \in Seq(Reports)
    BY <1>7
  <2> HIDE DEF t
  <2>2. \A i \in 1..Len(t) : t[i] \in Reports
    BY <2>1, ElementOfSeq
  <2>3. ToSet(t) \subseteq Reports
    BY <2>2 DEF ToSet
  <2>4. QED BY <2>3 DEF t
<1>11. /\ data' \in Lists /\ data'.realtm = d.realtm /\ data'.delay = left
       /\ data'.trans = d.trans /\ data'.flash = new
  <2>1. new \in Seq(Reports)
    BY <1>7
  <2> HIDE DEF new, L
  <2>2. QED BY <1>1, <1>3, <2>1 DEF Lists
<1> HIDE DEF new, L
<1>12. Used(data') <= Used(d)
  <2>1. /\ Used(data') = Size(d.realtm) + Size(left) + Size(d.trans)
        /\ Used(d) = Size(d.realtm) + Size(all) + Size(d.trans)
    BY <1>11, UsedIs, Zenon DEF all
  <2>2. Size(left) \in Nat
    BY <1>3, SizeIs
  <2>3. QED BY <1>2, <1>3, <2>1, <2>2
<1>13. ASSUME NEW r
       PROVE  /\ r \in L => PlacesIn(data', r) + 1 <= PlacesIn(d, r)
              /\ r \notin L => PlacesIn(data', r) = PlacesIn(d, r)
  <2>1. /\ Count(d.realtm, r) \in Nat /\ CountSent(d.trans, r) \in Nat
        /\ Count(d.flash, r) \in Nat /\ Count(got, r) \in Nat /\ Count(left, r) \in Nat
        /\ Count(new, r) \in Nat /\ Count(SubSeq(flash, 1, over), r) \in Nat
    BY <1>3, <1>4, <1>7, ListCounts, ReportCount
  <2>2. /\ Count(all, r) = Count(got, r) + Count(left, r)
        /\ Count(flash, r) = Count(d.flash, r) + Count(got, r)
        /\ Count(flash, r) = Count(SubSeq(flash, 1, over), r) + Count(new, r)
    BY <1>3, <1>5, <1>7
  <2>3. /\ PlacesIn(d, r) = Count(d.realtm, r) + Count(all, r) + CountSent(d.trans, r)
                            + Count(d.flash, r)
        /\ PlacesIn(data', r) = Count(d.realtm, r) + Count(left, r) + CountSent(d.trans, r)
                                + Count(new, r)
    BY <1>11, Zenon DEF PlacesIn, all
  <2>4. /\ r \in L => Count(SubSeq(flash, 1, over), r) >= 1
        /\ r \notin L => Count(SubSeq(flash, 1, over), r) = 0
    BY <1>9
  <2>5. QED BY <2>1, <2>2, <2>3, <2>4
<1>14. Size(data'.flash) <= StoreCap
  BY <1>8, <1>11
<1>15. QED BY <1>1, <1>11, <1>12, <1>13, <1>14, <1>10
-----------------------------------------------------------------------------
(* The books are balanced: what was made is in one place, or was freed, or *)
(* was lost.                                                               *)
Owed == 1..made \ (freed \cup lost)
Counted ==
  /\ data \in Lists /\ made \in 0..MaxReports
  /\ freed \subseteq 1..made /\ lost \subseteq 1..made
  /\ \A r \in Reports : /\ r \in Owed => PlacesIn(data, r) = 1
                        /\ r \notin Owed => PlacesIn(data, r) = 0
  /\ Used(data) <= PackNum /\ Size(data.flash) <= StoreCap
Single ==
  /\ Size(data.trans) <= 1
  /\ ses.step = "SESSION" /\ "report" \notin ses.waits => data.trans = <<>>

(* A report is in one place or in none.                                    *)
LEMMA CountedBounds ==
  ASSUME Counted
  PROVE  /\ made \in Nat /\ MaxReports \in Nat /\ made <= MaxReports
         /\ \A r \in Reports : PlacesIn(data, r) \in {0, 1}
BY ReportAssumption DEF Counted

(* A step that makes the reports behind made and gives up those of G keeps *)
(* the balance.                                                            *)
LEMMA Balance ==
  ASSUME Counted, data' \in Lists, made' \in {made, made + 1}, made' <= MaxReports,
         NEW G \in SUBSET Reports, freed \subseteq freed', lost \subseteq lost',
         freed' \cup lost' = freed \cup lost \cup G,
         Used(data') <= PackNum, Size(data'.flash) <= StoreCap,
         \A r \in Reports : PlacesIn(data', r) + Is(r, G)
                            = PlacesIn(data, r) + Is(r, made + 1 .. made')
  PROVE  Counted'
<1>1. made \in Nat /\ MaxReports \in Nat /\ made' \in 0..MaxReports
  BY CountedBounds
<1>2. ASSUME NEW r \in Reports
      PROVE  /\ r \in Owed' => PlacesIn(data', r) = 1
             /\ r \notin Owed' => PlacesIn(data', r) = 0
             /\ r \in G => r \in 1..made'
  <2>1. PlacesIn(data', r) \in Nat
    BY PlacesOf
  <2>2. /\ r \in Owed => PlacesIn(data, r) = 1
        /\ r \notin Owed => PlacesIn(data, r) = 0
    BY DEF Counted
  <2>3. PlacesIn(data', r) + Is(r, G) = PlacesIn(data, r) + Is(r, made + 1 .. made')
    OBVIOUS
  <2> DEFINE New == made + 1 .. made'
  <2>4. /\ r \in New => r \notin Owed /\ r \in 1..made' /\ r \notin freed \cup lost
        /\ r \in Owed => r \in 1..made'
        /\ r \in 1..made' <=> (r \in 1..made \/ r \in New)
    BY <1>1 DEF Counted, Owed, Reports
  <2> HIDE DEF New
  <2>5. /\ r \in G => Is(r, G) = 1
        /\ r \notin G => Is(r, G) = 0
        /\ r \in New => Is(r, New) = 1
        /\ r \notin New => Is(r, New) = 0
    BY DEF Is
  <2>6. r \in Owed' <=> r \notin G /\ (r \in Owed \/ r \in New)
    <3>1. r \in Owed' <=> r \in 1..made' /\ r \notin freed' \cup lost'
      BY DEF Owed
    <3>2. r \in Owed <=> r \in 1..made /\ r \notin freed \cup lost
      BY DEF Owed
    <3>3. r \in freed' \cup lost' <=> r \in freed \cup lost \/ r \in G
      OBVIOUS
    <3>4. QED BY <2>4, <3>1, <3>2, <3>3, Zenon
  <2>7. PlacesIn(data', r) + Is(r, G) = PlacesIn(data, r) + Is(r, New)
    BY <2>3 DEF New
  <2> HIDE DEF Owed
  <2>8. QED BY <2>1, <2>2, <2>4, <2>5, <2>6, <2>7
<1>3. freed' \cup lost' \subseteq 1..made'
  BY <1>1, <1>2 DEF Counted
<1>4. QED BY <1>1, <1>2, <1>3 DEF Counted

(* A step that only moves reports.                                         *)
LEMMA Moved ==
  ASSUME Counted, data' \in Lists, UNCHANGED <<made, freed, lost>>,
         Used(data') <= PackNum, Size(data'.flash) <= StoreCap,
         \A r \in Reports : PlacesIn(data', r) = PlacesIn(data, r)
  PROVE  Counted'
<1>1. data' \in Lists /\ Used(data') <= PackNum /\ Size(data'.flash) <= StoreCap
  OBVIOUS
<1>2. \A r \in Reports : /\ r \in Owed => PlacesIn(data', r) = 1
                         /\ r \notin Owed => PlacesIn(data', r) = 0
  BY DEF Counted
<1>3. QED BY <1>1, <1>2, Zenon DEF Counted, Owed

(* A step that leaves the lists alone.                                     *)
LEMMA SameData ==
  ASSUME Counted, UNCHANGED <<data, made, freed, lost>> PROVE Counted'
BY DEF Counted, Owed

(* hpm_dev_report: the new report is put into a free pack, or into that of *)
(* an older one that went to flash, or is dropped with or without a save   *)
(* that failed.                                                            *)
LEMMA ReportKept ==
  ASSUME Counted, Single, hpm_dev_report PROVE Counted' /\ Single' /\ data'.trans = data.trans
<1> DEFINE x == made + 1
           d == hpm_data_flush_one_realtm_data(data)
<1>0. /\ made' = x /\ made < MaxReports /\ UNCHANGED <<ses, freed>>
      /\ made \in Nat /\ MaxReports \in Nat /\ x \in Reports
      /\ x \in Nat /\ made' \in {made, made + 1} /\ made' <= MaxReports
  BY CountedBounds DEF hpm_dev_report, Reports
<1>1. \A r \in Reports : /\ Is(r, made + 1 .. made') = Same(x, r)
                         /\ Is(r, {}) = 0 /\ Is(r, {x}) = Same(x, r)
                         /\ Same(x, r) \in Nat /\ PlacesIn(data, r) \in Nat
  BY <1>0, CountedBounds DEF Is, Same, Reports
<1>2. data \in Lists /\ Used(data) <= PackNum /\ Size(data.flash) <= StoreCap
  BY DEF Counted
<1>3. /\ d \in Lists /\ Used(d) = Used(data) /\ d.trans = data.trans /\ d.flash = data.flash
      /\ \A r : PlacesIn(d, r) = PlacesIn(data, r)
  BY <1>2, FlushOneKeeps
<1> HIDE DEF d, x
<1>4. CASE Used(data) < PackNum /\ data' = [data EXCEPT !.realtm = Append(@, x)] /\ lost' = lost
  <2>1. /\ data' \in Lists /\ Used(data') = Used(data) + 1 /\ data'.trans = data.trans
        /\ data'.flash = data.flash
        /\ \A r : PlacesIn(data', r) = PlacesIn(data, r) + Same(x, r)
    BY <1>0, <1>2, <1>4, NewKeeps
  <2>2. Used(data') <= PackNum
    <3>1. Used(data) \in Nat /\ PackNum \in Nat
      BY <1>2, ListsTyped, ReportAssumption
    <3>2. QED BY <1>4, <2>1, <3>1
  <2>3. \A r \in Reports : PlacesIn(data', r) + Is(r, {})
                           = PlacesIn(data, r) + Is(r, made + 1 .. made')
    BY <1>1, <2>1
  <2>4. Counted'
    BY <1>0, <1>2, <1>4, <2>1, <2>2, <2>3, Balance
  <2>5. QED BY <1>0, <2>1, <2>4 DEF Single
<1>5. CASE data' = data /\ lost' = lost \cup {x}
  <2>1. \A r \in Reports : PlacesIn(data', r) + Is(r, {x})
                           = PlacesIn(data, r) + Is(r, made + 1 .. made')
    BY <1>1, <1>5
  <2>2. Counted'
    BY <1>0, <1>2, <1>5, <2>1, Balance
  <2>3. QED BY <1>0, <1>5, <2>2 DEF Single
<1>6. CASE /\ d.delay # <<>> /\ lost' = lost \cup Overwritten(data)
           /\ data' = [hpm_data_save_one_pack(d) EXCEPT !.realtm = Append(@, x)]
  <2> DEFINE e == hpm_data_save_one_pack(d)
             G == Overwritten(d)
  <2>1. /\ e \in Lists /\ Used(e) + 1 = Used(d) /\ e.trans = d.trans
        /\ Size(e.flash) <= StoreCap
        /\ \A r : /\ r \in G => PlacesIn(d, r) = PlacesIn(e, r) + 1
                  /\ r \notin G => PlacesIn(d, r) = PlacesIn(e, r)
        /\ \A r \in G : PlacesIn(d, r) >= 1
    BY <1>2, <1>3, <1>6, SaveKeeps
  <2>2. lost' = lost \cup G
    BY <1>3, <1>6 DEF Overwritten
  <2>3. G \in SUBSET Reports
    <3>1. CASE Len(d.flash) = StoreCap
      <4>1. d.flash \in Seq(Reports) /\ Len(d.flash) >= 1
        BY <1>3, <3>1, ListsTyped, ReportAssumption
      <4>2. Head(d.flash) \in Reports
        BY <4>1, HeadTailProperties, EmptySeq
      <4>3. QED BY <4>2 DEF Overwritten
    <3>2. QED BY <3>1 DEF Overwritten
  <2> HIDE DEF e, G
  <2>4. data' = [e EXCEPT !.realtm = Append(@, x)]
    BY <1>6 DEF e
  <2>5. /\ data' \in Lists /\ Used(data') = Used(e) + 1 /\ data'.trans = e.trans
        /\ data'.flash = e.flash
        /\ \A r : PlacesIn(data', r) = PlacesIn(e, r) + Same(x, r)
    BY <1>0, <2>1, <2>4, NewKeeps
  <2>6. Used(data') <= PackNum
    <3>1. Used(data') = Used(data)
      BY <1>3, <2>1, <2>5
    <3>2. QED BY <1>2, <3>1
  <2>7. ASSUME NEW r \in Reports
        PROVE PlacesIn(data', r) + Is(r, G) = PlacesIn(data, r) + Is(r, made + 1 .. made')
    <3>1. /\ PlacesIn(e, r) \in Nat /\ PlacesIn(data, r) = PlacesIn(d, r)
          /\ PlacesIn(data', r) = PlacesIn(e, r) + Same(x, r)
          /\ Is(r, made + 1 .. made') = Same(x, r) /\ Same(x, r) \in Nat
      BY <1>1, <1>3, <2>1, <2>5, PlacesOf
    <3>2. CASE r \in G
      <4>1. Is(r, G) = 1 /\ PlacesIn(d, r) = PlacesIn(e, r) + 1
        BY <2>1, <3>2 DEF Is
      <4>2. QED BY <3>1, <4>1
    <3>3. CASE r \notin G
      <4>1. Is(r, G) = 0 /\ PlacesIn(d, r) = PlacesIn(e, r)
        BY <2>1, <3>3 DEF Is
      <4>2. QED BY <3>1, <4>1
    <3>4. QED BY <3>2, <3>3
  <2>8. Size(data'.flash) <= StoreCap
    BY <2>1, <2>5
  <2>9. freed \subseteq freed' /\ lost \subseteq lost' /\ freed' \cup lost' = freed \cup lost \cup G
    BY <1>0, <2>2
  <2>10. Counted'
    BY <1>0, <2>3, <2>5, <2>6, <2>7, <2>8, <2>9, Balance
  <2>11. QED BY <1>0, <1>3, <2>1, <2>5, <2>10 DEF Single
<1>7. CASE d.delay # <<>> /\ data' = SaveOneFails(d) /\ lost' = lost \cup {x}
  <2>1. /\ data' \in Lists /\ Used(data') = Used(d) /\ data'.trans = d.trans
        /\ data'.flash = d.flash /\ \A r : PlacesIn(data', r) = PlacesIn(d, r)
    BY <1>3, <1>7, SaveFailsKeeps
  <2>2. Used(data') <= PackNum /\ Size(data'.flash) <= StoreCap
    BY <1>2, <1>3, <2>1
  <2>3. \A r \in Reports : PlacesIn(data', r) + Is(r, {x})
                           = PlacesIn(data, r) + Is(r, made + 1 .. made')
    BY <1>1, <1>3, <2>1
  <2>4. Counted'
    BY <1>0, <1>7, <2>1, <2>2, <2>3, Balance
  <2>5. QED BY <1>0, <1>3, <2>1, <2>4 DEF Single
<1>8. QED BY <1>4, <1>5, <1>6, <1>7 DEF hpm_dev_report, d, x

(* Both lists are flushed: at a login, before the sleep, at the wake-up.   *)
LEMMA FlushBothKeeps ==
  ASSUME NEW d \in Lists, Size(d.trans) <= 1
  PROVE  LET e == hpm_data_flush_realtm_data(hpm_data_flush_trans_list(d))
         IN  /\ e \in Lists /\ Used(e) = Used(d) /\ e.trans = <<>> /\ e.flash = d.flash
             /\ \A r : PlacesIn(e, r) = PlacesIn(d, r)
<1> DEFINE f == hpm_data_flush_trans_list(d)
<1>1. /\ f \in Lists /\ Used(f) = Used(d) /\ f.trans = <<>> /\ f.flash = d.flash
      /\ \A r : PlacesIn(f, r) = PlacesIn(d, r)
  BY FlushTransKeeps
<1> HIDE DEF f
<1>2. LET e == hpm_data_flush_realtm_data(f)
      IN  /\ e \in Lists /\ Used(e) = Used(f) /\ e.trans = f.trans /\ e.flash = f.flash
          /\ \A r : PlacesIn(e, r) = PlacesIn(f, r)
  BY <1>1, FlushRealtmKeeps
<1>3. QED BY <1>1, <1>2 DEF f

(* A report is sent, or its send fails and it is put back: nothing was     *)
(* under transmission before, so one at most is now.                       *)
LEMMA SendKept ==
  ASSUME StagesTyped, Counted, Single, ses.step = "SESSION", SendReport,
         UNCHANGED <<made, lost>>
  PROVE  Counted' /\ Single'
<1> DEFINE p == hpm_data_get_report_pack(data)
           d == Taken(data)
<1>1. /\ data.trans = <<>> /\ ~NothingToSend(data)
      /\ "report" \in ses'.waits
      /\ freed' = freed
      /\ \/ data' = hpm_data_put_trans_list(d, p)
         \/ data' = hpm_data_put_back_report_pack(d, p)
  BY DEF SendReport, Single, StagesTyped
<1>2. data \in Lists /\ Used(data) <= PackNum /\ Size(data.flash) <= StoreCap
  BY DEF Counted
<1>3. /\ p \in Packs /\ d \in Lists /\ d.trans = data.trans
      /\ Used(d) + 1 <= PackNum /\ Size(d.flash) <= Size(data.flash)
      /\ \A r : PlacesIn(data, r) = PlacesIn(d, r) + Same(p.id, r)
  BY <1>1, <1>2, TakeKeeps
<1> HIDE DEF p, d
<1>4. /\ data' \in Lists /\ Used(data') = Used(d) + 1 /\ data'.flash = d.flash
      /\ Size(data'.trans) <= 1
      /\ \A r : PlacesIn(data', r) = PlacesIn(d, r) + Same(p.id, r)
  <2>0. Size(d.trans) = 0 /\ Size(d.trans) \in Nat
    BY <1>1, <1>3, ListsTyped
  <2>1. CASE data' = hpm_data_put_trans_list(d, p)
    BY <1>3, <2>0, <2>1, PutTransKeeps
  <2>2. CASE data' = hpm_data_put_back_report_pack(d, p)
    BY <1>3, <2>0, <2>2, PutBackKeeps
  <2>3. QED BY <1>1, <2>1, <2>2
<1>5. Used(data') <= PackNum
  BY <1>3, <1>4
<1>6. Size(data'.flash) <= StoreCap
  <2>1. Size(data.flash) \in Nat /\ Size(d.flash) \in Nat /\ StoreCap \in Nat
    BY <1>2, <1>3, ListsTyped, ReportAssumption
  <2>2. QED BY <1>2, <1>3, <1>4, <2>1
<1>7. \A r \in Reports : PlacesIn(data', r) = PlacesIn(data, r)
  BY <1>3, <1>4
<1>8. Counted'
  BY <1>1, <1>4, <1>5, <1>6, <1>7, Moved
<1>9. QED BY <1>1, <1>4, <1>8 DEF Single

(* An answer with success frees the pack under transmission, if there is   *)
(* one.                                                                    *)
LEMMA AckKept ==
  ASSUME StagesTyped, Counted, Single, ReportAcked, UNCHANGED <<made, lost>>
  PROVE  Counted' /\ Single'
<1>0. data \in Lists /\ Used(data) <= PackNum /\ Size(data.flash) <= StoreCap
      /\ Size(data.trans) <= 1
  BY DEF Counted, Single
<1>1. hpm_data_ack_pack
  BY DEF ReportAcked
<1>2. CASE data.trans = <<>>
  <2>1. data' = data
    <3>1. data' = [data EXCEPT !.trans = data.trans]
      BY <1>1, <1>2 DEF hpm_data_ack_pack
    <3>2. QED BY <1>0, <3>1 DEF Lists
  <2>2. freed' = freed
    <3>1. freed' = freed \cup {data.trans[i].id : i \in {1} \cap 1..Len(data.trans)}
      BY <1>1 DEF hpm_data_ack_pack
    <3>2. {1} \cap 1..Len(data.trans) = {}
      BY <1>2
    <3>3. QED BY <3>1, <3>2
  <2>3. QED BY <1>2, <2>1, <2>2, SameData DEF Single
<1>3. CASE data.trans # <<>>
  <2> DEFINE x == data.trans[1].id
  <2>1. /\ data' = [data EXCEPT !.trans = Tail(@)]
    BY <1>1, <1>3 DEF hpm_data_ack_pack
  <2>2. /\ data' \in Lists /\ Used(data') + 1 = Used(data) /\ data'.flash = data.flash
        /\ data'.trans = <<>>
        /\ \A r : PlacesIn(data, r) = PlacesIn(data', r) + Same(x, r)
        /\ x \in Reports /\ Len(data.trans) = 1
    BY <1>0, <1>3, <2>1, AckKeeps
  <2>3. freed' = freed \cup {x}
    <3>1. freed' = freed \cup {data.trans[i].id : i \in {1} \cap 1..Len(data.trans)}
      BY <1>1 DEF hpm_data_ack_pack
    <3>2. {1} \cap 1..Len(data.trans) = {1}
      BY <2>2
    <3>3. QED BY <3>1, <3>2
  <2> HIDE DEF x
  <2>4. Used(data') <= PackNum
    <3>1. Used(data) \in Nat /\ Used(data') \in Nat /\ PackNum \in Nat
      BY <1>0, <2>2, ListsTyped, ReportAssumption
    <3>2. QED BY <1>0, <2>2, <3>1
  <2>5. ASSUME NEW r \in Reports
        PROVE PlacesIn(data', r) + Is(r, {x}) = PlacesIn(data, r) + Is(r, made + 1 .. made')
    <3>1. Is(r, {x}) = Same(x, r) /\ Is(r, made + 1 .. made') = 0 /\ Same(x, r) \in Nat
      BY CountedBounds DEF Is, Same
    <3>2. PlacesIn(data, r) = PlacesIn(data', r) + Same(x, r) /\ PlacesIn(data', r) \in Nat
      BY <2>2, PlacesOf
    <3>3. QED BY <3>1, <3>2
  <2>6. made' \in {made, made + 1} /\ made' <= MaxReports
    BY CountedBounds
  <2>7. Counted'
    BY <1>0, <2>2, <2>3, <2>4, <2>5, <2>6, Balance
  <2>8. Single'
    <3>1. Size(data'.trans) <= 1
      BY <2>2, ListsTyped
    <3>2. QED BY <2>2, <3>1 DEF Single
  <2>9. QED BY <2>7, <2>8
<1>4. QED BY <1>2, <1>3

(* The lists are flushed and the session is not in its running step, or is *)
(* with nothing under transmission.                                        *)
LEMMA FlushedKept ==
  ASSUME Counted, Single, UNCHANGED <<made, freed, lost>>,
         \/ data' = hpm_data_flush_trans_list(data)
         \/ data' = hpm_data_flush_realtm_data(hpm_data_flush_trans_list(data))
  PROVE  Counted' /\ Single'
<1>1. data \in Lists /\ Used(data) <= PackNum /\ Size(data.flash) <= StoreCap
      /\ Size(data.trans) <= 1
  BY DEF Counted, Single
<1>2. /\ data' \in Lists /\ Used(data') = Used(data) /\ data'.flash = data.flash
      /\ data'.trans = <<>>
      /\ \A r : PlacesIn(data', r) = PlacesIn(data, r)
  BY <1>1, FlushTransKeeps, FlushBothKeeps
<1>3. Counted'
  BY <1>1, <1>2, Moved
<1>4. Size(data'.trans) <= 1
  BY <1>2, ListsTyped
<1>5. QED BY <1>2, <1>3, <1>4 DEF Single

(* The lists stay, and the session neither enters its running step nor     *)
(* stops waiting for a report in it.                                       *)
LEMMA UntouchedKept ==
  ASSUME Counted, Single, UNCHANGED <<data, made, freed, lost>>,
         \/ ses'.step # "SESSION"
         \/ ses.step = "SESSION" /\ ("report" \in ses.waits => "report" \in ses'.waits)
  PROVE  Counted' /\ Single'
BY SameData DEF Single

(* hpm_stop: the lists go to flash, and what the store gives up for them   *)
(* is lost.                                                                *)
LEMMA SleepKept ==
  ASSUME Counted, Single, HpmSleeps PROVE Counted' /\ Single'
<1> DEFINE d == hpm_data_flush_realtm_data(hpm_data_flush_trans_list(data))
<1>1. data \in Lists /\ Used(data) <= PackNum /\ Size(data.trans) <= 1
  BY DEF Counted, Single
<1>2. /\ d \in Lists /\ Used(d) = Used(data) /\ d.trans = <<>>
      /\ \A r : PlacesIn(d, r) = PlacesIn(data, r)
  BY <1>1, FlushBothKeeps
<1>3. PICK saved \in 0..Len(d.delay) : hpm_data_flush_alldata(d, saved)
  BY DEF HpmSleeps
<1> HIDE DEF d
<1>4. PICK L : /\ L \subseteq Reports /\ lost' = lost \cup L
               /\ data' \in Lists /\ Used(data') <= Used(d) /\ data'.trans = d.trans
               /\ Size(data'.flash) <= StoreCap
               /\ \A r : /\ r \in L => PlacesIn(data', r) + 1 <= PlacesIn(d, r)
                         /\ r \notin L => PlacesIn(data', r) = PlacesIn(d, r)
  BY <1>2, <1>3, FlushAllKeeps
<1>5. made' = made /\ freed' = freed
  BY DEF HpmSleeps
<1>6. Used(data') <= PackNum
  <2>1. Used(data') \in Nat /\ Used(data) \in Nat /\ PackNum \in Nat
    BY <1>1, <1>4, ListsTyped, ReportAssumption
  <2>2. QED BY <1>1, <1>2, <1>4, <2>1
<1>7. ASSUME NEW r \in Reports
      PROVE PlacesIn(data', r) + Is(r, L) = PlacesIn(data, r) + Is(r, made + 1 .. made')
  <2>1. /\ PlacesIn(data', r) \in Nat /\ PlacesIn(d, r) = PlacesIn(data, r)
        /\ PlacesIn(data, r) \in {0, 1}
    BY <1>2, <1>4, PlacesOf, CountedBounds
  <2>2. Is(r, made + 1 .. made') = 0
    BY <1>5, CountedBounds DEF Is
  <2>3. CASE r \in L
    <3>1. Is(r, L) = 1 /\ PlacesIn(data', r) + 1 <= PlacesIn(d, r)
      BY <1>4, <2>3 DEF Is
    <3>2. QED BY <2>1, <2>2, <3>1
  <2>4. CASE r \notin L
    <3>1. Is(r, L) = 0 /\ PlacesIn(data', r) = PlacesIn(d, r)
      BY <1>4, <2>4 DEF Is
    <3>2. QED BY <2>1, <2>2, <3>1
  <2>5. QED BY <2>3, <2>4
<1>8. /\ made' \in {made, made + 1} /\ made' <= MaxReports
      /\ freed \subseteq freed' /\ lost \subseteq lost' /\ freed' \cup lost' = freed \cup lost \cup L
  BY <1>4, <1>5, CountedBounds
<1>9. Counted'
  BY <1>4, <1>6, <1>7, <1>8, Balance
<1>10. data'.trans = <<>> /\ Size(data'.trans) <= 1
  BY <1>2, <1>4, ListsTyped
<1>11. QED BY <1>9, <1>10 DEF Single

(* A login leads to the step it is sent for, or to that of its failure.    *)
LEMMA LoginStep ==
  ASSUME StagesTyped, NEW step, NEW failed, hpm_session_com_login(step, failed)
  PROVE  ses'.step \in {step, failed}
<1>1. CASE ses' = [ses EXCEPT !.step = step, !.waits = @ \cup {"login"}]
  BY <1>1 DEF StagesTyped
<1>2. CASE ses' = [step |-> failed, run |-> FALSE, waits |-> {"login"}]
  BY <1>2
<1>3. QED BY <1>1, <1>2 DEF hpm_session_com_login

(* hpm_session_process, step by step.                                      *)
LEMMA SessionKept ==
  ASSUME StagesTyped, Counted, Single, hpm_session_process PROVE Counted' /\ Single'
<1>0. UNCHANGED <<made, lost>>
  BY DEF hpm_session_process
<1>1. CASE SessionStopped
  <2>1. UNCHANGED <<data, freed>> /\ ses'.step # "SESSION"
    BY <1>1 DEF SessionStopped, StagesTyped, Steps
  <2>2. QED BY <1>0, <2>1, UntouchedKept
<1>2. CASE hpm_session_proc_init
  <2>1. UNCHANGED <<data, freed>> /\ ses'.step # "SESSION"
    <3>1. CASE hpm_session_com_login("LOGIN", "LOGIN")
      BY <3>1, <1>2, LoginStep DEF hpm_session_proc_init
    <3>2. CASE ~hpm_session_com_login("LOGIN", "LOGIN")
      BY <3>2, <1>2 DEF hpm_session_proc_init, StagesTyped
    <3>3. QED BY <3>1, <3>2
  <2>2. QED BY <1>0, <2>1, UntouchedKept
<1>3. CASE hpm_session_proc_login
  <2>1. freed' = freed
    BY <1>3 DEF hpm_session_proc_login
  <2>2. CASE data' = hpm_data_flush_realtm_data(hpm_data_flush_trans_list(data))
    BY <1>0, <2>1, <2>2, FlushedKept
  <2>3. CASE data' = data /\ ses'.step # "SESSION"
    BY <1>0, <2>1, <2>3, UntouchedKept
  <2>4. ASSUME hpm_session_com_login("LOGIN", "INIT") PROVE ses'.step # "SESSION"
    BY <2>4, LoginStep
  <2>5. \/ data' = hpm_data_flush_realtm_data(hpm_data_flush_trans_list(data))
        \/ /\ data' = data /\ ses.step = "LOGIN"
           /\ \/ ses' = ses
              \/ ses' = [ses EXCEPT !.waits = @ \ {"login"}]
              \/ ses' = [ses EXCEPT !.step = "INIT", !.waits = @ \ {"login"}]
              \/ hpm_session_com_login("LOGIN", "INIT")
    BY <1>3, Zenon DEF hpm_session_proc_login
  <2>6. QED BY <2>2, <2>3, <2>4, <2>5 DEF StagesTyped
<1>4. CASE hpm_session_proc_session
  <2>0. ses.step = "SESSION"
    BY <1>4 DEF hpm_session_proc_session
  <2>1. CASE SendReport
    BY <1>0, <2>0, <2>1, SendKept
  <2>2. CASE NothingSent
    <3>1. UNCHANGED <<data, freed, ses>>
      BY <2>2 DEF NothingSent
    <3>2. QED BY <1>0, <2>0, <3>1, UntouchedKept
  <2>3. CASE ReportAcked
    BY <1>0, <2>3, AckKept
  <2>4. CASE ReportFails
    <3>1. data' = hpm_data_flush_trans_list(data) /\ freed' = freed
      BY <2>4 DEF ReportFails
    <3>2. QED BY <1>0, <3>1, FlushedKept
  <2>5. CASE HeartbeatFails
    <3>1. UNCHANGED <<data, freed>> /\ ses'.step # "SESSION"
      BY <2>5, ForceStopTyped DEF HeartbeatFails
    <3>2. QED BY <1>0, <3>1, UntouchedKept
  <2>6. QED BY <1>4, <2>1, <2>2, <2>3, <2>4, <2>5 DEF hpm_session_proc_session
<1>5. CASE hpm_session_proc_logout
  <2>1. UNCHANGED <<data, freed>> /\ ses'.step # "SESSION"
    <3>1. /\ UNCHANGED <<data, freed>> /\ ses.step = "LOGOUT"
          /\ \/ ses' = ses
             \/ ses' = [ses EXCEPT !.step = "INIT", !.waits = @ \ {"logout"}]
             \/ ses' = [ses EXCEPT !.step = "INIT", !.waits = @ \cup {"logout"}]
             \/ ses' = [ses EXCEPT !.waits = @ \cup {"logout"}]
      BY <1>5, Zenon DEF hpm_session_proc_logout
    <3>2. QED BY <3>1 DEF StagesTyped
  <2>2. QED BY <1>0, <2>1, UntouchedKept
<1>6. QED BY <1>1, <1>2, <1>3, <1>4, <1>5 DEF hpm_session_process

(* The manager and the socket leave the lists alone.                       *)
LEMMA SocketKept ==
  ASSUME StagesTyped, Counted, Single, hpm_socket_process \/ hpm_mgr_process \/ hpm_socket_handle_msg
  PROVE Counted' /\ Single'
<1>1. UNCHANGED <<data, made, freed, lost>>
  BY DEF hpm_socket_process, hpm_mgr_process, hpm_socket_handle_msg, ManagerStarts, ManagerIdles,
         ManagerRestarts, ManagerStops, hpm_mgr_in_wait_stop, history
<1>2. \/ ses' = ses
      \/ ses' = hpm_session_force_stop
      \/ ses' = [ses EXCEPT !.run = TRUE]
      \/ ses' = [ses EXCEPT !.run = FALSE]
  <2>1. CASE hpm_mgr_process
    BY <2>1 DEF hpm_mgr_process, ManagerStarts, ManagerIdles, ManagerRestarts, ManagerStops,
                hpm_mgr_in_wait_stop, hpm_socket_force_stop
  <2>2. CASE hpm_socket_handle_msg
    BY <2>2 DEF hpm_socket_handle_msg, hpm_socket_force_stop
  <2>3. CASE hpm_socket_process
    BY <2>3 DEF hpm_socket_process, hpm_socket_handle_idle, hpm_socket_handle_wait_dial,
                hpm_socket_handle_connecting, hpm_socket_handle_connected, hpm_socket_handle_stopping,
                hpm_socket_handle_closing, hpm_socket_handle_closed, hpm_session_start
  <2>4. QED BY <2>1, <2>2, <2>3
<1>3. \/ ses'.step = ses.step /\ ses'.waits = ses.waits
      \/ ses'.step # "SESSION"
  BY <1>2, ForceStopTyped DEF StagesTyped
<1>4. QED BY <1>1, <1>3, UntouchedKept

(* Every step keeps the books, and they are balanced at first.             *)
LEMMA StepKept ==
  ASSUME StagesTyped, Counted, Single, [HpmNext]_hpmVars PROVE Counted' /\ Single'
<1>1. CASE Manager \/ hpm_socket_process \/ hpm_socket_handle_msg
  BY <1>1, SocketKept DEF Manager
<1>2. CASE hpm_dev_report
  BY <1>2, ReportKept
<1>3. CASE hpm_session_process
  BY <1>3, SessionKept
<1>4. CASE LinkChanges \/ Server \/ RestArrives \/ NoiseArrives \/ AccChanges \/ UNCHANGED hpmVars
  <2>1. UNCHANGED <<data, made, freed, lost, ses>>
    BY <1>4 DEF LinkChanges, Server, RestArrives, NoiseArrives, AccChanges, hpmVars, history
  <2>2. QED BY <2>1, SameData DEF Single
<1>5. CASE HpmSleeps
  BY <1>5, SleepKept
<1>6. CASE HpmWakes
  <2>1. /\ UNCHANGED <<made, freed, lost>>
        /\ data' = hpm_data_flush_realtm_data(hpm_data_flush_trans_list(data))
    BY <1>6 DEF HpmWakes, history
  <2>2. QED BY <2>1, FlushedKept
<1>7. QED BY <1>1, <1>2, <1>3, <1>4, <1>5, <1>6 DEF HpmNext

LEMMA InitKept == ASSUME HpmInit PROVE Counted /\ Single
<1>1. /\ data = [realtm |-> <<>>, delay |-> <<>>, trans |-> <<>>, flash |-> <<>>]
      /\ made = 0 /\ freed = {} /\ lost = {}
  BY DEF HpmInit
<1>2. /\ data \in Lists
      /\ data.realtm = <<>> /\ data.delay = <<>> /\ data.trans = <<>> /\ data.flash = <<>>
  BY <1>1 DEF Lists
<1>3. Size(<<>>) = 0
  BY <1>2, ListsTyped
<1>4. Used(data) = Size(<<>>) + Size(<<>>) + Size(<<>>)
  BY <1>2, UsedIs, Zenon
<1>5. Used(data) = 0 /\ Size(data.flash) = 0 /\ Size(data.trans) = 0
  BY <1>2, <1>3, <1>4
<1>6. ASSUME NEW r \in Reports PROVE PlacesIn(data, r) = 0
  <2>1. Count(<<>>, r) = 0 /\ CountSent(<<>>, r) = 0
    BY <1>2, ReportCount, SentCount, ListsTyped
  <2>2. PlacesIn(data, r) = Count(<<>>, r) + Count(<<>>, r) + CountSent(<<>>, r) + Count(<<>>, r)
    BY <1>2, Zenon DEF PlacesIn
  <2>3. QED BY <2>1, <2>2
<1>7. Owed = {}
  BY <1>1 DEF Owed
<1>8. QED BY <1>1, <1>2, <1>5, <1>6, <1>7, ReportAssumption DEF Counted, Single

(* The places a report is counted at are those of the lists.               *)
LEMMA PlacesCounted == ASSUME data \in Lists, NEW r PROVE PlacesIn(data, r) = Places(r)
<1>1. /\ {i \in DOMAIN data.realtm : data.realtm[i] \in {r}} = {i \in DOMAIN data.realtm : data.realtm[i] = r}
      /\ {i \in DOMAIN data.delay : data.delay[i] \in {r}} = {i \in DOMAIN data.delay : data.delay[i] = r}
      /\ {i \in DOMAIN data.flash : data.flash[i] \in {r}} = {i \in DOMAIN data.flash : data.flash[i] = r}
  OBVIOUS
<1>2. {i \in DOMAIN data.trans : data.trans[i] \in {p \in Packs : p.id = r}}
      = {i \in DOMAIN data.trans : data.trans[i].id = r}
  <2>1. \A i \in DOMAIN data.trans : data.trans[i] \in Packs
    BY ListsTyped, ElementOfSeq, LenProperties
  <2>2. QED BY <2>1
<1>3. QED BY <1>1, <1>2, Zenon DEF PlacesIn, Places, Count, CountSent, CountIn

(* A report that hpm_dev.c made and that is neither freed by an answer nor *)
(* dropped by a full or failing store is in exactly one of hpm_data.c's    *)
(* lists or in flash, any other in none; the packs suffice, and at most    *)
(* one is under transmission.                                              *)
THEOREM ReportsAreKept == HpmSpec => []NothingForgotten
<1>1. ASSUME Counted, Single PROVE NothingForgotten
  <2>1. ASSUME NEW r \in Reports
        PROVE Places(r) = IF r \in 1..made \ (freed \cup lost) THEN 1 ELSE 0
    <3>1. PlacesIn(data, r) = Places(r)
      BY <1>1, PlacesCounted DEF Counted
    <3>2. QED BY <1>1, <3>1 DEF Counted, Owed
  <2>2. Used(data) <= PackNum /\ Len(data.flash) <= StoreCap
    BY <1>1, Zenon DEF Counted, Size
  <2>3. OneInFlight
    BY <1>1, Zenon DEF Single, OneInFlight, Size
  <2>4. QED BY <2>1, <2>2, <2>3 DEF NothingForgotten
<1>2. StagesTyped /\ Settled /\ Counted /\ Single /\ [HpmNext]_hpmVars
      => (StagesTyped /\ Settled /\ Counted /\ Single)'
  BY StepSettles, StepKept
<1>3. HpmInit => StagesTyped /\ Settled /\ Counted /\ Single
  BY InitSettled, InitKept
<1>4. QED BY <1>1, <1>2, <1>3, PTL DEF HpmSpec
-----------------------------------------------------------------------------
(* The answers on their way to the session.  Known holds of each answer    *)
(* that arrived; Heard are the places in the buffer that the session will  *)
(* read: whole answers with no noise before them.                          *)
Known == {a \in Answers \cup {Noise} : /\ a.to \in Reports => a.to \in received
                                       /\ a.cut /\ a.ok => misread}
Heard == {i \in 1..Len(rx) : ~rx[i].cut /\ \A j \in 1..i : rx[j] # Noise}

(* The buffer, the requests and the rest of an answer have their types,    *)
(* and a connection that is gone has nothing under way.                    *)
Tracked ==
  /\ rx \in Seq(Known) /\ up \in Seq(Requests) /\ misread \in BOOLEAN
  /\ rest = None \/ (rest \in Known \cap Answers /\ ~rest.cut)
  /\ link \notin {"on", "drop"} => up = <<>> /\ rest = None

(* An answer to a login is the last that will be read: nothing is under    *)
(* way behind it.                                                          *)
LoginLast ==
  /\ \A i \in Heard : rx[i].to = Login => /\ rest = None /\ up = <<>>
                                          /\ \A j \in Heard : j <= i
  /\ rest.to = Login => up = <<>>
  /\ \A i \in 1..Len(up) : up[i] = Login => i = Len(up)

(* None to a login is on its way; so it is once the session is logged in.  *)
NoLogin == /\ \A i \in Heard : rx[i].to # Login
           /\ rest.to # Login
           /\ \A i \in 1..Len(up) : up[i] # Login
LoginDone == ses.step \in {"SESSION", "LOGOUT"} => NoLogin

(* In the session only answers to heartbeats are on their way, and that to *)
(* the report under transmission, before all of them.                      *)
Mine(k) == "report" \in ses.waits /\ data.trans # <<>> /\ k = data.trans[1].id
OneMine == /\ \A i \in Heard : rx[i].to = Heartbeat \/ (Mine(rx[i].to) /\ \A j \in Heard : i <= j)
           /\ rest # None => rest.to = Heartbeat \/ (Mine(rest.to) /\ Heard = {})
           /\ \A i \in 1..Len(up) : \/ up[i] = Heartbeat
                                    \/ Mine(up[i]) /\ i = 1 /\ Heard = {} /\ rest = None

(* While the server has not got the report, nothing is read before it is   *)
(* answered, or the connection is gone for good.                           *)
Unanswered ==
  \A k \in Reports \ received : Mine(k) =>
    /\ Heard = {} /\ rest = None
    /\ \/ up # <<>> /\ up[1] = k
       \/ up = <<>> /\ link \notin {"on", "dial"}
OnlyMine == ses.step = "SESSION" => OneMine /\ Unanswered

(* All this holds while no answer may be taken for another's.              *)
Matched == ~misread => LoginLast /\ LoginDone /\ OnlyMine

(* Logins and logouts are no reports, and nothing is named by the number   *)
(* of no request.                                                          *)
LEMMA Numbers ==
  /\ Login \in Nat /\ Logout \in Nat /\ Login \notin Reports /\ Logout # Login /\ 0 \notin Requests
  /\ Login # 0 /\ Login \in Requests /\ Logout \in Requests /\ Reports \subseteq Requests
  /\ Heartbeat \in Requests /\ Heartbeat \notin Reports /\ Heartbeat # Login /\ Heartbeat # 0
BY ReportAssumption DEF Login, Logout, Heartbeat, Reports, Requests

LEMMA NoneIs ==
  /\ None.to = 0 /\ None.to # Login /\ None.to # Logout /\ None \notin Answers /\ None.cut /\ ~None.ok
  /\ Noise.to = 0 /\ ~Noise.cut /\ ~Noise.ok /\ Noise # None
BY Numbers DEF None, Noise, Answers

(* What is known of an answer stays true.                                  *)
LEMMA KnownGrows ==
  ASSUME received \subseteq received', misread => misread'
  PROVE  Known \subseteq Known' /\ \A s \in Seq(Known) : s \in Seq(Known')
<1>1. Known \subseteq Known'
  BY DEF Known
<1> HIDE DEF Known
<1>2. QED BY <1>1

LEMMA NoiseKnown == Noise \in Known
BY NoneIs, Numbers DEF Known, Reports

(* Each answer in the buffer is known.                                     *)
LEMMA KnownElements ==
  ASSUME rx \in Seq(Known)
  PROVE  /\ Len(rx) \in Nat
         /\ \A i \in 1..Len(rx) : rx[i] \in Known /\ rx[i] \in Answers \cup {Noise}
<1>1. Known \subseteq Answers \cup {Noise}
  BY DEF Known
<1>2. QED BY <1>1, ElementOfSeq, LenProperties

(* What the session takes of the buffer.                                   *)
LEMMA RestIs ==
  ASSUME rx \in Seq(Known)
  PROVE  /\ Rest \in Seq(Known)
         /\ Rest = rx \/ (rx # <<>> /\ ~Blocked /\ ~Head(rx).cut /\ Rest = Tail(rx) /\ Info = rx[1])
         /\ rx = <<>> => Info = None
<1>1. rx # <<>> => Tail(rx) \in Seq(Known) /\ Head(rx) = rx[1]
  BY HeadTailProperties
<1>2. QED BY <1>1 DEF Rest, Info, Blocked

(* What is read next once the first answer was read.                       *)
LEMMA HeardTail ==
  ASSUME rx \in Seq(Known), rx # <<>>, ~Blocked, rx' = Tail(rx)
  PROVE  \A i \in Heard' : i + 1 \in Heard /\ rx'[i] = rx[i + 1]
<1>1. /\ Len(rx) \in Nat /\ Len(rx') = Len(rx) - 1 /\ rx[1] # Noise
      /\ \A i \in 1..Len(rx') : rx'[i] = rx[i + 1]
  BY HeadTailProperties, LenProperties, EmptySeq DEF Blocked
<1>2. ASSUME NEW i \in Heard' PROVE i + 1 \in Heard /\ rx'[i] = rx[i + 1]
  <2>1. i \in 1..Len(rx') /\ ~rx'[i].cut /\ \A j \in 1..i : rx'[j] # Noise
    BY DEF Heard
  <2>2. i \in Nat /\ i + 1 \in 1..Len(rx) /\ rx'[i] = rx[i + 1]
    BY <1>1, <2>1
  <2>3. ASSUME NEW j \in 1..i + 1 PROVE rx[j] # Noise
    <3>1. CASE j = 1
      BY <1>1, <3>1
    <3>2. CASE j # 1
      <4>1. j - 1 \in 1..i /\ j - 1 \in 1..Len(rx') /\ (j - 1) + 1 = j
        BY <1>1, <2>1, <2>2, <3>2
      <4>2. rx'[j - 1] = rx[j] /\ rx'[j - 1] # Noise
        BY <1>1, <2>1, <4>1
      <4>3. QED BY <4>2
    <3>3. QED BY <3>1, <3>2
  <2>4. QED BY <2>1, <2>2, <2>3 DEF Heard
<1>3. QED BY <1>2

(* A buffer that stays, and one that is empty or blocked.                  *)
LEMMA HeardSame == ASSUME rx' = rx PROVE Heard' = Heard
BY DEF Heard

LEMMA HeardNone == ASSUME rx = <<>> \/ Blocked, rx \in Seq(Known) PROVE Heard = {}
<1>1. CASE rx = <<>>
  BY <1>1, EmptySeq DEF Heard
<1>2. CASE rx # <<>>
  <2>1. rx[1] = Noise /\ Len(rx) \in Nat
    BY <1>2, HeadTailProperties, LenProperties DEF Blocked
  <2>2. ASSUME NEW i \in Heard PROVE FALSE
    <3>1. i \in 1..Len(rx) /\ \A j \in 1..i : rx[j] # Noise
      BY DEF Heard
    <3>2. 1 \in 1..i
      BY <2>1, <3>1
    <3>3. QED BY <2>1, <3>1, <3>2
  <2>3. QED BY <2>2
<1>3. QED BY <1>1, <1>2

(* What the session takes was heard, the rest is moved up by one.          *)
LEMMA HeardRest ==
  ASSUME rx \in Seq(Known), rx' = Rest
  PROVE  \E k \in {0, 1} : /\ \A i \in Heard' : i + k \in Heard /\ rx'[i] = rx[i + k]
                           /\ k = 1 \/ rx' = rx
                           /\ rx # <<>> /\ ~Blocked /\ ~Head(rx).cut => k = 1
<1>1. CASE rx # <<>> /\ ~Blocked /\ ~Head(rx).cut
  <2>1. rx' = Tail(rx)
    BY <1>1 DEF Rest
  <2>2. \A i \in Heard' : i + 1 \in Heard /\ rx'[i] = rx[i + 1]
    BY <1>1, <2>1, HeardTail
  <2>3. QED BY <1>1, <2>2
<1>2. CASE ~(rx # <<>> /\ ~Blocked /\ ~Head(rx).cut)
  <2>1. rx' = rx
    BY <1>2 DEF Rest
  <2>2. ASSUME NEW i \in Heard' PROVE i + 0 \in Heard /\ rx'[i] = rx[i + 0]
    <3>1. i \in Heard /\ i \in 1..Len(rx)
      BY <2>1, HeardSame DEF Heard
    <3>2. Len(rx) \in Nat
      BY LenProperties
    <3>3. i + 0 = i
      BY <3>1, <3>2
    <3>4. QED BY <2>1, <3>1, <3>3
  <2>3. QED BY <1>2, <2>1, <2>2
<1>3. QED BY <1>1, <1>2

(* The rest of an answer completes the last one.                           *)
LEMMA HeardWhole ==
  ASSUME rx \in Seq(Known), Len(rx) > 0, rx[Len(rx)].cut, NEW a \in Known,
         rx' = [rx EXCEPT ![Len(rx)] = a]
  PROVE  /\ \A i \in Heard' : \/ i \in Heard /\ rx'[i] = rx[i]
                              \/ i = Len(rx) /\ rx'[i] = a
         /\ \A i \in Heard : i < Len(rx)
         /\ rx' \in Seq(Known)
<1> DEFINE n == Len(rx)
<1>0. n \in Nat /\ n \in 1..n
  BY LenProperties
<1>1. /\ Len(rx') = n /\ rx'[n] = a /\ rx' \in Seq(Known)
      /\ \A i \in 1..n : i # n => rx'[i] = rx[i]
  BY <1>0, ExceptSeq
<1>2. ASSUME NEW i \in Heard PROVE i < n
  BY <1>0 DEF Heard
<1>3. ASSUME NEW i \in Heard', i # n PROVE i \in Heard /\ rx'[i] = rx[i]
  <2>1. i \in 1..n /\ ~rx'[i].cut /\ \A j \in 1..i : rx'[j] # Noise
    BY <1>1 DEF Heard
  <2>2. \A j \in 1..i : j \in 1..n /\ j # n
    BY <1>0, <1>3, <2>1
  <2>3. QED BY <1>1, <1>3, <2>1, <2>2 DEF Heard
<1>4. ASSUME NEW i \in Heard' PROVE (i \in Heard /\ rx'[i] = rx[i]) \/ (i = n /\ rx'[i] = a)
  BY <1>1, <1>3
<1>5. QED BY <1>1, <1>2, <1>4

(* What follows a first part ends it as noise: nothing more is read of it. *)
LEMMA HeardBroken ==
  ASSUME rx \in Seq(Known), Len(rx) > 0, rx[Len(rx)].cut, rx' = [rx EXCEPT ![Len(rx)] = Noise]
  PROVE  /\ \A i \in Heard' : i \in Heard /\ rx'[i] = rx[i]
         /\ rx' \in Seq(Known)
<1>1. /\ \A i \in Heard' : (i \in Heard /\ rx'[i] = rx[i]) \/ (i = Len(rx) /\ rx'[i] = Noise)
      /\ rx' \in Seq(Known)
  BY NoiseKnown, HeardWhole
<1>2. ASSUME NEW i \in Heard' PROVE rx'[i] # Noise
  <2>1. i \in 1..Len(rx') /\ \A j \in 1..i : rx'[j] # Noise
    BY DEF Heard
  <2>2. Len(rx') \in Nat
    BY <1>1, LenProperties
  <2>3. i \in 1..i
    BY <2>1, <2>2
  <2>4. QED BY <2>1, <2>3
<1>3. QED BY <1>1, <1>2

(* Of what arrives only a whole answer is heard, behind all that was.      *)
LEMMA HeardArrives ==
  ASSUME rx \in Seq(Known), NEW a, Arrives(a)
  PROVE  /\ \A i \in Heard' : \/ i \in Heard /\ rx'[i] = rx[i]
                              \/ i = Len(rx) + 1 /\ rx'[i] = a /\ ~a.cut /\ a # Noise
         /\ \A i \in Heard : i < Len(rx) + 1
         /\ \A S : a \in S /\ Known \subseteq S => rx' \in Seq(S)
<1> DEFINE n == Len(rx)
<1>0. n \in Nat /\ rx \in [1..n -> Known]
  BY LenProperties
<1>1. \A i \in Heard : i < n + 1
  BY <1>0 DEF Heard
<1>2. CASE Blocked
  <2>1. rx' = rx
    BY <1>2 DEF Arrives
  <2>2. \A S : Known \subseteq S => rx \in Seq(S)
    OBVIOUS
  <2>3. QED BY <1>1, <2>1, <2>2, HeardSame
<1>3. CASE ~Blocked /\ rx # <<>> /\ rx[n].cut
  <2>0. n \in 1..n
    BY <1>0, <1>3, EmptySeq
  <2>1. rx' = [rx EXCEPT ![n] = Noise]
    BY <1>3 DEF Arrives
  <2>2. /\ \A i \in Heard' : i \in Heard /\ rx'[i] = rx[i]
        /\ rx' \in Seq(Known)
    <3>1. Len(rx) > 0 /\ rx[Len(rx)].cut
      BY <1>3, <2>0
    <3>2. QED BY <2>1, <3>1, HeardBroken
  <2>4. \A S : Known \subseteq S => rx' \in Seq(S)
    BY <2>2
  <2>5. QED BY <1>1, <2>2, <2>4
<1>4. CASE ~Blocked /\ ~(rx # <<>> /\ rx[n].cut)
  <2>1. rx' = Append(rx, a)
    BY <1>4 DEF Arrives
  <2>2. \A S : a \in S /\ Known \subseteq S => rx' \in Seq(S)
    <3>1. ASSUME NEW S, a \in S, Known \subseteq S PROVE rx' \in Seq(S)
      <4>1. rx \in Seq(S)
        BY <3>1
      <4>2. QED BY <2>1, <3>1, <4>1, AppendProperties
    <3>2. QED BY <3>1
  <2>3. /\ Len(rx') = n + 1 /\ rx'[n + 1] = a
        /\ \A i \in 1..n : rx'[i] = rx[i]
    <3> DEFINE T == Known \cup {a}
    <3>1. rx \in Seq(T) /\ a \in T
      OBVIOUS
    <3> HIDE DEF T
    <3>2. QED BY <2>1, <3>1, AppendProperties
  <2>4. ASSUME NEW i \in Heard'
        PROVE  \/ i \in Heard /\ rx'[i] = rx[i]
               \/ i = n + 1 /\ rx'[i] = a /\ ~a.cut /\ a # Noise
    <3>1. i \in 1..n + 1 /\ ~rx'[i].cut /\ \A j \in 1..i : rx'[j] # Noise
      BY <2>3 DEF Heard
    <3>2. CASE i = n + 1
      <4>1. i \in 1..i
        BY <1>0, <3>1
      <4>2. QED BY <2>3, <3>1, <3>2, <4>1
    <3>3. CASE i # n + 1
      <4>1. i \in 1..n /\ \A j \in 1..i : j \in 1..n
        BY <1>0, <3>1, <3>3
      <4>2. QED BY <2>3, <3>1, <4>1 DEF Heard
    <3>4. QED BY <3>2, <3>3
  <2>5. QED BY <1>1, <2>2, <2>4
<1>5. QED BY <1>2, <1>3, <1>4

(* Places are numbers.                                                     *)
LEMMA HeardNat == (\A i \in Heard : i \in Nat /\ i >= 1) /\ (\A i \in Heard' : i \in Nat /\ i >= 1)
BY DEF Heard

(* When answers are only read or dropped, those that stay are in order.    *)
LEMMA Fewer ==
  ASSUME NEW k \in {0, 1}, \A i \in Heard' : i + k \in Heard /\ rx'[i] = rx[i + k],
         UNCHANGED <<up, rest>>
  PROVE  /\ LoginLast => LoginLast'
         /\ NoLogin => NoLogin'
         /\ OneMine /\ (\A x : Mine(x) => Mine(x)') => OneMine'
         /\ /\ Unanswered /\ (\A x : Mine(x)' => Mine(x)) /\ received \subseteq received'
            /\ link \notin {"on", "dial"} => link' \notin {"on", "dial"}
            => Unanswered'
<1>1. ASSUME NEW i \in Heard', NEW j \in Heard' 
      PROVE /\ i + k <= j + k => i <= j
            /\ i + k = j + k => i = j
  BY HeardNat
<1>2. ASSUME LoginLast PROVE LoginLast'
  BY <1>1, <1>2 DEF LoginLast
<1>3. ASSUME NoLogin PROVE NoLogin'
  BY <1>3 DEF NoLogin
<1>4. ASSUME OneMine, \A x : Mine(x) => Mine(x)' PROVE OneMine'
  <2>1. ASSUME NEW i \in Heard'
        PROVE  rx'[i].to = Heartbeat \/ (Mine(rx[i].to)' /\ \A j \in Heard' : i <= j)
    <3>1. i + k \in Heard /\ rx'[i] = rx[i + k]
      OBVIOUS
    <3>2. \/ rx[i + k].to = Heartbeat
          \/ Mine(rx[i + k].to) /\ \A j \in Heard' : i + k <= j + k
      BY <1>4, <3>1 DEF OneMine
    <3>3. (\A j \in Heard' : i + k <= j + k) => \A j \in Heard' : i <= j
      BY <1>1
    <3>4. QED BY <1>4, <3>1, <3>2, <3>3
  <2>2. Heard = {} => Heard' = {}
    OBVIOUS
  <2>3. rest' # None => rest'.to = Heartbeat \/ (Mine(rest.to)' /\ Heard' = {})
    BY <1>4, <2>2 DEF OneMine
  <2>4. \A i \in 1..Len(up') : \/ up'[i] = Heartbeat
                               \/ Mine(up[i])' /\ i = 1 /\ Heard' = {} /\ rest' = None
    BY <1>4, <2>2 DEF OneMine
  <2>5. QED BY <2>1, <2>3, <2>4 DEF OneMine
<1>5. ASSUME Unanswered, \A x : Mine(x)' => Mine(x), received \subseteq received',
             link \notin {"on", "dial"} => link' \notin {"on", "dial"}
      PROVE  Unanswered'
  BY <1>5 DEF Unanswered
<1>6. QED BY <1>2, <1>3, <1>4, <1>5

(* What is left when the session has read, or the buffer was cleared.      *)
LEMMA Left ==
  ASSUME Tracked, rx' \in {rx, Rest, <<>>}
  PROVE  /\ rx' \in Seq(Known)
         /\ \E k \in {0, 1} : \A i \in Heard' : i + k \in Heard /\ rx'[i] = rx[i + k]
<1>0. rx \in Seq(Known) /\ <<>> \in Seq(Known)
  BY EmptySeq DEF Tracked
<1>1. CASE rx' = rx
  <2>1. \A i \in Heard' : i + 0 \in Heard /\ rx'[i] = rx[i + 0]
    <3>1. \A i \in Heard' : i + 0 = i
      BY HeardNat
    <3>2. QED BY <1>1, <3>1, HeardSame
  <2>2. QED BY <1>0, <1>1, <2>1
<1>2. CASE rx' = Rest
  BY <1>0, <1>2, HeardRest, RestIs
<1>3. CASE rx' = <<>>
  <2>1. Heard' = {}
    BY <1>3, EmptySeq DEF Heard
  <2>2. QED BY <1>0, <1>3, <2>1
<1>4. QED BY <1>1, <1>2, <1>3

(* A step that sends nothing and does not enter the session keeps answers  *)
(* and requests matched.                                                   *)
LEMMA Consumed ==
  ASSUME Tracked, Matched, rx' \in {rx, Rest, <<>>}, UNCHANGED <<up, rest, received, misread>>,
         link' \notin {"on", "drop"} => link \notin {"on", "drop"},
         ses'.step \in {"SESSION", "LOGOUT"} => ses.step \in {"SESSION", "LOGOUT"},
         ses'.step = "SESSION" => /\ ses.step = "SESSION" /\ data'.trans = data.trans
                                  /\ "report" \in ses.waits <=> "report" \in ses'.waits
                                  /\ link \notin {"on", "dial"} => link' \notin {"on", "dial"}
  PROVE  Tracked' /\ Matched'
<1>1. /\ rx' \in Seq(Known)
      /\ \E k \in {0, 1} : \A i \in Heard' : i + k \in Heard /\ rx'[i] = rx[i + k]
  BY Left
<1>2. Known' = Known
  BY DEF Known
<1>3. Tracked'
  BY <1>1, <1>2 DEF Tracked
<1>4. ASSUME ses'.step = "SESSION" PROVE \A x : Mine(x)' <=> Mine(x)
  BY <1>4 DEF Mine
<1>5. LoginLast => LoginLast'
  BY <1>1, Fewer
<1>6. NoLogin => NoLogin'
  BY <1>1, Fewer
<1>7. ASSUME ses'.step = "SESSION", OneMine PROVE OneMine'
  BY <1>1, <1>4, <1>7, Fewer
<1>8. ASSUME ses'.step = "SESSION", Unanswered PROVE Unanswered'
  BY <1>1, <1>4, <1>8, Fewer
<1>9. Matched'
  BY <1>5, <1>6, <1>7, <1>8 DEF Matched, LoginDone, OnlyMine
<1>10. QED BY <1>3, <1>9

(* An answer with success: it was heard, unless it may be another's.       *)
LEMMA GoodAnswer ==
  ASSUME Tracked, Info.ok
  PROVE  /\ rx # <<>> /\ Info = rx[1] /\ rx[1] \in Known /\ rx[1] \in Answers /\ Info # None
         /\ ~misread => 1 \in Heard /\ ~Blocked /\ ~Head(rx).cut
<1>1. rx # <<>> /\ ~Blocked /\ Info = Head(rx)
  BY NoneIs DEF Info
<1>2. rx \in Seq(Known) /\ Head(rx) = rx[1] /\ 1 \in 1..Len(rx) /\ Len(rx) \in Nat
  BY <1>1, HeadTailProperties, LenProperties, EmptySeq DEF Tracked
<1>3. rx[1] \in Known /\ rx[1] \in Answers /\ rx[1] # Noise
  BY <1>1, <1>2, KnownElements DEF Blocked
<1>4. ~misread => ~rx[1].cut
  BY <1>1, <1>2, <1>3 DEF Known, Answers
<1>5. \A j \in 1..1 : j = 1
  OBVIOUS
<1>6. ~misread => 1 \in Heard
  BY <1>2, <1>3, <1>4, <1>5 DEF Heard
<1>7. QED BY <1>1, <1>2, <1>3, <1>4, <1>6, NoneIs

(* What was heard last has been read: nothing is under way any more.       *)
LEMMA LastRead ==
  ASSUME Tracked, 1 \in Heard, ~Blocked, ~Head(rx).cut, rx' = Rest,
         \A j \in Heard : j <= 1
  PROVE  Heard' = {}
<1>1. rx \in Seq(Known) /\ rx # <<>>
  BY EmptySeq DEF Tracked, Heard
<1>2. \A i \in Heard' : i + 1 \in Heard
  BY <1>1, HeardRest
<1>3. QED BY <1>2, HeardNat

(* A request is sent.                                                      *)
LEMMA SentTracked ==
  ASSUME Tracked, link = "on", NEW k \in Requests, up' = Append(up, k), rx' = Rest,
         UNCHANGED <<rest, received, link>>, misread' \in BOOLEAN, misread => misread'
  PROVE  /\ Tracked'
         /\ Len(up') = Len(up) + 1 /\ Len(up) \in Nat /\ up'[Len(up) + 1] = k
         /\ \A i \in 1..Len(up) : up'[i] = up[i]
         /\ up = <<>> => Len(up) = 0
<1>1. up \in Seq(Requests)
  BY DEF Tracked
<1>2. /\ up' \in Seq(Requests)
      /\ Len(up') = Len(up) + 1 /\ Len(up) \in Nat /\ up'[Len(up) + 1] = k
      /\ \A i \in 1..Len(up) : up'[i] = up[i]
      /\ up = <<>> => Len(up) = 0
  BY <1>1, AppendProperties, LenProperties, EmptySeq
<1>3. Known \subseteq Known' /\ rx' \in Seq(Known')
  BY Left, KnownGrows
<1>4. Tracked'
  BY <1>2, <1>3 DEF Tracked
<1>5. QED BY <1>2, <1>4

(* A heartbeat is sent in the session, behind all requests under way.      *)
LEMMA HeartbeatSent ==
  ASSUME Tracked, Matched, link = "on", up' = Append(up, Heartbeat), rx' = Rest,
         UNCHANGED <<rest, received, link, misread>>, ses.step = "SESSION", ses'.step = "SESSION",
         \A x : Mine(x)' <=> Mine(x)
  PROVE  Tracked' /\ Matched'
<1>1. /\ Tracked'
      /\ Len(up') = Len(up) + 1 /\ Len(up) \in Nat /\ up'[Len(up) + 1] = Heartbeat
      /\ \A i \in 1..Len(up) : up'[i] = up[i]
      /\ up = <<>> => Len(up) = 0
  BY Numbers, SentTracked DEF Tracked
<1>2. PICK k \in {0, 1} : \A i \in Heard' : i + k \in Heard /\ rx'[i] = rx[i + k]
  BY Left
<1>3. Heard = {} => Heard' = {}
  BY <1>2
<1>4. ASSUME ~misread' PROVE LoginLast' /\ NoLogin' /\ OneMine' /\ Unanswered'
  <2>1. NoLogin /\ OneMine /\ Unanswered
    BY <1>4 DEF Matched, LoginDone, OnlyMine
  <2>2. NoLogin'
    <3>1. \A i \in Heard' : rx'[i].to # Login
      BY <1>2, <2>1 DEF NoLogin
    <3>2. \A i \in 1..Len(up') : up'[i] # Login
      BY <1>1, <2>1, Numbers DEF NoLogin
    <3>3. QED BY <2>1, <3>1, <3>2 DEF NoLogin
  <2>3. LoginLast'
    BY <2>2 DEF LoginLast, NoLogin
  <2>4. OneMine'
    <3>1. ASSUME NEW i \in Heard'
          PROVE  rx'[i].to = Heartbeat \/ (Mine(rx[i].to)' /\ \A j \in Heard' : i <= j)
      <4>1. i + k \in Heard /\ rx'[i] = rx[i + k] /\ \A j \in Heard' : j + k \in Heard
        BY <1>2
      <4>2. \/ rx[i + k].to = Heartbeat
            \/ Mine(rx[i + k].to) /\ \A j \in Heard' : i + k <= j + k
        BY <2>1, <4>1 DEF OneMine
      <4>3. (\A j \in Heard' : i + k <= j + k) => \A j \in Heard' : i <= j
        BY HeardNat
      <4>4. QED BY <4>1, <4>2, <4>3
    <3>2. rest' # None => rest'.to = Heartbeat \/ (Mine(rest.to)' /\ Heard' = {})
      BY <1>3, <2>1 DEF OneMine
    <3>3. ASSUME NEW i \in 1..Len(up')
          PROVE  up'[i] = Heartbeat \/ (Mine(up[i])' /\ i = 1 /\ Heard' = {} /\ rest' = None)
      <4>1. CASE i = Len(up) + 1
        BY <1>1, <4>1
      <4>2. CASE i # Len(up) + 1
        <5>1. i \in 1..Len(up) /\ up'[i] = up[i]
          BY <1>1, <4>2
        <5>2. QED BY <1>3, <2>1, <5>1 DEF OneMine
      <4>3. QED BY <4>1, <4>2
    <3>4. QED BY <3>1, <3>2, <3>3 DEF OneMine
  <2>5. Unanswered'
    <3>1. ASSUME NEW x \in Reports \ received', Mine(x)'
          PROVE  Heard' = {} /\ rest' = None /\ up' # <<>> /\ up'[1] = x
      <4>1. Heard = {} /\ rest = None /\ up # <<>> /\ up[1] = x
        BY <2>1, <3>1 DEF Unanswered
      <4>2. Len(up) >= 1 /\ 1 \in 1..Len(up)
        BY <1>1, <4>1, EmptySeq DEF Tracked
      <4>3. up'[1] = x /\ up' # <<>>
        <5>1. up' = <<>> => Len(up') = 0
          BY EmptySeq
        <5>2. QED BY <1>1, <4>1, <4>2, <5>1
      <4>4. QED BY <1>3, <4>1, <4>3
    <3>2. QED BY <3>1 DEF Unanswered
  <2>6. QED BY <2>2, <2>3, <2>4, <2>5
<1>5. QED BY <1>1, <1>4 DEF Matched, LoginDone, OnlyMine

(* A login is sent: either no answer to an older one is on its way, or the *)
(* misreading it may cause is recorded.                                    *)
LEMMA LoginSent ==
  ASSUME Tracked, Matched, link = "on", up' = Append(up, Login), rx' = Rest,
         UNCHANGED <<rest, received, link>>,
         misread' = (misread \/ Answered(Login) \/ ses'.step \in {"SESSION", "LOGOUT"})
  PROVE  Tracked' /\ Matched'
<1>1. /\ Tracked'
      /\ Len(up') = Len(up) + 1 /\ Len(up) \in Nat /\ up'[Len(up) + 1] = Login
      /\ \A i \in 1..Len(up) : up'[i] = up[i]
  BY Numbers, SentTracked DEF Tracked
<1>2. ASSUME ~misread' PROVE LoginLast'
  <2>1. ~Answered(Login)
    BY <1>2
  <2>2. \A i \in 1..Len(up) : up[i] # Login
    BY <2>1 DEF Answered, Coming, ToSet
  <2>3. rest.to # Login
    BY <2>1 DEF Answered, Coming
  <2>4. \A i \in Heard' : rx'[i].to # Login
    <3>1. rx \in Seq(Known)
      BY DEF Tracked
    <3>2. CASE Blocked
      <4>1. rx' = rx /\ Heard = {}
        BY <3>1, <3>2, HeardNone DEF Rest
      <4>2. QED BY <4>1, HeardSame
    <3>3. CASE ~Blocked
      <4>1. \A i \in 1..Len(rx') : ~rx'[i].cut => rx'[i].to # Login
        BY <2>1, <3>3 DEF Answered, InBuffer, ToSet
      <4>2. QED BY <4>1 DEF Heard
    <3>4. QED BY <3>2, <3>3
  <2>5. \A i \in 1..Len(up') : up'[i] = Login => i = Len(up')
    BY <1>1, <2>2
  <2>6. rest'.to # Login
    BY <2>3
  <2>7. QED BY <2>4, <2>5, <2>6 DEF LoginLast
<1>3. QED BY <1>1, <1>2 DEF Matched, LoginDone, OnlyMine

(* What was freed was received, unless it may have been misread.           *)
Acked == misread \/ freed \subseteq received

(* hpm_session_com_login, whether the login is sent or fails.              *)
LEMMA LoginMatches ==
  ASSUME StagesTyped, Tracked, Matched, UNCHANGED <<rest, received, link, sock, freed>>,
         NEW step \in {"LOGIN", "SESSION"}, NEW failed \in {"LOGIN", "INIT"},
         hpm_session_com_login(step, failed), Acked
  PROVE  Tracked' /\ Matched' /\ Acked'
<1>1. CASE /\ link = "on"
           /\ ses' = [ses EXCEPT !.step = step, !.waits = @ \cup {"login"}]
           /\ up' = Append(up, Login) /\ rx' = Rest
           /\ misread' = (misread \/ Answered(Login) \/ step = "SESSION")
  <2>1. ses'.step = step
    BY <1>1 DEF StagesTyped
  <2>2. ses'.step \in {"SESSION", "LOGOUT"} <=> step = "SESSION"
    BY <2>1
  <2>3. misread' = (misread \/ Answered(Login) \/ ses'.step \in {"SESSION", "LOGOUT"})
    BY <1>1, <2>2
  <2>4. Tracked' /\ Matched'
    BY <1>1, <2>3, LoginSent
  <2>5. QED BY <1>1, <2>4 DEF Acked
<1>2. CASE /\ ses' = [step |-> failed, run |-> FALSE, waits |-> {"login"}]
           /\ rx' = <<>> /\ UNCHANGED <<up, misread>>
  <2>1. ses'.step \notin {"SESSION", "LOGOUT"}
    BY <1>2
  <2>2. Tracked' /\ Matched'
    BY <1>2, <2>1, Consumed
  <2>3. QED BY <1>2, <2>2 DEF Acked
<1>3. QED BY <1>1, <1>2, Zenon DEF hpm_session_com_login

(* hpm_session_proc_init.                                                  *)
LEMMA InitMatches ==
  ASSUME StagesTyped, Tracked, Matched, Acked, UNCHANGED <<rest, received>>, hpm_session_proc_init
  PROVE  Tracked' /\ Matched' /\ Acked'
<1>0. UNCHANGED <<link, sock, freed>>
  BY DEF hpm_session_proc_init
<1>1. CASE hpm_session_com_login("LOGIN", "LOGIN")
  BY <1>0, <1>1, LoginMatches
<1>2. CASE rx' = Rest /\ UNCHANGED <<up, misread>> /\ ses'.step = "LOGIN"
  BY <1>0, <1>2, Consumed DEF Acked
<1>3. QED BY <1>1, <1>2 DEF hpm_session_proc_init, Receive, StagesTyped

(* The login is answered: nothing else was on its way, so the session      *)
(* begins with nothing to hear.                                            *)
LEMMA LoggedInMatches ==
  ASSUME StagesTyped, Tracked, Matched, Acked, UNCHANGED <<rest, received, link, freed>>,
         LoginAnswer, Info.ok, rx' = Rest, UNCHANGED <<up, misread>>, data'.trans = <<>>
  PROVE  Tracked' /\ Matched' /\ Acked'
<1>1. Tracked'
  <2>1. rx' \in Seq(Known) /\ Known' = Known
    BY Left DEF Known
  <2>2. QED BY <2>1 DEF Tracked
<1>2. ASSUME ~misread' PROVE LoginLast' /\ NoLogin' /\ OneMine' /\ Unanswered'
  <2>1. 1 \in Heard /\ ~Blocked /\ ~Head(rx).cut /\ rx[1].to = Login
    BY <1>2, GoodAnswer DEF LoginAnswer
  <2>2. LoginLast
    BY <1>2 DEF Matched
  <2>3. rest = None /\ up = <<>> /\ \A j \in Heard : j <= 1
    BY <2>1, <2>2 DEF LoginLast
  <2>4. Heard' = {}
    BY <2>1, <2>3, LastRead
  <2>5. rest' = None /\ up' = <<>> /\ Len(up') = 0 /\ rest'.to # Login
    BY <2>3, NoneIs, EmptySeq
  <2>6. LoginLast' /\ NoLogin' /\ OneMine'
    BY <2>4, <2>5 DEF LoginLast, NoLogin, OneMine
  <2>7. Unanswered'
    BY DEF Unanswered, Mine
  <2>8. QED BY <2>6, <2>7
<1>3. Matched'
  BY <1>2 DEF Matched, LoginDone, OnlyMine
<1>4. QED BY <1>1, <1>3 DEF Acked

(* hpm_session_proc_login.                                                 *)
LEMMA ProcLoginMatches ==
  ASSUME StagesTyped, Counted, Single, Tracked, Matched, Acked, UNCHANGED <<rest, received>>,
         hpm_session_proc_login
  PROVE  Tracked' /\ Matched' /\ Acked'
<1>0. UNCHANGED <<link, sock, freed>>
  BY DEF hpm_session_proc_login
<1>1. CASE hpm_session_com_login("SESSION", "INIT") \/ hpm_session_com_login("LOGIN", "INIT")
  BY <1>0, <1>1, LoginMatches
<1>2. CASE /\ LoginAnswer /\ Info.ok /\ rx' = Rest /\ UNCHANGED <<up, misread>>
           /\ data' = hpm_data_flush_realtm_data(hpm_data_flush_trans_list(data))
  <2>1. data \in Lists /\ Size(data.trans) <= 1
    BY DEF Counted, Single
  <2>2. data'.trans = <<>>
    BY <1>2, <2>1, FlushBothKeeps
  <2>3. QED BY <1>0, <1>2, <2>2, LoggedInMatches
<1>3. CASE rx' = Rest /\ UNCHANGED <<up, misread>> /\ ses'.step \in {"LOGIN", "INIT"}
  BY <1>0, <1>3, Consumed DEF Acked
<1>4. ses.step = "LOGIN"
  BY DEF hpm_session_proc_login
<1>5. \/ hpm_session_com_login("SESSION", "INIT") \/ hpm_session_com_login("LOGIN", "INIT")
      \/ /\ LoginAnswer /\ Info.ok /\ rx' = Rest /\ UNCHANGED <<up, misread>>
         /\ data' = hpm_data_flush_realtm_data(hpm_data_flush_trans_list(data))
      \/ /\ rx' = Rest /\ UNCHANGED <<up, misread>>
         /\ \/ ses' = ses
            \/ ses' = [ses EXCEPT !.waits = @ \ {"login"}]
            \/ ses' = [ses EXCEPT !.step = "INIT", !.waits = @ \ {"login"}]
  BY Zenon DEF hpm_session_proc_login, Receive
<1>6. QED BY <1>1, <1>2, <1>3, <1>4, <1>5 DEF StagesTyped

(* A report is sent in a session that waits for none: its answer is the    *)
(* first that can come.                                                    *)
LEMMA SendMatches ==
  ASSUME StagesTyped, Counted, Single, Tracked, Matched, Acked, UNCHANGED <<rest, received>>,
         ses.step = "SESSION", SendReport
  PROVE  Tracked' /\ Matched' /\ Acked'
<1> DEFINE p == hpm_data_get_report_pack(data)
           d == Taken(data)
<1>1. /\ "report" \notin ses.waits /\ ~NothingToSend(data) /\ rx' = Rest
      /\ UNCHANGED <<link, freed>>
      /\ ses'.step = "SESSION" /\ "report" \in ses'.waits
      /\ \/ /\ link = "on" /\ data' = hpm_data_put_trans_list(d, p) /\ up' = Append(up, p.id)
            /\ misread' = (misread \/ Answered(Heartbeat))
         \/ UNCHANGED <<up, misread>> /\ data' = hpm_data_put_back_report_pack(d, p)
  BY DEF SendReport, SendOk, StagesTyped
<1>2. data \in Lists /\ data.trans = <<>> /\ Used(data) <= PackNum
  BY <1>1 DEF Counted, Single
<1>3. p \in Packs /\ p.id \in Reports /\ d \in Lists /\ d.trans = <<>>
  BY <1>1, <1>2, TakeKeeps
<1> HIDE DEF p, d
<1>4. rx \in Seq(Known) /\ (\A x : ~Mine(x))
  BY <1>1 DEF Tracked, Mine
<1>5. PICK k \in {0, 1} : \A i \in Heard' : i + k \in Heard /\ rx'[i] = rx[i + k]
  BY <1>1, Left
<1>6. ASSUME ~misread
      PROVE  /\ NoLogin /\ OneMine
             /\ \A i \in Heard' : rx'[i].to = Heartbeat
             /\ rest # None => rest.to = Heartbeat
             /\ \A i \in 1..Len(up) : up[i] = Heartbeat
  <2>1. NoLogin /\ OneMine
    BY <1>6 DEF Matched, LoginDone, OnlyMine
  <2>2. \A i \in Heard' : rx'[i].to = Heartbeat
    BY <1>4, <1>5, <2>1 DEF OneMine
  <2>3. /\ rest # None => rest.to = Heartbeat
        /\ \A i \in 1..Len(up) : up[i] = Heartbeat
    BY <1>4, <2>1 DEF OneMine
  <2>4. QED BY <2>1, <2>2, <2>3
<1>7. CASE UNCHANGED <<up, misread>> /\ data' = hpm_data_put_back_report_pack(d, p)
  <2>1. Tracked'
    <3>1. rx' \in Seq(Known) /\ Known' = Known
      BY <1>1, <1>7, Left DEF Known
    <3>2. QED BY <1>1, <1>7, <3>1 DEF Tracked
  <2>2. data'.trans = <<>>
    BY <1>3, <1>7, PutBackKeeps
  <2>3. \A x : ~Mine(x)'
    BY <2>2 DEF Mine
  <2>4. ASSUME ~misread' PROVE LoginLast' /\ NoLogin' /\ OneMine' /\ Unanswered'
    <3>1. \A i \in Heard' : rx'[i].to # Login
      BY <1>6, <1>7, <2>4, Numbers
    <3>2. NoLogin'
      BY <1>6, <1>7, <2>4, <3>1 DEF NoLogin
    <3>3. LoginLast'
      BY <3>2 DEF LoginLast, NoLogin
    <3>4. OneMine'
      BY <1>6, <1>7, <2>4 DEF OneMine
    <3>5. Unanswered'
      BY <2>3 DEF Unanswered
    <3>6. QED BY <3>2, <3>3, <3>4, <3>5
  <2>5. QED BY <1>1, <1>7, <2>1, <2>4 DEF Matched, LoginDone, OnlyMine, Acked
<1>8. CASE /\ link = "on" /\ data' = hpm_data_put_trans_list(d, p) /\ up' = Append(up, p.id)
           /\ misread' = (misread \/ Answered(Heartbeat))
  <2>1. data'.trans = Append(<<>>, p)
    BY <1>3, <1>8, PutTransKeeps
  <2>2. data'.trans # <<>> /\ data'.trans[1].id = p.id
    <3>1. Append(<<>>, p) = <<p>>
      OBVIOUS
    <3>2. <<p>> # <<>> /\ <<p>>[1] = p
      OBVIOUS
    <3>3. QED BY <2>1, <3>1, <3>2
  <2>3. p.id \in Requests /\ p.id # Login
    BY <1>3, Numbers
  <2>4. misread' \in BOOLEAN /\ (misread => misread')
    BY <1>8 DEF Tracked
  <2>5. /\ Tracked'
        /\ Len(up') = Len(up) + 1 /\ Len(up) \in Nat /\ up'[Len(up) + 1] = p.id
        /\ up = <<>> => Len(up) = 0
    BY <1>1, <1>8, <2>3, <2>4, SentTracked
  <2>6. \A x : x = p.id <=> Mine(x)'
    BY <1>1, <2>2 DEF Mine
  <2>7. ASSUME ~misread' PROVE LoginLast' /\ NoLogin' /\ OneMine' /\ Unanswered'
    <3>1. ~misread /\ ~Answered(Heartbeat)
      BY <1>8, <2>7
    <3>2. ~(\E i \in 1..Len(up) : up[i] = Heartbeat) /\ rest.to # Heartbeat
      BY <1>8, <3>1 DEF Answered, Coming, ToSet
    <3>3. up = <<>> /\ rest = None
      <4>1. \A i \in 1..Len(up) : FALSE
        BY <1>6, <3>1, <3>2
      <4>2. Len(up) = 0
        BY <2>5, <4>1
      <4>3. up = <<>>
        BY <4>2, EmptySeq DEF Tracked
      <4>4. QED BY <1>6, <3>1, <3>2, <4>3
    <3>4. Heard' = {}
      <4>1. CASE Blocked
        <5>1. rx' = rx /\ Heard = {}
          BY <1>1, <1>4, <4>1, HeardNone DEF Rest
        <5>2. QED BY <5>1, HeardSame
      <4>2. CASE ~Blocked
        <5>1. \A i \in 1..Len(rx') : ~rx'[i].cut => rx'[i].to # Heartbeat
          BY <1>1, <3>1, <4>2 DEF Answered, InBuffer, ToSet
        <5>2. \A i \in Heard' : rx'[i].to # Heartbeat
          BY <5>1 DEF Heard
        <5>3. QED BY <1>6, <3>1, <5>2
      <4>3. QED BY <4>1, <4>2
    <3>5. rest' = None /\ rest'.to # Login /\ Len(up') = 1 /\ up'[1] = p.id
      BY <2>5, <3>3, NoneIs
    <3>6. up' # <<>>
      BY <3>5, EmptySeq
    <3>7. \A i \in 1..Len(up') : i = 1 /\ up'[i] = p.id
      BY <3>5
    <3>8. NoLogin'
      BY <2>3, <3>4, <3>5, <3>7 DEF NoLogin
    <3>9. LoginLast'
      BY <3>8 DEF LoginLast, NoLogin
    <3>10. OneMine'
      <4>1. \A i \in 1..Len(up') : Mine(up[i])' /\ i = 1 /\ Heard' = {} /\ rest' = None
        BY <2>6, <3>4, <3>5, <3>7
      <4>2. QED BY <3>4, <3>5, <4>1 DEF OneMine
    <3>11. Unanswered'
      <4>1. \A x : Mine(x)' => Heard' = {} /\ rest' = None /\ up' # <<>> /\ up'[1] = x
        BY <2>6, <3>4, <3>5, <3>6
      <4>2. QED BY <4>1 DEF Unanswered
    <3>12. QED BY <3>8, <3>9, <3>10, <3>11
  <2>8. QED BY <1>1, <2>4, <2>5, <2>7 DEF Matched, LoginDone, OnlyMine, Acked
<1>9. QED BY <1>1, <1>7, <1>8

(* An answer with success: if that to the report under transmission has    *)
(* not been read before, it is the first, so the server has got it.        *)
LEMMA AckMatches ==
  ASSUME StagesTyped, Counted, Single, Tracked, Matched, Acked, UNCHANGED <<rest, received>>,
         ses.step = "SESSION", ReportAcked
  PROVE  Tracked' /\ Matched' /\ Acked'
<1>1. /\ Info.ok /\ rx' = Rest /\ UNCHANGED <<link, misread>>
      /\ "report" \in ses.waits
      /\ ses'.step = "SESSION" /\ "report" \notin ses'.waits
      /\ up' = up \/ (link = "on" /\ up' = Append(up, Heartbeat))
  BY DEF ReportAcked, hpm_session_send_heartbeat, StagesTyped
<1>2. /\ Tracked'
      /\ \A i \in 1..Len(up') : up'[i] = Heartbeat \/ (i \in 1..Len(up) /\ up'[i] = up[i])
  <2>1. CASE up' = up
    <3>1. rx' \in Seq(Known) /\ Known' = Known
      BY <1>1, Left DEF Known
    <3>2. QED BY <1>1, <2>1, <3>1 DEF Tracked
  <2>2. CASE link = "on" /\ up' = Append(up, Heartbeat)
    <3>1. misread' \in BOOLEAN /\ (misread => misread') /\ Heartbeat \in Requests
      BY <1>1, Numbers DEF Tracked
    <3>2. /\ Tracked'
          /\ Len(up') = Len(up) + 1 /\ Len(up) \in Nat /\ up'[Len(up) + 1] = Heartbeat
          /\ \A i \in 1..Len(up) : up'[i] = up[i]
      BY <1>1, <2>2, <3>1, SentTracked
    <3>3. QED BY <3>2
  <2>3. QED BY <1>1, <2>1, <2>2
<1>3. ASSUME ~misread
      PROVE  /\ 1 \in Heard /\ ~Blocked /\ ~Head(rx).cut /\ rx # <<>>
             /\ NoLogin /\ OneMine /\ Unanswered
  <2>1. 1 \in Heard /\ ~Blocked /\ ~Head(rx).cut /\ rx # <<>>
    BY <1>1, <1>3, GoodAnswer
  <2>2. NoLogin /\ OneMine /\ Unanswered
    BY <1>3 DEF Matched, LoginDone, OnlyMine
  <2>3. QED BY <2>1, <2>2
<1>4. ASSUME ~misread' PROVE LoginLast' /\ NoLogin' /\ OneMine' /\ Unanswered'
  <2>0. ~misread
    BY <1>1, <1>4
  <2>1. \A i \in Heard' : i + 1 \in Heard /\ rx'[i] = rx[i + 1]
    <3>1. rx' = Tail(rx)
      BY <1>1, <1>3, <2>0 DEF Rest
    <3>2. QED BY <1>3, <2>0, <3>1, HeardTail DEF Tracked
  <2>2. \A i \in Heard' : rx'[i].to = Heartbeat
    <3>1. ASSUME NEW i \in Heard' PROVE ~(i + 1 <= 1)
      BY HeardNat
    <3>2. QED BY <1>3, <2>0, <2>1, <3>1 DEF OneMine
  <2>3. rest' # None => rest'.to = Heartbeat
    BY <1>3, <2>0 DEF OneMine
  <2>4. \A i \in 1..Len(up') : up'[i] = Heartbeat
    BY <1>2, <1>3, <2>0 DEF OneMine
  <2>5. NoLogin'
    <3>1. rest'.to # Login
      BY <2>3, Numbers, NoneIs
    <3>2. QED BY <2>2, <2>4, <3>1, Numbers DEF NoLogin
  <2>6. LoginLast'
    BY <2>5 DEF LoginLast, NoLogin
  <2>7. OneMine'
    BY <2>2, <2>3, <2>4 DEF OneMine
  <2>8. Unanswered'
    BY <1>1 DEF Unanswered, Mine
  <2>9. QED BY <2>5, <2>6, <2>7, <2>8
<1>5. ASSUME ~misread PROVE freed' \subseteq received
  <2>1. freed \subseteq received
    BY <1>5 DEF Acked
  <2>2. CASE data.trans = <<>>
    <3>1. Len(data.trans) = 0
      BY <2>2, EmptySeq
    <3>2. {1} \cap 1..Len(data.trans) = {}
      BY <3>1
    <3>3. freed' = freed
      BY <3>2 DEF ReportAcked, hpm_data_ack_pack
    <3>4. QED BY <2>1, <3>3
  <2>3. CASE data.trans # <<>>
    <3>1. data.trans[1].id \in Reports
      <4>1. data \in Lists /\ Size(data.trans) <= 1
        BY DEF Counted, Single
      <4>2. QED BY <2>3, <4>1, AckKeeps
    <3>2. Mine(data.trans[1].id)
      BY <1>1, <2>3 DEF Mine
    <3>3. data.trans[1].id \in received
      BY <1>3, <1>5, <3>1, <3>2 DEF Unanswered
    <3>4. freed' \subseteq freed \cup {data.trans[1].id}
      BY DEF ReportAcked, hpm_data_ack_pack
    <3>5. QED BY <2>1, <3>3, <3>4
  <2>4. QED BY <2>2, <2>3
<1>6. QED BY <1>1, <1>2, <1>4, <1>5 DEF Matched, LoginDone, OnlyMine, Acked

(* hpm_socket_force_stop: the buffer is cleared and the session starts     *)
(* anew, the connection is closing.                                        *)
LEMMA ForcedMatches ==
  ASSUME Tracked, Matched, Acked, hpm_socket_force_stop,
         UNCHANGED <<up, rest, received, freed, misread>>
  PROVE  Tracked' /\ Matched' /\ Acked'
<1>1. rx' = <<>> /\ ses'.step \notin {"SESSION", "LOGOUT"}
  BY ForceStopTyped DEF hpm_socket_force_stop
<1>2. link' \notin {"on", "drop"} => link \notin {"on", "drop"}
  BY DEF hpm_socket_force_stop, Closing
<1>3. QED BY <1>1, <1>2, Consumed DEF Acked

(* A logout is no login: hpm_session_proc_logout.                          *)
LEMMA LogoutMatches ==
  ASSUME StagesTyped, Tracked, Matched, Acked, UNCHANGED <<rest, received>>,
         hpm_session_proc_logout
  PROVE  Tracked' /\ Matched' /\ Acked'
<1>1. /\ ses.step = "LOGOUT" /\ rx' = Rest /\ UNCHANGED <<link, freed, misread>>
      /\ up' = up \/ (link = "on" /\ up' = Append(up, Logout))
  BY DEF hpm_session_proc_logout, Receive, SendOk
<1>2. ses'.step \in {"LOGOUT", "INIT"}
  <2>1. \/ ses' = ses
        \/ ses' = [ses EXCEPT !.step = "INIT", !.waits = @ \ {"logout"}]
        \/ ses' = [ses EXCEPT !.step = "INIT", !.waits = @ \cup {"logout"}]
        \/ ses' = [ses EXCEPT !.waits = @ \cup {"logout"}]
    BY Zenon DEF hpm_session_proc_logout
  <2>2. QED BY <1>1, <2>1 DEF StagesTyped
<1>3. CASE up' = up
  BY <1>1, <1>2, <1>3, Consumed DEF Acked
<1>4. CASE link = "on" /\ up' = Append(up, Logout)
  <2>1. /\ Tracked'
        /\ Len(up') = Len(up) + 1 /\ Len(up) \in Nat /\ up'[Len(up) + 1] = Logout
        /\ \A i \in 1..Len(up) : up'[i] = up[i]
    BY <1>1, <1>4, Numbers, SentTracked DEF Tracked
  <2>2. ASSUME ~misread' PROVE LoginLast' /\ NoLogin'
    <3>1. NoLogin
      BY <1>1, <2>2 DEF Matched, LoginDone
    <3>2. \A i \in Heard' : rx'[i].to # Login
      <4>1. \E k \in {0, 1} : \A i \in Heard' : i + k \in Heard /\ rx'[i] = rx[i + k]
        BY <1>1, Left
      <4>2. QED BY <3>1, <4>1 DEF NoLogin
    <3>3. \A i \in 1..Len(up') : up'[i] # Login
      BY <2>1, <3>1, Numbers DEF NoLogin
    <3>4. rest'.to # Login
      BY <3>1 DEF NoLogin
    <3>5. QED BY <3>2, <3>3, <3>4 DEF LoginLast, NoLogin
  <2>3. QED BY <1>1, <1>2, <2>1, <2>2 DEF Matched, LoginDone, OnlyMine, Acked
<1>5. QED BY <1>1, <1>3, <1>4

(* hpm_session_process, step by step.                                      *)
LEMMA SessionMatches ==
  ASSUME StagesTyped, Counted, Single, Tracked, Matched, Acked, hpm_session_process
  PROVE  Tracked' /\ Matched' /\ Acked'
<1>0. UNCHANGED <<rest, received>>
  BY DEF hpm_session_process
<1>1. CASE SessionStopped
  <2>1. /\ rx' = Rest /\ UNCHANGED <<up, link, freed, misread>>
        /\ ses'.step \in {"INIT", "LOGOUT"} /\ (ses'.step = "LOGOUT" => ses.step = "SESSION")
    BY <1>1 DEF SessionStopped, Receive, StagesTyped
  <2>2. QED BY <1>0, <2>1, Consumed DEF Acked
<1>2. CASE hpm_session_proc_init
  BY <1>0, <1>2, InitMatches
<1>3. CASE hpm_session_proc_login
  BY <1>0, <1>3, ProcLoginMatches
<1>4. CASE hpm_session_proc_session
  <2>0. ses.step = "SESSION"
    BY <1>4 DEF hpm_session_proc_session
  <2>1. CASE SendReport
    BY <1>0, <2>0, <2>1, SendMatches
  <2>2. CASE NothingSent
    <3>1. /\ rx' = Rest /\ UNCHANGED <<link, freed, misread, ses, data>>
          /\ up' = up \/ (link = "on" /\ up' = Append(up, Heartbeat))
      BY <2>2 DEF NothingSent, hpm_session_send_heartbeat
    <3>2. CASE up' = up
      BY <1>0, <2>0, <3>1, <3>2, Consumed DEF Acked
    <3>3. CASE link = "on" /\ up' = Append(up, Heartbeat)
      <4>1. (\A x : Mine(x)' <=> Mine(x)) /\ ses'.step = "SESSION"
        BY <2>0, <3>1 DEF Mine
      <4>2. Tracked' /\ Matched'
        BY <1>0, <2>0, <3>1, <3>3, <4>1, HeartbeatSent
      <4>3. QED BY <1>0, <3>1, <4>2 DEF Acked
    <3>4. QED BY <3>1, <3>2, <3>3
  <2>3. CASE ReportAcked
    BY <1>0, <2>0, <2>3, AckMatches
  <2>4. CASE ReportFails
    <3>1. hpm_socket_force_stop /\ UNCHANGED <<up, freed, misread>>
      BY <2>4 DEF ReportFails
    <3>2. QED BY <1>0, <3>1, ForcedMatches
  <2>5. CASE HeartbeatFails
    <3>1. /\ rx' = <<>> /\ ses'.step \notin {"SESSION", "LOGOUT"}
          /\ UNCHANGED <<up, link, freed, misread>>
      BY <2>5, ForceStopTyped DEF HeartbeatFails
    <3>2. QED BY <1>0, <3>1, Consumed DEF Acked
  <2>6. QED BY <1>4, <2>1, <2>2, <2>3, <2>4, <2>5 DEF hpm_session_proc_session
<1>5. CASE hpm_session_proc_logout
  BY <1>0, <1>5, LogoutMatches
<1>6. QED BY <1>1, <1>2, <1>3, <1>4, <1>5 DEF hpm_session_process

(* The manager and the socket read nothing; they clear the buffer.         *)
LEMMA SocketMatches ==
  ASSUME StagesTyped, Tracked, Matched, Acked,
         hpm_socket_process \/ hpm_mgr_process \/ hpm_socket_handle_msg
  PROVE  Tracked' /\ Matched' /\ Acked'
<1>1. UNCHANGED <<data, up, rest, received, freed, misread>>
  BY DEF hpm_socket_process, hpm_mgr_process, hpm_socket_handle_msg, ManagerStarts, ManagerIdles,
         ManagerRestarts, ManagerStops, hpm_mgr_in_wait_stop, history, network
<1>2. /\ rx' = rx \/ rx' = <<>>
      /\ link' \notin {"on", "drop"} => link \notin {"on", "drop"}
      /\ ses.step # "INIT" /\ link \notin {"on", "dial"} => link' \notin {"on", "dial"}
      /\ \/ ses' = ses
         \/ ses' = hpm_session_force_stop
         \/ ses' = [ses EXCEPT !.run = TRUE]
         \/ ses' = [ses EXCEPT !.run = FALSE]
  <2>1. CASE hpm_mgr_process
    BY <2>1 DEF hpm_mgr_process, ManagerStarts, ManagerIdles, ManagerRestarts, ManagerStops,
                hpm_mgr_in_wait_stop, hpm_socket_force_stop, Closing, network
  <2>2. CASE hpm_socket_handle_msg
    BY <2>2 DEF hpm_socket_handle_msg, hpm_socket_force_stop, Closing
  <2>3. CASE hpm_socket_process
    BY <2>3 DEF hpm_socket_process, hpm_socket_handle_idle, hpm_socket_handle_wait_dial,
                hpm_socket_handle_connecting, hpm_socket_handle_connected, hpm_socket_handle_stopping,
                hpm_socket_handle_closing, hpm_socket_handle_closed, hpm_session_start, Closing
  <2>4. QED BY <2>1, <2>2, <2>3
<1>3. \/ ses'.step = ses.step /\ ses'.waits = ses.waits
      \/ ses'.step \notin {"SESSION", "LOGOUT"}
  BY <1>2, ForceStopTyped DEF StagesTyped
<1>4. QED BY <1>1, <1>2, <1>3, Consumed DEF Acked

(* Nothing is under way on a connection any more.                          *)
LEMMA GoneMatches ==
  ASSUME Tracked, Matched, Acked, up' = <<>>, rest' = None, received \subseteq received',
         UNCHANGED <<rx, freed, misread>>, link # "dial" => link' \notin {"on", "dial"},
         ses'.step \in {"SESSION", "LOGOUT"} => ses' = ses /\ data' = data
  PROVE  Tracked' /\ Matched' /\ Acked'
<1>1. Tracked'
  <2>1. rx \in Seq(Known')
    BY KnownGrows DEF Tracked
  <2>2. up' \in Seq(Requests)
    BY EmptySeq
  <2>3. QED BY <2>1, <2>2 DEF Tracked
<1>2. Heard' = Heard /\ rest'.to # Login /\ Len(up') = 0
  BY HeardSame, NoneIs, EmptySeq
<1>3. ASSUME LoginLast PROVE LoginLast'
  BY <1>2, <1>3 DEF LoginLast
<1>4. ASSUME NoLogin PROVE NoLogin'
  BY <1>2, <1>4 DEF NoLogin
<1>5. ASSUME OneMine, ses' = ses, data' = data PROVE OneMine'
  BY <1>2, <1>5 DEF OneMine, Mine
<1>6. ASSUME Unanswered, ses' = ses, data' = data PROVE Unanswered'
  <2>1. ASSUME NEW x \in Reports \ received', Mine(x)'
        PROVE  Heard' = {} /\ link' \notin {"on", "dial"}
    <3>1. x \notin received /\ Mine(x)
      BY <1>6, <2>1 DEF Mine
    <3>2. Heard = {} /\ (up # <<>> \/ link \notin {"on", "dial"})
      BY <1>6, <2>1, <3>1 DEF Unanswered
    <3>3. link # "dial"
      BY <3>2 DEF Tracked
    <3>4. QED BY <1>2, <3>2, <3>3
  <2>2. QED BY <2>1 DEF Unanswered
<1>7. Matched'
  BY <1>3, <1>4, <1>5, <1>6 DEF Matched, LoginDone, OnlyMine
<1>8. QED BY <1>1, <1>7 DEF Acked

(* The forms of an answer: as the server sends it, refused, its first      *)
(* part.                                                                   *)
LEMMA AnswerForms ==
  ASSUME NEW k \in Requests, NEW ok \in BOOLEAN
  PROVE  LET a == [to |-> k, ok |-> TRUE, cut |-> FALSE]
         IN  /\ a \in Answers /\ a.to = k /\ ~a.cut
             /\ LET b == [a EXCEPT !.ok = FALSE]
                IN  b \in Answers /\ b.to = k /\ ~b.cut
             /\ LET b == [a EXCEPT !.ok = ok, !.cut = TRUE]
                IN  b \in Answers /\ b.to = k /\ b.cut /\ b.ok = ok
BY DEF Answers

(* The server does not answer a heartbeat.                                 *)
LEMMA SilentMatches ==
  ASSUME Tracked, Matched, Acked, Server, Head(up) = Heartbeat, UNCHANGED <<rx, rest, misread>>
  PROVE  Tracked' /\ Matched' /\ Acked'
<1>1. /\ UNCHANGED <<ses, data, link, freed>> /\ link \in {"on", "drop"}
      /\ up # <<>> /\ rest = None /\ up' = Tail(up) /\ received' = received
  BY Numbers DEF Server
<1>2. /\ up' \in Seq(Requests) /\ up[1] = Heartbeat
      /\ Len(up) \in Nat /\ Len(up) >= 1 /\ Len(up') = Len(up) - 1
      /\ \A i \in 1..Len(up') : up'[i] = up[i + 1]
  BY <1>1, HeadTailProperties, LenProperties, EmptySeq DEF Tracked
<1>3. \A i \in 1..Len(up') : i + 1 \in 1..Len(up) /\ i + 1 # 1 /\ up'[i] = up[i + 1]
  BY <1>2
<1>4. Known' = Known /\ Heard' = Heard
  BY <1>1, HeardSame DEF Known
<1>5. Tracked'
  BY <1>1, <1>2, <1>4 DEF Tracked
<1>6. ASSUME LoginLast PROVE LoginLast'
  <2>1. \A i \in Heard : rx[i].to # Login
    BY <1>1, <1>6 DEF LoginLast
  <2>2. ASSUME NEW i \in 1..Len(up'), up'[i] = Login PROVE i = Len(up')
    <3>1. i + 1 = Len(up)
      BY <1>3, <1>6, <2>2 DEF LoginLast
    <3>2. QED BY <1>2, <3>1
  <2>3. QED BY <1>1, <1>4, <2>1, <2>2, NoneIs DEF LoginLast
<1>7. ASSUME NoLogin PROVE NoLogin'
  BY <1>1, <1>3, <1>4, <1>7 DEF NoLogin
<1>8. ASSUME OneMine PROVE OneMine'
  <2>1. \A i \in 1..Len(up') : up'[i] = Heartbeat
    BY <1>3, <1>8 DEF OneMine
  <2>2. \A i \in Heard' : rx'[i].to = Heartbeat \/ (Mine(rx[i].to)' /\ \A j \in Heard' : i <= j)
    BY <1>1, <1>4, <1>8 DEF OneMine, Mine
  <2>3. QED BY <1>1, <2>1, <2>2 DEF OneMine
<1>9. ASSUME Unanswered PROVE Unanswered'
  <2>1. ASSUME NEW x \in Reports \ received, Mine(x) PROVE FALSE
    BY <1>1, <1>2, <1>9, <2>1, Numbers DEF Unanswered
  <2>2. \A x : Mine(x)' <=> Mine(x)
    BY <1>1 DEF Mine
  <2>3. QED BY <1>1, <2>1, <2>2 DEF Unanswered
<1>10. Matched'
  BY <1>1, <1>6, <1>7, <1>8, <1>9 DEF Matched, LoginDone, OnlyMine
<1>11. QED BY <1>1, <1>5, <1>10 DEF Acked

(* An answer to the first request under way arrives, whole or its first    *)
(* part.                                                                   *)
LEMMA AnswerMatches ==
  ASSUME Tracked, Matched, Acked, Server,
         ~(Head(up) = Heartbeat /\ UNCHANGED <<rx, rest, misread>>)
  PROVE  Tracked' /\ Matched' /\ Acked'
<1> DEFINE k == Head(up)
           a == [to |-> k, ok |-> TRUE, cut |-> FALSE]
<1>0. /\ UNCHANGED <<ses, data, link, freed>> /\ link \in {"on", "drop"}
      /\ up # <<>> /\ rest = None /\ up' = Tail(up)
      /\ received' = received \cup ({k} \cap Reports)
      /\ misread \in BOOLEAN /\ rx \in Seq(Known)
  BY DEF Server, Tracked
<1>1. /\ up \in Seq(Requests) /\ k = up[1] /\ k \in Requests /\ up' \in Seq(Requests)
      /\ Len(up) \in Nat /\ Len(up) >= 1 /\ Len(up') = Len(up) - 1
      /\ \A i \in 1..Len(up') : up'[i] = up[i + 1]
      /\ Len(up) = 1 => up' = <<>>
  <2>1. up \in Seq(Requests) /\ up # <<>>
    BY <1>0 DEF Tracked
  <2>2. /\ k = up[1] /\ k \in Requests /\ up' \in Seq(Requests)
        /\ Len(up) \in Nat /\ Len(up) >= 1 /\ Len(up') = Len(up) - 1
        /\ \A i \in 1..Len(up') : up'[i] = up[i + 1]
    BY <1>0, <2>1, HeadTailProperties, LenProperties, EmptySeq
  <2>3. Len(up) = 1 => up' = <<>>
    BY <2>2, EmptySeq
  <2>4. QED BY <2>1, <2>2, <2>3
<1>2. \E b : /\ Arrives(b) /\ b \in Answers /\ b.to = k
             /\ \/ ~b.cut /\ rest' = None /\ misread' = misread
                \/ /\ b.cut /\ rest' = a
                   /\ misread' \in BOOLEAN /\ misread' = (misread \/ b.ok)
  <2>0. /\ a \in Answers /\ a.to = k /\ ~a.cut
        /\ LET b == [a EXCEPT !.ok = FALSE]
           IN  b \in Answers /\ b.to = k /\ ~b.cut
        /\ \A ok \in BOOLEAN : LET b == [a EXCEPT !.ok = ok, !.cut = TRUE]
                               IN  b \in Answers /\ b.to = k /\ b.cut /\ b.ok = ok
    BY <1>1, AnswerForms
  <2> HIDE DEF a, k
  <2>1. CASE Arrives(a) /\ UNCHANGED <<rest, misread>>
    BY <1>0, <2>0, <2>1
  <2>2. CASE Arrives([a EXCEPT !.ok = FALSE]) /\ UNCHANGED <<rest, misread>>
    <3> DEFINE c == [a EXCEPT !.ok = FALSE]
    <3>1. c \in Answers /\ c.to = k /\ ~c.cut /\ Arrives(c)
      BY <2>0, <2>2
    <3> HIDE DEF c
    <3>2. QED BY <1>0, <2>2, <3>1
  <2>3. ASSUME NEW ok \in BOOLEAN, Arrives([a EXCEPT !.ok = ok, !.cut = TRUE]),
               misread' = (misread \/ ok), rest' = a
        PROVE  \E b : /\ Arrives(b) /\ b \in Answers /\ b.to = k
                      /\ b.cut /\ rest' = a /\ misread' \in BOOLEAN /\ misread' = (misread \/ b.ok)
    <3> DEFINE c == [a EXCEPT !.ok = ok, !.cut = TRUE]
    <3>1. c \in Answers /\ c.to = k /\ c.cut /\ c.ok = ok /\ Arrives(c)
      BY <2>0, <2>3
    <3> HIDE DEF c
    <3>2. QED BY <1>0, <2>3, <3>1
  <2>4. \/ Arrives(a) /\ UNCHANGED <<rest, misread>>
        \/ Arrives([a EXCEPT !.ok = FALSE]) /\ UNCHANGED <<rest, misread>>
        \/ rest' = a /\ \E ok \in BOOLEAN : /\ Arrives([a EXCEPT !.ok = ok, !.cut = TRUE])
                                            /\ misread' = (misread \/ ok)
    BY DEF Server, a, k
  <2>5. QED BY <2>1, <2>2, <2>3, <2>4
<1>3. PICK b : /\ Arrives(b) /\ b \in Answers /\ b.to = k
               /\ \/ ~b.cut /\ rest' = None /\ misread' = misread
                  \/ /\ b.cut /\ rest' = a
                     /\ misread' \in BOOLEAN /\ misread' = (misread \/ b.ok)
  BY <1>2
<1>4. /\ a \in Answers /\ a.to = k /\ ~a.cut /\ misread' \in BOOLEAN /\ (misread => misread')
      /\ a # None
  BY <1>0, <1>1, <1>3, NoneIs DEF Answers
<1>5. k \in Reports => k \in received'
  BY <1>0
<1> HIDE DEF a, k
<1>6. b \in Known' /\ a \in Known'
  BY <1>3, <1>4, <1>5 DEF Known, Answers
<1>7. /\ \A i \in Heard' : \/ i \in Heard /\ rx'[i] = rx[i]
                           \/ i = Len(rx) + 1 /\ rx'[i] = b /\ ~b.cut /\ b # Noise
      /\ \A i \in Heard : i < Len(rx) + 1
      /\ \A S : b \in S /\ Known \subseteq S => rx' \in Seq(S)
  BY <1>0, <1>3, HeardArrives
<1>8. Tracked'
  <2>1. rx' \in Seq(Known')
    <3>1. received \subseteq received'
      BY <1>0
    <3>2. Known \subseteq Known'
      BY <1>4, <3>1, KnownGrows
    <3>3. QED BY <1>6, <1>7, <3>2
  <2>2. rest' = None \/ (rest' \in Known' \cap Answers /\ ~rest'.cut)
    BY <1>3, <1>4, <1>6
  <2>3. QED BY <1>0, <1>1, <1>4, <2>1, <2>2 DEF Tracked
<1>9. ASSUME ~misread' PROVE ~misread /\ LoginLast /\ LoginDone /\ OnlyMine
  BY <1>4, <1>9 DEF Matched
<1>10. ASSUME LoginLast PROVE LoginLast'
  <2>1. \A i \in Heard : rx[i].to # Login
    BY <1>0, <1>10 DEF LoginLast
  <2>2. k = Login => Len(up) = 1
    <3>1. 1 \in 1..Len(up)
      BY <1>1
    <3>2. up[1] = k /\ (up[1] = Login => 1 = Len(up))
      BY <1>1, <1>10, <3>1 DEF LoginLast
    <3>3. QED BY <3>2
  <2>3. ASSUME NEW i \in Heard', rx'[i].to = Login
        PROVE rest' = None /\ up' = <<>> /\ \A j \in Heard' : j <= i
    <3>1. i = Len(rx) + 1 /\ rx'[i] = b /\ ~b.cut
      BY <1>7, <2>1, <2>3
    <3>2. rest' = None /\ up' = <<>>
      BY <1>1, <1>3, <2>2, <2>3, <3>1
    <3>3. Len(rx) \in Nat
      BY <1>0, LenProperties
    <3>4. \A j \in Heard' : j <= i
      BY <1>7, <3>1, <3>3, HeardNat
    <3>5. QED BY <3>2, <3>4
  <2>4. rest'.to = Login => up' = <<>>
    BY <1>1, <1>3, <1>4, <2>2, NoneIs
  <2>5. ASSUME NEW i \in 1..Len(up'), up'[i] = Login PROVE i = Len(up')
    <3>1. i + 1 \in 1..Len(up) /\ up[i + 1] = Login
      BY <1>1, <2>5
    <3>2. QED BY <1>1, <1>10, <3>1 DEF LoginLast
  <2>6. QED BY <2>3, <2>4, <2>5 DEF LoginLast
<1>11. ASSUME NoLogin PROVE NoLogin'
  <2>1. k # Login
    BY <1>1, <1>11 DEF NoLogin
  <2>2. \A i \in Heard' : rx'[i].to # Login
    BY <1>3, <1>7, <1>11, <2>1 DEF NoLogin
  <2>3. rest'.to # Login
    BY <1>3, <1>4, <2>1, NoneIs
  <2>4. ASSUME NEW i \in 1..Len(up') PROVE up'[i] # Login
    <3>1. i + 1 \in 1..Len(up) /\ up'[i] = up[i + 1]
      BY <1>1
    <3>2. QED BY <1>11, <3>1 DEF NoLogin
  <2>5. QED BY <2>2, <2>3, <2>4 DEF NoLogin
<1>12. ASSUME OneMine PROVE OneMine'
  <2>1. k = Heartbeat \/ (Mine(k) /\ Heard = {})
    <3>1. 1 \in 1..Len(up)
      BY <1>1
    <3>2. QED BY <1>1, <1>12, <3>1 DEF OneMine
  <2>2. \A x : Mine(x)' <=> Mine(x)
    BY <1>0 DEF Mine
  <2>3. \A x : x = k => x = Heartbeat \/ (Mine(x)' /\ Heard = {})
    BY <2>1, <2>2
  <2>4. ASSUME NEW i \in Heard'
        PROVE  rx'[i].to = Heartbeat \/ (Mine(rx[i].to)' /\ \A j \in Heard' : i <= j)
    <3>0. Len(rx) \in Nat /\ i \in Nat /\ i <= i
      BY <1>0, LenProperties, HeardNat
    <3>1. CASE i \in Heard /\ rx'[i] = rx[i]
      <4>1. rx[i].to = Heartbeat \/ (Mine(rx[i].to) /\ \A j \in Heard : i <= j)
        BY <1>12, <3>1 DEF OneMine
      <4>2. i <= Len(rx) + 1
        BY <1>7, <3>0, <3>1
      <4>3. (\A j \in Heard : i <= j) => \A j \in Heard' : i <= j
        BY <1>7, <4>2
      <4>4. Mine(rx[i].to) => Mine(rx[i].to)'
        BY <1>0, <3>1 DEF Mine
      <4>5. QED BY <3>1, <4>1, <4>3, <4>4
    <3>2. CASE i = Len(rx) + 1 /\ rx'[i] = b
      <4>1. rx'[i].to = k
        BY <1>3, <3>2
      <4>2. Heard = {} => \A j \in Heard' : j = i
        BY <1>7, <3>2
      <4>3. Heard = {} => \A j \in Heard' : i <= j
        BY <3>0, <4>2
      <4>4. rx'[i].to = Heartbeat \/ (Mine(rx[i].to)' /\ Heard = {})
        BY <2>3, <4>1
      <4>5. QED BY <4>3, <4>4
    <3>3. QED BY <1>7, <3>1, <3>2
  <2>5. ASSUME rest' # None PROVE rest'.to = Heartbeat \/ (Mine(rest.to)' /\ Heard' = {})
    <3>1. b.cut /\ rest'.to = k
      BY <1>3, <1>4, <2>5
    <3>2. Heard = {} => Heard' = {}
      BY <1>7, <3>1
    <3>3. rest'.to = Heartbeat \/ (Mine(rest.to)' /\ Heard = {})
      BY <2>3, <3>1
    <3>4. QED BY <3>2, <3>3
  <2>6. ASSUME NEW i \in 1..Len(up') PROVE up'[i] = Heartbeat
    <3>1. i + 1 \in 1..Len(up) /\ i + 1 # 1 /\ up'[i] = up[i + 1]
      BY <1>1
    <3>2. QED BY <1>12, <3>1 DEF OneMine
  <2>7. QED BY <2>4, <2>5, <2>6 DEF OneMine
<1>15. ASSUME Unanswered PROVE Unanswered'
  <2>1. \A x : Mine(x)' <=> Mine(x)
    BY <1>0 DEF Mine
  <2>2. ASSUME NEW x \in Reports \ received', Mine(x) PROVE FALSE
    <3>1. x \in Reports \ received
      BY <1>0
    <3>2. x = k
      BY <1>0, <1>1, <1>15, <2>2, <3>1 DEF Unanswered
    <3>3. QED BY <1>5, <3>2
  <2>3. QED BY <2>1, <2>2 DEF Unanswered
<1>13. Matched'
  <2>1. ses' = ses
    BY <1>0
  <2>2. QED BY <1>9, <1>10, <1>11, <1>12, <1>15, <2>1 DEF Matched, LoginDone, OnlyMine
<1>14. QED BY <1>0, <1>4, <1>8, <1>13 DEF Acked

LEMMA ServerMatches ==
  ASSUME Tracked, Matched, Acked, Server PROVE Tracked' /\ Matched' /\ Acked'
BY SilentMatches, AnswerMatches

(* The rest of an answer arrives.                                          *)
LEMMA RestMatches ==
  ASSUME Tracked, Matched, Acked, RestArrives PROVE Tracked' /\ Matched' /\ Acked'
<1>0. /\ UNCHANGED <<ses, data, link, up, freed, received, misread>>
      /\ link \in {"on", "drop"} /\ rest # None /\ rest' = None
      /\ rx \in Seq(Known) /\ Len(rx) \in Nat
      /\ rest \in Known
  BY LenProperties DEF RestArrives, Tracked, history
<1>1. Known' = Known
  BY <1>0 DEF Known
<1>2. \E m \in Nat : /\ \A i \in Heard' : \/ i \in Heard /\ rx'[i] = rx[i]
                                          \/ i = m /\ rx'[i] = rest
                     /\ \A i \in Heard : i < m
                     /\ rx' \in Seq(Known)
  <2>1. CASE Len(rx) > 0 /\ rx[Len(rx)].cut
    <3>1. rx' = [rx EXCEPT ![Len(rx)] = rest]
      BY <2>1 DEF RestArrives
    <3>2. QED BY <1>0, <2>1, <3>1, HeardWhole
  <2>2. CASE ~(Len(rx) > 0 /\ rx[Len(rx)].cut)
    <3>1. Arrives(Noise)
      BY <2>2 DEF RestArrives
    <3>2. /\ \A i \in Heard' : i \in Heard /\ rx'[i] = rx[i]
          /\ \A i \in Heard : i < Len(rx) + 1
          /\ rx' \in Seq(Known)
      BY <1>0, <3>1, HeardArrives, NoiseKnown
    <3>3. Len(rx) + 1 \in Nat
      BY <1>0
    <3>4. QED BY <3>2, <3>3
  <2>3. QED BY <2>1, <2>2
<1>3. PICK m \in Nat : /\ \A i \in Heard' : \/ i \in Heard /\ rx'[i] = rx[i]
                                            \/ i = m /\ rx'[i] = rest
                       /\ \A i \in Heard : i < m
                       /\ rx' \in Seq(Known)
  BY <1>2
<1>4. Tracked'
  BY <1>0, <1>1, <1>3 DEF Tracked
<1>5. ASSUME LoginLast PROVE LoginLast'
  <2>1. \A i \in Heard : rx[i].to # Login
    BY <1>0, <1>5 DEF LoginLast
  <2>2. ASSUME NEW i \in Heard', rx'[i].to = Login
        PROVE up' = <<>> /\ \A j \in Heard' : j <= i
    <3>1. i = m /\ rest.to = Login
      BY <1>3, <2>1, <2>2
    <3>2. \A j \in Heard' : j <= i
      BY <1>3, <3>1, HeardNat
    <3>3. QED BY <1>0, <1>5, <3>1, <3>2 DEF LoginLast
  <2>3. QED BY <1>0, <1>5, <2>2, NoneIs DEF LoginLast
<1>6. ASSUME NoLogin PROVE NoLogin'
  BY <1>0, <1>3, <1>6, NoneIs DEF NoLogin
<1>7. ASSUME OneMine PROVE OneMine'
  <2>1. rest.to = Heartbeat \/ (Mine(rest.to) /\ Heard = {})
    BY <1>0, <1>7 DEF OneMine
  <2>2. ASSUME NEW i \in Heard'
        PROVE  rx'[i].to = Heartbeat \/ (Mine(rx[i].to)' /\ \A j \in Heard' : i <= j)
    <3>0. i <= i
      BY HeardNat
    <3>1. CASE i \in Heard /\ rx'[i] = rx[i]
      <4>1. rx[i].to = Heartbeat \/ (Mine(rx[i].to) /\ \A j \in Heard : i <= j)
        BY <1>7, <3>1 DEF OneMine
      <4>2. i <= m
        BY <1>3, <3>1, HeardNat
      <4>3. (\A j \in Heard : i <= j) => \A j \in Heard' : i <= j
        BY <1>3, <4>2
      <4>4. Mine(rx[i].to) => Mine(rx[i].to)'
        BY <1>0, <3>1 DEF Mine
      <4>5. QED BY <3>1, <4>1, <4>3, <4>4
    <3>2. CASE i = m /\ rx'[i] = rest
      <4>1. Heard = {} => \A j \in Heard' : j = i
        BY <1>3, <3>2
      <4>2. Heard = {} => \A j \in Heard' : i <= j
        BY <3>0, <4>1
      <4>3. Mine(rest.to) => Mine(rx[i].to)'
        BY <1>0, <3>2 DEF Mine
      <4>4. QED BY <2>1, <3>2, <4>2, <4>3
    <3>3. QED BY <1>3, <3>1, <3>2
  <2>3. \A i \in 1..Len(up') : up'[i] = Heartbeat
    BY <1>0, <1>7 DEF OneMine
  <2>4. QED BY <1>0, <2>2, <2>3 DEF OneMine
<1>10. ASSUME Unanswered PROVE Unanswered'
  <2>1. \A x : Mine(x)' <=> Mine(x)
    BY <1>0 DEF Mine
  <2>2. QED BY <1>0, <1>10, <2>1 DEF Unanswered
<1>8. Matched'
  BY <1>0, <1>5, <1>6, <1>7, <1>10 DEF Matched, LoginDone, OnlyMine
<1>9. QED BY <1>0, <1>4, <1>8 DEF Acked

(* Bytes that are no packet are never read.                                *)
LEMMA NoiseMatches ==
  ASSUME Tracked, Matched, Acked, NoiseArrives PROVE Tracked' /\ Matched' /\ Acked'
<1>0. /\ UNCHANGED <<ses, data, link, up, rest, freed, received, misread>> /\ Arrives(Noise)
      /\ rx \in Seq(Known)
  BY DEF NoiseArrives, Tracked, history, network
<1>1. Known' = Known
  BY <1>0 DEF Known
<1>2. /\ \A i \in Heard' : i \in Heard /\ rx'[i] = rx[i]
      /\ rx' \in Seq(Known)
  BY <1>0, HeardArrives, NoiseKnown
<1>3. \A i \in Heard' : i + 0 \in Heard /\ rx'[i] = rx[i + 0]
  <2>1. \A i \in Heard' : i + 0 = i
    BY HeardNat
  <2>2. QED BY <1>2, <2>1
<1>4. Tracked'
  BY <1>0, <1>1, <1>2 DEF Tracked
<1>5. \A x : Mine(x)' <=> Mine(x)
  BY <1>0 DEF Mine
<1>6. LoginLast => LoginLast'
  BY <1>0, <1>3, Fewer
<1>7. NoLogin => NoLogin'
  BY <1>0, <1>3, Fewer
<1>8. OneMine => OneMine'
  BY <1>0, <1>3, <1>5, Fewer
<1>9. Unanswered => Unanswered'
  BY <1>0, <1>3, <1>5, Fewer
<1>10. QED BY <1>0, <1>4, <1>6, <1>7, <1>8, <1>9 DEF Matched, LoginDone, OnlyMine, Acked

(* Every step keeps answers and requests matched, and they are at first.   *)
LEMMA StepMatches ==
  ASSUME StagesTyped, Settled, Counted, Single, Tracked, Matched, Acked, [HpmNext]_hpmVars
  PROVE  Tracked' /\ Matched' /\ Acked'
<1>1. CASE Manager \/ hpm_socket_process \/ hpm_socket_handle_msg
  BY <1>1, SocketMatches DEF Manager
<1>2. CASE hpm_dev_report
  <2>1. UNCHANGED <<rx, link, up, rest, ses, freed, received, misread>>
    BY <1>2 DEF hpm_dev_report, network
  <2>2. data'.trans = data.trans
    BY <1>2, ReportKept
  <2>3. QED BY <2>1, <2>2, Consumed DEF Acked
<1>3. CASE hpm_session_process
  BY <1>3, SessionMatches
<1>4. CASE LinkChanges
  <2>1. /\ up' = <<>> /\ rest' = None /\ received \subseteq received'
        /\ UNCHANGED <<rx, freed, misread, ses, data>>
        /\ link # "dial" => link' \notin {"on", "dial"}
    BY <1>4 DEF LinkChanges
  <2>2. QED BY <2>1, GoneMatches
<1>5. CASE Server
  BY <1>5, ServerMatches
<1>6. CASE RestArrives
  BY <1>6, RestMatches
<1>7. CASE NoiseArrives
  BY <1>7, NoiseMatches
<1>8. CASE AccChanges \/ UNCHANGED hpmVars
  <2>1. UNCHANGED <<rx, link, up, rest, ses, data, freed, received, misread>>
    BY <1>8 DEF AccChanges, hpmVars, network, history
  <2>2. QED BY <2>1, Consumed DEF Acked
<1>9. CASE HpmSleeps
  <2>1. /\ up' = <<>> /\ rest' = None /\ received \subseteq received'
        /\ UNCHANGED <<rx, freed, misread, ses>> /\ mgr \in {"IDLE", "STOPPED"} /\ link' = "off"
    BY <1>9 DEF HpmSleeps
  <2>2. ses'.step = "INIT"
    BY <2>1 DEF Settled, hpm_socket_in_idle
  <2>3. QED BY <2>1, <2>2, GoneMatches
<1>10. CASE HpmWakes
  <2>1. /\ UNCHANGED <<rx, link, up, rest, freed, received, misread>>
        /\ ses' = [ses EXCEPT !.step = "INIT"]
    BY <1>10 DEF HpmWakes, network, history
  <2>2. ses'.step = "INIT"
    BY <2>1 DEF StagesTyped
  <2>3. QED BY <2>1, <2>2, Consumed DEF Acked
<1>11. QED BY <1>1, <1>2, <1>3, <1>4, <1>5, <1>6, <1>7, <1>8, <1>9, <1>10 DEF HpmNext

LEMMA InitMatched == ASSUME HpmInit PROVE Tracked /\ Matched /\ Acked
<1>1. /\ rx = <<>> /\ up = <<>> /\ rest = None /\ misread = FALSE /\ freed = {}
      /\ Len(rx) = 0 /\ Len(up) = 0
  BY EmptySeq DEF HpmInit
<1>2. Heard = {}
  BY <1>1 DEF Heard
<1>3. rx \in Seq(Known) /\ up \in Seq(Requests)
  BY <1>1, EmptySeq
<1>4. Tracked
  BY <1>1, <1>3 DEF Tracked
<1>5. \A i \in 1..Len(up) : FALSE
  BY <1>1
<1>6. LoginLast /\ NoLogin /\ OneMine
  BY <1>1, <1>2, <1>5, NoneIs DEF LoginLast, NoLogin, OneMine
<1>7. ses.step = "INIT"
  BY ForceStopTyped DEF HpmInit
<1>8. QED BY <1>1, <1>4, <1>6, <1>7 DEF Matched, LoginDone, OnlyMine, Acked

(* A report that hpm_data_ack_pack has freed the server has got: any       *)
(* answer counts as one to the report under transmission, but as long as   *)
(* no login was repeated while its answer was coming, no report was sent   *)
(* while that to a heartbeat was, and no answer was cut behind its result, *)
(* the first that is read is that report's.                                *)
THEOREM FreedWereReceived == HpmSpec => []AckedIsReceived
<1> DEFINE Inv == StagesTyped /\ Settled /\ Counted /\ Single /\ Tracked /\ Matched /\ Acked
<1>1. HpmInit => Inv
  BY InitSettled, InitKept, InitMatched
<1>2. Inv /\ [HpmNext]_hpmVars => Inv'
  BY StepSettles, StepKept, StepMatches
<1>3. Inv => AckedIsReceived
  BY DEF Acked, AckedIsReceived
<1>4. QED BY <1>1, <1>2, <1>3, PTL DEF HpmSpec
=============================================================================

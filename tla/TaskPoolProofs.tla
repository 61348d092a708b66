--------------------------- MODULE TaskPoolProofs ---------------------------
(***************************************************************************)
(* Proofs about TaskPool, for every number of slots, clients and messages. *)
(* A client amid a call has a message and, once it selected one, a slot    *)
(* (Sending); with it the types are inductive.  What the supervisor knows   *)
(* of the slot it works on (Known) is the invariant behind KnownWorker and  *)
(* OneWorker.  Last the pool is shown to implement Delivery.                *)
(***************************************************************************)
EXTENDS TaskPool, TLAPS

Sending == \A c \in Clients :
  /\ client[c].pc \notin {"idle", "notify"} => client[c].msg \in Msgs
  /\ client[c].pc \in {"add", "pooladd", "notify"} => client[c].best \in Tasks

Typed == TypeOK /\ Sending

(* There is a slot 0, and no slot is NoTask.                                *)
LEMMA TasksAre == 0 \in Tasks /\ Tasks \subseteq Nat /\ NoTask \notin Tasks
  BY PoolAssumption DEF Tasks, NoTask

LEMMA InitTyped == Init => Typed
<1> SUFFICES ASSUME Init PROVE Typed
  OBVIOUS
<1> USE DEF Init
<1>1. NoSend \in Sends /\ AtRest \in Checks /\ NewWorker \in Workers
  BY TasksAre DEF NoSend, AtRest, NewWorker, Sends, Checks, Workers, ClientPcs, SupPcs,
                  WorkerPcs, Sizes, Null
<1>2. state \in [Tasks -> States] /\ handle \in [Tasks -> Nat] /\ gen \in [Tasks -> Nat]
  BY DEF States
<1>3. stack \in [Tasks -> Sizes] /\ module \in [Tasks -> Modules \cup {NoModule}]
  BY DEF InitStack, Sizes
<1>4. queue \in [Tasks -> Seq(Msgs)] /\ \A t \in Tasks : Len(queue[t]) <= QueueCap
  BY PoolAssumption
<1>5. worker \in [Tasks -> Workers] /\ client \in [Clients -> Sends] /\ sup \in Checks
  BY <1>1
<1>6. manager \in Passes /\ registrar \in Attaches /\ event \in Events
  BY TasksAre DEF Passes, Attaches, Events, ManagerPcs, Sizes
<1>7. reports \in Seq(Reports) /\ blocked \in Nat /\ unsent \subseteq Msgs
      /\ served \subseteq Msgs
  OBVIOUS
<1>8. Sending
  BY DEF Sending, NoSend
<1> QED
  BY <1>2, <1>3, <1>4, <1>5, <1>6, <1>7, <1>8 DEF Typed, TypeOK

(* A worker's step.  Only Take needs to know what a queue holds.            *)
LEMMA WorkerTyped ==
  ASSUME Typed, NEW t \in Tasks, Worker(t)
  PROVE  Typed'
<1>0. UNCHANGED others
  BY DEF Worker, Boot, Wake, Abandon, Rest, Take, Finish, Quit
<1>1. /\ state \in [Tasks -> States] /\ handle \in [Tasks -> Nat]
      /\ worker \in [Tasks -> Workers] /\ served \subseteq Msgs
  BY DEF Typed, TypeOK
<1>2. queue \in [Tasks -> Seq(Msgs)] /\ \A s \in Tasks : Len(queue[s]) <= QueueCap
  BY DEF Typed, TypeOK
<1>3. queue' \in [Tasks -> Seq(Msgs)] /\ \A s \in Tasks : Len(queue'[s]) <= QueueCap
  <2>1. CASE Take(t)
    <3>1. queue[t] \in Seq(Msgs) /\ queue[t] # <<>>
      BY <1>2, <2>1 DEF Take
    <3>2. Tail(queue[t]) \in Seq(Msgs) /\ Len(Tail(queue[t])) <= QueueCap
      BY <1>2, <3>1, PoolAssumption
    <3> QED
      BY <1>2, <2>1, <3>2 DEF Take
  <2>2. CASE UNCHANGED queue
    BY <1>2, <2>2
  <2> QED
    BY <2>1, <2>2 DEF Worker, Boot, Wake, Abandon, Rest, Finish, Quit
<1>4. worker' \in [Tasks -> Workers] /\ served' \subseteq Msgs
  <2>1. CASE Take(t)
    <3>1. Head(queue[t]) \in Msgs
      BY <1>2, <2>1 DEF Take
    <3> QED
      BY <1>1, <2>1, <3>1 DEF Take, Workers, WorkerPcs
  <2>2. CASE Wake(t)
    <3> DEFINE me == worker[t]
               p == IF "QUIT" \in me.bits THEN "quit" ELSE "loop"
               q == "STOP" \notin me.bits /\ ("START" \in me.bits \/ me.poll)
    <3>1. p \in WorkerPcs /\ q \in BOOLEAN /\ me.msg \in Msgs \cup {NoMsg}
      BY <1>1 DEF WorkerPcs, Workers
    <3>2. [pc |-> p, bits |-> {}, msg |-> me.msg, poll |-> q] \in Workers
      BY <3>1 DEF Workers
    <3> QED
      BY <1>1, <2>2, <3>2 DEF Wake
  <2>3. CASE Boot(t)
    BY <1>1, <2>3 DEF Boot, Workers, WorkerPcs
  <2>4. CASE Abandon(t) \/ Quit(t)
    BY <1>1, <2>4 DEF Abandon, Quit, Workers, WorkerPcs
  <2>5. CASE Rest(t)
    BY <1>1, <2>5 DEF Rest, Workers, WorkerPcs
  <2>6. CASE Finish(t)
    BY <1>1, <2>6 DEF Finish, Workers, WorkerPcs
  <2> QED
    BY <2>1, <2>2, <2>3, <2>4, <2>5, <2>6 DEF Worker
<1>5. state' \in [Tasks -> States] /\ handle' \in [Tasks -> Nat]
  <2>1. CASE Boot(t) \/ Abandon(t) \/ Quit(t)
    BY <1>1, <2>1 DEF Boot, Abandon, Quit, States, QuitStates, Null
  <2>2. CASE Take(t) \/ Finish(t)
    BY <1>1, <2>2 DEF Take, Finish, States, RunStates
  <2>3. CASE Wake(t) \/ Rest(t)
    BY <1>1, <2>3 DEF Wake, Rest
  <2> QED
    BY <2>1, <2>2, <2>3 DEF Worker
<1> QED
  BY <1>0, <1>3, <1>4, <1>5 DEF Typed, TypeOK, Sending, others

(* A notification, and the deletion of a worker, keep the workers' types.  *)
LEMMA NotifiedTyped ==
  ASSUME worker \in [Tasks -> Workers], NEW t \in Tasks, NEW h, NEW bit \in Bits
  PROVE  Notified(t, h, bit) \in [Tasks -> Workers]
  BY DEF Notified, Workers

LEMMA KilledTyped ==
  ASSUME worker \in [Tasks -> Workers], NEW t \in Tasks, NEW h
  PROVE  Killed(t, h) \in [Tasks -> Workers]
  BY DEF Killed, Workers, WorkerPcs

(* The record of client c changes into r, which is what Sending asks for.  *)
LEMMA ClientChanged ==
  ASSUME Typed, NEW c \in Clients, NEW r \in Sends,
         client' = [client EXCEPT ![c] = r],
         r.pc \notin {"idle", "notify"} => r.msg \in Msgs,
         r.pc \in {"add", "pooladd", "notify"} => r.best \in Tasks
  PROVE  client' \in [Clients -> Sends] /\ Sending'
  BY DEF Typed, TypeOK, Sending

(* A client's step. *)
LEMMA ClientTyped ==
  ASSUME Typed, NEW c \in Clients, Client(c)
  PROVE  Typed'
<1> DEFINE me == client[c]
<1>0. UNCHANGED calm
  BY DEF Client, SendDirect, SendPool, SelectIdle, SelectLight, Add, NotifyMsg
<1>1. /\ me \in Sends /\ NoSend \in Sends
      /\ unsent \subseteq Msgs /\ queue \in [Tasks -> Seq(Msgs)]
      /\ worker \in [Tasks -> Workers] /\ handle \in [Tasks -> Nat]
      /\ \A t \in Tasks : Len(queue[t]) <= QueueCap
  BY TasksAre DEF Typed, TypeOK, Sends, NoSend, ClientPcs, Sizes, Null
<1>2. /\ me.pc \notin {"idle", "notify"} => me.msg \in Msgs
      /\ me.pc \in {"add", "pooladd", "notify"} => me.best \in Tasks
  BY DEF Typed, Sending
<1>3. CASE SendDirect(c)
  <2>1. PICK m \in unsent, t \in Tasks :
          /\ client' = [client EXCEPT ![c] = [me EXCEPT !.pc = "add", !.best = t, !.msg = m]]
          /\ unsent' = unsent \ {m}
    BY <1>3 DEF SendDirect
  <2>2. [me EXCEPT !.pc = "add", !.best = t, !.msg = m] \in Sends
    BY <1>1, <2>1 DEF Sends, ClientPcs
  <2>3. client' \in [Clients -> Sends] /\ Sending'
    BY <1>1, <2>1, <2>2, ClientChanged DEF Sends
  <2> QED
    BY <1>0, <1>1, <1>3, <2>1, <2>3 DEF SendDirect, Typed, TypeOK, calm
<1>4. CASE SendPool(c)
  <2>1. PICK m \in unsent, need \in Needs :
          /\ client' = [client EXCEPT ![c] = [me EXCEPT !.pc = "idlest", !.at = 0,
                                                       !.need = need, !.msg = m]]
          /\ unsent' = unsent \ {m}
    BY <1>4 DEF SendPool
  <2>2. [me EXCEPT !.pc = "idlest", !.at = 0, !.need = need, !.msg = m] \in Sends
    BY <1>1, <2>1, TasksAre, PoolAssumption DEF Sends, ClientPcs
  <2>3. client' \in [Clients -> Sends] /\ Sending'
    BY <1>1, <2>1, <2>2, ClientChanged DEF Sends
  <2> QED
    BY <1>0, <1>1, <1>4, <2>1, <2>3 DEF SendPool, Typed, TypeOK, calm
<1>5. CASE SelectIdle(c)
  <2> DEFINE t == me.at
             r == IF state[t] = "RUN_IDLE" /\ Suits(c, t)
                    THEN [me EXCEPT !.pc = "pooladd", !.best = t]
                    ELSE IF t + 1 \in Tasks THEN [me EXCEPT !.at = t + 1]
                    ELSE [me EXCEPT !.pc = "lightest", !.at = 0, !.best = NoTask,
                                    !.load = QueueCap + 1]
  <2>1. client' = [client EXCEPT ![c] = r] /\ me.pc = "idlest"
    BY <1>5 DEF SelectIdle
  <2>2. t \in Tasks /\ QueueCap + 1 \in Nat
    BY <1>1, PoolAssumption DEF Sends
  <2>3. r \in Sends /\ r.msg = me.msg /\ r.pc \in {"pooladd", "idlest", "lightest"}
    BY <1>1, <2>1, <2>2, TasksAre DEF Sends, ClientPcs
  <2>4. r.pc = "pooladd" => r.best \in Tasks
    BY <1>1, <2>1, <2>2 DEF Sends
  <2>5. client' \in [Clients -> Sends] /\ Sending'
    BY <1>2, <2>1, <2>3, <2>4, ClientChanged
  <2> QED
    BY <1>0, <1>1, <1>5, <2>5 DEF SelectIdle, Typed, TypeOK, calm
<1>6. CASE SelectLight(c)
  <2> DEFINE t == me.at
             seen == IF state[t] \in RunStates /\ Suits(c, t) /\ me.load > Len(queue[t])
                       THEN [me EXCEPT !.best = t, !.load = Len(queue[t])] ELSE me
             r == IF t + 1 \in Tasks THEN [seen EXCEPT !.at = t + 1]
                  ELSE IF seen.best = NoTask THEN NoSend
                  ELSE [seen EXCEPT !.pc = "pooladd"]
  <2>1. client' = [client EXCEPT ![c] = r] /\ me.pc = "lightest"
    BY <1>6 DEF SelectLight
  <2>2. t \in Tasks /\ Len(queue[t]) \in Nat
    BY <1>1 DEF Sends
  <2>3. seen \in Sends /\ seen.msg = me.msg /\ seen.pc = "lightest"
    BY <1>1, <2>1, <2>2 DEF Sends
  <2> HIDE DEF seen
  <2>4. r \in Sends
    BY <1>1, <2>3 DEF Sends, ClientPcs
  <2>5. /\ r.pc \notin {"idle", "notify"} => r.msg \in Msgs
        /\ r.pc \in {"add", "pooladd", "notify"} => r.best \in Tasks
    BY <1>2, <2>1, <2>3 DEF Sends, NoSend
  <2>6. client' \in [Clients -> Sends] /\ Sending'
    BY <2>1, <2>4, <2>5, ClientChanged
  <2> QED
    BY <1>0, <1>1, <1>6, <2>6 DEF SelectLight, Typed, TypeOK, calm
<1>7. CASE Add(c)
  <2> DEFINE t == me.best
             r == [me EXCEPT !.pc = "notify", !.msg = NoMsg, !.to = handle[t]]
  <2>1. me.pc \in {"add", "pooladd"} /\ t \in Tasks /\ me.msg \in Msgs
    BY <1>2, <1>7 DEF Add
  <2>2. handle[t] \in Nat
    BY <1>1, <2>1
  <2>3. r \in Sends /\ r.pc = "notify" /\ r.best = t
    BY <1>1, <2>1, <2>2 DEF Sends, ClientPcs
  <2> HIDE DEF r
  <2>4. CASE /\ Accepts(t)
             /\ queue' = [queue EXCEPT ![t] = Append(@, me.msg)]
             /\ client' = [client EXCEPT ![c] = r]
    <3>1. client' \in [Clients -> Sends] /\ Sending'
      BY <2>1, <2>3, <2>4, ClientChanged
    <3>2. queue[t] \in Seq(Msgs) /\ Len(queue[t]) < QueueCap
      BY <1>1, <2>1, <2>4 DEF Accepts
    <3>3. Append(queue[t], me.msg) \in Seq(Msgs) /\ Len(Append(queue[t], me.msg)) <= QueueCap
      BY <2>1, <3>2, PoolAssumption
    <3>4. queue' \in [Tasks -> Seq(Msgs)] /\ \A s \in Tasks : Len(queue'[s]) <= QueueCap
      BY <1>1, <2>1, <2>4, <3>3
    <3> QED
      BY <1>0, <1>7, <3>1, <3>4 DEF Add, Typed, TypeOK, calm
  <2>5. CASE UNCHANGED queue /\ client' = [client EXCEPT ![c] = NoSend]
    <3>1. client' \in [Clients -> Sends] /\ Sending'
      BY <1>1, <2>5, ClientChanged DEF NoSend
    <3> QED
      BY <1>0, <1>7, <2>5, <3>1 DEF Add, Typed, TypeOK, calm
  <2> QED
    BY <1>7, <2>4, <2>5 DEF Add, r
<1>8. CASE NotifyMsg(c)
  <2>1. me.best \in Tasks
    BY <1>2, <1>8 DEF NotifyMsg
  <2>2. worker' \in [Tasks -> Workers]
    BY <1>1, <1>8, <2>1, NotifiedTyped DEF NotifyMsg, Bits
  <2>3. client' \in [Clients -> Sends] /\ Sending'
    BY <1>1, <1>8, ClientChanged DEF NotifyMsg, NoSend
  <2> QED
    BY <1>0, <1>8, <2>2, <2>3 DEF NotifyMsg, Typed, TypeOK, calm
<1> QED
  BY <1>3, <1>4, <1>5, <1>6, <1>7, <1>8 DEF Client

(* The next slot of a pass, or its end. *)
LEMMA NextSlotTyped ==
  ASSUME manager \in Passes, event \in Events, NEW p \in ManagerPcs, NEW bit \in SupBits,
         NEW q \in ManagerPcs, NextSlot(p, bit, q)
  PROVE  manager' \in Passes /\ event' \in Events
<1>1. CASE manager.at + 1 \in Tasks
  BY <1>1 DEF NextSlot, Passes
<1>2. CASE manager.at + 1 \notin Tasks
  <2>1. [manager EXCEPT !.at = 0, !.pc = q] \in Passes
    BY TasksAre DEF Passes
  <2>2. [event EXCEPT !.bits = @ \cup {bit}] \in Events
    BY DEF Events
  <2> QED
    BY <1>2, <2>1, <2>2 DEF NextSlot
<1> QED
  BY <1>1, <1>2

LEMMA SignalTyped ==
  ASSUME worker \in [Tasks -> Workers], handle \in [Tasks -> Nat],
         state \in [Tasks -> States], NEW t \in Tasks, NEW bit \in Bits,
         NEW s \in States, Signal(t, bit, s)
  PROVE  /\ worker' \in [Tasks -> Workers] /\ handle' \in [Tasks -> Nat]
         /\ state' \in [Tasks -> States]
<1>1. Notified(t, handle[t], bit) \in [Tasks -> Workers]
  BY NotifiedTyped
<1> QED
  BY <1>1 DEF Signal, Null

LEMMA PassChanged ==
  ASSUME NEW r \in Passes, NEW p \in ManagerPcs, NEW a \in Tasks, NEW n \in Nat
  PROVE  [r EXCEPT !.pc = p, !.at = a, !.starts = n] \in Passes
  BY DEF Passes

(* A step of the power manager. *)
LEMMA ManagerTyped ==
  ASSUME Typed, Manager
  PROVE  Typed'
<1> DEFINE t == manager.at
<1>0. UNCHANGED rest
  BY DEF Manager, StartPool, StopPool, Call, StartSlot, StopSlot, KickSlot, HaltSlot
<1>1. /\ manager \in Passes /\ event \in Events /\ t \in Tasks
      /\ worker \in [Tasks -> Workers] /\ handle \in [Tasks -> Nat]
      /\ state \in [Tasks -> States]
  BY DEF Typed, TypeOK, Passes
<1>2. queue \in [Tasks -> Seq(Msgs)] /\ \A s \in Tasks : Len(queue[s]) <= QueueCap
  BY DEF Typed, TypeOK
<1>3. manager' \in Passes /\ event' \in Events
  <2>1. CASE StartPool \/ StopPool
    <3>1. /\ [manager EXCEPT !.pc = "start", !.at = 0, !.starts = @ + 1] \in Passes
          /\ [manager EXCEPT !.pc = "stop", !.at = 0, !.starts = @] \in Passes
      <4>1. manager.starts \in Nat /\ manager.starts + 1 \in Nat
        BY <1>1 DEF Passes
      <4> QED
        BY <1>1, <4>1, PassChanged, TasksAre, Zenon DEF ManagerPcs
    <3>2. CASE StartPool
      BY <1>1, <3>1, <3>2 DEF StartPool, Call
    <3>3. CASE StopPool
      BY <1>1, <3>1, <3>3 DEF StopPool, Call
    <3> QED
      BY <2>1, <3>2, <3>3
  <2>2. CASE UNCHANGED event /\ \E p \in ManagerPcs : manager' = [manager EXCEPT !.pc = p]
    BY <1>1, <2>2 DEF Passes
  <2>3. CASE \/ NextSlot("start", "START", "started")
             \/ NextSlot("stop", "STOP", "stopped")
    BY <1>1, <2>3, NextSlotTyped DEF ManagerPcs, SupBits
  <2> QED
    BY <2>1, <2>2, <2>3
    DEF Manager, StartSlot, StopSlot, KickSlot, HaltSlot, ManagerPcs
<1>4. queue' \in [Tasks -> Seq(Msgs)] /\ \A s \in Tasks : Len(queue'[s]) <= QueueCap
  <2>1. CASE queue' = [queue EXCEPT ![t] = <<>>]
    BY <1>1, <1>2, <2>1, PoolAssumption
  <2>2. CASE UNCHANGED queue
    BY <1>2, <2>2
  <2> QED
    BY <2>1, <2>2
    DEF Manager, StartPool, StopPool, Call, StartSlot, StopSlot, KickSlot, HaltSlot
<1>5. /\ worker' \in [Tasks -> Workers] /\ handle' \in [Tasks -> Nat]
      /\ state' \in [Tasks -> States]
  <2>1. CASE StartPool \/ StopPool
    BY <1>1, <2>1 DEF StartPool, StopPool, Call
  <2>2. CASE StartSlot \/ StopSlot
    BY <1>1, <2>2 DEF StartSlot, StopSlot, States, RunStates
  <2>3. CASE KickSlot \/ HaltSlot
    BY <1>1, <2>3, SignalTyped DEF KickSlot, HaltSlot, Bits, States, QuitStates
  <2> QED
    BY <2>1, <2>2, <2>3 DEF Manager
<1> QED
  BY <1>0, <1>3, <1>4, <1>5 DEF Typed, TypeOK, Sending, rest

(* A step of the registrar. *)
LEMMA RegistrarTyped ==
  ASSUME Typed, Registrar
  PROVE  Typed'
<1>0. UNCHANGED still
  BY DEF Registrar, Attach, AttachSlot, Detach
<1>1. registrar \in Attaches /\ module \in [Tasks -> Modules \cup {NoModule}]
  BY DEF Typed, TypeOK
<1>2. queue \in [Tasks -> Seq(Msgs)] /\ \A s \in Tasks : Len(queue[s]) <= QueueCap
  BY DEF Typed, TypeOK
<1>3. registrar' \in Attaches /\ module' \in [Tasks -> Modules \cup {NoModule}]
  <2>1. CASE Attach
    BY <1>1, <2>1, TasksAre, PoolAssumption DEF Attach, Attaches
  <2>2. CASE AttachSlot
    BY <1>1, <2>2, TasksAre DEF AttachSlot, Attaches
  <2>3. ASSUME NEW t \in Tasks, Detach(t)
        PROVE  registrar' \in Attaches /\ module' \in [Tasks -> Modules \cup {NoModule}]
    BY <1>1, <2>3 DEF Detach
  <2> QED
    BY <2>1, <2>2, <2>3 DEF Registrar
<1>4. queue' \in [Tasks -> Seq(Msgs)] /\ \A s \in Tasks : Len(queue'[s]) <= QueueCap
  <2>1. ASSUME NEW t \in Tasks, Detach(t)
        PROVE  queue' \in [Tasks -> Seq(Msgs)] /\ \A s \in Tasks : Len(queue'[s]) <= QueueCap
    BY <1>2, <2>1, PoolAssumption DEF Detach
  <2> QED
    BY <1>2, <2>1 DEF Registrar, Attach, AttachSlot
<1> QED
  BY <1>0, <1>3, <1>4 DEF Typed, TypeOK, Sending, still

(* What the supervisor's record becomes. *)
LEMMA AtRestTyped == AtRest \in Checks
  BY TasksAre DEF Checks, AtRest, SupPcs, Null

LEMMA CheckChanged ==
  ASSUME NEW r \in Checks, NEW p \in SupPcs
  PROVE  /\ [r EXCEPT !.pc = p] \in Checks
         /\ \A h \in Nat : [r EXCEPT !.pc = p, !.to = h] \in Checks
         /\ \A t \in Tasks : [r EXCEPT !.pc = p, !.slot = t] \in Checks
  BY DEF Checks

LEMMA CheckedTyped ==
  ASSUME sup \in Checks
  PROVE  Checked \in Checks /\ Deleted \in Checks
<1>1. "check" \in SupPcs /\ "create" \in SupPcs /\ Null \in Nat
  BY DEF SupPcs, Null
<1>2. \A t \in Tasks : [AtRest EXCEPT !.pc = "check", !.slot = t] \in Checks
  BY <1>1, AtRestTyped, CheckChanged, Zenon
<1>3. [sup EXCEPT !.pc = "create", !.to = Null] \in Checks
  BY <1>1, CheckChanged, Zenon
<1> QED
  BY <1>2, <1>3, AtRestTyped DEF Checked, Deleted

LEMMA ReportedTyped ==
  ASSUME reports \in Seq(Reports), event \in Events, NEW t \in Tasks,
         NEW k \in {"TASK_DELETED", "TASKSTACK_SMALL", "TASK_BLOCKED"}, Reported(k, t)
  PROVE  reports' \in Seq(Reports) /\ event' \in Events
<1>1. [kind |-> k, slot |-> t] \in Reports
  BY DEF Reports
<1>2. [event EXCEPT !.bits = @ \cup {"REPORT"}] \in Events
  BY DEF Events, SupBits
<1>3. Append(reports, [kind |-> k, slot |-> t]) \in Seq(Reports)
  BY <1>1
<1> QED
  BY <1>2, <1>3, Zenon DEF Reported

(* Taking note of the notifications. *)
LEMMA WokenTyped ==
  ASSUME event \in Events, Woken
  PROVE  event' \in Events
<1>1. (event.poll \/ "START" \in event.bits) \in BOOLEAN
  OBVIOUS
<1> QED
  BY <1>1 DEF Woken, Events

(* Closing a slot, and what HandleReport makes of a report. *)
LEMMA CloseTyped ==
  ASSUME Typed, NEW t \in Tasks, NEW s \in States, NEW b \in BOOLEAN, NEW z \in Sizes,
         Close(t, s, b, z)
  PROVE  /\ state' \in [Tasks -> States] /\ stack' \in [Tasks -> Sizes] /\ sup' \in Checks
         /\ queue' \in [Tasks -> Seq(Msgs)]
         /\ \A q \in Tasks : Len(queue'[q]) <= QueueCap
<1>1. state' \in [Tasks -> States] /\ stack' \in [Tasks -> Sizes]
  BY DEF Close, Typed, TypeOK
<1>2. sup' \in Checks
  BY DEF Close, Checks, SupPcs, Null
<1> QED
  BY <1>1, <1>2, PoolAssumption DEF Close, Typed, TypeOK

LEMMA ReportClosed ==
  ASSUME Typed, HandleReport
  PROVE  /\ Head(reports).slot \in Tasks
         /\ \/ Ignored
            \/ Close(Head(reports).slot, "RECOVERING", TRUE, stack[Head(reports).slot])
            \/ Close(Head(reports).slot, "RECOVERING", TRUE, Expended(Head(reports).slot))
            \/ Close(Head(reports).slot, "ISFORBIDDEN", FALSE, stack[Head(reports).slot])
<1>1. reports \in Seq(Reports) /\ reports # <<>>
  BY DEF HandleReport, Typed, TypeOK
<1>2. Head(reports) \in Reports
  BY <1>1
<1> QED
  BY <1>2 DEF HandleReport, Forbid, Expend, Reset, Reports

LEMMA HandleReportTyped ==
  ASSUME Typed, HandleReport
  PROVE  Typed'
<1> DEFINE r == Head(reports)
<1>0. UNCHANGED aside /\ UNCHANGED <<handle, gen, worker, blocked>>
  BY DEF HandleReport
<1>1. reports \in Seq(Reports) /\ reports # <<>> /\ event \in Events
      /\ stack \in [Tasks -> Sizes]
  BY DEF HandleReport, Typed, TypeOK
<1>2. r.slot \in Tasks /\ stack[r.slot] \in Sizes /\ Expended(r.slot) \in Sizes
  BY <1>1, ReportClosed DEF Expended, Sizes
<1>3. reports' \in Seq(Reports) /\ event' \in Events
  BY <1>1, WokenTyped DEF HandleReport
<1>4. \/ Ignored
      \/ Close(r.slot, "RECOVERING", TRUE, stack[r.slot])
      \/ Close(r.slot, "RECOVERING", TRUE, Expended(r.slot))
      \/ Close(r.slot, "ISFORBIDDEN", FALSE, stack[r.slot])
  BY ReportClosed
<1>5. /\ state' \in [Tasks -> States] /\ stack' \in [Tasks -> Sizes] /\ sup' \in Checks
      /\ queue' \in [Tasks -> Seq(Msgs)]
      /\ \A q \in Tasks : Len(queue'[q]) <= QueueCap
  <2>1. CASE Ignored
    BY <2>1 DEF Ignored, Typed, TypeOK
  <2>2. "RECOVERING" \in States /\ "ISFORBIDDEN" \in States
    BY DEF States, QuitStates
  <2> QED
    BY <1>2, <1>4, <2>1, <2>2, CloseTyped
<1> QED
  BY <1>0, <1>3, <1>5 DEF Typed, TypeOK, Sending, aside

(* The other steps of the supervisor leave the queues alone. *)
LEMMA SupervisorTyped ==
  ASSUME Typed, Supervisor
  PROVE  Typed'
<1>0. CASE HandleReport
  BY <1>0, HandleReportTyped
<1> SUFFICES ASSUME ~HandleReport PROVE Typed'
  BY <1>0
<1>1. UNCHANGED aside /\ UNCHANGED <<stack, queue>>
  <2>1. CASE Waiting
    BY <2>1 DEF Waiting, Pause, WakeToNone, Timeout
  <2>2. CASE Checking
    BY <2>2 DEF Checking, ReportBlocked, CheckedBlock, LookAt, FoundDeleted, FoundSmall,
                ReportSmall, FoundWell
  <2>3. CASE Resetting
    BY <2>3 DEF Resetting, AskQuit, HasQuit, GiveUp, ForceDelete, CreateFails, Create, Adopt, KickNew
  <2> QED
    BY <2>1, <2>2, <2>3 DEF Supervisor
<1>2. /\ state \in [Tasks -> States] /\ handle \in [Tasks -> Nat] /\ gen \in [Tasks -> Nat]
      /\ worker \in [Tasks -> Workers] /\ sup \in Checks /\ event \in Events
      /\ reports \in Seq(Reports) /\ blocked \in Nat
  BY DEF Typed, TypeOK
<1>3. sup.slot \in Tasks /\ sup.to \in Nat /\ handle[sup.slot] \in Nat /\ gen[sup.slot] \in Nat
  BY <1>2 DEF Checks
<1>4. AtRest \in Checks /\ Checked \in Checks /\ Deleted \in Checks
  BY <1>2, AtRestTyped, CheckedTyped
<1> DEFINE New == /\ state' \in [Tasks -> States] /\ handle' \in [Tasks -> Nat]
                  /\ gen' \in [Tasks -> Nat] /\ worker' \in [Tasks -> Workers]
                  /\ sup' \in Checks /\ event' \in Events /\ reports' \in Seq(Reports)
                  /\ blocked' \in Nat
<1>5. ASSUME Waiting PROVE New
  <2>1. CASE Pause
    BY <1>2, <2>1 DEF Pause, Events
  <2>2. CASE WakeToNone
    BY <1>2, <2>2, WokenTyped DEF WakeToNone
  <2>3. CASE Timeout
    <3>1. [AtRest EXCEPT !.pc = "block"] \in Checks
      BY <1>4, CheckChanged DEF SupPcs
    <3> QED
      BY <1>2, <2>3, <3>1 DEF Timeout
  <2> QED
    BY <1>5, <2>1, <2>2, <2>3 DEF Waiting
<1>6. ASSUME Checking PROVE New
  <2>1. ASSUME NEW t \in Tasks, ReportBlocked(t) PROVE New
    <3>1. reports' \in Seq(Reports) /\ event' \in Events
      BY <1>2, <2>1, ReportedTyped DEF ReportBlocked
    <3> QED
      BY <1>2, <2>1, <3>1 DEF ReportBlocked
  <2>2. CASE CheckedBlock
    <3>1. [AtRest EXCEPT !.pc = "check"] \in Checks
      BY <1>4, CheckChanged DEF SupPcs
    <3> QED
      BY <1>2, <2>2, <3>1 DEF CheckedBlock
  <2>3. CASE LookAt
    <3>1. \A h \in Nat : [sup EXCEPT !.pc = "look", !.to = h] \in Checks
      BY <1>2, CheckChanged DEF SupPcs
    <3> QED
      BY <1>2, <1>3, <1>4, <2>3, <3>1 DEF LookAt
  <2>4. CASE FoundDeleted \/ ReportSmall
    <3>1. Report("TASK_DELETED") \/ Report("TASKSTACK_SMALL")
      BY <2>4 DEF FoundDeleted, ReportSmall
    <3>2. reports' \in Seq(Reports) /\ event' \in Events
      <4>1. PICK k \in {"TASK_DELETED", "TASKSTACK_SMALL"} : Reported(k, sup.slot)
        BY <3>1, Zenon DEF Report
      <4> QED
        BY <1>2, <1>3, <4>1, ReportedTyped
    <3>3. state' \in [Tasks -> States] /\ handle' \in [Tasks -> Nat] /\ sup' \in Checks
      <4>1. /\ state' = [state EXCEPT ![sup.slot] = "ABNORMAL"]
            /\ handle' = [handle EXCEPT ![sup.slot] = Null]
            /\ sup' = Checked
        BY <3>1, Zenon DEF Report
      <4> QED
        BY <1>2, <1>4, <4>1 DEF States, QuitStates, Null
    <3> QED
      BY <1>2, <2>4, <3>2, <3>3 DEF FoundDeleted, ReportSmall
  <2>5. CASE FoundSmall
    <3>1. [sup EXCEPT !.pc = "killed"] \in Checks
      BY <1>2, CheckChanged DEF SupPcs
    <3>2. worker' \in [Tasks -> Workers]
      BY <1>2, <1>3, <2>5, KilledTyped DEF FoundSmall
    <3> QED
      BY <1>2, <2>5, <3>1, <3>2 DEF FoundSmall
  <2>6. CASE FoundWell
    BY <1>2, <1>4, <2>6 DEF FoundWell
  <2> QED
    BY <1>6, <2>1, <2>2, <2>3, <2>4, <2>5, <2>6 DEF Checking
<1>7. ASSUME Resetting PROVE New
  <2>1. CASE AskQuit
    <3>1. worker' \in [Tasks -> Workers]
      BY <1>2, <1>3, <2>1, NotifiedTyped DEF AskQuit, Bits
    <3>2. [sup EXCEPT !.pc = "wait"] \in Checks
      BY <1>2, CheckChanged DEF SupPcs
    <3> QED
      BY <1>2, <1>4, <2>1, <3>1, <3>2 DEF AskQuit
  <2>2. CASE HasQuit
    BY <1>2, <1>4, <2>2 DEF HasQuit, Null
  <2>3. CASE GiveUp
    <3>1. [sup EXCEPT !.pc = "force", !.to = handle[sup.slot]] \in Checks
      BY <1>2, <1>3, CheckChanged DEF SupPcs
    <3> QED
      BY <1>2, <2>3, <3>1 DEF GiveUp, Null
  <2>4. CASE ForceDelete
    <3>1. Killed(sup.slot, sup.to) \in [Tasks -> Workers]
      BY <1>2, <1>3, KilledTyped, Zenon
    <3> QED
      BY <1>2, <1>4, <2>4, <3>1 DEF ForceDelete
  <2>5. CASE CreateFails
    BY <1>2, <1>4, <2>5 DEF CreateFails, States, QuitStates
  <2>6. CASE Create
    <3>1. NewWorker \in Workers
      BY DEF NewWorker, Workers, WorkerPcs
    <3>2. [sup EXCEPT !.pc = "adopt", !.to = gen[sup.slot] + 1] \in Checks
      <4>1. "adopt" \in SupPcs /\ gen[sup.slot] + 1 \in Nat
        BY <1>3 DEF SupPcs
      <4> QED
        BY <1>2, <4>1, CheckChanged, Zenon
    <3> QED
      BY <1>2, <1>3, <2>6, <3>1, <3>2 DEF Create
  <2>7. CASE Adopt
    <3>1. [sup EXCEPT !.pc = "kick"] \in Checks
      BY <1>2, CheckChanged DEF SupPcs
    <3> QED
      BY <1>2, <1>3, <2>7, <3>1 DEF Adopt, States, RunStates
  <2>8. CASE KickNew
    <3>1. worker' \in [Tasks -> Workers]
      BY <1>2, <1>3, <2>8, NotifiedTyped DEF KickNew, Bits
    <3> QED
      BY <1>2, <1>4, <2>8, <3>1 DEF KickNew
  <2> QED
    BY <1>7, <2>1, <2>2, <2>3, <2>4, <2>5, <2>6, <2>7, <2>8 DEF Resetting
<1>8. New
  BY <1>5, <1>6, <1>7 DEF Supervisor
<1> QED
  BY <1>1, <1>8 DEF Typed, TypeOK, Sending, aside

(* The code's tables keep their types, and the queues their bound: no add   *)
(* of tbox_task_add_msg or tbox_taskpool_add_msg overfills a queue.        *)
THEOREM PoolTypes == Spec => []TypeOK
<1>1. Init => Typed
  BY InitTyped
<1>2. Typed /\ [Next]_vars => Typed'
  <2> SUFFICES ASSUME Typed, [Next]_vars PROVE Typed'
    OBVIOUS
  <2>1. CASE UNCHANGED vars
    BY <2>1 DEF Typed, TypeOK, Sending, vars
  <2>2. CASE Next
    BY <2>2, WorkerTyped, ClientTyped, ManagerTyped, RegistrarTyped, SupervisorTyped DEF Next
  <2> QED
    BY <2>1, <2>2
<1>3. Typed => TypeOK
  BY DEF Typed
<1> QED
  BY <1>1, <1>2, <1>3, PTL DEF Spec

-----------------------------------------------------------------------------
(* Why a slot knows its worker.  A handle is never that of an earlier       *)
(* worker, and at each point of a check or a reset the supervisor knows     *)
(* whether the worker it holds is the slot's latest, and whether it lives.  *)
Held == \A t \in Tasks : gen[t] # Null /\ handle[t] \in {Null, gen[t]}

SupKnows ==
  /\ sup.pc \in {"look", "killed", "force", "adopt"} => sup.to = gen[sup.slot]
  /\ sup.pc = "killed" => worker[sup.slot].pc = "dead"
  /\ sup.pc \in {"force", "create", "adopt"} => handle[sup.slot] = Null

Known == Held /\ SupKnows /\ KnownWorker /\ OneWorker

LEMMA NotifiedPc ==
  ASSUME worker \in [Tasks -> Workers], NEW t \in Tasks, NEW h, NEW bit
  PROVE  \A s \in Tasks : Notified(t, h, bit)[s].pc = worker[s].pc
  BY DEF Notified, Workers

LEMMA KilledPc ==
  ASSUME worker \in [Tasks -> Workers], NEW t \in Tasks
  PROVE  /\ \A s \in Tasks \ {t} : \A h : Killed(t, h)[s] = worker[s]
         /\ Killed(t, gen[t])[t].pc = "dead"
  BY DEF Killed, Lives, Workers

(* Steps of the others: a dead worker stays dead, and a slot lets go of its *)
(* handle only when its worker is dead.                                     *)
LEMMA Quiet ==
  ASSUME Typed, Known, UNCHANGED <<gen, sup>>,
         \A s \in Tasks : /\ worker[s].pc = "dead" => worker'[s].pc = "dead"
                          /\ \/ handle'[s] = handle[s]
                             \/ handle'[s] = Null /\ worker'[s].pc = "dead"
  PROVE  Known'
<1>1. sup.slot \in Tasks
  BY DEF Typed, TypeOK, Checks
<1>2. Held'
  BY DEF Known, Held
<1>3. SupKnows'
  BY <1>1 DEF Known, SupKnows
<1>4. KnownWorker'
  BY DEF Known, KnownWorker
<1>5. OneWorker'
  BY <1>1 DEF Known, OneWorker
<1> QED
  BY <1>2, <1>3, <1>4, <1>5 DEF Known

LEMMA WorkerKnown ==
  ASSUME Typed, Known, NEW t \in Tasks, Worker(t)
  PROVE  Known'
<1>1. worker \in [Tasks -> Workers] /\ handle \in [Tasks -> Nat]
  BY DEF Typed, TypeOK
<1>2. UNCHANGED <<gen, sup>> /\ worker[t].pc # "dead"
  BY DEF Worker, Boot, Wake, Abandon, Rest, Take, Finish, Quit, others
<1>3. \A s \in Tasks \ {t} : worker'[s] = worker[s] /\ handle'[s] = handle[s]
  BY <1>1 DEF Worker, Boot, Wake, Abandon, Rest, Take, Finish, Quit
<1>4. UNCHANGED handle \/ (handle'[t] = Null /\ worker'[t].pc = "dead")
  <2>1. CASE Boot(t) \/ Abandon(t) \/ Quit(t)
    BY <1>1, <2>1 DEF Boot, Abandon, Quit, Workers
  <2> QED
    BY <2>1 DEF Worker, Wake, Rest, Take, Finish
<1> QED
  BY <1>2, <1>3, <1>4, Quiet

LEMMA ClientPc ==
  ASSUME Typed, NEW c \in Clients, Client(c)
  PROVE  \A s \in Tasks : worker'[s].pc = worker[s].pc
<1>1. CASE NotifyMsg(c)
  <2>1. worker \in [Tasks -> Workers] /\ client[c].best \in Tasks
    BY <1>1 DEF Typed, TypeOK, Sending, NotifyMsg
  <2> QED
    BY <1>1, <2>1, NotifiedPc DEF NotifyMsg
<1> QED
  BY <1>1 DEF Client, SendDirect, SendPool, SelectIdle, SelectLight, Add

LEMMA ClientKnown ==
  ASSUME Typed, Known, NEW c \in Clients, Client(c)
  PROVE  Known'
<1>1. UNCHANGED <<gen, sup, handle>>
  BY DEF Client, SendDirect, SendPool, SelectIdle, SelectLight, Add, NotifyMsg, calm
<1>2. \A s \in Tasks : worker'[s].pc = worker[s].pc
  BY ClientPc
<1> QED
  BY <1>1, <1>2, Quiet

LEMMA ManagerKnown ==
  ASSUME Typed, Known, Manager
  PROVE  Known'
<1> DEFINE t == manager.at
<1>1. UNCHANGED <<gen, sup>>
  BY DEF Manager, StartPool, StopPool, Call, StartSlot, StopSlot, KickSlot, HaltSlot, rest
<1>2. worker \in [Tasks -> Workers] /\ handle \in [Tasks -> Nat] /\ t \in Tasks
  BY DEF Typed, TypeOK, Passes
<1>3. ASSUME NEW bit \in Bits, NEW s \in States, Signal(t, bit, s)
      PROVE  Known'
  <2>1. CASE worker' = Notified(t, handle[t], bit) /\ UNCHANGED handle
    BY <1>1, <1>2, <2>1, NotifiedPc, Quiet
  <2>2. CASE /\ handle' = [handle EXCEPT ![t] = Null] /\ UNCHANGED worker
             /\ ~(handle[t] # Null /\ Lives(t, handle[t]))
    <3>1. handle[t] = Null \/ worker[t].pc = "dead"
      BY <1>2, <2>2 DEF Known, Held, Lives
    <3> QED
      BY <1>1, <1>2, <2>2, <3>1, Quiet
  <2> QED
    BY <1>3, <2>1, <2>2 DEF Signal
<1>4. CASE UNCHANGED <<worker, handle>>
  BY <1>1, <1>4, Quiet
<1> QED
  BY <1>3, <1>4 DEF Manager, StartPool, StopPool, Call, StartSlot, StopSlot, KickSlot, HaltSlot,
                    Bits, States, QuitStates

LEMMA RegistrarKnown ==
  ASSUME Typed, Known, Registrar
  PROVE  Known'
<1>1. UNCHANGED <<gen, sup, worker, handle>>
  BY DEF Registrar, Attach, AttachSlot, Detach, still
<1> QED
  BY <1>1, Quiet

(* Steps of the supervisor that change no slot's handle and no worker: the  *)
(* supervisor need only know what it looks at.                              *)
LEMMA SupMoves ==
  ASSUME Typed, Known, UNCHANGED <<gen, handle, worker>>,
         sup.pc \notin {"force", "adopt"},
         sup'.pc \notin {"killed", "force", "create", "adopt"},
         sup'.pc = "look" => sup'.to = gen[sup'.slot]
  PROVE  Known'
<1>1. Held'
  BY DEF Known, Held
<1>2. SupKnows'
  BY DEF SupKnows
<1>3. KnownWorker'
  BY DEF Known, KnownWorker
<1>4. OneWorker'
  BY DEF OneWorker
<1> QED
  BY <1>1, <1>2, <1>3, <1>4 DEF Known

LEMMA CheckedPc == Checked.pc \in {"check", "idle"} /\ AtRest.pc = "idle"
  BY DEF Checked, AtRest

LEMMA WaitingKnown ==
  ASSUME Typed, Known, Waiting
  PROVE  Known'
<1>1. UNCHANGED <<gen, handle, worker>> /\ sup.pc = "idle"
  BY DEF Waiting, Pause, WakeToNone, HandleReport, Timeout, Woken
<1>2. sup'.pc \in {"idle", "block", "delete"}
  <2>1. CASE Pause \/ WakeToNone
    BY <1>1, <2>1 DEF Pause, WakeToNone
  <2>2. CASE Timeout
    BY <2>2 DEF Timeout, AtRest
  <2>3. CASE HandleReport
    BY <1>1, <2>3, ReportClosed DEF Ignored, Close
  <2> QED
    BY <2>1, <2>2, <2>3, Zenon DEF Waiting
<1> QED
  BY <1>1, <1>2, SupMoves

LEMMA CheckingKnown ==
  ASSUME Typed, Known, Checking
  PROVE  Known'
<1> DEFINE t == sup.slot
<1>1. /\ worker \in [Tasks -> Workers] /\ handle \in [Tasks -> Nat] /\ sup \in Checks
      /\ t \in Tasks
  BY DEF Typed, TypeOK, Checks
<1>2. UNCHANGED gen
  BY DEF Checking, ReportBlocked, CheckedBlock, LookAt, FoundDeleted, FoundSmall, ReportSmall,
         FoundWell
<1>3. CASE \E s \in Tasks : ReportBlocked(s)
  BY <1>3, SupMoves DEF ReportBlocked
<1>4. CASE CheckedBlock
  BY <1>4, SupMoves DEF CheckedBlock, AtRest
<1>5. CASE FoundWell
  BY <1>5, CheckedPc, SupMoves DEF FoundWell
<1>6. CASE LookAt
  <2>1. handle[t] # Null => handle[t] = gen[t]
    BY <1>1 DEF Known, Held
  <2>2. sup'.pc \in {"check", "idle", "look"} /\ (sup'.pc = "look" => sup'.to = gen[sup'.slot])
    BY <1>1, <1>6, <2>1, CheckedPc DEF LookAt, Checks
  <2> QED
    BY <1>6, <2>2, SupMoves DEF LookAt
<1>7. CASE FoundDeleted \/ ReportSmall
  <2>1. worker[t].pc = "dead"
    BY <1>7 DEF FoundDeleted, ReportSmall, Known, SupKnows, Lives
  <2>2. /\ handle' = [handle EXCEPT ![t] = Null] /\ UNCHANGED worker
        /\ sup.pc \in {"look", "killed"} /\ sup'.pc \in {"check", "idle"}
    BY <1>7, CheckedPc DEF FoundDeleted, ReportSmall, Report
  <2>3. Held'
    BY <1>1, <1>2, <2>2 DEF Known, Held
  <2>4. SupKnows' /\ OneWorker'
    BY <2>2 DEF SupKnows, OneWorker
  <2>5. KnownWorker'
    BY <1>1, <1>2, <2>1, <2>2 DEF Known, KnownWorker
  <2> QED
    BY <2>3, <2>4, <2>5 DEF Known
<1>8. CASE FoundSmall
  <2>1. worker' = Killed(t, gen[t]) /\ UNCHANGED handle /\ sup.pc = "look"
    BY <1>8 DEF FoundSmall, Known, SupKnows
  <2>2. worker'[t].pc = "dead" /\ \A s \in Tasks \ {t} : worker'[s] = worker[s]
    BY <1>1, <2>1, KilledPc
  <2>3. sup'.pc = "killed" /\ sup'.slot = t /\ sup'.to = sup.to
    BY <1>1, <1>8 DEF FoundSmall, Checks
  <2>4. Held'
    BY <1>2, <2>1 DEF Known, Held
  <2>5. SupKnows' /\ OneWorker'
    BY <1>2, <2>1, <2>2, <2>3 DEF Known, SupKnows, OneWorker
  <2>6. KnownWorker'
    BY <1>2, <2>1, <2>2, <2>3 DEF Known, KnownWorker
  <2> QED
    BY <2>4, <2>5, <2>6 DEF Known
<1> QED
  BY <1>3, <1>4, <1>5, <1>6, <1>7, <1>8 DEF Checking

LEMMA DeletedIs ==
  ASSUME Typed
  PROVE  /\ Deleted.slot \in Tasks /\ Deleted.pc \in {"create", "idle"}
         /\ Deleted.pc = "create" => Deleted.slot = sup.slot
<1>1. sup \in Checks
  BY DEF Typed, TypeOK
<1> QED
  BY <1>1, AtRestTyped DEF Deleted, AtRest, Checks

(* The supervisor's wait for a worker ends when the worker is dead.         *)
LEMMA GoneKnown ==
  ASSUME Typed, Known, UNCHANGED gen,
         sup.pc \in {"delete", "wait", "force"}, sup' = Deleted,
         handle'[sup.slot] = Null, worker'[sup.slot].pc = "dead",
         \A s \in Tasks \ {sup.slot} : handle'[s] = handle[s] /\ worker'[s] = worker[s]
  PROVE  Known'
<1>1. sup.slot \in Tasks
  BY DEF Typed, TypeOK, Checks
<1>2. Held'
  BY <1>1 DEF Known, Held
<1>3. SupKnows' /\ OneWorker'
  BY <1>1, DeletedIs DEF SupKnows, OneWorker
<1>4. KnownWorker'
  BY <1>1, DeletedIs DEF Known, KnownWorker
<1> QED
  BY <1>2, <1>3, <1>4 DEF Known

LEMMA ResettingKnown ==
  ASSUME Typed, Known, Resetting
  PROVE  Known'
<1> DEFINE t == sup.slot
<1>1. /\ worker \in [Tasks -> Workers] /\ handle \in [Tasks -> Nat] /\ gen \in [Tasks -> Nat]
      /\ sup \in Checks /\ t \in Tasks
  BY DEF Typed, TypeOK, Checks
<1>2. CASE AskQuit
  <2>1. CASE handle[t] = Null
    <3>1. worker[t].pc = "dead"
      BY <1>1, <1>2, <2>1 DEF AskQuit, Known, Held, KnownWorker
    <3> QED
      BY <1>2, <2>1, <3>1, GoneKnown DEF AskQuit
  <2>2. CASE handle[t] # Null
    <3>1. UNCHANGED <<gen, handle>> /\ worker' = Notified(t, handle[t], "QUIT")
          /\ sup' = [sup EXCEPT !.pc = "wait"] /\ sup.pc = "delete"
      BY <1>2, <2>2 DEF AskQuit
    <3>2. \A s \in Tasks : worker'[s].pc = worker[s].pc
      BY <1>1, <3>1, NotifiedPc
    <3>3. sup'.pc = "wait"
      BY <1>1, <3>1 DEF Checks
    <3>4. Held' /\ SupKnows' /\ OneWorker'
      BY <3>1, <3>3 DEF Known, Held, SupKnows, OneWorker
    <3>5. KnownWorker'
      BY <3>1, <3>2 DEF Known, KnownWorker
    <3> QED
      BY <3>4, <3>5 DEF Known
  <2> QED
    BY <2>1, <2>2
<1>3. CASE HasQuit
  <2>1. worker[t].pc = "dead"
    BY <1>1, <1>3 DEF HasQuit, Known, Held, KnownWorker, Lives
  <2> QED
    BY <1>1, <1>3, <2>1, GoneKnown DEF HasQuit
<1>4. CASE GiveUp
  <2>1. sup'.pc = "force" /\ sup'.slot = t /\ sup'.to = gen[t]
    BY <1>1, <1>4 DEF GiveUp, Known, Held, Checks
  <2>2. UNCHANGED <<gen, worker>> /\ handle' = [handle EXCEPT ![t] = Null] /\ sup.pc = "wait"
    BY <1>4 DEF GiveUp
  <2>3. Held' /\ SupKnows' /\ OneWorker'
    BY <1>1, <2>1, <2>2 DEF Known, Held, SupKnows, OneWorker
  <2>4. KnownWorker'
    BY <1>1, <2>1, <2>2 DEF Known, KnownWorker
  <2> QED
    BY <2>3, <2>4 DEF Known
<1>5. CASE ForceDelete
  <2>1. /\ worker' = Killed(t, gen[t]) /\ UNCHANGED <<gen, handle>> /\ handle[t] = Null
        /\ sup.pc = "force" /\ sup' = Deleted
    BY <1>5 DEF ForceDelete, Known, SupKnows
  <2>2. worker'[t].pc = "dead" /\ \A s \in Tasks \ {t} : worker'[s] = worker[s]
    BY <1>1, <2>1, KilledPc
  <2> QED
    BY <2>1, <2>2, GoneKnown
<1>6. CASE CreateFails
  BY <1>6, SupMoves, CheckedPc DEF CreateFails
<1>7. CASE Create
  <2>1. sup'.pc = "adopt" /\ sup'.slot = t /\ sup'.to = gen[t] + 1
    BY <1>1, <1>7 DEF Create, Checks
  <2>2. /\ gen' = [gen EXCEPT ![t] = @ + 1] /\ worker' = [worker EXCEPT ![t] = NewWorker]
        /\ UNCHANGED handle /\ handle[t] = Null
    BY <1>7 DEF Create, Known, SupKnows
  <2>3. Held'
    BY <1>1, <2>2 DEF Known, Held, Null
  <2>4. SupKnows' /\ OneWorker'
    BY <1>1, <2>1, <2>2 DEF SupKnows, OneWorker
  <2>5. KnownWorker'
    BY <1>1, <1>7, <2>1, <2>2 DEF Create, Known, KnownWorker
  <2> QED
    BY <2>3, <2>4, <2>5 DEF Known
<1>8. CASE Adopt
  <2>1. sup'.pc = "kick" /\ sup.to = gen[t] /\ handle' = [handle EXCEPT ![t] = gen[t]]
        /\ UNCHANGED <<gen, worker>>
    BY <1>1, <1>8 DEF Adopt, Known, SupKnows, Checks
  <2>2. Held' /\ SupKnows' /\ OneWorker'
    BY <1>1, <2>1 DEF Known, Held, SupKnows, OneWorker
  <2>3. KnownWorker'
    BY <1>1, <1>8, <2>1 DEF Adopt, Known, KnownWorker
  <2> QED
    BY <2>2, <2>3 DEF Known
<1>9. CASE KickNew
  <2>1. /\ worker' = Notified(t, sup.to, "START") /\ UNCHANGED <<gen, handle>>
        /\ sup.pc = "kick" /\ sup'.pc = "idle"
    BY <1>9, CheckedPc DEF KickNew
  <2>2. \A s \in Tasks : worker'[s].pc = worker[s].pc
    BY <1>1, <2>1, NotifiedPc
  <2>3. Held' /\ SupKnows' /\ OneWorker'
    BY <2>1 DEF Known, Held, SupKnows, OneWorker
  <2>4. KnownWorker'
    BY <2>1, <2>2 DEF Known, KnownWorker
  <2> QED
    BY <2>3, <2>4 DEF Known
<1> QED
  BY <1>2, <1>3, <1>4, <1>5, <1>6, <1>7, <1>8, <1>9 DEF Resetting

LEMMA InitKnown == Init => Known
<1> SUFFICES ASSUME Init PROVE Known
  OBVIOUS
<1> QED
  BY DEF Init, Known, Held, SupKnows, KnownWorker, OneWorker, AtRest, Null

LEMMA PoolInvariant == Spec => [](Typed /\ Known)
<1>1. Init => Typed /\ Known
  BY InitTyped, InitKnown
<1>2. Typed /\ Known /\ [Next]_vars => (Typed /\ Known)'
  <2> SUFFICES ASSUME Typed, Known, [Next]_vars PROVE Typed' /\ Known'
    OBVIOUS
  <2>1. CASE UNCHANGED vars
    <3>1. Typed'
      BY <2>1 DEF Typed, TypeOK, Sending, vars
    <3> QED
      BY <2>1, <3>1, Quiet DEF vars
  <2>2. CASE Next
    <3>1. Typed'
      BY <2>2, WorkerTyped, ClientTyped, ManagerTyped, RegistrarTyped, SupervisorTyped DEF Next
    <3>2. Known'
      BY <2>2, WorkerKnown, ClientKnown, ManagerKnown, RegistrarKnown, WaitingKnown,
         CheckingKnown, ResettingKnown DEF Next, Supervisor
    <3> QED
      BY <3>1, <3>2
  <2> QED
    BY <2>1, <2>2
<1> QED
  BY <1>1, <1>2, PTL DEF Spec

(* No worker runs that its slot does not know, except while the supervisor  *)
(* deletes it or brings it up: tbox_reset_task, tbox_task_delete_task and   *)
(* the steps of tbox_task_check may meet every step of the worker itself    *)
(* and of the power manager.                                                *)
THEOREM WorkersKnown == Spec => []KnownWorker
<1>1. Typed /\ Known => KnownWorker
  BY DEF Known
<1> QED
  BY <1>1, PoolInvariant, PTL

(* tbox_reset_task creates a worker only after the one before it is gone.   *)
THEOREM OneWorkerOnly == Spec => []OneWorker
<1>1. Typed /\ Known => OneWorker
  BY DEF Known
<1> QED
  BY <1>1, PoolInvariant, PTL

-----------------------------------------------------------------------------
(* A slot that is stopped or being reset holds no message: the sections     *)
(* that set these states empty the queue, and the one that adds a message   *)
(* refuses when it finds them.                                              *)
Empties == {"STOP", "RECOVERING"}

LEMMA EmptySteps ==
  ASSUME Typed, StoppedIsEmpty, Next
  PROVE  StoppedIsEmpty'
<1>1. /\ state \in [Tasks -> States] /\ queue \in [Tasks -> Seq(Msgs)] /\ manager.at \in Tasks
      /\ sup.slot \in Tasks
  BY DEF Typed, TypeOK, Passes, Checks
<1>2. ASSUME UNCHANGED <<state, queue>> PROVE StoppedIsEmpty'
  BY <1>2 DEF StoppedIsEmpty
<1>3. ASSUME NEW t \in Tasks, UNCHANGED queue, NEW s, s \notin Empties,
             state' = [state EXCEPT ![t] = s]
      PROVE  StoppedIsEmpty'
  BY <1>1, <1>3 DEF StoppedIsEmpty, Empties
<1>4. ASSUME NEW t \in Tasks, queue' = [queue EXCEPT ![t] = <<>>],
             \A s \in Tasks \ {t} : state'[s] = state[s]
      PROVE  StoppedIsEmpty'
  BY <1>1, <1>4 DEF StoppedIsEmpty
<1>5. ASSUME NEW t \in Tasks, Worker(t) PROVE StoppedIsEmpty'
  <2>1. CASE Take(t)
    BY <1>1, <2>1 DEF Take, StoppedIsEmpty
  <2> QED
    BY <1>2, <1>3, <1>5, <2>1
       DEF Worker, Boot, Wake, Abandon, Rest, Finish, Quit, Empties
<1>6. ASSUME NEW c \in Clients, Client(c) PROVE StoppedIsEmpty'
  <2>1. CASE Add(c)
    BY <1>1, <2>1 DEF Add, Accepts, RunStates, StoppedIsEmpty
  <2> QED
    BY <1>2, <1>6, <2>1 DEF Client, SendDirect, SendPool, SelectIdle, SelectLight, NotifyMsg
<1>7. CASE Manager
  <2>1. CASE StartSlot \/ StopSlot
    <3>1. \/ UNCHANGED <<state, queue>>
          \/ /\ queue' = [queue EXCEPT ![manager.at] = <<>>]
             /\ \A s \in Tasks \ {manager.at} : state'[s] = state[s]
      BY <1>1, <2>1 DEF StartSlot, StopSlot
    <3> QED
      BY <1>1, <1>2, <1>4, <3>1
  <2>2. CASE KickSlot \/ HaltSlot
    BY <1>1, <1>2, <1>3, <2>2 DEF KickSlot, HaltSlot, Signal, Empties
  <2> QED
    BY <1>2, <1>7, <2>1, <2>2 DEF Manager, StartPool, StopPool, Call
<1>8. CASE Registrar
  BY <1>2, <1>4, <1>8 DEF Registrar, Attach, AttachSlot, Detach, still
<1>9. CASE Waiting
  <2>1. CASE HandleReport
    BY <1>1, <1>2, <1>4, <2>1, ReportClosed DEF Ignored, Close
  <2> QED
    BY <1>2, <1>9, <2>1 DEF Waiting, Pause, WakeToNone, Timeout
<1>10. CASE Checking
  BY <1>1, <1>2, <1>3, <1>10 DEF Checking, ReportBlocked, CheckedBlock, LookAt, FoundDeleted,
     FoundSmall, ReportSmall, FoundWell, Report, Empties
<1>11. CASE Resetting
  BY <1>1, <1>2, <1>3, <1>11 DEF Resetting, AskQuit, HasQuit, GiveUp, ForceDelete, CreateFails,
     Create, Adopt, KickNew, Empties
<1> QED
  BY <1>5, <1>6, <1>7, <1>8, <1>9, <1>10, <1>11 DEF Next, Supervisor

(* What waited in a slot when tbox_task_stop or tbox_reset_task closed it   *)
(* is not handled after the slot runs again.                                *)
THEOREM StoppedEmpty == Spec => []StoppedIsEmpty
<1>1. Init => StoppedIsEmpty
  BY DEF Init, StoppedIsEmpty
<1>2. Typed /\ StoppedIsEmpty /\ [Next]_vars => StoppedIsEmpty'
  BY EmptySteps DEF StoppedIsEmpty, vars
<1>3. Typed /\ Known => Typed
  OBVIOUS
<1> QED
  BY <1>1, <1>2, <1>3, PoolInvariant, PTL DEF Spec

-----------------------------------------------------------------------------
(* A slot is marked busy by the worker that enters its handler; only the    *)
(* death of that worker ends the handler without the mark, and then no      *)
(* other worker comes before the mark is taken away.                        *)

(* Steps that mark no slot busy, take no worker out of its handler but to   *)
(* kill it, and end no replacement.                                         *)
LEMMA BusyStays ==
  ASSUME BusyIsHandled,
         \A s \in Tasks :
           /\ state'[s] = "RUN_BUSY" => state[s] = "RUN_BUSY"
           /\ worker[s].pc \in {"handle", "dead"} => worker'[s].pc \in {worker[s].pc, "dead"}
           /\ Replacing(s) => Replacing(s)' \/ worker'[s].pc = "dead"
  PROVE  BusyIsHandled'
BY DEF BusyIsHandled

LEMMA WorkerBusy ==
  ASSUME Typed, BusyIsHandled, NEW t \in Tasks, Worker(t)
  PROVE  BusyIsHandled'
<1>1. worker \in [Tasks -> Workers] /\ state \in [Tasks -> States]
  BY DEF Typed, TypeOK
<1>2. UNCHANGED sup
  BY DEF Worker, Boot, Wake, Abandon, Rest, Take, Finish, Quit, others
<1>3. \A s \in Tasks \ {t} : worker'[s] = worker[s] /\ state'[s] = state[s]
  BY <1>1 DEF Worker, Boot, Wake, Abandon, Rest, Take, Finish, Quit
<1>4. state'[t] = "RUN_BUSY" => worker'[t].pc \in {"handle", "dead"} \/ Replacing(t)
  <2>1. CASE Take(t)
    BY <1>1, <2>1 DEF Take, Workers
  <2>2. CASE Finish(t)
    BY <1>1, <2>2 DEF Finish
  <2>3. CASE Boot(t) \/ Wake(t) \/ Abandon(t) \/ Rest(t) \/ Quit(t)
    <3>1. worker[t].pc \notin {"handle", "dead"}
      BY <2>3 DEF Boot, Wake, Abandon, Rest, Quit
    <3>2. state'[t] = "RUN_BUSY" => state[t] = "RUN_BUSY"
      BY <1>1, <2>3 DEF Boot, Wake, Abandon, Rest, Quit
    <3> QED
      BY <3>1, <3>2 DEF BusyIsHandled
  <2> QED
    BY <2>1, <2>2, <2>3 DEF Worker
<1> QED
  BY <1>2, <1>3, <1>4 DEF BusyIsHandled, Replacing

LEMMA ManagerBusy ==
  ASSUME Typed, BusyIsHandled, Manager
  PROVE  BusyIsHandled'
<1> DEFINE t == manager.at
<1>1. /\ worker \in [Tasks -> Workers] /\ state \in [Tasks -> States] /\ t \in Tasks
      /\ UNCHANGED sup
  BY DEF Typed, TypeOK, Passes, Manager, StartPool, StopPool, Call, StartSlot, StopSlot, KickSlot,
         HaltSlot, rest
<1>2. \A s \in Tasks : worker'[s].pc = worker[s].pc
  <2>1. CASE KickSlot \/ HaltSlot
    BY <1>1, <2>1, NotifiedPc DEF KickSlot, HaltSlot, Signal
  <2> QED
    BY <2>1 DEF Manager, StartPool, StopPool, Call, StartSlot, StopSlot
<1>3. \A s \in Tasks : state'[s] = "RUN_BUSY" => state[s] = "RUN_BUSY"
  BY <1>1 DEF Manager, StartPool, StopPool, Call, StartSlot, StopSlot, KickSlot, HaltSlot, Signal
<1> QED
  BY <1>1, <1>2, <1>3, BusyStays DEF Replacing

LEMMA SupervisorBusy ==
  ASSUME Typed, Known, BusyIsHandled, Supervisor
  PROVE  BusyIsHandled'
<1> DEFINE t == sup.slot
<1>1. /\ worker \in [Tasks -> Workers] /\ state \in [Tasks -> States] /\ sup \in Checks
      /\ t \in Tasks
  BY DEF Typed, TypeOK, Checks
<1>2. CASE Waiting
  <2>1. UNCHANGED worker /\ sup.pc = "idle"
    BY <1>2 DEF Waiting, Pause, WakeToNone, HandleReport, Timeout, Woken
  <2>2. \A s \in Tasks : state'[s] = "RUN_BUSY" => state[s] = "RUN_BUSY"
    <3>1. CASE HandleReport
      BY <1>1, <3>1, ReportClosed DEF Ignored, Close
    <3> QED
      BY <1>2, <3>1 DEF Waiting, Pause, WakeToNone, Timeout
  <2> QED
    BY <2>1, <2>2, BusyStays DEF Replacing
<1>3. CASE Checking
  <2>1. \A s \in Tasks : worker'[s] = worker[s] \/ worker'[s].pc = "dead"
    <3>1. CASE FoundSmall
      BY <1>1, <3>1, KilledPc DEF FoundSmall, Known, SupKnows
    <3> QED
      BY <1>3, <3>1 DEF Checking, ReportBlocked, CheckedBlock, LookAt, FoundDeleted, ReportSmall,
                        FoundWell
  <2>2. \A s \in Tasks : state'[s] = "RUN_BUSY" => state[s] = "RUN_BUSY"
    BY <1>1, <1>3 DEF Checking, ReportBlocked, CheckedBlock, LookAt, FoundDeleted, FoundSmall,
                      ReportSmall, FoundWell, Report
  <2>3. sup.pc \in {"block", "check", "look", "killed"}
    BY <1>3 DEF Checking, ReportBlocked, CheckedBlock, LookAt, FoundDeleted, FoundSmall,
                ReportSmall, FoundWell
  <2> QED
    BY <2>1, <2>2, <2>3, BusyStays DEF Replacing
<1>4. CASE AskQuit \/ HasQuit \/ GiveUp \/ ForceDelete
  <2>1. UNCHANGED state
    BY <1>4 DEF AskQuit, HasQuit, GiveUp, ForceDelete
  <2>2. \A s \in Tasks : worker'[s].pc \in {worker[s].pc, "dead"}
    BY <1>1, <1>4, NotifiedPc, KilledPc
       DEF AskQuit, HasQuit, GiveUp, ForceDelete, Known, SupKnows
  <2>3. (sup'.slot = t /\ sup'.pc \in {"wait", "force", "create"}) \/ worker'[t].pc = "dead"
    <3>1. CASE sup' = Deleted
      <4>1. CASE AskQuit
        <5>1. handle[t] = Null /\ UNCHANGED worker
          BY <1>1, <3>1, <4>1 DEF AskQuit, Deleted, AtRest, Checks
        <5> QED
          BY <1>1, <4>1, <5>1 DEF AskQuit, Known, Held, KnownWorker
      <4>2. CASE HasQuit
        BY <1>1, <4>2 DEF HasQuit, Known, Held, KnownWorker, Lives
      <4>3. CASE GiveUp
        BY <1>1, <3>1, <4>3 DEF GiveUp, Deleted, AtRest, Checks
      <4>4. CASE ForceDelete
        BY <1>1, <4>4, KilledPc DEF ForceDelete, Known, SupKnows
      <4> QED
        BY <1>4, <4>1, <4>2, <4>3, <4>4
    <3>2. CASE sup' # Deleted
      BY <1>1, <1>4, <3>2 DEF AskQuit, HasQuit, GiveUp, ForceDelete, Checks
    <3> QED
      BY <3>1, <3>2
  <2> QED
    BY <2>1, <2>2, <2>3, BusyStays DEF Replacing
<1>5. CASE CreateFails \/ Adopt
  <2>1. state'[t] # "RUN_BUSY" /\ UNCHANGED worker
        /\ \A s \in Tasks \ {t} : state'[s] = state[s]
    BY <1>1, <1>5 DEF CreateFails, Adopt
  <2> QED
    BY <2>1 DEF BusyIsHandled, Replacing
<1>6. CASE Create
  <2>1. sup'.pc = "adopt" /\ sup'.slot = t /\ UNCHANGED state
        /\ \A s \in Tasks \ {t} : worker'[s] = worker[s]
    BY <1>1, <1>6 DEF Create, Checks
  <2> QED
    BY <2>1 DEF BusyIsHandled, Replacing
<1>7. CASE KickNew
  BY <1>1, <1>7, NotifiedPc, BusyStays DEF KickNew, Replacing
<1> QED
  BY <1>2, <1>3, <1>4, <1>5, <1>6, <1>7 DEF Supervisor, Resetting

(* No idle slot is left marked busy, whoever stops, starts, resets or       *)
(* attaches it while its worker is in a handler.                            *)
THEOREM BusyHandled == Spec => []BusyIsHandled
<1>1. Init => BusyIsHandled
  BY DEF Init, BusyIsHandled
<1>2. (Typed /\ Known) /\ BusyIsHandled /\ [Next]_vars => BusyIsHandled'
  <2> SUFFICES ASSUME Typed, Known, BusyIsHandled, [Next]_vars PROVE BusyIsHandled'
    OBVIOUS
  <2>1. CASE UNCHANGED vars
    BY <2>1 DEF BusyIsHandled, Replacing, vars
  <2>2. ASSUME NEW c \in Clients, Client(c) PROVE BusyIsHandled'
    <3>1. UNCHANGED <<state, sup>>
      BY <2>2 DEF Client, SendDirect, SendPool, SelectIdle, SelectLight, Add, NotifyMsg, calm
    <3>2. \A s \in Tasks : worker'[s].pc = worker[s].pc
      BY <2>2, ClientPc
    <3> QED
      BY <3>1, <3>2, BusyStays DEF Replacing
  <2>3. CASE Registrar
    BY <2>3, BusyStays DEF Registrar, Attach, AttachSlot, Detach, still, Replacing
  <2> QED
    BY <2>1, <2>2, <2>3, WorkerBusy, ManagerBusy, SupervisorBusy DEF Next
<1> QED
  BY <1>1, <1>2, PoolInvariant, PTL DEF Spec
-----------------------------------------------------------------------------
(* The pool implements Delivery: what waits in a slot is its inbox, and the *)
(* message its worker has is its current one.  Accept asks for a message    *)
(* that is new to the pool, which takes an invariant about the messages in  *)
(* the clients' hands.                                                      *)
Queued(m) == \E t \in Tasks : \E i \in 1..Len(queue[t]) : queue[t][i] = m
Begun(m) == m \in served \/ Queued(m)
Carries(c, m) == client[c].pc \notin {"idle", "notify"} /\ client[c].msg = m

(* A message that was not sent yet, or that a client has in its hands, is   *)
(* new to the pool, and no two clients have the same.                       *)
Fresh ==
  /\ \A m \in unsent : ~Begun(m)
  /\ \A c \in Clients : \A m : Carries(c, m) => ~Begun(m) /\ m \notin unsent
  /\ \A c, d \in Clients : \A m : Carries(c, m) /\ Carries(d, m) => c = d

(* A worker has a message exactly while it handles one.                     *)
InHand == \A t \in Tasks : worker[t].pc = "handle" <=> worker[t].msg # NoMsg

(* Steps that keep Fresh: those that bring no message into a queue or a     *)
(* worker, and those of one client that leave queues and workers alone.     *)
LEMMA FreshStays ==
  ASSUME Fresh, UNCHANGED <<client, unsent>>, \A m : Begun(m)' => Begun(m)
  PROVE  Fresh'
BY DEF Fresh, Carries

LEMMA QueuesEmptied ==
  ASSUME Typed, Fresh, UNCHANGED <<client, unsent, served>>,
         \A t \in Tasks : queue'[t] \in {queue[t], <<>>}
  PROVE  Fresh'
<1>1. \A m : Begun(m)' => Begun(m)
  BY DEF Begun, Queued
<1> QED BY <1>1, FreshStays

LEMMA ClientFresh ==
  ASSUME Typed, Fresh, NEW c \in Clients, NEW r, UNCHANGED <<queue, served>>,
         client' = [client EXCEPT ![c] = r], unsent' \subseteq unsent,
         r.pc \notin {"idle", "notify"} =>
           \/ r.msg \in unsent \ unsent'
           \/ Carries(c, r.msg)
  PROVE  Fresh'
<1>1. client \in [Clients -> Sends]
  BY DEF Typed, TypeOK
<1>2. client'[c] = r /\ \A d \in Clients \ {c} : client'[d] = client[d]
  BY <1>1
<1>3. \A m : Begun(m)' <=> Begun(m)
  BY DEF Begun, Queued
<1>4. \A m \in unsent' : ~Begun(m)'
  BY <1>3 DEF Fresh
<1>5. ASSUME NEW d \in Clients, NEW m, Carries(d, m)'
      PROVE  ~Begun(m)' /\ m \notin unsent'
  <2>1. CASE d = c
    BY <1>2, <1>3, <1>5, <2>1 DEF Fresh, Carries
  <2>2. CASE d # c
    BY <1>2, <1>3, <1>5, <2>2 DEF Fresh, Carries
  <2> QED BY <2>1, <2>2
<1>6. ASSUME NEW d \in Clients, NEW e \in Clients, NEW m, Carries(d, m)', Carries(e, m)'
      PROVE  d = e
  BY <1>2, <1>6 DEF Fresh, Carries
<1> QED BY <1>4, <1>5, <1>6 DEF Fresh

(* The added message leaves the client's hands in the same step.            *)
LEMMA AddFresh ==
  ASSUME Typed, Fresh, NEW c \in Clients, Add(c)
  PROVE  Fresh'
<1> DEFINE me == client[c]
           t == me.best
<1>1. /\ client \in [Clients -> Sends] /\ queue \in [Tasks -> Seq(Msgs)]
      /\ t \in Tasks /\ Carries(c, me.msg)
  BY DEF Typed, TypeOK, Sending, Add, Carries
<1>2. UNCHANGED <<served, unsent>>
  BY DEF Add, calm
<1>3. CASE Accepts(t) /\ (me.pc = "add" => handle[t] # Null)
  <2>1. /\ queue' = [queue EXCEPT ![t] = Append(@, me.msg)]
        /\ client' = [client EXCEPT ![c] =
             [me EXCEPT !.pc = "notify", !.msg = NoMsg, !.to = handle[t]]]
    BY <1>3 DEF Add
  <2>2. client'[c].pc = "notify" /\ \A d \in Clients \ {c} : client'[d] = client[d]
    BY <1>1, <2>1 DEF Sends
  <2>3. ASSUME NEW m, m # me.msg, Begun(m)' PROVE Begun(m)
    <3> SUFFICES ASSUME NEW s \in Tasks, NEW i \in 1..Len(queue'[s]), queue'[s][i] = m
                 PROVE  Queued(m)
      BY <1>2, <2>3 DEF Begun, Queued
    <3>1. CASE s # t
      BY <1>1, <2>1, <3>1 DEF Queued
    <3>2. CASE s = t
      <4>1. queue'[s] = Append(queue[s], me.msg) /\ queue[s] \in Seq(Msgs)
        BY <1>1, <2>1, <3>2
      <4>2. i \in 1..Len(queue[s]) /\ queue[s][i] = m
        BY <1>1, <2>3, <4>1
      <4> QED BY <4>2 DEF Queued
    <3> QED BY <3>1, <3>2
  <2>4. \A d \in Clients : \A m : Carries(d, m)' => d # c /\ Carries(d, m)
    BY <2>2 DEF Carries
  <2>5. me.msg \notin unsent /\ \A d \in Clients \ {c} : ~Carries(d, me.msg)
    BY <1>1 DEF Fresh
  <2>6. \A m \in unsent' : ~Begun(m)'
    BY <1>2, <2>3, <2>5 DEF Fresh
  <2>7. ASSUME NEW d \in Clients, NEW m, Carries(d, m)' PROVE ~Begun(m)' /\ m \notin unsent'
    <3>1. m # me.msg /\ ~Begun(m) /\ m \notin unsent
      BY <2>4, <2>5, <2>7 DEF Fresh
    <3> QED BY <1>2, <2>3, <3>1
  <2>8. \A d, e \in Clients : \A m : Carries(d, m)' /\ Carries(e, m)' => d = e
    BY <2>4 DEF Fresh
  <2> QED BY <2>6, <2>7, <2>8 DEF Fresh
<1>4. CASE ~(Accepts(t) /\ (me.pc = "add" => handle[t] # Null))
  <2>1. client' = [client EXCEPT ![c] = NoSend] /\ UNCHANGED queue
    BY <1>4 DEF Add
  <2> QED BY <1>2, <2>1, ClientFresh DEF NoSend
<1> QED BY <1>3, <1>4

LEMMA ClientsFresh ==
  ASSUME Typed, Fresh, NEW c \in Clients, Client(c)
  PROVE  Fresh'
<1> DEFINE me == client[c]
<1>0. UNCHANGED served /\ client \in [Clients -> Sends] /\ me \in Sends
  BY DEF Client, SendDirect, SendPool, SelectIdle, SelectLight, Add, NotifyMsg, calm, Typed, TypeOK
<1>1. CASE SendDirect(c)
  <2>1. PICK m \in unsent, t \in Tasks :
          /\ client' = [client EXCEPT ![c] = [me EXCEPT !.pc = "add", !.best = t, !.msg = m]]
          /\ unsent' = unsent \ {m}
    BY <1>0, <1>1 DEF SendDirect
  <2>2. [me EXCEPT !.pc = "add", !.best = t, !.msg = m].msg = m
    BY <1>0 DEF Sends
  <2> QED BY <1>0, <1>1, <2>1, <2>2, ClientFresh DEF SendDirect
<1>2. CASE SendPool(c)
  <2>1. PICK m \in unsent, need \in Needs :
          /\ client' = [client EXCEPT ![c] = [me EXCEPT !.pc = "idlest", !.at = 0,
                                                        !.need = need, !.msg = m]]
          /\ unsent' = unsent \ {m}
    BY <1>0, <1>2 DEF SendPool
  <2>2. [me EXCEPT !.pc = "idlest", !.at = 0, !.need = need, !.msg = m].msg = m
    BY <1>0 DEF Sends
  <2> QED BY <1>0, <1>2, <2>1, <2>2, ClientFresh DEF SendPool
<1>3. CASE SelectIdle(c)
  <2>1. \E r : /\ client' = [client EXCEPT ![c] = r] /\ r.msg = me.msg
    <3> DEFINE t == me.at
    <3>1. /\ [me EXCEPT !.pc = "pooladd", !.best = t].msg = me.msg
          /\ [me EXCEPT !.at = t + 1].msg = me.msg
          /\ [me EXCEPT !.pc = "lightest", !.at = 0, !.best = NoTask,
                        !.load = QueueCap + 1].msg = me.msg
      BY <1>0 DEF Sends
    <3>2. client' = [client EXCEPT ![c] =
            IF state[t] = "RUN_IDLE" /\ Suits(c, t)
              THEN [me EXCEPT !.pc = "pooladd", !.best = t]
              ELSE IF t + 1 \in Tasks THEN [me EXCEPT !.at = t + 1]
              ELSE [me EXCEPT !.pc = "lightest", !.at = 0, !.best = NoTask,
                              !.load = QueueCap + 1]]
      BY <1>3 DEF SelectIdle
    <3> QED BY <3>1, <3>2
  <2>2. Carries(c, me.msg)
    BY <1>3 DEF SelectIdle, Carries
  <2> QED BY <1>0, <1>3, <2>1, <2>2, ClientFresh DEF SelectIdle
<1>4. CASE SelectLight(c)
  <2>1. \E r : /\ client' = [client EXCEPT ![c] = r] /\ (r.msg = me.msg \/ r.pc = "idle")
    <3> DEFINE t == me.at
               seen == IF state[t] \in RunStates /\ Suits(c, t) /\ me.load > Len(queue[t])
                       THEN [me EXCEPT !.best = t, !.load = Len(queue[t])] ELSE me
    <3>1. seen.msg = me.msg /\ [seen EXCEPT !.at = t + 1].msg = me.msg
          /\ [seen EXCEPT !.pc = "pooladd"].msg = me.msg
      BY <1>0 DEF Sends
    <3>2. NoSend.pc = "idle"
      BY DEF NoSend
    <3>3. client' = [client EXCEPT ![c] =
            IF t + 1 \in Tasks THEN [seen EXCEPT !.at = t + 1]
            ELSE IF seen.best = NoTask THEN NoSend ELSE [seen EXCEPT !.pc = "pooladd"]]
      BY <1>4 DEF SelectLight
    <3> HIDE DEF seen
    <3> QED BY <3>1, <3>2, <3>3
  <2>2. Carries(c, me.msg)
    BY <1>4 DEF SelectLight, Carries
  <2> QED BY <1>0, <1>4, <2>1, <2>2, ClientFresh DEF SelectLight
<1>5. CASE Add(c)
  BY <1>5, AddFresh
<1>6. CASE NotifyMsg(c)
  BY <1>0, <1>6, ClientFresh DEF NotifyMsg, NoSend
<1> QED BY <1>1, <1>2, <1>3, <1>4, <1>5, <1>6 DEF Client

(* Steps of the pool as steps of Delivery: none, Drop, and End.             *)
LEMMA Idles ==
  ASSUME UNCHANGED <<queue, served>>, \A s \in Tasks : worker'[s].msg = worker[s].msg
  PROVE  UNCHANGED delivery!vars
BY DEF delivery!vars

LEMMA Drops ==
  ASSUME Typed, NEW t \in Tasks, queue' = [queue EXCEPT ![t] = <<>>], UNCHANGED served,
         \A s \in Tasks : worker'[s].msg = worker[s].msg
  PROVE  delivery!Next
BY DEF delivery!Next, delivery!Drop

(* A worker that is deleted ends what it handled.                           *)
LEMMA Ends ==
  ASSUME Typed, InHand, NEW t \in Tasks, UNCHANGED <<queue, served>>,
         worker'[t].msg = NoMsg, \A s \in Tasks \ {t} : worker'[s].msg = worker[s].msg
  PROVE  delivery!Next \/ UNCHANGED delivery!vars
<1>1. CASE worker[t].msg = NoMsg
  BY <1>1, Idles
<1>2. CASE worker[t].msg # NoMsg
  <2>1. [s \in Tasks |-> worker'[s].msg] = [[s \in Tasks |-> worker[s].msg] EXCEPT ![t] = NoMsg]
    OBVIOUS
  <2> QED BY <1>2, <2>1 DEF delivery!Next, delivery!End
<1> QED BY <1>1, <1>2

(* A notification keeps the message a worker has; a deletion takes it.      *)
LEMMA NotifiedMsg ==
  ASSUME worker \in [Tasks -> Workers], NEW t \in Tasks, NEW h, NEW bit
  PROVE  \A s \in Tasks : Notified(t, h, bit)[s].msg = worker[s].msg
  BY DEF Notified, Workers

LEMMA KilledMsg ==
  ASSUME worker \in [Tasks -> Workers], NEW t \in Tasks, NEW h
  PROVE  \/ Killed(t, h) = worker
         \/ /\ Killed(t, h)[t].msg = NoMsg /\ Killed(t, h)[t].pc = "dead"
            /\ \A s \in Tasks \ {t} : Killed(t, h)[s] = worker[s]
  BY DEF Killed, Workers

(* Taking a message is Begin, and no new message is in a queue after it.    *)
LEMMA TakeBegins ==
  ASSUME Typed, InHand, NEW t \in Tasks, Take(t)
  PROVE  delivery!Next
<1>1. queue \in [Tasks -> Seq(Msgs)] /\ worker \in [Tasks -> Workers]
  BY DEF Typed, TypeOK
<1>2. worker[t].msg = NoMsg
  BY DEF InHand, Take
<1>3. /\ queue[t] # <<>> /\ queue' = [queue EXCEPT ![t] = Tail(@)]
      /\ served' = served \cup {Head(queue[t])}
      /\ worker' = [worker EXCEPT ![t].pc = "handle", ![t].msg = Head(queue[t])]
  BY DEF Take
<1>4. [s \in Tasks |-> worker'[s].msg] = [[s \in Tasks |-> worker[s].msg] EXCEPT ![t] = Head(queue[t])]
  BY <1>1, <1>3 DEF Workers
<1> QED BY <1>2, <1>3, <1>4 DEF delivery!Next, delivery!Begin

LEMMA TakeFresh ==
  ASSUME Typed, Fresh, NEW t \in Tasks, Take(t)
  PROVE  Fresh'
<1>1. queue \in [Tasks -> Seq(Msgs)]
  BY DEF Typed, TypeOK
<1>2. /\ queue[t] # <<>> /\ queue' = [queue EXCEPT ![t] = Tail(@)]
      /\ served' = served \cup {Head(queue[t])} /\ UNCHANGED <<client, unsent>>
  BY DEF Take, others
<1>3. queue[t] \in Seq(Msgs) /\ 1 \in 1..Len(queue[t]) /\ Head(queue[t]) = queue[t][1]
  BY <1>1, <1>2
<1>4. Queued(Head(queue[t]))
  BY <1>3 DEF Queued
<1>5. ASSUME NEW m, NEW s \in Tasks, NEW i \in 1..Len(queue'[s]), queue'[s][i] = m
      PROVE  Queued(m)
  <2>1. CASE s # t
    BY <1>1, <1>2, <1>5, <2>1 DEF Queued
  <2>2. CASE s = t
    <3>1. queue'[s] = Tail(queue[t])
      BY <1>1, <1>2, <2>2
    <3>2. i + 1 \in 1..Len(queue[t]) /\ queue[t][i + 1] = m
      BY <1>3, <1>5, <3>1
    <3> QED BY <3>2 DEF Queued
  <2> QED BY <2>1, <2>2
<1>6. \A m : Begun(m)' => Begun(m)
  BY <1>2, <1>4, <1>5 DEF Begun, Queued
<1> QED BY <1>2, <1>6, FreshStays

(* A worker's step.                                                         *)
LEMMA WorkerDelivers ==
  ASSUME Typed, Fresh, InHand, NEW t \in Tasks, Worker(t)
  PROVE  Fresh' /\ InHand' /\ (delivery!Next \/ UNCHANGED delivery!vars)
<1>1. worker \in [Tasks -> Workers] /\ queue \in [Tasks -> Seq(Msgs)]
  BY DEF Typed, TypeOK
<1>2. CASE Take(t)
  <2>1. Head(queue[t]) \in Msgs
    BY <1>1, <1>2 DEF Take
  <2>2. InHand'
    BY <1>1, <1>2, <2>1, PoolAssumption DEF InHand, Take, Workers
  <2> QED BY <1>2, <2>2, TakeFresh, TakeBegins
<1>3. CASE Finish(t)
  <2>1. /\ worker'[t].msg = NoMsg /\ worker'[t].pc = "loop"
        /\ \A s \in Tasks \ {t} : worker'[s] = worker[s]
    BY <1>1, <1>3 DEF Finish, Workers
  <2>2. UNCHANGED <<queue, served, client, unsent>>
    BY <1>3 DEF Finish, others
  <2>3. InHand'
    BY <2>1 DEF InHand
  <2> QED BY <2>1, <2>2, <2>3, QueuesEmptied, Ends
<1>4. CASE Boot(t) \/ Wake(t) \/ Abandon(t) \/ Rest(t) \/ Quit(t)
  <2>1. UNCHANGED <<queue, served, client, unsent>>
    BY <1>4 DEF Boot, Wake, Abandon, Rest, Quit, others
  <2>2. /\ worker[t].pc # "handle" /\ worker'[t].pc # "handle"
        /\ worker'[t].msg = worker[t].msg
        /\ \A s \in Tasks \ {t} : worker'[s] = worker[s]
    BY <1>1, <1>4 DEF Boot, Wake, Abandon, Rest, Quit, Workers
  <2>3. InHand' /\ \A s \in Tasks : worker'[s].msg = worker[s].msg
    BY <2>2 DEF InHand
  <2> QED BY <2>1, <2>3, QueuesEmptied, Idles
<1> QED BY <1>2, <1>3, <1>4 DEF Worker

(* A client's step.                                                         *)
LEMMA ClientDelivers ==
  ASSUME Typed, Fresh, InHand, NEW c \in Clients, Client(c)
  PROVE  Fresh' /\ InHand' /\ (delivery!Next \/ UNCHANGED delivery!vars)
<1>1. worker \in [Tasks -> Workers] /\ queue \in [Tasks -> Seq(Msgs)]
  BY DEF Typed, TypeOK
<1>2. /\ \A s \in Tasks : worker'[s].msg = worker[s].msg
      /\ \A s \in Tasks : worker'[s].pc = worker[s].pc
  <2>1. CASE NotifyMsg(c)
    <3>1. client[c].best \in Tasks
      BY <2>1 DEF NotifyMsg, Typed, Sending
    <3> QED BY <1>1, <2>1, <3>1, NotifiedMsg, NotifiedPc DEF NotifyMsg
  <2>2. CASE UNCHANGED worker
    BY <2>2
  <2> QED BY <2>1, <2>2 DEF Client, SendDirect, SendPool, SelectIdle, SelectLight, Add
<1>3. InHand'
  BY <1>2 DEF InHand
<1>4. Fresh' /\ UNCHANGED served
  BY ClientsFresh DEF Client, SendDirect, SendPool, SelectIdle, SelectLight, Add, NotifyMsg, calm
<1>5. delivery!Next \/ UNCHANGED delivery!vars
  <2> DEFINE t == client[c].best
             m == client[c].msg
  <2>1. CASE Add(c) /\ Accepts(t) /\ (client[c].pc = "add" => handle[t] # Null)
    <3>1. queue' = [queue EXCEPT ![t] = Append(@, m)]
      BY <2>1 DEF Add
    <3>2. t \in Tasks /\ m \in Msgs /\ Carries(c, m)
      BY <2>1 DEF Add, Carries, Typed, Sending
    <3>3. m \notin served \cup delivery!Waiting
      <4>1. ~Begun(m)
        BY <3>2 DEF Fresh
      <4>2. \A s \in Tasks : DOMAIN queue[s] = 1..Len(queue[s])
        BY <1>1
      <4> QED BY <4>1, <4>2 DEF Begun, Queued, delivery!Waiting
    <3>4. [s \in Tasks |-> worker'[s].msg] = [s \in Tasks |-> worker[s].msg]
      BY <1>2
    <3> QED BY <1>4, <3>1, <3>2, <3>3, <3>4 DEF delivery!Next, delivery!Accept
  <2>2. CASE UNCHANGED queue
    BY <1>2, <1>4, <2>2, Idles
  <2> QED BY <2>1, <2>2 DEF Client, SendDirect, SendPool, SelectIdle, SelectLight, Add, NotifyMsg
<1> QED BY <1>3, <1>4, <1>5

(* What the manager, the registrar and the supervisor do to the queues and  *)
(* workers: they empty a queue, or end a worker, or neither.                *)
LEMMA OthersDeliver ==
  ASSUME Typed, Fresh, InHand, UNCHANGED <<served, client, unsent>>,
         \/ /\ UNCHANGED queue \/ \E t \in Tasks : queue' = [queue EXCEPT ![t] = <<>>]
            /\ \A s \in Tasks : worker'[s].msg = worker[s].msg /\ worker'[s].pc = worker[s].pc
         \/ /\ UNCHANGED queue
            /\ \E t \in Tasks : /\ worker'[t].msg = NoMsg /\ worker'[t].pc # "handle"
                                /\ \A s \in Tasks \ {t} : worker'[s] = worker[s]
  PROVE  Fresh' /\ InHand' /\ (delivery!Next \/ UNCHANGED delivery!vars)
<1>1. queue \in [Tasks -> Seq(Msgs)]
  BY DEF Typed, TypeOK
<1>2. \A t \in Tasks : queue'[t] \in {queue[t], <<>>}
  BY <1>1
<1>3. Fresh'
  BY <1>2, QueuesEmptied
<1>4. InHand'
  BY DEF InHand
<1>5. delivery!Next \/ UNCHANGED delivery!vars
  BY Idles, Drops, Ends
<1> QED BY <1>3, <1>4, <1>5

(* The steps of the power manager, the registrar and the supervisor.        *)
LEMMA ManagerDelivers ==
  ASSUME Typed, Fresh, InHand, Manager
  PROVE  Fresh' /\ InHand' /\ (delivery!Next \/ UNCHANGED delivery!vars)
<1>1. worker \in [Tasks -> Workers] /\ manager.at \in Tasks
  BY DEF Typed, TypeOK, Passes
<1>2. UNCHANGED <<served, client, unsent>>
  BY DEF Manager, StartPool, StopPool, Call, StartSlot, StopSlot, KickSlot, HaltSlot, rest
<1>3. UNCHANGED queue \/ queue' = [queue EXCEPT ![manager.at] = <<>>]
  BY DEF Manager, StartPool, StopPool, Call, StartSlot, StopSlot, KickSlot, HaltSlot
<1>4. \A s \in Tasks : worker'[s].msg = worker[s].msg /\ worker'[s].pc = worker[s].pc
  <2>1. CASE KickSlot \/ HaltSlot
    BY <1>1, <2>1, NotifiedMsg, NotifiedPc DEF KickSlot, HaltSlot, Signal
  <2> QED
    BY <2>1 DEF Manager, StartPool, StopPool, Call, StartSlot, StopSlot
<1> QED
  BY <1>1, <1>2, <1>3, <1>4, OthersDeliver

LEMMA RegistrarDelivers ==
  ASSUME Typed, Fresh, InHand, Registrar
  PROVE  Fresh' /\ InHand' /\ (delivery!Next \/ UNCHANGED delivery!vars)
<1>1. UNCHANGED <<worker, served, client, unsent>>
  BY DEF Registrar, Attach, AttachSlot, Detach, still
<1>2. UNCHANGED queue \/ \E t \in Tasks : queue' = [queue EXCEPT ![t] = <<>>]
  BY DEF Registrar, Attach, AttachSlot, Detach
<1> QED
  BY <1>1, <1>2, OthersDeliver

LEMMA SupervisorDelivers ==
  ASSUME Typed, Fresh, InHand, Supervisor
  PROVE  Fresh' /\ InHand' /\ (delivery!Next \/ UNCHANGED delivery!vars)
<1>1. worker \in [Tasks -> Workers] /\ sup.slot \in Tasks
  BY DEF Typed, TypeOK, Checks
<1>2. UNCHANGED <<served, client, unsent>>
  BY DEF Supervisor, Waiting, Pause, WakeToNone, HandleReport, Timeout,
         Checking, ReportBlocked, CheckedBlock, LookAt, FoundDeleted, FoundSmall, ReportSmall,
         FoundWell, Resetting, AskQuit, HasQuit, GiveUp, ForceDelete, CreateFails, Create,
         Adopt, KickNew, aside
<1>3. CASE HandleReport
  <2>1. UNCHANGED queue \/ \E t \in Tasks : queue' = [queue EXCEPT ![t] = <<>>]
    BY <1>3, ReportClosed DEF Ignored, Close
  <2> QED
    BY <1>2, <1>3, <2>1, OthersDeliver DEF HandleReport
<1>4. CASE UNCHANGED <<queue, worker>>
  BY <1>2, <1>4, OthersDeliver
<1>5. CASE AskQuit \/ KickNew
  <2>1. /\ UNCHANGED queue
        /\ \A s \in Tasks : worker'[s].msg = worker[s].msg /\ worker'[s].pc = worker[s].pc
    BY <1>1, <1>5, NotifiedMsg, NotifiedPc DEF AskQuit, KickNew
  <2> QED
    BY <1>2, <2>1, OthersDeliver
<1>6. CASE FoundSmall \/ ForceDelete
  <2>1. UNCHANGED queue /\ worker' = Killed(sup.slot, sup.to)
    BY <1>6 DEF FoundSmall, ForceDelete
  <2>2. \/ UNCHANGED worker
        \/ /\ worker'[sup.slot].msg = NoMsg /\ worker'[sup.slot].pc = "dead"
           /\ \A s \in Tasks \ {sup.slot} : worker'[s] = worker[s]
    BY <1>1, <2>1, KilledMsg
  <2> QED
    BY <1>1, <1>2, <2>1, <2>2, OthersDeliver
<1>7. CASE Create
  <2>1. UNCHANGED queue /\ worker' = [worker EXCEPT ![sup.slot] = NewWorker]
    BY <1>7 DEF Create
  <2>2. /\ worker'[sup.slot].msg = NoMsg /\ worker'[sup.slot].pc # "handle"
        /\ \A s \in Tasks \ {sup.slot} : worker'[s] = worker[s]
    BY <1>1, <2>1 DEF NewWorker
  <2> QED
    BY <1>1, <1>2, <2>1, <2>2, OthersDeliver
<1> QED
  BY <1>3, <1>4, <1>5, <1>6, <1>7
     DEF Supervisor, Waiting, Pause, WakeToNone, Timeout,
         Checking, ReportBlocked, CheckedBlock, LookAt, FoundDeleted, ReportSmall,
         FoundWell, Resetting, HasQuit, GiveUp, CreateFails, Adopt

(* The pool keeps the promise of Delivery, whatever the clients send and    *)
(* whatever the manager, the registrar and the supervisor do to the slots   *)
(* meanwhile: a task handles what it accepted in order and one at a time,   *)
(* no message is handled twice, and what waits is lost all together only.   *)
THEOREM PoolDelivers == Spec => IsDelivery
<1>1. Init => Fresh /\ InHand /\ delivery!Init
  <2> SUFFICES ASSUME Init PROVE Fresh /\ InHand /\ delivery!Init
    OBVIOUS
  <2>1. \A m : ~Begun(m)
    BY DEF Init, Begun, Queued
  <2>2. \A c \in Clients : \A m : ~Carries(c, m)
    BY DEF Init, Carries, NoSend
  <2>3. \A t \in Tasks : worker[t].pc = "boot" /\ worker[t].msg = NoMsg
    BY DEF Init, NewWorker
  <2>4. delivery!Init
    BY <2>3 DEF Init, delivery!Init
  <2> QED
    BY <2>1, <2>2, <2>3, <2>4 DEF Fresh, InHand
<1>2. Typed /\ Known /\ Fresh /\ InHand /\ [Next]_vars
        => (Fresh /\ InHand)' /\ [delivery!Next]_(delivery!vars)
  <2> SUFFICES ASSUME Typed, Fresh, InHand, [Next]_vars
               PROVE  Fresh' /\ InHand' /\ (delivery!Next \/ UNCHANGED delivery!vars)
    OBVIOUS
  <2>1. CASE UNCHANGED vars
    <3>1. UNCHANGED <<queue, worker, served, client, unsent>>
      BY <2>1 DEF vars
    <3> QED
      BY <3>1, OthersDeliver
  <2>2. CASE Next
    BY <2>2, WorkerDelivers, ClientDelivers, ManagerDelivers, RegistrarDelivers,
       SupervisorDelivers DEF Next
  <2> QED
    BY <2>1, <2>2
<1> QED
  BY <1>1, <1>2, PoolInvariant, PTL DEF Spec, IsDelivery, delivery!Spec
=============================================================================

------------------------------ MODULE TaskPool ------------------------------
(***************************************************************************)
(* The message task pool of src/src/core/tbox_task.c.  A slot is an entry  *)
(* of tbox_task_infos: a state, a message queue, a module it may be        *)
(* attached to, and the handle of its worker, a FreeRTOS task that runs    *)
(* tbox_task_process.  Four kinds of other tasks act on the slots:         *)
(*   - clients add messages, to the slot of an attached module or to the   *)
(*     slot the pool selects (tbox_task_add_msg, tbox_taskpool_add_msg);   *)
(*   - the power manager starts and stops the pool (tbox_task_start and    *)
(*     tbox_task_stop, called by tbox_core_start and tbox_core_stop);      *)
(*   - the registrar attaches and detaches modules;                        *)
(*   - the supervisor looks for workers that died or have little stack     *)
(*     left, and resets, expends or forbids slots.                         *)
(* Each section under a slot's mutex is one action; a FreeRTOS call        *)
(* outside of the mutex (create, delete, notify, wait) is another, unless  *)
(* its comment says why it is joined to its neighbour.                     *)
(* The queue holds whole messages: CQueue shows that the byte queue below  *)
(* it gives back what was put in, and adding puts header and data under    *)
(* one lock.                                                               *)
(***************************************************************************)
EXTENDS Integers, Sequences, FiniteSets

CONSTANTS NSmall, NMedium, NLarge,   \* TBOX_TASK_{SMALL,MEDIUM,LARGER}_SIZE_NUM
          Modules, NoModule,         \* module ids, TBOX_ID_INVALID
          Clients,                   \* tasks that send messages
          Msgs, NoMsg,               \* messages, each sent at most once
          Needs,                     \* stack sizes the modules registered with
          QueueCap,                  \* messages that fit in a queue
          ReportCap,                 \* reports that fit in the supervisor's queue
          MaxGen,                    \* bound: workers per slot, see Spare
          MaxStarts,                 \* bound: calls of tbox_task_start
          MaxBlocked,                \* bound: reports of a blocked task
          MaxAttach,                 \* bound: calls of tbox_task_attach
          Policies,                  \* values of abnormal_process in use
          AllocMayFail,              \* tbox_memory_alloc may fail in a worker
          CreateMayFail,             \* xTaskCreate may fail in a reset
          StackMayShrink             \* high-water marks may be low

Small  == 1      \* TBOX_TASK_SMALL_STACK_SIZE
Medium == 2      \* TBOX_TASK_MEDIUM_STACK_SIZE
Large  == 3      \* TBOX_TASK_LARGE_STACK_SIZE
Sizes  == {Small, Medium, Large}

Tasks  == 0..(NSmall + NMedium + NLarge - 1)
NoTask == -1                             \* TBOX_ID_INVALID
Null   == 0                              \* NULL_PTR; workers count from 1

ASSUME PoolAssumption ==
  /\ NSmall \in Nat /\ NMedium \in Nat /\ NLarge \in Nat
  /\ NSmall + NMedium + NLarge > 0
  /\ NoModule \notin Modules /\ NoMsg \notin Msgs
  /\ Needs \subseteq Sizes
  /\ QueueCap \in Nat \ {0} /\ ReportCap \in Nat
  /\ MaxGen \in Nat \ {0} /\ MaxStarts \in Nat
  /\ MaxBlocked \in Nat /\ MaxAttach \in Nat
  /\ Policies \subseteq {"WARNING", "RESET", "FORBID"}
  /\ {AllocMayFail, CreateMayFail, StackMayShrink} \subseteq BOOLEAN

VARIABLES state,     \* tbox_task_infos[t].state
          handle,    \* .handle: which worker of the slot, or Null
          module,    \* .module_id
          stack,     \* .stack_size
          queue,     \* .msg_queue
          gen,       \* number of workers created for the slot so far
          worker,    \* the latest worker of the slot
          client,    \* the calls of the clients
          manager,   \* the power manager's call
          registrar, \* the registrar's call
          sup,       \* the supervisor's call
          event,     \* its notifications, and whether it waits with a timeout
          reports,   \* exceptions reported and not yet handled
          blocked,   \* number of blocked reports so far
          unsent,    \* messages no client has tried to send yet
          served     \* messages taken by a worker

slots == <<state, handle, module, stack, queue>>
vars  == <<state, handle, module, stack, queue, gen, worker, client, manager,
           registrar, sup, event, reports, blocked, unsent, served>>

RunStates  == {"RUN_IDLE", "RUN_BUSY"}
QuitStates == {"ISFORBIDDEN", "RECOVERING", "ABNORMAL"}   \* and NO_INIT
States     == {"STOP"} \cup RunStates \cup QuitStates
Bits       == {"START", "QUIT", "STOP", "MSG"}
SupBits    == {"START", "STOP", "REPORT"}

WorkerPcs == {"boot", "wait", "loop", "handle", "quit", "dead"}
ClientPcs == {"idle", "idlest", "lightest", "add", "pooladd", "notify"}
ManagerPcs == {"stopped", "start", "kick", "started", "stop", "halt"}
SupPcs == {"idle", "block", "check", "look", "killed", "delete", "wait", "force", "create",
           "adopt", "kick"}

Workers  == [pc : WorkerPcs, bits : SUBSET Bits, poll : BOOLEAN, msg : Msgs \cup {NoMsg}]
Sends    == [pc : ClientPcs, at : Tasks, best : Tasks \cup {NoTask}, load : Nat,
             need : Sizes, msg : Msgs \cup {NoMsg}, to : Nat]
Passes   == [pc : ManagerPcs, at : Tasks, starts : Nat]
Attaches == [mod : Modules \cup {NoModule}, at : Tasks, need : Sizes, calls : Nat]
Checks   == [pc : SupPcs, slot : Tasks, to : Nat, renew : BOOLEAN]
Events   == [bits : SUBSET SupBits, poll : BOOLEAN]
Reports  == [kind : {"TASK_DELETED", "TASKSTACK_SMALL", "TASK_BLOCKED"}, slot : Tasks]

(* eTaskGetState: worker h of slot t exists and is not deleted. *)
Lives(t, h) == h = gen[t] /\ worker[t].pc # "dead"

(* xTaskNotify(h, bit, eSetBits). *)
Notified(t, h, bit) ==
  IF Lives(t, h) THEN [worker EXCEPT ![t].bits = @ \cup {bit}] ELSE worker

(* vTaskDelete(h) of a worker that may be anywhere in tbox_task_process. *)
Killed(t, h) ==
  IF Lives(t, h) THEN [worker EXCEPT ![t].pc = "dead", ![t].msg = NoMsg] ELSE worker

(* A worker may be created for each report and for one event more: the     *)
(* bound never keeps the supervisor from creating one.                     *)
Spare(t) ==
  gen[t] + Cardinality({i \in DOMAIN reports : reports[i].slot = t}) < MaxGen

NewWorker == [pc |-> "boot", bits |-> {}, poll |-> FALSE, msg |-> NoMsg]

(* No call in progress. *)
NoSend == [pc |-> "idle", at |-> 0, best |-> NoTask, load |-> 0, need |-> Small,
           msg |-> NoMsg, to |-> Null]
AtRest == [pc |-> "idle", slot |-> 0, to |-> Null, renew |-> FALSE]

InitStack(t) == IF t < NSmall THEN Small
                ELSE IF t < NSmall + NMedium THEN Medium ELSE Large

(* After tbox_task_init: the slots are stopped, their workers created. *)
Init ==
  /\ state = [t \in Tasks |-> "STOP"]
  /\ handle = [t \in Tasks |-> 1]
  /\ module = [t \in Tasks |-> NoModule]
  /\ stack = [t \in Tasks |-> InitStack(t)]
  /\ queue = [t \in Tasks |-> <<>>]
  /\ gen = [t \in Tasks |-> 1]
  /\ worker = [t \in Tasks |-> NewWorker]
  /\ client = [c \in Clients |-> NoSend]
  /\ manager = [pc |-> "stopped", at |-> 0, starts |-> 0]
  /\ registrar = [mod |-> NoModule, at |-> 0, need |-> Small, calls |-> 0]
  /\ sup = AtRest
  /\ event = [bits |-> {}, poll |-> FALSE]
  /\ reports = <<>>
  /\ blocked = 0
  /\ unsent = Msgs
  /\ served = {}

-----------------------------------------------------------------------------
(* tbox_task_process: the worker of slot t.                                *)

others == <<module, stack, gen, client, manager, registrar, sup, event, reports,
            blocked, unsent>>

(* The worker's data buffer: without it the worker leaves its slot. *)
Boot(t) ==
  /\ worker[t].pc = "boot"
  /\ \/ /\ worker' = [worker EXCEPT ![t].pc = "wait"]
        /\ UNCHANGED <<state, handle>>
     \/ /\ AllocMayFail /\ Spare(t)
        /\ worker' = [worker EXCEPT ![t].pc = "dead"]
        /\ handle' = [handle EXCEPT ![t] = Null]
        /\ state' = [state EXCEPT ![t] = "ABNORMAL"]
  /\ UNCHANGED <<queue, served>> /\ UNCHANGED others

(* Wrong: a stop that came with a message makes the worker wait again      *)
(* before it looks at its queue.                                           *)
WakeToStop(t) ==
  LET me == worker[t]
  IN  /\ me.pc = "wait"
      /\ me.bits # {} \/ me.poll
      /\ worker' = [worker EXCEPT
           ![t] = [pc |-> IF "QUIT" \in me.bits THEN "quit"
                          ELSE IF "STOP" \in me.bits THEN "wait" ELSE "loop",
                   bits |-> {}, msg |-> me.msg,
                   poll |-> "STOP" \notin me.bits /\ ("START" \in me.bits \/ me.poll)]]
      /\ UNCHANGED <<state, handle, queue, served>> /\ UNCHANGED others

(* xTaskNotifyWait returns with the bits set so far, or at the timeout     *)
(* once the worker was started; it clears the bits.                        *)
Wake(t) ==
  LET me == worker[t]
  IN  /\ me.pc = "wait"
      /\ me.bits # {} \/ me.poll
      /\ worker' = [worker EXCEPT
           ![t] = [pc |-> IF "QUIT" \in me.bits THEN "quit" ELSE "loop",
                   bits |-> {}, msg |-> me.msg,
                   poll |-> "STOP" \notin me.bits /\ ("START" \in me.bits \/ me.poll)]]
      /\ UNCHANGED <<state, handle, queue, served>> /\ UNCHANGED others

(* The section under the mutex at the head of the message loop: leave the  *)
(* slot, go back to wait, or take a message.                               *)
Abandon(t) ==
  /\ worker[t].pc = "loop"
  /\ state[t] \in QuitStates
  /\ handle' = [handle EXCEPT ![t] = Null]
  /\ state' = [state EXCEPT ![t] = "ABNORMAL"]
  /\ worker' = [worker EXCEPT ![t].pc = "dead"]
  /\ UNCHANGED <<queue, served>> /\ UNCHANGED others

Rest(t) ==
  /\ worker[t].pc = "loop"
  /\ state[t] = "STOP" \/ (state[t] \in RunStates /\ queue[t] = <<>>)
  /\ worker' = [worker EXCEPT ![t].pc = "wait"]
  /\ UNCHANGED <<state, handle, queue, served>> /\ UNCHANGED others

(* Wrong: the message is read but stays in the queue while it is handled.  *)
TakeLeaves(t) ==
  /\ worker[t].pc = "loop"
  /\ state[t] \in RunStates
  /\ queue[t] # <<>>
  /\ state' = [state EXCEPT ![t] = "RUN_BUSY"]
  /\ worker' = [worker EXCEPT ![t].pc = "handle", ![t].msg = Head(queue[t])]
  /\ served' = served \cup {Head(queue[t])}
  /\ UNCHANGED <<handle, queue>> /\ UNCHANGED others

Take(t) ==
  /\ worker[t].pc = "loop"
  /\ state[t] \in RunStates
  /\ queue[t] # <<>>
  /\ queue' = [queue EXCEPT ![t] = Tail(@)]
  /\ state' = [state EXCEPT ![t] = "RUN_BUSY"]
  /\ worker' = [worker EXCEPT ![t].pc = "handle", ![t].msg = Head(queue[t])]
  /\ served' = served \cup {Head(queue[t])}
  /\ UNCHANGED handle /\ UNCHANGED others

(* Wrong: the slot stays busy after the handler returned.                  *)
FinishBusy(t) ==
  /\ worker[t].pc = "handle"
  /\ worker' = [worker EXCEPT ![t].pc = "loop", ![t].msg = NoMsg]
  /\ UNCHANGED <<state, handle, queue, served>> /\ UNCHANGED others

(* The handler returned: whatever happened to the slot meanwhile, its      *)
(* state becomes RUN_IDLE.                                                 *)
Finish(t) ==
  /\ worker[t].pc = "handle"
  /\ state' = [state EXCEPT ![t] = "RUN_IDLE"]
  /\ worker' = [worker EXCEPT ![t].pc = "loop", ![t].msg = NoMsg]
  /\ UNCHANGED <<handle, queue, served>> /\ UNCHANGED others

Quit(t) ==
  /\ worker[t].pc = "quit"
  /\ handle' = [handle EXCEPT ![t] = Null]
  /\ state' = [state EXCEPT ![t] = "ABNORMAL"]
  /\ worker' = [worker EXCEPT ![t].pc = "dead"]
  /\ UNCHANGED <<queue, served>> /\ UNCHANGED others

Worker(t) == \/ Boot(t) \/ Wake(t) \/ Abandon(t) \/ Rest(t)
             \/ Take(t) \/ Finish(t) \/ Quit(t)

-----------------------------------------------------------------------------
(* A client sends message m: to the slot its module is attached to, or to  *)
(* a pool slot with enough stack.                                          *)

calm == <<module, stack, gen, manager, registrar, sup, event, reports, blocked,
          served>>

SendDirect(c) ==
  /\ client[c].pc = "idle"
  /\ \E m \in unsent, t \in Tasks :
       /\ module[t] # NoModule
       /\ client' = [client EXCEPT ![c] = [@ EXCEPT !.pc = "add", !.best = t, !.msg = m]]
       /\ unsent' = unsent \ {m}
  /\ UNCHANGED <<state, handle, queue, worker>> /\ UNCHANGED calm

SendPool(c) ==
  /\ client[c].pc = "idle"
  /\ \E m \in unsent, need \in Needs :
       /\ client' = [client EXCEPT ![c] = [@ EXCEPT !.pc = "idlest", !.at = 0,
                                          !.need = need, !.msg = m]]
       /\ unsent' = unsent \ {m}
  /\ UNCHANGED <<state, handle, queue, worker>> /\ UNCHANGED calm

Suits(c, t) == stack[t] >= client[c].need /\ module[t] = NoModule

(* First pass of tbox_taskpool_select_task: the first idle slot.           *)
SelectIdle(c) ==
  LET me == client[c]
      t  == me.at
  IN  /\ me.pc = "idlest"
      /\ client' = [client EXCEPT ![c] =
           IF state[t] = "RUN_IDLE" /\ Suits(c, t)
             THEN [me EXCEPT !.pc = "pooladd", !.best = t]
             ELSE IF t + 1 \in Tasks THEN [me EXCEPT !.at = t + 1]
             ELSE [me EXCEPT !.pc = "lightest", !.at = 0, !.best = NoTask,
                             !.load = QueueCap + 1]]
      /\ UNCHANGED <<state, handle, queue, worker, unsent>> /\ UNCHANGED calm

(* Second pass: the running slot with the least data in its queue.         *)
SelectLight(c) ==
  LET me == client[c]
      t  == me.at
      seen == IF state[t] \in RunStates /\ Suits(c, t) /\ me.load > Len(queue[t])
                THEN [me EXCEPT !.best = t, !.load = Len(queue[t])] ELSE me
  IN  /\ me.pc = "lightest"
      /\ client' = [client EXCEPT ![c] =
           IF t + 1 \in Tasks THEN [seen EXCEPT !.at = t + 1]
           ELSE IF seen.best = NoTask THEN NoSend
           ELSE [seen EXCEPT !.pc = "pooladd"]]
      /\ UNCHANGED <<state, handle, queue, worker, unsent>> /\ UNCHANGED calm

(* Wrong: the free space is not looked at.                                 *)
AcceptsAny(t) == state[t] \in RunStates

(* The section of tbox_task_add_msg that refuses or adds the message and   *)
(* notes the handle to notify; tbox_taskpool_add_msg takes any handle.     *)
Accepts(t) == state[t] \in RunStates /\ Len(queue[t]) < QueueCap

(* Wrong: a full queue gives up its oldest message for the new one.        *)
AddPushesOut(c) ==
  LET me == client[c]
      t  == me.best
      kept == IF Len(queue[t]) < QueueCap THEN queue[t] ELSE Tail(queue[t])
  IN  /\ me.pc \in {"add", "pooladd"}
      /\ IF state[t] \in RunStates /\ (me.pc = "add" => handle[t] # Null)
           THEN /\ queue' = [queue EXCEPT ![t] = Append(kept, me.msg)]
                /\ client' = [client EXCEPT ![c] =
                     [me EXCEPT !.pc = "notify", !.msg = NoMsg, !.to = handle[t]]]
           ELSE /\ client' = [client EXCEPT ![c] = NoSend]
                /\ UNCHANGED queue
      /\ UNCHANGED <<state, handle, worker, unsent>> /\ UNCHANGED calm

Add(c) ==
  LET me == client[c]
      t  == me.best
  IN  /\ me.pc \in {"add", "pooladd"}
      /\ IF Accepts(t) /\ (me.pc = "add" => handle[t] # Null)
           THEN /\ queue' = [queue EXCEPT ![t] = Append(@, me.msg)]
                /\ client' = [client EXCEPT ![c] =
                     [me EXCEPT !.pc = "notify", !.msg = NoMsg, !.to = handle[t]]]
           ELSE /\ client' = [client EXCEPT ![c] = NoSend]
                /\ UNCHANGED queue
      /\ UNCHANGED <<state, handle, worker, unsent>> /\ UNCHANGED calm

NotifyMsg(c) ==
  /\ client[c].pc = "notify"
  /\ worker' = Notified(client[c].best, client[c].to, "MSG")
  /\ client' = [client EXCEPT ![c] = NoSend]
  /\ UNCHANGED <<state, handle, queue, unsent>> /\ UNCHANGED calm

Client(c) == \/ SendDirect(c) \/ SendPool(c) \/ SelectIdle(c) \/ SelectLight(c)
             \/ Add(c) \/ NotifyMsg(c)

-----------------------------------------------------------------------------
(* The power manager starts and stops every slot in turn, and then the     *)
(* supervisor (tbox_core_start and tbox_core_stop).  It runs at            *)
(* TBOX_TASK_PRIORITY_MID1, above the workers and the supervisor, so       *)
(* tbox_task_start_task and tbox_task_stop_task, which read the handle,    *)
(* ask for its task's state and notify it, are one step.                   *)

rest == <<module, stack, gen, client, registrar, sup, reports, blocked, unsent, served>>

Call(pc) == /\ manager' = [manager EXCEPT !.pc = pc, !.at = 0,
                                          !.starts = IF pc = "start" THEN @ + 1 ELSE @]
            /\ UNCHANGED <<state, handle, queue, worker, event>> /\ UNCHANGED rest

StartPool == manager.pc = "stopped" /\ manager.starts < MaxStarts /\ Call("start")
StopPool  == manager.pc = "started" /\ Call("stop")

(* On to the next slot with pc, or notify the supervisor and be finished.  *)
NextSlot(pc, bit, finished) ==
  IF manager.at + 1 \in Tasks
    THEN /\ manager' = [manager EXCEPT !.at = @ + 1, !.pc = pc]
         /\ UNCHANGED event
    ELSE /\ manager' = [manager EXCEPT !.at = 0, !.pc = finished]
         /\ event' = [event EXCEPT !.bits = @ \cup {bit}]

StartSlot ==
  LET t == manager.at
  IN  /\ manager.pc = "start"
      /\ IF state[t] = "STOP"
           THEN /\ state' = [state EXCEPT ![t] = "RUN_IDLE"]
                /\ queue' = [queue EXCEPT ![t] = <<>>]
                /\ manager' = [manager EXCEPT !.pc = "kick"]
                /\ UNCHANGED event
           ELSE /\ NextSlot("start", "START", "started")
                /\ UNCHANGED <<state, queue>>
      /\ UNCHANGED <<handle, worker>> /\ UNCHANGED rest

(* Wrong: the messages that wait stay in the stopped slot.                 *)
StopSlotKeeps ==
  LET t == manager.at
  IN  /\ manager.pc = "stop"
      /\ IF state[t] \notin {"ISFORBIDDEN", "STOP"}
           THEN /\ state' = [state EXCEPT ![t] = "STOP"]
                /\ manager' = [manager EXCEPT !.pc = "halt"]
                /\ UNCHANGED event
           ELSE NextSlot("stop", "STOP", "stopped") /\ UNCHANGED state
      /\ UNCHANGED <<handle, queue, worker>> /\ UNCHANGED rest

StopSlot ==
  LET t == manager.at
  IN  /\ manager.pc = "stop"
      /\ IF state[t] \notin {"ISFORBIDDEN", "STOP"}
           THEN /\ state' = [state EXCEPT ![t] = "STOP"]
                /\ queue' = [queue EXCEPT ![t] = <<>>]
                /\ manager' = [manager EXCEPT !.pc = "halt"]
                /\ UNCHANGED event
           ELSE /\ NextSlot("stop", "STOP", "stopped")
                /\ UNCHANGED <<state, queue>>
      /\ UNCHANGED <<handle, worker>> /\ UNCHANGED rest

(* A live worker is notified; without one the slot gets the state closed.  *)
Signal(t, bit, closed) ==
  IF handle[t] # Null /\ Lives(t, handle[t])
    THEN /\ worker' = Notified(t, handle[t], bit)
         /\ UNCHANGED <<state, handle>>
    ELSE /\ handle' = [handle EXCEPT ![t] = Null]
         /\ state' = [state EXCEPT ![t] = closed]
         /\ UNCHANGED worker

KickSlot == /\ manager.pc = "kick"
            /\ Signal(manager.at, "START", "ABNORMAL")
            /\ NextSlot("start", "START", "started")
            /\ UNCHANGED queue /\ UNCHANGED rest

HaltSlot == /\ manager.pc = "halt"
            /\ Signal(manager.at, "STOP", "ISFORBIDDEN")
            /\ NextSlot("stop", "STOP", "stopped")
            /\ UNCHANGED queue /\ UNCHANGED rest

Manager == StartPool \/ StopPool \/ StartSlot \/ StopSlot \/ KickSlot \/ HaltSlot

-----------------------------------------------------------------------------
(* The registrar attaches a module that has no slot, and detaches one.     *)

still == <<state, handle, stack, gen, worker, client, manager, sup, event, reports,
           blocked, unsent, served>>

Attach ==
  /\ registrar.mod = NoModule
  /\ registrar.calls < MaxAttach
  /\ \E m \in Modules, need \in Needs :
       /\ \A t \in Tasks : module[t] # m
       /\ registrar' = [mod |-> m, at |-> 0, need |-> need, calls |-> registrar.calls + 1]
  /\ UNCHANGED <<module, queue>> /\ UNCHANGED still

AttachSlot ==
  LET t == registrar.at
      m == registrar.mod
      usable == handle[t] # Null /\ state[t] \notin {"ISFORBIDDEN", "ABNORMAL"}
      free == usable /\ stack[t] >= registrar.need /\ module[t] = NoModule
      done == free \/ (usable /\ module[t] = m) \/ t + 1 \notin Tasks
  IN  /\ m # NoModule
      /\ module' = IF free THEN [module EXCEPT ![t] = m] ELSE module
      /\ registrar' = IF done THEN [registrar EXCEPT !.mod = NoModule, !.at = 0]
                      ELSE [registrar EXCEPT !.at = t + 1]
      /\ UNCHANGED queue /\ UNCHANGED still

Detach(t) ==
  /\ registrar.mod = NoModule
  /\ module[t] # NoModule
  /\ module' = [module EXCEPT ![t] = NoModule]
  /\ queue' = [queue EXCEPT ![t] = <<>>]
  /\ UNCHANGED registrar /\ UNCHANGED still

Registrar == Attach \/ AttachSlot \/ \E t \in Tasks : Detach(t)

-----------------------------------------------------------------------------
(* The supervisor (tbox_supervise_task) waits for notifications, and with   *)
(* a timeout once it was started.                                          *)

aside == <<module, client, manager, registrar, unsent, served>>

(* A stop hides every notification that came with it. *)
Pause ==
  /\ sup.pc = "idle"
  /\ "STOP" \in event.bits
  /\ event' = [bits |-> {}, poll |-> FALSE]
  /\ UNCHANGED <<state, handle, stack, queue, gen, worker, sup, reports, blocked>>
  /\ UNCHANGED aside

(* Any other notification makes it handle one report, when there is one.   *)
Woken == /\ sup.pc = "idle"
         /\ event.bits # {} /\ "STOP" \notin event.bits
         /\ event' = [bits |-> {}, poll |-> event.poll \/ "START" \in event.bits]

WakeToNone ==
  /\ Woken
  /\ reports = <<>>
  /\ UNCHANGED <<state, handle, stack, queue, gen, worker, sup, reports, blocked>>
  /\ UNCHANGED aside

(* Without notification it checks the slots: tbox_task_check. *)
Timeout ==
  /\ sup.pc = "idle"
  /\ event.bits = {} /\ event.poll
  /\ sup' = [AtRest EXCEPT !.pc = "block"]
  /\ UNCHANGED <<state, handle, stack, queue, gen, worker, event, reports, blocked>>
  /\ UNCHANGED aside

(* tbox_supervish_report_task_abnormal: a full queue loses the report. *)
Reported(kind, t) ==
  IF Len(reports) < ReportCap
    THEN /\ reports' = Append(reports, [kind |-> kind, slot |-> t])
         /\ event' = [event EXCEPT !.bits = @ \cup {"REPORT"}]
    ELSE UNCHANGED <<reports, event>>

(* tbox_task_check_block reports a slot (BlockWatch tells when). *)
ReportBlocked(t) ==
  /\ sup.pc = "block"
  /\ blocked < MaxBlocked /\ Spare(t)
  /\ worker[t].pc = "handle"
  /\ blocked' = blocked + 1
  /\ Reported("TASK_BLOCKED", t)
  /\ UNCHANGED <<state, handle, stack, queue, gen, worker, sup>> /\ UNCHANGED aside

CheckedBlock ==
  /\ sup.pc = "block"
  /\ sup' = [AtRest EXCEPT !.pc = "check"]
  /\ UNCHANGED <<state, handle, stack, queue, gen, worker, event, reports, blocked>>
  /\ UNCHANGED aside

(* tbox_task_check_exception looks at the slots one by one. *)
Checked == IF sup.slot + 1 \in Tasks
             THEN [AtRest EXCEPT !.pc = "check", !.slot = sup.slot + 1] ELSE AtRest

LookAt ==
  LET t == sup.slot
  IN  /\ sup.pc = "check"
      /\ sup' = IF handle[t] = Null THEN Checked
                ELSE [sup EXCEPT !.pc = "look", !.to = handle[t]]
      /\ UNCHANGED <<state, handle, stack, queue, gen, worker, event, reports, blocked>>
      /\ UNCHANGED aside

(* Wrong: the slot is closed and nobody is told.                           *)
ReportNothing(kind) ==
  /\ state' = [state EXCEPT ![sup.slot] = "ABNORMAL"]
  /\ handle' = [handle EXCEPT ![sup.slot] = Null]
  /\ sup' = Checked
  /\ UNCHANGED <<reports, event>>

(* Close the slot and report kind. *)
Report(kind) ==
  /\ state' = [state EXCEPT ![sup.slot] = "ABNORMAL"]
  /\ handle' = [handle EXCEPT ![sup.slot] = Null]
  /\ Reported(kind, sup.slot)
  /\ sup' = Checked

FoundDeleted ==
  /\ sup.pc = "look"
  /\ ~Lives(sup.slot, sup.to)
  /\ Report("TASK_DELETED")
  /\ UNCHANGED <<stack, queue, gen, worker, blocked>> /\ UNCHANGED aside

(* Little stack left, and a larger one exists: delete the worker at once.  *)
FoundSmall ==
  /\ sup.pc = "look"
  /\ Lives(sup.slot, sup.to)
  /\ StackMayShrink /\ Spare(sup.slot)
  /\ stack[sup.slot] < Large
  /\ worker' = Killed(sup.slot, sup.to)
  /\ sup' = [sup EXCEPT !.pc = "killed"]
  /\ UNCHANGED <<state, handle, stack, queue, gen, event, reports, blocked>>
  /\ UNCHANGED aside

ReportSmall ==
  /\ sup.pc = "killed"
  /\ Report("TASKSTACK_SMALL")
  /\ UNCHANGED <<stack, queue, gen, worker, blocked>> /\ UNCHANGED aside

FoundWell ==
  /\ sup.pc = "look"
  /\ Lives(sup.slot, sup.to)
  /\ sup' = Checked
  /\ UNCHANGED <<state, handle, stack, queue, gen, worker, event, reports, blocked>>
  /\ UNCHANGED aside

(* tbox_task_expend_stack: the next size for the slot's place in the table.*)
Expended(t) == IF t < NSmall THEN Medium ELSE Large

(* Close slot t with state s, then delete its worker; renew says whether a *)
(* new worker is created afterwards.                                       *)
Close(t, s, renew, size) ==
  /\ state' = [state EXCEPT ![t] = s]
  /\ queue' = [queue EXCEPT ![t] = <<>>]
  /\ stack' = [stack EXCEPT ![t] = size]
  /\ sup' = [pc |-> "delete", slot |-> t, to |-> Null, renew |-> renew]

Ignored == UNCHANGED <<state, queue, stack, sup>>

(* tbox_reset_task up to its first section.  The state RECOVERING ends      *)
(* before the next report is taken, so a reset never finds it.             *)
Reset(t, size) == Close(t, "RECOVERING", TRUE, size)

Forbid(t) == IF state[t] = "ISFORBIDDEN" THEN Ignored
             ELSE Close(t, "ISFORBIDDEN", FALSE, stack[t])

(* tbox_task_expend_stack: a slot in the last part of the table has the    *)
(* largest stack already.                                                  *)
Expend(t) == IF t < NSmall + NMedium THEN Reset(t, Expended(t)) ELSE Ignored

(* tbox_supervise_handle_abnormal on the oldest report, with the policy    *)
(* that is set for its kind.  A message that blocked is forbidden, not its *)
(* task, which is reset.                                                   *)
HandleReport ==
  LET r == Head(reports)
  IN  /\ Woken
      /\ reports # <<>>
      /\ reports' = Tail(reports)
      /\ \E p \in Policies :
           CASE p = "WARNING" -> Ignored
             [] p = "FORBID" /\ r.kind # "TASK_BLOCKED" -> Forbid(r.slot)
             [] p = "RESET" /\ r.kind = "TASKSTACK_SMALL" -> Expend(r.slot)
             [] OTHER -> Reset(r.slot, stack[r.slot])
      /\ UNCHANGED <<handle, gen, worker, blocked>> /\ UNCHANGED aside

(* tbox_task_delete_task: ask the worker to quit, look for a while whether *)
(* its handle is gone, then delete it.                                     *)
Deleted == IF sup.renew THEN [sup EXCEPT !.pc = "create", !.to = Null] ELSE AtRest

(* Wrong: having asked the worker to quit, the supervisor takes it for gone. *)
AskQuitOnly ==
  LET t == sup.slot
  IN  /\ sup.pc = "delete"
      /\ IF handle[t] = Null THEN UNCHANGED worker
         ELSE worker' = Notified(t, handle[t], "QUIT")
      /\ sup' = Deleted
      /\ UNCHANGED <<state, handle, stack, queue, gen, event, reports, blocked>>
      /\ UNCHANGED aside

AskQuit ==
  LET t == sup.slot
  IN  /\ sup.pc = "delete"
      /\ IF handle[t] = Null
           THEN sup' = Deleted /\ UNCHANGED worker
           ELSE /\ worker' = Notified(t, handle[t], "QUIT")
                /\ sup' = [sup EXCEPT !.pc = "wait"]
      /\ UNCHANGED <<state, handle, stack, queue, gen, event, reports, blocked>>
      /\ UNCHANGED aside

HasQuit ==
  LET t == sup.slot
  IN  /\ sup.pc = "wait"
      /\ handle[t] = Null \/ ~Lives(t, handle[t])
      /\ handle' = [handle EXCEPT ![t] = Null]
      /\ sup' = Deleted
      /\ UNCHANGED <<state, stack, queue, gen, worker, event, reports, blocked>>
      /\ UNCHANGED aside

(* Four polls of 100 ms passed: the handle is dropped, and then the worker *)
(* it named is deleted, wherever it is.                                    *)
GiveUp ==
  LET t == sup.slot
  IN  /\ sup.pc = "wait"
      /\ handle[t] # Null
      /\ handle' = [handle EXCEPT ![t] = Null]
      /\ sup' = [sup EXCEPT !.pc = "force", !.to = handle[t]]
      /\ UNCHANGED <<state, stack, queue, gen, worker, event, reports, blocked>>
      /\ UNCHANGED aside

(* Wrong: the handle is dropped, and the worker it named left running.     *)
ForceNothing ==
  /\ sup.pc = "force"
  /\ sup' = Deleted
  /\ UNCHANGED <<state, handle, stack, queue, gen, worker, event, reports, blocked>>
  /\ UNCHANGED aside

ForceDelete ==
  /\ sup.pc = "force"
  /\ worker' = Killed(sup.slot, sup.to)
  /\ sup' = Deleted
  /\ UNCHANGED <<state, handle, stack, queue, gen, event, reports, blocked>>
  /\ UNCHANGED aside

(* The second half of tbox_reset_task. *)
CreateFails ==
  /\ sup.pc = "create"
  /\ CreateMayFail
  /\ state' = [state EXCEPT ![sup.slot] = "ABNORMAL"]
  /\ sup' = AtRest
  /\ UNCHANGED <<handle, stack, queue, gen, worker, event, reports, blocked>>
  /\ UNCHANGED aside

Create ==
  LET t == sup.slot
  IN  /\ sup.pc = "create"
      /\ gen[t] < MaxGen
      /\ gen' = [gen EXCEPT ![t] = @ + 1]
      /\ worker' = [worker EXCEPT ![t] = NewWorker]
      /\ sup' = [sup EXCEPT !.pc = "adopt", !.to = gen[t] + 1]
      /\ UNCHANGED <<state, handle, stack, queue, event, reports, blocked>>
      /\ UNCHANGED aside

Adopt ==
  LET t == sup.slot
  IN  /\ sup.pc = "adopt"
      /\ state' = [state EXCEPT ![t] = "RUN_IDLE"]
      /\ handle' = [handle EXCEPT ![t] = sup.to]
      /\ sup' = [sup EXCEPT !.pc = "kick"]
      /\ UNCHANGED <<stack, queue, gen, worker, event, reports, blocked>>
      /\ UNCHANGED aside

KickNew ==
  /\ sup.pc = "kick"
  /\ worker' = Notified(sup.slot, sup.to, "START")
  /\ sup' = AtRest
  /\ UNCHANGED <<state, handle, stack, queue, gen, event, reports, blocked>>
  /\ UNCHANGED aside

Waiting  == Pause \/ WakeToNone \/ HandleReport \/ Timeout
Checking == \/ \E t \in Tasks : ReportBlocked(t)
            \/ CheckedBlock \/ LookAt
            \/ FoundDeleted \/ FoundSmall \/ ReportSmall \/ FoundWell
Resetting == \/ AskQuit \/ HasQuit \/ GiveUp \/ ForceDelete
             \/ CreateFails \/ Create \/ Adopt \/ KickNew

Supervisor == Waiting \/ Checking \/ Resetting

-----------------------------------------------------------------------------
Next == \/ \E t \in Tasks : Worker(t)
        \/ \E c \in Clients : Client(c)
        \/ Manager \/ Registrar \/ Supervisor

Spec == Init /\ [][Next]_vars

(* A ready task runs, so workers, a client amid a call and the manager amid *)
(* a pass go on, and a handler returns.  The manager may rest for ever      *)
(* between passes, and nobody has to send.                                  *)
Fairness == /\ \A t \in Tasks : WF_vars(Worker(t))
            /\ \A c \in Clients : WF_vars(client[c].pc # "idle" /\ Client(c))
            /\ WF_vars(StartSlot \/ StopSlot \/ KickSlot \/ HaltSlot)

FairSpec == Spec /\ Fairness

(* The supervisor too goes on, and its timeouts come; a worker need not     *)
(* come short of stack.                                                    *)
RecoverSpec == FairSpec /\ WF_vars(Supervisor)

-----------------------------------------------------------------------------
(* The fields of tbox_task_infos and the calls in progress keep their      *)
(* types; a queue never holds more than fits.                              *)
TypeOK ==
  /\ state \in [Tasks -> States]
  /\ gen \in [Tasks -> Nat]
  /\ handle \in [Tasks -> Nat]
  /\ module \in [Tasks -> Modules \cup {NoModule}]
  /\ stack \in [Tasks -> Sizes]
  /\ queue \in [Tasks -> Seq(Msgs)]
  /\ \A t \in Tasks : Len(queue[t]) <= QueueCap
  /\ worker \in [Tasks -> Workers]
  /\ client \in [Clients -> Sends]
  /\ manager \in Passes
  /\ registrar \in Attaches
  /\ sup \in Checks
  /\ event \in Events
  /\ reports \in Seq(Reports)
  /\ blocked \in Nat
  /\ unsent \subseteq Msgs
  /\ served \subseteq Msgs

(* The supervisor is replacing the worker of slot t. *)
Replacing(t) == sup.slot = t /\ sup.pc \in {"delete", "wait", "force", "create", "adopt"}

(* A slot is busy only while its worker is inside a handler: whoever stops, *)
(* starts, resets or attaches it meanwhile, no idle slot is left marked     *)
(* busy, which tbox_taskpool_select_task would pass over in its first pass. *)
(* The mark outlives a worker that was deleted inside its handler.          *)
BusyIsHandled ==
  \A t \in Tasks : state[t] = "RUN_BUSY" =>
    worker[t].pc \in {"handle", "dead"} \/ Replacing(t)

(* A slot that is stopped or being reset holds no messages: what was        *)
(* waiting before tbox_task_stop or tbox_reset_task is not handled after    *)
(* the slot runs again, and nobody adds to it meanwhile.                    *)
StoppedIsEmpty ==
  \A t \in Tasks : state[t] \in {"STOP", "RECOVERING"} => queue[t] = <<>>

(* No worker runs unknown to its slot: tbox_task_stop, tbox_reset_task and  *)
(* tbox_task_check reach a worker by its slot's handle only.                *)
KnownWorker ==
  \A t \in Tasks : worker[t].pc # "dead" =>
    handle[t] = gen[t] \/ (sup.slot = t /\ sup.pc \in {"force", "adopt"})

(* tbox_reset_task creates a worker only when the one before it is gone, so *)
(* that two workers never take messages from one queue.                     *)
OneWorker == sup.pc = "create" => worker[sup.slot].pc = "dead"

(* The pool keeps the promise of Delivery. *)
delivery == INSTANCE Delivery WITH
  inbox <- queue, current <- [t \in Tasks |-> worker[t].msg]
IsDelivery == delivery!Spec

(* Every message a slot accepted leaves its queue, taken by the worker or   *)
(* dropped by a stop, though a notification may come while the worker is in *)
(* a handler or may carry a start and a stop at once; or the worker is      *)
(* deleted, and its replacement begins with an empty queue.                 *)
MessageLeaves ==
  \A m \in Msgs, t \in Tasks :
    (\E i \in DOMAIN queue[t] : queue[t][i] = m)
      ~> (~(\E i \in DOMAIN queue[t] : queue[t][i] = m) \/ worker[t].pc = "dead")

(* A worker deleted for its small stack is replaced, when the policy is to  *)
(* reset and a task can be created, unless the pool is stopped first: the   *)
(* supervisor's check closed the slot and no other check will report it, so *)
(* the one report must not be lost, and no handle of the slot be mistaken.  *)
(* After a second start the supervisor may be stopped (SupervisorStarts).   *)
KilledIsReplaced ==
  \A t \in Tasks :
    (worker[t].pc = "dead" /\ manager.pc = "started" /\ manager.starts = 1)
      ~> (worker[t].pc # "dead" \/ manager.pc # "started")

(* What the order of start in tbox_core.h says: tbox_core_start starts the  *)
(* supervisor after the tasks.  After it the supervisor comes to check.     *)
SupervisorStarts ==
  (manager.pc = "started") ~> (manager.pc # "started" \/ event.poll)

(* What the comment in tbox_task_init says of the stop event: the task      *)
(* stops handling messages.  No worker takes one after tbox_task_stop is    *)
(* over and before tbox_task_start is called.                               *)
StopHolds ==
  [][manager.pc = "stopped" =>
       \A t \in Tasks : ~(worker[t].pc = "loop" /\ worker'[t].pc = "handle")]_vars
=============================================================================

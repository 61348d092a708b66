------------------------------ MODULE Runloops ------------------------------
(***************************************************************************)
(* The tasks that modules own, and their repair: the runloop part of       *)
(* src/src/core/tbox_task.c, the supervisor of tbox_supervise.c, and the   *)
(* handlers by which a module learns of its new task (service/4g/4g.c and  *)
(* the same code in tbox_pm.c and tbox_adsp.c).                            *)
(*                                                                         *)
(* A handle is the address of a task's control block, and the kernel gives *)
(* the block of a deleted task away again.  The supervisor runs all the    *)
(* time here and its policy is to reset, as tbox_phm_module.c sets it;     *)
(* TaskPool has its start and stop, and the slots' part of the check.      *)
(***************************************************************************)
EXTENDS Naturals, Sequences, SequencesExt, Functions

CONSTANTS RunloopNum,     \* runloops in use, of TBOX_RUNLOOP_TASK_NUM
          Subscribers,    \* modules that handle the two notifications
          HandleNum,      \* control blocks of the kernel
          ReportPlaces,   \* reports the supervisor's queue holds
          MaxDeaths,      \* bound on the tasks that die
          MaxTroubles     \* bound on lost messages, failed creations, slots' reports

Runloop == 1..RunloopNum
Handles == 1..HandleNum
NULL_PTR == 0

ASSUME RunloopAssumption ==
  /\ {RunloopNum, HandleNum, ReportPlaces, MaxDeaths, MaxTroubles} \subseteq Nat
  /\ RunloopNum <= HandleNum /\ Subscribers \subseteq Runloop

VARIABLES runloops,       \* tbox_task_mgr.runloops[r].handle
          tcb,            \* what the control blocks hold
          supervisor,     \* where the supervisor is, with its local variables
          sup_queue,      \* reports of deleted tasks; NoRunloop for one of a slot
          sup_bit,        \* TBOX_SUPERVISE_EVENT_REPORT_BIT
          module_handle,  \* the module's own copy, e.g. tbox_4g_task_handle
          notes,          \* messages to subscribers that wait in the pool, oldest first
          tally,          \* counters of the bounds
          excused         \* history: runloops out of luck, see Excuses

runloopVars == <<runloops, tcb, supervisor, sup_queue, sup_bit, module_handle, notes,
                 tally, excused>>

NoRunloop == 0

(* A control block: that of a runloop's task, of a deleted task, or free.  *)
Task(r) == [is |-> "task", of |-> r]
DeadBlock == [is |-> "dead", of |-> NoRunloop]
FreeBlock == [is |-> "free", of |-> NoRunloop]
Tasks(r) == {h \in Handles : tcb[h] = Task(r)}

SlotReport == [r |-> NoRunloop, handle |-> NULL_PTR]

WaitsForWork == [at |-> "wait", r |-> NoRunloop, handle |-> NULL_PTR]
At(step, r, h) == [at |-> step, r |-> r, handle |-> h]

(* dropped: its report found the queue full; failed: the new task could    *)
(* not be created; masked: its dead task's block was given to another      *)
(* while the table still named it; renamed: it got a block that a report   *)
(* or a message still names; missed: a message to it was lost; late: an    *)
(* older message to it was overtaken.                                      *)
Excuses == {"dropped", "failed", "masked", "renamed", "missed", "late"}

RunloopInit ==
  /\ tcb = [h \in Handles |-> IF h \in Runloop THEN Task(h) ELSE FreeBlock]
  /\ runloops = [r \in Runloop |-> r]
  /\ module_handle = [s \in Subscribers |-> s]
  /\ supervisor = WaitsForWork /\ sup_queue = <<>> /\ sup_bit = FALSE
  /\ notes = <<>>
  /\ tally = [deaths |-> 0, troubles |-> 0]
  /\ excused = [e \in Excuses |-> {}]
-----------------------------------------------------------------------------
Trouble == tally.troubles < MaxTroubles

Excuse(e, R) == [excused EXCEPT ![e] = @ \cup R]

(* A task deletes itself: tbox_adsp_task without memory, or on EXIT.  The  *)
(* idle task frees its block later.                                        *)
Dies(h) ==
  /\ tcb[h].is = "task" /\ tally.deaths < MaxDeaths
  /\ tcb' = [tcb EXCEPT ![h] = DeadBlock]
  /\ tally' = [tally EXCEPT !.deaths = @ + 1]
  /\ UNCHANGED <<runloops, supervisor, sup_queue, sup_bit, module_handle, notes, excused>>

IdleFrees(h) ==
  /\ tcb[h] = DeadBlock
  /\ tcb' = [tcb EXCEPT ![h] = FreeBlock]
  /\ UNCHANGED <<runloops, supervisor, sup_queue, sup_bit, module_handle, notes,
                 tally, excused>>
-----------------------------------------------------------------------------
(* tbox_task_check every two seconds without a notification.  The check of *)
(* the slots comes first and may put reports of its own.                   *)
Timeout ==
  /\ supervisor.at = "wait" /\ ~sup_bit
  /\ supervisor' = At("check", 1, NULL_PTR)
  /\ \/ UNCHANGED <<sup_queue, sup_bit, tally>>
     \/ /\ Trouble /\ Len(sup_queue) < ReportPlaces
        /\ sup_queue' = Append(sup_queue, SlotReport) /\ sup_bit' = TRUE
        /\ tally' = [tally EXCEPT !.troubles = @ + 1]
  /\ UNCHANGED <<runloops, tcb, module_handle, notes, excused>>

(* tbox_task_check_runloop_exception, one runloop: its handle is read.     *)
CheckRunloop ==
  /\ supervisor.at = "check" /\ supervisor.r \in Runloop
  /\ supervisor' = IF runloops[supervisor.r] = NULL_PTR
                   THEN [supervisor EXCEPT !.r = @ + 1]
                   ELSE At("look", supervisor.r, runloops[supervisor.r])
  /\ UNCHANGED <<runloops, tcb, sup_queue, sup_bit, module_handle, notes, tally, excused>>

(* eTaskGetState reads the block, whoever it is by now; that of a free one *)
(* tells anything.                                                         *)
LooksAlive ==
  /\ supervisor.at = "look" /\ tcb[supervisor.handle] # DeadBlock
  /\ supervisor' = At("check", supervisor.r + 1, NULL_PTR)
  /\ UNCHANGED <<runloops, tcb, sup_queue, sup_bit, module_handle, notes, tally, excused>>

(* Wrong: the report is put, and the table keeps the handle.               *)
ReportsAgain ==
  /\ supervisor.at = "look" /\ tcb[supervisor.handle].is # "task"
  /\ IF Len(sup_queue) < ReportPlaces
     THEN /\ sup_queue' = Append(sup_queue, [r |-> supervisor.r, handle |-> supervisor.handle])
          /\ sup_bit' = TRUE /\ UNCHANGED excused
     ELSE excused' = Excuse("dropped", {supervisor.r}) /\ UNCHANGED <<sup_queue, sup_bit>>
  /\ supervisor' = At("check", supervisor.r + 1, NULL_PTR)
  /\ UNCHANGED <<runloops, tcb, module_handle, notes, tally>>

(* The table forgets the handle, then the report is put, if it has room.   *)
FoundDead ==
  /\ supervisor.at = "look" /\ tcb[supervisor.handle].is # "task"
  /\ runloops' = [runloops EXCEPT ![supervisor.r] = NULL_PTR]
  /\ IF Len(sup_queue) < ReportPlaces
     THEN /\ sup_queue' = Append(sup_queue, [r |-> supervisor.r, handle |-> supervisor.handle])
          /\ sup_bit' = TRUE /\ UNCHANGED excused
     ELSE excused' = Excuse("dropped", {supervisor.r}) /\ UNCHANGED <<sup_queue, sup_bit>>
  /\ supervisor' = At("check", supervisor.r + 1, NULL_PTR)
  /\ UNCHANGED <<tcb, module_handle, notes, tally>>

CheckEnds ==
  /\ supervisor.at = "check" /\ supervisor.r \notin Runloop
  /\ supervisor' = WaitsForWork
  /\ UNCHANGED <<runloops, tcb, sup_queue, sup_bit, module_handle, notes, tally, excused>>
-----------------------------------------------------------------------------
(* tbox_message_publish sends a message to each subscriber; one that finds *)
(* no room in the pool, or waits there when the pool is stopped, is lost.  *)
Note(s, kind, r, h) == [to |-> s, kind |-> kind, r |-> r, handle |-> h]

Publish(kind, r, h) ==
  \E lost \in {{}} \cup {{s} : s \in Subscribers} :
    /\ lost # {} => Trouble
    /\ notes' = notes \o SetToSeq({Note(s, kind, r, h) : s \in Subscribers \ lost})
    /\ tally' = [tally EXCEPT !.troubles = IF lost = {} THEN @ ELSE @ + 1]
    /\ excused' = IF kind = "UPDATE" /\ r \in lost THEN Excuse("missed", {r}) ELSE excused

(* tbox_supervise_handle_abnormal handles one report for each waking, and  *)
(* tbox_supervise_handle_task_deleted tells the modules first.             *)
TakeReport ==
  /\ supervisor.at = "wait" /\ sup_bit
  /\ sup_bit' = FALSE
  /\ IF sup_queue = <<>> THEN UNCHANGED <<sup_queue, supervisor, notes, tally, excused>>
     ELSE /\ sup_queue' = Tail(sup_queue)
          /\ LET rep == Head(sup_queue)
             IN IF rep.r = NoRunloop
                THEN UNCHANGED <<supervisor, notes, tally, excused>>
                ELSE /\ supervisor' = At("reset", rep.r, NULL_PTR)
                     /\ Publish("ABNORMAL", rep.r, rep.handle)
  /\ UNCHANGED <<runloops, tcb, module_handle>>

(* tbox_reset_task, first part: the task that the table names is deleted,  *)
(* if there is one.                                                        *)
tbox_task_delete_task_by_handle ==
  /\ supervisor.at = "reset"
  /\ LET h == runloops[supervisor.r]
     IN tcb' = IF h # NULL_PTR /\ tcb[h].is = "task" THEN [tcb EXCEPT ![h] = DeadBlock] ELSE tcb
  /\ supervisor' = [supervisor EXCEPT !.at = "create"]
  /\ UNCHANGED <<runloops, sup_queue, sup_bit, module_handle, notes, tally, excused>>

(* Handles that somebody still means another task by.                      *)
NamedByReport == {rep.handle : rep \in Range(sup_queue)}
NamedByNote == {n.handle : n \in Range(notes)}

(* xTaskCreate takes any free block, and the task runs at once: it is      *)
(* runloop_fun itself, which waits for no start.                           *)
CreateTask(h) ==
  /\ supervisor.at = "create" /\ tcb[h] = FreeBlock
  /\ tcb' = [tcb EXCEPT ![h] = Task(supervisor.r)]
  /\ excused' = [excused EXCEPT !["masked"] = @ \cup {r \in Runloop : runloops[r] = h},
                                !["renamed"] = IF h \in NamedByReport \cup NamedByNote
                                               THEN @ \cup {supervisor.r} ELSE @]
  /\ supervisor' = [supervisor EXCEPT !.at = "enter", !.handle = h]
  /\ UNCHANGED <<runloops, sup_queue, sup_bit, module_handle, notes, tally>>

(* Without memory the runloop stays ABNORMAL and without handle.           *)
CreateFails ==
  /\ supervisor.at = "create" /\ Trouble
  /\ tally' = [tally EXCEPT !.troubles = @ + 1]
  /\ excused' = Excuse("failed", {supervisor.r})
  /\ supervisor' = WaitsForWork
  /\ UNCHANGED <<runloops, tcb, sup_queue, sup_bit, module_handle, notes>>

EnterTask ==
  /\ supervisor.at = "enter"
  /\ runloops' = [runloops EXCEPT ![supervisor.r] = supervisor.handle]
  /\ supervisor' = [supervisor EXCEPT !.at = "tell"]
  /\ UNCHANGED <<tcb, sup_queue, sup_bit, module_handle, notes, tally, excused>>

TellModules ==
  /\ supervisor.at = "tell"
  /\ Publish("UPDATE", supervisor.r, supervisor.handle)
  /\ supervisor' = WaitsForWork
  /\ UNCHANGED <<runloops, tcb, sup_queue, sup_bit, module_handle>>

tbox_reset_task ==
  \/ tbox_task_delete_task_by_handle \/ CreateFails \/ EnterTask \/ TellModules
  \/ \E h \in Handles : CreateTask(h)
-----------------------------------------------------------------------------
(* Wrong: every notice of a deleted task is taken for one's own.           *)
TakesAnyNotice(n) ==
  CASE n.kind = "ABNORMAL" -> NULL_PTR
    [] n.kind = "UPDATE" -> IF n.r = n.to THEN n.handle ELSE module_handle[n.to]

(* tbox_4g_handle_task_abnormal compares handles, tbox_4g_handle_update_task *)
(* compares modules.                                                       *)
HandleAfter(n) ==
  CASE n.kind = "ABNORMAL" -> IF n.handle = module_handle[n.to] THEN NULL_PTR
                                                                ELSE module_handle[n.to]
    [] n.kind = "UPDATE" -> IF n.r = n.to THEN n.handle ELSE module_handle[n.to]

(* The messages of a runloop's module go to whatever slot is idle, so its  *)
(* handlers run in any order.                                              *)
HandleNote(i) ==
  LET n == notes[i] IN
  /\ notes' = RemoveAt(notes, i)
  /\ module_handle' = [module_handle EXCEPT ![n.to] = HandleAfter(n)]
  /\ excused' = IF \E j \in 1..(i - 1) : notes[j].to = n.to
                THEN Excuse("late", {n.to}) ELSE excused
  /\ UNCHANGED <<runloops, tcb, supervisor, sup_queue, sup_bit, tally>>
-----------------------------------------------------------------------------
RunloopNext ==
  \/ \E h \in Handles : Dies(h) \/ IdleFrees(h)
  \/ Timeout \/ CheckRunloop \/ LooksAlive \/ FoundDead \/ CheckEnds
  \/ TakeReport \/ tbox_reset_task
  \/ \E i \in DOMAIN notes : HandleNote(i)

RunloopSpec == RunloopInit /\ [][RunloopNext]_runloopVars
-----------------------------------------------------------------------------
Reported(r) == \E i \in DOMAIN sup_queue : sup_queue[i].r = r
NextCheckFinds(r) == runloops[r] # NULL_PTR /\ tcb[runloops[r]].is # "task"
InRepair(r) == supervisor.at \in {"reset", "create", "enter", "tell"} /\ supervisor.r = r

(* A dead task stays on the way to its repair: the next check finds its    *)
(* block in the table, or it is reported, or the supervisor is at it.  The *)
(* exceptions are a report that found no room (tbox_task.c:389 forgets the *)
(* handle first), a failed creation, and a block that was given to another *)
(* task before the check.                                                  *)
DeathIsKnown ==
  \A r \in Runloop :
    Tasks(r) = {} /\ r \notin excused["dropped"] \cup excused["failed"] \cup excused["masked"]
      => NextCheckFinds(r) \/ Reported(r) \/ InRepair(r)

(* No runloop has two tasks.                                               *)
OneTask == \A r \in Runloop : \A g, h \in Tasks(r) : g = h

(* When its messages are handled a module holds the handle of its task, so *)
(* that timers and interrupts wake the right one.  The exceptions are a    *)
(* lost notice, notices handled in another order (the pool does not keep   *)
(* it), and a task that got the block a notice about another one names.    *)
ModuleKnowsTask ==
  \A s \in Subscribers :
    (\A n \in Range(notes) : n.to # s) /\ ~InRepair(s)
      /\ s \notin excused["missed"] \cup excused["late"] \cup excused["renamed"]
      => \A h \in Tasks(s) : module_handle[s] = h

(* The repair of runloops: the death of one is not forgotten, it is        *)
(* replaced by one task, and its module learns which.                      *)
RunloopsRepaired == DeathIsKnown /\ OneTask /\ ModuleKnowsTask
=============================================================================

----------------------------- MODULE BlockWatch -----------------------------
(***************************************************************************)
(* The watch for messages that are handled too long, in                    *)
(* src/src/core/tbox_task.c.  A worker notes the message it begins and the *)
(* tick it begins at in its slot, and takes both back when the handler     *)
(* returns (tbox_task_process).  Every two seconds the supervisor reads    *)
(* the clock once, walks over the slots (tbox_task_check_block), adds the  *)
(* overdue messages to a table (tbox_task_add_block), and reports those    *)
(* that the table counts often enough.  Of the slot's state only what the  *)
(* watch sees is here: RUN_BUSY, STOP, or another (TaskPool has the rest).  *)
(***************************************************************************)
EXTENDS Integers, FiniteSets

CONSTANTS NTasks,         \* TBOX_TASK_MAX_NUM
          NEntries,       \* TBOX_TASK_BLOCK_COUNT
          Names, NoName,  \* message names, NULL
          Word,           \* number of values of TickType_t
          Limit,          \* pdMS_TO_TICKS(TBOX_MESSAGE_MAX_HANDLE_TIME)
          Period,         \* ticks between two looks at the clock, at most
          ReportAt,       \* TBOX_TASK_ABNORMA_BLOCK_NUM
          MaxKills,       \* bound: workers deleted inside a handler
          MaxStarts       \* bound: calls of tbox_task_stop and tbox_task_start

Tasks   == 0..(NTasks - 1)
Entries == 1..NEntries

ASSUME WatchAssumption ==
  /\ NTasks \in Nat \ {0} /\ NEntries \in Nat \ {0}
  /\ NoName \notin Names
  /\ Word \in Nat \ {0} /\ Limit \in Nat /\ Period \in Nat
  /\ ReportAt \in Nat
  /\ MaxKills \in Nat /\ MaxStarts \in Nat

VARIABLES tick,     \* xTaskGetTickCount()
          lag,      \* ticks since the supervisor looked at the clock
          pc,       \* where each worker is: idle, handle, remove
          state,    \* state of its slot: BUSY, STOP, or OTHER
          msg,      \* the message it handles or has just handled
          name,     \* cur_block_msg_name
          since,    \* cur_block_tick
          age,      \* ticks since the handling began, up to Limit + 1
          flagged,  \* the watch has found this handling overdue
          table,    \* tbox_task_mgr.block_info
          watch,    \* the supervisor in tbox_task_check_block
          reported, \* messages reported as blocked, with their slots
          kills,
          power     \* the power manager in tbox_task_stop or tbox_task_start

vars == <<tick, lag, pc, state, msg, name, since, age, flagged, table, watch,
          reported, kills, power>>

Free == [used |-> FALSE, task |-> -1, name |-> NoName, num |-> 0]
Idle == [pc |-> "idle", now |-> 0, at |-> 0, name |-> NoName]

Init == /\ tick = 0 /\ lag = 0
        /\ pc = [t \in Tasks |-> "idle"]
        /\ state = [t \in Tasks |-> "OTHER"]
        /\ msg = [t \in Tasks |-> NoName]
        /\ name = [t \in Tasks |-> NoName]
        /\ since = [t \in Tasks |-> 0]
        /\ age = [t \in Tasks |-> 0]
        /\ flagged = [t \in Tasks |-> FALSE]
        /\ table = [e \in Entries |-> Free]
        /\ watch = Idle
        /\ reported = {}
        /\ kills = 0
        /\ power = [pc |-> "on", at |-> 0, starts |-> 0]

(* Wrong: a signed difference. *)
SinceSigned(now, begun) == now - begun

(* Unsigned difference of two ticks. *)
Since(now, begun) == (now - begun) % Word

Tick == /\ lag < Period
        /\ lag' = lag + 1
        /\ tick' = (tick + 1) % Word
        /\ age' = [t \in Tasks |->
             IF pc[t] = "handle" /\ age[t] <= Limit THEN age[t] + 1 ELSE age[t]]
        /\ UNCHANGED <<pc, state, msg, name, since, flagged, table, watch, reported,
                       kills, power>>

-----------------------------------------------------------------------------
(* The worker of slot t. *)

Begin(t) ==
  /\ pc[t] = "idle" /\ state[t] # "STOP"
  /\ \E n \in Names :
       /\ msg' = [msg EXCEPT ![t] = n]
       /\ name' = [name EXCEPT ![t] = n]
  /\ since' = [since EXCEPT ![t] = tick]
  /\ age' = [age EXCEPT ![t] = 0]
  /\ flagged' = [flagged EXCEPT ![t] = FALSE]
  /\ pc' = [pc EXCEPT ![t] = "handle"]
  /\ state' = [state EXCEPT ![t] = "BUSY"]
  /\ UNCHANGED <<tick, lag, table, watch, reported, kills, power>>

(* The handler returned: the section that makes the slot idle, even when it *)
(* was stopped meanwhile.                                                  *)
Finish(t) ==
  /\ pc[t] = "handle"
  /\ name' = [name EXCEPT ![t] = NoName]
  /\ since' = [since EXCEPT ![t] = tick]
  /\ pc' = [pc EXCEPT ![t] = "remove"]
  /\ state' = [state EXCEPT ![t] = "OTHER"]
  /\ UNCHANGED <<tick, lag, msg, age, flagged, table, watch, reported, kills, power>>

Holds(e, t, n) == table[e].used /\ table[e].task = t /\ table[e].name = n

(* The first place of the table with a property; both searches are loops   *)
(* over the table under the manager's mutex.                               *)
First(S) == CHOOSE e \in S : \A f \in S : e <= f

(* tbox_task_remove_block *)
Remove(t) ==
  LET found == {e \in Entries : Holds(e, t, msg[t])}
  IN  /\ pc[t] = "remove"
      /\ table' = IF found = {} THEN table ELSE [table EXCEPT ![First(found)] = Free]
      /\ pc' = [pc EXCEPT ![t] = "idle"]
      /\ msg' = [msg EXCEPT ![t] = NoName]
      /\ age' = [age EXCEPT ![t] = 0]
      /\ flagged' = [flagged EXCEPT ![t] = FALSE]
      /\ UNCHANGED <<tick, lag, state, name, since, watch, reported, kills, power>>

(* The supervisor, in tbox_task_check_exception, deletes a worker with     *)
(* little stack and closes the slot, which forgets nothing; the reset then *)
(* brings a new worker.                                                    *)
Kill(t) ==
  /\ kills < MaxKills /\ watch.pc = "idle"
  /\ pc[t] \in {"handle", "remove"}
  /\ pc' = [pc EXCEPT ![t] = "idle"]
  /\ msg' = [msg EXCEPT ![t] = NoName]
  /\ age' = [age EXCEPT ![t] = 0]
  /\ flagged' = [flagged EXCEPT ![t] = FALSE]
  /\ state' = [state EXCEPT ![t] = "OTHER"]
  /\ kills' = kills + 1
  /\ UNCHANGED <<tick, lag, name, since, table, watch, reported, power>>

-----------------------------------------------------------------------------
(* The power manager stops the slots in turn, and later empties the table  *)
(* and starts those that are still stopped, forgetting what they did.      *)
NextSlot(after) ==
  power' = [pc |-> IF power.at + 1 \in Tasks THEN power.pc ELSE after,
            at |-> IF power.at + 1 \in Tasks THEN power.at + 1 ELSE 0,
            starts |-> power.starts]

Stop ==
  /\ power.pc = "on" /\ power.starts < MaxStarts
  /\ power' = [power EXCEPT !.pc = "stop"]
  /\ UNCHANGED <<tick, lag, pc, state, msg, name, since, age, flagged, table, watch,
                 reported, kills>>

StopSlot ==
  /\ power.pc = "stop"
  /\ state' = [state EXCEPT ![power.at] = "STOP"]
  /\ NextSlot("off")
  /\ UNCHANGED <<tick, lag, pc, msg, name, since, age, flagged, table, watch,
                 reported, kills>>

Start ==
  /\ power.pc = "off"
  /\ power' = [pc |-> "start", at |-> 0, starts |-> power.starts + 1]
  /\ table' = [e \in Entries |-> Free]
  /\ UNCHANGED <<tick, lag, pc, state, msg, name, since, age, flagged, watch,
                 reported, kills>>

StartSlot ==
  LET t == power.at
  IN  /\ power.pc = "start"
      /\ IF state[t] = "STOP"
           THEN /\ state' = [state EXCEPT ![t] = "OTHER"]
                /\ name' = [name EXCEPT ![t] = NoName]
                /\ since' = [since EXCEPT ![t] = 0]
           ELSE UNCHANGED <<state, name, since>>
      /\ NextSlot("on")
      /\ UNCHANGED <<tick, lag, pc, msg, age, flagged, table, watch, reported, kills>>

Power == Stop \/ StopSlot \/ Start \/ StartSlot

-----------------------------------------------------------------------------
(* tbox_task_check_block: one look at the clock, then the slots in order.  *)

kept == <<tick, pc, state, msg, age, kills, power>>

Check == /\ watch.pc = "idle"
         /\ watch' = [pc |-> "slots", now |-> tick, at |-> 0, name |-> NoName]
         /\ lag' = 0
         /\ UNCHANGED <<name, since, flagged, table, reported>> /\ UNCHANGED kept

(* The same walk, elsewhere. *)
WalkAt(where, at, n) == [pc |-> where, now |-> watch.now, at |-> at, name |-> n]

(* On to the next slot, or to the table. *)
Walked == IF watch.at + 1 \in Tasks THEN WalkAt("slots", watch.at + 1, NoName)
                                     ELSE WalkAt("table", 1, NoName)

Overdue(t) == /\ state[t] = "BUSY"
              /\ name[t] # NoName
              /\ Since(watch.now, since[t]) > Limit

(* Wrong: the name stays in the slot, to be found again.                   *)
CheckSlotKeeps ==
  LET t == watch.at
  IN  /\ watch.pc = "slots"
      /\ IF Overdue(t)
           THEN /\ watch' = WalkAt("add", t, name[t])
                /\ flagged' = [flagged EXCEPT ![t] = TRUE]
           ELSE watch' = Walked /\ UNCHANGED flagged
      /\ UNCHANGED <<lag, name, since, table, reported>> /\ UNCHANGED kept

CheckSlot ==
  LET t == watch.at
  IN  /\ watch.pc = "slots"
      /\ IF Overdue(t)
           THEN /\ watch' = WalkAt("add", t, name[t])
                /\ name' = [name EXCEPT ![t] = NoName]
                /\ since' = [since EXCEPT ![t] = watch.now]
                /\ flagged' = [flagged EXCEPT ![t] = TRUE]
           ELSE watch' = Walked /\ UNCHANGED <<name, since, flagged>>
      /\ UNCHANGED <<lag, table, reported>> /\ UNCHANGED kept

(* Wrong: no search for an entry of the message.                           *)
AddBlockAnew ==
  LET free == {e \in Entries : ~table[e].used}
  IN  /\ watch.pc = "add"
      /\ table' = IF free = {} THEN table
                  ELSE [table EXCEPT ![First(free)] =
                   [used |-> TRUE, task |-> watch.at, name |-> watch.name, num |-> 1]]
      /\ watch' = Walked
      /\ UNCHANGED <<lag, name, since, flagged, reported>> /\ UNCHANGED kept

(* tbox_task_add_block: a full table loses the message. *)
AddBlock ==
  LET t == watch.at
      n == watch.name
      found == {e \in Entries : Holds(e, t, n)}
      free == {e \in Entries : ~table[e].used}
  IN  /\ watch.pc = "add"
      /\ table' = IF found # {} THEN [table EXCEPT ![First(found)].num = @ + 1]
                  ELSE IF free = {} THEN table
                  ELSE [table EXCEPT ![First(free)] =
                          [used |-> TRUE, task |-> t, name |-> n, num |-> 1]]
      /\ watch' = Walked
      /\ UNCHANGED <<lag, name, since, flagged, reported>> /\ UNCHANGED kept

(* The second loop: report what was counted often enough, and forget it.   *)
Judge ==
  LET e == watch.at
  IN  /\ watch.pc = "table"
      /\ IF table[e].used /\ table[e].num >= ReportAt
           THEN /\ reported' = reported \cup {<<table[e].task, table[e].name>>}
                /\ table' = [table EXCEPT ![e] = Free]
           ELSE UNCHANGED <<reported, table>>
      /\ watch' = IF e + 1 \in Entries THEN WalkAt("table", e + 1, NoName) ELSE Idle
      /\ UNCHANGED <<lag, name, since, flagged>> /\ UNCHANGED kept

Watch == Check \/ CheckSlot \/ AddBlock \/ Judge

Next == \/ Tick \/ Power \/ Watch
        \/ \E t \in Tasks : Begin(t) \/ Finish(t) \/ Remove(t) \/ Kill(t)

Spec == Init /\ [][Next]_vars

(* The clock ticks, the supervisor checks again and again, and a worker    *)
(* whose handler returned goes on; a handler need not return.              *)
FairSpec == /\ Spec
            /\ WF_vars(Tick) /\ WF_vars(Watch)
            /\ \A t \in Tasks : WF_vars(Remove(t))
-----------------------------------------------------------------------------
TypeOK ==
  /\ tick \in 0..(Word - 1) /\ lag \in 0..Period
  /\ pc \in [Tasks -> {"idle", "handle", "remove"}]
  /\ state \in [Tasks -> {"BUSY", "STOP", "OTHER"}]
  /\ msg \in [Tasks -> Names \cup {NoName}]
  /\ name \in [Tasks -> Names \cup {NoName}]
  /\ since \in [Tasks -> 0..(Word - 1)]
  /\ age \in [Tasks -> 0..(Limit + 1)]
  /\ flagged \in [Tasks -> BOOLEAN]
  /\ table \in [Entries -> [used : BOOLEAN, task : Tasks \cup {-1},
                            name : Names \cup {NoName}, num : Nat]]
  /\ watch \in [pc : {"idle", "slots", "add", "table"}, now : 0..(Word - 1),
                at : Nat, name : Names \cup {NoName}]
  /\ watch.pc \in {"slots", "add"} => watch.at \in Tasks
  /\ watch.pc = "table" => watch.at \in Entries
  /\ reported \subseteq (Tasks \cup {-1}) \X (Names \cup {NoName})
  /\ kills \in Nat
  /\ power \in [pc : {"on", "stop", "off", "start"}, at : Tasks, starts : Nat]

(* The searches of add_block and remove_block stop at the first entry: a   *)
(* message has at most one entry for a slot.                               *)
OneEntry == \A e, f \in Entries :
  table[e].used /\ table[f].used /\ table[e].task = table[f].task
                /\ table[e].name = table[f].name => e = f

(* Nothing is reported as blocked before a worker was deleted: check_block  *)
(* takes the name out of the slot, so it counts a handling once, and the    *)
(* end of the handling removes the entry; only a count added after that end *)
(* is still there at the next handling, so no count passes two.             *)
NoReport == ReportAt > 2 /\ kills = 0 => reported = {}

(* Why, as an inductive invariant.  The handling that t is in was found     *)
(* overdue, or such a finding is on its way to the table: then the name is  *)
(* out of the slot, and an entry that counts two belongs to a handling that *)
(* was already counted and will remove it.                                  *)
Counted(t, n) == pc[t] # "idle" /\ msg[t] = n /\ flagged[t]
Pending(t, n) == watch.pc = "add" /\ watch.at = t /\ watch.name = n

CountedOnce ==
  /\ \A t \in Tasks : state[t] = "BUSY" => pc[t] = "handle"
  /\ \A t \in Tasks : pc[t] = "handle" =>
       name[t] = NoName \/ (name[t] = msg[t] /\ ~flagged[t])
  /\ \A e \in Entries : table[e].used =>
       LET t == table[e].task
           n == table[e].name
       IN  /\ table[e].num = 1 \/ (table[e].num = 2 /\ Counted(t, n) /\ ~Pending(t, n))
           /\ Pending(t, n) => Counted(t, n)
  /\ ReportAt > 2 => reported = {}

(* Until the core is stopped, which empties the table at the next start, a *)
(* handler that never returns is found overdue, because Limit ticks do not *)
(* wrap unseen between the looks of tbox_task_check_block, and its message *)
(* then comes into the table, or some handling of it is reported, unless   *)
(* the table is full of others when tbox_task_add_block looks for a place: *)
(* the name is out of the slot by then, and is not found again.            *)
NoPlace(t) == /\ Pending(t, msg[t])
              /\ \A e \in Entries : table[e].used /\ ~Holds(e, t, msg[t])

StuckIsCounted ==
  \A t \in Tasks : (pc[t] = "handle" /\ age[t] > Limit /\ ~flagged[t] /\ power.starts = 0)
     ~> \/ pc[t] # "handle" \/ power.pc # "on" \/ NoPlace(t)
        \/ \E e \in Entries : Holds(e, t, msg[t])
        \/ <<t, msg[t]>> \in reported
=============================================================================

-------------------------- MODULE BlockWatchProofs --------------------------
(***************************************************************************)
(* The watch for blocked messages keeps its types, and reports nothing     *)
(* before a worker was deleted, for any number of slots, messages and      *)
(* table places.                                                           *)
(***************************************************************************)
EXTENDS BlockWatch, TLAPS, WellFoundedInduction

(* A loop over the table that looks for a place of S finds one of S.       *)
LEMMA FirstIsIn ==
  ASSUME NEW S \in SUBSET Entries, S # {}
  PROVE  First(S) \in S
<1>1. S \subseteq Nat
  BY DEF Entries
<1>2. PICK m \in S : \A f \in S : ~(<<f, m>> \in OpToRel(<, Nat))
  BY <1>1, NatLessThanWellFounded, WFMin
<1>3. ASSUME NEW f \in S PROVE m <= f
  <2>1. m \in Nat /\ f \in Nat
    BY <1>1, <1>2
  <2>2. ~(f < m)
    BY <1>2, <2>1 DEF OpToRel
  <2> QED
    BY <2>1, <2>2
<1> QED
  BY <1>3 DEF First

(* The difference of two ticks is a tick. *)
LEMMA TickStays == \A k \in Int : k % Word \in 0..(Word - 1)
BY WatchAssumption

(* The next place after a slot or a table place of the walk is one, or the *)
(* walk goes on in the table, or ends.                                     *)
LEMMA WalkedType ==
  ASSUME TypeOK, watch.pc \in {"slots", "add"}
  PROVE  /\ Walked \in [pc : {"slots", "table"}, now : 0..(Word - 1), at : Nat,
                        name : {NoName}]
         /\ Walked.pc = "slots" => Walked.at \in Tasks
         /\ Walked.pc = "table" => Walked.at \in Entries
         /\ Walked.pc # "add"
<1>1. watch \in [pc : {"idle", "slots", "add", "table"}, now : 0..(Word - 1),
                at : Nat, name : Names \cup {NoName}]
      /\ watch.at \in Tasks
  BY DEF TypeOK
<1>2. CASE watch.at + 1 \in Tasks
  BY <1>1, <1>2 DEF Walked, WalkAt, Tasks
<1>3. CASE watch.at + 1 \notin Tasks
  BY <1>1, <1>3, WatchAssumption DEF Walked, WalkAt, Tasks, Entries
<1> QED
  BY <1>2, <1>3

(* The state of each worker, of each place of the table and of the walk    *)
(* keeps its type.                                                         *)
THEOREM WatchTypes == Spec => []TypeOK
<1>1. Init => TypeOK
  BY WatchAssumption DEF Init, TypeOK, Free, Idle, Entries, Tasks
<1>2. TypeOK /\ [Next]_vars => TypeOK'
  <2> SUFFICES ASSUME TypeOK, [Next]_vars PROVE TypeOK'
    OBVIOUS
  <2> USE WatchAssumption
  <2>1. CASE Tick
    <3>1. tick' \in 0..(Word - 1)
      BY <2>1, TickStays DEF Tick, TypeOK
    <3>2. lag' \in 0..Period /\ age' \in [Tasks -> 0..(Limit + 1)]
      BY <2>1 DEF Tick, TypeOK
    <3> QED
      BY <2>1, <3>1, <3>2 DEF Tick, TypeOK
  <2>2. CASE Power
    <3>1. CASE Stop
      BY <2>2, <3>1 DEF Stop, TypeOK
    <3>a. power \in [pc : {"on", "stop", "off", "start"}, at : Tasks, starts : Nat]
          /\ 0 \in Tasks
      BY DEF TypeOK, Tasks
    <3>b. ASSUME NEW after \in {"on", "off"}, NextSlot(after)
          PROVE  power' \in [pc : {"on", "stop", "off", "start"}, at : Tasks, starts : Nat]
      BY <3>a, <3>b DEF NextSlot
    <3>2. CASE StopSlot
      <4>1. power' \in [pc : {"on", "stop", "off", "start"}, at : Tasks, starts : Nat]
        BY <3>b, <3>2 DEF StopSlot
      <4>2. state' \in [Tasks -> {"BUSY", "STOP", "OTHER"}]
        BY <3>2 DEF StopSlot, TypeOK
      <4> QED
        BY <3>2, <4>1, <4>2 DEF StopSlot, TypeOK
    <3>3. CASE Start
      <4>1. power' \in [pc : {"on", "stop", "off", "start"}, at : Tasks, starts : Nat]
        BY <3>a, <3>3 DEF Start
      <4>2. table' \in [Entries -> [used : BOOLEAN, task : Tasks \cup {-1},
                                    name : Names \cup {NoName}, num : Nat]]
        BY <3>3 DEF Start, Free
      <4> QED
        BY <3>3, <4>1, <4>2 DEF Start, TypeOK
    <3>4. CASE StartSlot
      <4>1. power' \in [pc : {"on", "stop", "off", "start"}, at : Tasks, starts : Nat]
        BY <3>b, <3>4 DEF StartSlot
      <4>2. state' \in [Tasks -> {"BUSY", "STOP", "OTHER"}]
            /\ name' \in [Tasks -> Names \cup {NoName}]
            /\ since' \in [Tasks -> 0..(Word - 1)]
        BY <3>4 DEF StartSlot, TypeOK
      <4> QED
        BY <3>4, <4>1, <4>2 DEF StartSlot, TypeOK
    <3> QED
      BY <2>2, <3>1, <3>2, <3>3, <3>4 DEF Power
  <2>3. ASSUME NEW t \in Tasks, Begin(t) PROVE TypeOK'
    BY <2>3 DEF Begin, TypeOK
  <2>4. ASSUME NEW t \in Tasks, Finish(t) PROVE TypeOK'
    BY <2>4 DEF Finish, TypeOK
  <2>5. ASSUME NEW t \in Tasks, Remove(t) PROVE TypeOK'
    <3>1. table' \in [Entries -> [used : BOOLEAN, task : Tasks \cup {-1},
                                  name : Names \cup {NoName}, num : Nat]]
      BY <2>5, FirstIsIn DEF Remove, TypeOK, Free
    <3> QED
      BY <2>5, <3>1 DEF Remove, TypeOK
  <2>6. ASSUME NEW t \in Tasks, Kill(t) PROVE TypeOK'
    BY <2>6 DEF Kill, TypeOK
  <2>8. CASE Check
    <3>1. watch' = [pc |-> "slots", now |-> tick, at |-> 0, name |-> NoName]
          /\ 0 \in Tasks
      BY <2>8 DEF Check, Tasks
    <3>2. lag' \in 0..Period
      BY <2>8 DEF Check
    <3> QED
      BY <2>8, <3>1, <3>2 DEF Check, kept, TypeOK
  <2>9. CASE CheckSlot
    <3>1. watch.at \in Tasks
      BY <2>9 DEF CheckSlot, TypeOK
    <3>2. CASE Overdue(watch.at)
      <4>1. watch' = WalkAt("add", watch.at, name[watch.at])
            /\ name[watch.at] \in Names \cup {NoName}
            /\ watch.now \in 0..(Word - 1) /\ watch.at \in Nat
        BY <2>9, <3>1, <3>2 DEF CheckSlot, TypeOK, Tasks
      <4>2. watch' \in [pc : {"add"}, now : 0..(Word - 1), at : Tasks \cap Nat,
                        name : Names \cup {NoName}]
        BY <3>1, <4>1 DEF WalkAt
      <4>3. name' \in [Tasks -> Names \cup {NoName}] /\ since' \in [Tasks -> 0..(Word - 1)]
            /\ flagged' \in [Tasks -> BOOLEAN]
        <5>1. /\ name' = [name EXCEPT ![watch.at] = NoName]
              /\ since' = [since EXCEPT ![watch.at] = watch.now]
              /\ flagged' = [flagged EXCEPT ![watch.at] = TRUE]
          BY <2>9, <3>2 DEF CheckSlot
        <5> QED
          BY <3>1, <4>1, <5>1 DEF TypeOK
      <4>4. UNCHANGED <<tick, lag, pc, state, msg, age, table, reported, kills, power>>
        BY <2>9 DEF CheckSlot, kept
      <4> QED
        BY <4>2, <4>3, <4>4 DEF TypeOK
    <3>3. CASE ~Overdue(watch.at)
      BY <2>9, <3>1, <3>3, WalkedType DEF CheckSlot, kept, TypeOK
    <3> QED
      BY <3>2, <3>3
  <2>10. CASE AddBlock
    <3> DEFINE found == {e \in Entries : Holds(e, watch.at, watch.name)}
               free == {e \in Entries : ~table[e].used}
    <3>1. watch.at \in Tasks
      BY <2>10 DEF AddBlock, TypeOK
    <3>2. found # {} => First(found) \in Entries
      BY FirstIsIn
    <3>3. free # {} => First(free) \in Entries
      BY FirstIsIn
    <3>4. table' = IF found # {} THEN [table EXCEPT ![First(found)].num = @ + 1]
                   ELSE IF free = {} THEN table
                   ELSE [table EXCEPT ![First(free)] =
                     [used |-> TRUE, task |-> watch.at, name |-> watch.name, num |-> 1]]
      BY <2>10 DEF AddBlock
    <3> HIDE DEF found, free
    <3>5. table' \in [Entries -> [used : BOOLEAN, task : Tasks \cup {-1},
                                  name : Names \cup {NoName}, num : Nat]]
      <4>1. CASE found # {}
        BY <3>2, <3>4, <4>1 DEF TypeOK
      <4>2. CASE found = {} /\ free = {}
        BY <3>4, <4>2 DEF TypeOK
      <4>3. CASE found = {} /\ free # {}
        BY <3>1, <3>3, <3>4, <4>3 DEF TypeOK
      <4> QED
        BY <4>1, <4>2, <4>3
    <3>6. watch' = Walked /\ UNCHANGED <<lag, name, since, flagged, reported, kept>>
      BY <2>10 DEF AddBlock
    <3> QED
      BY <2>10, <3>5, <3>6, WalkedType DEF AddBlock, kept, TypeOK
  <2>11. CASE Judge
    <3>1. watch.at \in Entries
      BY <2>11 DEF Judge, TypeOK
    <3>2. table' \in [Entries -> [used : BOOLEAN, task : Tasks \cup {-1},
                                  name : Names \cup {NoName}, num : Nat]]
      <4>1. table' = table \/ table' = [table EXCEPT ![watch.at] = Free]
        BY <2>11 DEF Judge
      <4>2. Free \in [used : BOOLEAN, task : Tasks \cup {-1},
                      name : Names \cup {NoName}, num : Nat]
        BY DEF Free
      <4> QED
        BY <3>1, <4>1, <4>2 DEF TypeOK
    <3>3. reported' \subseteq (Tasks \cup {-1}) \X (Names \cup {NoName})
      <4>1. table[watch.at].task \in Tasks \cup {-1}
            /\ table[watch.at].name \in Names \cup {NoName}
        BY <3>1 DEF TypeOK
      <4> QED
        BY <2>11, <4>1 DEF Judge, TypeOK
    <3>4. CASE watch.at + 1 \in Entries
      <4>1. watch' = WalkAt("table", watch.at + 1, NoName)
        BY <2>11, <3>4 DEF Judge
      <4>2. watch' \in [pc : {"table"}, now : 0..(Word - 1), at : Entries \cap Nat,
                        name : {NoName}]
        BY <3>1, <3>4, <4>1 DEF TypeOK, Entries, WalkAt
      <4> QED
        BY <2>11, <3>2, <3>3, <4>2 DEF Judge, kept, TypeOK
    <3>5. CASE watch.at + 1 \notin Entries
      <4>1. watch' = Idle
        BY <2>11, <3>5 DEF Judge
      <4> QED
        BY <2>11, <3>2, <3>3, <4>1 DEF Judge, kept, TypeOK, Idle
    <3> QED
      BY <3>4, <3>5
  <2>12. CASE UNCHANGED vars
    BY <2>12 DEF vars, TypeOK
  <2> QED
    BY <2>1, <2>2, <2>3, <2>4, <2>5, <2>6, <2>8, <2>9, <2>10, <2>11, <2>12
    DEF Next, Watch
<1> QED
  BY <1>1, <1>2, PTL DEF Spec
-----------------------------------------------------------------------------
(* What the two searches do to the table. *)
LEMMA RemoveTable ==
  ASSUME TypeOK, OneEntry, NEW t \in Tasks, Remove(t), NEW e \in Entries, table'[e].used
  PROVE  table'[e] = table[e] /\ ~Holds(e, t, msg[t])
<1> DEFINE found == {f \in Entries : Holds(f, t, msg[t])}
<1>1. table' = IF found = {} THEN table ELSE [table EXCEPT ![First(found)] = Free]
  BY DEF Remove
<1>2. found # {} => First(found) \in found
  BY FirstIsIn
<1>3. CASE found = {}
  BY <1>1, <1>3
<1>4. CASE found # {}
  <2>1. e # First(found)
    BY <1>1, <1>2, <1>4 DEF Free, TypeOK
  <2>2. table'[e] = table[e]
    BY <1>1, <1>2, <1>4, <2>1 DEF TypeOK
  <2>3. ~Holds(e, t, msg[t])
    BY <1>2, <1>4, <2>1 DEF Holds, OneEntry
  <2> QED
    BY <2>2, <2>3
<1> QED
  BY <1>3, <1>4

LEMMA AddTable ==
  ASSUME TypeOK, OneEntry, AddBlock, NEW e \in Entries, table'[e].used
  PROVE  \/ /\ table[e].used /\ table'[e] = table[e]
            /\ ~Holds(e, watch.at, watch.name)
         \/ /\ Holds(e, watch.at, watch.name)
            /\ table'[e].used /\ table'[e].task = table[e].task
            /\ table'[e].name = table[e].name /\ table'[e].num = table[e].num + 1
         \/ /\ table'[e].task = watch.at /\ table'[e].name = watch.name
            /\ table'[e].num = 1
            /\ \A f \in Entries : ~Holds(f, watch.at, watch.name)
            /\ \A f \in Entries : f # e => table'[f] = table[f]
<1> DEFINE found == {f \in Entries : Holds(f, watch.at, watch.name)}
           free == {f \in Entries : ~table[f].used}
<1>1. table' = IF found # {} THEN [table EXCEPT ![First(found)].num = @ + 1]
               ELSE IF free = {} THEN table
               ELSE [table EXCEPT ![First(free)] =
                 [used |-> TRUE, task |-> watch.at, name |-> watch.name, num |-> 1]]
  BY DEF AddBlock
<1>2. found # {} => First(found) \in found
  BY FirstIsIn
<1>3. free # {} => First(free) \in free
  BY FirstIsIn
<1>4. table \in [Entries -> [used : BOOLEAN, task : Tasks \cup {-1},
                            name : Names \cup {NoName}, num : Nat]]
  BY DEF TypeOK
<1>5. CASE found # {}
  <2>1. CASE e = First(found)
    BY <1>1, <1>2, <1>4, <1>5, <2>1 DEF Holds
  <2>2. CASE e # First(found)
    <3>1. table'[e] = table[e]
      BY <1>1, <1>2, <1>4, <1>5, <2>2
    <3>2. ~Holds(e, watch.at, watch.name)
      BY <1>2, <1>5, <2>2 DEF Holds, OneEntry
    <3> QED
      BY <3>1, <3>2
  <2> QED
    BY <2>1, <2>2
<1>6. CASE found = {} /\ free = {}
  BY <1>1, <1>6
<1>7. CASE found = {} /\ free # {}
  <2>1. \A f \in Entries : ~Holds(f, watch.at, watch.name)
    BY <1>7
  <2>2. CASE e = First(free)
    BY <1>1, <1>3, <1>4, <1>7, <2>1, <2>2
  <2>3. CASE e # First(free)
    BY <1>1, <1>3, <1>4, <1>7, <2>1, <2>3
  <2> QED
    BY <2>2, <2>3
<1> QED
  BY <1>5, <1>6, <1>7

LEMMA JudgeTable ==
  ASSUME TypeOK, Judge, NEW e \in Entries, table'[e].used
  PROVE  table'[e] = table[e]
BY DEF TypeOK, Judge, Free

(* The table never holds two entries for one message of one slot, on which *)
(* both searches rely.                                                     *)
THEOREM EntriesDiffer == Spec => []OneEntry
<1>1. Init => OneEntry
  BY DEF Init, OneEntry, Free
<1>2. TypeOK /\ OneEntry /\ [Next]_vars => OneEntry'
  <2> SUFFICES ASSUME TypeOK, OneEntry, [Next]_vars,
                      NEW e \in Entries, NEW f \in Entries,
                      table'[e].used, table'[f].used,
                      table'[e].task = table'[f].task, table'[e].name = table'[f].name
               PROVE  e = f
    BY DEF OneEntry
  <2>1. CASE UNCHANGED table
    BY <2>1 DEF OneEntry
  <2>2. CASE Start
    BY <2>2 DEF Start, Free
  <2>3. ASSUME NEW t \in Tasks, Remove(t) PROVE e = f
    BY <2>3, RemoveTable DEF OneEntry
  <2>4. CASE AddBlock
    BY <2>4, AddTable DEF OneEntry, Holds
  <2>5. CASE Judge
    BY <2>5, JudgeTable DEF OneEntry
  <2> QED
    BY <2>1, <2>2, <2>3, <2>4, <2>5
    DEF Next, Power, Watch, vars, Tick, Begin, Finish, Kill, Stop, StopSlot, StartSlot,
        Check, CheckSlot
<1> QED
  BY <1>1, <1>2, WatchTypes, PTL DEF Spec
-----------------------------------------------------------------------------
(* Before a worker was deleted inside a handler, the watch counts each     *)
(* handling at most once and each message at most twice, so nothing        *)
(* reaches a limit of three and tbox_task_check_block reports nothing.     *)
THEOREM NothingReported == Spec => []NoReport
<1> DEFINE IInv == kills = 0 => CountedOnce
<1>1. Init => IInv
  BY DEF Init, CountedOnce, Free
<1>2. TypeOK /\ OneEntry /\ IInv /\ [Next]_vars => IInv'
  <2> SUFFICES ASSUME TypeOK, OneEntry, IInv, [Next]_vars, kills' = 0
               PROVE  CountedOnce'
    OBVIOUS
  <2>0. CountedOnce
    <3>1. kills' = kills \/ kills' = kills + 1
      <4>1. ASSUME NEW t \in Tasks, Begin(t) \/ Finish(t) \/ Remove(t) \/ Kill(t)
            PROVE  kills' = kills \/ kills' = kills + 1
        BY <4>1 DEF Begin, Finish, Remove, Kill
      <4> QED
        BY <4>1 DEF Next, Power, Watch, vars, Tick, Stop, StopSlot, Start, StartSlot,
                    Check, CheckSlot, AddBlock, Judge, kept
    <3> QED
      BY <3>1 DEF TypeOK
  <2> HIDE DEF IInv
  <2> DEFINE
    Busy == \A t \in Tasks : state[t] = "BUSY" => pc[t] = "handle"
    Names1 == \A t \in Tasks : pc[t] = "handle" =>
                name[t] = NoName \/ (name[t] = msg[t] /\ ~flagged[t])
    Entry(e) == table[e].used =>
      LET t == table[e].task
          n == table[e].name
      IN  /\ table[e].num = 1 \/ (table[e].num = 2 /\ Counted(t, n) /\ ~Pending(t, n))
          /\ Pending(t, n) => Counted(t, n)
    None == ReportAt > 2 => reported = {}
  <2> SUFFICES Busy' /\ Names1' /\ (\A e \in Entries : Entry(e)') /\ None'
    BY DEF CountedOnce
  <2>a. Busy /\ Names1 /\ (\A e \in Entries : Entry(e)) /\ None
    BY <2>0 DEF CountedOnce
  <2>1. CASE Tick \/ UNCHANGED vars
    BY <2>1, <2>a DEF Tick, vars, Counted, Pending
  <2>2. CASE Power
    <3>1. CASE Stop
      BY <2>a, <3>1 DEF Stop, Counted, Pending
    <3>2. CASE StopSlot
      BY <2>a, <3>2 DEF StopSlot, Counted, Pending, TypeOK
    <3>3. CASE Start
      BY <2>a, <3>3 DEF Start, Free
    <3>4. CASE StartSlot
      BY <2>a, <3>4 DEF StartSlot, Counted, Pending, TypeOK
    <3> QED
      BY <2>2, <3>1, <3>2, <3>3, <3>4 DEF Power
  <2>3. ASSUME NEW t \in Tasks, Begin(t)
        PROVE  Busy' /\ Names1' /\ (\A e \in Entries : Entry(e)') /\ None'
    <3>1. Busy' /\ Names1' /\ None'
      BY <2>3, <2>a DEF Begin, TypeOK
    <3>2. ASSUME NEW e \in Entries PROVE Entry(e)'
      <4>1. table[e].task = t => ~Counted(t, table[e].name)
        BY <2>3 DEF Begin, Counted
      <4> QED
        BY <2>3, <2>a, <4>1 DEF Begin, Counted, Pending, TypeOK
    <3> QED
      BY <3>1, <3>2
  <2>4. ASSUME NEW t \in Tasks, Finish(t)
        PROVE  Busy' /\ Names1' /\ (\A e \in Entries : Entry(e)') /\ None'
    BY <2>4, <2>a DEF Finish, Counted, Pending, TypeOK
  <2>5. ASSUME NEW t \in Tasks, Remove(t)
        PROVE  Busy' /\ Names1' /\ (\A e \in Entries : Entry(e)') /\ None'
    <3>1. Busy' /\ Names1' /\ None'
      BY <2>5, <2>a DEF Remove, TypeOK
    <3>2. ASSUME NEW e \in Entries, table'[e].used PROVE Entry(e)'
      <4>1. table'[e] = table[e] /\ ~Holds(e, t, msg[t])
        BY <2>5, <3>2, RemoveTable
      <4>2. table[e].task = t => ~Counted(t, table[e].name)
        BY <3>2, <4>1 DEF Holds, Counted
      <4> QED
        BY <2>5, <2>a, <3>2, <4>1, <4>2 DEF Remove, Counted, Pending, TypeOK
    <3> QED
      BY <3>1, <3>2
  <2>6. ASSUME NEW t \in Tasks, Kill(t)
        PROVE  Busy' /\ Names1' /\ (\A e \in Entries : Entry(e)') /\ None'
    BY <2>6 DEF Kill, TypeOK
  <2>8. CASE Check
    BY <2>8, <2>a DEF Check, kept, Counted, Pending
  <2>9. CASE CheckSlot
    <3>1. CASE Overdue(watch.at)
      <4>1. /\ watch' = WalkAt("add", watch.at, name[watch.at])
            /\ name' = [name EXCEPT ![watch.at] = NoName]
            /\ flagged' = [flagged EXCEPT ![watch.at] = TRUE]
            /\ UNCHANGED <<pc, state, msg, table, reported>>
            /\ watch.pc = "slots" /\ watch.at \in Tasks
        BY <2>9, <3>1 DEF CheckSlot, kept, TypeOK
      <4>2. /\ pc[watch.at] = "handle" /\ name[watch.at] = msg[watch.at]
            /\ ~flagged[watch.at]
        BY <2>a, <3>1, <4>1 DEF Overdue
      <4>3. Busy' /\ Names1' /\ None'
        BY <2>a, <4>1 DEF TypeOK
      <4>4. ASSUME NEW e \in Entries PROVE Entry(e)'
        <5>1. table[e].task = watch.at => ~Counted(watch.at, table[e].name)
          BY <4>2 DEF Counted
        <5> QED
          BY <2>a, <4>1, <4>2, <5>1 DEF Counted, Pending, WalkAt, TypeOK
      <4> QED
        BY <4>3, <4>4
    <3>2. CASE ~Overdue(watch.at)
      <4>1. /\ watch'.pc # "add"
            /\ UNCHANGED <<name, flagged, pc, state, msg, table, reported>>
        BY <2>9, <3>2, WalkedType DEF CheckSlot, kept
      <4> QED
        BY <2>a, <4>1 DEF Counted, Pending
    <3> QED
      BY <3>1, <3>2
  <2>10. CASE AddBlock
    <3>1. /\ watch'.pc # "add" /\ watch.pc = "add"
          /\ UNCHANGED <<name, flagged, pc, state, msg, reported>>
      BY <2>10, WalkedType DEF AddBlock, kept
    <3>2. Busy' /\ Names1' /\ None'
      BY <2>a, <3>1
    <3>3. ASSUME NEW e \in Entries, table'[e].used PROVE Entry(e)'
      <4>1. CASE table[e].used /\ table'[e] = table[e]
        BY <2>a, <3>1, <4>1 DEF Counted, Pending
      <4>2. CASE /\ Holds(e, watch.at, watch.name)
                 /\ table'[e].task = table[e].task /\ table'[e].name = table[e].name
                 /\ table'[e].num = table[e].num + 1
        <5>1. Pending(table[e].task, table[e].name)
          BY <3>1, <4>2 DEF Holds, Pending
        <5>2. table[e].num = 1 /\ Counted(table[e].task, table[e].name)
          BY <2>a, <4>2, <5>1 DEF Holds
        <5> QED
          BY <3>1, <4>2, <5>2 DEF Counted, Pending
      <4>3. CASE table'[e].num = 1
        BY <3>1, <4>3 DEF Pending
      <4> QED
        BY <2>10, <3>3, <4>1, <4>2, <4>3, AddTable
    <3> QED
      BY <3>2, <3>3
  <2>11. CASE Judge
    <3>1. /\ watch'.pc # "add" /\ watch.at \in Entries
          /\ UNCHANGED <<name, flagged, pc, state, msg>>
      BY <2>11 DEF Judge, kept, WalkAt, Idle, TypeOK
    <3>2. ASSUME ReportAt > 2 PROVE reported' = reported
      BY <2>11, <2>a, <3>1, <3>2, WatchAssumption DEF Judge
    <3>3. Busy' /\ Names1' /\ None'
      BY <2>a, <3>1, <3>2
    <3>4. ASSUME NEW e \in Entries, table'[e].used PROVE Entry(e)'
      <4>1. table'[e] = table[e]
        BY <2>11, <3>4, JudgeTable
      <4> QED
        BY <2>a, <3>1, <3>4, <4>1 DEF Counted, Pending
    <3> QED
      BY <3>3, <3>4
  <2> QED
    BY <2>1, <2>2, <2>3, <2>4, <2>5, <2>6, <2>8, <2>9, <2>10, <2>11
    DEF Next, Watch
<1>3. IInv => NoReport
  BY DEF CountedOnce, NoReport
<1> QED
  BY <1>1, <1>2, <1>3, WatchTypes, EntriesDiffer, PTL DEF Spec
=============================================================================

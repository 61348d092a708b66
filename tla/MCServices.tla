----------------------------- MODULE MCServices -----------------------------
(***************************************************************************)
(* The CAN manager, the J1939 stack, the software timers, the commands of  *)
(* the 4G modem, the tasks of the modules and the memory of the core,      *)
(* checked side by side in one run: a behaviour is one of one part, and    *)
(* the variables of the others stay as they were at the start.             *)
(***************************************************************************)
EXTENDS CanFrames, CanRecovery, J1939Filter, J1939Transport, STimer, AtCommands,
        Runloops, MemPool

VARIABLE part

Priorities == <<"high", "low">>

Command(pri, kind, ticks, retry) ==
  [pri |-> pri, kind |-> kind, ticks |-> ticks, retry |-> retry]
Commands == {Command("high", "order", 2, 0), Command("low", "query", 1, 1),
             Command("low", "quiet", 1, 0)}

can_part == <<canVars, recVars>>
j1939_part == <<filterVars, tpVars>>
task_part == <<timerVars, atVars, runloopVars, memVars>>

MCInit ==
  /\ part \in {"frames", "recovery", "filter", "transport",
              "timers", "commands", "runloops", "memory"}
  /\ CanInit /\ RecInit /\ FilterInit /\ TpInit
  /\ TimerInit /\ AtInit /\ RunloopInit /\ MemInit

MCNext ==
  /\ UNCHANGED part
  /\ \/ part = "frames" /\ CanNext /\ UNCHANGED <<recVars, j1939_part, task_part>>
     \/ part = "recovery" /\ RecNext /\ UNCHANGED <<canVars, j1939_part, task_part>>
     \/ part = "filter" /\ FilterNext /\ UNCHANGED <<can_part, tpVars, task_part>>
     \/ part = "transport" /\ TpNext /\ UNCHANGED <<can_part, filterVars, task_part>>
     \/ /\ UNCHANGED <<can_part, j1939_part>>
        /\ \/ part = "timers" /\ TimerNext /\ UNCHANGED <<atVars, runloopVars, memVars>>
           \/ part = "commands" /\ AtNext /\ UNCHANGED <<timerVars, runloopVars, memVars>>
           \/ part = "runloops" /\ RunloopNext /\ UNCHANGED <<timerVars, atVars, memVars>>
           \/ part = "memory" /\ MemNext /\ UNCHANGED <<timerVars, atVars, runloopVars>>

MCSpec == MCInit /\ [][MCNext]_<<part, can_part, j1939_part, task_part>>
=============================================================================

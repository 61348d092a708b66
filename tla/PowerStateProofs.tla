-------------------------- MODULE PowerStateProofs --------------------------
(***************************************************************************)
(* Proofs about PowerState, for any number of modules and callers, any     *)
(* times and any reboots that other tasks ask for: the types; a reset of   *)
(* the MCU waits for the modules; the modules that stop at once run        *)
(* whenever the power manager does; the modem is not left off.  The last   *)
(* two are about the behaviours in which no call of tbox_pm_reboot crosses *)
(* another or the power manager between its reads, which is what           *)
(* Overtaken and Crossed say of a step: then the code breaks both.         *)
(***************************************************************************)
EXTENDS PowerState, TLAPS

(* Types, the limits of the resets, and where each task's record leads.    *)
TaskRec == [pc : Pcs, back : {"idle", "modem", "night"}, cut : BOOLEAN, keyonly : BOOLEAN]

(* What tbox_pm_action_is_cando saw stays true while the action is under way. *)
Limits == /\ action = "4G_RESET" => resets < 2 * MaxResets
          /\ action = "4G_DEEP_RESET" => resets < MaxResets
          /\ action = "4G_MCU_RESET" => daily < MaxResets

LEMMA NumbersAre == /\ StopTimeout \in Nat \ {0} /\ ShutdownTime \in Nat \ {0}
                    /\ DeepTime \in Nat \ {0} /\ MaxResets \in Nat \ {0}
BY PowerAssumption

ModsTyped == module \in [Modules -> {"START", "STOP"}] /\ stopping \subseteq Async

ModemTyped == modem \in Doings /\ deep \in Stages /\ checking \in BOOLEAN /\ on \in BOOLEAN
DeedTyped == /\ action \in Actions /\ left \in 0 .. ShutdownTime + DeepTime
             /\ abort \in BOOLEAN /\ resets \in 0 .. 2 * MaxResets /\ daily \in 0 .. MaxResets
StateTyped == /\ state \in PmStates /\ post \in Posts /\ waited \in 0 .. StopTimeout - 1
              /\ reboot \in BOOLEAN

NightTyped == night \in {"IDLE", "START", "FINISH"} /\ acc \in BOOLEAN
TaskTyped == task \in [Tasks -> TaskRec]
CallTyped == call \in [Tasks -> [type : Reboots, old : PmStates, fresh : BOOLEAN]]

Typed == /\ StateTyped /\ DeedTyped /\ Limits /\ ModemTyped /\ ModsTyped
         /\ NightTyped /\ TaskTyped /\ CallTyped

LEMMA TypedIs ==
  Typed => /\ StateTyped /\ DeedTyped /\ ModemTyped /\ ModsTyped /\ Limits
           /\ night \in {"IDLE", "START", "FINISH"} /\ task \in [Tasks -> TaskRec]
           /\ call \in [Tasks -> [type : Reboots, old : PmStates, fresh : BOOLEAN]]
           /\ acc \in BOOLEAN
BY DEF Typed, NightTyped, TaskTyped, CallTyped

LEMMA Retyped ==
  ASSUME StateTyped', DeedTyped', Limits', ModemTyped', ModsTyped', CallTyped',
         night' \in {"IDLE", "START", "FINISH"}, task' \in [Tasks -> TaskRec], acc' \in BOOLEAN
  PROVE  Typed'
BY DEF Typed, NightTyped, TaskTyped, CallTyped

LEMMA ZeroIs == /\ 0 \in 0 .. StopTimeout - 1 /\ 0 \in 0 .. ShutdownTime + DeepTime
                /\ 0 \in 0 .. 2 * MaxResets /\ 0 \in 0 .. MaxResets
BY NumbersAre

LEMMA PMIs == PM \in Tasks /\ \A c \in Callers : c \in Tasks /\ c # PM
BY PowerAssumption DEF Tasks

LEMMA GotoIs ==
  ASSUME task \in [Tasks -> TaskRec], NEW t \in Tasks, NEW pc \in Pcs, Goto(t, pc)
  PROVE  /\ task' \in [Tasks -> TaskRec]
         /\ task'[t].pc = pc /\ ~task'[t].cut
         /\ \A u \in Tasks : u # t => task'[u] = task[u]
<1>1. At(pc) \in TaskRec /\ At(pc).pc = pc /\ ~At(pc).cut
  BY DEF At, TaskRec
<1>2. QED BY <1>1 DEF Goto

LEMMA TypesInit == Init => Typed
<1> SUFFICES ASSUME Init PROVE Typed
  OBVIOUS
<1>1. task \in [Tasks -> TaskRec]
  BY DEF Init, At, TaskRec, Pcs
<1>2. call \in [Tasks -> [type : Reboots, old : PmStates, fresh : BOOLEAN]]
  BY DEF Init, Reboots, PmStates
<1>3. StateTyped /\ DeedTyped /\ Limits
  BY ZeroIs DEF Init, StateTyped, DeedTyped, Limits, PmStates, Posts, Actions
<1>4. ModemTyped /\ ModsTyped
  BY DEF Init, ModemTyped, ModsTyped, Doings, Stages
<1>5. QED
  BY <1>1, <1>2, <1>3, <1>4 DEF Init, Typed, NightTyped, TaskTyped, CallTyped

LEMMA StopTyped ==
  ASSUME ModsTyped, NEW ms PROVE /\ Stop(ms) \/ Start(ms) \/ UNCHANGED mods => ModsTyped'
BY DEF ModsTyped, Stop, Start, mods

LEMMA ActTyped ==
  ASSUME Typed, NEW d \in Doings, NEW a \in Actions, NEW k \in 0 .. ShutdownTime + DeepTime,
         Act(d, a, k)
  PROVE  /\ action' \in Actions /\ left' \in 0 .. ShutdownTime + DeepTime
         /\ modem' \in Doings /\ deep' \in Stages /\ checking' \in BOOLEAN /\ on' \in BOOLEAN
         /\ ModsTyped'
         /\ action' = a
<1>1. action' = a /\ left' = k
  BY DEF Act
<1>2. modem' \in Doings /\ deep' \in Stages /\ checking' \in BOOLEAN /\ on' \in BOOLEAN
  BY DEF Act, Typed, ModemTyped, RequestDeep, Request, Stages, Doings
<1>3. ModsTyped'
  BY StopTyped DEF Act, Typed, RequestDeep
<1>4. QED BY <1>1, <1>2, <1>3

(* Beginning a sleep. *)
LEMMA BeginTyped ==
  ASSUME Typed, NEW t \in Tasks, NEW cut \in BOOLEAN, NEW back \in {"idle", "modem", "night"},
         BeginSleep(t, cut, back)
  PROVE  /\ StateTyped' /\ ModemTyped' /\ ModsTyped' /\ task' \in [Tasks -> TaskRec]
         /\ action' = "NONE" /\ left' = 0 /\ UNCHANGED <<resets, daily>>
         /\ night' = "IDLE"
         /\ task'[t].pc = "stop" /\ task'[t].cut = cut /\ task'[t].back = back
         /\ \A u \in Tasks : u # t => task'[u] = task[u]
<1>1. PICK k \in BOOLEAN : task' = [task EXCEPT ![t] = [pc |-> "stop", back |-> back,
                                                        cut |-> cut, keyonly |-> k]]
  BY DEF BeginSleep
<1>2. [pc |-> "stop", back |-> back, cut |-> cut, keyonly |-> k] \in TaskRec
  BY DEF TaskRec, Pcs, Sleeping
<1>3. task \in [Tasks -> TaskRec]
  BY DEF Typed, TaskTyped
<1>4. task' \in [Tasks -> TaskRec] /\ task'[t].pc = "stop" /\ task'[t].cut = cut /\ task'[t].back = back
      /\ \A u \in Tasks : u # t => task'[u] = task[u]
  BY <1>1, <1>2, <1>3
<1>5. StateTyped'
  BY ZeroIs, TypedIs DEF BeginSleep, StateTyped, PmStates
<1>6. ModemTyped' /\ ModsTyped'
  BY TypedIs DEF BeginSleep, ModemTyped, ModsTyped, mods
<1>7. QED BY <1>4, <1>5, <1>6 DEF BeginSleep

LEMMA PerformTyped ==
  ASSUME Typed, NEW type, Perform(type)
  PROVE  /\ ModemTyped' /\ ModsTyped' /\ action' \in Actions /\ left' \in 0 .. ShutdownTime + DeepTime
         /\ UNCHANGED <<resets, daily>> => Limits'
<1> USE NumbersAre
<1>0. /\ ShutdownTime \in 0 .. ShutdownTime + DeepTime /\ DeepTime \in 0 .. ShutdownTime + DeepTime
      /\ 1 \in 0 .. ShutdownTime + DeepTime
  OBVIOUS
<1>1. CASE action = "NONE" /\ type = "SHUTDOWN" /\ Act("SHUTDOWN", "SHUTDOWN", ShutdownTime)
  BY <1>0, <1>1, ActTyped DEF Doings, Actions, Limits, ModemTyped
<1>2. CASE action = "NONE" /\ type = "REBOOT_4G" /\ resets < 2 * MaxResets /\ Act("RESET", "4G_RESET", 1)
  BY <1>0, <1>2, ActTyped DEF Doings, Actions, Limits, ModemTyped
<1>3. CASE action = "NONE" /\ type = "DEEPREBOOT_4G" /\ resets < MaxResets
           /\ Act("DEEPRESET", "4G_DEEP_RESET", DeepTime)
  BY <1>0, <1>3, ActTyped DEF Doings, Actions, Limits, ModemTyped
<1>4. CASE action = "NONE" /\ type = "REBOOT_4G_MCU" /\ daily < MaxResets
           /\ Act("DEEPRESET", "4G_MCU_RESET", DeepTime)
  BY <1>0, <1>4, ActTyped DEF Doings, Actions, Limits, ModemTyped
<1>5. CASE UNCHANGED <<modemvars, mods, action, left>>
  BY <1>5 DEF modemvars, mods, Typed, DeedTyped, Limits, ModemTyped, ModsTyped
<1>6. QED BY <1>1, <1>2, <1>3, <1>4, <1>5 DEF Perform

(* tbox_pm_action_do, in the task t, with the state and the count it leaves. *)
LEMMA DoTyped ==
  ASSUME Typed, NEW t \in Tasks, NEW type, NEW s \in PmStates, NEW w \in 0 .. StopTimeout - 1,
         NEW back \in {"idle", "modem", "night"}, Do(t, type, s, w, back), UNCHANGED <<call, acc>>
  PROVE  Typed'
<1>0. /\ abort' \in BOOLEAN /\ "reset" \in Pcs /\ back \in Pcs /\ task \in [Tasks -> TaskRec]
      /\ CallTyped'
  BY TypedIs DEF Do, DeedTyped, Pcs, Sleeping, CallTyped
<1>1. CASE BeginSleep(t, FALSE, back)
  <2>1. DeedTyped' /\ Limits'
    BY <1>0, <1>1, ZeroIs, TypedIs, BeginTyped DEF DeedTyped, Limits, Actions
  <2> QED BY <1>0, <1>1, <2>1, BeginTyped, TypedIs, Retyped
<1>2. CASE /\ Perform(type) /\ state' = s /\ waited' = w
           /\ Goto(t, IF action = "NONE" /\ type = "REBOOT_MCU" THEN "reset" ELSE back)
           /\ UNCHANGED <<post, reboot, resets, daily, night>>
  <2>1. task' \in [Tasks -> TaskRec]
    BY <1>0, <1>2, GotoIs
  <2>2. StateTyped' /\ DeedTyped' /\ Limits' /\ ModemTyped' /\ ModsTyped'
    BY <1>0, <1>2, PerformTyped, TypedIs DEF StateTyped, DeedTyped
  <2> QED BY <1>0, <1>2, <2>1, <2>2, TypedIs, Retyped
<1>3. QED BY <1>1, <1>2 DEF Do

LEMMA StopModulesTyped ==
  ASSUME Typed, StopModules \/ UNCHANGED <<state, waited, checking, mods>>,
         post' \in Posts, UNCHANGED <<reboot, modem, deep, on>>
  PROVE  StateTyped' /\ ModemTyped' /\ ModsTyped'
BY TypedIs, StopTyped, ZeroIs DEF StopModules, StateTyped, ModemTyped, PmStates

LEMMA RestTyped ==
  ASSUME Typed
  PROVE  /\ UNCHANGED deed => DeedTyped' /\ Limits'
         /\ UNCHANGED request => StateTyped'
         /\ UNCHANGED modemvars => ModemTyped'
         /\ UNCHANGED mods => ModsTyped'
         /\ UNCHANGED call => CallTyped'
BY TypedIs DEF deed, request, modemvars, mods, DeedTyped, Limits, StateTyped, ModemTyped, ModsTyped,
   CallTyped

(* The ticks of tbox_pm_state_timeout. *)
LEMMA TickTyped ==
  ASSUME Typed, NEW s, Tick(s) PROVE CallTyped' /\ acc' = acc
BY TypedIs DEF Tick, CallTyped

LEMMA TicksTyped ==
  ASSUME Typed, TickRunning \/ TickPreCheck \/ PreCheck \/ TickDoAction \/ CheckStartup
  PROVE  Typed'
<1>0. task \in [Tasks -> TaskRec] /\ "modem" \in Pcs /\ "precheck" \in Pcs /\ "action" \in Pcs
  BY TypedIs DEF Pcs
<1>1. CASE TickRunning
  BY <1>0, <1>1, TickTyped, GotoIs, PMIs, RestTyped, TypedIs, Retyped
     DEF TickRunning, StateTyped, PmStates
<1>2. CASE TickPreCheck
  <2>1. StateTyped' /\ ModemTyped' /\ ModsTyped'
    BY <1>2, StopModulesTyped, TypedIs DEF TickPreCheck, StateTyped
  <2> QED BY <1>0, <1>2, <2>1, TickTyped, GotoIs, PMIs, RestTyped, TypedIs, Retyped DEF TickPreCheck
<1>3. CASE PreCheck
  <2>1. StateTyped' /\ ModemTyped' /\ ModsTyped'
    <3>1. CASE StopModules /\ post' \in {"SLEEP", "SHUTDOWN"}
      BY <1>3, <3>1, StopModulesTyped DEF PreCheck, Posts
    <3>2. CASE state' = "RUNNING" /\ UNCHANGED <<post, waited, checking, mods>>
      BY <1>3, <3>2, TypedIs, StopTyped DEF PreCheck, StateTyped, ModemTyped, PmStates
    <3> QED BY <1>3, <3>1, <3>2 DEF PreCheck
  <2> QED BY <1>0, <1>3, <2>1, GotoIs, PMIs, RestTyped, TypedIs, Retyped DEF PreCheck
<1>4. CASE TickDoAction
  <2>1. DeedTyped' /\ Limits'
    BY <1>4, TypedIs DEF TickDoAction, DeedTyped, Limits
  <2> QED BY <1>0, <1>4, <2>1, TickTyped, GotoIs, PMIs, RestTyped, TypedIs, Retyped DEF TickDoAction
<1>5. CASE CheckStartup
  <2>1. ModemTyped' /\ ModsTyped'
    BY <1>5, TypedIs, StopTyped DEF CheckStartup, ModemTyped, modemvars, Request, Doings
  <2> QED BY <1>0, <1>5, <2>1, GotoIs, PMIs, RestTyped, TypedIs, Retyped DEF CheckStartup
<1>6. QED BY <1>1, <1>2, <1>3, <1>4, <1>5

LEMMA TickPostTyped == ASSUME Typed, TickPostCheck PROVE Typed'
<1>0. /\ task \in [Tasks -> TaskRec] /\ "modem" \in Pcs
      /\ CallTyped' /\ acc' = acc
  BY TickTyped, TypedIs DEF Pcs, TickPostCheck
<1>1. CASE Start(Modules) /\ state' = "RUNNING" /\ waited' = 0 /\ Goto(PM, "modem")
           /\ UNCHANGED <<post, reboot, deed, modemvars, night>>
  <2>1. StateTyped'
    BY <1>1, ZeroIs, TypedIs DEF StateTyped, PmStates
  <2> QED BY <1>0, <1>1, <2>1, StopTyped, GotoIs, PMIs, RestTyped, TypedIs, Retyped
<1>2. CASE ~Waited /\ waited' = Count /\ Goto(PM, "modem")
           /\ UNCHANGED <<state, post, reboot, deed, modemvars, mods, night>>
  <2>1. StateTyped'
    BY <1>2, NumbersAre, TypedIs DEF StateTyped, Waited, Count
  <2> QED BY <1>0, <1>2, <2>1, GotoIs, PMIs, RestTyped, TypedIs, Retyped
<1>3. CASE \E type : Do(PM, type, "DOACTION", 0, "modem")
  <2>1. PICK type : Do(PM, type, "DOACTION", 0, "modem")
    BY <1>3
  <2>2. abort' \in BOOLEAN /\ "reset" \in Pcs
    BY <2>1, TypedIs DEF Do, DeedTyped, Pcs, Sleeping
  <2>3. CASE BeginSleep(PM, FALSE, "modem")
    <3>1. DeedTyped' /\ Limits'
      BY <2>2, <2>3, ZeroIs, TypedIs, BeginTyped, PMIs DEF DeedTyped, Limits, Actions
    <3> QED BY <1>0, <2>3, <3>1, BeginTyped, TypedIs, Retyped, PMIs
  <2>4. CASE /\ Perform(type) /\ state' = "DOACTION" /\ waited' = 0
             /\ Goto(PM, IF action = "NONE" /\ type = "REBOOT_MCU" THEN "reset" ELSE "modem")
             /\ UNCHANGED <<post, reboot, resets, daily, night>>
    <3>1. task' \in [Tasks -> TaskRec]
      BY <1>0, <2>2, <2>4, GotoIs, PMIs
    <3>2. StateTyped' /\ DeedTyped' /\ Limits' /\ ModemTyped' /\ ModsTyped'
      BY <2>2, <2>4, PerformTyped, TypedIs, ZeroIs DEF StateTyped, DeedTyped, PmStates
    <3> QED BY <1>0, <2>4, <3>1, <3>2, TypedIs, Retyped
  <2> QED BY <2>1, <2>3, <2>4 DEF Do
<1>4. QED BY <1>1, <1>2, <1>3 DEF TickPostCheck

LEMMA TickFinishTyped == ASSUME Typed, TickFinish PROVE Typed'
<1>0. /\ task \in [Tasks -> TaskRec] /\ "modem" \in Pcs /\ CallTyped' /\ acc' = acc
  BY TickTyped, TypedIs DEF Pcs, TickFinish
<1>1. CASE Resume /\ Goto(PM, "modem") /\ UNCHANGED <<waited, reboot, deed, night>>
  <2>1. StateTyped'
    BY <1>1, TypedIs DEF Resume, Request, StateTyped, PmStates, Posts
  <2>2. ModemTyped'
    BY <1>1, TypedIs DEF Resume, Request, ModemTyped, modemvars, Doings
  <2>3. ModsTyped'
    BY <1>1, TypedIs, StopTyped DEF Resume
  <2> QED BY <1>0, <1>1, <2>1, <2>2, <2>3, GotoIs, PMIs, RestTyped, TypedIs, Retyped
<1>2. CASE BeginSleep(PM, post = "SHUTDOWN", "modem") /\ UNCHANGED abort
  <2>1. PICK cut \in BOOLEAN : BeginSleep(PM, cut, "modem")
    BY <1>2
  <2>2. DeedTyped' /\ Limits'
    BY <1>2, <2>1, ZeroIs, TypedIs, BeginTyped, PMIs DEF DeedTyped, Limits, Actions
  <2> QED BY <1>0, <2>1, <2>2, BeginTyped, TypedIs, Retyped, PMIs
<1>3. CASE Goto(PM, "modem") /\ UNCHANGED <<request, deed, modemvars, mods, night>>
  BY <1>0, <1>3, GotoIs, PMIs, RestTyped, TypedIs, Retyped
<1>4. QED BY <1>1, <1>2, <1>3 DEF TickFinish

LEMMA PeriodTyped ==
  ASSUME Typed, PeriodIdle \/ PeriodShutdown \/ PeriodReset \/ PeriodMcu PROVE Typed'
<1>0. /\ task \in [Tasks -> TaskRec] /\ "night" \in Pcs /\ "handle" \in Pcs
      /\ Left \in 0 .. ShutdownTime + DeepTime
  BY TypedIs, NumbersAre DEF Pcs, Left, DeedTyped
<1>1. CASE PeriodIdle
  <2>1. DeedTyped' /\ Limits'
    BY <1>0, <1>1, TypedIs DEF PeriodIdle, DeedTyped, Limits
  <2> QED BY <1>0, <1>1, <2>1, GotoIs, PMIs, RestTyped, TypedIs, Retyped DEF PeriodIdle, Period
<1>2. CASE PeriodShutdown
  <2>1. CASE abort
    <3>1. StateTyped' /\ DeedTyped' /\ Limits'
      BY <1>2, <2>1, ZeroIs, TypedIs DEF PeriodShutdown, StateTyped, DeedTyped, Limits, PmStates, Actions
    <3> QED BY <1>0, <1>2, <2>1, <3>1, GotoIs, PMIs, RestTyped, TypedIs, Retyped DEF PeriodShutdown, Period
  <2>2. CASE ~abort
    <3>1. BeginSleep(PM, TRUE, "night") /\ abort' = abort
      BY <1>2, <2>2 DEF PeriodShutdown
    <3>2. DeedTyped' /\ Limits'
      BY <3>1, ZeroIs, TypedIs, BeginTyped, PMIs DEF DeedTyped, Limits, Actions
    <3> QED BY <1>2, <3>1, <3>2, BeginTyped, RestTyped, TypedIs, Retyped, PMIs DEF PeriodShutdown, Period
  <2> QED BY <2>1, <2>2
<1>3. CASE PeriodReset
  <2>1. DeedTyped' /\ Limits'
    BY <1>3, ZeroIs, NumbersAre, TypedIs DEF PeriodReset, DeedTyped, Limits, Actions
  <2> QED BY <1>0, <1>3, <2>1, GotoIs, PMIs, RestTyped, TypedIs, Retyped DEF PeriodReset, Period
<1>4. CASE PeriodMcu
  <2>1. DeedTyped' /\ Limits'
    BY <1>4, ZeroIs, NumbersAre, TypedIs DEF PeriodMcu, DeedTyped, Limits, Actions
  <2>2. StateTyped' /\ CallTyped'
    BY <1>4, TypedIs DEF PeriodMcu, AskMcu, StateTyped, CallTyped
  <2> QED BY <1>0, <1>4, <2>1, <2>2, GotoIs, PMIs, RestTyped, TypedIs, Retyped DEF PeriodMcu, Period, AskMcu
<1>5. QED BY <1>1, <1>2, <1>3, <1>4

LEMMA NightsTyped ==
  ASSUME Typed, NightIdle \/ NightStart \/ NightFinish PROVE Typed'
<1>0. task \in [Tasks -> TaskRec] /\ "idle" \in Pcs
  BY TypedIs DEF Pcs
<1>1. CASE NightIdle
  <2>1. StateTyped' /\ DeedTyped' /\ Limits'
    BY <1>1, TypedIs DEF NightIdle, Night, StateTyped, DeedTyped, Limits
  <2> QED BY <1>0, <1>1, <2>1, GotoIs, PMIs, RestTyped, TypedIs, Retyped DEF NightIdle, Night
<1>2. CASE NightStart
  <2>1. CASE action = "NONE" /\ daily < MaxResets
    <3>1. Act("DEEPRESET", "4G_MCU_RESET", DeepTime)
      BY <1>2, <2>1 DEF NightStart
    <3>2. DeepTime \in 0 .. ShutdownTime + DeepTime
      BY NumbersAre
    <3>3. /\ action' \in Actions /\ left' \in 0 .. ShutdownTime + DeepTime
          /\ ModemTyped' /\ ModsTyped' /\ action' = "4G_MCU_RESET"
      BY <3>1, <3>2, ActTyped DEF Doings, Actions, ModemTyped
    <3>4. StateTyped' /\ DeedTyped' /\ Limits'
      BY <1>2, <2>1, <3>3, TypedIs DEF NightStart, Night, StateTyped, DeedTyped, Limits, Posts, Reboots
    <3> QED BY <1>0, <1>2, <2>1, <3>3, <3>4, GotoIs, PMIs, RestTyped, TypedIs, Retyped
            DEF NightStart, Night
  <2>2. CASE ~(action = "NONE" /\ daily < MaxResets)
    <3>1. StateTyped' /\ DeedTyped' /\ Limits'
      BY <1>2, <2>2, TypedIs DEF NightStart, Night, StateTyped, DeedTyped, Limits
    <3> QED BY <1>0, <1>2, <2>2, <3>1, GotoIs, PMIs, RestTyped, TypedIs, Retyped DEF NightStart, Night
  <2> QED BY <2>1, <2>2
<1>3. CASE NightFinish
  <2>1. StateTyped' /\ DeedTyped' /\ Limits'
    BY <1>3, TypedIs DEF NightFinish, Night, StateTyped, DeedTyped, Limits
  <2> QED BY <1>0, <1>3, <2>1, GotoIs, PMIs, RestTyped, TypedIs, Retyped DEF NightFinish, Night
<1>4. QED BY <1>1, <1>2, <1>3

LEMMA ModemTimeoutTyped == ASSUME Typed, ModemTimeout PROVE Typed'
<1>1. ModemTyped'
  BY TypedIs DEF ModemTimeout, ModemTyped, Doings, Stages
<1>2. ModsTyped'
  BY TypedIs, StopTyped DEF ModemTimeout
<1>3. QED BY <1>1, <1>2, RestTyped, TypedIs, Retyped DEF ModemTimeout

LEMMA CallersTyped ==
  ASSUME Typed, NEW t \in Tasks, Ask(t) \/ Set(t) \/ DoReboot(t) \/ Handle(t) PROVE Typed'
<1>0. /\ task \in [Tasks -> TaskRec] /\ {"idle", "night", "set", "do", "handle"} \subseteq Pcs
      /\ call \in [Tasks -> [type : Reboots, old : PmStates, fresh : BOOLEAN]]
  BY TypedIs DEF Pcs
<1>1. CASE Ask(t)
  <2>1. PICK type \in Types : call' = [call EXCEPT ![t].type = type, ![t].fresh = TRUE]
    BY <1>1 DEF Ask
  <2>2. CallTyped'
    BY <1>0, <2>1, PowerAssumption DEF CallTyped
  <2> QED BY <1>0, <1>1, <2>2, GotoIs, RestTyped, TypedIs, Retyped DEF Ask
<1>2. CASE Set(t)
  <2>1. CASE AskMcu(t)
    <3>1. StateTyped' /\ CallTyped'
      BY <1>0, <2>1, TypedIs DEF AskMcu, StateTyped, CallTyped
    <3> QED BY <1>0, <1>2, <2>1, <3>1, GotoIs, RestTyped, TypedIs, Retyped DEF Set, AskMcu
  <2>2. CASE post' = call[t].type /\ Goto(t, "do") /\ UNCHANGED <<state, waited, reboot, call>>
    <3>1. StateTyped'
      BY <1>0, <2>2, TypedIs DEF StateTyped, Posts
    <3> QED BY <1>0, <1>2, <2>2, <3>1, GotoIs, RestTyped, TypedIs, Retyped DEF Set
  <2> QED BY <1>2, <2>1, <2>2 DEF Set
<1>3. CASE DoReboot(t)
  <2>1. state \in PmStates /\ waited \in 0 .. StopTimeout - 1
    BY TypedIs DEF StateTyped
  <2> QED BY <1>3, <2>1, DoTyped DEF DoReboot
<1>4. CASE Handle(t)
  <2>1. StateTyped' /\ ModemTyped' /\ ModsTyped'
    <3>1. StopModules \/ UNCHANGED <<state, waited, checking, mods>> \/
          (state' = "SLEEP_PRE_CHECK" /\ UNCHANGED <<waited, checking, mods>>)
      BY <1>4 DEF Handle
    <3>2. post' \in Posts /\ UNCHANGED <<reboot, modem, deep, on>>
      BY <1>4, TypedIs DEF Handle, StateTyped, Posts, Reboots, modemvars
    <3>3. CASE state' = "SLEEP_PRE_CHECK" /\ UNCHANGED <<waited, checking, mods>>
      BY <3>2, <3>3, TypedIs, StopTyped DEF StateTyped, ModemTyped, PmStates
    <3> QED BY <3>1, <3>2, <3>3, StopModulesTyped
  <2>2. Goto(t, IF t = PM THEN "night" ELSE "idle")
    BY <1>4 DEF Handle
  <2> QED BY <1>0, <1>4, <2>1, <2>2, GotoIs, RestTyped, TypedIs, Retyped DEF Handle
<1>5. QED BY <1>1, <1>2, <1>3, <1>4

LEMMA SleepTyped ==
  ASSUME Typed, NEW t \in Tasks, FallAsleep(t) \/ OtherWake(t) \/ WakeUp(t) PROVE Typed'
<1>0. /\ task \in [Tasks -> TaskRec] /\ task[t].back \in {"idle", "modem", "night"}
      /\ {"asleep", "wake", "idle", "modem", "night"} \subseteq Pcs
  BY TypedIs DEF Pcs, Sleeping, TaskRec
<1>1. CASE FallAsleep(t)
  <2>1. task' \in [Tasks -> TaskRec]
    BY <1>0, <1>1 DEF FallAsleep, TaskRec
  <2>2. ModemTyped'
    BY <1>1, TypedIs DEF FallAsleep, ModemTyped, TaskRec
  <2> QED BY <1>1, <2>1, <2>2, RestTyped, TypedIs, Retyped DEF FallAsleep
<1>2. CASE OtherWake(t)
  <2>1. task' \in [Tasks -> TaskRec]
    BY <1>0, <1>2 DEF OtherWake, TaskRec
  <2> QED BY <1>2, <2>1, RestTyped, TypedIs, Retyped DEF OtherWake
<1>3. CASE WakeUp(t)
  <2>1. StateTyped' /\ (Start(Modules) \/ UNCHANGED mods)
    BY <1>3, ZeroIs, TypedIs DEF WakeUp, Wakened, StateTyped, PmStates, Posts, request
  <2>2. ModsTyped'
    BY <2>1, TypedIs, StopTyped
  <2>3. ModemTyped' /\ DeedTyped' /\ Limits'
    BY <1>3, ZeroIs, NumbersAre, TypedIs
       DEF WakeUp, ModemTyped, DeedTyped, Limits, Actions, Doings, Stages
  <2>4. Goto(t, task[t].back) /\ UNCHANGED <<night, call, acc>>
    BY <1>3 DEF WakeUp
  <2> QED BY <1>0, <2>1, <2>2, <2>3, <2>4, GotoIs, RestTyped, TypedIs, Retyped
<1>4. QED BY <1>1, <1>2, <1>3

LEMMA OthersTyped ==
  ASSUME Typed, KeyTurns \/ \E m \in Modules : ModuleStops(m) PROVE Typed'
<1>1. CASE KeyTurns
  <2>1. task' \in [Tasks -> TaskRec]
    <3>1. "wake" \in Pcs /\ task \in [Tasks -> TaskRec]
      BY TypedIs DEF Pcs, Sleeping
    <3>2. \A t \in Tasks : [task[t] EXCEPT !.pc = "wake"] \in TaskRec /\ task[t] \in TaskRec
      BY <3>1 DEF TaskRec
    <3> QED BY <1>1, <3>2 DEF KeyTurns
  <2> QED BY <1>1, <2>1, RestTyped, TypedIs, Retyped DEF KeyTurns
<1>2. CASE \E m \in Modules : ModuleStops(m)
  <2>1. ModsTyped'
    BY <1>2, TypedIs DEF ModuleStops, ModsTyped
  <2> QED BY <1>2, <2>1, RestTyped, TypedIs, Retyped DEF ModuleStops
<1>3. QED BY <1>1, <1>2

LEMMA TypesNext == Typed /\ [Next]_vars => Typed'
<1> SUFFICES ASSUME Typed, [Next]_vars PROVE Typed'
  OBVIOUS
<1>1. CASE UNCHANGED vars
  BY <1>1, RestTyped, TypedIs, Retyped DEF vars
<1>2. CASE \E c \in Callers : Ask(c)
  BY <1>2, CallersTyped, PMIs
<1>3. CASE \E t \in Tasks : Steps(t) \/ FallAsleep(t) \/ OtherWake(t) \/ WakeUp(t)
  BY <1>3, CallersTyped, SleepTyped DEF Steps
<1>4. CASE PMSteps
  BY <1>4, TicksTyped, TickPostTyped, TickFinishTyped, PeriodTyped, NightsTyped DEF PMSteps
<1>5. QED BY <1>1, <1>2, <1>3, <1>4, ModemTimeoutTyped, OthersTyped DEF Next

(* The types of PowerState: in particular the ticks counted in             *)
(* SLEEP_POST_CHECK stay below TBOX_PM_STATE_WAIT_STOP_TIMEOUT, and the    *)
(* resets of the modem at most what tbox_pm_action_is_cando allows.        *)
THEOREM PowerTypes == Spec => []TypeOK
<1>1. Typed => TypeOK
  BY DEF Typed, TypeOK, StateTyped, DeedTyped, ModemTyped, ModsTyped, NightTyped, TaskTyped,
     CallTyped, TaskRec
<1>2. QED BY <1>1, TypesInit, TypesNext, PTL DEF Spec

-----------------------------------------------------------------------------
(* Where the power manager's task goes with each of its steps, which leave *)
(* the other tasks where they are.                                         *)
Others == \A c \in Callers : task'[c] = task[c] /\ call'[c].type = call[c].type
                             /\ call'[c].old = call[c].old
PmGoes(pc) == Others /\ task'[PM].pc = pc /\ ~task'[PM].cut /\ UNCHANGED acc
PmSleeps(cut) == Others /\ task'[PM].pc = "stop" /\ task'[PM].cut = cut /\ UNCHANGED acc

LEMMA PmMoves ==
  ASSUME Typed, UNCHANGED acc,
         \A c \in Callers : call'[c].type = call[c].type /\ call'[c].old = call[c].old
  PROVE  /\ \A pc \in Pcs : Goto(PM, pc) => PmGoes(pc)
         /\ \A cut \in BOOLEAN, back \in {"idle", "modem", "night"} :
              BeginSleep(PM, cut, back) => PmSleeps(cut)
<1>1. ASSUME NEW pc \in Pcs, Goto(PM, pc) PROVE PmGoes(pc)
  BY <1>1, GotoIs, PMIs, TypedIs DEF PmGoes, Others
<1>2. ASSUME NEW cut \in BOOLEAN, NEW back \in {"idle", "modem", "night"}, BeginSleep(PM, cut, back)
      PROVE  PmSleeps(cut)
  BY <1>2, BeginTyped, PMIs, TypedIs DEF PmSleeps, Others
<1>3. QED BY <1>1, <1>2

LEMMA TickCalls ==
  ASSUME Typed, NEW s, Tick(s)
  PROVE  /\ UNCHANGED acc /\ task[PM].pc = "idle" /\ state = s
         /\ \A c \in Callers : call'[c].type = call[c].type /\ call'[c].old = call[c].old
BY TypedIs, PMIs DEF Tick

LEMMA TicksGo ==
  ASSUME Typed
  PROVE  /\ TickRunning \/ PreCheck \/ TickDoAction => PmGoes("modem")
         /\ TickPreCheck => PmGoes(IF post = "REBOOT_MCU" THEN "modem" ELSE "precheck")
         /\ CheckStartup => PmGoes("action")
<1>0. "modem" \in Pcs /\ "precheck" \in Pcs /\ "action" \in Pcs
  BY DEF Pcs
<1>1. TickRunning \/ TickDoAction => PmGoes("modem")
  BY <1>0, PmMoves, TickCalls DEF TickRunning, TickDoAction
<1>2. PreCheck => PmGoes("modem")
  BY <1>0, PmMoves DEF PreCheck
<1>3. TickPreCheck => PmGoes(IF post = "REBOOT_MCU" THEN "modem" ELSE "precheck")
  BY <1>0, PmMoves, TickCalls DEF TickPreCheck
<1>4. CheckStartup => PmGoes("action")
  BY <1>0, PmMoves DEF CheckStartup
<1>5. QED BY <1>1, <1>2, <1>3, <1>4

(* What the tick in FINISH does. *)
LEMMA TickFinishGoes ==
  ASSUME Typed, TickFinish
  PROVE  \/ acc /\ Resume /\ PmGoes("modem") /\ UNCHANGED <<waited, reboot, deed, night>>
         \/ ~acc /\ post = "SHUTDOWN" /\ BeginSleep(PM, TRUE, "modem") /\ PmSleeps(TRUE)
         \/ ~acc /\ post = "SLEEP" /\ BeginSleep(PM, FALSE, "modem") /\ PmSleeps(FALSE)
         \/ /\ ~acc /\ post \notin {"SLEEP", "SHUTDOWN"} /\ PmGoes("modem")
            /\ UNCHANGED <<request, deed, modemvars, mods, night>>
<1>1. /\ UNCHANGED acc
      /\ \A c \in Callers : call'[c].type = call[c].type /\ call'[c].old = call[c].old
  BY TickCalls DEF TickFinish
<1>2. Goto(PM, "modem") => PmGoes("modem")
  BY <1>1, PmMoves DEF Pcs
<1>3. CASE acc /\ Resume /\ Goto(PM, "modem") /\ UNCHANGED <<waited, reboot, deed, night>>
  BY <1>2, <1>3
<1>4. CASE ~acc /\ post \in {"SLEEP", "SHUTDOWN"} /\ BeginSleep(PM, post = "SHUTDOWN", "modem")
  <2>1. CASE post = "SHUTDOWN"
    <3>1. (post = "SHUTDOWN") = TRUE
      BY <2>1
    <3>2. BeginSleep(PM, TRUE, "modem")
      BY <1>4, <3>1 DEF BeginSleep
    <3> QED BY <1>1, <1>4, <2>1, <3>2, PmMoves
  <2>2. CASE post = "SLEEP"
    <3>1. (post = "SHUTDOWN") = FALSE
      BY <2>2
    <3>2. BeginSleep(PM, FALSE, "modem")
      BY <1>4, <3>1 DEF BeginSleep
    <3> QED BY <1>1, <1>4, <2>2, <3>2, PmMoves
  <2> QED BY <1>4, <2>1, <2>2
<1>5. CASE ~acc /\ post \notin {"SLEEP", "SHUTDOWN"} /\ Goto(PM, "modem")
           /\ UNCHANGED <<request, deed, modemvars, mods, night>>
  BY <1>2, <1>5
<1>6. QED BY <1>3, <1>4, <1>5 DEF TickFinish

(* What the tick in SLEEP_POST_CHECK does. *)
LEMMA TickPostGoes ==
  ASSUME Typed, TickPostCheck
  PROVE  \/ /\ post # "REBOOT_MCU" /\ Start(Modules) /\ state' = "RUNNING" /\ PmGoes("modem")
            /\ UNCHANGED <<post, reboot, deed, modemvars, night>>
         \/ ~Waited /\ PmGoes("modem") /\ UNCHANGED <<state, post, reboot, deed, modemvars, mods, night>>
         \/ /\ Waited /\ post \notin {"SHUTDOWN", "REBOOT_MCU"} /\ action = "NONE"
            /\ BeginSleep(PM, FALSE, "modem") /\ PmSleeps(FALSE)
         \/ /\ Waited /\ state' = "DOACTION" /\ waited' = 0
            /\ Perform(IF post \in {"SHUTDOWN", "REBOOT_MCU"} THEN post ELSE "SLEEP")
            /\ PmGoes(IF action = "NONE" /\ post = "REBOOT_MCU" THEN "reset" ELSE "modem")
            /\ UNCHANGED <<post, reboot, resets, daily, night>>
<1>0. {"modem", "reset"} \subseteq Pcs
  BY DEF Pcs
<1>1. /\ \A pc \in Pcs : Goto(PM, pc) => PmGoes(pc)
      /\ BeginSleep(PM, FALSE, "modem") => PmSleeps(FALSE)
  BY PmMoves, TickCalls DEF TickPostCheck
<1>2. CASE post # "REBOOT_MCU" /\ Start(Modules) /\ state' = "RUNNING" /\ Goto(PM, "modem")
           /\ UNCHANGED <<post, reboot, deed, modemvars, night>>
  BY <1>0, <1>1, <1>2
<1>3. CASE ~Waited /\ Goto(PM, "modem") /\ UNCHANGED <<state, post, reboot, deed, modemvars, mods, night>>
  BY <1>0, <1>1, <1>3
<1>4. CASE Waited /\ Do(PM, IF post \in {"SHUTDOWN", "REBOOT_MCU"} THEN post ELSE "SLEEP",
                        "DOACTION", 0, "modem")
  <2> DEFINE type == IF post \in {"SHUTDOWN", "REBOOT_MCU"} THEN post ELSE "SLEEP"
  <2>1. type = "SLEEP" <=> post \notin {"SHUTDOWN", "REBOOT_MCU"}
    OBVIOUS
  <2>2. type = "REBOOT_MCU" <=> post = "REBOOT_MCU"
    OBVIOUS
  <2>3. Do(PM, type, "DOACTION", 0, "modem")
    BY <1>4
  <2> HIDE DEF type
  <2>4. CASE action = "NONE" /\ type = "SLEEP"
    BY <1>1, <1>4, <2>1, <2>3, <2>4 DEF Do
  <2>5. CASE ~(action = "NONE" /\ type = "SLEEP")
    <3>1. /\ Perform(type) /\ state' = "DOACTION" /\ waited' = 0
          /\ Goto(PM, IF action = "NONE" /\ type = "REBOOT_MCU" THEN "reset" ELSE "modem")
          /\ UNCHANGED <<post, reboot, resets, daily, night>>
      BY <2>3, <2>5 DEF Do
    <3>2. PmGoes(IF action = "NONE" /\ post = "REBOOT_MCU" THEN "reset" ELSE "modem")
      BY <1>0, <1>1, <2>2, <3>1
    <3> QED BY <1>4, <3>1, <3>2 DEF type
  <2> QED BY <2>4, <2>5
<1>5. QED BY <1>2, <1>3, <1>4 DEF TickPostCheck

LEMMA PeriodsGo ==
  ASSUME Typed
  PROVE  /\ PeriodIdle \/ PeriodReset => PmGoes("night")
         /\ PeriodShutdown => IF abort THEN PmGoes("night")
                              ELSE BeginSleep(PM, TRUE, "night") /\ PmSleeps(TRUE)
         /\ PeriodMcu => PmGoes("handle") /\ call'[PM].old = state
         /\ NightIdle \/ NightStart \/ NightFinish => PmGoes("idle")
<1>0. {"night", "handle", "idle"} \subseteq Pcs
  BY DEF Pcs
<1>1. PeriodIdle \/ PeriodReset => PmGoes("night")
  BY <1>0, PmMoves DEF PeriodIdle, PeriodReset, Period
<1>2. PeriodShutdown => IF abort THEN PmGoes("night")
                        ELSE BeginSleep(PM, TRUE, "night") /\ PmSleeps(TRUE)
  BY <1>0, PmMoves DEF PeriodShutdown, Period
<1>3. PeriodMcu => PmGoes("handle") /\ call'[PM].old = state
  <2> SUFFICES ASSUME PeriodMcu PROVE PmGoes("handle") /\ call'[PM].old = state
    OBVIOUS
  <2>1. Goto(PM, "handle") /\ call' = [call EXCEPT ![PM].old = state] /\ UNCHANGED acc
    BY DEF PeriodMcu, Period, AskMcu
  <2>2. /\ \A c \in Callers : call'[c].type = call[c].type /\ call'[c].old = call[c].old
        /\ call'[PM].old = state
    BY <2>1, PMIs, TypedIs
  <2> QED BY <1>0, <2>1, <2>2, PmMoves
<1>4. NightIdle \/ NightStart \/ NightFinish => PmGoes("idle")
  BY <1>0, PmMoves DEF NightIdle, NightStart, NightFinish, Night
<1>5. QED BY <1>1, <1>2, <1>3, <1>4
-----------------------------------------------------------------------------
(* A task that is to do what it entered asked for a reboot of the modem.   *)
Asked == /\ task[PM].pc \notin {"set", "do"}
         /\ \A c \in Callers : task[c].pc = "do" => call[c].type # "REBOOT_MCU"

LEMMA AskedInit == Init => Asked
BY PMIs DEF Init, Asked, At

LEMMA CallerGoes ==
  ASSUME Typed, NEW c \in Callers, NEW pc \in Pcs, Goto(c, pc)
  PROVE  /\ task'[c].pc = pc
         /\ \A u \in Tasks : u # c => task'[u] = task[u]
BY GotoIs, PMIs, TypedIs

LEMMA PmStepsGo ==
  ASSUME Typed, PMSteps
  PROVE  Others /\ task'[PM].pc \notin {"set", "do"} /\ (task'[PM].pc = "reset" => TickPostCheck)
<1>1. CASE TickPostCheck
  BY <1>1, TickPostGoes DEF PmGoes, PmSleeps
<1>2. CASE PeriodShutdown
  BY <1>2, PeriodsGo DEF PmGoes, PmSleeps
<1>3. CASE TickFinish
  BY <1>3, TickFinishGoes DEF PmGoes, PmSleeps
<1>4. CASE PeriodIdle \/ PeriodReset \/ PeriodMcu \/ NightIdle \/ NightStart \/ NightFinish
  BY <1>4, PeriodsGo DEF PmGoes
<1>5. CASE TickRunning \/ TickPreCheck \/ PreCheck \/ TickDoAction \/ CheckStartup
  BY <1>5, TicksGo DEF PmGoes
<1>6. QED BY <1>1, <1>2, <1>3, <1>4, <1>5 DEF PMSteps

(* What a caller's steps up to tbox_pm_action_do leave, and where they go. *)
LEMMA CallersGo ==
  ASSUME Typed, Asked, NEW c \in Callers, Ask(c) \/ Set(c) \/ DoReboot(c)
  PROVE  /\ Asked'
         /\ \A u \in Tasks : u # c => task'[u] = task[u]
         /\ task'[c].pc = "reset" => Replaced(c)
<1>0. {"set", "do", "handle", "idle", "reset"} \subseteq Pcs /\ c \in Tasks /\ c # PM
  BY PMIs DEF Pcs
<1>1. CASE Ask(c)
  <2>1. PICK type \in Types : call' = [call EXCEPT ![c].type = type, ![c].fresh = TRUE]
    BY <1>1 DEF Ask
  <2>2. \A d \in Callers : d # c => call'[d] = call[d]
    BY <2>1, PMIs, TypedIs
  <2>3. task'[c].pc = "set" /\ \A u \in Tasks : u # c => task'[u] = task[u]
    BY <1>0, <1>1, CallerGoes DEF Ask
  <2> QED BY <1>0, <2>2, <2>3, PMIs DEF Asked
<1>2. CASE Set(c)
  <2>1. \A d \in Callers : call'[d].type = call[d].type
    BY <1>2, PMIs, TypedIs DEF Set, AskMcu
  <2>2. /\ task'[c].pc = IF call[c].type = "REBOOT_MCU" THEN "handle" ELSE "do"
        /\ \A u \in Tasks : u # c => task'[u] = task[u]
    BY <1>0, <1>2, CallerGoes DEF Set, AskMcu
  <2> QED BY <1>0, <2>1, <2>2, PMIs DEF Asked
<1>3. CASE DoReboot(c)
  <2>1. /\ task'[c].pc \in {"stop", "reset", "idle"}
        /\ \A u \in Tasks : u # c => task'[u] = task[u]
        /\ task'[c].pc = "reset" => post = "REBOOT_MCU"
    <3>1. CASE BeginSleep(c, FALSE, "idle")
      BY <1>0, <3>1, BeginTyped
    <3>2. CASE Goto(c, IF action = "NONE" /\ post = "REBOOT_MCU" THEN "reset" ELSE "idle")
      BY <1>0, <3>2, CallerGoes
    <3> QED BY <1>3, <3>1, <3>2 DEF DoReboot, Do
  <2>2. call' = call /\ task[c].pc = "do"
    BY <1>3 DEF DoReboot
  <2> QED BY <1>0, <2>1, <2>2, PMIs DEF Asked, Replaced
<1>4. QED BY <1>1, <1>2, <1>3

(* The rest of a reboot of the MCU that was asked for, and the sleep.      *)
LEMMA TaskGoes ==
  ASSUME Typed, NEW t \in Tasks, Handle(t) \/ FallAsleep(t) \/ OtherWake(t) \/ WakeUp(t)
  PROVE  /\ UNCHANGED <<call, acc>>
         /\ \A u \in Tasks : u # t => task'[u] = task[u]
         /\ Handle(t) => task[t].pc = "handle" /\ task'[t].pc = IF t = PM THEN "night" ELSE "idle"
         /\ FallAsleep(t) => task[t].pc = "stop" /\ task'[t].pc = "asleep" /\ task'[t].cut = task[t].cut
         /\ OtherWake(t) => task[t].pc = "asleep" /\ task'[t].pc = "wake" /\ task'[t].cut = task[t].cut
         /\ WakeUp(t) => task[t].pc = "wake" /\ task'[t].pc \in {"idle", "modem", "night"}
<1>0. {"idle", "night", "modem"} \subseteq Pcs /\ task \in [Tasks -> TaskRec]
  BY TypedIs DEF Pcs
<1>1. CASE Handle(t)
  <2>1. Goto(t, IF t = PM THEN "night" ELSE "idle") /\ UNCHANGED <<call, acc>> /\ task[t].pc = "handle"
    BY <1>1 DEF Handle
  <2> QED BY <1>0, <2>1, GotoIs DEF FallAsleep, OtherWake, WakeUp
<1>2. CASE FallAsleep(t)
  BY <1>0, <1>2 DEF FallAsleep, TaskRec, Handle, OtherWake, WakeUp
<1>3. CASE OtherWake(t)
  BY <1>0, <1>3 DEF FallAsleep, TaskRec, Handle, OtherWake, WakeUp
<1>4. CASE WakeUp(t)
  <2>1. Goto(t, task[t].back) /\ UNCHANGED <<call, acc>> /\ task[t].pc = "wake"
    BY <1>4 DEF WakeUp
  <2>2. task[t].back \in {"idle", "modem", "night"}
    BY <1>0 DEF TaskRec
  <2> QED BY <1>0, <2>1, <2>2, GotoIs DEF FallAsleep, OtherWake, Handle
<1>5. QED BY <1>1, <1>2, <1>3, <1>4

LEMMA KeyMoves ==
  ASSUME Typed, KeyTurns
  PROVE  /\ UNCHANGED <<request, deed, modemvars, mods, night, call>>
         /\ \A t \in Tasks : /\ task'[t].cut = task[t].cut
                            /\ \/ task'[t].pc = task[t].pc
                               \/ task[t].pc = "asleep" /\ task'[t].pc = "wake"
BY TypedIs DEF KeyTurns, TaskRec

LEMMA AskedNext ==
  ASSUME Typed, Asked, Next
  PROVE  /\ Asked'
         /\ \A t \in Tasks : task'[t].pc = "reset" =>
              \/ task[t].pc = "reset"
              \/ t = PM /\ TickPostCheck
              \/ t \in Callers /\ Replaced(t)
<1>1. CASE PMSteps
  <2>1. Others /\ task'[PM].pc \notin {"set", "do"} /\ (task'[PM].pc = "reset" => TickPostCheck)
    BY <1>1, PmStepsGo
  <2>2. Asked'
    BY <2>1 DEF Asked, Others
  <2>3. ASSUME NEW t \in Tasks, task'[t].pc = "reset"
        PROVE  task[t].pc = "reset" \/ (t = PM /\ TickPostCheck)
    <3>1. CASE t = PM
      BY <2>1, <2>3, <3>1
    <3>2. CASE t \in Callers
      BY <2>1, <2>3, <3>2 DEF Others
    <3> QED BY <3>1, <3>2 DEF Tasks
  <2> QED BY <2>2, <2>3
<1>2. ASSUME NEW c \in Callers, Ask(c) \/ Set(c) \/ DoReboot(c)
      PROVE  /\ Asked'
             /\ \A t \in Tasks : task'[t].pc = "reset" => task[t].pc = "reset" \/ (t = c /\ Replaced(c))
  BY <1>2, CallersGo
<1>3. CASE ModemTimeout \/ \E m \in Modules : ModuleStops(m)
  BY <1>3 DEF ModemTimeout, ModuleStops, Asked
<1>4. ASSUME NEW t \in Tasks, Handle(t) \/ FallAsleep(t) \/ OtherWake(t) \/ WakeUp(t)
      PROVE  /\ Asked'
             /\ \A u \in Tasks : task'[u].pc = "reset" => task[u].pc = "reset"
  <2>1. /\ call' = call /\ \A u \in Tasks : u # t => task'[u] = task[u]
        /\ task'[t].pc \in {"idle", "night", "modem", "asleep", "wake"}
    BY <1>4, TaskGoes
  <2> QED BY <2>1, PMIs DEF Asked
<1>5. CASE KeyTurns
  BY <1>5, KeyMoves, PMIs DEF Asked
<1>6. ~Set(PM) /\ ~DoReboot(PM)
  BY DEF Asked, Set, DoReboot
<1>7. QED BY <1>1, <1>2, <1>3, <1>4, <1>5, <1>6 DEF Next, Steps, Tasks

(* The MCU is reset only after its modules stopped, or had their time to,  *)
(* whatever reboots are asked for: the reset is a power action of          *)
(* tbox_pm_timeout_in_sleeppostcheck and of no other path, but for the     *)
(* task that finds its reboot of the modem replaced in tbox_pm_reboot.     *)
THEOREM ResetsWait == Spec => ResetAfterStop
<1>1. Typed /\ Asked /\ [Next]_vars => Asked'
  <2>1. CASE UNCHANGED vars
    BY <2>1 DEF vars, Asked
  <2> QED BY <2>1, AskedNext
<1>2. ASSUME Typed, Asked, [Next]_vars
      PROVE  [~Running' => \/ state = "SLEEP_POST_CHECK" /\ (AllStopped \/ waited + 1 >= StopTimeout)
                           \/ \E c \in Callers : Replaced(c) /\ task'[c].pc = "reset"]_vars
  <2> SUFFICES ASSUME Next, ~Running', \A c \in Callers : ~(Replaced(c) /\ task'[c].pc = "reset")
               PROVE  state = "SLEEP_POST_CHECK" /\ (AllStopped \/ waited + 1 >= StopTimeout)
    BY <1>2
  <2>1. PICK t \in Tasks : task'[t].pc = "reset"
    BY DEF Running
  <2>2. task[t].pc # "reset"
    BY DEF Next, Running
  <2>3. TickPostCheck /\ t = PM
    BY <1>2, <2>1, <2>2, AskedNext
  <2>4. state = "SLEEP_POST_CHECK"
    BY <1>2, <2>3, TickCalls DEF TickPostCheck
  <2>5. Waited
    BY <1>2, <2>1, <2>3, TickPostGoes DEF PmGoes, PmSleeps
  <2> QED BY <2>4, <2>5 DEF Waited, Count
<1>3. QED
  BY <1>1, <1>2, TypesInit, TypesNext, AskedInit, PTL DEF Spec, ResetAfterStop
-----------------------------------------------------------------------------
(* A reboot of the MCU overtakes the power manager, or is overtaken:       *)
(* tbox_pm_reboot read the state, gave the mutex back and calls the        *)
(* handler of a state that was left meanwhile; or it stops the modules     *)
(* while the power manager is in the middle of the pre-check, which it     *)
(* then ends as if they ran.                                               *)
Outdated(t) == Handle(t) /\ reboot /\ call[t].old # state
Intrudes(t) == Handle(t) /\ StopModules /\ task[PM].pc = "precheck"
Overtaken   == \E t \in Tasks : Outdated(t) \/ Intrudes(t)

(* Where no module that stops at once has been stopped.                    *)
SyncRuns == \A m \in Sync : module[m] = "START"
SyncSame == SyncRuns => SyncRuns'
Up == state \in {"RUNNING", "SLEEP_PRE_CHECK"} \/ task[PM].pc = "precheck"
SyncKept == Up => SyncRuns

(* Only the stop of all modules stops them.                                *)
LEMMA SyncSafe ==
  ASSUME Typed
  PROVE  /\ UNCHANGED mods => SyncSame
         /\ \A ms : Start(ms) => SyncSame
         /\ Start(Modules) => SyncRuns'
         /\ \A m \in Modules : ModuleStops(m) => SyncSame
         /\ \A type : Perform(type) => SyncSame
         /\ Act("DEEPRESET", "4G_MCU_RESET", DeepTime) => SyncSame
<1>0. Sync \cap Async = {} /\ Modem4G \notin Sync /\ ModsTyped
  BY PowerAssumption, TypedIs
<1>1. /\ UNCHANGED mods => SyncSame
      /\ \A ms : Start(ms) => SyncSame
      /\ Start(Modules) => SyncRuns'
      /\ \A m \in Modules : ModuleStops(m) => SyncSame
      /\ Stop({Modem4G}) => SyncSame
  BY <1>0 DEF mods, SyncSame, SyncRuns, Start, Stop, ModuleStops, ModsTyped, Modules
<1>2. RequestDeep => SyncSame
  BY <1>1 DEF RequestDeep
<1>3. \A d, a, k : Act(d, a, k) => SyncSame
  BY <1>1, <1>2 DEF Act
<1>4. \A type : Perform(type) => SyncSame
  BY <1>1, <1>3 DEF Perform
<1>5. QED BY <1>1, <1>3, <1>4

LEMMA SyncPm ==
  ASSUME Typed, SyncKept, PMSteps PROVE SyncKept'
<1>1. CASE TickRunning
  BY <1>1, SyncSafe, TickCalls DEF TickRunning, SyncKept, Up, SyncSame
<1>2. CASE TickPreCheck
  <2>1. CASE post = "REBOOT_MCU" /\ StopModules
    BY <1>2, <2>1, TicksGo DEF StopModules, SyncKept, Up, PmGoes
  <2>2. CASE UNCHANGED <<state, mods>>
    BY <1>2, <2>2, SyncSafe, TickCalls DEF TickPreCheck, SyncKept, Up, SyncSame
  <2> QED BY <1>2, <2>1, <2>2 DEF TickPreCheck
<1>3. CASE PreCheck
  <2>1. CASE StopModules
    BY <1>3, <2>1, TicksGo DEF StopModules, SyncKept, Up, PmGoes
  <2>2. CASE UNCHANGED mods
    BY <1>3, <2>2, SyncSafe DEF PreCheck, SyncKept, Up, SyncSame
  <2> QED BY <1>3, <2>1, <2>2 DEF PreCheck
<1>4. CASE TickPostCheck
  <2>1. state = "SLEEP_POST_CHECK"
    BY <1>4, TickCalls DEF TickPostCheck
  <2>2. CASE Start(Modules)
    BY <2>2, SyncSafe DEF SyncKept
  <2>3. CASE state' \notin {"RUNNING", "SLEEP_PRE_CHECK"} /\ task'[PM].pc \notin {"precheck", "handle"}
    BY <2>3 DEF SyncKept, Up
  <2>4. BeginSleep(PM, FALSE, "modem") => state' = "FINISH"
    BY DEF BeginSleep
  <2> QED BY <1>4, <2>1, <2>2, <2>3, <2>4, TickPostGoes DEF PmGoes, PmSleeps
<1>5. CASE TickDoAction
  BY <1>5, TickCalls, TicksGo DEF TickDoAction, SyncKept, Up, PmGoes, request
<1>6. CASE TickFinish
  <2>1. state = "FINISH"
    BY <1>6, TickCalls DEF TickFinish
  <2>2. CASE Resume
    BY <2>2, SyncSafe DEF Resume, SyncKept
  <2>3. CASE state' = "FINISH" /\ task'[PM].pc \in {"modem", "stop"}
    BY <2>3 DEF SyncKept, Up
  <2>4. BeginSleep(PM, TRUE, "modem") \/ BeginSleep(PM, FALSE, "modem") => state' = "FINISH"
    BY DEF BeginSleep
  <2> QED BY <1>6, <2>1, <2>2, <2>3, <2>4, TickFinishGoes DEF PmGoes, PmSleeps, request
<1>7. CASE CheckStartup
  BY <1>7, SyncSafe, TicksGo DEF CheckStartup, SyncKept, Up, SyncSame, PmGoes, request
<1>8. CASE PeriodIdle \/ PeriodReset
  BY <1>8, SyncSafe, PeriodsGo DEF PeriodIdle, PeriodReset, SyncKept, Up, SyncSame, PmGoes, request
<1>9. CASE PeriodShutdown
  <2>1. state' = "FINISH"
    BY <1>9 DEF PeriodShutdown, BeginSleep
  <2> QED BY <1>9, <2>1, PeriodsGo DEF PmGoes, PmSleeps, SyncKept, Up
<1>10. CASE PeriodMcu
  BY <1>10, SyncSafe, PeriodsGo DEF PeriodMcu, AskMcu, SyncKept, Up, SyncSame, PmGoes
<1>11. CASE NightIdle \/ NightStart \/ NightFinish
  <2>1. UNCHANGED mods \/ Act("DEEPRESET", "4G_MCU_RESET", DeepTime)
    BY <1>11 DEF NightIdle, NightStart, NightFinish
  <2>2. state' = state
    BY <1>11 DEF NightIdle, NightStart, NightFinish, Night
  <2> QED BY <1>11, <2>1, <2>2, SyncSafe, PeriodsGo DEF SyncKept, Up, SyncSame, PmGoes
<1>12. QED BY <1>1, <1>2, <1>3, <1>4, <1>5, <1>6, <1>7, <1>8, <1>9, <1>10, <1>11 DEF PMSteps

LEMMA SyncCallers ==
  ASSUME Typed, Asked, SyncKept, NEW c \in Callers, Ask(c) \/ Set(c) \/ DoReboot(c)
  PROVE  SyncKept'
<1>1. task'[PM] = task[PM]
  BY CallersGo, PMIs
<1>2. CASE Ask(c) \/ Set(c)
  <2>1. UNCHANGED <<state, mods>>
    BY <1>2 DEF Ask, Set, AskMcu, request
  <2> QED BY <1>1, <2>1, SyncSafe DEF SyncKept, Up, SyncSame
<1>3. CASE DoReboot(c)
  <2>1. CASE state' = "FINISH" /\ UNCHANGED mods
    BY <1>1, <2>1, SyncSafe DEF SyncKept, Up, SyncSame
  <2>2. CASE Perform(post) /\ state' = state
    BY <1>1, <2>2, SyncSafe DEF SyncKept, Up, SyncSame
  <2> QED BY <1>3, <2>1, <2>2 DEF DoReboot, Do, BeginSleep
<1>4. QED BY <1>2, <1>3

LEMMA SyncTasks ==
  ASSUME Typed, Asked, SyncKept, NEW t \in Tasks, ~Outdated(t), ~Intrudes(t),
         Handle(t) \/ FallAsleep(t) \/ OtherWake(t) \/ WakeUp(t)
  PROVE  SyncKept'
<1>0. t # PM => task'[PM] = task[PM]
  BY TaskGoes, PMIs
<1>1. t = PM => task'[PM].pc # "precheck"
  BY TaskGoes
<1>2. CASE Handle(t)
  <2>1. CASE StopModules
    <3>1. task'[PM].pc # "precheck"
      BY <1>0, <1>1, <1>2, <2>1 DEF Intrudes
    <3> QED BY <2>1, <3>1 DEF StopModules, SyncKept, Up
  <2>2. CASE reboot /\ call[t].old = "RUNNING" /\ UNCHANGED mods
    <3>1. state = "RUNNING"
      BY <1>2, <2>2 DEF Outdated
    <3> QED BY <2>2, <3>1, SyncSafe DEF SyncKept, Up, SyncSame
  <2>3. CASE UNCHANGED <<state, mods>>
    BY <1>0, <1>1, <2>3, SyncSafe DEF SyncKept, Up, SyncSame
  <2> QED BY <1>2, <2>1, <2>2, <2>3 DEF Handle
<1>3. CASE FallAsleep(t) \/ OtherWake(t)
  <2>1. UNCHANGED <<state, mods>>
    BY <1>3 DEF FallAsleep, OtherWake, request
  <2> QED BY <1>0, <1>1, <2>1, SyncSafe DEF SyncKept, Up, SyncSame
<1>4. CASE WakeUp(t)
  <2>1. CASE Start(Modules)
    BY <2>1, SyncSafe DEF SyncKept
  <2>2. CASE UNCHANGED <<state, mods>>
    BY <1>0, <1>1, <2>2, SyncSafe DEF SyncKept, Up, SyncSame
  <2>3. CASE state \in {"RUNNING", "SLEEP_PRE_CHECK"} /\ UNCHANGED mods
    BY <2>3, SyncSafe DEF SyncKept, Up, SyncSame
  <2>4. state \in PmStates
    BY TypedIs DEF StateTyped
  <2> QED BY <1>4, <2>1, <2>2, <2>3, <2>4 DEF WakeUp, Wakened, PmStates, request
<1>5. QED BY <1>2, <1>3, <1>4

LEMMA SyncNext ==
  ASSUME Typed, Asked, SyncKept, Next, ~Overtaken PROVE SyncKept'
<1>1. CASE ModemTimeout
  <2>1. UNCHANGED mods \/ Start({Modem4G})
    BY <1>1 DEF ModemTimeout
  <2>2. UNCHANGED <<request, task>>
    BY <1>1 DEF ModemTimeout
  <2> QED BY <2>1, <2>2, SyncSafe DEF SyncKept, Up, SyncSame, request
<1>2. CASE \E m \in Modules : ModuleStops(m)
  <2>1. UNCHANGED <<request, task>>
    BY <1>2 DEF ModuleStops
  <2> QED BY <1>2, <2>1, SyncSafe DEF SyncKept, Up, SyncSame, request
<1>3. CASE KeyTurns
  BY <1>3, KeyMoves, PMIs, SyncSafe DEF SyncKept, Up, SyncSame, request
<1>4. ASSUME NEW t \in Tasks, Handle(t) \/ FallAsleep(t) \/ OtherWake(t) \/ WakeUp(t)
      PROVE  SyncKept'
  BY <1>4, SyncTasks DEF Overtaken
<1>5. ASSUME NEW c \in Callers, Ask(c) \/ Set(c) \/ DoReboot(c) PROVE SyncKept'
  BY <1>5, SyncCallers
<1>6. ~Set(PM) /\ ~DoReboot(PM)
  BY DEF Asked, Set, DoReboot
<1>7. QED BY <1>1, <1>2, <1>3, <1>4, <1>5, <1>6, SyncPm DEF Next, Steps, Tasks

(* While the power manager runs, no module that stops at once is stopped,  *)
(* whatever reboots are asked for, as long as no reboot of the MCU is      *)
(* overtaken: every path that enters RUNNING from a state where the        *)
(* modules may be stopped starts them (tbox_pm_timeout_in_sleeppostcheck,  *)
(* tbox_pm_timeout_in_finish and the wake-up handlers of the states after  *)
(* the pre-check).                                                         *)
THEOREM ModulesRunAgain == Spec /\ [][~Overtaken]_vars => []SyncModulesRun
<1>1. Init => SyncKept
  BY DEF Init, SyncKept, SyncRuns, Modules
<1>2. Typed /\ Asked /\ SyncKept /\ [Next]_vars /\ [~Overtaken]_vars => Asked' /\ SyncKept'
  <2>1. CASE UNCHANGED vars
    BY <2>1 DEF vars, request, mods, Asked, SyncKept, Up, SyncRuns
  <2> QED BY <2>1, AskedNext, SyncNext
<1>3. SyncKept => SyncModulesRun
  BY DEF SyncKept, Up, SyncRuns, SyncModulesRun
<1>4. QED BY <1>1, <1>2, <1>3, TypesInit, TypesNext, AskedInit, PTL DEF Spec
-----------------------------------------------------------------------------
(* A reboot goes wrong for the modem, too, when tbox_pm_reboot does the    *)
(* action another task entered over its own, and when a reboot of the      *)
(* modem is entered once the modules were asked to stop.                   *)
Misled(c)  == DoReboot(c) /\ Replaced(c)
TooLate(c) == /\ Set(c) /\ call[c].type # "REBOOT_MCU"
              /\ state \notin {"RUNNING", "SLEEP_PRE_CHECK"}
Crossed    == \E t \in Tasks : Outdated(t) \/ Misled(t) \/ TooLate(t)

(* Then the modem is off only in the shutdown that was entered.            *)
Off      == ~on /\ modem = "NOTHING"
OffKnown == Off => post = "SHUTDOWN" /\ state \in {"DOACTION", "FINISH"}

(* Only the power manager sleeps; the rest of the pre-check, during a      *)
(* sleep, during the shutdown of the modem, its reset and deep reset,      *)
(* while the modules stop and once the unit was to sleep.                  *)
Alone == \A c \in Callers : task[c].pc \notin Sleeping
PreChecks == task[PM].pc = "precheck" => state \notin {"DOACTION", "FINISH"}
Sleeps == task[PM].pc \in Sleeping =>
  /\ state = "FINISH" /\ action # "SHUTDOWN"
  /\ IF task[PM].cut THEN post = "SHUTDOWN" ELSE on
ShutsDown == action = "SHUTDOWN" => post = "SHUTDOWN" /\ state = "DOACTION"
InShutdown == modem = "SHUTDOWN" =>
  /\ action = "SHUTDOWN" /\ left >= 1
  /\ task[PM].pc \in {"modem", "action"} => left >= 2
Resets == modem = "RESET" => on /\ state \in {"RUNNING", "SLEEP_PRE_CHECK"}
Deep == modem = "DEEPRESET" /\ deep = "FINISH" => on \/ task[PM].pc \in Sleeping
Stops == state = "SLEEP_POST_CHECK" =>
  \/ post \in {"SLEEP", "SHUTDOWN"} /\ on /\ modem = "NOTHING" /\ ~checking
  \/ /\ post = "REBOOT_4G_MCU"
     /\ \/ action = "4G_MCU_RESET"
        \/ task[PM].pc = "handle" /\ reboot /\ call[PM].old = "SLEEP_POST_CHECK"
  \/ post = "REBOOT_MCU"
Late == state \in {"DOACTION", "FINISH"} => post \notin {"REBOOT_4G", "DEEPREBOOT_4G"}
Listens == state = "FINISH" /\ post = "SLEEP" => task[PM].pc \in Sleeping

ModemInv == /\ OffKnown /\ PreChecks /\ Sleeps /\ ShutsDown /\ InShutdown
            /\ Resets /\ Deep /\ Stops /\ Late /\ Listens

LEMMA ModemInvInit == Init => ModemInv /\ Alone
<1> SUFFICES ASSUME Init PROVE ModemInv /\ Alone
  OBVIOUS
<1>1. \A t \in Tasks : task[t].pc = "idle"
  BY DEF Init, At
<1>2. QED
  BY <1>1, PMIs DEF Init, ModemInv, OffKnown, Off, Alone, PreChecks, Sleeps, ShutsDown, InShutdown,
     Resets, Deep, Stops, Late, Listens, Sleeping

LEMMA ModemInvKept ==
  ASSUME ModemInv, UNCHANGED <<request, action, left, modemvars>>,
         \/ task'[PM] = task[PM]
         \/ /\ task'[PM].pc \notin {"precheck", "modem", "action"} \cup Sleeping
            /\ task[PM].pc \notin {"handle"} \cup Sleeping,
         call'[PM].old = call[PM].old
  PROVE  ModemInv'
BY DEF request, modemvars, ModemInv, OffKnown, Off, PreChecks, Sleeps, ShutsDown, InShutdown,
   Resets, Deep, Stops, Late, Listens, Sleeping

(* What beginning an action and performing one mean to the modem. *)
LEMMA PerformIs ==
  ASSUME NEW type, Perform(type)
  PROVE  /\ on' = on
         /\ action # "NONE" \/ type \notin {"SHUTDOWN", "REBOOT_4G", "DEEPREBOOT_4G", "REBOOT_4G_MCU"} =>
              UNCHANGED <<modemvars, action, left>>
         /\ action = "NONE" /\ type = "SHUTDOWN" =>
              /\ action' = "SHUTDOWN" /\ left' = ShutdownTime
              /\ modem' = IF modem = "NOTHING" THEN "SHUTDOWN" ELSE modem
              /\ deep' = deep
<1>1. CASE action = "NONE" /\ type \in {"SHUTDOWN", "REBOOT_4G", "DEEPREBOOT_4G", "REBOOT_4G_MCU"}
  BY <1>1 DEF Perform, Act, RequestDeep, Request, modemvars
<1>2. CASE ~(action = "NONE" /\ type \in {"SHUTDOWN", "REBOOT_4G", "DEEPREBOOT_4G", "REBOOT_4G_MCU"})
  <2>1. UNCHANGED <<modemvars, mods, action, left>>
    BY <1>2 DEF Perform
  <2> QED BY <1>2, <2>1 DEF modemvars
<1>3. QED BY <1>1, <1>2

LEMMA ModemTicks ==
  ASSUME Typed, ModemInv, TickRunning \/ TickPreCheck \/ PreCheck \/ TickDoAction \/ CheckStartup
  PROVE  ModemInv'
<1>1. CASE TickRunning
  <2>1. /\ task[PM].pc = "idle" /\ state = "RUNNING" /\ InTime /\ PmGoes("modem")
        /\ UNCHANGED <<post, action, left, modem, deep, checking, on>>
        /\ state' \in {"RUNNING", "SLEEP_PRE_CHECK"}
    BY <1>1, TickCalls, TicksGo DEF TickRunning, Tick, deed, modemvars
  <2> QED BY <2>1, TypedIs
      DEF ModemInv, OffKnown, Off, PreChecks, Sleeps, ShutsDown, InShutdown, Resets, Deep, Stops,
          Late, Listens, Sleeping, PmGoes, InTime, DeedTyped
<1>2. CASE TickPreCheck
  <2>1. /\ task[PM].pc = "idle" /\ state = "SLEEP_PRE_CHECK" /\ InTime
        /\ PmGoes(IF post = "REBOOT_MCU" THEN "modem" ELSE "precheck")
        /\ UNCHANGED <<post, action, left, modem, deep, on>>
        /\ \/ UNCHANGED <<state, checking>>
           \/ post = "REBOOT_MCU" /\ modem = "NOTHING" /\ state' = "SLEEP_POST_CHECK"
    BY <1>2, TickCalls, TicksGo DEF TickPreCheck, Tick, deed, StopModules
  <2> QED BY <2>1, TypedIs
      DEF ModemInv, OffKnown, Off, PreChecks, Sleeps, ShutsDown, InShutdown, Resets, Deep, Stops,
          Late, Listens, Sleeping, PmGoes, InTime, DeedTyped
<1>3. CASE PreCheck
  <2>1. /\ task[PM].pc = "precheck" /\ PmGoes("modem")
        /\ UNCHANGED <<action, left, modem, deep, on>>
        /\ \/ state' = "RUNNING" /\ UNCHANGED <<post, checking>>
           \/ /\ modem = "NOTHING" /\ post' \in {"SLEEP", "SHUTDOWN"}
              /\ state' = "SLEEP_POST_CHECK" /\ ~checking'
    BY <1>3, TicksGo DEF PreCheck, deed, StopModules
  <2> QED BY <2>1, TypedIs
      DEF ModemInv, OffKnown, Off, PreChecks, Sleeps, ShutsDown, InShutdown, Resets, Deep, Stops,
          Late, Listens, Sleeping, PmGoes, DeedTyped
<1>4. CASE TickDoAction
  <2>1. /\ task[PM].pc = "idle" /\ state = "DOACTION" /\ InTime /\ PmGoes("modem")
        /\ UNCHANGED <<state, post, action, left, modem, deep, checking, on>>
    BY <1>4, TickCalls, TicksGo DEF TickDoAction, Tick, request, modemvars
  <2> QED BY <2>1, TypedIs
      DEF ModemInv, OffKnown, Off, PreChecks, Sleeps, ShutsDown, InShutdown, Resets, Deep, Stops,
          Late, Listens, Sleeping, PmGoes, InTime, DeedTyped
<1>5. CASE CheckStartup
  <2>1. /\ task[PM].pc = "modem" /\ PmGoes("action")
        /\ UNCHANGED <<state, post, action, left, on>>
    BY <1>5, TicksGo DEF CheckStartup, request, deed, Request, modemvars
  <2>2. \/ UNCHANGED <<modem, deep>> /\ (~checking => ~checking')
        \/ checking /\ modem = "NOTHING" /\ modem' = "STARTUP"
    <3>1. CASE UNCHANGED modemvars
      BY <3>1 DEF modemvars
    <3>2. CASE checking /\ UNCHANGED <<modem, deep>>
      BY <3>2
    <3>3. CASE checking /\ Request("STARTUP")
      BY <3>3 DEF Request
    <3> QED BY <1>5, <3>1, <3>2, <3>3 DEF CheckStartup
  <2> QED BY <2>1, <2>2, TypedIs
      DEF ModemInv, OffKnown, Off, PreChecks, Sleeps, ShutsDown, InShutdown, Resets, Deep, Stops,
          Late, Listens, Sleeping, PmGoes, ModemTyped
<1>6. QED BY <1>1, <1>2, <1>3, <1>4, <1>5

LEMMA ModemPostCheck == ASSUME Typed, ModemInv, TickPostCheck, ShutdownTime > 1 PROVE ModemInv'
<1>1. task[PM].pc = "idle" /\ state = "SLEEP_POST_CHECK" /\ InTime
  BY TickCalls DEF TickPostCheck, Tick
<1>2. CASE state' = "RUNNING" /\ post # "REBOOT_MCU" /\ PmGoes("modem")
           /\ UNCHANGED <<post, action, left, modem, deep, checking, on>>
  BY <1>1, <1>2, TypedIs
      DEF ModemInv, OffKnown, Off, PreChecks, Sleeps, ShutsDown, InShutdown, Resets, Deep, Stops,
          Late, Listens, Sleeping, PmGoes, InTime, DeedTyped
<1>3. CASE PmGoes("modem") /\ UNCHANGED <<state, post, action, left, modem, deep, checking, on>>
  BY <1>1, <1>3, TypedIs
      DEF ModemInv, OffKnown, Off, PreChecks, Sleeps, ShutsDown, InShutdown, Resets, Deep, Stops,
          Late, Listens, Sleeping, PmGoes, InTime, DeedTyped
<1>4. CASE post \notin {"SHUTDOWN", "REBOOT_MCU"} /\ action = "NONE" /\ BeginSleep(PM, FALSE, "modem")
           /\ PmSleeps(FALSE)
  <2>1. state' = "FINISH" /\ action' = "NONE" /\ UNCHANGED <<post, modem, deep, on>>
    BY <1>4 DEF BeginSleep
  <2> QED BY <1>1, <1>4, <2>1
      DEF ModemInv, OffKnown, Off, PreChecks, Sleeps, ShutsDown, InShutdown, Resets, Deep, Stops,
          Late, Listens, Sleeping, PmGoes, PmSleeps
<1>5. CASE /\ state' = "DOACTION" /\ UNCHANGED post
           /\ Perform(IF post \in {"SHUTDOWN", "REBOOT_MCU"} THEN post ELSE "SLEEP")
           /\ PmGoes(IF action = "NONE" /\ post = "REBOOT_MCU" THEN "reset" ELSE "modem")
  <2>1. on' = on
    BY <1>5, PerformIs
  <2>2. CASE action = "NONE" /\ post = "SHUTDOWN"
    <3>1. /\ action' = "SHUTDOWN" /\ left' = ShutdownTime /\ deep' = deep
          /\ modem' = IF modem = "NOTHING" THEN "SHUTDOWN" ELSE modem
      BY <1>5, <2>2, PerformIs
    <3>2. PmGoes("modem")
      BY <1>5, <2>2
    <3>3. left' \in Nat /\ left' >= 2
      BY <3>1, NumbersAre
    <3> QED BY <1>1, <1>5, <2>1, <2>2, <3>1, <3>2, <3>3
        DEF ModemInv, OffKnown, Off, PreChecks, Sleeps, ShutsDown, InShutdown, Resets, Deep,
            Stops, Late, Listens, Sleeping, PmGoes
  <2>3. CASE ~(action = "NONE" /\ post = "SHUTDOWN")
    <3>1. UNCHANGED <<modem, deep, checking, on, action, left>>
      BY <1>5, <2>3, PerformIs DEF modemvars
    <3>2. task'[PM].pc \in {"reset", "modem"}
      BY <1>5 DEF PmGoes
    <3> QED BY <1>1, <1>5, <2>3, <3>1, <3>2, TypedIs
        DEF ModemInv, OffKnown, Off, PreChecks, Sleeps, ShutsDown, InShutdown, Resets, Deep,
            Stops, Late, Listens, Sleeping, PmGoes, InTime, DeedTyped
  <2> QED BY <2>2, <2>3
<1>6. QED BY <1>2, <1>3, <1>4, <1>5, TickPostGoes DEF deed, modemvars

LEMMA ModemFinish == ASSUME Typed, ModemInv, TickFinish PROVE ModemInv'
<1>1. task[PM].pc = "idle" /\ state = "FINISH" /\ InTime
  BY TickCalls DEF TickFinish, Tick
<1>2. CASE Resume /\ PmGoes("modem") /\ UNCHANGED deed
  <2>1. /\ state' = "RUNNING" /\ UNCHANGED <<on, action, left>>
        /\ IF post = "SHUTDOWN"
           THEN /\ post' = "NONE"
                /\ IF modem = "NOTHING" THEN modem' = "STARTUP" ELSE UNCHANGED <<modem, deep>>
           ELSE UNCHANGED <<post, modem, deep, checking>>
    BY <1>2 DEF Resume, Request, modemvars, deed
  <2> QED BY <1>1, <1>2, <2>1, TypedIs
      DEF ModemInv, OffKnown, Off, PreChecks, Sleeps, ShutsDown, InShutdown, Resets, Deep, Stops,
          Late, Listens, Sleeping, PmGoes, InTime, DeedTyped
<1>3. CASE \/ post = "SHUTDOWN" /\ BeginSleep(PM, TRUE, "modem") /\ PmSleeps(TRUE)
           \/ post = "SLEEP" /\ BeginSleep(PM, FALSE, "modem") /\ PmSleeps(FALSE)
  <2>1. state' = "FINISH" /\ action' = "NONE" /\ UNCHANGED <<post, modem, deep, on>>
    BY <1>3 DEF BeginSleep
  <2> QED BY <1>1, <1>3, <2>1
      DEF ModemInv, OffKnown, Off, PreChecks, Sleeps, ShutsDown, InShutdown, Resets, Deep, Stops,
          Late, Listens, Sleeping, PmGoes, PmSleeps
<1>4. CASE PmGoes("modem") /\ UNCHANGED <<request, deed, modemvars>> /\ post \notin {"SLEEP", "SHUTDOWN"}
  BY <1>1, <1>4, TypedIs
      DEF ModemInv, OffKnown, Off, PreChecks, Sleeps, ShutsDown, InShutdown, Resets, Deep, Stops,
          Late, Listens, Sleeping, PmGoes, InTime, DeedTyped, request, deed, modemvars
<1>5. QED BY <1>2, <1>3, <1>4, TickFinishGoes

LEMMA ModemPeriods ==
  ASSUME Typed, ModemInv, PeriodIdle \/ PeriodShutdown \/ PeriodReset \/ PeriodMcu
  PROVE  ModemInv'
<1>0. left \in Nat /\ Left \in Nat /\ (left >= 2 => Left >= 1) /\ task[PM].pc = "action"
  <2>1. left \in Nat
    BY TypedIs, NumbersAre DEF DeedTyped
  <2>2. Left \in Nat /\ (left >= 2 => Left >= 1)
    BY <2>1 DEF Left
  <2>3. task[PM].pc = "action"
    BY DEF PeriodIdle, PeriodShutdown, PeriodReset, PeriodMcu, Period
  <2> QED BY <2>1, <2>2, <2>3
<1>1. CASE PeriodIdle
  <2>1. left' = Left /\ PmGoes("night") /\ UNCHANGED <<state, post, action, modem, deep, checking, on>>
    BY <1>1, PeriodsGo DEF PeriodIdle, request, modemvars
  <2> QED BY <1>0, <2>1
      DEF ModemInv, OffKnown, Off, PreChecks, Sleeps, ShutsDown, InShutdown, Resets, Deep, Stops,
          Late, Listens, Sleeping, PmGoes
<1>2. CASE PeriodShutdown
  <2>1. action = "SHUTDOWN" /\ Left = 0
    BY <1>2 DEF PeriodShutdown
  <2>2. CASE abort
    <3>1. state' = "FINISH" /\ action' = "NONE" /\ PmGoes("night") /\ UNCHANGED <<post, modem, deep, on>>
      BY <1>2, <2>2, PeriodsGo DEF PeriodShutdown, modemvars
    <3> QED BY <1>0, <2>1, <3>1
        DEF ModemInv, OffKnown, Off, PreChecks, Sleeps, ShutsDown, InShutdown, Resets, Deep,
            Stops, Late, Listens, Sleeping, PmGoes
  <2>3. CASE ~abort
    <3>1. BeginSleep(PM, TRUE, "night") /\ PmSleeps(TRUE)
      BY <1>2, <2>3, PeriodsGo
    <3>2. state' = "FINISH" /\ action' = "NONE" /\ UNCHANGED <<post, modem, deep, on>>
      BY <3>1 DEF BeginSleep
    <3> QED BY <1>0, <2>1, <3>1, <3>2
        DEF ModemInv, OffKnown, Off, PreChecks, Sleeps, ShutsDown, InShutdown, Resets, Deep,
            Stops, Late, Listens, Sleeping, PmGoes, PmSleeps
  <2> QED BY <2>2, <2>3
<1>3. CASE PeriodReset
  <2>1. /\ action \in {"4G_RESET", "4G_DEEP_RESET"} /\ action' = "NONE" /\ PmGoes("night")
        /\ UNCHANGED <<state, post, modem, deep, checking, on>>
    BY <1>3, PeriodsGo DEF PeriodReset, request, modemvars
  <2> QED BY <1>0, <2>1
      DEF ModemInv, OffKnown, Off, PreChecks, Sleeps, ShutsDown, InShutdown, Resets, Deep, Stops,
          Late, Listens, Sleeping, PmGoes
<1>4. CASE PeriodMcu
  <2>1. /\ action = "4G_MCU_RESET" /\ action' = "NONE" /\ reboot' /\ call'[PM].old = state
        /\ PmGoes("handle") /\ UNCHANGED <<state, post, modem, deep, checking, on>>
    BY <1>4, PeriodsGo DEF PeriodMcu, AskMcu, modemvars
  <2> QED BY <1>0, <2>1
      DEF ModemInv, OffKnown, Off, PreChecks, Sleeps, ShutsDown, InShutdown, Resets, Deep, Stops,
          Late, Listens, Sleeping, PmGoes
<1>5. QED BY <1>1, <1>2, <1>3, <1>4

LEMMA ModemNights ==
  ASSUME Typed, ModemInv, NightIdle \/ NightStart \/ NightFinish PROVE ModemInv'
<1>0. task[PM].pc = "night" /\ PmGoes("idle") /\ UNCHANGED <<state, reboot>>
  BY PeriodsGo DEF NightIdle, NightStart, NightFinish, Night
<1>1. CASE UNCHANGED <<post, action, left, modem, deep, checking, on>>
  BY <1>0, <1>1
      DEF ModemInv, OffKnown, Off, PreChecks, Sleeps, ShutsDown, InShutdown, Resets, Deep, Stops,
          Late, Listens, Sleeping, PmGoes
<1>2. CASE action = "NONE" /\ post' = "REBOOT_4G_MCU" /\ Act("DEEPRESET", "4G_MCU_RESET", DeepTime)
  <2>1. /\ action' = "4G_MCU_RESET" /\ on' = on
        /\ IF modem = "NOTHING" THEN modem' = "DEEPRESET" /\ deep' = "WAIT_STOP4G"
           ELSE UNCHANGED <<modem, deep>>
    BY <1>2 DEF Act, RequestDeep, Request
  <2> QED BY <1>0, <1>2, <2>1
      DEF ModemInv, OffKnown, Off, PreChecks, Sleeps, ShutsDown, InShutdown, Resets, Deep, Stops,
          Late, Listens, Sleeping, PmGoes
<1>3. QED BY <1>1, <1>2 DEF NightIdle, NightStart, NightFinish, modemvars

LEMMA ModemGoesOn == ASSUME Typed, ModemInv, ModemTimeout PROVE ModemInv'
<1>1. task[PM].pc = "idle" /\ UNCHANGED <<request, action, left, task, call>>
  BY DEF ModemTimeout, deed
<1>2. CASE modem \in {"STARTUP", "RESET", "SHUTDOWN"}
  <2>1. /\ modem' = "NOTHING" /\ on' = IF modem = "RESET" THEN on ELSE modem = "STARTUP"
        /\ modem = "SHUTDOWN" => checking' = checking
    BY <1>2 DEF ModemTimeout
  <2> QED BY <1>1, <1>2, <2>1
      DEF ModemInv, OffKnown, Off, PreChecks, Sleeps, ShutsDown, InShutdown, Resets, Deep, Stops,
          Late, Listens, Sleeping, PmGoes, request
<1>3. CASE modem = "DEEPRESET"
  <2>1. \/ deep = "WAIT_STOP4G" /\ modem' = modem /\ deep' = "POWERED_DOWN"
        \/ deep = "POWERED_DOWN" /\ modem' = modem /\ on'
        \/ deep = "FINISH" /\ modem' = "NOTHING" /\ on' = on
    BY <1>3 DEF ModemTimeout
  <2> QED BY <1>1, <1>3, <2>1
      DEF ModemInv, OffKnown, Off, PreChecks, Sleeps, ShutsDown, InShutdown, Resets, Deep, Stops,
          Late, Listens, Sleeping, PmGoes, request
<1>4. QED BY <1>2, <1>3, TypedIs DEF ModemTimeout, ModemTyped, Doings

LEMMA ModemHandle ==
  ASSUME Typed, ModemInv, NEW t \in Tasks, Handle(t), ~Outdated(t) PROVE ModemInv'
<1>1. /\ UNCHANGED <<action, left, modem, deep, on, call, reboot>>
      /\ t # PM => task'[PM] = task[PM]
      /\ t = PM => task[PM].pc = "handle" /\ task'[PM].pc = "night"
  BY TaskGoes, PMIs DEF Handle, deed
<1>2. CASE /\ reboot /\ call[t].old = "RUNNING" /\ UNCHANGED checking
           /\ post' = "REBOOT_MCU" /\ state' = "SLEEP_PRE_CHECK"
  <2>1. state = "RUNNING"
    BY <1>2 DEF Outdated
  <2> QED BY <1>1, <1>2, <2>1
      DEF ModemInv, OffKnown, Off, PreChecks, Sleeps, ShutsDown, InShutdown, Resets, Deep, Stops,
          Late, Listens, Sleeping
<1>3. CASE /\ reboot /\ call[t].old = "SLEEP_PRE_CHECK"
           /\ post' = "REBOOT_MCU" /\ modem = "NOTHING" /\ StopModules
  <2>1. state = "SLEEP_PRE_CHECK" /\ state' = "SLEEP_POST_CHECK"
    BY <1>3 DEF Outdated, StopModules
  <2> QED BY <1>1, <1>3, <2>1
      DEF ModemInv, OffKnown, Off, PreChecks, Sleeps, ShutsDown, InShutdown, Resets, Deep, Stops,
          Late, Listens, Sleeping
<1>4. CASE /\ reboot /\ call[t].old \in {"SLEEP_PRE_CHECK", "SLEEP_POST_CHECK"}
           /\ post' = "REBOOT_MCU" /\ UNCHANGED <<state, checking>>
  <2>1. state \in {"SLEEP_PRE_CHECK", "SLEEP_POST_CHECK"}
    BY <1>4 DEF Outdated
  <2> QED BY <1>1, <1>4, <2>1
      DEF ModemInv, OffKnown, Off, PreChecks, Sleeps, ShutsDown, InShutdown, Resets, Deep, Stops,
          Late, Listens, Sleeping
<1>5. CASE /\ UNCHANGED <<state, post, checking>>
           /\ ~reboot \/ call[t].old \in {"DOACTION", "FINISH"}
  BY <1>1, <1>5
      DEF ModemInv, OffKnown, Off, PreChecks, Sleeps, ShutsDown, InShutdown, Resets, Deep, Stops,
          Late, Listens, Sleeping
<1>6. QED BY <1>2, <1>3, <1>4, <1>5 DEF Handle

LEMMA ModemSleep ==
  ASSUME Typed, ModemInv, FallAsleep(PM) \/ OtherWake(PM) \/ WakeUp(PM) PROVE ModemInv'
<1>0. call' = call
  BY TaskGoes, PMIs
<1>1. CASE FallAsleep(PM)
  <2>1. /\ task[PM].pc = "stop" /\ task'[PM].pc = "asleep" /\ task'[PM].cut = task[PM].cut
        /\ UNCHANGED <<state, post, reboot, action, left, modem, deep, checking>>
        /\ on' = (on /\ ~task[PM].cut)
    BY <1>1, TaskGoes, PMIs DEF FallAsleep, request, deed
  <2> QED BY <2>1
      DEF ModemInv, OffKnown, Off, PreChecks, Sleeps, ShutsDown, InShutdown, Resets, Deep, Stops,
          Late, Listens, Sleeping
<1>2. CASE OtherWake(PM)
  <2>1. /\ task[PM].pc = "asleep" /\ task'[PM].pc = "wake" /\ task'[PM].cut = task[PM].cut
        /\ UNCHANGED <<state, post, reboot, action, left, modem, deep, checking, on>>
    BY <1>2, TaskGoes, PMIs DEF OtherWake, request, deed, modemvars
  <2> QED BY <2>1
      DEF ModemInv, OffKnown, Off, PreChecks, Sleeps, ShutsDown, InShutdown, Resets, Deep, Stops,
          Late, Listens, Sleeping
<1>3. CASE WakeUp(PM)
  <2>1. /\ task[PM].pc = "wake" /\ task'[PM].pc \in {"idle", "modem", "night"}
        /\ on' = on /\ action' \in {action, "NONE"}
        /\ modem' = IF state = "FINISH" /\ post = "SHUTDOWN" THEN "STARTUP" ELSE "NOTHING"
    BY <1>3, TaskGoes, PMIs DEF WakeUp
  <2>2. state = "FINISH"
    BY <2>1 DEF ModemInv, Sleeps, Sleeping
  <2>3. state' = "RUNNING" /\ post' = IF post = "SHUTDOWN" THEN "NONE" ELSE post
    BY <1>3, <2>2 DEF WakeUp, Wakened
  <2> QED BY <2>1, <2>2, <2>3
      DEF ModemInv, OffKnown, Off, PreChecks, Sleeps, ShutsDown, InShutdown, Resets, Deep, Stops,
          Late, Listens, Sleeping
<1>4. QED BY <1>1, <1>2, <1>3

(* A reboot of the modem is entered before the modules are asked to stop.  *)
LEMMA ModemSet ==
  ASSUME Typed, Asked, ModemInv, NEW c \in Callers, Set(c), ~TooLate(c) PROVE ModemInv'
<1>1. task'[PM] = task[PM] /\ call'[PM] = call[PM]
  BY CallersGo, PMIs, TypedIs DEF Set, AskMcu
<1>2. UNCHANGED <<state, action, left, modem, deep, checking, on>>
  BY DEF Set, AskMcu, deed, modemvars
<1>3. CASE reboot' /\ post' = post
  BY <1>1, <1>2, <1>3
      DEF ModemInv, OffKnown, Off, PreChecks, Sleeps, ShutsDown, InShutdown, Resets, Deep, Stops,
          Late, Listens, Sleeping
<1>4. CASE /\ post' = call[c].type /\ call[c].type # "REBOOT_MCU" /\ reboot' = reboot
           /\ state \in {"RUNNING", "SLEEP_PRE_CHECK"}
  <2>1. post' \in Reboots
    BY <1>4, PMIs, TypedIs
  <2>2. ~Off /\ action # "SHUTDOWN" /\ modem # "SHUTDOWN" /\ task[PM].pc \notin Sleeping
    BY <1>4 DEF ModemInv, OffKnown, ShutsDown, InShutdown, Sleeps
  <2> QED BY <1>1, <1>2, <1>4, <2>1, <2>2
      DEF ModemInv, OffKnown, Off, PreChecks, Sleeps, ShutsDown, InShutdown, Resets, Deep, Stops,
          Late, Listens, Sleeping
<1>5. QED BY <1>3, <1>4 DEF Set, AskMcu, TooLate

(* What the task does that is to reset the modem.                          *)
LEMMA DoIs ==
  ASSUME Typed, Asked, NEW c \in Callers, DoReboot(c), ~Replaced(c)
  PROVE  /\ post \in {"REBOOT_4G", "DEEPREBOOT_4G", "REBOOT_4G_MCU"}
         /\ Perform(post) /\ UNCHANGED <<state, post, reboot, call>>
         /\ task'[c].pc = "idle" /\ \A u \in Tasks : u # c => task'[u] = task[u]
<1>1. task[c].pc = "do" /\ post = call[c].type /\ c \in Tasks /\ "idle" \in Pcs
  BY PMIs DEF DoReboot, Replaced, Pcs
<1>2. post \in {"REBOOT_4G", "DEEPREBOOT_4G", "REBOOT_4G_MCU"}
  BY <1>1, TypedIs DEF Asked, Reboots
<1>3. Perform(post) /\ UNCHANGED <<state, post, reboot, call>> /\ Goto(c, "idle")
  BY <1>2 DEF DoReboot, Do
<1>4. QED BY <1>1, <1>2, <1>3, CallerGoes

LEMMA ModemDo ==
  ASSUME Typed, Asked, ModemInv, NEW c \in Callers, DoReboot(c), ~Misled(c) PROVE ModemInv'
<1>1. /\ post \in {"REBOOT_4G", "DEEPREBOOT_4G", "REBOOT_4G_MCU"}
      /\ Perform(post) /\ UNCHANGED <<state, post, reboot, call>>
      /\ task'[PM] = task[PM]
  BY DoIs, PMIs DEF Misled
<1>2. CASE UNCHANGED <<modemvars, mods, action, left>>
  BY <1>1, <1>2
      DEF ModemInv, OffKnown, Off, PreChecks, Sleeps, ShutsDown, InShutdown, Resets, Deep, Stops,
          Late, Listens, Sleeping, modemvars
<1>3. CASE action = "NONE" /\ post = "REBOOT_4G" /\ Act("RESET", "4G_RESET", 1)
  <2>1. /\ action' = "4G_RESET" /\ on' = on
        /\ modem' = IF modem = "NOTHING" THEN "RESET" ELSE modem
        /\ modem # "NOTHING" => deep' = deep
    BY <1>3 DEF Act, Request
  <2>2. state \in {"RUNNING", "SLEEP_PRE_CHECK"}
    BY <1>3, TypedIs DEF ModemInv, Late, Stops, StateTyped, PmStates
  <2> QED BY <1>1, <1>3, <2>1, <2>2
      DEF ModemInv, OffKnown, Off, PreChecks, Sleeps, ShutsDown, InShutdown, Resets, Deep, Stops,
          Late, Listens, Sleeping
<1>4. CASE /\ action = "NONE"
           /\ \/ post = "DEEPREBOOT_4G" /\ Act("DEEPRESET", "4G_DEEP_RESET", DeepTime)
              \/ post = "REBOOT_4G_MCU" /\ Act("DEEPRESET", "4G_MCU_RESET", DeepTime)
  <2>1. /\ action' = IF post = "REBOOT_4G_MCU" THEN "4G_MCU_RESET" ELSE "4G_DEEP_RESET"
        /\ on' = on
        /\ IF modem = "NOTHING" THEN modem' = "DEEPRESET" /\ deep' = "WAIT_STOP4G"
           ELSE UNCHANGED <<modem, deep>>
    BY <1>4 DEF Act, RequestDeep, Request
  <2> QED BY <1>1, <1>4, <2>1
      DEF ModemInv, OffKnown, Off, PreChecks, Sleeps, ShutsDown, InShutdown, Resets, Deep, Stops,
          Late, Listens, Sleeping
<1>5. QED BY <1>1, <1>2, <1>3, <1>4 DEF Perform

LEMMA AloneNext ==
  ASSUME Typed, Asked, Alone, Next, ~Crossed PROVE Alone'
<1>1. CASE PMSteps
  BY <1>1, PmStepsGo DEF Alone, Others
<1>2. ASSUME NEW c \in Callers, Ask(c) \/ Set(c) \/ DoReboot(c) PROVE Alone'
  <2>1. \A u \in Tasks : u # c => task'[u] = task[u]
    BY <1>2, CallersGo
  <2>2. task'[c].pc \in {"set", "handle", "do", "idle"}
    <3>0. {"set", "handle", "do"} \subseteq Pcs
      BY DEF Pcs
    <3>1. CASE Ask(c) \/ Set(c)
      BY <3>0, <3>1, CallerGoes DEF Ask, Set, AskMcu
    <3>2. CASE DoReboot(c)
      BY <3>2, DoIs, PMIs DEF Crossed, Misled
    <3> QED BY <1>2, <3>1, <3>2
  <2> QED BY <2>1, <2>2, PMIs DEF Alone, Sleeping
<1>3. CASE ModemTimeout \/ \E m \in Modules : ModuleStops(m)
  BY <1>3 DEF ModemTimeout, ModuleStops, Alone
<1>4. ASSUME NEW t \in Tasks, Handle(t) \/ FallAsleep(t) \/ OtherWake(t) \/ WakeUp(t)
      PROVE  Alone'
  <2>1. \A u \in Tasks : u # t => task'[u] = task[u]
    BY <1>4, TaskGoes
  <2>2. CASE t = PM
    BY <2>1, <2>2, PMIs DEF Alone
  <2>3. CASE t \in Callers
    <3>1. Handle(t) /\ task'[t].pc = "idle"
      BY <1>4, <2>3, TaskGoes, PMIs DEF Alone, Sleeping
    <3> QED BY <2>1, <3>1, PMIs DEF Alone, Sleeping
  <2> QED BY <2>2, <2>3 DEF Tasks
<1>5. CASE KeyTurns
  BY <1>5, KeyMoves, PMIs DEF Alone, Sleeping
<1>6. ~Set(PM) /\ ~DoReboot(PM)
  BY DEF Asked, Set, DoReboot
<1>7. QED BY <1>1, <1>2, <1>3, <1>4, <1>5, <1>6 DEF Next, Steps, Tasks

LEMMA ModemInvNext ==
  ASSUME Typed, Asked, Alone, ModemInv, ShutdownTime > 1, Next, ~Crossed PROVE ModemInv'
<1>1. CASE PMSteps
  BY <1>1, ModemTicks, ModemPostCheck, ModemFinish, ModemPeriods, ModemNights DEF PMSteps
<1>2. ASSUME NEW c \in Callers, Ask(c) PROVE ModemInv'
  <2>1. task'[PM] = task[PM] /\ UNCHANGED <<request, action, left, modemvars>>
    BY <1>2, CallersGo, PMIs DEF Ask, deed
  <2>2. call'[PM].old = call[PM].old
    BY <1>2, PMIs, TypedIs DEF Ask
  <2> QED BY <2>1, <2>2, ModemInvKept
<1>3. ASSUME NEW c \in Callers, Set(c) \/ DoReboot(c) PROVE ModemInv'
  BY <1>3, ModemSet, ModemDo, PMIs DEF Crossed
<1>4. ASSUME NEW t \in Tasks, Handle(t) PROVE ModemInv'
  BY <1>4, ModemHandle DEF Crossed
<1>5. ASSUME NEW t \in Tasks, FallAsleep(t) \/ OtherWake(t) \/ WakeUp(t) PROVE ModemInv'
  <2>1. t = PM
    BY <1>5, TaskGoes DEF Alone, Sleeping, Tasks
  <2> QED BY <1>5, <2>1, ModemSleep
<1>6. CASE \E m \in Modules : ModuleStops(m)
  <2>1. UNCHANGED <<request, action, left, modemvars, task, call>>
    BY <1>6 DEF ModuleStops, deed
  <2> QED BY <2>1, ModemInvKept
<1>7. CASE KeyTurns
  <2>1. /\ UNCHANGED <<state, post, reboot, action, left, modem, deep, checking, on, call>>
        /\ task'[PM].cut = task[PM].cut
        /\ \/ task'[PM].pc = task[PM].pc
           \/ task[PM].pc = "asleep" /\ task'[PM].pc = "wake"
    BY <1>7, KeyMoves, PMIs DEF request, deed, modemvars
  <2> QED BY <2>1
      DEF ModemInv, OffKnown, Off, PreChecks, Sleeps, ShutsDown, InShutdown, Resets, Deep, Stops,
          Late, Listens, Sleeping
<1>8. ~Set(PM) /\ ~DoReboot(PM)
  BY DEF Asked, Set, DoReboot
<1>9. QED
  BY <1>1, <1>2, <1>3, <1>4, <1>5, <1>6, <1>7, <1>8, ModemGoesOn DEF Next, Steps, Tasks

(* While the power manager runs and no reboot was entered, a modem that is *)
(* off is being started, whatever reboots are asked for, as long as none   *)
(* crosses another or comes when the modules are asked to stop already:    *)
(* what tbox_pm_4g_do_shutdown switched off is switched on wherever        *)
(* RUNNING is entered after it, and no sleep cuts a deep reset short.  Of  *)
(* the 34 ticks that tbox_pm_action_do gives the shutdown, the proof needs *)
(* two.                                                                    *)
THEOREM ModemIsStarted ==
  ASSUME ShutdownTime > 1
  PROVE  Spec /\ [][~Crossed]_vars => []ModemNotLeftOff
<1>1. Typed /\ Asked /\ Alone /\ ModemInv /\ [Next]_vars /\ [~Crossed]_vars
        => Asked' /\ Alone' /\ ModemInv'
  <2>1. CASE UNCHANGED vars
    <3>1. Asked /\ Alone => Asked' /\ Alone'
      BY <2>1 DEF vars, Asked, Alone
    <3>2. UNCHANGED <<request, action, left, modemvars, task, call>>
      BY <2>1 DEF vars, deed
    <3> QED BY <3>1, <3>2, ModemInvKept
  <2> QED BY <2>1, AskedNext, AloneNext, ModemInvNext
<1>2. Typed /\ ModemInv => ModemNotLeftOff
  <2> SUFFICES ASSUME Typed, ModemInv, state = "RUNNING", ~on
               PROVE  modem \in {"STARTUP", "DEEPRESET"}
    BY DEF ModemNotLeftOff
  <2>1. modem \in Doings
    BY TypedIs DEF ModemTyped
  <2> QED BY <2>1 DEF ModemInv, OffKnown, Off, ShutsDown, InShutdown, Resets, Doings
<1>3. QED BY <1>1, <1>2, TypesInit, TypesNext, AskedInit, ModemInvInit, PTL DEF Spec
=============================================================================

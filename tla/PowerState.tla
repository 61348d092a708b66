----------------------------- MODULE PowerState -----------------------------
(***************************************************************************)
(* The power manager, src/src/service/pm.  Its task handles a tick each    *)
(* second: the state machine of tbox_pm_state.c, the check of the 4G       *)
(* modem's start and the power actions of tbox_pm_4g_mgr.c and             *)
(* tbox_pm_action.c, and the nightly reboot of tbox_pm_time_reboot.c.      *)
(* Other tasks call tbox_pm_reboot at any time.  To sleep the unit, the    *)
(* task that decides it runs tbox_pm_action_sleep or _listen to the end,   *)
(* through the sleep and the wake-up, before it goes on.                   *)
(*                                                                         *)
(* A section under tbox_pm_state_mutex is one action, joined to its        *)
(* neighbours where no other task reads or writes what they touch.  The    *)
(* wake type, which is only logged, the count of shutdowns, which is zero  *)
(* whenever it is looked at, tbox_pm_enable and tbox_pm_fctsleep are left  *)
(* out; all happens on one day.                                            *)
(***************************************************************************)
EXTENDS Naturals

CONSTANTS Sync,         \* modules whose stop function stops them
          Async,        \* modules that stop some time after it
          Modem4G,      \* the module of the 4G software, one of Async
          Callers,      \* tasks that call tbox_pm_reboot
          PM,           \* the power manager's task
          Types,        \* the reboots they ask for
          Nightly,      \* the reboot at night is configured
          StopTimeout,  \* TBOX_PM_STATE_WAIT_STOP_TIMEOUT, in ticks
          ShutdownTime, \* ticks from the shutdown of the modem to the sleep
          DeepTime,     \* ticks a deep reset is given
          MaxResets     \* TBOX_PM_ACTION_MAX_COUNT

Modules == Sync \cup Async
Tasks   == Callers \cup {PM}
Reboots == {"REBOOT_MCU", "REBOOT_4G", "DEEPREBOOT_4G", "REBOOT_4G_MCU"}

ASSUME PowerAssumption ==
  /\ Modem4G \in Async /\ Sync \cap Async = {}
  /\ PM \notin Callers
  /\ Types \subseteq Reboots
  /\ Nightly \in BOOLEAN
  /\ {StopTimeout, ShutdownTime, DeepTime, MaxResets} \subseteq Nat \ {0}

VARIABLES state,    \* tbox_pm_state
          post,     \* tbox_pm_post_action
          waited,   \* tbox_pm_tmcount
          reboot,   \* tbox_pm_reboot_type is TBOX_PM_REBOOT_MCU
          action,   \* tbox_pm_action_state
          left,     \* tbox_pm_action_timer_count
          abort,    \* tbox_pm_action_abort_flag
          resets,   \* tbox_pm_action_4greset_count
          daily,    \* tbox_pm_4gmcu_reboot_info.count
          modem,    \* tbox_pm_4g_do_action
          deep,     \* tbox_pm_4g_deepreset_state
          checking, \* tbox_pm_4g_check_startup_state
          night,    \* tbox_pm_time_reboot_state
          module,   \* tbox_modules[m].state
          stopping, \* modules asked to stop that have not stopped yet
          task,     \* where each task is
          call,     \* the reboot each task asks for, and the state it found
          acc,      \* level of the ACC pin: the key is on
          on        \* the modem runs

request  == <<state, post, waited, reboot>>
deed     == <<action, left, abort, resets, daily>>
modemvars == <<modem, deep, checking, on>>
mods     == <<module, stopping>>
vars     == <<request, deed, modemvars, mods, night, task, call, acc>>

PmStates == {"RUNNING", "SLEEP_PRE_CHECK", "SLEEP_POST_CHECK", "DOACTION", "FINISH"}
Posts    == {"NONE", "SLEEP", "SHUTDOWN"} \cup Reboots
Actions  == {"NONE", "SHUTDOWN", "4G_RESET", "4G_DEEP_RESET", "4G_MCU_RESET"}
Doings   == {"NOTHING", "STARTUP", "SHUTDOWN", "RESET", "DEEPRESET"}
Stages   == {"NONE", "WAIT_STOP4G", "POWERED_DOWN", "FINISH"}
Sleeping == {"stop", "asleep", "wake"}
Pcs      == Sleeping \cup {"idle", "precheck", "modem", "action", "night",
                           "set", "do", "handle", "reset"}

At(pc) == [pc |-> pc, back |-> "idle", cut |-> FALSE, keyonly |-> FALSE]

(* A cold start, after the modules were started: the modem is started.     *)
Init ==
  /\ state = "RUNNING" /\ post = "NONE" /\ waited = 0 /\ reboot = FALSE
  /\ action = "NONE" /\ left = 0 /\ abort = FALSE /\ resets = 0 /\ daily = 0
  /\ modem = "STARTUP" /\ deep = "NONE" /\ checking = FALSE /\ on = FALSE
  /\ night = "IDLE"
  /\ module = [m \in Modules |-> "START"]
  /\ stopping = {}
  /\ task = [t \in Tasks |-> At("idle")]
  /\ call = [t \in Tasks |-> [type |-> "REBOOT_MCU", old |-> "RUNNING", fresh |-> TRUE]]
  /\ acc \in BOOLEAN

Goto(t, pc) == task' = [task EXCEPT ![t] = At(pc)]

-----------------------------------------------------------------------------
(* tbox_module_stop and tbox_module_start: a module that is still stopping *)
(* has the state START, which start passes over.                           *)
Stop(ms) ==
  /\ module' = [m \in Modules |-> IF m \in ms \cap Sync THEN "STOP" ELSE module[m]]
  /\ stopping' = stopping \cup {m \in ms \cap Async : module[m] = "START"}

(* Wrong: the modules stay as they are.                                    *)
StartNone(ms) == UNCHANGED mods

Start(ms) == /\ module' = [m \in Modules |-> IF m \in ms THEN "START" ELSE module[m]]
             /\ UNCHANGED stopping

AllStopped == \A m \in Modules : module[m] = "STOP"

(* A module reports TBOX_MODULE_STATE_STOP, sooner or later or never.      *)
ModuleStops(m) ==
  /\ m \in stopping
  /\ module' = [module EXCEPT ![m] = "STOP"]
  /\ stopping' = stopping \ {m}
  /\ UNCHANGED <<request, deed, modemvars, night, task, call, acc>>

-----------------------------------------------------------------------------
(* tbox_pm_4g_do_startup, _do_shutdown, _do_reset and _do_deepreset: what  *)
(* is being done to the modem is not interrupted.                          *)
Request(doing) ==
  /\ UNCHANGED on
  /\ IF modem # "NOTHING" THEN UNCHANGED <<modem, deep, checking>>
     ELSE /\ modem' = doing
          /\ deep' = IF doing = "DEEPRESET" THEN "WAIT_STOP4G" ELSE deep
          /\ checking' = FALSE

(* A deep reset begins with stopping the 4G software. *)
RequestDeep ==
  /\ Request("DEEPRESET")
  /\ IF modem = "NOTHING" THEN Stop({Modem4G}) ELSE UNCHANGED mods

-----------------------------------------------------------------------------
(* tbox_pm_action_sleep (cut: the modem is without power then) and         *)
(* tbox_pm_action_listen by task t, from tbox_pm_stop to the delay after   *)
(* it.  In the factory and at low voltage only the key wakes the unit.     *)
BeginSleep(t, cut, back) ==
  /\ \E keyonly \in BOOLEAN :
       task' = [task EXCEPT ![t] = [pc |-> "stop", back |-> back, cut |-> cut,
                                    keyonly |-> keyonly]]
  /\ state' = "FINISH" /\ waited' = 0 /\ reboot' = FALSE
  /\ action' = "NONE" /\ left' = 0
  /\ checking' = FALSE
  /\ night' = "IDLE"
  /\ UNCHANGED <<post, resets, daily, modem, deep, on, mods>>

(* Begin action a, which does doing to the modem and takes so many ticks.  *)
Act(doing, a, ticks) ==
  /\ IF doing = "DEEPRESET" THEN RequestDeep ELSE Request(doing) /\ UNCHANGED mods
  /\ action' = a /\ left' = ticks

Perform(type) ==
  CASE action = "NONE" /\ type = "SHUTDOWN" -> Act("SHUTDOWN", "SHUTDOWN", ShutdownTime)
    [] action = "NONE" /\ type = "REBOOT_4G" /\ resets < 2 * MaxResets ->
         Act("RESET", "4G_RESET", 1)
    [] action = "NONE" /\ type = "DEEPREBOOT_4G" /\ resets < MaxResets ->
         Act("DEEPRESET", "4G_DEEP_RESET", DeepTime)
    [] action = "NONE" /\ type = "REBOOT_4G_MCU" /\ daily < MaxResets ->
         Act("DEEPRESET", "4G_MCU_RESET", DeepTime)
    [] OTHER -> UNCHANGED <<modemvars, mods, action, left>>

(* tbox_pm_action_do of type by task t, which goes on at pc back with the  *)
(* state s and the count w, unless it puts the unit to sleep.              *)
Do(t, type, s, w, back) ==
  /\ abort' = IF action = "NONE" THEN FALSE ELSE abort
  /\ IF action = "NONE" /\ type = "SLEEP" THEN BeginSleep(t, FALSE, back)
     ELSE /\ Perform(type)
          /\ state' = s /\ waited' = w
          /\ Goto(t, IF action = "NONE" /\ type = "REBOOT_MCU" THEN "reset" ELSE back)
          /\ UNCHANGED <<post, reboot, resets, daily, night>>

-----------------------------------------------------------------------------
(* The power manager's tick, first part: tbox_pm_state_timeout.  The timer *)
(* service is stopped while a task puts the unit to sleep.  A call that a  *)
(* tick overtakes is over before the next tick, a second later.            *)
TimersRun == \A t \in Tasks : task[t].pc \notin Sleeping
Awake     == \A t \in Tasks : task[t].pc # "asleep"

(* The modem's shutdown takes 3.3 of the 34 seconds of the action.         *)
InTime == ~(action = "SHUTDOWN" /\ left = 1 /\ modem = "SHUTDOWN")

Tick(s) ==
  /\ task[PM].pc = "idle" /\ state = s
  /\ TimersRun /\ InTime
  /\ \A c \in Callers : task[c].pc # "idle" => call[c].fresh
  /\ call' = [t \in Tasks |-> [call[t] EXCEPT !.fresh = FALSE]]
  /\ UNCHANGED acc

(* tbox_pm_state_can_stop: a module may refuse.                            *)
TickRunning ==
  /\ Tick("RUNNING")
  /\ \/ UNCHANGED state
     \/ ~acc /\ modem = "NOTHING" /\ state' = "SLEEP_PRE_CHECK"
  /\ Goto(PM, "modem")
  /\ UNCHANGED <<post, waited, reboot, deed, modemvars, mods, night>>

StopModules == /\ state' = "SLEEP_POST_CHECK" /\ waited' = 0
               /\ checking' = FALSE
               /\ Stop(Modules)

TickPreCheck ==
  /\ Tick("SLEEP_PRE_CHECK")
  /\ IF post = "REBOOT_MCU" /\ modem = "NOTHING" THEN StopModules
     ELSE UNCHANGED <<state, waited, checking, mods>>
  /\ Goto(PM, IF post = "REBOOT_MCU" THEN "modem" ELSE "precheck")
  /\ UNCHANGED <<post, reboot, deed, modem, deep, on, night>>

(* The rest of tbox_pm_timeout_in_sleepprecheck, after the modules were    *)
(* asked and the mode and the configuration read.                          *)
PreCheck ==
  /\ task[PM].pc = "precheck"
  /\ \/ /\ state' = "RUNNING"
        /\ UNCHANGED <<post, waited, checking, mods>>
     \/ /\ ~acc /\ modem = "NOTHING"
        /\ post' \in {"SLEEP", "SHUTDOWN"}
        /\ StopModules
  /\ Goto(PM, "modem")
  /\ UNCHANGED <<reboot, deed, modem, deep, on, night, call, acc>>

(* Wrong: the ticks are not counted. *)
CountStands == waited

Count == waited + 1

Waited == AllStopped \/ Count >= StopTimeout

TickPostCheck ==
  /\ Tick("SLEEP_POST_CHECK")
  /\ \/ /\ post # "REBOOT_MCU" /\ acc
        /\ Start(Modules)
        /\ state' = "RUNNING" /\ waited' = 0
        /\ Goto(PM, "modem")
        /\ UNCHANGED <<post, reboot, deed, modemvars, night>>
     \/ /\ post = "REBOOT_MCU" \/ ~acc
        /\ Waited
        /\ Do(PM, IF post \in {"SHUTDOWN", "REBOOT_MCU"} THEN post ELSE "SLEEP",
              "DOACTION", 0, "modem")
     \/ /\ post = "REBOOT_MCU" \/ ~acc
        /\ ~Waited
        /\ waited' = Count
        /\ Goto(PM, "modem")
        /\ UNCHANGED <<state, post, reboot, deed, modemvars, mods, night>>

(* Only a sleep or a shutdown can be aborted, by the key.                  *)
TickDoAction ==
  /\ Tick("DOACTION")
  /\ abort' = IF post \in {"SLEEP", "SHUTDOWN"} THEN acc ELSE abort
  /\ Goto(PM, "modem")
  /\ UNCHANGED <<request, action, left, resets, daily, modemvars, mods, night>>

(* Wrong: the modem is left alone.                                         *)
ResumeOnly ==
  /\ state' = "RUNNING"
  /\ Start(Modules)
  /\ UNCHANGED <<post, modemvars>>

(* Leave FINISH: a modem that was shut down is started again.              *)
Resume ==
  /\ state' = "RUNNING"
  /\ Start(Modules)
  /\ IF post = "SHUTDOWN" THEN post' = "NONE" /\ Request("STARTUP")
     ELSE UNCHANGED <<post, modemvars>>

(* Wrong: nothing is done.                                                 *)
TickFinishIdle ==
  /\ Tick("FINISH")
  /\ Goto(PM, "modem")
  /\ UNCHANGED <<request, deed, modemvars, mods, night>>

TickFinish ==
  /\ Tick("FINISH")
  /\ \/ /\ acc
        /\ Resume
        /\ Goto(PM, "modem")
        /\ UNCHANGED <<waited, reboot, deed, night>>
     \/ /\ ~acc /\ post \in {"SLEEP", "SHUTDOWN"}
        /\ BeginSleep(PM, post = "SHUTDOWN", "modem")
        /\ UNCHANGED abort
     \/ /\ ~acc /\ post \notin {"SLEEP", "SHUTDOWN"}
        /\ Goto(PM, "modem")
        /\ UNCHANGED <<request, deed, modemvars, mods, night>>

-----------------------------------------------------------------------------
(* Second part: tbox_pm_4g_mgr_period.  The 4G software runs only when the *)
(* modem does.                                                             *)
CheckStartup ==
  /\ task[PM].pc = "modem"
  /\ \/ UNCHANGED <<modemvars, mods>>
     \/ /\ checking /\ (on \/ Modem4G \in stopping)
        /\ checking' = FALSE
        /\ UNCHANGED <<modem, deep, on, mods>>
     \/ /\ checking /\ Modem4G \notin stopping
        /\ Request("STARTUP")
        /\ UNCHANGED mods
  /\ Goto(PM, "action")
  /\ UNCHANGED <<request, deed, night, call, acc>>

-----------------------------------------------------------------------------
(* Third part: tbox_pm_action_period.                                      *)
(* Wrong: the countdown of the action stands still.                        *)
LeftStands == left

Left == IF left > 0 THEN left - 1 ELSE 0

Done == Left = 0 \/ modem = "NOTHING"

Period ==
  /\ task[PM].pc = "action"
  /\ UNCHANGED acc

PeriodIdle ==
  /\ Period
  /\ CASE action = "NONE"     -> TRUE
       [] action = "SHUTDOWN" -> Left > 0
       [] OTHER               -> ~Done
  /\ left' = Left
  /\ Goto(PM, "night")
  /\ UNCHANGED <<request, action, abort, resets, daily, modemvars, mods, night, call>>

PeriodShutdown ==
  /\ Period
  /\ action = "SHUTDOWN" /\ Left = 0
  /\ IF abort
     THEN /\ state' = "FINISH" /\ waited' = 0 /\ reboot' = FALSE
          /\ abort' = FALSE /\ action' = "NONE" /\ left' = 0
          /\ Goto(PM, "night")
          /\ UNCHANGED <<post, resets, daily, modemvars, mods, night>>
     ELSE BeginSleep(PM, TRUE, "night") /\ UNCHANGED abort
  /\ UNCHANGED call

PeriodReset ==
  /\ Period
  /\ action \in {"4G_RESET", "4G_DEEP_RESET"} /\ Done
  /\ left' = 0 /\ resets' = resets + 1 /\ action' = "NONE"
  /\ Goto(PM, "night")
  /\ UNCHANGED <<request, abort, daily, modemvars, mods, night, call>>

(* The modem was reset: tbox_pm_reboot(TBOX_PM_REBOOT_MCU) for the rest,   *)
(* up to its handler of the state it finds.                                *)
AskMcu(t) ==
  /\ reboot' = TRUE
  /\ call' = [call EXCEPT ![t].old = state]
  /\ Goto(t, "handle")
  /\ UNCHANGED <<state, post, waited>>

PeriodMcu ==
  /\ Period
  /\ action = "4G_MCU_RESET" /\ Done
  /\ left' = 0 /\ daily' = daily + 1 /\ action' = "NONE"
  /\ AskMcu(PM)
  /\ UNCHANGED <<abort, resets, modemvars, mods, night>>

-----------------------------------------------------------------------------
(* Fourth part: tbox_pm_time_reboot_period.  Whether it is night and the   *)
(* main battery is connected is open.                                      *)
Night(s) ==
  /\ task[PM].pc = "night" /\ night = s
  /\ Goto(PM, "idle")
  /\ UNCHANGED <<state, waited, reboot, resets, daily, call, acc>>

NightIdle ==
  /\ Night("IDLE")
  /\ \/ UNCHANGED night
     \/ ~acc /\ Nightly /\ daily = 0 /\ night' = "START"
  /\ UNCHANGED <<post, action, left, abort, modemvars, mods>>

NightStart ==
  /\ Night("START")
  /\ IF action = "NONE" /\ daily < MaxResets
     THEN /\ post' = "REBOOT_4G_MCU" /\ abort' = FALSE
          /\ Act("DEEPRESET", "4G_MCU_RESET", DeepTime)
          /\ night' = "FINISH"
     ELSE /\ night' = "IDLE"
          /\ UNCHANGED <<post, action, left, abort, modemvars, mods>>

NightFinish ==
  /\ Night("FINISH")
  /\ UNCHANGED <<post, action, left, abort, modemvars, mods, night>>

-----------------------------------------------------------------------------
(* The power manager handles the end of the modem's timer.  A deep reset   *)
(* waits for the 4G software to stop, 20 s at most, and starts it again    *)
(* when the modem has power again.                                         *)
ModemTimeout ==
  /\ task[PM].pc = "idle" /\ TimersRun
  /\ modem # "NOTHING"
  /\ \/ /\ modem # "DEEPRESET"
        /\ modem' = "NOTHING"
        /\ checking' = IF modem = "SHUTDOWN" THEN checking ELSE TRUE
        /\ on' = IF modem = "RESET" THEN on ELSE modem = "STARTUP"
        /\ UNCHANGED <<deep, mods>>
     \/ /\ modem = "DEEPRESET" /\ deep = "WAIT_STOP4G"
        /\ deep' = "POWERED_DOWN" /\ on' = FALSE
        /\ UNCHANGED <<modem, checking, mods>>
     \/ /\ modem = "DEEPRESET" /\ deep = "POWERED_DOWN"
        /\ deep' = "FINISH" /\ on' = TRUE
        /\ Start({Modem4G})
        /\ UNCHANGED <<modem, checking>>
     \/ /\ modem = "DEEPRESET" /\ deep = "FINISH"
        /\ modem' = "NOTHING" /\ deep' = "NONE" /\ checking' = TRUE
        /\ UNCHANGED <<on, mods>>
  /\ UNCHANGED <<request, deed, night, task, call, acc>>

-----------------------------------------------------------------------------
(* tbox_pm_reboot by another task, up to tbox_pm_action_is_cando.          *)
CanDo(type) ==
  /\ action = "NONE"
  /\ type \in {"REBOOT_4G", "DEEPREBOOT_4G"} => resets < 2 * MaxResets
  /\ type = "REBOOT_4G_MCU" => daily < MaxResets

Ask(c) ==
  /\ Awake
  /\ task[c].pc = "idle"
  /\ \E type \in Types :
       /\ CanDo(type)
       /\ call' = [call EXCEPT ![c].type = type, ![c].fresh = TRUE]
  /\ Goto(c, "set")
  /\ UNCHANGED <<request, deed, modemvars, mods, night, acc>>

(* What is asked for is entered.                                           *)
Set(c) ==
  /\ Awake
  /\ task[c].pc = "set"
  /\ IF call[c].type = "REBOOT_MCU" THEN AskMcu(c)
     ELSE /\ post' = call[c].type
          /\ Goto(c, "do")
          /\ UNCHANGED <<state, waited, reboot, call>>
  /\ UNCHANGED <<deed, modemvars, mods, night, acc>>

(* The action is done that is entered by now.                              *)
DoReboot(c) ==
  /\ Awake
  /\ task[c].pc = "do"
  /\ Do(c, post, state, waited, "idle")
  /\ UNCHANGED <<call, acc>>

(* Wrong: the modules are not stopped when the modem is left alone.        *)
HandleAtOnce(t) ==
  /\ Awake
  /\ task[t].pc = "handle"
  /\ IF reboot THEN post' = "REBOOT_MCU" /\ state' = "DOACTION" ELSE UNCHANGED <<post, state>>
  /\ Goto(t, "reset")
  /\ UNCHANGED <<waited, reboot, deed, modemvars, mods, night, call, acc>>

(* tbox_pm_reboot_in_running, _sleepprecheck, _sleeppostcheck, _doaction   *)
(* and _finish: a reboot of the MCU first stops the modules.               *)
Handle(t) ==
  /\ Awake
  /\ task[t].pc = "handle"
  /\ \/ /\ reboot /\ call[t].old = "RUNNING"
        /\ post' = "REBOOT_MCU" /\ state' = "SLEEP_PRE_CHECK"
        /\ UNCHANGED <<waited, checking, mods>>
     \/ /\ reboot /\ call[t].old = "SLEEP_PRE_CHECK"
        /\ post' = "REBOOT_MCU"
        /\ IF modem = "NOTHING" THEN StopModules
           ELSE UNCHANGED <<state, waited, checking, mods>>
     \/ /\ reboot /\ call[t].old = "SLEEP_POST_CHECK"
        /\ post' = "REBOOT_MCU"
        /\ UNCHANGED <<state, waited, checking, mods>>
     \/ /\ ~reboot \/ call[t].old \in {"DOACTION", "FINISH"}
        /\ UNCHANGED <<state, post, waited, checking, mods>>
  /\ Goto(t, IF t = PM THEN "night" ELSE "idle")
  /\ UNCHANGED <<reboot, deed, modem, deep, on, night, call, acc>>

-----------------------------------------------------------------------------
(* The rest of tbox_pm_action_sleep and _listen.  From vTaskSuspendAll to  *)
(* xTaskResumeAll no other task runs; the edge of the key wakes the unit,  *)
(* and the clock or another source does.                                   *)
FallAsleep(t) ==
  /\ Awake
  /\ task[t].pc = "stop"
  /\ task' = [task EXCEPT ![t].pc = "asleep"]
  /\ on' = (on /\ ~task[t].cut)
  /\ UNCHANGED <<request, deed, modem, deep, checking, mods, night, call, acc>>

KeyTurns ==
  /\ acc' = ~acc
  /\ task' = [t \in Tasks |-> IF acc' /\ task[t].pc = "asleep"
                              THEN [task[t] EXCEPT !.pc = "wake"] ELSE task[t]]
  /\ UNCHANGED <<request, deed, modemvars, mods, night, call>>

OtherWake(t) ==
  /\ task[t].pc = "asleep" /\ ~task[t].keyonly
  /\ task' = [task EXCEPT ![t].pc = "wake"]
  /\ UNCHANGED <<request, deed, modemvars, mods, night, call, acc>>

(* tbox_pm_start forgets what was being done to the modem; then            *)
(* tbox_pm_wakeup_in_running, _sleepprecheck, _sleeppostcheck, _doaction   *)
(* or _finish.                                                             *)
Wakened ==
  CASE state = "RUNNING" ->
         /\ waited' = 0 /\ post' = "NONE" /\ reboot' = FALSE
         /\ UNCHANGED <<state, mods>>
    [] state # "RUNNING" /\ state # "FINISH" /\ post = "REBOOT_MCU" -> UNCHANGED <<request, mods>>
    [] state = "SLEEP_PRE_CHECK" /\ post # "REBOOT_MCU" ->
         /\ state' = "RUNNING"
         /\ UNCHANGED <<post, waited, reboot, mods>>
    [] state \in {"SLEEP_POST_CHECK", "DOACTION"} /\ post # "REBOOT_MCU" ->
         /\ state' = "RUNNING"
         /\ Start(Modules)
         /\ UNCHANGED <<post, waited, reboot>>
    [] state = "FINISH" ->
         /\ state' = "RUNNING"
         /\ post' = IF post = "SHUTDOWN" THEN "NONE" ELSE post
         /\ Start(Modules)
         /\ UNCHANGED <<waited, reboot>>

WakeUp(t) ==
  /\ Awake
  /\ task[t].pc = "wake"
  /\ Wakened
  /\ deep' = "NONE" /\ resets' = 0
  /\ LET startup == state = "FINISH" /\ post = "SHUTDOWN"
     IN  /\ modem' = IF startup THEN "STARTUP" ELSE "NOTHING"
         /\ checking' = ~startup
  /\ action' = IF task[t].back = "night" THEN "NONE" ELSE action
  /\ Goto(t, task[t].back)
  /\ UNCHANGED <<left, abort, daily, on, night, call, acc>>

-----------------------------------------------------------------------------
(* Nothing goes on after the reset of the MCU.                             *)
Running == \A t \in Tasks : task[t].pc # "reset"

PMSteps ==
  \/ TickRunning \/ TickPreCheck \/ PreCheck \/ TickPostCheck \/ TickDoAction \/ TickFinish
  \/ CheckStartup
  \/ PeriodIdle \/ PeriodShutdown \/ PeriodReset \/ PeriodMcu
  \/ NightIdle \/ NightStart \/ NightFinish

Steps(t) == Set(t) \/ DoReboot(t) \/ Handle(t)

Next ==
  /\ Running
  /\ \/ Awake /\ (PMSteps \/ ModemTimeout)
     \/ \E c \in Callers : Ask(c)
     \/ \E t \in Tasks : Steps(t) \/ FallAsleep(t) \/ OtherWake(t) \/ WakeUp(t)
     \/ \E m \in Modules : ModuleStops(m)
     \/ KeyTurns

(* The timers and the scheduler see to the steps of the tasks; a timeout   *)
(* of the modem's timer stays pending until the power manager waits again. *)
(* A module may never stop, and the key need not turn.                     *)
Fairness ==
  /\ WF_vars(Running /\ Awake /\ PMSteps)
  /\ SF_vars(Running /\ Awake /\ ModemTimeout)
  /\ \A t \in Tasks :
       /\ WF_vars(Running /\ Steps(t))
       /\ WF_vars(Running /\ FallAsleep(t))
       /\ WF_vars(Running /\ OtherWake(t))
       /\ WF_vars(Running /\ WakeUp(t))

Spec == Init /\ [][Next]_vars /\ Fairness

-----------------------------------------------------------------------------
(* The state of the power manager, of the modem, the modules and the tasks.*)
TypeOK ==
  /\ state \in PmStates /\ post \in Posts /\ waited \in 0 .. StopTimeout - 1
  /\ reboot \in BOOLEAN
  /\ action \in Actions /\ left \in 0 .. ShutdownTime + DeepTime
  /\ abort \in BOOLEAN
  /\ resets \in 0 .. 2 * MaxResets /\ daily \in 0 .. MaxResets
  /\ modem \in Doings /\ deep \in Stages
  /\ checking \in BOOLEAN /\ on \in BOOLEAN
  /\ night \in {"IDLE", "START", "FINISH"}
  /\ module \in [Modules -> {"START", "STOP"}] /\ stopping \subseteq Async
  /\ task \in [Tasks -> [pc : Pcs, back : {"idle", "modem", "night"},
                         cut : BOOLEAN, keyonly : BOOLEAN]]
  /\ call \in [Tasks -> [type : Reboots, old : PmStates, fresh : BOOLEAN]]
  /\ acc \in BOOLEAN

Asleep == ~Awake

(* Once the modules were asked to stop, the unit sleeps, is reset or runs  *)
(* again, even if a module never stops (tbox_pm_timeout_in_sleeppostcheck  *)
(* waits TBOX_PM_STATE_WAIT_STOP_TIMEOUT seconds), but for a reboot at     *)
(* night, of which RebootHappens tells.                                    *)
SleepEnds ==
  state = "SLEEP_POST_CHECK" ~> state = "RUNNING" \/ Asleep \/ ~Running \/ night = "FINISH"

(* Only the key wakes the unit.                                            *)
KeyOnly == \E t \in Tasks : task[t].pc \in Sleeping /\ task[t].keyonly

(* With the key on, the unit runs, whatever the power manager was doing,   *)
(* unless a reboot was entered; it may sleep first, if the clock wakes it. *)
KeyStarts ==
  acc ~> state = "RUNNING" \/ ~acc \/ KeyOnly \/ ~Running \/ post \in Reboots

(* The key that is turned on wakes the unit, also when it is the only      *)
(* source left (tbox_pm_action_sleep keeps PM_WAKE_SOURCE_ACC).            *)
AccWakes == Asleep /\ acc ~> ~Asleep \/ ~acc

(* While the power manager runs and no reboot was entered, a modem that is *)
(* off is being started, or the check that starts it again is armed.       *)
ModemNotLeftOff ==
  state = "RUNNING" /\ ~on /\ post \notin Reboots => modem \in {"STARTUP", "DEEPRESET"} \/ checking

(* While the power manager runs, no module that stops at once is stopped.  *)
SyncModulesRun == state = "RUNNING" => \A m \in Sync : module[m] = "START"

(* The reboot of the modem that c asks for was replaced: tbox_pm_reboot    *)
(* reads tbox_pm_post_action again after it gave the mutex back.           *)
Replaced(c) == task[c].pc = "do" /\ post # call[c].type

(* The MCU is reset only after its modules stopped or had the time to, but *)
(* by a task that asked for another reboot and finds this one entered.     *)
ResetAfterStop ==
  [][~Running' => \/ state = "SLEEP_POST_CHECK" /\ (AllStopped \/ waited + 1 >= StopTimeout)
                  \/ \E c \in Callers : Replaced(c) /\ task'[c].pc = "reset"]_vars

(* What tbox_pm_action_do began is over one day, unless the unit sleeps or *)
(* is reset: tbox_pm_action_period does not wait for the modem forever.    *)
ActionEnds == action # "NONE" ~> action = "NONE" \/ KeyOnly \/ ~Running

(* The reboot of modem and MCU ends with the reset of the MCU.             *)
RebootHappens == action = "4G_MCU_RESET" ~> ~Running
=============================================================================

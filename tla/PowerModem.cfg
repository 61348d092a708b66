SPECIFICATION Spec
CONSTANTS
  s1 = s1
  m4 = m4
  pm = pm
  c1 = c1
  Sync = {s1}
  Async = {m4}
  Modem4G = m4
  Callers = {c1}
  PM = pm
  Types = {"REBOOT_4G", "DEEPREBOOT_4G", "REBOOT_4G_MCU"}
  Nightly = FALSE
  StopTimeout = 2
  ShutdownTime = 2
  DeepTime = 2
  MaxResets = 1
INVARIANT SyncModulesRun
PROPERTIES ActionEnds
CHECK_DEADLOCK FALSE

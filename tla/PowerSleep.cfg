SPECIFICATION Spec
CONSTANTS
  s1 = s1
  m4 = m4
  pm = pm
  c1 = c1
  Sync = {s1}
  Async = {m4}
  Modem4G = m4
  Callers = {c1}
  PM = pm
  Types = {"REBOOT_MCU"}
  Nightly = TRUE
  StopTimeout = 2
  ShutdownTime = 2
  DeepTime = 2
  MaxResets = 1
INVARIANT ModemNotLeftOff
PROPERTIES
  SleepEnds
  KeyStarts
  ResetAfterStop
CHECK_DEADLOCK FALSE

SPECIFICATION Spec
CONSTANTS
  s1 = s1
  m4 = m4
  pm = pm
  Sync = {s1}
  Async = {m4}
  Modem4G = m4
  Callers = {}
  PM = pm
  Types = {}
  Nightly = TRUE
  StopTimeout = 2
  ShutdownTime = 2
  DeepTime = 2
  MaxResets = 1
PROPERTIES RebootHappens
CHECK_DEADLOCK FALSE

CONSTANTS
  NSmall = 1
  NMedium = 0
  NLarge = 0
  Modules = {}
  NoModule = NoModule
  Clients = {c1}
  Msgs = {m1}
  NoMsg = NoMsg
  Needs = {1}
  QueueCap = 1
  ReportCap = 5
  MaxGen = 2
  MaxStarts = 2
  MaxBlocked = 0
  MaxAttach = 0
  Policies = {"RESET"}
  AllocMayFail = FALSE
  CreateMayFail = FALSE
  StackMayShrink = TRUE
SPECIFICATION RecoverSpec
PROPERTIES
  SupervisorStarts
CHECK_DEADLOCK FALSE

CONSTANTS
  NSmall = 1
  NMedium = 0
  NLarge = 0
  Modules = {}
  NoModule = NoModule
  Clients = {c1}
  Msgs = {m1, m2}
  NoMsg = NoMsg
  Needs = {1}
  QueueCap = 1
  ReportCap = 5
  MaxGen = 1
  MaxStarts = 2
  MaxBlocked = 0
  MaxAttach = 0
  Policies = {"RESET"}
  AllocMayFail = FALSE
  CreateMayFail = FALSE
  StackMayShrink = FALSE
SPECIFICATION Spec
PROPERTY StopHolds
CHECK_DEADLOCK FALSE

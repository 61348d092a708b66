CONSTANTS
  NSmall = 1
  NMedium = 1
  NLarge = 0
  Modules = {A}
  NoModule = NoModule
  Clients = {c1}
  Msgs = {m1, m2}
  NoMsg = NoMsg
  Needs = {1, 2}
  QueueCap = 1
  ReportCap = 5
  MaxGen = 1
  MaxStarts = 1
  MaxBlocked = 0
  MaxAttach = 1
  Policies = {"RESET"}
  AllocMayFail = FALSE
  CreateMayFail = FALSE
  StackMayShrink = FALSE
SPECIFICATION Spec
PROPERTY IsDelivery
CHECK_DEADLOCK FALSE
SYMMETRY Interchangeable

CONSTANTS
  NSmall = 1
  NMedium = 0
  NLarge = 0
  Modules = {}
  NoModule = NoModule
  Clients = {c1}
  Msgs = {m1, m2}
  NoMsg = NoMsg
  Needs = {1}
  QueueCap = 1
  ReportCap = 5
  MaxGen = 3
  MaxStarts = 2
  MaxBlocked = 1
  MaxAttach = 0
  Policies = {"RESET", "FORBID", "WARNING"}
  AllocMayFail = TRUE
  CreateMayFail = TRUE
  StackMayShrink = TRUE
SPECIFICATION Spec
INVARIANTS
  BusyIsHandled
  StoppedIsEmpty
  KnownWorker
  OneWorker
PROPERTY IsDelivery
CHECK_DEADLOCK FALSE
SYMMETRY Interchangeable

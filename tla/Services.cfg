SPECIFICATION MCSpec
CONSTANTS
  \* Frames of a CAN port, and its recovery.
  CanNodes = 2
  CanSlots = 1
  CanRounds = 1
  CanOnce = 1
  MaxSends = 2
  MaxArrivals = 2
  MaxStops = 1
  MaxFaults = 1
  MaxCan = 4
  ErrorThreshold = 0
  MaxMishaps = 1
  \* J1939: the table of parameter groups, and messages of three packets.
  KnownPgns = {2, 4}
  OtherPgns = {1, 3, 5}
  SourceAddrs = {1, 2}
  TableSize = 5
  MaxSubs = 3
  Sources = {s1, s2}
  Lengths = {7, 8}
  PacketBytes = 3
  RxBuffers = 8
  TpLimit = 1
  RxListSize = 1
  MaxMessages = 3
  MaxOdd = 1
  \* Software timers: one of each kind, a wheel of three slots.
  OnceTimers = {o}
  PeriodTimers = {p}
  Periods = {1, 4}
  WheelSlots = 3
  Supplementary = 2
  \* AT commands: two queues of one place, two buffers, two commands.
  AtPri <- Priorities
  AtBuffers = 2
  AtOthers = {pm}
  AtTicks = {1}
  AtCommandSet <- Commands
  MaxCmds = 2
  MaxResets = 1
  \* Tasks of modules: two, the first of a module that handles the notices.
  RunloopNum = 2
  Subscribers = {1}
  HandleNum = 3
  ReportPlaces = 2
  MaxDeaths = 2
  MaxTroubles = 1
  \* Memory of the core: sizes at both ends of classes of each step, one too large.
  PoolBytes = 20480
  BlockSizes = {1, 104, 108, 232, 236, 492, 1000, 1004, 2028, 4072, 4076, 8172, 16360, 16364}
  MaxChunks = 3
INVARIANTS
  NoFrameVanishes
  NoFrameWaits
  ClientsKnowTheBus
  PortRecovers
  SubscribedPasses
  NothingMixed
  NothingMissed
  StaleSessionYields
  TimersInPlace
  DueIsNoticed
  BufferOwned
  AnsweredInTime
  AnsweredOnce
  RunloopsRepaired
  BlocksApart
CHECK_DEADLOCK FALSE

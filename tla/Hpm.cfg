SPECIFICATION MCSpec
CONSTANTS
  \* Reporting: three reports in two packs, room for one in flash, two troubles.
  MaxReports = 3
  PackNum = 2
  StoreCap = 1
  MaxTroubles = 2
  \* Report store: two sectors of two packets, one fault.
  FlashSectors = 2
  FlashPackets = 2
  FlashReports = {r1, r2}
  BadReport = BadReport
  NoRecord = NoRecord
  UnreadRecord = UnreadRecord
  ClearedStore = ClearedStore
  MaxFaults = 1
  \* Byte queue: counters wrap at 8, sizes 1, 2 and 4, transfers up to 3.
  Word = 8
  Powers = {1, 2, 4}
  Byte = {a, b}
  MaxReq = 5
  MaxLen = 3
INVARIANTS
  NothingForgotten
  AckedIsReceived
  QuietWhenStopped
  NothingGarbled
  Occupancy
PROPERTIES
  Delivered
  FlashIsQueue
  IsFifo
CHECK_DEADLOCK FALSE

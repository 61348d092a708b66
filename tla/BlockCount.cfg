CONSTANTS
  NTasks = 1
  NEntries = 2
  Names = {a, b, c}
  NoName = NoName
  Word = 3
  Limit = 1
  Period = 1
  ReportAt = 3
  MaxKills = 1
  MaxStarts = 1
SPECIFICATION FairSpec
INVARIANTS
  OneEntry
  NoReport
PROPERTY StuckIsCounted

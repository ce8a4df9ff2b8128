SPECIFICATION JournalSpec
CONSTANTS
  LogCap = 3
  ExpCap = 2
  SleepEvery = 3
  MaxDream = 2
  JournalTicks = 7
INVARIANT DreamsAreVerified
CHECK_DEADLOCK FALSE

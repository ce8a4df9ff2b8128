SPECIFICATION Spec
CONSTANTS
  NoKey = NoKey
  Keys = {a, lshift}
  LShift = lshift
  QueueCap = 3
  MaxEvents = 5
  Gestures <- MCGestures
  MaxGestures = 3
  MaxLost = 2
  Addrs = {7}
  MaxTicks = 3
  MaxCommands = 4
  LineCap = 4
  MaxDrain = 2
  FifoSize = 3
  Lengths = {1, 3}
  MaxLines = 2
  Manners <- MCManners
  Width = 4
  UMax = 123456
  Words = {0, 1, 10, 255, 4095, 48879, 65535}
  Floats2 <- MCFloats2
  Lines <- MCLines
  Rooms = {0, 1, 2, 3}
  FloatWidth = 9
  BufferLens = {10, 43, 44, 59, 60, 64, 1000, 1518}
  Askers = {"a", "b"}
  Us = "us"
  Decks <- MCDecks
  Cpus <- MCCpus
  MaxCanali = 10
INVARIANTS
  TypeOK
  HonestForOneKey
  GesturesComeOut
  PainIsCounted
  LinesAreKept
  NumbersComeBack
  FramesAreTrue
  SensesAreServed
PROPERTY PacedIsHeard
CHECK_DEADLOCK FALSE

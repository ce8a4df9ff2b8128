SPECIFICATION Spec
CONSTANTS
  Slots = 2
  Persistence = 2
  Trial = 4
  Threshold = 1
  Errors = {0, 1, 3}
  NeuroTicks = 11
  still0 = still0
  near1 = near1
  near2 = near2
  far3 = far3
  Cap = 3
  States <- MCStates
  Zero = still0
  Kin <- MCKin
  Every = 2
  MemTicks = 6
  Concepts = {0, 1}
  Pain = 0
  Candidates = {0, 1, 5}
  Ruled = {0, 1}
  Flee = 2
  MinSamples = 2
  Good = 6
  ExploreEvery = 3
  OutcomeEvery = 2
  Surprises = {0, 1, 2}
  WillTicks = 8
  Refractory = 2
  FanEvery = 2
  MaxStim = 2
  AutoTicks = 6
  Layers = 3
  Think = 4
  Readings = {1, 2}
  Levels = {0, 1, 2, 3, 4}
  EpsRank = 2
  EkMax = 4
  ErrBuf = 8
  ShortWin = 2
  LongWin = 4
  Trigger = 3
  MaxAnomaly = 4
  Anomaly = 1
  Mistakes = {0, 2, 6}
  Steps = 9
  LogCap = 3
  ExpCap = 2
  SleepEvery = 3
  MaxDream = 2
  JournalTicks = 7
  Shapes <- MCShapes
  ScaleSets <- MCScales
  Files <- MCFiles
  GgufFiles <- MCGgufFiles
  MaxKv = 3
  MaxArray = 2
INVARIANTS
  TypeOK
  NoDuplicates
  WillLearnsRight
  FanLaw
  WillIsFresh
  CycleIsCoherent
  ForcedByInsistence
  KernelsReadRight
  WeightsAreFound
  GgufIsFound
PROPERTIES
  BornAndTried
  ImplementsRecent
  StartlesApart
  ImplementsEngine
  LearnsFromGood
  GoesBackToWhatItLived
CHECK_DEADLOCK FALSE

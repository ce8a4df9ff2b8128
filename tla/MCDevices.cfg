SPECIFICATION Spec
CONSTANTS
  Requests <- MCRequests
  RxRing = 4
  MaxPackets = 5
  TxRing = 3
  MaxFrames = 7
  MaxCalls = 5
  Lbas = {1, 2}
  Memories = {"m1", "m2"}
  MaxRequests = 3
  Entries = 4
  MaxVerbs = 6
  Hardware <- MCHardware
  Boards <- MCBoards
INVARIANTS
  TypeOK
  EachFrameOnce
  RingAgrees
  TelemetryHarmless
  TrueIsDone
  AnswersLag
  BestMicrophone
  TouchesItsOwn
PROPERTY CallsReturn
CHECK_DEADLOCK FALSE

SPECIFICATION RxFairSpec
CONSTANTS
  RxRing = 4
  MaxPackets = 6
  Requests = {}
PROPERTY KeepsReceiving

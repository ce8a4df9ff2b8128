SPECIFICATION FairSpec
CONSTANTS
  N = 3
  MaxPackets = 7
  Requests <- MCRequests
  Empties <- MCEmpties
INVARIANTS
  TypeOK
  NoReplay
  Accounted
PROPERTIES
  NeverSilent
  EveryFrameLeaves
  ImplementsMailbox

SPECIFICATION WillSpec
CONSTANTS
  Concepts = {0, 1}
  Pain = 0
  Candidates = {0, 1, 5}
  Ruled = {0, 1}
  Flee = 2
  MinSamples = 2
  Good = 6
  ExploreEvery = 3
  OutcomeEvery = 2
  Surprises = {0, 1, 2}
  WillTicks = 7
INVARIANT CreditsThePrevious
CHECK_DEADLOCK FALSE

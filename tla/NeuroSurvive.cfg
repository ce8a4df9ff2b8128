SPECIFICATION NeuroSpec
CONSTANTS
  Slots = 2
  Persistence = 2
  Trial = 4
  Threshold = 1
  Errors = {0, 1, 3}
  NeuroTicks = 11
PROPERTY SurvivorsStay
CHECK_DEADLOCK FALSE

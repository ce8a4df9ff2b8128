SPECIFICATION LineSpec
CONSTANTS
  LineCap = 4
  MaxDrain = 2
  FifoSize = 3
  Lengths = {4}
  MaxLines = 1
  Manners <- MCManners
PROPERTY EndCompletes
CHECK_DEADLOCK FALSE

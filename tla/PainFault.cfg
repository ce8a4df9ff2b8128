SPECIFICATION PainSpec
CONSTANTS
  Addrs = {7}
  MaxTicks = 3
  MaxCommands = 4
PROPERTY FaultPasses

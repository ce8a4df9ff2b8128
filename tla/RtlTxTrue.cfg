SPECIFICATION RtlSpec
CONSTANT MaxCalls = 3
PROPERTY TrueMeansSent
CHECK_DEADLOCK FALSE

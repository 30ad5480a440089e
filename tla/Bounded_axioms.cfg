SPECIFICATION Spec
CONSTANTS
  Universe <- MCUniverse
  Sources <- MCSources
  MaxDepth = 2
INVARIANT AxiomsInTrace
CHECK_DEADLOCK FALSE

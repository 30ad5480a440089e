SPECIFICATION Spec
CONSTANTS
  Universe <- MCUniverse
  Sources <- MCSources
  MaxDepth = 2
INVARIANT SafeUpToDepth
CHECK_DEADLOCK FALSE

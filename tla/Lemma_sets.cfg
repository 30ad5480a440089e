SPECIFICATION Spec
CONSTANTS
  Configs <- MCConfigs
  Models <- MCModels
INVARIANTS Sound Complete Irredundant MapsExact LemmasCover
CHECK_DEADLOCK FALSE

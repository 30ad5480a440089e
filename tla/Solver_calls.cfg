CONSTANTS
  NumSorts = 2
  MaxSize = 3
  MaxModels = 2
  CardLimit = 3
  Inds = {a}
  MaxFrames = 1
  Reuse = FALSE
  Answers = {"Unknown"}
SPECIFICATION Spec
PROPERTIES HonoursAssumptions SmallestMaximum
CHECK_DEADLOCK FALSE

CONSTANTS
  Transitions = {t1, t2}
  NumSolvers = 2
  Strategies = {"parallel", "fallback"}
  Answering = {"Unknown", "Error"}
  MaxBlocked = 1
  NumThreads = 2
SPECIFICATION MCSpec
INVARIANTS NoEscape ResultRight
PROPERTIES AnswerNotLost CancelReturns AnswerReturns
CHECK_DEADLOCK FALSE

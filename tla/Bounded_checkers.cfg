SPECIFICATION Spec
CONSTANTS
  Universe <- MCUniverse
  Sources <- MCSources
  MaxDepth = 2
INVARIANTS TranslationExact CounterexampleRight AnswerRight
PROPERTIES SortsInferred FrontEndExact
CHECK_DEADLOCK FALSE

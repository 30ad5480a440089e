CONSTANTS
  States <- MCStates
  Diagram <- MCDiagram
  Cubes <- MCCubes
  Inits <- MCInits
  Axioms <- MCAxioms
  Proofs <- MCProofs
  Steps <- MCSteps
  MaxTrans = 3
  MaxFrames = 4
  Unanswered = {2}
SPECIFICATION Spec
INVARIANTS FramesChain AbsentIsAbsent StepsToBad ResultInductive
CHECK_DEADLOCK FALSE

CONSTANTS
  States <- MCStates
  Diagram <- MCDiagram
  Cubes <- MCCubes
  Inits <- MCInits
  Axioms <- MCAxioms
  Proofs <- MCProofs
  Steps <- MCSteps
  MaxTrans = 3
  MaxFrames = 4
  Unanswered = {}
SPECIFICATION Spec
INVARIANT ResultInitial
CHECK_DEADLOCK FALSE

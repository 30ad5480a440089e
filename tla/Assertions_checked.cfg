CONSTANTS
  States <- MCStates
  Inits <- MCInits
  Axioms <- MCAxioms
  Steps <- MCSteps
  MaxSteps = 3
  Proofs <- MCProofs
  NumProofs = 2
  Modes = {"verify", "infer"}
  Answering = {"Unknown"}
SPECIFICATION Spec
INVARIANTS OkMeansSafe InferredInductive PrunesNoInvariant
CHECK_DEADLOCK FALSE

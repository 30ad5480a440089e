CONSTANTS
  States <- MCStates
  Safe <- MCSafe
  Lemmas <- MCLemmas
  Bottom = "false"
  Holds <- MCHolds
  Subsuming <- MCSubsuming
  A = A
  E = E
  Domains = {A, E}
  Members <- MCMembers
  AnyCore = FALSE
  Inits <- MCInits
  Steps <- MCSteps
  MaxTrans = 2
  MaxThreads = 2
  Options <- MCOptions
  Answering = {"Unknown"}
SPECIFICATION Spec
INVARIANTS BlockedJustified FixpointInductive FixpointLeast MinimizedProves
PROPERTY Terminates
CHECK_DEADLOCK FALSE

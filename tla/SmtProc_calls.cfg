SPECIFICATION FairSpec
CONSTANT
  CheckReplies = {"sat", "unsat", "unknown", "error"}
INVARIANTS TypeOK NoStraySignal PanicOnlyIfCancelled ReapIsRecorded
PROPERTIES Contract CancelUnblocks
CHECK_DEADLOCK FALSE

CONSTANTS
  Actions = {a1, a2}
  Sockets = {s1, s2, s3}
  NoSocket = none
  Kinds = {"slow", "reject", "crash", "restart", "half"}
SPECIFICATION FairSpec
INVARIANTS NoneWaitsOnClosed AnswerIsTheOutcome
PROPERTIES OutcomeFiled
\* With every action settled and its outcome filed there is nothing left to do.
CHECK_DEADLOCK FALSE

SPECIFICATION Spec
CONSTANTS
  t1 = t1
  t2 = t2
  Turns = {t1, t2}
  ConversationOf <- SameTalk
  ScopeOf <- OneScope
  AsksApproval = {t1}
  Faults = {"stream_loss", "poll_refused"}
  MaxPolls = 2
  MaxRestarts = 0
  MaxStream = 1
CHECK_DEADLOCK FALSE
INVARIANT OneActiveRun

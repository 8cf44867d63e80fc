SPECIFICATION Spec
CONSTANTS
  t1 = t1
  t2 = t2
  Turns = {t1, t2}
  ConversationOf <- SameTalk
  ScopeOf <- OneScope
  AsksApproval = {t1}
  Faults = {"stream_loss", "poll_refused", "poll_unreachable", "hermes_restart"}
  MaxPolls = 2
  MaxRestarts = 1
  MaxStream = 1
CHECK_DEADLOCK FALSE
INVARIANTS IInv NoUnlockedWork OutcomeAgrees
PROPERTIES OutcomeFinal NeverReposted ImplementsLedger

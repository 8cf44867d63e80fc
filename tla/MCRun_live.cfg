SPECIFICATION FairSpec
CONSTANTS
  t1 = t1
  t2 = t2
  Turns = {t1}
  ConversationOf <- SameTalk
  ScopeOf <- OneScope
  AsksApproval = {t1}
  Faults = {"garbled_reply", "stream_loss", "poll_refused", "poll_unreachable", "hermes_restart"}
  MaxPolls = 2
  MaxRestarts = 2
  MaxStream = 1
CHECK_DEADLOCK FALSE
PROPERTY SettlesOrIsStranded

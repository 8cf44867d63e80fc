SPECIFICATION FairSpec
CONSTANTS
  Turns = {1, 2}
  Sentences = 2
  MaxCancelled = 1
  MaxCancels = 1
  MaxRetries = 1
  MaxWire = 2
  None = None
CHECK_DEADLOCK FALSE
INVARIANTS TypeOK OneSpeaker NothingAfterCancelled ClipsAreWhole FilesAreRemoved
PROPERTIES StaysSilent PlaybackIsReleased

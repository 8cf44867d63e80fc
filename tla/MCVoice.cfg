SPECIFICATION FairSpec
CONSTANTS
  t1 = t1
  t2 = t2
  Turns = {t1, t2}
  Foreign = Foreign
  None = None
CHECK_DEADLOCK FALSE
INVARIANTS TypeOK OnlySoundRecordings
PROPERTIES RecordingIsBounded EverySubmissionIsAnswered ReadersAreReleased

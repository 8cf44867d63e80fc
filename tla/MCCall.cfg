SPECIFICATION Spec
CONSTANTS
  c1 = c1
  c2 = c2
  Calls = {c1, c2}
  NoCall = NoCall
SYMMETRY Alike
CHECK_DEADLOCK FALSE
INVARIANTS TypeOK MicrophoneObeys ModesAgree SessionsAreReleased
PROPERTIES LockHolds

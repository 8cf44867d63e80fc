SPECIFICATION Spec
CONSTANTS
  Notice = 3
  Skew = 1
  Expiries = {1, 2, 4, 5, 7, 10, 11}
  MaxTime = 16
  MaxInbox = 2
CHECK_DEADLOCK FALSE
INVARIANTS TypeOK ExpiryIsEnforced ClosedAfterWarning

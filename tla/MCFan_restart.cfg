SPECIFICATION Spec
CONSTANTS
  Clients = {desktop, phone}
  desktop = desktop
  phone = phone
  MaxEvents = 2
  QueueSize = 3
  MaxSequence = 4
  MaxRestarts = 1
  MaxReloads = 1
CHECK_DEADLOCK FALSE
INVARIANTS TypeOK QueueIsCurrent EndIsTrue OutcomeStands
PROPERTIES ShownOnceInOrder NoSilentGap
SYMMETRY Alike

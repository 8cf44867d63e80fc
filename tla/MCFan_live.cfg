SPECIFICATION FairSpec
CONSTANTS
  Clients = {"desktop"}
  MaxEvents = 5
  QueueSize = 6
  MaxSequence = 4
  MaxRestarts = 1
  MaxReloads = 1
CHECK_DEADLOCK FALSE
PROPERTY SubscriberHearsTheEnd

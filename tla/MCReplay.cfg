SPECIFICATION FairSpec
CONSTANTS
  MaxEvents = 3
  MaxDrops = 2
  MaxWire = 2
CHECK_DEADLOCK FALSE
INVARIANTS TypeOK
PROPERTIES ImplementsFeed EventsArrive RowSettles

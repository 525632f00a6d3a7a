SPECIFICATION FairSpec
CONSTANTS
  Delays = {0, 1}
  UidMod = 64
  MaxEvents = 3
INVARIANTS TypeOK NothingInThePast UnscheduledIsCount ExpiredIsNotPending EmptyFlagIsTrue InOrder
PROPERTIES ImplementsContract PostedIsMoved

SPECIFICATION FairSpec
CONSTANTS
  BlockSizes = {1, 2}
  MaxSample = 6
  Capacity = 2
  None = None
INVARIANTS TypeOK InOrder LossIsAccounted
PROPERTIES ImplementsChannel ConsumerReleased
CHECK_DEADLOCK FALSE

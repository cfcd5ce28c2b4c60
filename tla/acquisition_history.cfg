SPECIFICATION Spec
CONSTANTS
  Pre = 3
  Post = 2
  MaxCapture = 6
  Park = 0
  FocusCenters = {}
  Observable = {0}
  BlockSizes = {2}
  MaxSample = 8
  MaxSource = 2
INVARIANT HistoryIsContiguous
CHECK_DEADLOCK FALSE

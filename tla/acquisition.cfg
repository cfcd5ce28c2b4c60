SPECIFICATION Spec
CONSTANTS
  Pre = 3
  Post = 2
  MaxCapture = 6
  Park = 0
  FocusCenters = {1, 2}
  Observable = {0, 1}
  BlockSizes = {2}
  MaxSample = 8
  MaxSource = 2
INVARIANTS PendingInStep CaptureWindow LossNeverJoined ParkedIsContiguous OnlyObservable
CHECK_DEADLOCK FALSE

SPECIFICATION FairSpec
CONSTANTS
  FrameType = {"spectrum"}
  ReliableType = {"status", "config"}
  MaxBuffer = 2
  Command = {1, 2}
  MaxBackoff = 1
  MaxChanges = 2
INVARIANTS FeedTypeOK OneWayBack BufferInOrder
PROPERTY ScanIsShown

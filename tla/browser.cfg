SPECIFICATION FairBrowser
CONSTANTS
  HistoryCapacity = 4
  MinVisible = 2
  Rows = 3
  OutputWidth = 3
  FrameSeq = {1, 2}
  NoFrame = NoFrame
  MaxPushed = 6
  SField = {"ppm", "dwell"}
  SValue = {1, 2}
  BadText = BadText
  NoForm = NoForm
  PpmField = "ppm"
  Suggested = {2}
  PresetField = {"dwell"}
  ReceiverField = {"ppm"}
  MaxSaves = 3
  Sample = {0, 3, 5, 10, 15, 20, 48, 160, 600, 601, 998, 2560, 5120, 81930, 2250010}
  MaxTyped = 1
  AChannel = {1, 2}
  Entry = {2}
  Blank = Blank
  MaxRules = 1
  MaxToasts = 1
  Debounce = 1
  Key = {k1, k2}
  NoData = NoData
  Request = {1, 2}
  CId = {1, 2}
  Measure = {1}
  Unknown = Unknown
  Gone = Gone
  MaxMade = 2
  Room = 1
  Mark = {1}
  Unset = Unset
  MaxFrame = 3
  Height = 3
INVARIANTS BrowserTypeOK ViewRetained CanvasCurrent SentIsValid ShownIsAsked NothingOrphaned RowsInOrder
PROPERTIES EditsSurvive AlertsOnce FrozenStays PollCorrects

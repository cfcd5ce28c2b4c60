SPECIFICATION FairSpec
CONSTANTS
  Req = {r1, r2}
  NoOne = NoOne
  Kinds = {"start", "stop"}
  Plans = {TRUE}
  MaxSession = 2
  MaxBackend = 2
INVARIANT StatusConverges
PROPERTY RequestsComplete

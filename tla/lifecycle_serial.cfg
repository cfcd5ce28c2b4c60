SPECIFICATION Spec
CONSTANTS
  Req = {r1}
  NoOne = NoOne
  Kinds = {"start", "stop", "focus", "unfocus", "clear", "calibrate", "decode", "update_soft", "update_tune", "update_reopen"}
  Plans = {TRUE, FALSE}
  MaxSession = 2
  MaxBackend = 2
INVARIANTS TypeOK LoopIsOwned DeviceExclusive StatusConverges
PROPERTY DetectionInOpenSession

SPECIFICATION Spec
CONSTANTS
  Put = {r1, r2}
  Field = {soft, tune, device}
  TuneField = {tune, device}
  DeviceField = {device}
  Value = {0, 1}
  Default = 0
  Simulator = 0
  MaxVersion = 3
INVARIANT NoLostUpdate
CHECK_DEADLOCK FALSE

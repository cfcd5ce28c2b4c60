SPECIFICATION Spec
CONSTANTS
  Freq = {0, 2, 5}
  Width = {2}
  Proximity = 1
  MaxId = 2
  MaxEpoch = 3
INVARIANTS LabelsExist 

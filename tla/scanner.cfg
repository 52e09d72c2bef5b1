SPECIFICATION Spec
CONSTANTS
  MaxRuns = 4
  Codes = {ck, url}
  Payees = {ck}
  Nothing = Nothing
INVARIANTS
  CameraIsHeld
  LoopHasCamera
  OneScanPerOpening
CHECK_DEADLOCK FALSE

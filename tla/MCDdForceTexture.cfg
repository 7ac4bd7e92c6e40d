CONSTANTS
  c1 = c1
  c2 = c2
  e1 = e1
  Effects = {e1}
  Shapes <- TextureShapes
  Callers = {c1}
  Calls = {"effects", "route"}
  MaxReplays = 1
  MaxWork = 2
  Reserve = 1
  GraceTicks = 1
  StopAttempts = 2
  InitAttempts = 2
  kf_idle_gate = TRUE
  AllocFails = TRUE
  MaxForeign = 1
  Budget = 4
SPECIFICATION FairSpec
INVARIANTS CarrierContract SamplesAfterArm
PROPERTIES FallsIdle
CHECK_DEADLOCK FALSE

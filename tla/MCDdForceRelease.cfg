CONSTANTS
  c1 = c1
  c2 = c2
  e1 = e1
  Effects = {e1}
  Shapes <- ForceShapes
  Callers = {c1}
  Calls = {"effects"}
  MaxReplays = 1
  MaxWork = 2
  Reserve = 1
  GraceTicks = 1
  StopAttempts = 2
  InitAttempts = 2
  kf_idle_gate = TRUE
  AllocFails = FALSE
  MaxForeign = 0
  Budget = 3
SPECIFICATION Spec
INVARIANTS ReleaseArrives
CHECK_DEADLOCK FALSE

CONSTANTS
  c1 = c1
  c2 = c2
  e1 = e1
  Effects = {e1}
  Shapes <- ForceShapes
  Callers = {c1, c2}
  Calls = {"effects", "autocenter"}
  MaxReplays = 2
  MaxWork = 3
  Reserve = 2
  GraceTicks = 1
  StopAttempts = 2
  InitAttempts = 2
  kf_idle_gate = TRUE
  AllocFails = FALSE
  MaxForeign = 0
  Budget = 4
SPECIFICATION Spec
INVARIANTS NoLostWakeup OneArm ReleasedAtRest GatedAtZero
CHECK_DEADLOCK FALSE

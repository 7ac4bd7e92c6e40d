CONSTANTS
  c1 = c1
  c2 = c2
  Callers = {c1, c2}
  Allowed <- OwnerAndController
  Budget <- ThreeAndTwo
  Samples = {0, 2}
  MaxPending = 2
  MaxBatch = 1
  MaxWant = 2
  Window = 3
  New = 1
  MaxExpiries = 2
  HoldTicks = 1
  DecayStep = 1
  DecayTicks = 2
  GraceTicks = 2
  FullScale = 2
  MaxFaults = 0
  MaxUnplugs = 0
  AllowLate = TRUE
SPECIFICATION Spec
INVARIANTS TickSound PausedEngineDown
CHECK_DEADLOCK FALSE

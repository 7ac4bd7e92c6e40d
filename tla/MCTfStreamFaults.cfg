CONSTANTS
  c1 = c1
  c2 = c2
  Callers = {c1, c2}
  Allowed <- OwnerAndController
  Budget <- TwoAndOne
  Samples = {0, 2}
  MaxPending = 1
  MaxBatch = 1
  MaxWant = 2
  Window = 3
  New = 1
  MaxExpiries = 1
  HoldTicks = 1
  DecayStep = 1
  DecayTicks = 2
  GraceTicks = 2
  FullScale = 2
  MaxFaults = 1
  MaxUnplugs = 1
  AllowLate = TRUE
SPECIFICATION FairSpec
INVARIANTS CloseLeavesWheelQuiet  DeadStreamReported
PROPERTIES CallsReturn FallsSilent
CHECK_DEADLOCK FALSE

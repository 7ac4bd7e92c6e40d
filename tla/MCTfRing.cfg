CONSTANTS
  Samples = {0, 1}
  Ring = 5
  IndexMod = 10
  MaxPending = 2
  MaxBatch = 3
  MaxWant = 2
  MaxOffered = 3
SPECIFICATION Spec
INVARIANTS BacklogBounded Accounting
PROPERTY RingIsFreshQueue

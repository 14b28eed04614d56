\* A storage and a broker that never fail, and one signal in the middle of a batch.
CONSTANTS
  Runners = {r1, r2}
  Partitions = {p1}
  MaxOffset = 2
  BatchMax = 2
  OutCap = 1
  MaxHeld = 3
  Faults = {"signal"}
  MaxStops = 1
  Err = Err
  None = None
SYMMETRY Symmetry
SPECIFICATION Spec
INVARIANT NothingLost

\* A message that does not unmarshal behind an event that is still in the batch.
CONSTANTS
  Runners = {r1, r2}
  Partitions = {p1}
  MaxOffset = 2
  BatchMax = 2
  OutCap = 1
  MaxHeld = 3
  Faults = {"poison"}
  MaxStops = 1
  Err = Err
  None = None
SYMMETRY Symmetry
SPECIFICATION Spec
INVARIANT NothingLost

\* One replica, a storage and a broker that never fail: only the cancelled ctx.
CONSTANTS
  Runners = {r1}
  Partitions = {p1}
  MaxOffset = 2
  BatchMax = 2
  OutCap = 1
  MaxHeld = 3
  Faults = {"signal"}
  MaxStops = 1
  Err = Err
  None = None
SYMMETRY Symmetry
SPECIFICATION Spec
INVARIANT FinalFlushWrites

\* Every fault at once, two stops: crashes, signals and rebalances around poison
\* commits and writes cut in two.  A failed flush lets a batch outgrow BatchMax.
CONSTANTS
  Runners = {r1, r2}
  Partitions = {p1}
  MaxOffset = 2
  BatchMax = 1
  OutCap = 1
  MaxHeld = 2
  Faults = {"poison", "point", "outage", "signal"}
  MaxStops = 2
  Err = Err
  None = None
SYMMETRY Symmetry
SPECIFICATION Spec
INVARIANTS OnlyKnownLosses BatchBounded
PROPERTY KeepsUntilWritten

\* Two partitions, two replicas, outages and one stop: a rebalance hands a
\* partition over while the former owner still holds a batch.
CONSTANTS
  Runners = {r1, r2}
  Partitions = {p1, p2}
  MaxOffset = 2
  BatchMax = 2
  OutCap = 1
  MaxHeld = 2
  Faults = {"outage"}
  MaxStops = 1
  Err = Err
  None = None
SYMMETRY Symmetry
SPECIFICATION Spec
INVARIANT CommitOnlyStored
PROPERTY OffsetsAdvance

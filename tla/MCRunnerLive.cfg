\* Liveness of one replica that is stopped and replaced twice.  Three messages and
\* batches of two leave an incomplete batch for the ticker.
CONSTANTS
  Runners = {r1}
  Partitions = {p1}
  MaxOffset = 3
  BatchMax = 2
  OutCap = 1
  MaxHeld = 3
  Faults = {"outage", "signal"}
  MaxStops = 2
  Err = Err
  None = None
SPECIFICATION FairSpec
PROPERTIES TopicDrains SignalledReplicaLeaves ImplementsDelivery

\* Three requests on a one-place channel: one buffered, one that evicts it, one
\* that takes the freed place; two workers race the eviction.
CONSTANTS
  Requests = {r1, r2, r3}
  Workers = {w1, w2}
  ChannelCapacity = 1
  DropPolicies = {"drop_newest", "drop_oldest"}
  NoJob = NoJob
SYMMETRY Symmetry
SPECIFICATION Spec
INVARIANTS TypeOK Conservation LedgerExact NoSilentLoss CleanDrainNeverPanics
           PublisherOutlivesWorkers DropNewestKeepsAccepted
PROPERTIES RetryFailsOnlyIfOvertaken WaitProgresses

\* Temporal properties, without symmetry: two requests and two workers.
CONSTANTS
  Requests = {r1, r2}
  Workers = {w1, w2}
  ChannelCapacity = 1
  DropPolicies = {"drop_newest", "drop_oldest"}
  NoJob = NoJob
SPECIFICATION FairSpec
PROPERTIES ImplementsContract ShutdownTerminates EveryRequestAnswered

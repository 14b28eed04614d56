\* One request is enough: it outlives srv.Shutdown's timeout.
CONSTANTS
  Requests = {r1, r2}
  Workers = {w1}
  ChannelCapacity = 1
  DropPolicies = {"drop_newest"}
  NoJob = NoJob
SYMMETRY Symmetry
SPECIFICATION Spec
INVARIANT RequestsNeverPanic

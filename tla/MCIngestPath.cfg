\* Two requests of one batch, sent one after the other, and a third that overlaps
\* them: at most two buffers are out at once.
CONSTANTS
  r1 = r1
  r2 = r2
  r3 = r3
  Requests <- MCRequests
  Batch <- MCBatch
  Buffers = {b1, b2}
  Workers = {w1}
  ChannelCapacity = 2
  DropPolicies = {"drop_newest", "drop_oldest"}
  NoJob = NoJob
  Nil = Nil
SYMMETRY Symmetry
SPECIFICATION PathSpec
INVARIANTS PayloadIntact PoolSound BatchInOrder

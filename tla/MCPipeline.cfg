\* Two events meet in one batch, in two of one partition, or in two partitions;
\* one retry repeats a batch.  No symmetry: the run checks liveness.
CONSTANTS
  Events = {e1, e2}
  Partitions = {p1, p2}
  BatchSize = 2
  MaxAttempts = 2
  Asyncs = {TRUE, FALSE}
SPECIFICATION FairSpec
INVARIANTS TypeOK PublishedIsAppended LossAccounted AppendedInOrder
           PublishedIsNotSkipped StopAccountsForAll
PROPERTIES AcceptedReachesStorage CloseEnds CloseProgresses

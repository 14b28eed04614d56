--------------------------- MODULE PipelineProofs ---------------------------
(***************************************************************************)
(* The event path end to end, for any finite set of events: every step of  *)
(* it is one of the Writer's or leaves the Writer alone, so what holds of  *)
(* the Writer holds here, what was counted as published cannot be passed   *)
(* over by the consumer group, and a graceful stop accounts for all.       *)
(***************************************************************************)
EXTENDS Pipeline, KafkaWriterProofs, FiniteSetTheorems

LEMMA WriterStep == ASSUME [Next]_vars PROVE [WriterNext]_wvars
  <1>1. CASE \E e \in Events : Accept(e) \/ Refuse(e) \/ DropHeld(e)
    BY <1>1 DEF Accept, Refuse, DropHeld, WriterIdle
  <1>2. CASE \E e \in Events : CallPublish(e)
    BY <1>2 DEF CallPublish, WriterNext
  <1>3. CASE \E e \in Events : PublishReturns(e)
    BY <1>3 DEF PublishReturns, WriterNext
  <1>4. CASE \E p \in Partitions : WriterRuns(p)
    BY <1>4 DEF WriterRuns, WriterNext
  <1>5. CASE ClosePublisher \/ Stop \/ Kill
    BY <1>5 DEF ClosePublisher, Stop, Kill, WriterNext
  <1>6. CASE \E m \in Delivery!Messages : SettleMessage(m)
    BY <1>6 DEF SettleMessage, WriterIdle
  <1>7. CASE \E mark \in [Partitions -> 0 .. MaxOffset] : CommitOffsets(mark)
    BY <1>7 DEF CommitOffsets, WriterIdle
  <1>8. CASE CollectorGone \/ UNCHANGED vars
    BY <1>8 DEF CollectorGone, vars
  <1> QED BY <1>1, <1>2, <1>3, <1>4, <1>5, <1>6, <1>7, <1>8 DEF Next, EventStep

(* The composition drives the Writer as the Writer expects: its behaviours     *)
(* are the Writer's (service.go:182-192, main.go:97-102).                      *)
THEOREM PipelineUsesWriter == Spec => WriterSpec
  <1>1. Init => WriterInit
    BY DEF Init
  <1>2. [Next]_vars => [WriterNext]_wvars
    BY WriterStep
  <1> QED BY <1>1, <1>2, PTL DEF Spec, WriterSpec

(* What is proved of the Writer holds on the whole path, with the collector's  *)
(* contract as the caller (publisher.go:36-45, 59, 62-65).                     *)
THEOREM PathKeepsWriterPromises ==
  Spec => /\ [](TypeOK /\ PublishedIsAppended /\ LossAccounted /\ AppendedInOrder)
          /\ CloseProgresses
  BY PipelineUsesWriter, WriterTypeCorrect, PublishedMeansAppended,
     CloseLeavesNothing, FirstCopiesInOrder, CloseOnlyShrinks, PTL

-----------------------------------------------------------------------------
(* The collector's count against the consumer group's offsets.               *)

CountedReturned == \A e \in Events : fate[e] = "published" => call[e] = "ok"

OffsetsBehind == /\ committed \in [Partitions -> 0 .. MaxOffset]
                 /\ Delivery!Behind(committed) \subseteq settled

FatesKnown == fate \in [Events -> Ingest!Fates]

PathInd == WInd /\ FatesKnown /\ CountedReturned /\ OffsetsBehind

LEMMA OffsetsAreNat == MaxOffset \in Nat
  BY WriterAssumption, PipelineAssumption, FS_CardinalityType DEF MaxOffset

LEMMA PathIndInit == ASSUME Init PROVE PathInd
  <1>1. WInd
    BY WIndInit DEF Init
  <1>2. fate = [e \in Events |-> "absent"] /\ settled = {}
        /\ committed = [p \in Partitions |-> 0]
    BY DEF Init, Ingest!Init, Delivery!Init
  <1>3. FatesKnown /\ CountedReturned
    BY <1>2 DEF FatesKnown, CountedReturned, Ingest!Fates
  <1>4. committed \in [Partitions -> 0 .. MaxOffset]
    BY <1>2, OffsetsAreNat
  <1>5. Delivery!Behind(committed) = {}
    BY <1>2, OffsetsAreNat DEF Delivery!Behind, Delivery!Messages
  <1> QED BY <1>1, <1>3, <1>4, <1>5 DEF PathInd, OffsetsBehind

\* A step of one event's fate keeps CountedReturned when it publishes only what
\* Publish has returned for.
LEMMA FateStep ==
  ASSUME FatesKnown, CountedReturned, NEW e \in Events, NEW to \in Ingest!Fates,
         fate' = [fate EXCEPT ![e] = to],
         to = "published" => call'[e] = "ok",
         \A f \in Events : call[f] = "ok" => call'[f] = "ok"
  PROVE  FatesKnown' /\ CountedReturned'
  BY DEF FatesKnown, CountedReturned

\* Publish is called once, and its answer is final.
LEMMA AnswersFinal ==
  ASSUME Shape, [WriterNext]_wvars, NEW f \in Events, call[f] = "ok"
  PROVE  call'[f] = "ok"
  <1>1. ASSUME NEW e \in Events, Publish(e) \/ PublishRefused(e) PROVE call'[f] = "ok"
    BY <1>1 DEF Publish, PublishRefused, Shape
  <1>2. ASSUME NEW e \in Events, Return(e) \/ Deadline(e) PROVE call'[f] = "ok"
    BY <1>2 DEF Return, Deadline, Waiting, Shape
  <1>3. ASSUME NEW p \in Partitions, Goroutine(p) PROVE call'[f] = "ok"
    BY <1>3 DEF Goroutine, BatchTimer, Acknowledged, AttemptFails, Attempt, callVars
  <1>4. CASE Close \/ CloseReturns \/ WriterKilled \/ UNCHANGED wvars
    BY <1>4 DEF Close, CloseReturns, WriterKilled, wvars, callVars
  <1> QED BY <1>1, <1>2, <1>3, <1>4 DEF WriterNext

LEMMA FatesStep == ASSUME PathInd, [Next]_vars PROVE FatesKnown' /\ CountedReturned'
  <1> USE DEF Ingest!Fates
  <1>1. \A f \in Events : call[f] = "ok" => call'[f] = "ok"
    BY WriterStep, AnswersFinal DEF PathInd, WInd
  <1>2. ASSUME NEW e \in Events, Accept(e) \/ Refuse(e) \/ DropHeld(e)
        PROVE  FatesKnown' /\ CountedReturned'
    <2>1. \E to \in {"held", "refused", "dropped"} : fate' = [fate EXCEPT ![e] = to]
      BY <1>2 DEF Accept, Refuse, DropHeld, Ingest!Admit, Ingest!Refuse, Ingest!Drop,
                  Ingest!Become
    <2> QED BY <1>1, <2>1, FateStep DEF PathInd
  <1>3. ASSUME NEW e \in Events, CallPublish(e) \/ PublishReturns(e)
        PROVE  FatesKnown' /\ CountedReturned'
    <2>1. \/ UNCHANGED fate
          \/ \E to \in {"published", "dropped"} :
               /\ fate' = [fate EXCEPT ![e] = to]
               /\ to = "published" => call'[e] = "ok"
      BY <1>3 DEF CallPublish, PublishReturns, CollectorIdle, Counted, Ingest!Publish,
                  Ingest!Drop, Ingest!Become
    <2>2. CASE UNCHANGED fate
      BY <1>1, <2>2 DEF PathInd, FatesKnown, CountedReturned
    <2> QED BY <1>1, <2>1, <2>2, FateStep DEF PathInd
  <1>4. CASE Kill
    BY <1>1, <1>4 DEF Kill, Ingest!Kill, PathInd, FatesKnown, CountedReturned
  <1>5. CASE UNCHANGED fate
    BY <1>1, <1>5 DEF PathInd, FatesKnown, CountedReturned
  <1>6. ASSUME NEW p \in Partitions, WriterRuns(p) PROVE UNCHANGED fate
    BY <1>6 DEF WriterRuns, CollectorIdle
  <1>7. CASE ClosePublisher \/ Stop \/ CollectorGone \/ UNCHANGED vars
    BY <1>5, <1>7 DEF ClosePublisher, Stop, CollectorGone, Ingest!CloseIntake, Ingest!Stop, vars
  <1>8. ASSUME NEW m \in Delivery!Messages, SettleMessage(m) PROVE UNCHANGED fate
    BY <1>8 DEF SettleMessage, CollectorIdle
  <1>9. ASSUME NEW mark \in [Partitions -> 0 .. MaxOffset], CommitOffsets(mark)
        PROVE  UNCHANGED fate
    BY <1>9 DEF CommitOffsets, CollectorIdle
  <1> QED BY <1>2, <1>3, <1>4, <1>5, <1>6, <1>7, <1>8, <1>9 DEF Next, EventStep

LEMMA OffsetsStep == ASSUME PathInd, [Next]_vars PROVE OffsetsBehind'
  <1> USE DEF PathInd, OffsetsBehind
  <1>1. CASE settled \subseteq settled' /\ UNCHANGED committed
    BY <1>1 DEF Delivery!Behind
  <1>2. ASSUME NEW mark \in [Partitions -> 0 .. MaxOffset], CommitOffsets(mark)
        PROVE  OffsetsBehind'
    BY <1>2 DEF CommitOffsets, CommitTo, Delivery!Commit, Delivery!Behind
  <1>3. ASSUME NEW m \in Delivery!Messages, SettleMessage(m) PROVE OffsetsBehind'
    BY <1>1, <1>3 DEF SettleMessage, Delivery!Settle
  <1>4. ASSUME NEW e \in Events, Accept(e) \/ Refuse(e) \/ EventStep(e)
        PROVE  OffsetsBehind'
    BY <1>1, <1>4 DEF Accept, Refuse, EventStep, DropHeld, CallPublish, PublishReturns,
                      ProcessorIdle
  <1>5. ASSUME NEW p \in Partitions, WriterRuns(p) PROVE OffsetsBehind'
    BY <1>1, <1>5 DEF WriterRuns, ProcessorIdle
  <1>6. CASE ClosePublisher \/ Stop \/ Kill \/ CollectorGone \/ UNCHANGED vars
    BY <1>1, <1>6 DEF ClosePublisher, Stop, Kill, CollectorGone, ProcessorIdle, vars
  <1> QED BY <1>2, <1>3, <1>4, <1>5, <1>6 DEF Next

LEMMA PathIndStep == ASSUME PathInd, [Next]_vars PROVE PathInd'
  <1>1. WInd'
    BY WriterStep, WIndStep DEF PathInd
  <1> QED BY <1>1, FatesStep, OffsetsStep DEF PathInd

\* The offset of a copy is behind the committed one, and settled, or past it.
LEMMA CopySettledOrAhead ==
  ASSUME PathInd, NEW m \in Written
  PROVE  m \in settled \/ m[2] > committed[m[1]]
  <1>1. PICK p \in Partitions : \E i \in DOMAIN topic[p] : m = <<p, i>>
    BY DEF Written
  <1>2. PICK i \in DOMAIN topic[p] : m = <<p, i>>
    BY <1>1
  <1>3. i \in Nat \ {0}
    <2>1. topic[p] \in Seq(Events)
      BY DEF PathInd, WInd, Shape
    <2> QED BY <1>2, <2>1
  <1>4. committed[p] \in 0 .. MaxOffset
    BY DEF PathInd, OffsetsBehind
  <1>5. i <= committed[p] => i \in 1 .. MaxOffset
    BY <1>3, <1>4, OffsetsAreNat
  <1>6. i <= committed[p] => m \in Delivery!Behind(committed)
    BY <1>2, <1>5 DEF Delivery!Behind, Delivery!Messages
  <1> QED BY <1>2, <1>3, <1>4, <1>6, OffsetsAreNat DEF PathInd, OffsetsBehind

LEMMA AppendedHasCopy == ASSUME NEW e \in Events, e \in Appended PROVE CopiesOf(e) # {}
  <1>1. PICK p \in Partitions : \E i \in DOMAIN topic[p] : topic[p][i] = e
    BY DEF Appended, ToSet
  <1>2. PICK i \in DOMAIN topic[p] : topic[p][i] = e
    BY <1>1
  <1>3. <<p, i>> \in Written
    BY DEF Written
  <1> QED BY <1>2, <1>3 DEF CopiesOf

LEMMA CopyIsEnough == ASSUME PathInd, NEW e \in Events, CopiesOf(e) # {} PROVE SettledOrAhead(e)
  <1>1. PICK m \in CopiesOf(e) : TRUE
    OBVIOUS
  <1>2. m \in Written
    BY DEF CopiesOf
  <1> QED BY <1>2, CopySettledOrAhead DEF SettledOrAhead

LEMMA PathIndImplies == ASSUME PathInd PROVE PublishedIsNotSkipped
  <1> SUFFICES ASSUME NEW e \in Events, fate[e] = "published", ~(async /\ CopiesOf(e) = {})
               PROVE  SettledOrAhead(e)
    BY DEF PublishedIsNotSkipped, SettledOrAhead
  <1>1. CASE CopiesOf(e) # {}
    BY <1>1, CopyIsEnough
  <1>2. CASE ~async
    <2>1. e \in Appended
      BY <1>2 DEF PathInd, CountedReturned, WInd, PublishedIsAppended
    <2> QED BY <2>1, AppendedHasCopy, CopyIsEnough
  <1>3. async \in BOOLEAN
    BY DEF PathInd, WInd, Shape
  <1> QED BY <1>1, <1>2, <1>3

(* End to end: what was counted as published is settled or still ahead of the  *)
(* consumer group, whatever is retried, repeated, killed or committed late;    *)
(* with KAFKA_ASYNC it may not be in the topic (service.go:186-191,            *)
(* publisher.go:43-44, runner.go:59-66).                                       *)
THEOREM PublishedNeverSkipped == Spec => []PublishedIsNotSkipped
  <1>1. Init => PathInd
    BY PathIndInit
  <1>2. PathInd /\ [Next]_vars => PathInd'
    BY PathIndStep
  <1>3. PathInd => PublishedIsNotSkipped
    BY PathIndImplies
  <1> QED BY <1>1, <1>2, <1>3, PTL DEF Spec

-----------------------------------------------------------------------------
(* The two ends of the process: the Writer's and the collector's.            *)

\* A call that has been answered with nil, or is waiting, has handed its event over.
OkHasResult == \A e \in Events : call[e] \in {"waiting", "ok"} => result[e] # "none"

EndsTied == /\ life = "stopped" => wstate = "closed"
            /\ life \in {"closing", "stopped"} => \A e \in Events : fate[e] # "held"
            /\ \A e \in Events : fate[e] = "lost" => life = "killed"

StopInd == PathInd /\ OkHasResult /\ EndsTied

LEMMA StopIndInit == ASSUME Init PROVE StopInd
  <1>1. /\ \A e \in Events : call[e] = "new" /\ fate[e] = "absent"
        /\ life = "up"
    BY DEF Init, WriterInit, Ingest!Init
  <1> QED BY <1>1, PathIndInit DEF StopInd, OkHasResult, EndsTied

\* The Writer never forgets an event, and answers nil for none it was not given.
LEMMA ResultStep == ASSUME Shape, OkHasResult, [WriterNext]_wvars PROVE OkHasResult'
  <1> USE DEF OkHasResult
  <1>1. ASSUME NEW e \in Events, Publish(e) PROVE OkHasResult'
    <2>1. \A f \in Events : f # e => call'[f] = call[f] /\ result'[f] = result[f]
      BY <1>1 DEF Publish, Fill, Shape
    <2>2. result'[e] = "pending"
      BY <1>1 DEF Publish, Fill, Shape
    <2> QED BY <2>1, <2>2
  <1>2. ASSUME NEW e \in Events, PublishRefused(e) \/ Deadline(e) PROVE OkHasResult'
    BY <1>2 DEF PublishRefused, Deadline, Shape
  <1>3. ASSUME NEW e \in Events, Return(e) PROVE OkHasResult'
    BY <1>3 DEF Return, Waiting, Shape
  <1>4. ASSUME NEW p \in Partitions, Goroutine(p) PROVE OkHasResult'
    <2>1. CASE UNCHANGED <<call, result>>
      BY <2>1
    <2>2. ASSUME NEW outcome \in {"acked", "failed"}, Finish(p, outcome), UNCHANGED call
          PROVE  OkHasResult'
      BY <2>2 DEF Finish
    <2>3. CASE BatchTimer(p)
      BY <2>1, <2>3 DEF BatchTimer, callVars
    <2>4. CASE Acknowledged(p)
      BY <2>2, <2>4 DEF Acknowledged, Attempt
    <2>5. CASE AttemptFails(p)
      BY <2>1, <2>2, <2>5 DEF AttemptFails, Attempt
    <2> QED BY <1>4, <2>3, <2>4, <2>5 DEF Goroutine
  <1>5. CASE Close \/ CloseReturns \/ WriterKilled \/ UNCHANGED wvars
    BY <1>5 DEF Close, CloseReturns, WriterKilled, wvars, callVars
  <1> QED BY <1>1, <1>2, <1>3, <1>4, <1>5 DEF WriterNext

\* A closed Writer stays closed.
LEMMA ClosedIsFinal ==
  ASSUME wstate = "closed", [WriterNext]_wvars PROVE wstate' = "closed"
  <1>1. ASSUME NEW e \in Events, Publish(e) \/ PublishRefused(e) \/ Return(e) \/ Deadline(e)
        PROVE  FALSE
    BY <1>1 DEF Publish, PublishRefused, Return, Deadline, Running
  <1>2. ASSUME NEW p \in Partitions, Goroutine(p) PROVE FALSE
    BY <1>2 DEF Goroutine, BatchTimer, Acknowledged, AttemptFails, Attempt, Running
  <1>3. CASE Close \/ CloseReturns \/ WriterKilled
    BY <1>3 DEF Close, CloseReturns, WriterKilled
  <1>4. CASE UNCHANGED wvars
    BY <1>4 DEF wvars
  <1> QED BY <1>1, <1>2, <1>3, <1>4 DEF WriterNext

\* One event's fate changes while the process lives: never to "lost", and to
\* "held" only while the intake is open.
LEMMA FateTied ==
  ASSUME FatesKnown, EndsTied, NEW e \in Events, Ingest!Alive, UNCHANGED life,
         NEW to \in Ingest!Fates \ {"lost"}, fate' = [fate EXCEPT ![e] = to],
         to = "held" => life = "up"
  PROVE  EndsTied'
  BY DEF FatesKnown, EndsTied, Ingest!Alive

LEMMA EndsStep == ASSUME StopInd, [Next]_vars PROVE EndsTied'
  <1>1. FatesKnown /\ EndsTied
    BY DEF StopInd, PathInd
  <1>2. CASE UNCHANGED <<fate, life>>
    <2>1. life = "stopped" => wstate' = "closed"
      BY <1>1, WriterStep, ClosedIsFinal DEF EndsTied
    <2> QED BY <1>1, <1>2, <2>1 DEF EndsTied
  <1>3. ASSUME NEW e \in Events,
               Ingest!Admit(e) \/ Ingest!Refuse(e) \/ Ingest!Publish(e) \/ Ingest!Drop(e)
        PROVE  EndsTied'
    <2>1. /\ Ingest!Alive /\ UNCHANGED life
          /\ \E to \in {"held", "refused", "published", "dropped"} :
               fate' = [fate EXCEPT ![e] = to] /\ (to = "held" => life = "up")
      BY <1>3 DEF Ingest!Admit, Ingest!Refuse, Ingest!Publish, Ingest!Drop, Ingest!Become
    <2> QED BY <1>1, <2>1, FateTied DEF Ingest!Fates
  <1>4. CASE ClosePublisher
    BY <1>1, <1>4 DEF ClosePublisher, Ingest!CloseIntake, EndsTied
  <1>5. CASE Stop
    BY <1>1, <1>5 DEF Stop, CloseReturns, Ingest!Stop, EndsTied
  <1>6. CASE Kill
    BY <1>6 DEF Kill, Ingest!Kill, EndsTied
  <1>7. ASSUME NEW e \in Events, Accept(e) \/ Refuse(e) \/ EventStep(e) PROVE EndsTied'
    <2>1. \/ Ingest!Admit(e) \/ Ingest!Refuse(e) \/ Ingest!Publish(e) \/ Ingest!Drop(e)
          \/ UNCHANGED <<fate, life>>
      BY <1>7 DEF Accept, Refuse, EventStep, DropHeld, CallPublish, PublishReturns, Counted,
                  CollectorIdle
    <2> QED BY <1>2, <1>3, <2>1
  <1>8. CASE \/ \E p \in Partitions : WriterRuns(p)
             \/ CollectorGone \/ UNCHANGED vars
             \/ \E m \in Delivery!Messages : SettleMessage(m)
             \/ \E mark \in [Partitions -> 0 .. MaxOffset] : CommitOffsets(mark)
    BY <1>2, <1>8 DEF WriterRuns, CollectorGone, SettleMessage, CommitOffsets,
                      CollectorIdle, vars
  <1> QED BY <1>4, <1>5, <1>6, <1>7, <1>8 DEF Next

LEMMA StopIndStep == ASSUME StopInd, [Next]_vars PROVE StopInd'
  <1>1. PathInd /\ OkHasResult
    BY DEF StopInd
  <1>2. PathInd'
    BY <1>1, PathIndStep
  <1>3. OkHasResult'
    BY <1>1, WriterStep, ResultStep DEF PathInd, WInd
  <1> QED BY <1>2, <1>3, EndsStep DEF StopInd

LEMMA StopIndImplies == ASSUME StopInd PROVE StopAccountsForAll
  <1>1. PathInd /\ OkHasResult /\ EndsTied
    BY DEF StopInd
  <1> SUFFICES ASSUME life = "stopped", NEW e \in Events
               PROVE  /\ fate[e] \notin {"held", "lost"}
                      /\ fate[e] = "published" =>
                           SettledOrAhead(e) \/ (async /\ result[e] = "failed")
    BY DEF StopAccountsForAll
  <1>2. fate[e] \notin {"held", "lost"} /\ wstate = "closed"
    BY <1>1 DEF EndsTied
  <1>3. ASSUME fate[e] = "published", ~SettledOrAhead(e)
        PROVE  async /\ result[e] = "failed"
    <2>1. e \notin Appended
      BY <1>1, <1>3, AppendedHasCopy, CopyIsEnough
    <2>2. call[e] = "ok"
      BY <1>1, <1>3 DEF PathInd, CountedReturned
    <2>3. async
      BY <1>1, <2>1, <2>2 DEF PathInd, WInd, PublishedIsAppended
    <2>4. result[e] # "none"
      BY <1>1, <2>2 DEF OkHasResult
    <2>5. LossAccounted
      BY <1>1, WIndAccounts DEF PathInd
    <2> QED BY <1>2, <2>1, <2>3, <2>4, <2>5 DEF LossAccounted, Running
  <1> QED BY <1>2, <1>3

(* A graceful stop accounts for every event of the process, from end to end:   *)
(* the collector holds none (it counted each as refused, dropped or published),*)
(* and since Close has returned, the Writer holds none either: what was counted*)
(* as published is in the topic, settled or ahead of the group, or, with       *)
(* KAFKA_ASYNC only, its batch was given up (collector/main.go:92-105,         *)
(* service.go:182-194, publisher.go:43-44, 62-65, runner.go:59-66).            *)
THEOREM GracefulStopAccountsForAll == Spec => []StopAccountsForAll
  <1>1. Init => StopInd
    BY StopIndInit
  <1>2. StopInd /\ [Next]_vars => StopInd'
    BY StopIndStep
  <1>3. StopInd => StopAccountsForAll
    BY StopIndImplies
  <1> QED BY <1>1, <1>2, <1>3, PTL DEF Spec

=============================================================================

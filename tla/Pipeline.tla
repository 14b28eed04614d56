------------------------------ MODULE Pipeline ------------------------------
(***************************************************************************)
(* The event path from an accepted request to the storage: the collector   *)
(* and the processor are what their contracts say (Collector and Runner    *)
(* implement them), joined by the publisher and the topic of KafkaWriter.  *)
(*                                                                         *)
(* handleJob ties the collector to the writer: it counts an event as       *)
(* published when Publish returned nil and drops it when it did not.       *)
(* main ties their ends: it closes the writer when the intake is closed,   *)
(* and the process stops when Close has returned.                          *)
(***************************************************************************)
EXTENDS KafkaWriter

VARIABLES fate, life,           \* of IngestContract
          settled, committed    \* of DeliveryContract

vars == <<wvars, fate, life, settled, committed>>

ASSUME PipelineAssumption == IsFiniteSet(Events)

\* A partition never has more messages.
MaxOffset == MaxAttempts * Cardinality(Events)

Ingest   == INSTANCE IngestContract WITH Requests <- Events
Delivery == INSTANCE DeliveryContract

Init == WriterInit /\ Ingest!Init /\ Delivery!Init

-----------------------------------------------------------------------------
(* The collector.                                                           *)

WriterIdle    == UNCHANGED wvars
CollectorIdle == UNCHANGED <<fate, life>>
ProcessorIdle == UNCHANGED <<settled, committed>>

Accept(e) == Ingest!Admit(e) /\ WriterIdle /\ ProcessorIdle
Refuse(e) == Ingest!Refuse(e) /\ WriterIdle /\ ProcessorIdle

\* The event does not parse, or drop_oldest discards it.
DropHeld(e) == call[e] = "new" /\ Ingest!Drop(e) /\ WriterIdle /\ ProcessorIdle

\* A worker calls Publish; with KAFKA_ASYNC it has returned nil already.
CallPublish(e) ==
  /\ fate[e] = "held"
  /\ Publish(e)
  /\ IF call'[e] = "ok" THEN Ingest!Publish(e) ELSE CollectorIdle
  /\ ProcessorIdle

Counted_ErrorIgnored(e) == Ingest!Publish(e)

Counted(e) == IF call'[e] = "ok" THEN Ingest!Publish(e) ELSE Ingest!Drop(e)

\* Publish returns and handleJob counts the event.
PublishReturns(e) ==
  /\ fate[e] = "held"
  /\ PublishRefused(e) \/ Return(e) \/ Deadline(e)
  /\ Counted(e)
  /\ ProcessorIdle

WriterRuns(p) == Ingest!Alive /\ Goroutine(p) /\ CollectorIdle /\ ProcessorIdle

\* svc.Shutdown has returned: every worker is gone, nothing is held.
ClosePublisher == Close /\ Ingest!CloseIntake /\ ProcessorIdle

\* pub.Close has returned and so does main.
Stop == CloseReturns /\ Ingest!Stop /\ ProcessorIdle
Kill == WriterKilled /\ Ingest!Kill /\ ProcessorIdle

EventStep(e) == DropHeld(e) \/ CallPublish(e) \/ PublishReturns(e)

-----------------------------------------------------------------------------
(* The processor, over the messages that are in the topic.                  *)

SettleMessage(m) ==
  /\ m \notin settled /\ m[2] <= Len(topic[m[1]])
  /\ Delivery!Settle({m})
  /\ WriterIdle /\ CollectorIdle

CommitTo_Unsettled(mark) == committed' = mark /\ UNCHANGED settled

CommitTo(mark) == Delivery!Commit(mark, {})

CommitOffsets(mark) ==
  /\ mark # committed /\ \A p \in Partitions : mark[p] <= Len(topic[p])
  /\ CommitTo(mark)
  /\ WriterIdle /\ CollectorIdle

\* The collector is gone; the processor goes on with what is in the topic.
CollectorGone == ~Ingest!Alive /\ UNCHANGED vars

Next == \/ \E e \in Events : Accept(e) \/ Refuse(e) \/ EventStep(e)
        \/ \E p \in Partitions : WriterRuns(p)
        \/ ClosePublisher \/ Stop \/ Kill
        \/ \E m \in Delivery!Messages : SettleMessage(m)
        \/ \E mark \in [Partitions -> 0 .. MaxOffset] : CommitOffsets(mark)
        \/ CollectorGone

(* The collector settles what it holds (IngestContract), the Writer's        *)
(* goroutines run and give a batch up after MaxAttempts, main returns from   *)
(* Close, the processor settles what is in the topic (DeliveryContract).     *)
Fairness == /\ \A e \in Events : WF_vars(EventStep(e))
            /\ \A p \in Partitions : WF_vars(WriterRuns(p))
            /\ WF_vars(Stop)
            /\ \A m \in Delivery!Messages : WF_vars(SettleMessage(m))

Spec     == Init /\ [][Next]_vars
FairSpec == Spec /\ Fairness

-----------------------------------------------------------------------------
Written     == UNION {{p} \X DOMAIN topic[p] : p \in Partitions}
CopiesOf(e) == {m \in Written : topic[m[1]][m[2]] = e}

SettledOrAhead(e) == \E m \in CopiesOf(e) : m \in settled \/ m[2] > committed[m[1]]

(* What collector_published_total counts cannot be passed over: the event has  *)
(* a copy in the topic that is settled or that the group has yet to read.  The *)
(* exception is KAFKA_ASYNC, where the event may not be in the topic at all    *)
(* (service.go:186-191, publisher.go:43-44, runner.go:59-66).                  *)
PublishedIsNotSkipped ==
  \A e \in Events :
    fate[e] = "published" => SettledOrAhead(e) \/ (async /\ CopiesOf(e) = {})

(* After a graceful stop every event is accounted for, from end to end: no     *)
(* accepted one is left behind, and one that was counted as published is       *)
(* settled, or in the topic ahead of the group, or (with KAFKA_ASYNC only) in a *)
(* batch that was given up (collector/main.go:92-105, service.go:182-194,      *)
(* publisher.go:43-44, 62-65, runner.go:59-66).                                *)
StopAccountsForAll ==
  life = "stopped" =>
    \A e \in Events :
      /\ fate[e] \notin {"held", "lost"}
      /\ fate[e] = "published" => SettledOrAhead(e) \/ (async /\ result[e] = "failed")

(* An accepted event reaches the storage (or is given up there) unless the     *)
(* collector has counted it as dropped or was killed while it held it; with    *)
(* KAFKA_ASYNC also unless its batch was given up or the process was killed    *)
(* (service.go:168-194, publisher.go:50-65).                                   *)
AcceptedReachesStorage ==
  \A e \in Events :
    (fate[e] = "held") ~> \/ CopiesOf(e) \cap settled # {}
                          \/ fate[e] \in {"dropped", "lost"}
                          \/ async /\ (result[e] = "failed" \/ life = "killed")

(* pub.Close ends: a broker that does not answer cannot keep the process from  *)
(* stopping (publisher.go:62-65, main.go:102-105).                             *)
CloseEnds == (wstate = "closing") ~> (life \in {"stopped", "killed"})
=============================================================================

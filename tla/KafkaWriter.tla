---------------------------- MODULE KafkaWriter -----------------------------
(***************************************************************************)
(* The collector's side of the topic: kafka.Publisher, a kafka-go Writer   *)
(* with one queue of batches per partition, and the broker that appends    *)
(* them.  One call of Publish carries one event (handleJob).               *)
(*                                                                         *)
(* The Writer and the broker are external, modelled by what publisher.go   *)
(* asks of them: RequireAll, batches closed when full or by a timer, a     *)
(* failed attempt repeated, batches of a partition written one at a time.  *)
(* json.Marshal cannot fail for an event the parser has produced.          *)
(***************************************************************************)
EXTENDS Naturals, FiniteSets, SequencesExt

CONSTANTS Events,       \* the events handed to Publish, one call each
          Partitions,   \* of the topic; LeastBytes may choose any
          BatchSize,    \* messages that make a batch full
          MaxAttempts,  \* how often the Writer tries to write a batch
          Asyncs        \* the values KAFKA_ASYNC may have

ASSUME WriterAssumption == /\ BatchSize \in Nat \ {0}
                           /\ MaxAttempts \in Nat \ {0}
                           /\ Asyncs \subseteq BOOLEAN

VARIABLES async,    \* Writer.Async
          call,     \* call[e]: the Publish of e: not made, waiting, or its result
          result,   \* result[e]: what the Writer knows of e's batch
          batch,    \* batch[p]: the batch that is being filled
          queue,    \* queue[p]: the full batches; the first is being written
          tries,    \* tries[p]: failed attempts of the first one
          topic,    \* topic[p]: what the broker has appended
          handed,   \* handed[p]: the events in the order of their calls (history)
          wstate    \* the Writer: open, closing, closed, or killed with the process

callVars  == <<async, call, result>>
batchVars == <<batch, queue, tries>>
wvars     == <<callVars, batchVars, topic, handed, wstate>>

Batches == {s \in SeqOf(Events, BatchSize) : s # <<>>}

TypeOK ==
  /\ async \in BOOLEAN
  /\ call \in [Events -> {"new", "waiting", "ok", "error"}]
  /\ result \in [Events -> {"none", "pending", "acked", "failed"}]
  /\ \A p \in Partitions :
       /\ Len(batch[p]) < BatchSize /\ ToSet(batch[p]) \subseteq Events
       /\ ToSet(queue[p]) \subseteq Batches
       /\ tries[p] \in 0 .. MaxAttempts - 1
       /\ ToSet(topic[p]) \subseteq ToSet(handed[p])
  /\ wstate \in {"open", "closing", "closed", "killed"}

\* NewPublisher; the main function reads KAFKA_ASYNC once.
WriterInit ==
  /\ async \in Asyncs
  /\ call = [e \in Events |-> "new"] /\ result = [e \in Events |-> "none"]
  /\ batch = [p \in Partitions |-> <<>>] /\ queue = [p \in Partitions |-> <<>>]
  /\ tries = [p \in Partitions |-> 0]
  /\ topic = [p \in Partitions |-> <<>>] /\ handed = [p \in Partitions |-> <<>>]
  /\ wstate = "open"

Running   == wstate \in {"open", "closing"}
Waiting   == {e \in Events : call[e] = "waiting"}
Appended  == UNION {ToSet(topic[p]) : p \in Partitions}

-----------------------------------------------------------------------------
(* WriteMessages.                                                           *)

Enqueue_InFront(p, b) == /\ queue' = [queue EXCEPT ![p] = <<b>> \o @]
                         /\ batch' = [batch EXCEPT ![p] = <<>>]

\* The batch is closed and goes to the end of its partition's queue.
Enqueue(p, b) == /\ queue' = [queue EXCEPT ![p] = Append(@, b)]
                 /\ batch' = [batch EXCEPT ![p] = <<>>]

Full_OffByOne(b) == Len(b) > BatchSize

Full(b) == Len(b) = BatchSize

Fill(p, e) ==
  LET b == Append(batch[p], e) IN
  /\ IF Full(b) THEN Enqueue(p, b)
                ELSE batch' = [batch EXCEPT ![p] = b] /\ UNCHANGED queue
  /\ handed' = [handed EXCEPT ![p] = Append(@, e)]
  /\ result' = [result EXCEPT ![e] = "pending"]
  /\ UNCHANGED <<async, tries, topic, wstate>>

Called_NeverWaits == "ok"

\* An asynchronous Writer returns at once.
Called == IF async THEN "ok" ELSE "waiting"

\* The message joins a batch.
Publish(e) ==
  /\ wstate = "open" /\ call[e] = "new"
  /\ \E p \in Partitions : Fill(p, e)
  /\ call' = [call EXCEPT ![e] = Called]

\* The partitions of the topic cannot be looked up: nothing is handed over.
PublishRefused(e) ==
  /\ wstate = "open" /\ call[e] = "new"
  /\ call' = [call EXCEPT ![e] = "error"]
  /\ UNCHANGED <<async, result, batchVars, topic, handed, wstate>>

\* The batch is done and so is the call that waits for it.
Return(e) ==
  /\ Running /\ e \in Waiting /\ result[e] \in {"acked", "failed"}
  /\ call' = [call EXCEPT ![e] = IF result[e] = "acked" THEN "ok" ELSE "error"]
  /\ UNCHANGED <<async, result, batchVars, topic, handed, wstate>>

\* The 30s of handleJob are over; the batch stays where it is.
Deadline(e) ==
  /\ Running /\ e \in Waiting
  /\ call' = [call EXCEPT ![e] = "error"]
  /\ UNCHANGED <<async, result, batchVars, topic, handed, wstate>>

-----------------------------------------------------------------------------
(* The Writer's goroutine of partition p.                                   *)

\* BatchTimeout
BatchTimer(p) ==
  /\ Running /\ batch[p] # <<>>
  /\ Enqueue(p, batch[p])
  /\ UNCHANGED <<callVars, tries, topic, handed, wstate>>

\* The Writer is done with the first batch.
Finish(p, outcome) ==
  /\ queue' = [queue EXCEPT ![p] = Tail(@)]
  /\ tries' = [tries EXCEPT ![p] = 0]
  /\ result' = [e \in Events |-> IF e \in ToSet(Head(queue[p])) THEN outcome ELSE result[e]]

AppendBatch(p) == topic' = [topic EXCEPT ![p] = @ \o Head(queue[p])]

Attempt(p) == /\ Running /\ queue[p] # <<>>
              /\ UNCHANGED <<async, call, batch, handed, wstate>>

\* All replicas have the batch and the Writer hears of it.
Acknowledged(p) == Attempt(p) /\ AppendBatch(p) /\ Finish(p, "acked")

AttemptFails_ForEver(p) ==
  /\ Attempt(p)
  /\ tries' = [tries EXCEPT ![p] = (@ + 1) % MaxAttempts]
  /\ UNCHANGED <<queue, topic, result>>

\* No answer, or an error: the batch is appended or not, and the Writer tries
\* again, or gives the batch up after the last attempt or a permanent error.
AttemptFails(p) ==
  /\ Attempt(p)
  /\ AppendBatch(p) \/ UNCHANGED topic
  /\ \/ /\ tries[p] + 1 < MaxAttempts
        /\ tries' = [tries EXCEPT ![p] = @ + 1] /\ UNCHANGED <<queue, result>>
     \/ Finish(p, "failed")

-----------------------------------------------------------------------------
(* Publisher.Close, called by main when no worker is left.                  *)

Flushed_Forgotten(p) == queue[p]

Flushed(p) == IF batch[p] = <<>> THEN queue[p] ELSE Append(queue[p], batch[p])

\* The open batches are closed; nothing is accepted any more.
Close ==
  /\ wstate = "open" /\ Waiting = {}
  /\ wstate' = "closing"
  /\ queue' = [p \in Partitions |-> Flushed(p)]
  /\ batch' = [p \in Partitions |-> <<>>]
  /\ UNCHANGED <<callVars, tries, topic, handed>>

CloseReturns_NotAwaited ==
  /\ wstate = "closing" /\ wstate' = "closed"
  /\ UNCHANGED <<callVars, batchVars, topic, handed>>

\* Close waits for the Writer's goroutines.
CloseReturns ==
  /\ wstate = "closing" /\ \A p \in Partitions : queue[p] = <<>>
  /\ wstate' = "closed"
  /\ UNCHANGED <<callVars, batchVars, topic, handed>>

\* The process is killed: the batches are gone, the topic stays.
WriterKilled ==
  /\ wstate # "closed" /\ wstate' = "killed"
  /\ UNCHANGED <<callVars, batchVars, topic, handed>>

Goroutine(p) == BatchTimer(p) \/ Acknowledged(p) \/ AttemptFails(p)

WriterNext == \/ \E e \in Events : \/ Publish(e) \/ PublishRefused(e)
                                   \/ Return(e) \/ Deadline(e)
              \/ \E p \in Partitions : Goroutine(p)
              \/ Close \/ CloseReturns \/ WriterKilled

WriterSpec == WriterInit /\ [][WriterNext]_wvars

-----------------------------------------------------------------------------
(* A synchronous Publish that returns nil has its event in the topic: what     *)
(* collector_published_total says (metrics/collector.go:33, publisher.go:44,   *)
(* 59).                                                                        *)
PublishedIsAppended == ~async => \A e \in Events : call[e] = "ok" => e \in Appended

(* With KAFKA_ASYNC an event that was counted as published and is not in the   *)
(* topic is still on its way, or its batch was given up, or the process was    *)
(* killed; a Close that returns leaves no event behind (publisher.go:43,       *)
(* 62-65; main.go:102).                                                        *)
LossAccounted ==
  \A e \in Events :
    result[e] \notin {"none", "failed"} /\ e \notin Appended =>
      \/ wstate = "killed"
      \/ /\ Running
         /\ \E p \in Partitions : \/ e \in ToSet(batch[p])
                                  \/ \E i \in DOMAIN queue[p] : e \in ToSet(queue[p][i])

(* Retries repeat a whole batch and never reorder: the first copies of a       *)
(* partition's events are in the order in which they were handed over, and no  *)
(* event is there more often than the Writer has attempts (publisher.go:36-45).*)
FirstAt(s, e) == CHOOSE i \in DOMAIN s : s[i] = e /\ \A j \in 1 .. i - 1 : s[j] # e
Copies(s, e)  == Cardinality({i \in DOMAIN s : s[i] = e})

AppendedInOrder ==
  \A p \in Partitions :
    \A e, f \in ToSet(topic[p]) :
      /\ FirstAt(topic[p], e) < FirstAt(topic[p], f)
           <=> FirstAt(handed[p], e) < FirstAt(handed[p], f)
      /\ Copies(topic[p], e) \in 1 .. MaxAttempts

(* While Close waits, the attempts left for a partition shrink with every      *)
(* attempt and nothing adds to them, and there is one left as long as there is *)
(* a batch: a broker that does not answer delays the stop by MaxAttempts for   *)
(* each batch and no more (publisher.go:36-45, 62-65).                         *)
AttemptsLeft(p) == Len(queue[p]) * MaxAttempts - tries[p]

CloseProgresses ==
  [][wstate = "closing" =>
       \A p \in Partitions :
         /\ batch[p] = <<>> /\ AttemptsLeft(p) >= 0
         /\ AttemptsLeft(p) = 0 <=> queue[p] = <<>>
         /\ \/ UNCHANGED <<queue[p], tries[p]>>
            \/ AttemptsLeft(p)' < AttemptsLeft(p)]_wvars
=============================================================================

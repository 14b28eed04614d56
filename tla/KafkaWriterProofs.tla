-------------------------- MODULE KafkaWriterProofs --------------------------
(***************************************************************************)
(* What Publish, the Writer and Close promise, for any set of events and   *)
(* partitions, any batch size and any number of attempts.  None of it is   *)
(* inductive.  A call that returned nil is justified by the result of its  *)
(* batch and a pending result by the batch the event is in (WInd).  The    *)
(* order of a topic is justified by where each batch lies in the sequence  *)
(* of what was handed over: the topic has nothing of what comes after the  *)
(* first batch of the queue, and of that one all or nothing (Rows).        *)
(***************************************************************************)
EXTENDS KafkaWriter, FiniteSetTheorems, TLAPS

-----------------------------------------------------------------------------
(* The elements of sequences.                                               *)

LEMMA IsElement ==
  ASSUME NEW S, NEW s \in Seq(S), NEW x
  PROVE  x \in ToSet(s) <=> \E i \in 1 .. Len(s) : s[i] = x
  <1>1. DOMAIN s = 1 .. Len(s)
    OBVIOUS
  <1> QED BY <1>1 DEF ToSet

LEMMA AppendElements ==
  ASSUME NEW S, NEW s \in Seq(S), NEW x \in S
  PROVE  ToSet(Append(s, x)) = ToSet(s) \cup {x}
  <1> DEFINE u == Append(s, x)
  <1>1. u \in Seq(S) /\ Len(u) = Len(s) + 1
    OBVIOUS
  <1>2. \A i \in 1 .. Len(s) : u[i] = s[i]
    OBVIOUS
  <1>3. u[Len(s) + 1] = x
    OBVIOUS
  <1>4. \A i \in 1 .. Len(u) : i \in 1 .. Len(s) \/ i = Len(s) + 1
    BY <1>1
  <1>5. (\A i \in 1 .. Len(s) : i \in 1 .. Len(u)) /\ Len(s) + 1 \in 1 .. Len(u)
    BY <1>1
  <1> HIDE DEF u
  <1>6. ASSUME NEW y PROVE y \in ToSet(u) <=> y \in ToSet(s) \/ y = x
    BY <1>1, <1>2, <1>3, <1>4, <1>5, IsElement
  <1> QED BY <1>6 DEF u

LEMMA ConcatElements ==
  ASSUME NEW S, NEW s \in Seq(S), NEW t \in Seq(S)
  PROVE  ToSet(s \o t) = ToSet(s) \cup ToSet(t)
  <1> DEFINE u == s \o t
  <1>1. u \in Seq(S) /\ Len(u) = Len(s) + Len(t)
    OBVIOUS
  <1>2. \A i \in 1 .. Len(s) : u[i] = s[i]
    OBVIOUS
  <1>3. \A i \in 1 .. Len(t) : u[Len(s) + i] = t[i]
    OBVIOUS
  <1>4. \A i \in 1 .. Len(u) : \/ i \in 1 .. Len(s)
                               \/ \E j \in 1 .. Len(t) : i = Len(s) + j
    <2> SUFFICES ASSUME NEW i \in 1 .. Len(u), i \notin 1 .. Len(s)
                 PROVE  \E j \in 1 .. Len(t) : i = Len(s) + j
      OBVIOUS
    <2>1. i - Len(s) \in 1 .. Len(t) /\ i = Len(s) + (i - Len(s))
      BY <1>1
    <2> QED BY <2>1
  <1>5. \A i \in 1 .. Len(s) : i \in 1 .. Len(u)
    BY <1>1
  <1>6. \A i \in 1 .. Len(t) : Len(s) + i \in 1 .. Len(u)
    BY <1>1
  <1> HIDE DEF u
  <1>7. ASSUME NEW y PROVE y \in ToSet(u) <=> y \in ToSet(s) \/ y \in ToSet(t)
    <2>1. /\ y \in ToSet(u) <=> \E i \in 1 .. Len(u) : u[i] = y
          /\ y \in ToSet(s) <=> \E i \in 1 .. Len(s) : s[i] = y
          /\ y \in ToSet(t) <=> \E i \in 1 .. Len(t) : t[i] = y
      BY <1>1, IsElement
    <2>2. ASSUME NEW i \in 1 .. Len(u), u[i] = y
          PROVE  y \in ToSet(s) \/ y \in ToSet(t)
      <3>1. CASE i \in 1 .. Len(s)
        BY <2>1, <2>2, <3>1, <1>2
      <3>2. CASE \E j \in 1 .. Len(t) : i = Len(s) + j
        BY <2>1, <2>2, <3>2, <1>3
      <3> QED BY <1>4, <3>1, <3>2
    <2>3. y \in ToSet(s) => y \in ToSet(u)
      BY <2>1, <1>2, <1>5
    <2>4. y \in ToSet(t) => y \in ToSet(u)
      <3>1. SUFFICES ASSUME NEW i \in 1 .. Len(t), t[i] = y PROVE y \in ToSet(u)
        BY <2>1
      <3>2. u[Len(s) + i] = y /\ Len(s) + i \in 1 .. Len(u)
        BY <3>1, <1>3, <1>6
      <3> QED BY <3>2, <2>1
    <2> QED BY <2>1, <2>2, <2>3, <2>4
  <1> QED BY <1>7 DEF u

LEMMA HeadElements ==
  ASSUME NEW S, NEW s \in Seq(S), s # <<>>
  PROVE  /\ Head(s) \in S
         /\ Tail(s) \in Seq(S)
         /\ ToSet(s) = {Head(s)} \cup ToSet(Tail(s))
  <1> DEFINE t == Tail(s)
  <1>1. /\ Head(s) \in S /\ Head(s) = s[1]
        /\ t \in Seq(S) /\ Len(t) = Len(s) - 1 /\ Len(s) > 0
    OBVIOUS
  <1>2. \A i \in 1 .. Len(t) : t[i] = s[i + 1] /\ i + 1 \in 1 .. Len(s)
    OBVIOUS
  <1>3. \A i \in 1 .. Len(s) : i = 1 \/ \E j \in 1 .. Len(t) : i = j + 1
    <2> SUFFICES ASSUME NEW i \in 1 .. Len(s), i # 1
                 PROVE  \E j \in 1 .. Len(t) : i = j + 1
      OBVIOUS
    <2>1. i - 1 \in 1 .. Len(t) /\ i = (i - 1) + 1
      BY <1>1
    <2> QED BY <2>1
  <1>4. 1 \in 1 .. Len(s)
    BY <1>1
  <1> HIDE DEF t
  <1>5. ASSUME NEW y PROVE y \in ToSet(s) <=> y = Head(s) \/ y \in ToSet(t)
    <2>1. /\ y \in ToSet(s) <=> \E i \in 1 .. Len(s) : s[i] = y
          /\ y \in ToSet(t) <=> \E i \in 1 .. Len(t) : t[i] = y
      BY <1>1, IsElement
    <2>2. ASSUME NEW i \in 1 .. Len(s), s[i] = y
          PROVE  y = Head(s) \/ y \in ToSet(t)
      <3>1. CASE i = 1
        BY <2>2, <3>1, <1>1
      <3>2. CASE \E j \in 1 .. Len(t) : i = j + 1
        BY <2>1, <2>2, <3>2, <1>2
      <3> QED BY <1>3, <3>1, <3>2
    <2>3. y = Head(s) => y \in ToSet(s)
      BY <2>1, <1>1, <1>4
    <2>4. y \in ToSet(t) => y \in ToSet(s)
      <3>1. SUFFICES ASSUME NEW i \in 1 .. Len(t), t[i] = y PROVE y \in ToSet(s)
        BY <2>1
      <3>2. s[i + 1] = y /\ i + 1 \in 1 .. Len(s)
        BY <3>1, <1>2
      <3> QED BY <3>2, <2>1
    <2> QED BY <2>1, <2>2, <2>3, <2>4
  <1> QED BY <1>1, <1>5 DEF t

LEMMA NoElements ==
  ASSUME NEW S, NEW s \in Seq(S)
  PROVE  s = <<>> <=> ToSet(s) = {}
  <1>1. s = <<>> <=> Len(s) = 0
    OBVIOUS
  <1>2. Len(s) # 0 => 1 \in 1 .. Len(s)
    OBVIOUS
  <1> QED BY <1>1, <1>2, IsElement

-----------------------------------------------------------------------------
(* The invariant.                                                           *)

Shape ==
  /\ async \in BOOLEAN
  /\ call \in [Events -> {"new", "waiting", "ok", "error"}]
  /\ result \in [Events -> {"none", "pending", "acked", "failed"}]
  /\ batch \in [Partitions -> Seq(Events)]
  /\ queue \in [Partitions -> Seq(Seq(Events))]
  /\ topic \in [Partitions -> Seq(Events)]
  /\ wstate \in {"open", "closing", "closed", "killed"}

\* The Writer of partition p still has a batch with e.
OnItsWay(e, p) == \/ e \in ToSet(batch[p])
                  \/ \E b \in ToSet(queue[p]) : e \in ToSet(b)

AckedIsAppended == \A e \in Events : result[e] = "acked" => e \in Appended

PendingIsHeld ==
  \A e \in Events :
    result[e] = "pending" => wstate = "killed" \/ \E p \in Partitions : OnItsWay(e, p)

ClosedIsEmpty ==
  /\ wstate \in {"closing", "closed"} => \A p \in Partitions : batch[p] = <<>>
  /\ wstate = "closed" => \A p \in Partitions : queue[p] = <<>>

WInd == /\ Shape
        /\ AckedIsAppended
        /\ PublishedIsAppended
        /\ PendingIsHeld
        /\ ClosedIsEmpty

LEMMA WIndInit == ASSUME WriterInit PROVE WInd
  <1>1. Shape
    BY WriterAssumption DEF WriterInit, Shape
  <1> QED BY <1>1 DEF WriterInit, WInd, AckedIsAppended, PublishedIsAppended,
                     PendingIsHeld, ClosedIsEmpty

LEMMA WIndStutter == ASSUME WInd, UNCHANGED wvars PROVE WInd'
  BY DEF WInd, Shape, AckedIsAppended, PublishedIsAppended, PendingIsHeld,
         ClosedIsEmpty, OnItsWay, Appended, wvars, callVars, batchVars

\* Steps that append nothing and take nothing from the Writer: what they must
\* still show is what they do to the results and the calls.
LEMMA WriterFrame ==
  ASSUME WInd, Shape', UNCHANGED <<async, topic, batch, queue, wstate>>,
         \A e \in Events :
           /\ result'[e] = result[e]
           /\ call'[e] = "ok" => call[e] = "ok" \/ async \/ e \in Appended
  PROVE  WInd'
  BY DEF WInd, AckedIsAppended, PublishedIsAppended, PendingIsHeld,
         ClosedIsEmpty, OnItsWay, Appended

LEMMA CloseOfBatch ==
  ASSUME Shape, NEW p \in Partitions, NEW b \in Seq(Events), Enqueue(p, b)
  PROVE  /\ batch' \in [Partitions -> Seq(Events)]
         /\ queue' \in [Partitions -> Seq(Seq(Events))]
         /\ batch'[p] = <<>>
         /\ ToSet(queue'[p]) = ToSet(queue[p]) \cup {b}
         /\ \A q \in Partitions \ {p} : batch'[q] = batch[q] /\ queue'[q] = queue[q]
  <1>1. queue[p] \in Seq(Seq(Events)) /\ Append(queue[p], b) \in Seq(Seq(Events))
    BY DEF Shape
  <1>2. /\ queue' = [queue EXCEPT ![p] = Append(queue[p], b)]
        /\ batch' = [batch EXCEPT ![p] = <<>>]
    BY DEF Enqueue
  <1>3. queue' \in [Partitions -> Seq(Seq(Events))] /\ queue'[p] = Append(queue[p], b)
    BY <1>1, <1>2 DEF Shape
  <1>4. <<>> \in Seq(Events)
    OBVIOUS
  <1>5. batch' \in [Partitions -> Seq(Events)] /\ batch'[p] = <<>>
    BY <1>2, <1>4 DEF Shape
  <1>6. ToSet(queue'[p]) = ToSet(queue[p]) \cup {b}
    BY <1>1, <1>3, AppendElements
  <1>7. \A q \in Partitions \ {p} : batch'[q] = batch[q] /\ queue'[q] = queue[q]
    BY <1>2 DEF Shape
  <1> QED BY <1>3, <1>5, <1>6, <1>7

LEMMA PublishStep ==
  ASSUME WInd, NEW e \in Events, Publish(e)
  PROVE  WInd'
  <1> USE DEF WInd
  <1>1. PICK p \in Partitions : Fill(p, e)
    BY DEF Publish
  <1> DEFINE b == Append(batch[p], e)
  <1>2. b \in Seq(Events) /\ ToSet(b) = ToSet(batch[p]) \cup {e}
    BY AppendElements DEF Shape
  <1>3. /\ batch' \in [Partitions -> Seq(Events)]
        /\ queue' \in [Partitions -> Seq(Seq(Events))]
        /\ \A f \in Events, q \in Partitions : OnItsWay(f, q) => OnItsWay(f, q)'
        /\ OnItsWay(e, p)'
    <2>1. CASE Enqueue(p, b)
      <3>1. /\ batch' \in [Partitions -> Seq(Events)]
            /\ queue' \in [Partitions -> Seq(Seq(Events))]
            /\ ToSet(queue'[p]) = ToSet(queue[p]) \cup {b}
            /\ \A q \in Partitions \ {p} : batch'[q] = batch[q] /\ queue'[q] = queue[q]
        BY <1>2, <2>1, CloseOfBatch
      <3> HIDE DEF b
      <3>2. \A f \in Events, q \in Partitions : OnItsWay(f, q) => OnItsWay(f, q)'
        BY <1>2, <3>1 DEF OnItsWay
      <3>3. OnItsWay(e, p)'
        BY <1>2, <3>1 DEF OnItsWay
      <3> QED BY <3>1, <3>2, <3>3
    <2>2. CASE batch' = [batch EXCEPT ![p] = b] /\ UNCHANGED queue
      <3> HIDE DEF b
      <3>1. batch' \in [Partitions -> Seq(Events)] /\ batch'[p] = b
        BY <1>2, <2>2 DEF Shape
      <3>2. \A q \in Partitions \ {p} : batch'[q] = batch[q]
        BY <2>2 DEF Shape
      <3> QED BY <1>2, <2>2, <3>1, <3>2 DEF OnItsWay, Shape
    <2> QED BY <1>1, <2>1, <2>2 DEF Fill
  <1>4. /\ result' = [result EXCEPT ![e] = "pending"]
        /\ call' = [call EXCEPT ![e] = Called]
        /\ wstate = "open" /\ UNCHANGED <<async, topic, wstate>>
    BY <1>1 DEF Publish, Fill
  <1>5. Shape'
    BY <1>3, <1>4 DEF Shape, Called
  <1>6. AckedIsAppended'
    BY <1>4 DEF AckedIsAppended, Appended, Shape
  <1>7. PublishedIsAppended'
    BY <1>4 DEF PublishedIsAppended, Appended, Called, Shape
  <1>8. PendingIsHeld'
    BY <1>3, <1>4 DEF PendingIsHeld, Shape
  <1>9. ClosedIsEmpty'
    BY <1>4 DEF ClosedIsEmpty
  <1> QED BY <1>5, <1>6, <1>7, <1>8, <1>9

LEMMA AnswerStep ==
  ASSUME WInd, NEW e \in Events, PublishRefused(e) \/ Return(e) \/ Deadline(e)
  PROVE  WInd'
  <1>1. /\ \/ call' = [call EXCEPT ![e] = "error"]
           \/ result[e] = "acked" /\ call' = [call EXCEPT ![e] = "ok"]
        /\ UNCHANGED <<async, result, batchVars, topic, wstate>>
    BY DEF PublishRefused, Return, Deadline
  <1>2. Shape'
    BY <1>1 DEF WInd, Shape, batchVars
  <1>3. \A f \in Events : call'[f] = "ok" => call[f] = "ok" \/ f \in Appended
    BY <1>1 DEF WInd, Shape, AckedIsAppended
  <1> QED BY <1>1, <1>2, <1>3, WriterFrame DEF batchVars

LEMMA BatchTimerStep ==
  ASSUME WInd, NEW p \in Partitions, BatchTimer(p)
  PROVE  WInd'
  <1>1. /\ Enqueue(p, batch[p]) /\ wstate \in {"open", "closing"} /\ batch[p] # <<>>
        /\ UNCHANGED <<async, call, result, topic, wstate>>
    BY DEF BatchTimer, Running, callVars
  <1>2. batch[p] \in Seq(Events)
    BY DEF WInd, Shape
  <1>3. /\ batch' \in [Partitions -> Seq(Events)]
        /\ queue' \in [Partitions -> Seq(Seq(Events))]
        /\ ToSet(queue'[p]) = ToSet(queue[p]) \cup {batch[p]}
        /\ \A q \in Partitions \ {p} : batch'[q] = batch[q] /\ queue'[q] = queue[q]
    BY <1>1, <1>2, CloseOfBatch DEF WInd
  <1>4. \A f \in Events, q \in Partitions : OnItsWay(f, q) => OnItsWay(f, q)'
    BY <1>3 DEF OnItsWay
  <1>5. Shape'
    BY <1>1, <1>3 DEF WInd, Shape
  <1>6. AckedIsAppended' /\ PublishedIsAppended'
    BY <1>1 DEF WInd, AckedIsAppended, PublishedIsAppended, Appended
  <1>7. PendingIsHeld'
    BY <1>1, <1>4 DEF WInd, PendingIsHeld
  <1>8. ClosedIsEmpty'
    BY <1>1 DEF WInd, ClosedIsEmpty
  <1> QED BY <1>5, <1>6, <1>7, <1>8 DEF WInd

\* An attempt adds nothing to the topic, or the batch.
LEMMA TopicGrows ==
  ASSUME Shape, NEW p \in Partitions, queue[p] # <<>>, AppendBatch(p) \/ UNCHANGED topic
  PROVE  /\ topic' \in [Partitions -> Seq(Events)]
         /\ Appended \subseteq Appended'
         /\ AppendBatch(p) => ToSet(Head(queue[p])) \subseteq Appended'
  <1>1. CASE UNCHANGED topic /\ ~AppendBatch(p)
    BY <1>1 DEF Shape, Appended
  <1>2. CASE AppendBatch(p)
    <2> DEFINE h == Head(queue[p])
    <2>1. h \in Seq(Events)
      BY HeadElements DEF Shape
    <2>2. topic' = [topic EXCEPT ![p] = topic[p] \o h]
      BY <1>2 DEF AppendBatch
    <2>3. topic[p] \in Seq(Events)
      BY DEF Shape
    <2> HIDE DEF h
    <2>4. topic[p] \o h \in Seq(Events)
      BY <2>1, <2>3
    <2>5. topic' \in [Partitions -> Seq(Events)] /\ topic'[p] = topic[p] \o h
      BY <2>2, <2>4 DEF Shape
    <2>6. ToSet(topic'[p]) = ToSet(topic[p]) \cup ToSet(h)
      BY <2>1, <2>3, <2>5, ConcatElements
    <2>7. \A q \in Partitions \ {p} : topic'[q] = topic[q]
      BY <2>2 DEF Shape
    <2>8. Appended \subseteq Appended' /\ ToSet(h) \subseteq Appended'
      BY <2>6, <2>7 DEF Appended
    <2> QED BY <2>5, <2>8 DEF h
  <1> QED BY <1>1, <1>2

LEMMA FinishStep ==
  ASSUME WInd, NEW p \in Partitions, NEW outcome \in {"acked", "failed"},
         Attempt(p), Finish(p, outcome), AppendBatch(p) \/ UNCHANGED topic,
         outcome = "acked" => AppendBatch(p)
  PROVE  WInd'
  <1> USE DEF WInd
  <1>1. /\ UNCHANGED <<async, call, batch, wstate>> /\ queue[p] # <<>>
        /\ wstate \in {"open", "closing"}
    BY DEF Attempt, Running
  <1>2. /\ topic' \in [Partitions -> Seq(Events)]
        /\ Appended \subseteq Appended'
        /\ outcome = "acked" => ToSet(Head(queue[p])) \subseteq Appended'
    BY <1>1, TopicGrows
  <1>3. /\ Tail(queue[p]) \in Seq(Seq(Events))
        /\ ToSet(queue[p]) = {Head(queue[p])} \cup ToSet(Tail(queue[p]))
    BY <1>1, HeadElements DEF Shape
  <1>4. queue' = [queue EXCEPT ![p] = Tail(queue[p])]
    BY DEF Finish
  <1>5. queue' \in [Partitions -> Seq(Seq(Events))] /\ queue'[p] = Tail(queue[p])
    BY <1>3, <1>4 DEF Shape
  <1>6. \A q \in Partitions \ {p} : queue'[q] = queue[q]
    BY <1>4 DEF Shape
  <1>7. result' = [e \in Events |-> IF e \in ToSet(Head(queue[p])) THEN outcome ELSE result[e]]
    BY DEF Finish
  <1>8. Shape'
    BY <1>1, <1>2, <1>5, <1>7 DEF Shape
  <1>9. AckedIsAppended'
    BY <1>2, <1>7 DEF AckedIsAppended
  <1>10. PublishedIsAppended'
    BY <1>1, <1>2 DEF PublishedIsAppended
  <1>11. PendingIsHeld'
    <2> SUFFICES ASSUME NEW e \in Events, result'[e] = "pending"
                 PROVE  \E q \in Partitions : OnItsWay(e, q)'
      BY DEF PendingIsHeld
    <2>1. e \notin ToSet(Head(queue[p])) /\ result[e] = "pending"
      BY <1>7
    <2>2. PICK q \in Partitions : OnItsWay(e, q)
      BY <1>1, <2>1 DEF PendingIsHeld
    <2>3. OnItsWay(e, q)'
      BY <1>1, <1>3, <1>5, <1>6, <2>1, <2>2 DEF OnItsWay
    <2> QED BY <2>3
  <1>12. ClosedIsEmpty'
    BY <1>1 DEF ClosedIsEmpty
  <1> QED BY <1>8, <1>9, <1>10, <1>11, <1>12

LEMMA AttemptStep ==
  ASSUME WInd, NEW p \in Partitions, Acknowledged(p) \/ AttemptFails(p)
  PROVE  WInd'
  <1>1. CASE Acknowledged(p)
    BY <1>1, FinishStep DEF Acknowledged
  <1>2. CASE AttemptFails(p) /\ Finish(p, "failed")
    BY <1>2, FinishStep DEF AttemptFails
  <1>3. CASE AttemptFails(p) /\ UNCHANGED <<queue, result>>
    <2>1. /\ UNCHANGED <<async, call, result, batch, queue, wstate>> /\ queue[p] # <<>>
      BY <1>3 DEF AttemptFails, Attempt
    <2>2. topic' \in [Partitions -> Seq(Events)] /\ Appended \subseteq Appended'
      BY <1>3, <2>1, TopicGrows DEF AttemptFails, WInd
    <2>3. Shape'
      BY <2>1, <2>2 DEF WInd, Shape
    <2>4. AckedIsAppended' /\ PublishedIsAppended'
      BY <2>1, <2>2 DEF WInd, AckedIsAppended, PublishedIsAppended
    <2>5. PendingIsHeld' /\ ClosedIsEmpty'
      BY <2>1 DEF WInd, PendingIsHeld, ClosedIsEmpty, OnItsWay
    <2> QED BY <2>3, <2>4, <2>5 DEF WInd
  <1> QED BY <1>1, <1>2, <1>3 DEF AttemptFails

LEMMA CloseStep ==
  ASSUME WInd, Close
  PROVE  WInd'
  <1> USE DEF WInd
  <1>1. /\ wstate' = "closing" /\ UNCHANGED <<async, call, result, topic>>
        /\ queue' = [p \in Partitions |-> Flushed(p)]
        /\ batch' = [p \in Partitions |-> <<>>]
    BY DEF Close, callVars
  <1>2. ASSUME NEW p \in Partitions
        PROVE  /\ Flushed(p) \in Seq(Seq(Events))
               /\ ToSet(queue[p]) \subseteq ToSet(Flushed(p))
               /\ batch[p] # <<>> => batch[p] \in ToSet(Flushed(p))
    <2>1. queue[p] \in Seq(Seq(Events)) /\ batch[p] \in Seq(Events)
      BY DEF Shape
    <2>2. /\ Append(queue[p], batch[p]) \in Seq(Seq(Events))
          /\ ToSet(Append(queue[p], batch[p])) = ToSet(queue[p]) \cup {batch[p]}
      BY <2>1, AppendElements
    <2> QED BY <2>1, <2>2 DEF Flushed
  <1>3. Shape'
    BY <1>1, <1>2 DEF Shape
  <1>4. AckedIsAppended' /\ PublishedIsAppended'
    BY <1>1 DEF AckedIsAppended, PublishedIsAppended, Appended
  <1>5. \A e \in Events, p \in Partitions : OnItsWay(e, p) => OnItsWay(e, p)'
    <2> SUFFICES ASSUME NEW e \in Events, NEW p \in Partitions, OnItsWay(e, p)
                 PROVE  \E b \in ToSet(queue'[p]) : e \in ToSet(b)
      BY DEF OnItsWay
    <2>1. queue'[p] = Flushed(p)
      BY <1>1
    <2>2. CASE e \in ToSet(batch[p])
      BY <1>2, <2>1, <2>2, NoElements DEF Shape
    <2>3. CASE \E b \in ToSet(queue[p]) : e \in ToSet(b)
      BY <1>2, <2>1, <2>3
    <2> QED BY <2>2, <2>3 DEF OnItsWay
  <1>6. PendingIsHeld'
    BY <1>1, <1>5 DEF PendingIsHeld, Close
  <1>7. ClosedIsEmpty'
    BY <1>1 DEF ClosedIsEmpty
  <1> QED BY <1>3, <1>4, <1>6, <1>7

LEMMA EndStep ==
  ASSUME WInd, CloseReturns \/ WriterKilled
  PROVE  WInd'
  <1>1. /\ UNCHANGED <<async, call, result, batch, queue, topic>>
        /\ wstate' \in {"closed", "killed"}
        /\ wstate' = "closed" => /\ wstate = "closing"
                                 /\ \A p \in Partitions : queue[p] = <<>>
    BY DEF CloseReturns, WriterKilled, callVars, batchVars
  <1>2. Shape'
    BY <1>1 DEF WInd, Shape
  <1>3. AckedIsAppended' /\ PublishedIsAppended'
    BY <1>1 DEF WInd, AckedIsAppended, PublishedIsAppended, Appended
  <1>4. PendingIsHeld'
    BY <1>1 DEF WInd, PendingIsHeld, OnItsWay
  <1>5. ClosedIsEmpty'
    BY <1>1 DEF WInd, ClosedIsEmpty
  <1> QED BY <1>2, <1>3, <1>4, <1>5 DEF WInd

LEMMA WIndStep == ASSUME WInd, [WriterNext]_wvars PROVE WInd'
  <1>1. CASE \E e \in Events : Publish(e)
    BY <1>1, PublishStep
  <1>2. CASE \E e \in Events : PublishRefused(e) \/ Return(e) \/ Deadline(e)
    BY <1>2, AnswerStep
  <1>3. CASE \E p \in Partitions : BatchTimer(p)
    BY <1>3, BatchTimerStep
  <1>4. CASE \E p \in Partitions : Acknowledged(p) \/ AttemptFails(p)
    BY <1>4, AttemptStep
  <1>5. CASE Close
    BY <1>5, CloseStep
  <1>6. CASE CloseReturns \/ WriterKilled
    BY <1>6, EndStep
  <1>7. CASE UNCHANGED wvars
    BY <1>7, WIndStutter
  <1> QED BY <1>1, <1>2, <1>3, <1>4, <1>5, <1>6, <1>7 DEF WriterNext, Goroutine

(* The invariant holds in every behaviour of the Writer and the broker        *)
(* (publisher.go:36-65).                                                      *)
THEOREM WriterInductive == WriterSpec => []WInd
  <1>1. WriterInit => WInd
    BY WIndInit
  <1>2. WInd /\ [WriterNext]_wvars => WInd'
    BY WIndStep
  <1> QED BY <1>1, <1>2, PTL DEF WriterSpec

-----------------------------------------------------------------------------
\* What is not pending any more was acknowledged or given up.
LEMMA WIndAccounts == ASSUME WInd PROVE LossAccounted
  <1> SUFFICES ASSUME NEW e \in Events, result[e] \notin {"none", "failed"},
                      e \notin Appended, wstate # "killed"
               PROVE  /\ Running
                      /\ \E p \in Partitions :
                           \/ e \in ToSet(batch[p])
                           \/ \E i \in DOMAIN queue[p] : e \in ToSet(queue[p][i])
    BY DEF LossAccounted
  <1>1. result[e] = "pending"
    BY DEF WInd, Shape, AckedIsAppended
  <1>2. PICK p \in Partitions : OnItsWay(e, p)
    BY <1>1 DEF WInd, PendingIsHeld
  <1>3. e \in ToSet(batch[p]) \/ \E i \in DOMAIN queue[p] : e \in ToSet(queue[p][i])
    BY <1>2 DEF OnItsWay, ToSet
  <1>4. wstate # "closed"
    <2> SUFFICES ASSUME wstate = "closed" PROVE FALSE
      OBVIOUS
    <2>1. batch[p] = <<>> /\ queue[p] = <<>>
      BY DEF WInd, ClosedIsEmpty
    <2>2. batch[p] \in Seq(Events) /\ queue[p] \in Seq(Seq(Events))
      BY DEF WInd, Shape
    <2> QED BY <1>2, <2>1, <2>2, NoElements DEF OnItsWay
  <1> QED BY <1>3, <1>4 DEF WInd, Shape, Running

(* A synchronous Publish that returns nil has its event in the topic          *)
(* (publisher.go:44, 59), for every batch size and number of attempts.        *)
THEOREM PublishedMeansAppended == WriterSpec => []PublishedIsAppended
  <1>1. WInd => PublishedIsAppended
    BY DEF WInd
  <1> QED BY <1>1, WriterInductive, PTL

(* What was handed over is in the topic, on its way, given up or lost by a    *)
(* kill, and a Close that returns leaves nothing behind (publisher.go:62-65). *)
THEOREM CloseLeavesNothing == WriterSpec => []LossAccounted
  <1>1. WInd => LossAccounted
    BY WIndAccounts
  <1> QED BY <1>1, WriterInductive, PTL

-----------------------------------------------------------------------------
(* First copies and the number of copies.                                   *)

Distinct(s) == \A i, j \in 1 .. Len(s) : s[i] = s[j] => i = j

IsFirst(s, e, i) == s[i] = e /\ \A j \in 1 .. i - 1 : s[j] # e

HasFirst(s) == \A e \in ToSet(s) : \E i \in 1 .. Len(s) : IsFirst(s, e, i)

LEMMA FirstIs ==
  ASSUME NEW S, NEW s \in Seq(S), NEW e, NEW i \in 1 .. Len(s), IsFirst(s, e, i)
  PROVE  FirstAt(s, e) = i
  <1>1. DOMAIN s = 1 .. Len(s)
    OBVIOUS
  <1>2. ASSUME NEW k \in 1 .. Len(s), IsFirst(s, e, k) PROVE k = i
    <2>1. ~(k < i) /\ ~(i < k)
      BY <1>2 DEF IsFirst
    <2> QED BY <2>1
  <1>3. FirstAt(s, e) = CHOOSE k \in 1 .. Len(s) : IsFirst(s, e, k)
    BY <1>1 DEF FirstAt, IsFirst
  <1> QED BY <1>2, <1>3

LEMMA FirstOfDistinct ==
  ASSUME NEW S, NEW s \in Seq(S), Distinct(s), NEW i \in 1 .. Len(s)
  PROVE  IsFirst(s, s[i], i) /\ FirstAt(s, s[i]) = i
  <1>1. IsFirst(s, s[i], i)
    BY DEF Distinct, IsFirst
  <1> QED BY <1>1, FirstIs

LEMMA FirstInPrefix ==
  ASSUME NEW S, NEW s \in Seq(S), NEW t \in Seq(S), HasFirst(s), NEW e \in ToSet(s)
  PROVE  /\ FirstAt(s, e) \in 1 .. Len(s)
         /\ IsFirst(s \o t, e, FirstAt(s, e))
         /\ FirstAt(s \o t, e) = FirstAt(s, e)
  <1> DEFINE u == s \o t
  <1>1. u \in Seq(S) /\ Len(u) = Len(s) + Len(t) /\ \A i \in 1 .. Len(s) : u[i] = s[i]
    OBVIOUS
  <1>2. PICK i \in 1 .. Len(s) : IsFirst(s, e, i)
    BY DEF HasFirst
  <1>3. FirstAt(s, e) = i
    BY <1>2, FirstIs
  <1> HIDE DEF u
  <1>4. i \in 1 .. Len(u)
    BY <1>1
  <1>5. \A j \in 1 .. i - 1 : u[j] = s[j]
    BY <1>1
  <1>6. s[i] = e /\ \A j \in 1 .. i - 1 : s[j] # e
    BY <1>2 DEF IsFirst
  <1>7. u[i] = e /\ \A j \in 1 .. i - 1 : u[j] # e
    BY <1>1, <1>5, <1>6
  <1>8. IsFirst(u, e, i)
    BY <1>7 DEF IsFirst
  <1>9. FirstAt(u, e) = i
    BY <1>1, <1>4, <1>8, FirstIs
  <1> QED BY <1>3, <1>8, <1>9 DEF u

LEMMA FirstInRest ==
  ASSUME NEW S, NEW s \in Seq(S), NEW t \in Seq(S), Distinct(t),
         NEW j \in 1 .. Len(t), t[j] \notin ToSet(s)
  PROVE  /\ Len(s) + j \in 1 .. Len(s \o t)
         /\ IsFirst(s \o t, t[j], Len(s) + j)
         /\ FirstAt(s \o t, t[j]) = Len(s) + j
  <1> DEFINE u == s \o t
  <1>1. /\ u \in Seq(S) /\ Len(u) = Len(s) + Len(t)
        /\ \A i \in 1 .. Len(s) : u[i] = s[i]
    OBVIOUS
  <1>2. \A i \in Len(s) + 1 .. Len(s) + Len(t) : u[i] = t[i - Len(s)]
    OBVIOUS
  <1>3. \A i \in 1 .. Len(s) : s[i] # t[j]
    BY IsElement
  <1>4. Len(s) + j \in 1 .. Len(u) /\ u[Len(s) + j] = t[j]
    BY <1>1, <1>2
  <1> HIDE DEF u
  <1>5. ASSUME NEW i \in 1 .. (Len(s) + j) - 1 PROVE u[i] # t[j]
    <2>1. CASE i \in 1 .. Len(s)
      BY <1>1, <1>3, <2>1
    <2>2. CASE i \notin 1 .. Len(s)
      <3>1. i \in Len(s) + 1 .. Len(s) + Len(t) /\ i - Len(s) \in 1 .. Len(t)
            /\ i - Len(s) # j
        BY <2>2
      <3> QED BY <1>2, <3>1 DEF Distinct
    <2> QED BY <2>1, <2>2
  <1>6. IsFirst(u, t[j], Len(s) + j)
    BY <1>4, <1>5 DEF IsFirst
  <1>7. FirstAt(u, t[j]) = Len(s) + j
    BY <1>1, <1>4, <1>6, FirstIs
  <1> QED BY <1>4, <1>6, <1>7 DEF u

LEMMA CopiesCounted ==
  ASSUME NEW S, NEW s \in Seq(S), NEW e
  PROVE  /\ IsFiniteSet({i \in DOMAIN s : s[i] = e})
         /\ Copies(s, e) \in Nat
         /\ e \in ToSet(s) <=> Copies(s, e) # 0
  <1> DEFINE C == {i \in DOMAIN s : s[i] = e}
  <1>1. DOMAIN s = 1 .. Len(s) /\ Len(s) \in Nat
    OBVIOUS
  <1>2. IsFiniteSet(C)
    <2>1. IsFiniteSet(1 .. Len(s)) /\ C \subseteq 1 .. Len(s)
      BY <1>1, FS_Interval
    <2> QED BY <2>1, FS_Subset
  <1>3. Cardinality(C) \in Nat /\ (Cardinality(C) = 0 <=> C = {})
    BY <1>2, FS_CardinalityType, FS_EmptySet
  <1>4. e \in ToSet(s) <=> C # {}
    BY <1>1, IsElement
  <1> QED BY <1>2, <1>3, <1>4 DEF Copies

\* A batch adds one copy of each of its events.
LEMMA CopiesConcat ==
  ASSUME NEW S, NEW s \in Seq(S), NEW t \in Seq(S), Distinct(t), NEW e
  PROVE  Copies(s \o t, e) = Copies(s, e) + (IF e \in ToSet(t) THEN 1 ELSE 0)
  <1> DEFINE u == s \o t
             C == {i \in DOMAIN s : s[i] = e}
             D == {i \in DOMAIN u : u[i] = e}
  <1>1. /\ u \in Seq(S) /\ Len(u) = Len(s) + Len(t)
        /\ \A i \in 1 .. Len(s) : u[i] = s[i]
        /\ DOMAIN s = 1 .. Len(s) /\ DOMAIN u = 1 .. Len(s) + Len(t)
        /\ Len(s) \in Nat /\ Len(t) \in Nat
    OBVIOUS
  <1>2. \A i \in Len(s) + 1 .. Len(s) + Len(t) : u[i] = t[i - Len(s)]
    OBVIOUS
  <1>3. \A i \in D : i \in C \/ (i \in Len(s) + 1 .. Len(s) + Len(t) /\ t[i - Len(s)] = e)
    BY <1>1, <1>2
  <1>4. C \subseteq D
    BY <1>1
  <1>5. /\ IsFiniteSet(C) /\ Cardinality(C) \in Nat
        /\ Copies(s, e) = Cardinality(C) /\ Copies(u, e) = Cardinality(D)
    BY CopiesCounted DEF Copies
  <1>6. CASE e \notin ToSet(t)
    <2>1. \A i \in 1 .. Len(t) : t[i] # e
      BY <1>6, IsElement
    <2>2. D = C
      BY <1>1, <1>3, <1>4, <2>1
    <2>3. Copies(u, e) = Copies(s, e) /\ Copies(s, e) \in Nat
      BY <1>5, <2>2
    <2> QED BY <1>6, <2>3
  <1>7. CASE e \in ToSet(t)
    <2>1. PICK j \in 1 .. Len(t) : t[j] = e
      BY <1>7, IsElement
    <2>2. \A k \in 1 .. Len(t) : t[k] = e => k = j
      BY <2>1 DEF Distinct
    <2>3. Len(s) + j \in D /\ Len(s) + j \notin C
      BY <1>1, <1>2, <2>1
    <2>4. \A i \in D : i \in C \/ i = Len(s) + j
      <3> SUFFICES ASSUME NEW i \in D, i \notin C PROVE i = Len(s) + j
        OBVIOUS
      <3>1. i \in Len(s) + 1 .. Len(s) + Len(t) /\ t[i - Len(s)] = e
        BY <1>3
      <3>2. i - Len(s) = j
        BY <1>1, <2>2, <3>1
      <3> QED BY <1>1, <3>1, <3>2
    <2>5. D = C \cup {Len(s) + j}
      BY <1>4, <2>3, <2>4
    <2> HIDE DEF C, D
    <2>6. Cardinality(D) = Cardinality(C) + 1
      BY <1>5, <2>3, <2>5, FS_AddElement
    <2>7. Copies(u, e) = Copies(s, e) + 1
      BY <1>5, <2>6
    <2> QED BY <1>7, <2>7
  <1> QED BY <1>6, <1>7

-----------------------------------------------------------------------------
(* What one partition's sequences are to each other: h handed over, q the    *)
(* queue of batches, b the open batch, t the topic, n failed attempts.        *)

\* cut[i] is how much of h lies before the i-th batch: the queue and then the
\* open batch are the rest of h.
Layout(h, q, b, cut) ==
  /\ cut \in Seq(Nat) /\ Len(cut) = Len(q) + 1
  /\ \A i \in 1 .. Len(q) + 1 : cut[i] <= Len(h)
  /\ \A i \in 1 .. Len(q) : /\ cut[i + 1] = cut[i] + Len(q[i])
                            /\ \A j \in 1 .. Len(q[i]) : h[cut[i] + j] = q[i][j]
  /\ Len(h) = cut[Len(q) + 1] + Len(b)
  /\ \A j \in 1 .. Len(b) : h[cut[Len(q) + 1] + j] = b[j]

\* The topic has nothing of what comes after the first batch, and of the first
\* batch all or nothing.
Behind(h, q, t, cut) ==
  \A i \in 1 .. Len(h) :
    h[i] \in ToSet(t) => \/ i <= cut[1]
                         \/ q # <<>> /\ i <= cut[2] /\ ToSet(q[1]) \subseteq ToSet(t)

Ordered(h, t) ==
  \A i, j \in 1 .. Len(h) :
    h[i] \in ToSet(t) /\ h[j] \in ToSet(t) =>
      (FirstAt(t, h[i]) < FirstAt(t, h[j]) <=> i < j)

Tried(q, t, n)  == q # <<>> => \A e \in ToSet(q[1]) : Copies(t, e) <= n
Bounded(t)      == \A e \in ToSet(t) : Copies(t, e) <= MaxAttempts

\* A place inside a stretch of length k that starts after c and ends by l.
LEMMA PlaceInRange ==
  ASSUME NEW c \in Nat, NEW k \in Nat, NEW l \in Nat, c + k <= l, NEW j \in 1 .. k
  PROVE  c + j \in 1 .. l
  OBVIOUS

LEMMA LayoutGrows ==
  ASSUME NEW h \in Seq(Events), NEW q \in Seq(Seq(Events)), NEW b \in Seq(Events),
         NEW cut, Layout(h, q, b, cut), NEW e \in Events
  PROVE  Layout(Append(h, e), q, Append(b, e), cut)
  <1> DEFINE g == Append(h, e)
             c == Append(b, e)
             n == Len(q)
  <1>1. /\ g \in Seq(Events) /\ Len(g) = Len(h) + 1 /\ Len(h) \in Nat
        /\ \A i \in 1 .. Len(h) : g[i] = h[i]
        /\ g[Len(h) + 1] = e
    OBVIOUS
  <1>2. /\ c \in Seq(Events) /\ Len(c) = Len(b) + 1 /\ Len(b) \in Nat
        /\ \A i \in 1 .. Len(b) : c[i] = b[i]
        /\ c[Len(b) + 1] = e
    OBVIOUS
  <1>3. n \in Nat /\ \A i \in 1 .. n : q[i] \in Seq(Events) /\ Len(q[i]) \in Nat
    OBVIOUS
  <1>4. /\ cut \in Seq(Nat) /\ Len(cut) = n + 1
        /\ \A i \in 1 .. n + 1 : cut[i] <= Len(h)
        /\ \A i \in 1 .. n : /\ cut[i + 1] = cut[i] + Len(q[i])
                             /\ \A j \in 1 .. Len(q[i]) : h[cut[i] + j] = q[i][j]
    BY DEF Layout
  <1>5. /\ Len(h) = cut[n + 1] + Len(b)
           /\ \A j \in 1 .. Len(b) : h[cut[n + 1] + j] = b[j]
    BY DEF Layout
  <1> HIDE DEF g, c, n
  <1>6. n \in Nat /\ n + 1 \in 1 .. n + 1
    BY <1>3
  <1>7. \A i \in 1 .. n + 1 : cut[i] \in Nat /\ cut[i] <= Len(h)
    BY <1>4, <1>6
  <1>8. \A i \in 1 .. n + 1 : cut[i] <= Len(g)
    BY <1>1, <1>7
  <1>9. ASSUME NEW i \in 1 .. n, NEW j \in 1 .. Len(q[i])
        PROVE  g[cut[i] + j] = q[i][j]
    <2>1. /\ cut[i + 1] = cut[i] + Len(q[i]) /\ h[cut[i] + j] = q[i][j]
          /\ i + 1 \in 1 .. n + 1
      BY <1>4, <1>3
    <2>2. Len(q[i]) \in Nat
      BY <1>3
    <2>3. i \in 1 .. n + 1
      BY <1>6
    <2>4. cut[i] \in Nat
      BY <1>7, <2>3
    <2>5. cut[i] + Len(q[i]) <= Len(h)
      BY <1>7, <2>1
    <2>6. cut[i] + j \in 1 .. Len(h)
      BY <1>1, <2>2, <2>4, <2>5, PlaceInRange
    <2> QED BY <1>1, <2>1, <2>6
  <1>10. Len(g) = cut[n + 1] + Len(c)
    <2> DEFINE x == cut[n + 1]
    <2>1. Len(h) = x + Len(b) /\ x \in Nat
      BY <1>5, <1>6, <1>7
    <2> HIDE DEF x
    <2>2. Len(g) = x + Len(c)
      BY <1>1, <1>2, <2>1
    <2> QED BY <2>2 DEF x
  <1>11. ASSUME NEW j \in 1 .. Len(c) PROVE g[cut[n + 1] + j] = c[j]
    <2>1. Len(h) = cut[n + 1] + Len(b) /\ cut[n + 1] \in Nat
      BY <1>5, <1>6, <1>7
    <2>2. CASE j \in 1 .. Len(b)
      <3>1. h[cut[n + 1] + j] = b[j]
        BY <1>5, <2>2
      <3>2. Len(b) \in Nat /\ Len(h) \in Nat /\ cut[n + 1] + Len(b) <= Len(h)
        BY <1>1, <1>2, <2>1
      <3>3. cut[n + 1] + j \in 1 .. Len(h)
        BY <2>1, <2>2, <3>2, PlaceInRange
      <3> QED BY <1>1, <1>2, <2>2, <3>1, <3>3
    <2>3. CASE j = Len(b) + 1
      <3>1. cut[n + 1] + j = Len(h) + 1
        BY <1>2, <2>1, <2>3
      <3> QED BY <1>1, <1>2, <2>3, <3>1
    <2> QED BY <1>2, <2>2, <2>3
  <1> QED BY <1>4, <1>8, <1>9, <1>10, <1>11 DEF Layout, g, c, n

LEMMA LayoutCloses ==
  ASSUME NEW h \in Seq(Events), NEW q \in Seq(Seq(Events)), NEW b \in Seq(Events),
         NEW cut, Layout(h, q, b, cut)
  PROVE  Layout(h, Append(q, b), <<>>, Append(cut, Len(h)))
  <1> DEFINE n == Len(q)
             r == Append(q, b)
             d == Append(cut, Len(h))
  <1>1. /\ n \in Nat /\ Len(h) \in Nat /\ Len(b) \in Nat
        /\ r \in Seq(Seq(Events)) /\ Len(r) = n + 1
        /\ \A i \in 1 .. n : r[i] = q[i]
        /\ r[n + 1] = b
    OBVIOUS
  <1>2. cut \in Seq(Nat) /\ Len(cut) = n + 1
    BY DEF Layout
  <1>3. /\ d \in Seq(Nat) /\ Len(d) = n + 2
        /\ \A i \in 1 .. n + 1 : d[i] = cut[i]
        /\ d[n + 2] = Len(h)
    BY <1>1, <1>2
  <1>4. /\ \A i \in 1 .. n + 1 : cut[i] <= Len(h)
        /\ \A i \in 1 .. n : /\ cut[i + 1] = cut[i] + Len(q[i])
                             /\ \A j \in 1 .. Len(q[i]) : h[cut[i] + j] = q[i][j]
        /\ Len(h) = cut[n + 1] + Len(b)
        /\ \A j \in 1 .. Len(b) : h[cut[n + 1] + j] = b[j]
    BY DEF Layout
  <1> HIDE DEF n, r, d
  <1>5. \A i \in 1 .. n + 2 : i \in 1 .. n + 1 \/ i = n + 2
    BY <1>1
  <1>6. \A i \in 1 .. n + 2 : d[i] <= Len(h)
    <2> SUFFICES ASSUME NEW i \in 1 .. n + 2 PROVE d[i] <= Len(h)
      OBVIOUS
    <2>1. CASE i \in 1 .. n + 1
      BY <1>3, <1>4, <2>1
    <2>2. CASE i = n + 2
      BY <1>1, <1>3, <2>2
    <2> QED BY <1>5, <2>1, <2>2
  <1>7. ASSUME NEW i \in 1 .. n + 1
        PROVE  /\ d[i + 1] = d[i] + Len(r[i])
               /\ \A j \in 1 .. Len(r[i]) : h[d[i] + j] = r[i][j]
    <2>1. CASE i \in 1 .. n
      <3>1. i + 1 \in 1 .. n + 1 /\ i \in 1 .. n + 1
        BY <1>1, <2>1
      <3>2. r[i] = q[i] /\ d[i] = cut[i] /\ d[i + 1] = cut[i + 1]
        BY <1>1, <1>3, <2>1, <3>1
      <3> QED BY <1>4, <2>1, <3>2
    <2>2. CASE i = n + 1
      <3>1. r[i] = b /\ d[i] = cut[n + 1] /\ d[i + 1] = Len(h)
        BY <1>1, <1>3, <2>2
      <3>2. /\ Len(h) = cut[n + 1] + Len(b)
            /\ \A j \in 1 .. Len(b) : h[cut[n + 1] + j] = b[j]
        BY <1>4
      <3> QED BY <3>1, <3>2
    <2> QED BY <1>1, <2>1, <2>2
  <1>8. Len(<<>>) = 0 /\ \A j \in 1 .. Len(<<>>) : FALSE
    OBVIOUS
  <1>9. Len(h) = d[Len(r) + 1] + Len(<<>>)
    BY <1>1, <1>3, <1>8
  <1>10. \A j \in 1 .. Len(<<>>) : h[d[Len(r) + 1] + j] = <<>>[j]
    BY <1>8
  <1>11. Len(d) = Len(r) + 1 /\ Len(r) + 1 = n + 2 /\ Len(r) = n + 1
    BY <1>1, <1>3
  <1> QED BY <1>3, <1>6, <1>7, <1>9, <1>10, <1>11 DEF Layout, r, d

LEMMA LayoutAdvances ==
  ASSUME NEW h \in Seq(Events), NEW q \in Seq(Seq(Events)), q # <<>>,
         NEW b \in Seq(Events), NEW cut, Layout(h, q, b, cut)
  PROVE  Layout(h, Tail(q), b, Tail(cut)) /\ Tail(cut)[1] = cut[2]
  <1> DEFINE n == Len(q)
             r == Tail(q)
             d == Tail(cut)
  <1>1. /\ n \in Nat \ {0} /\ r \in Seq(Seq(Events)) /\ Len(r) = n - 1
        /\ \A i \in 1 .. n - 1 : r[i] = q[i + 1]
    OBVIOUS
  <1>2. cut \in Seq(Nat) /\ Len(cut) = n + 1
    BY DEF Layout
  <1>3. d \in Seq(Nat) /\ Len(d) = n /\ \A i \in 1 .. n : d[i] = cut[i + 1]
    BY <1>1, <1>2
  <1>4. /\ \A i \in 1 .. n + 1 : cut[i] <= Len(h)
        /\ \A i \in 1 .. n : /\ cut[i + 1] = cut[i] + Len(q[i])
                             /\ \A j \in 1 .. Len(q[i]) : h[cut[i] + j] = q[i][j]
        /\ Len(h) = cut[n + 1] + Len(b)
        /\ \A j \in 1 .. Len(b) : h[cut[n + 1] + j] = b[j]
    BY DEF Layout
  <1> HIDE DEF n, r, d
  <1>5. \A i \in 1 .. n : i + 1 \in 1 .. n + 1
    BY <1>1
  <1>6. \A i \in 1 .. n : d[i] <= Len(h)
    BY <1>3, <1>4, <1>5
  <1>7. ASSUME NEW i \in 1 .. n - 1
        PROVE  /\ d[i + 1] = d[i] + Len(r[i])
               /\ \A j \in 1 .. Len(r[i]) : h[d[i] + j] = r[i][j]
    <2>1. i \in 1 .. n /\ i + 1 \in 1 .. n
      BY <1>1
    <2>2. r[i] = q[i + 1] /\ d[i] = cut[i + 1] /\ d[i + 1] = cut[i + 1 + 1]
      BY <1>1, <1>3, <2>1
    <2> QED BY <1>4, <2>1, <2>2
  <1>8. d[n] = cut[n + 1] /\ d[1] = cut[2]
    BY <1>1, <1>3
  <1>9. Len(r) + 1 = n
    BY <1>1
  <1>10. Layout(h, r, b, d)
    <2>1. Len(r) = n - 1 /\ Len(d) = Len(r) + 1
      BY <1>1, <1>3, <1>9
    <2>2. \A i \in 1 .. Len(r) + 1 : d[i] <= Len(h)
      BY <1>6, <1>9
    <2>3. \A i \in 1 .. Len(r) : /\ d[i + 1] = d[i] + Len(r[i])
                                 /\ \A j \in 1 .. Len(r[i]) : h[d[i] + j] = r[i][j]
      BY <1>7, <2>1
    <2>4. /\ Len(h) = d[Len(r) + 1] + Len(b)
          /\ \A j \in 1 .. Len(b) : h[d[Len(r) + 1] + j] = b[j]
      BY <1>4, <1>8, <1>9
    <2> QED BY <1>3, <2>1, <2>2, <2>3, <2>4 DEF Layout
  <1> QED BY <1>8, <1>10 DEF r, d

\* Where the first batch lies in what was handed over.
LEMMA FirstBatch ==
  ASSUME NEW h \in Seq(Events), NEW q \in Seq(Seq(Events)), q # <<>>,
         NEW b \in Seq(Events), NEW cut, Layout(h, q, b, cut), Distinct(h)
  PROVE  /\ q[1] \in Seq(Events) /\ q[1] = Head(q)
         /\ cut[1] \in Nat /\ cut[2] \in Nat /\ cut[1] <= cut[2]
         /\ \A j \in 1 .. Len(q[1]) :
              cut[1] + j \in 1 .. Len(h) /\ h[cut[1] + j] = q[1][j]
         /\ \A i \in 1 .. Len(h) :
              h[i] \in ToSet(q[1]) => \E j \in 1 .. Len(q[1]) : i = cut[1] + j
         /\ \A i \in 1 .. Len(h) : h[i] \in ToSet(q[1]) => i > cut[1] /\ i <= cut[2]
         /\ Distinct(q[1])
  <1>1. Len(q) \in Nat /\ Len(q) >= 1 /\ q[1] \in Seq(Events) /\ q[1] = Head(q)
    OBVIOUS
  <1> DEFINE f == q[1]
             x == cut[1]
             y == cut[2]
  <1>2. 1 \in 1 .. Len(q) /\ 1 \in 1 .. Len(q) + 1 /\ 1 + 1 \in 1 .. Len(q) + 1
    BY <1>1
  <1>3. cut \in Seq(Nat) /\ Len(cut) = Len(q) + 1
    BY DEF Layout
  <1>4. x \in Nat /\ y \in Nat
    BY <1>1, <1>3
  <1>5. x <= Len(h) /\ y <= Len(h)
    BY <1>2 DEF Layout
  <1>6. y = x + Len(f) /\ \A j \in 1 .. Len(f) : h[x + j] = f[j]
    <2>1. /\ cut[1 + 1] = cut[1] + Len(q[1])
          /\ \A j \in 1 .. Len(q[1]) : h[cut[1] + j] = q[1][j]
      BY <1>2 DEF Layout
    <2>2. 1 + 1 = 2
      OBVIOUS
    <2> QED BY <2>1, <2>2
  <1>7. f \in Seq(Events) /\ Len(f) \in Nat /\ Len(h) \in Nat
    BY <1>1
  <1> HIDE DEF f, x, y
  <1>8. \A j \in 1 .. Len(f) : x + j \in 1 .. Len(h) /\ h[x + j] = f[j]
    BY <1>4, <1>5, <1>6, <1>7
  <1>9. ASSUME NEW i \in 1 .. Len(h), h[i] \in ToSet(f)
        PROVE  \E j \in 1 .. Len(f) : i = x + j
    <2>1. PICK j \in 1 .. Len(f) : f[j] = h[i]
      BY <1>7, <1>9, IsElement
    <2>2. i = x + j
      BY <1>8, <2>1 DEF Distinct
    <2> QED BY <2>2
  <1>10. \A i \in 1 .. Len(h) : h[i] \in ToSet(f) => i > x /\ i <= y
    BY <1>4, <1>6, <1>7, <1>9
  <1>11. Distinct(f)
    <2> SUFFICES ASSUME NEW i \in 1 .. Len(f), NEW j \in 1 .. Len(f), f[i] = f[j]
                 PROVE  i = j
      BY DEF Distinct
    <2>1. x + i = x + j
      BY <1>8 DEF Distinct
    <2> QED BY <1>4, <2>1
  <1>12. x <= y
    BY <1>4, <1>6, <1>7
  <1> QED BY <1>1, <1>4, <1>8, <1>9, <1>10, <1>11, <1>12 DEF f, x, y

-----------------------------------------------------------------------------
(* The invariant of one partition and what each operation does to it.        *)

Row(h, q, b, t, n) ==
  /\ Distinct(h) /\ ToSet(t) \subseteq ToSet(h)
  /\ \E cut : Layout(h, q, b, cut) /\ Behind(h, q, t, cut)
  /\ HasFirst(t) /\ Ordered(h, t)
  /\ n \in Nat /\ Tried(q, t, n) /\ Bounded(t)

LEMMA RowGrows ==
  ASSUME NEW h \in Seq(Events), NEW q \in Seq(Seq(Events)), NEW b \in Seq(Events),
         NEW t \in Seq(Events), NEW n, Row(h, q, b, t, n),
         NEW e \in Events, e \notin ToSet(h)
  PROVE  Row(Append(h, e), q, Append(b, e), t, n)
  <1> DEFINE g == Append(h, e)
  <1>1. /\ g \in Seq(Events) /\ Len(g) = Len(h) + 1 /\ Len(h) \in Nat
        /\ \A i \in 1 .. Len(h) : g[i] = h[i]
        /\ g[Len(h) + 1] = e
    OBVIOUS
  <1>2. ToSet(g) = ToSet(h) \cup {e}
    BY AppendElements
  <1>3. \A i \in 1 .. Len(h) : h[i] # e
    BY IsElement
  <1>4. e \notin ToSet(t)
    BY DEF Row
  <1>5. PICK cut : Layout(h, q, b, cut) /\ Behind(h, q, t, cut)
    BY DEF Row
  <1>6. Layout(g, q, Append(b, e), cut)
    BY <1>5, LayoutGrows
  <1> HIDE DEF g
  <1>7. \A i \in 1 .. Len(g) : g[i] \in ToSet(t) => i \in 1 .. Len(h) /\ g[i] = h[i]
    <2> SUFFICES ASSUME NEW i \in 1 .. Len(g), g[i] \in ToSet(t)
                 PROVE  i \in 1 .. Len(h) /\ g[i] = h[i]
      OBVIOUS
    <2>1. i # Len(h) + 1
      BY <1>1, <1>4
    <2> QED BY <1>1, <2>1
  <1>8. Distinct(g)
    <2> SUFFICES ASSUME NEW i \in 1 .. Len(g), NEW j \in 1 .. Len(g), g[i] = g[j]
                 PROVE  i = j
      BY DEF Distinct
    <2>1. CASE i = Len(h) + 1 \/ j = Len(h) + 1
      <3>1. ASSUME NEW k \in 1 .. Len(g), k # Len(h) + 1
            PROVE  k \in 1 .. Len(h) /\ g[k] # e
        <4>1. k \in 1 .. Len(h)
          BY <1>1, <3>1
        <4>2. g[k] = h[k] /\ h[k] # e
          BY <1>1, <1>3, <4>1
        <4> QED BY <4>1, <4>2
      <3>2. g[i] = e /\ g[j] = e
        BY <1>1, <2>1
      <3> QED BY <2>1, <3>1, <3>2
    <2>2. CASE i \in 1 .. Len(h) /\ j \in 1 .. Len(h)
      BY <1>1, <2>2 DEF Row, Distinct
    <2> QED BY <1>1, <2>1, <2>2
  <1>9. Behind(g, q, t, cut)
    BY <1>5, <1>7 DEF Behind
  <1>10. Ordered(g, t)
    BY <1>7 DEF Ordered, Row
  <1>11. ToSet(t) \subseteq ToSet(g)
    BY <1>2 DEF Row
  <1>12. Row(g, q, Append(b, e), t, n)
    BY <1>6, <1>8, <1>9, <1>10, <1>11 DEF Row
  <1> QED BY <1>12 DEF g

LEMMA RowCloses ==
  ASSUME NEW h \in Seq(Events), NEW q \in Seq(Seq(Events)), NEW b \in Seq(Events),
         NEW t \in Seq(Events), NEW n, Row(h, q, b, t, n)
  PROVE  Row(h, Append(q, b), <<>>, t, n)
  <1> DEFINE r == Append(q, b)
  <1>1. PICK cut : Layout(h, q, b, cut) /\ Behind(h, q, t, cut)
    BY DEF Row
  <1> DEFINE d == Append(cut, Len(h))
  <1>2. Layout(h, r, <<>>, d)
    BY <1>1, LayoutCloses
  <1>3. cut \in Seq(Nat) /\ Len(cut) = Len(q) + 1 /\ Len(q) \in Nat /\ Len(h) \in Nat
    BY <1>1 DEF Layout
  <1>4. d[1] = cut[1] /\ (q # <<>> => d[2] = cut[2])
    BY <1>3
  <1>5. /\ r \in Seq(Seq(Events)) /\ r # <<>> /\ <<>> \in Seq(Events)
        /\ q # <<>> => r[1] = q[1]
        /\ q = <<>> => r[1] = b
    <2>1. Len(q) \in Nat /\ (q # <<>> <=> Len(q) # 0)
      OBVIOUS
    <2>2. /\ r \in Seq(Seq(Events)) /\ Len(r) = Len(q) + 1 /\ r[Len(q) + 1] = b
          /\ \A i \in 1 .. Len(q) : r[i] = q[i]
      OBVIOUS
    <2>3. q = <<>> => Len(q) + 1 = 1
      BY <2>1
    <2>4. q # <<>> => 1 \in 1 .. Len(q)
      BY <2>1
    <2> HIDE DEF r
    <2>5. r # <<>> /\ <<>> \in Seq(Events)
      BY <2>1, <2>2
    <2> QED BY <2>2, <2>3, <2>4, <2>5
  <1> HIDE DEF r, d
  <1>6. Behind(h, r, t, d)
    BY <1>1, <1>4, <1>5 DEF Behind
  <1>7. Tried(r, t, n)
    <2>1. CASE q # <<>>
      BY <1>5, <2>1 DEF Row, Tried
    <2>2. CASE q = <<>>
      <3> SUFFICES ASSUME NEW e \in ToSet(r[1]) PROVE Copies(t, e) <= n
        BY DEF Tried
      <3>1. /\ r[1] \in Seq(Events) /\ d[1] \in Nat
            /\ \A j \in 1 .. Len(r[1]) :
                 d[1] + j \in 1 .. Len(h) /\ h[d[1] + j] = r[1][j]
        <4>1. Distinct(h) /\ r # <<>> /\ r \in Seq(Seq(Events)) /\ <<>> \in Seq(Events)
          BY <1>5 DEF Row
        <4>2. \A o \in Seq(Events) :
                Layout(h, r, o, d) =>
                  /\ r[1] \in Seq(Events) /\ d[1] \in Nat
                  /\ \A j \in 1 .. Len(r[1]) :
                       d[1] + j \in 1 .. Len(h) /\ h[d[1] + j] = r[1][j]
          BY <4>1, FirstBatch
        <4> QED BY <1>2, <4>1, <4>2
      <3>2. PICK j \in 1 .. Len(r[1]) : r[1][j] = e
        BY <3>1, IsElement
      <3>3. d[1] + j \in 1 .. Len(h) /\ h[d[1] + j] = e /\ ~(d[1] + j <= d[1])
        <4>1. Len(r[1]) \in Nat
          BY <3>1
        <4>2. j \in Nat \ {0}
          BY <3>2, <4>1
        <4>3. d[1] \in Nat
          BY <3>1
        <4>4. ~(d[1] + j <= d[1])
          BY <4>2, <4>3
        <4>5. d[1] + j \in 1 .. Len(h) /\ h[d[1] + j] = r[1][j]
          BY <3>1, <3>2
        <4> QED BY <3>2, <4>4, <4>5
      <3>4. e \notin ToSet(t)
        BY <1>1, <1>4, <2>2, <3>3 DEF Behind
      <3>5. Copies(t, e) = 0
        BY <3>4, CopiesCounted
      <3> QED BY <3>5 DEF Row
    <2> QED BY <2>1, <2>2
  <1>8. Row(h, r, <<>>, t, n)
    BY <1>2, <1>6, <1>7 DEF Row
  <1> QED BY <1>8 DEF r

LEMMA RowAdvances ==
  ASSUME NEW h \in Seq(Events), NEW q \in Seq(Seq(Events)), q # <<>>,
         NEW b \in Seq(Events), NEW t \in Seq(Events), NEW n, Row(h, q, b, t, n)
  PROVE  Row(h, Tail(q), b, t, 0)
  <1> DEFINE r == Tail(q)
  <1>1. PICK cut : Layout(h, q, b, cut) /\ Behind(h, q, t, cut)
    BY DEF Row
  <1> DEFINE d == Tail(cut)
  <1>2. Layout(h, r, b, d) /\ d[1] = cut[2]
    BY <1>1, LayoutAdvances
  <1>3. r \in Seq(Seq(Events))
    OBVIOUS
  <1>4. cut[1] \in Nat /\ cut[2] \in Nat /\ cut[1] <= cut[2]
    BY <1>1, FirstBatch DEF Row
  <1> HIDE DEF r, d
  <1>5. \A i \in 1 .. Len(h) : h[i] \in ToSet(t) => i <= d[1]
    <2> SUFFICES ASSUME NEW i \in 1 .. Len(h), h[i] \in ToSet(t) PROVE i <= cut[2]
      BY <1>2
    <2>1. i <= cut[1] \/ i <= cut[2]
      BY <1>1 DEF Behind
    <2> QED BY <1>4, <2>1
  <1>6. Behind(h, r, t, d)
    BY <1>5 DEF Behind
  <1>7. Tried(r, t, 0)
    <2> SUFFICES ASSUME r # <<>>, NEW e \in ToSet(r[1]) PROVE Copies(t, e) <= 0
      BY DEF Tried
    <2> Distinct(h) /\ Layout(h, r, b, d)
      BY <1>2 DEF Row
    <2>1. /\ r[1] \in Seq(Events) /\ d[1] \in Nat
          /\ \A j \in 1 .. Len(r[1]) :
               d[1] + j \in 1 .. Len(h) /\ h[d[1] + j] = r[1][j]
      BY <1>3, FirstBatch
    <2>2. PICK j \in 1 .. Len(r[1]) : r[1][j] = e
      BY <2>1, IsElement
    <2>3. d[1] + j \in 1 .. Len(h) /\ h[d[1] + j] = e
      BY <2>1, <2>2
    <2>4. ~(d[1] + j <= d[1])
      BY <2>1, <2>2
    <2>5. e \notin ToSet(t)
      BY <1>5, <2>3, <2>4
    <2>6. Copies(t, e) = 0
      BY <2>5, CopiesCounted
    <2> QED BY <2>6
  <1>8. Row(h, r, b, t, 0)
    BY <1>2, <1>6, <1>7 DEF Row
  <1> QED BY <1>8 DEF r

LEMMA RowRetries ==
  ASSUME NEW h \in Seq(Events), NEW q \in Seq(Seq(Events)), NEW b \in Seq(Events),
         NEW t \in Seq(Events), NEW n, Row(h, q, b, t, n)
  PROVE  Row(h, q, b, t, n + 1)
  <1>1. n \in Nat /\ n + 1 \in Nat
    BY DEF Row
  <1>2. Tried(q, t, n + 1)
    <2> SUFFICES ASSUME q # <<>>, NEW e \in ToSet(q[1]) PROVE Copies(t, e) <= n + 1
      BY DEF Tried
    <2>1. Copies(t, e) <= n /\ Copies(t, e) \in Nat
      BY CopiesCounted DEF Row, Tried
    <2> QED BY <1>1, <2>1
  <1> QED BY <1>1, <1>2 DEF Row

\* Appending the first batch once more keeps the order of the first copies:
\* either the topic has all of it already, or all of it is new and comes after
\* what the topic has.
LEMMA RowAppends ==
  ASSUME NEW h \in Seq(Events), NEW q \in Seq(Seq(Events)), q # <<>>,
         NEW b \in Seq(Events), NEW t \in Seq(Events), NEW n, Row(h, q, b, t, n),
         n < MaxAttempts
  PROVE  Row(h, q, b, t \o q[1], n + 1)
  <1> DEFINE f == q[1]
             u == t \o f
  <1>1. PICK cut : Layout(h, q, b, cut) /\ Behind(h, q, t, cut)
    BY DEF Row
  <1>2. /\ f \in Seq(Events) /\ Distinct(f)
        /\ cut[1] \in Nat /\ cut[2] \in Nat /\ cut[1] <= cut[2]
        /\ \A j \in 1 .. Len(f) : cut[1] + j \in 1 .. Len(h) /\ h[cut[1] + j] = f[j]
        /\ \A i \in 1 .. Len(h) :
             h[i] \in ToSet(f) => \E j \in 1 .. Len(f) : i = cut[1] + j
        /\ \A i \in 1 .. Len(h) : h[i] \in ToSet(f) => i > cut[1] /\ i <= cut[2]
    BY <1>1, FirstBatch DEF Row
  <1> HIDE DEF f
  <1>3. u \in Seq(Events) /\ ToSet(u) = ToSet(t) \cup ToSet(f)
    BY <1>2, ConcatElements
  <1>4. ToSet(u) \subseteq ToSet(h)
    <2> SUFFICES ASSUME NEW e \in ToSet(f) PROVE e \in ToSet(h)
      BY <1>3 DEF Row
    <2>1. PICK j \in 1 .. Len(f) : f[j] = e
      BY <1>2, IsElement
    <2>2. cut[1] + j \in 1 .. Len(h) /\ h[cut[1] + j] = e
      BY <1>2, <2>1
    <2> QED BY <2>2, IsElement
  <1>5. \A e \in ToSet(t) : /\ FirstAt(t, e) \in 1 .. Len(t)
                            /\ IsFirst(u, e, FirstAt(t, e))
                            /\ FirstAt(u, e) = FirstAt(t, e)
    BY <1>2, FirstInPrefix DEF Row
  <1>6. ASSUME NEW j \in 1 .. Len(f), f[j] \notin ToSet(t)
        PROVE  /\ Len(t) + j \in 1 .. Len(u)
               /\ IsFirst(u, f[j], Len(t) + j)
               /\ FirstAt(u, f[j]) = Len(t) + j
    <2> f \in Seq(Events) /\ Distinct(f)
      BY <1>2
    <2> QED BY <1>6, FirstInRest
  <1>7. Len(u) = Len(t) + Len(f) /\ Len(t) \in Nat /\ Len(f) \in Nat
    BY <1>2
  <1>8. \A e : Copies(u, e) = Copies(t, e) + (IF e \in ToSet(f) THEN 1 ELSE 0)
    BY <1>2, CopiesConcat
  <1> HIDE DEF u
  <1>9. Behind(h, q, u, cut)
    <2> SUFFICES ASSUME NEW i \in 1 .. Len(h), h[i] \in ToSet(u)
                 PROVE  i <= cut[1] \/ i <= cut[2]
      BY <1>3 DEF Behind, f
    <2> QED BY <1>1, <1>2, <1>3 DEF Behind
  <1>10. HasFirst(u)
    <2> SUFFICES ASSUME NEW e \in ToSet(u) PROVE \E i \in 1 .. Len(u) : IsFirst(u, e, i)
      BY DEF HasFirst
    <2>1. CASE e \in ToSet(t)
      <3>1. FirstAt(t, e) \in 1 .. Len(u) /\ IsFirst(u, e, FirstAt(t, e))
        BY <1>5, <1>7, <2>1
      <3> QED BY <3>1
    <2>2. CASE e \notin ToSet(t)
      <3>1. PICK j \in 1 .. Len(f) : f[j] = e
        BY <1>2, <1>3, <2>2, IsElement
      <3> QED BY <1>6, <2>2, <3>1
    <2> QED BY <2>1, <2>2
  <1>11. Ordered(h, u)
    <2>1. CASE ToSet(f) \subseteq ToSet(t)
      BY <1>3, <1>5, <2>1 DEF Ordered, Row
    <2>2. CASE ~(ToSet(f) \subseteq ToSet(t))
      <3>1. \A i \in 1 .. Len(h) : h[i] \in ToSet(t) => i <= cut[1]
        BY <1>1, <2>2 DEF Behind, f
      <3>2. \A i \in 1 .. Len(h) :
              h[i] \in ToSet(t) => /\ i <= cut[1]
                                   /\ FirstAt(u, h[i]) = FirstAt(t, h[i])
                                   /\ FirstAt(t, h[i]) \in 1 .. Len(t)
        BY <1>5, <3>1
      <3>3. ASSUME NEW i \in 1 .. Len(h), h[i] \in ToSet(u), h[i] \notin ToSet(t)
            PROVE  /\ i > cut[1]
                   /\ FirstAt(u, h[i]) = Len(t) + (i - cut[1])
        <4>1. h[i] \in ToSet(f)
          BY <1>3, <3>3
        <4>2. PICK j \in 1 .. Len(f) : i = cut[1] + j
          BY <1>2, <4>1
        <4>3. h[i] = f[j] /\ i > cut[1]
          BY <1>2, <4>1, <4>2
        <4> HIDE DEF f
        <4>5. cut[1] \in Nat /\ i - cut[1] = j
          BY <1>2, <1>7, <4>2
        <4>4. FirstAt(u, h[i]) = Len(t) + j
          BY <1>6, <3>3, <4>3
        <4> QED BY <4>3, <4>4, <4>5
      <3> SUFFICES ASSUME NEW i \in 1 .. Len(h), NEW j \in 1 .. Len(h),
                          h[i] \in ToSet(u), h[j] \in ToSet(u)
                   PROVE  FirstAt(u, h[i]) < FirstAt(u, h[j]) <=> i < j
        BY DEF Ordered
      <3>4. CASE h[i] \in ToSet(t) /\ h[j] \in ToSet(t)
        BY <3>2, <3>4 DEF Ordered, Row
      <3> DEFINE x == cut[1]
                 l == Len(t)
                 k == FirstAt(u, h[i])
                 m == FirstAt(u, h[j])
      <3>5. x \in Nat /\ l \in Nat
        BY <1>2, <1>7
      <3>6. CASE h[i] \in ToSet(t) /\ h[j] \notin ToSet(t)
        <4>1. i <= x /\ k \in 1 .. l
          BY <3>2, <3>6
        <4>2. j > x /\ m = l + (j - x)
          BY <3>3, <3>6
        <4> HIDE DEF x, l, k, m
        <4>3. k < m <=> i < j
          BY <3>5, <4>1, <4>2
        <4> QED BY <4>3 DEF k, m
      <3>7. CASE h[i] \notin ToSet(t) /\ h[j] \in ToSet(t)
        <4>1. j <= x /\ m \in 1 .. l
          BY <3>2, <3>7
        <4>2. i > x /\ k = l + (i - x)
          BY <3>3, <3>7
        <4> HIDE DEF x, l, k, m
        <4>3. k < m <=> i < j
          BY <3>5, <4>1, <4>2
        <4> QED BY <4>3 DEF k, m
      <3>8. CASE h[i] \notin ToSet(t) /\ h[j] \notin ToSet(t)
        <4>1. k = l + (i - x) /\ m = l + (j - x)
          BY <3>3, <3>8
        <4> HIDE DEF x, l, k, m
        <4>2. k < m <=> i < j
          BY <3>5, <4>1
        <4> QED BY <4>2 DEF k, m
      <3> QED BY <3>4, <3>6, <3>7, <3>8
    <2> QED BY <2>1, <2>2
  <1>12. n \in Nat /\ n + 1 \in Nat /\ n + 1 <= MaxAttempts /\ MaxAttempts \in Nat
    BY WriterAssumption DEF Row
  <1>13. \A e : Copies(t, e) \in Nat
    BY CopiesCounted
  <1>14. \A e \in ToSet(f) : Copies(u, e) <= n + 1
    <2> SUFFICES ASSUME NEW e \in ToSet(f) PROVE Copies(u, e) <= n + 1
      OBVIOUS
    <2>1. Copies(t, e) <= n
      BY DEF Row, Tried, f
    <2>2. Copies(u, e) = Copies(t, e) + 1
      BY <1>8
    <2> QED BY <1>12, <1>13, <2>1, <2>2
  <1>15. Tried(q, u, n + 1)
    BY <1>14 DEF Tried, f
  <1>16. Bounded(u)
    <2> SUFFICES ASSUME NEW e \in ToSet(u) PROVE Copies(u, e) <= MaxAttempts
      BY DEF Bounded
    <2>1. CASE e \in ToSet(f)
      <3>1. Copies(u, e) <= n + 1 /\ Copies(u, e) \in Nat
        BY <1>3, <1>14, <2>1, CopiesCounted
      <3> QED BY <1>12, <3>1
    <2>2. CASE e \notin ToSet(f)
      <3>1. Copies(u, e) = Copies(t, e) /\ e \in ToSet(t)
        BY <1>3, <1>8, <1>13, <2>2
      <3> QED BY <3>1 DEF Row, Bounded
    <2> QED BY <2>1, <2>2
  <1>17. Row(h, q, b, u, n + 1)
    BY <1>1, <1>4, <1>9, <1>10, <1>11, <1>12, <1>15, <1>16 DEF Row
  <1> QED BY <1>17 DEF u, f

\* What the row of a partition says of its topic.
LEMMA RowOrders ==
  ASSUME NEW h \in Seq(Events), NEW q, NEW b, NEW t \in Seq(Events), NEW n,
         Row(h, q, b, t, n), NEW e \in ToSet(t), NEW f \in ToSet(t)
  PROVE  /\ FirstAt(t, e) < FirstAt(t, f) <=> FirstAt(h, e) < FirstAt(h, f)
         /\ Copies(t, e) \in 1 .. MaxAttempts
  <1>1. e \in ToSet(h) /\ f \in ToSet(h)
    BY DEF Row
  <1>2. PICK i \in 1 .. Len(h) : h[i] = e
    BY <1>1, IsElement
  <1>3. PICK j \in 1 .. Len(h) : h[j] = f
    BY <1>1, IsElement
  <1>4. FirstAt(h, e) = i /\ FirstAt(h, f) = j
    BY <1>2, <1>3, FirstOfDistinct DEF Row
  <1>5. FirstAt(t, e) < FirstAt(t, f) <=> i < j
    BY <1>2, <1>3 DEF Row, Ordered
  <1>6. Copies(t, e) \in Nat /\ Copies(t, e) # 0 /\ Copies(t, e) <= MaxAttempts
    BY CopiesCounted DEF Row, Bounded
  <1> QED BY <1>4, <1>5, <1>6, WriterAssumption

-----------------------------------------------------------------------------
(* The rows of all partitions.                                              *)

Sized(q, b) == /\ Len(b) < BatchSize
               /\ \A x \in ToSet(q) : x # <<>> /\ Len(x) <= BatchSize

RowOf(p) == /\ Row(handed[p], queue[p], batch[p], topic[p], tries[p])
            /\ Sized(queue[p], batch[p])
            /\ \A e \in ToSet(handed[p]) : call[e] # "new"

Rows == /\ handed \in [Partitions -> Seq(Events)]
        /\ tries \in [Partitions -> 0 .. MaxAttempts - 1]
        /\ \A p \in Partitions : RowOf(p)

LEMMA SizedCloses ==
  ASSUME NEW q \in Seq(Seq(Events)), NEW b \in Seq(Events), Sized(q, b),
         NEW c \in Seq(Events), c # <<>>, Len(c) <= BatchSize
  PROVE  Sized(Append(q, c), <<>>)
  <1>1. ToSet(Append(q, c)) = ToSet(q) \cup {c}
    BY AppendElements
  <1>2. Len(<<>>) = 0
    OBVIOUS
  <1>3. Len(<<>>) < BatchSize
    BY <1>2, WriterAssumption
  <1> QED BY <1>1, <1>3 DEF Sized

LEMMA RowsInit == ASSUME WriterInit PROVE Rows
  <1>1. <<>> \in Seq(Events) /\ <<>> \in Seq(Seq(Events)) /\ Len(<<>>) = 0
    OBVIOUS
  <1>2. /\ handed = [p \in Partitions |-> <<>>] /\ queue = [p \in Partitions |-> <<>>]
        /\ batch = [p \in Partitions |-> <<>>] /\ topic = [p \in Partitions |-> <<>>]
        /\ tries = [p \in Partitions |-> 0]
    BY DEF WriterInit
  <1>3. \A x : x \notin ToSet(<<>>)
    BY <1>1, NoElements
  <1>4. handed \in [Partitions -> Seq(Events)] /\ tries \in [Partitions -> 0 .. MaxAttempts - 1]
    BY <1>1, <1>2, WriterAssumption
  <1>5. Layout(<<>>, <<>>, <<>>, <<0>>)
    BY <1>1 DEF Layout
  <1>6. Behind(<<>>, <<>>, <<>>, <<0>>) /\ Ordered(<<>>, <<>>) /\ Distinct(<<>>)
    BY <1>1 DEF Behind, Ordered, Distinct
  <1>7. HasFirst(<<>>) /\ Tried(<<>>, <<>>, 0) /\ Bounded(<<>>)
    BY <1>3 DEF HasFirst, Tried, Bounded
  <1>8. Row(<<>>, <<>>, <<>>, <<>>, 0)
    BY <1>5, <1>6, <1>7 DEF Row
  <1>9. Sized(<<>>, <<>>)
    BY <1>1, <1>3, WriterAssumption DEF Sized
  <1>10. ASSUME NEW p \in Partitions PROVE RowOf(p)
    <2>1. /\ handed[p] = <<>> /\ queue[p] = <<>> /\ batch[p] = <<>> /\ topic[p] = <<>>
          /\ tries[p] = 0
      BY <1>2
    <2> QED BY <1>3, <1>8, <1>9, <2>1 DEF RowOf
  <1> QED BY <1>4, <1>10 DEF Rows

LEMMA ElementsAre == \A S : \A s \in Seq(S) : ToSet(s) \subseteq S
  BY DEF ToSet

\* Steps that leave the sequences alone.
LEMMA RowsFrame ==
  ASSUME Rows, UNCHANGED <<batch, queue, tries, topic, handed>>,
         \A e \in Events : call[e] # "new" => call'[e] # "new"
  PROVE  Rows'
  <1>1. ASSUME NEW p \in Partitions PROVE RowOf(p)'
    <2>1. RowOf(p) /\ ToSet(handed[p]) \subseteq Events
      BY ElementsAre DEF Rows
    <2> QED BY <2>1 DEF RowOf
  <1> QED BY <1>1 DEF Rows

\* Steps of one partition.
LEMMA RowsOfOne ==
  ASSUME Rows, NEW p \in Partitions, RowOf(p)',
         handed' \in [Partitions -> Seq(Events)],
         tries' \in [Partitions -> 0 .. MaxAttempts - 1],
         \A e \in Events : call[e] # "new" => call'[e] # "new",
         \A r \in Partitions \ {p} :
           /\ handed'[r] = handed[r] /\ queue'[r] = queue[r] /\ batch'[r] = batch[r]
           /\ topic'[r] = topic[r] /\ tries'[r] = tries[r]
  PROVE  Rows'
  <1>1. ASSUME NEW r \in Partitions \ {p} PROVE RowOf(r)'
    <2>1. RowOf(r) /\ handed[r] \in Seq(Events)
      BY DEF Rows
    <2>2. ToSet(handed[r]) \subseteq Events
      BY <2>1, ElementsAre
    <2>3. \A e \in ToSet(handed[r]) : call'[e] # "new"
      BY <2>1, <2>2 DEF RowOf
    <2>4. /\ handed'[r] = handed[r] /\ queue'[r] = queue[r] /\ batch'[r] = batch[r]
          /\ topic'[r] = topic[r] /\ tries'[r] = tries[r]
      OBVIOUS
    <2>5. /\ Row(handed[r], queue[r], batch[r], topic[r], tries[r])
          /\ Sized(queue[r], batch[r])
      BY <2>1 DEF RowOf
    <2>6. /\ Row(handed'[r], queue'[r], batch'[r], topic'[r], tries'[r])
          /\ Sized(queue'[r], batch'[r])
      BY ONLY <2>4, <2>5
    <2> QED BY <2>3, <2>4, <2>6 DEF RowOf
  <1> QED BY <1>1 DEF Rows

LEMMA PublishRows ==
  ASSUME WInd, Rows, NEW e \in Events, Publish(e)
  PROVE  Rows'
  <1>1. PICK p \in Partitions : Fill(p, e)
    BY DEF Publish
  <1> DEFINE h == handed[p]
             q == queue[p]
             b == batch[p]
             c == Append(b, e)
  <1>2. /\ h \in Seq(Events) /\ q \in Seq(Seq(Events)) /\ b \in Seq(Events)
        /\ topic[p] \in Seq(Events)
    BY DEF WInd, Shape, Rows
  <1>3. Row(h, q, b, topic[p], tries[p]) /\ Sized(q, b) /\ e \notin ToSet(h)
    BY DEF Rows, RowOf, Publish
  <1>4. /\ handed' = [handed EXCEPT ![p] = Append(h, e)]
        /\ UNCHANGED <<tries, topic>>
        /\ call' = [call EXCEPT ![e] = Called] /\ Called # "new"
    BY <1>1 DEF Fill, Publish, Called
  <1>5. /\ c \in Seq(Events) /\ c # <<>> /\ Len(c) = Len(b) + 1
        /\ Append(h, e) \in Seq(Events) /\ Append(q, c) \in Seq(Seq(Events))
    <2>1. c \in Seq(Events) /\ Len(c) = Len(b) + 1 /\ Len(b) \in Nat
      BY <1>2
    <2>2. Append(h, e) \in Seq(Events)
      BY <1>2
    <2> HIDE DEF c
    <2>3. c # <<>>
      BY <2>1
    <2>4. Append(q, c) \in Seq(Seq(Events))
      BY <1>2, <2>1
    <2> QED BY <2>1, <2>2, <2>3, <2>4
  <1>6. Row(Append(h, e), q, c, topic[p], tries[p])
    BY <1>2, <1>3, RowGrows
  <1>7. Row(Append(h, e), Append(q, c), <<>>, topic[p], tries[p])
    BY <1>2, <1>5, <1>6, RowCloses
  <1>8. /\ Full(c) => Sized(Append(q, c), <<>>)
        /\ ~Full(c) => Sized(q, c)
    <2>1. Len(b) < BatchSize /\ Len(b) \in Nat /\ BatchSize \in Nat
      BY <1>2, <1>3, WriterAssumption DEF Sized
    <2>2. Len(c) <= BatchSize
      BY <1>5, <2>1
    <2>3. Sized(Append(q, c), <<>>)
      BY <1>2, <1>3, <1>5, <2>2, SizedCloses
    <2>4. ~Full(c) => Len(c) < BatchSize
      BY <1>5, <2>1 DEF Full
    <2> QED BY <1>3, <2>3, <2>4 DEF Sized
  <1>9. ToSet(Append(h, e)) = ToSet(h) \cup {e}
    BY <1>2, AppendElements
  <1> HIDE DEF c
  <1>10. \/ Full(c) /\ queue' = [queue EXCEPT ![p] = Append(q, c)]
                    /\ batch' = [batch EXCEPT ![p] = <<>>]
         \/ ~Full(c) /\ UNCHANGED queue /\ batch' = [batch EXCEPT ![p] = c]
    BY <1>1 DEF Fill, Enqueue, c
  <1>11. /\ \/ Full(c) /\ queue'[p] = Append(q, c) /\ batch'[p] = <<>>
            \/ ~Full(c) /\ queue'[p] = q /\ batch'[p] = c
         /\ \A r \in Partitions \ {p} : queue'[r] = queue[r] /\ batch'[r] = batch[r]
    BY <1>10 DEF WInd, Shape
  <1>12. /\ handed' \in [Partitions -> Seq(Events)]
         /\ handed'[p] = Append(h, e)
         /\ \A r \in Partitions \ {p} : handed'[r] = handed[r]
    BY <1>4, <1>5 DEF Rows
  <1>13. \A f \in Events : call'[f] = IF f = e THEN Called ELSE call[f]
    BY <1>4 DEF WInd, Shape
  <1>14. \A f \in ToSet(handed'[p]) : call'[f] # "new"
    <2>1. \A f \in ToSet(h) : call[f] # "new"
      BY DEF Rows, RowOf
    <2>2. \A f \in ToSet(h) : f \in Events
      BY <1>2, IsElement
    <2> QED BY <1>4, <1>9, <1>12, <1>13, <2>1, <2>2
  <1>15. RowOf(p)'
    BY <1>4, <1>6, <1>7, <1>8, <1>11, <1>12, <1>14 DEF RowOf
  <1> QED BY <1>4, <1>11, <1>12, <1>13, <1>15, RowsOfOne DEF Rows

LEMMA BatchTimerRows ==
  ASSUME WInd, Rows, NEW p \in Partitions, BatchTimer(p)
  PROVE  Rows'
  <1>1. /\ queue' = [queue EXCEPT ![p] = Append(queue[p], batch[p])]
        /\ batch' = [batch EXCEPT ![p] = <<>>] /\ batch[p] # <<>>
        /\ UNCHANGED <<call, tries, topic, handed>>
    BY DEF BatchTimer, Enqueue, callVars
  <1>2. /\ handed[p] \in Seq(Events) /\ queue[p] \in Seq(Seq(Events))
        /\ batch[p] \in Seq(Events) /\ topic[p] \in Seq(Events) /\ RowOf(p)
    BY DEF WInd, Shape, Rows
  <1>3. Row(handed[p], Append(queue[p], batch[p]), <<>>, topic[p], tries[p])
    BY <1>2, RowCloses DEF RowOf
  <1>4. Sized(Append(queue[p], batch[p]), <<>>)
    <2>1. Len(batch[p]) <= BatchSize
      BY <1>2, WriterAssumption DEF RowOf, Sized
    <2> QED BY <1>1, <1>2, <2>1, SizedCloses DEF RowOf
  <1>5. /\ queue'[p] = Append(queue[p], batch[p]) /\ batch'[p] = <<>>
        /\ \A r \in Partitions \ {p} : queue'[r] = queue[r] /\ batch'[r] = batch[r]
    BY <1>1 DEF WInd, Shape
  <1>6. RowOf(p)'
    BY <1>1, <1>2, <1>3, <1>4, <1>5 DEF RowOf
  <1> QED BY <1>1, <1>5, <1>6, RowsOfOne DEF Rows

LEMMA SizedAdvances ==
  ASSUME NEW q \in Seq(Seq(Events)), q # <<>>, NEW b, Sized(q, b)
  PROVE  Sized(Tail(q), b)
  <1>1. ToSet(Tail(q)) \subseteq ToSet(q)
    BY HeadElements
  <1> QED BY <1>1 DEF Sized

\* An attempt at the first batch of p, whatever comes of it.
LEMMA AttemptRows ==
  ASSUME WInd, Rows, NEW p \in Partitions, Acknowledged(p) \/ AttemptFails(p)
  PROVE  Rows'
  <1> DEFINE h == handed[p]
             q == queue[p]
             b == batch[p]
             t == topic[p]
             n == tries[p]
  <1>1. /\ UNCHANGED <<call, batch, handed>> /\ q # <<>>
        /\ AppendBatch(p) \/ UNCHANGED topic
        /\ \/ Finish(p, "acked") \/ Finish(p, "failed")
           \/ /\ n + 1 < MaxAttempts /\ tries' = [tries EXCEPT ![p] = n + 1]
              /\ UNCHANGED queue
    BY DEF Acknowledged, AttemptFails, Attempt
  <1>2. /\ h \in Seq(Events) /\ q \in Seq(Seq(Events)) /\ b \in Seq(Events)
        /\ t \in Seq(Events) /\ n \in 0 .. MaxAttempts - 1
        /\ Row(h, q, b, t, n) /\ Sized(q, b)
    BY DEF WInd, Shape, Rows, RowOf
  <1>3. n < MaxAttempts /\ n \in Nat /\ MaxAttempts \in Nat \ {0}
    BY <1>2, WriterAssumption
  <1>4. q[1] = Head(q) /\ q[1] \in Seq(Events)
    BY <1>1, <1>2
  <1>5. /\ topic' \in [Partitions -> Seq(Events)]
        /\ topic'[p] = t \o q[1] \/ topic'[p] = t
        /\ \A r \in Partitions \ {p} : topic'[r] = topic[r]
    <2>1. CASE UNCHANGED topic
      BY <2>1 DEF WInd, Shape
    <2>2. CASE AppendBatch(p)
      <3> DEFINE u == t \o q[1]
      <3>1. topic' = [topic EXCEPT ![p] = u]
        BY <1>4, <2>2 DEF AppendBatch
      <3>2. u \in Seq(Events)
        BY <1>2, <1>4
      <3> HIDE DEF u
      <3>3. topic' \in [Partitions -> Seq(Events)] /\ topic'[p] = u
        BY <3>1, <3>2 DEF WInd, Shape
      <3>4. \A r \in Partitions \ {p} : topic'[r] = topic[r]
        BY <3>1 DEF WInd, Shape
      <3> QED BY <3>3, <3>4 DEF u
    <2> QED BY <1>1, <2>1, <2>2
  <1>6. Row(h, q, b, topic'[p], n + 1)
    <2>1. Row(h, q, b, t \o q[1], n + 1)
      BY <1>1, <1>2, <1>3, RowAppends
    <2>2. Row(h, q, b, t, n + 1)
      BY <1>2, RowRetries
    <2> QED BY <1>5, <2>1, <2>2
  <1>7. Row(h, Tail(q), b, topic'[p], 0) /\ Sized(Tail(q), b)
    <2>1. topic'[p] \in Seq(Events)
      BY <1>5
    <2> QED BY <1>1, <1>2, <1>6, <2>1, RowAdvances, SizedAdvances
  <1>8. \A e \in ToSet(handed'[p]) : call'[e] # "new"
    BY <1>1 DEF Rows, RowOf
  <1>9. CASE Finish(p, "acked") \/ Finish(p, "failed")
    <2>1. /\ queue' = [queue EXCEPT ![p] = Tail(q)] /\ tries' = [tries EXCEPT ![p] = 0]
      BY <1>9 DEF Finish
    <2>2. queue'[p] = Tail(q) /\ \A r \in Partitions \ {p} : queue'[r] = queue[r]
      BY <2>1 DEF WInd, Shape
    <2>3. /\ tries' \in [Partitions -> 0 .. MaxAttempts - 1] /\ tries'[p] = 0
          /\ \A r \in Partitions \ {p} : tries'[r] = tries[r]
      BY <1>3, <2>1 DEF Rows
    <2>4. RowOf(p)'
      BY <1>1, <1>7, <1>8, <2>2, <2>3 DEF RowOf
    <2> QED BY <1>1, <1>5, <2>2, <2>3, <2>4, RowsOfOne DEF Rows
  <1>10. CASE /\ n + 1 < MaxAttempts /\ tries' = [tries EXCEPT ![p] = n + 1]
              /\ UNCHANGED queue
    <2>1. n + 1 \in 0 .. MaxAttempts - 1
      BY <1>3, <1>10
    <2>2. /\ tries' \in [Partitions -> 0 .. MaxAttempts - 1] /\ tries'[p] = n + 1
          /\ \A r \in Partitions \ {p} : tries'[r] = tries[r]
      BY <1>10, <2>1 DEF Rows
    <2>3. RowOf(p)'
      BY <1>1, <1>2, <1>6, <1>8, <1>10, <2>2 DEF RowOf
    <2> QED BY <1>1, <1>5, <1>10, <2>2, <2>3, RowsOfOne DEF Rows
  <1> QED BY <1>1, <1>9, <1>10

LEMMA CloseRows ==
  ASSUME WInd, Rows, Close
  PROVE  Rows'
  <1>1. /\ queue' = [p \in Partitions |-> Flushed(p)]
        /\ batch' = [p \in Partitions |-> <<>>]
        /\ UNCHANGED <<call, tries, topic, handed>>
    BY DEF Close, callVars
  <1>2. ASSUME NEW p \in Partitions PROVE RowOf(p)'
    <2>1. /\ handed[p] \in Seq(Events) /\ queue[p] \in Seq(Seq(Events))
          /\ batch[p] \in Seq(Events) /\ topic[p] \in Seq(Events) /\ RowOf(p)
      BY DEF WInd, Shape, Rows
    <2>2. queue'[p] = Flushed(p) /\ batch'[p] = <<>>
      BY <1>1
    <2>3. CASE batch[p] = <<>>
      <3>1. queue'[p] = queue[p] /\ batch'[p] = batch[p]
        BY <2>2, <2>3 DEF Flushed
      <3> QED BY <1>1, <2>1, <3>1 DEF RowOf
    <2>4. CASE batch[p] # <<>>
      <3>1. queue'[p] = Append(queue[p], batch[p])
        BY <2>2, <2>4 DEF Flushed
      <3>2. Row(handed[p], Append(queue[p], batch[p]), <<>>, topic[p], tries[p])
        BY <2>1, RowCloses DEF RowOf
      <3>3. Len(batch[p]) <= BatchSize
        BY <2>1, WriterAssumption DEF RowOf, Sized
      <3>4. Sized(Append(queue[p], batch[p]), <<>>)
        BY <2>1, <2>4, <3>3, SizedCloses DEF RowOf
      <3> QED BY <1>1, <2>1, <2>2, <3>1, <3>2, <3>4 DEF RowOf
    <2> QED BY <2>3, <2>4
  <1> QED BY <1>1, <1>2 DEF Rows

LEMMA RowsStep == ASSUME WInd, Rows, [WriterNext]_wvars PROVE Rows'
  <1>1. CASE \E e \in Events : Publish(e)
    BY <1>1, PublishRows
  <1>2. ASSUME NEW e \in Events, PublishRefused(e) \/ Return(e) \/ Deadline(e)
        PROVE  Rows'
    <2>1. /\ UNCHANGED <<batch, queue, tries, topic, handed>>
          /\ \/ call' = [call EXCEPT ![e] = "error"]
             \/ call' = [call EXCEPT ![e] = "ok"]
      BY <1>2 DEF PublishRefused, Return, Deadline, batchVars
    <2>2. \A f \in Events : call[f] # "new" => call'[f] # "new"
      BY <2>1 DEF WInd, Shape
    <2> QED BY <2>1, <2>2, RowsFrame
  <1>3. CASE \E p \in Partitions : BatchTimer(p)
    BY <1>3, BatchTimerRows
  <1>4. CASE \E p \in Partitions : Acknowledged(p) \/ AttemptFails(p)
    BY <1>4, AttemptRows
  <1>5. CASE Close
    BY <1>5, CloseRows
  <1>6. CASE CloseReturns \/ WriterKilled \/ UNCHANGED wvars
    BY <1>6, RowsFrame DEF CloseReturns, WriterKilled, wvars, callVars, batchVars
  <1> QED BY <1>1, <1>2, <1>3, <1>4, <1>5, <1>6 DEF WriterNext, Goroutine

(* The sequences of every partition fit together in every behaviour of the    *)
(* Writer and the broker (publisher.go:36-65).                                *)
THEOREM OrderInductive == WriterSpec => []Rows
  <1>1. WriterInit => Rows
    BY RowsInit
  <1>2. WInd /\ WInd' /\ Rows /\ [WriterNext]_wvars => Rows'
    BY RowsStep
  <1> QED BY <1>1, <1>2, WriterInductive, PTL DEF WriterSpec

LEMMA ShortIsBatch ==
  ASSUME NEW b \in Seq(Events), b # <<>>, Len(b) <= BatchSize
  PROVE  b \in Batches
  <1>1. b \in [1 .. Len(b) -> Events] /\ Len(b) \in Nat
    OBVIOUS
  <1>2. Len(b) \in 0 .. BatchSize
    BY <1>1, WriterAssumption
  <1> QED BY <1>1, <1>2 DEF Batches, SeqOf

(* The types of the Writer's state: an open batch is never full, a closed one *)
(* is neither empty nor too long, a batch is given up in time, and the topic  *)
(* of a partition has only what was handed over for it (publisher.go:36-45).  *)
THEOREM WriterTypeCorrect == WriterSpec => []TypeOK
  <1>1. ASSUME WInd, Rows PROVE TypeOK
    <2>1. ASSUME NEW p \in Partitions
          PROVE  /\ Len(batch[p]) < BatchSize /\ ToSet(batch[p]) \subseteq Events
                 /\ ToSet(queue[p]) \subseteq Batches
                 /\ tries[p] \in 0 .. MaxAttempts - 1
                 /\ ToSet(topic[p]) \subseteq ToSet(handed[p])
      <3>1. batch[p] \in Seq(Events) /\ queue[p] \in Seq(Seq(Events))
        BY <1>1 DEF WInd, Shape
      <3>2. RowOf(p) /\ tries[p] \in 0 .. MaxAttempts - 1
        BY <1>1 DEF Rows
      <3>3. ToSet(batch[p]) \subseteq Events
        BY <3>1, IsElement
      <3>4. ToSet(queue[p]) \subseteq Batches
        <4> SUFFICES ASSUME NEW b \in ToSet(queue[p]) PROVE b \in Batches
          OBVIOUS
        <4>1. b \in Seq(Events)
          BY <3>1, IsElement
        <4>2. b # <<>> /\ Len(b) <= BatchSize
          BY <3>2 DEF RowOf, Sized
        <4> QED BY <4>1, <4>2, ShortIsBatch
      <3> QED BY <3>2, <3>3, <3>4 DEF RowOf, Row, Sized
    <2> QED BY <1>1, <2>1 DEF WInd, Shape, TypeOK
  <1> QED BY <1>1, WriterInductive, OrderInductive, PTL

(* Retries repeat whole batches and never reorder, for any number of events,  *)
(* batch size and attempts: the first copies of a partition's events are in   *)
(* the order of their calls, and no event has more copies than the Writer has *)
(* attempts (publisher.go:36-45).                                             *)
THEOREM FirstCopiesInOrder == WriterSpec => []AppendedInOrder
  <1>1. ASSUME WInd, Rows PROVE AppendedInOrder
    <2> SUFFICES ASSUME NEW p \in Partitions, NEW e \in ToSet(topic[p]),
                        NEW f \in ToSet(topic[p])
                 PROVE  /\ FirstAt(topic[p], e) < FirstAt(topic[p], f)
                             <=> FirstAt(handed[p], e) < FirstAt(handed[p], f)
                        /\ Copies(topic[p], e) \in 1 .. MaxAttempts
      BY DEF AppendedInOrder
    <2>1. handed[p] \in Seq(Events) /\ topic[p] \in Seq(Events)
      BY <1>1 DEF WInd, Shape, Rows
    <2>2. Row(handed[p], queue[p], batch[p], topic[p], tries[p])
      BY <1>1 DEF Rows, RowOf
    <2> QED BY <2>1, <2>2, RowOrders
  <1> QED BY <1>1, WriterInductive, OrderInductive, PTL

-----------------------------------------------------------------------------
(* What is left to do while Close waits.                                    *)

\* Without a batch no attempt has been made.
IdleUntried == \A p \in Partitions : queue[p] = <<>> => tries[p] = 0

\* A batch is done with, or tried once more.
Done(p) == queue'[p] = Tail(queue[p]) /\ tries'[p] = 0
More(p) == queue'[p] = queue[p] /\ tries'[p] = tries[p] + 1

LEMMA AttemptMoves ==
  ASSUME WInd, Rows, NEW q \in Partitions, Acknowledged(q) \/ AttemptFails(q),
         NEW p \in Partitions
  PROVE  UNCHANGED <<queue[p], tries[p]>> \/ (queue[p] # <<>> /\ (Done(p) \/ More(p)))
  <1>1. queue \in [Partitions -> Seq(Seq(Events))] /\ tries \in [Partitions -> 0 .. MaxAttempts - 1]
    BY DEF WInd, Shape, Rows
  <1>2. queue[q] # <<>>
    BY DEF Acknowledged, AttemptFails, Attempt
  <1>3. \/ /\ queue' = [queue EXCEPT ![q] = Tail(queue[q])]
           /\ tries' = [tries EXCEPT ![q] = 0]
        \/ queue' = queue /\ tries' = [tries EXCEPT ![q] = tries[q] + 1]
    BY DEF Acknowledged, AttemptFails, Finish
  <1>4. CASE p # q
    BY <1>1, <1>3, <1>4
  <1>5. CASE p = q
    BY <1>1, <1>2, <1>3, <1>5 DEF Done, More
  <1> QED BY <1>4, <1>5

\* Elsewhere batches are only added, and never while Close waits.
LEMMA QueueGrows ==
  ASSUME WInd, Rows, [WriterNext]_wvars, ~ \E q \in Partitions : Acknowledged(q) \/ AttemptFails(q),
         NEW p \in Partitions
  PROVE  /\ tries'[p] = tries[p]
         /\ \/ queue'[p] = queue[p]
            \/ wstate # "closing" /\ \E b \in Seq(Events) : queue'[p] = Append(queue[p], b)
  <1>1. queue \in [Partitions -> Seq(Seq(Events))] /\ batch \in [Partitions -> Seq(Events)]
    BY DEF WInd, Shape
  <1>2. ASSUME NEW q \in Partitions, NEW b \in Seq(Events), Enqueue(q, b)
        PROVE  queue'[p] = queue[p] \/ queue'[p] = Append(queue[p], b)
    <2>1. queue' = [queue EXCEPT ![q] = Append(queue[q], b)]
      BY <1>2 DEF Enqueue
    <2> QED BY <1>1, <2>1
  <1>3. ASSUME NEW e \in Events, NEW q \in Partitions, wstate = "open", Fill(q, e)
        PROVE  /\ tries'[p] = tries[p]
               /\ \/ queue'[p] = queue[p]
                  \/ wstate # "closing" /\ \E b \in Seq(Events) : queue'[p] = Append(queue[p], b)
    <2>1. Append(batch[q], e) \in Seq(Events)
      BY <1>1
    <2>2. UNCHANGED queue \/ Enqueue(q, Append(batch[q], e))
      BY <1>3 DEF Fill
    <2>3. tries' = tries
      BY <1>3 DEF Fill
    <2> QED BY <1>2, <1>3, <2>1, <2>2, <2>3
  <1>4. ASSUME NEW q \in Partitions, BatchTimer(q)
        PROVE  /\ tries'[p] = tries[p] /\ wstate # "closing"
               /\ \E b \in Seq(Events) : queue'[p] = queue[p] \/ queue'[p] = Append(queue[p], b)
    <2>1. Enqueue(q, batch[q]) /\ batch[q] # <<>> /\ batch[q] \in Seq(Events) /\ tries' = tries
      BY <1>1, <1>4 DEF BatchTimer
    <2>2. wstate # "closing"
      BY <2>1 DEF WInd, ClosedIsEmpty
    <2> QED BY <1>2, <2>1, <2>2
  <1>5. CASE Close
    <2>1. wstate # "closing" /\ tries' = tries /\ queue'[p] = Flushed(p)
      BY <1>5 DEF Close
    <2> QED BY <1>1, <2>1 DEF Flushed
  <1>6. CASE UNCHANGED <<queue, tries>>
    BY <1>6
  <1>7. ASSUME NEW e \in Events, PublishRefused(e) \/ Return(e) \/ Deadline(e)
        PROVE  UNCHANGED <<queue, tries>>
    BY <1>7 DEF PublishRefused, Return, Deadline, batchVars
  <1>8. CASE CloseReturns \/ WriterKilled \/ UNCHANGED wvars
    BY <1>6, <1>8 DEF CloseReturns, WriterKilled, wvars, batchVars
  <1>9. CASE \E e \in Events : Publish(e)
    BY <1>3, <1>9 DEF Publish
  <1> QED BY <1>4, <1>5, <1>6, <1>7, <1>8, <1>9 DEF WriterNext, Goroutine

LEMMA AppendNotEmpty == ASSUME NEW S, NEW s \in Seq(S), NEW x \in S PROVE Append(s, x) # <<>>
  <1>1. Len(Append(s, x)) = Len(s) + 1 /\ Len(s) \in Nat
    OBVIOUS
  <1>2. Len(<<>>) = 0
    OBVIOUS
  <1> QED BY <1>1, <1>2

LEMMA IdleStep ==
  ASSUME WInd, Rows, IdleUntried, [WriterNext]_wvars PROVE IdleUntried'
  <1> SUFFICES ASSUME NEW p \in Partitions, queue'[p] = <<>> PROVE tries'[p] = 0
    BY DEF IdleUntried
  <1>1. queue[p] \in Seq(Seq(Events))
    BY DEF WInd, Shape
  <1>2. CASE \E q \in Partitions : Acknowledged(q) \/ AttemptFails(q)
    <2>1. UNCHANGED <<queue[p], tries[p]>> \/ (queue[p] # <<>> /\ (Done(p) \/ More(p)))
      BY <1>2, AttemptMoves
    <2> QED BY <2>1 DEF Done, More, IdleUntried
  <1>3. CASE ~ \E q \in Partitions : Acknowledged(q) \/ AttemptFails(q)
    <2>1. /\ tries'[p] = tries[p]
          /\ queue'[p] = queue[p] \/ \E b \in Seq(Events) : queue'[p] = Append(queue[p], b)
      BY <1>3, QueueGrows
    <2>2. queue'[p] = queue[p]
      BY <1>1, <2>1, AppendNotEmpty
    <2> QED BY <2>1, <2>2 DEF IdleUntried
  <1> QED BY <1>2, <1>3

\* The attempts of n batches, t of them made.
LEMMA Budget ==
  ASSUME NEW n \in Nat, NEW m \in Nat \ {0}, NEW t \in 0 .. m - 1, n = 0 => t = 0
  PROVE  /\ n * m - t >= 0
         /\ n * m - t = 0 <=> n = 0
         /\ n # 0 => (n - 1) * m < n * m - t
         /\ n * m - (t + 1) < n * m - t
  <1>1. n * m \in Nat
    OBVIOUS
  <1>2. CASE n = 0
    <2>1. n * m = 0 /\ t = 0
      BY <1>2
    <2> QED BY <1>2, <2>1
  <1>3. CASE n # 0
    <2> DEFINE k == (n - 1) * m
    <2>1. n - 1 \in Nat
      BY <1>3
    <2>2. k \in Nat
      BY <2>1
    <2>3. n * m = k + m
      BY <1>3
    <2> HIDE DEF k
    <2>4. n * m - t > k /\ k >= 0
      BY <2>2, <2>3
    <2> QED BY <1>1, <1>3, <2>2, <2>4 DEF k
  <1> QED BY <1>2, <1>3

LEMMA LeftNow ==
  ASSUME WInd, Rows, IdleUntried, NEW p \in Partitions
  PROVE  /\ AttemptsLeft(p) >= 0 /\ (AttemptsLeft(p) = 0 <=> queue[p] = <<>>)
         /\ queue[p] # <<>> => (Len(queue[p]) - 1) * MaxAttempts < AttemptsLeft(p)
         /\ Len(queue[p]) * MaxAttempts - (tries[p] + 1) < AttemptsLeft(p)
  <1>1. queue[p] \in Seq(Seq(Events)) /\ tries[p] \in 0 .. MaxAttempts - 1
    BY DEF WInd, Shape, Rows
  <1>2. Len(queue[p]) \in Nat /\ (Len(queue[p]) = 0 <=> queue[p] = <<>>)
    BY <1>1
  <1>3. Len(queue[p]) = 0 => tries[p] = 0
    BY <1>2 DEF IdleUntried
  <1> QED BY <1>1, <1>2, <1>3, Budget, WriterAssumption DEF AttemptsLeft

LEMMA CloseShrinks ==
  ASSUME WInd, Rows, IdleUntried, [WriterNext]_wvars, wstate = "closing", NEW p \in Partitions
  PROVE  /\ batch[p] = <<>> /\ AttemptsLeft(p) >= 0
         /\ AttemptsLeft(p) = 0 <=> queue[p] = <<>>
         /\ \/ UNCHANGED <<queue[p], tries[p]>>
            \/ AttemptsLeft(p)' < AttemptsLeft(p)
  <1>1. batch[p] = <<>>
    BY DEF WInd, ClosedIsEmpty
  <1>2. UNCHANGED <<queue[p], tries[p]>> \/ (queue[p] # <<>> /\ (Done(p) \/ More(p)))
    <2>1. CASE \E q \in Partitions : Acknowledged(q) \/ AttemptFails(q)
      BY <2>1, AttemptMoves
    <2>2. CASE ~ \E q \in Partitions : Acknowledged(q) \/ AttemptFails(q)
      BY <2>2, QueueGrows
    <2> QED BY <2>1, <2>2
  <1>3. ASSUME queue[p] # <<>>, Done(p) PROVE AttemptsLeft(p)' < AttemptsLeft(p)
    <2>1. queue[p] \in Seq(Seq(Events))
      BY DEF WInd, Shape
    <2>2. Len(queue'[p]) = Len(queue[p]) - 1 /\ tries'[p] = 0
      BY <1>3, <2>1 DEF Done
    <2>3. Len(queue[p]) - 1 \in Nat
      BY <1>3, <2>1
    <2>4. AttemptsLeft(p)' = (Len(queue[p]) - 1) * MaxAttempts
      BY <2>2, <2>3, WriterAssumption DEF AttemptsLeft
    <2> QED BY <1>3, <2>4, LeftNow
  <1>4. ASSUME More(p) PROVE AttemptsLeft(p)' < AttemptsLeft(p)
    <2>1. AttemptsLeft(p)' = Len(queue[p]) * MaxAttempts - (tries[p] + 1)
      BY <1>4 DEF AttemptsLeft, More
    <2> QED BY <2>1, LeftNow
  <1> QED BY <1>1, <1>2, <1>3, <1>4, LeftNow

(* A broker that does not answer delays Close by MaxAttempts attempts for each *)
(* batch and no more: what is left falls with every attempt, nothing is added, *)
(* and it is zero only when no batch is left (publisher.go:36-45, 62-65).      *)
THEOREM CloseOnlyShrinks == WriterSpec => CloseProgresses
  <1>1. WriterInit => IdleUntried
    BY DEF WriterInit, IdleUntried
  <1>2. WInd /\ Rows /\ IdleUntried /\ [WriterNext]_wvars => IdleUntried'
    BY IdleStep
  <1>3. WInd /\ Rows /\ IdleUntried /\ [WriterNext]_wvars =>
          [wstate = "closing" =>
             \A p \in Partitions :
               /\ batch[p] = <<>> /\ AttemptsLeft(p) >= 0
               /\ AttemptsLeft(p) = 0 <=> queue[p] = <<>>
               /\ \/ UNCHANGED <<queue[p], tries[p]>>
                  \/ AttemptsLeft(p)' < AttemptsLeft(p)]_wvars
    BY CloseShrinks
  <1> QED BY <1>1, <1>2, <1>3, WriterInductive, OrderInductive, PTL DEF WriterSpec, CloseProgresses

=============================================================================

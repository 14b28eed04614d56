-------------------------- MODULE IngestPathProofs --------------------------
(***************************************************************************)
(* The way in, for any requests, buffers and batch: the invariant of the   *)
(* collector holds here too, no two handlers share a buffer, no job's      *)
(* bytes change under it, and a batch keeps its order.                     *)
(***************************************************************************)
EXTENDS IngestPath, CollectorContractProofs

LEMMA PathFacts ==
  /\ Batch \in Seq(Requests)
  /\ \A i, j \in DOMAIN Batch : Batch[i] = Batch[j] => i = j
  /\ Nil \notin Buffers /\ Nil \notin Requests
  /\ Buffers \cap Requests = {}
  BY PathAssumption DEF PathAssumption

LEMMA BatchFacts ==
  /\ Len(Batch) \in Nat /\ DOMAIN Batch = 1 .. Len(Batch)
  /\ \A i \in DOMAIN Batch : Batch[i] \in Requests /\ Batch[i] \in InBatch
  <1>1. Len(Batch) \in Nat /\ DOMAIN Batch = 1 .. Len(Batch)
    BY PathFacts, LenProperties
  <1> QED BY <1>1, PathFacts, ElementOfSeq DEF InBatch

-----------------------------------------------------------------------------
(* The invariant.                                                           *)

Copying == {"got", "written", "copied"}

\* Where copyPayload is, and what the arrays hold by then.
CopyInv(r) ==
  /\ stage[r] \in Copying => pc[r] = "reading" /\ buf[r] \in Buffers
  /\ stage[r] \notin Copying => buf[r] = Nil
  /\ stage[r] = "got" => buf[r] \notin used
  /\ stage[r] = "written" => mem[buf[r]] = r
  /\ stage[r] = "copied" \/ pc[r] \notin {"idle", "reading", "400"} =>
       payload[r] = r /\ mem[r] = r

Copies == \A r \in Requests : CopyInv(r)

\* No caller is between two events of its batch once the handlers are drained.
BatchQuiet ==
  ~httpTimedOut /\ mpc \notin {"serving", "httpDrain", "killed"} => ~BatchRunning

\* The events of a batch in the channel are in the order of the batch.
ChannelInOrder ==
  \A i, j \in DOMAIN Batch : i < j =>
    \A a, b \in DOMAIN ch : ch[a] = Batch[i] /\ ch[b] = Batch[j] => a < b

PathInv == /\ IndInv /\ PathTypeOK /\ Copies /\ PoolSound
           /\ BatchQuiet /\ BatchInOrder /\ ChannelInOrder

-----------------------------------------------------------------------------
(* The steps that leave the pool and the arrays alone.                      *)

CollectorStep ==
  \/ \E r \in Requests \ InBatch : Arrive(r)
  \/ \E i \in DOMAIN Batch : BatchArrive(i)
  \/ \E r \in Requests : Unread(r) \/ ChannelStep(r)
  \/ \E w \in Workers : Worker(w)
  \/ MainStep
  \/ UNCHANGED vars

PoolStep ==
  \/ \E r \in Requests : Get(r) \/ Write(r) \/ Copy(r) \/ Put(r)
  \/ PoolDrained

LEMMA PathSteps ==
  ASSUME [PathNext]_<<vars, pathVars>>
  PROVE  (CollectorStep /\ Unchanged) \/ PoolStep
  BY DEF PathNext, CollectorStep, PoolStep, BatchArrive, Unchanged, Gone

\* The next event of a batch is another call of Ingest.
LEMMA ReadingStep ==
  ASSUME IndInv, Alive, NEW r \in Requests, pc[r] = "idle", Goto(r, "reading"),
         httpTimedOut \/ mpc \in {"serving", "httpDrain"},
         UNCHANGED <<svcVars, workVars, countVars, mainVars, overtaken>>
  PROVE  IndInv'
  <1>1. /\ pc' \in [Requests -> {"idle"} \cup InFlight \cup Statuses]
        /\ pc'[r] = "reading" /\ pc[r] = "idle"
        /\ \A q \in Requests : q # r => pc'[q] = pc[q]
    BY GotoFacts DEF IndInv, InFlight
  <1>2. TypeOK'
    BY <1>1 DEF IndInv, TypeOK, svcVars, workVars, countVars, mainVars
  <1>3. Conservation'
    BY <1>1, ConservationFrame DEF IndInv, Enqueued, svcVars, workVars, countVars
  <1>4. LedgerExact'
    BY <1>1, LedgerFrame DEF IndInv, Enqueued, countVars
  <1>5. HoldsWhileBusy' /\ ClosedLast' /\ ExitedDrained' /\ PublisherOutlivesWorkers'
    BY DEF IndInv, HoldsWhileBusy, ClosedLast, ExitedDrained,
           PublisherOutlivesWorkers, svcVars, workVars, mainVars
  <1>6. DrainedQuiet' /\ NeverPanicked'
    BY <1>1 DEF IndInv, ClosedLast, DrainedQuiet, NeverPanicked, svcVars, countVars, mainVars
  <1> QED BY <1>2, <1>3, <1>4, <1>5, <1>6 DEF IndInv

LEMMA BatchArriveStep ==
  ASSUME IndInv, BatchQuiet, NEW i \in DOMAIN Batch, BatchArrive(i)
  PROVE  IndInv'
  <1>1. /\ Alive /\ pc[Batch[i]] = "idle" /\ Batch[i] \in Requests
        /\ Goto(Batch[i], "reading")
        /\ UNCHANGED <<svcVars, workVars, countVars, mainVars, overtaken>>
    BY BatchFacts DEF BatchArrive
  <1>2. CASE i = 1
    <2>1. mpc = "serving"
      BY <1>2 DEF BatchArrive
    <2> QED BY <1>1, <2>1, ReadingStep
  <1>3. CASE i # 1
    <2>1. i - 1 \in 1 .. Len(Batch) - 1 /\ (i - 1) + 1 = i
      BY <1>3, BatchFacts
    <2>2. pc[Batch[i - 1]] = "202" /\ pc[Batch[(i - 1) + 1]] = "idle"
      BY <1>1, <1>3, <2>1 DEF BatchArrive, NextDue
    <2>3. BatchRunning
      BY <2>1, <2>2 DEF BatchRunning
    <2>4. httpTimedOut \/ mpc \in {"serving", "httpDrain"}
      BY <1>1, <2>3 DEF BatchQuiet, Alive, IndInv, TypeOK
    <2> QED BY <1>1, <2>4, ReadingStep
  <1> QED BY <1>2, <1>3

LEMMA CollectorKeeps ==
  ASSUME IndInv, BatchQuiet, CollectorStep
  PROVE  IndInv'
  <1>1. CASE \E r \in Requests \ InBatch : Arrive(r)
    BY <1>1, ArriveStep
  <1>2. CASE \E i \in DOMAIN Batch : BatchArrive(i)
    BY <1>2, BatchArriveStep
  <1>3. CASE \E r \in Requests : Unread(r) \/ ChannelStep(r)
    <2>1. PICK r \in Requests : Unread(r) \/ ChannelStep(r)
      BY <1>3
    <2>2. Handler(r)
      BY <2>1 DEF Unread, ChannelStep, Handler
    <2> QED BY <2>2, HandlerStep
  <1>4. CASE \E w \in Workers : Worker(w)
    BY <1>4, WorkerStep
  <1>5. CASE MainStep
    <2>1. StopSignal \/ Shutdown \/ Kill
      BY <1>5 DEF MainStep, Shutdown
    <2> QED BY <2>1, MainSequence, KillStep
  <1> QED BY <1>1, <1>2, <1>3, <1>4, <1>5, StutterStep DEF CollectorStep

LEMMA PoolKeeps ==
  ASSUME IndInv, PoolStep
  PROVE  IndInv'
  <1>1. CASE \E r \in Requests : Put(r)
    <2>1. PICK r \in Requests : Put(r)
      BY <1>1
    <2>2. Handler(r)
      BY <2>1 DEF Put, Handler
    <2> QED BY <2>2, HandlerStep
  <1>2. CASE UNCHANGED vars
    BY <1>2, StutterStep
  <1> QED BY <1>1, <1>2 DEF PoolStep, Get, Write, Copy, PoolDrained

-----------------------------------------------------------------------------
(* How the handlers move.                                                   *)

AfterReading == {"count"} \cup Sending

\* From nowhere to reading the body, from there to an error or through the copy,
\* then through enqueue to an answer.
Moves(r) ==
  \/ pc'[r] = pc[r]
  \/ /\ pc[r] = "idle" /\ pc'[r] = "reading"
     /\ r \notin InBatch => mpc = "serving"
     /\ \A j \in DOMAIN Batch : r = Batch[j] /\ j # 1 => pc[Batch[j - 1]] = "202"
  \/ pc[r] = "reading" /\ stage[r] = "none" /\ pc'[r] = "400"
  \/ pc[r] \in Sending /\ pc'[r] \in {"evict", "resend", "count", "503", "500"}
  \/ pc[r] = "count" /\ pc'[r] = "202"

LEMMA MoveOne ==
  ASSUME IndInv, NEW r \in Requests, NEW l, Goto(r, l)
  PROVE  pc'[r] = l /\ \A q \in Requests : q # r => pc'[q] = pc[q]
  BY DEF Goto, IndInv, TypeOK

LEMMA CollectorMoves ==
  ASSUME IndInv, CollectorStep, NEW q \in Requests
  PROVE  Moves(q)
  <1>1. CASE pc' = pc
    BY <1>1 DEF Moves
  <1>2. ASSUME NEW r \in Requests \ InBatch, Arrive(r) PROVE Moves(q)
    <2>1. pc[r] = "idle" /\ pc'[r] = "reading" /\ mpc = "serving"
          /\ (q # r => pc'[q] = pc[q])
      BY <1>2, MoveOne DEF Arrive
    <2>2. \A j \in DOMAIN Batch : r # Batch[j]
      BY DEF InBatch
    <2> QED BY <2>1, <2>2 DEF Moves
  <1>3. ASSUME NEW i \in DOMAIN Batch, BatchArrive(i) PROVE Moves(q)
    <2>1. Batch[i] \in Requests /\ Batch[i] \in InBatch
      BY BatchFacts
    <2>2. /\ pc[Batch[i]] = "idle" /\ Goto(Batch[i], "reading")
          /\ i # 1 => pc[Batch[i - 1]] = "202"
      BY <1>3 DEF BatchArrive, NextDue
    <2>3. pc'[Batch[i]] = "reading" /\ (q # Batch[i] => pc'[q] = pc[q])
      BY <2>1, <2>2, MoveOne
    <2>4. \A j \in DOMAIN Batch : Batch[i] = Batch[j] => i = j
      BY PathFacts
    <2> QED BY <2>1, <2>2, <2>3, <2>4 DEF Moves
  <1>4. ASSUME NEW r \in Requests, Unread(r) PROVE Moves(q)
    <2>1. stage[r] = "none" /\ pc[r] = "reading" /\ Goto(r, "400")
      BY <1>4 DEF Unread, BodyUnreadable, RejectEmpty
    <2> QED BY <2>1, MoveOne DEF Moves
  <1>5. ASSUME NEW r \in Requests, ChannelStep(r) PROVE Moves(q)
    <2>1. \/ /\ pc[r] \in Sending
             /\ \E l \in {"evict", "resend", "count", "503", "500"} : Goto(r, l)
          \/ pc[r] = "count" /\ Goto(r, "202")
      BY <1>5 DEF ChannelStep, Enqueue, DiscardOldest, Retry, CountIngest, SendCase,
                  SendPanics, MakeRoom, QueueSaturated, Sending
    <2> QED BY <2>1, MoveOne DEF Moves
  <1>6. CASE \/ (\E w \in Workers : Worker(w)) \/ MainStep \/ UNCHANGED vars
    <2>1. pc' = pc
      BY <1>6 DEF Worker, TakeJob, WorkerExit, ParseFails, ParseSucceeds, PublishFails,
                  PublishSucceeds, MainStep, HttpDrained, HttpTimeout, DrainPoll,
                  DrainTimeout, CloseChannel, WgWait, ClosePublisher, StopSignal, Kill,
                  Advance, vars
    <2> QED BY <1>1, <2>1
  <1> QED BY <1>2, <1>3, <1>4, <1>5, <1>6 DEF CollectorStep

\* What main's steps ask of the handlers.
LEMMA CollectorLife ==
  ASSUME IndInv, CollectorStep
  PROVE  /\ httpTimedOut => httpTimedOut'
         /\ mpc = "killed" => mpc' = "killed"
         /\ mpc \in {"serving", "httpDrain"} /\ ~httpTimedOut'
            /\ mpc' \notin {"serving", "httpDrain", "killed"} =>
              ~BatchRunning /\ pc' = pc
  <1>1. CASE UNCHANGED mainVars
    BY <1>1 DEF mainVars
  <1>2. CASE MainStep
    BY <1>2 DEF MainStep, HttpDrained, HttpTimeout, DrainPoll, DrainTimeout, CloseChannel,
                WgWait, ClosePublisher, StopSignal, Kill, Advance, Alive
  <1>3. CASE \/ (\E r \in Requests \ InBatch : Arrive(r))
             \/ (\E i \in DOMAIN Batch : BatchArrive(i))
             \/ (\E w \in Workers : Worker(w)) \/ UNCHANGED vars
    <2>1. UNCHANGED mainVars
      BY <1>3 DEF Arrive, BatchArrive, Worker, TakeJob, WorkerExit, ParseFails,
                  ParseSucceeds, PublishFails, PublishSucceeds, vars
    <2> QED BY <1>1, <2>1
  <1>4. CASE \E r \in Requests : Unread(r) \/ ChannelStep(r)
    <2>1. UNCHANGED mainVars
      BY <1>4 DEF Unread, BodyUnreadable, RejectEmpty, ChannelStep, Enqueue, DiscardOldest,
                  Retry, CountIngest, SendCase, SendPanics, MakeRoom, QueueSaturated
    <2> QED BY <1>1, <2>1
  <1> QED BY <1>2, <1>3, <1>4 DEF CollectorStep

-----------------------------------------------------------------------------
(* The pool and the arrays.                                                 *)

LEMMA CollectorCopies ==
  ASSUME IndInv, Copies, CollectorStep, Unchanged
  PROVE  Copies'
  <1> SUFFICES ASSUME NEW r \in Requests PROVE CopyInv(r)'
    BY DEF Copies
  <1>1. UNCHANGED <<stage, buf, used, mem, payload>>
    BY DEF Unchanged, pathVars, heapVars
  <1>2. CopyInv(r) /\ Moves(r)
    BY CollectorMoves DEF Copies
  <1>3. stage[r] \in Copying => pc'[r] = pc[r]
    BY <1>2 DEF CopyInv, Moves, Copying, Sending
  <1>4. pc'[r] \notin {"idle", "reading", "400"} => pc[r] \notin {"idle", "reading", "400"}
    BY <1>2 DEF Moves, Sending
  <1> QED BY <1>1, <1>2, <1>3, <1>4 DEF CopyInv

LEMMA CollectorPool ==
  ASSUME PathTypeOK, PoolSound, Unchanged
  PROVE  PathTypeOK' /\ PoolSound'
  BY DEF Unchanged, pathVars, heapVars, PathTypeOK, PoolSound

LEMMA StageFacts ==
  ASSUME PathTypeOK, NEW r \in Requests, NEW from, NEW to, Stage(r, from, to)
  PROVE  /\ stage[r] = from /\ stage'[r] = to
         /\ \A q \in Requests : q # r => stage'[q] = stage[q]
         /\ to \in {"got", "written", "copied", "put"} =>
              stage' \in [Requests -> {"none", "got", "written", "copied", "put"}]
  BY DEF Stage, PathTypeOK

\* A handler gets a buffer that nobody uses.
LEMMA GetStep ==
  ASSUME PathTypeOK, Copies, PoolSound, NEW r \in Requests, Get(r)
  PROVE  PathTypeOK' /\ Copies' /\ PoolSound'
  <1>1. /\ stage[r] = "none" /\ stage'[r] = "got"
        /\ \A q \in Requests : q # r => stage'[q] = stage[q]
        /\ stage' \in [Requests -> {"none", "got", "written", "copied", "put"}]
    BY StageFacts DEF Get
  <1>2. pc[r] = "reading" /\ UNCHANGED <<pc, mem, payload>>
    BY DEF Get, vars
  <1>3. PICK b \in Available :
          /\ buf' = [buf EXCEPT ![r] = b]
          /\ pool' = pool \ {b} /\ used' = used \ {b}
          /\ big' = IF b \in pool THEN big ELSE big \ {b}
    BY DEF Get
  <1>4. b \in Buffers /\ \A q \in Requests : buf[q] # b
    BY <1>3 DEF Available, Unreferenced, PoolSound, PathTypeOK
  <1>5. buf'[r] = b /\ \A q \in Requests : q # r => buf'[q] = buf[q]
    BY <1>3 DEF PathTypeOK
  <1>6. PathTypeOK'
    <2>1. buf' \in [Requests -> Buffers \cup {Nil}]
      BY <1>3, <1>4 DEF PathTypeOK
    <2>2. pool' \subseteq Buffers /\ used' \subseteq Buffers /\ big' \subseteq Buffers
      BY <1>3 DEF PathTypeOK
    <2> QED BY <1>1, <1>2, <2>1, <2>2 DEF PathTypeOK
  <1>7. ASSUME NEW q \in Requests PROVE CopyInv(q)'
    <2>1. CopyInv(q)
      BY DEF Copies
    <2>2. CASE q = r
      <3>1. stage[q] \notin Copying /\ stage'[q] = "got" /\ "got" \in Copying
        BY <1>1, <2>2 DEF Copying
      <3> QED BY <1>2, <1>3, <1>4, <1>5, <2>2, <3>1 DEF CopyInv
    <2>3. CASE q # r
      <3>1. /\ stage'[q] = stage[q] /\ buf'[q] = buf[q]
            /\ buf[q] \notin used => buf[q] \notin used'
        BY <1>1, <1>3, <1>5, <2>3
      <3> QED BY <1>2, <2>1, <3>1 DEF CopyInv
    <2> QED BY <2>2, <2>3
  <1>8. PoolSound'
    <2>1. \A q \in Requests : buf'[q] \notin pool'
      BY <1>3, <1>5 DEF PoolSound
    <2>2. pool' \cap (used' \cup big') = {}
      BY <1>3 DEF PoolSound
    <2>3. \A p, q \in Requests : buf'[p] = buf'[q] /\ buf'[p] # Nil => p = q
      BY <1>4, <1>5 DEF PoolSound
    <2> QED BY <2>1, <2>2, <2>3 DEF PoolSound
  <1> QED BY <1>6, <1>7, <1>8 DEF Copies

\* It writes the body into its own buffer: no other content changes.
LEMMA WriteStep ==
  ASSUME PathTypeOK, Copies, PoolSound, NEW r \in Requests, Write(r)
  PROVE  PathTypeOK' /\ Copies' /\ PoolSound'
  <1>1. /\ stage[r] = "got" /\ stage'[r] = "written"
        /\ \A q \in Requests : q # r => stage'[q] = stage[q]
        /\ stage' \in [Requests -> {"none", "got", "written", "copied", "put"}]
    BY StageFacts DEF Write
  <1> DEFINE b == buf[r]
  <1>2. b \in Buffers /\ b \notin used /\ pc[r] = "reading"
    BY <1>1 DEF Copies, CopyInv, Copying
  <1>3. /\ mem' = [mem EXCEPT ![b] = r] /\ used' = used \cup {b}
        /\ big' \in {big, big \cup {b}}
        /\ UNCHANGED <<pc, buf, pool, payload>>
    BY <1>2 DEF Write, vars
  <1>4. /\ mem'[b] = r
        /\ \A a \in Arrays : a # b => mem'[a] = mem[a]
        /\ mem' \in [Arrays -> Requests \cup {Nil, Mixed}]
    BY <1>2, <1>3 DEF PathTypeOK, Arrays
  <1>5. \A q \in Requests : mem'[q] = mem[q]
    BY <1>2, <1>4, PathFacts DEF Arrays
  <1>6. \A q \in Requests : q # r => buf[q] # b
    BY <1>2, PathFacts DEF PoolSound
  <1> HIDE DEF b
  <1>7. PathTypeOK'
    BY <1>1, <1>2, <1>3, <1>4 DEF PathTypeOK
  <1>8. ASSUME NEW q \in Requests PROVE CopyInv(q)'
    <2>1. CopyInv(q)
      BY DEF Copies
    <2>2. CASE q = r
      <3>1. stage[q] \in Copying /\ stage'[q] = "written" /\ "written" \in Copying
        BY <1>1, <2>2 DEF Copying
      <3>2. buf'[q] = b
        BY <1>3, <2>2 DEF b
      <3> QED BY <1>2, <1>3, <1>4, <2>1, <2>2, <3>1, <3>2 DEF CopyInv
    <2>3. CASE q # r
      <3>1. stage'[q] = stage[q] /\ buf'[q] = buf[q] /\ buf[q] # b /\ pc'[q] = pc[q]
            /\ payload'[q] = payload[q] /\ mem'[q] = mem[q]
        BY <1>1, <1>3, <1>5, <1>6, <2>3
      <3>2. stage[q] = "written" => mem'[buf[q]] = mem[buf[q]]
        BY <1>4, <2>1, <3>1 DEF CopyInv, Copying, Arrays
      <3>3. buf[q] \notin used => buf[q] \notin used'
        BY <1>3, <3>1
      <3> QED BY <2>1, <3>1, <3>2, <3>3 DEF CopyInv
    <2> QED BY <2>2, <2>3
  <1>9. PoolSound'
    <2>1. b \notin pool
      BY DEF PoolSound, b
    <2> QED BY <1>3, <2>1 DEF PoolSound
  <1> QED BY <1>7, <1>8, <1>9 DEF Copies

\* The copy goes into an array of the request's own.
LEMMA CopyStep ==
  ASSUME PathTypeOK, Copies, PoolSound, NEW r \in Requests, Copy(r)
  PROVE  PathTypeOK' /\ Copies' /\ PoolSound'
  <1>1. /\ stage[r] = "written" /\ stage'[r] = "copied"
        /\ \A q \in Requests : q # r => stage'[q] = stage[q]
        /\ stage' \in [Requests -> {"none", "got", "written", "copied", "put"}]
    BY StageFacts DEF Copy
  <1>2. buf[r] \in Buffers /\ mem[buf[r]] = r /\ pc[r] = "reading"
    BY <1>1 DEF Copies, CopyInv, Copying
  <1>3. /\ payload' = [payload EXCEPT ![r] = r] /\ mem' = [mem EXCEPT ![r] = r]
        /\ UNCHANGED <<pc, buf, pool, used, big>>
    BY <1>2 DEF Copy, Out, vars
  <1>4. /\ mem'[r] = r
        /\ \A a \in Arrays : a # r => mem'[a] = mem[a]
        /\ mem' \in [Arrays -> Requests \cup {Nil, Mixed}]
    BY <1>3 DEF PathTypeOK, Arrays
  <1>5. /\ payload'[r] = r
        /\ \A q \in Requests : q # r => payload'[q] = payload[q]
        /\ payload' \in [Requests -> Arrays \cup {Nil}]
    BY <1>3 DEF PathTypeOK, Arrays
  <1>6. PathTypeOK'
    BY <1>1, <1>3, <1>4, <1>5 DEF PathTypeOK
  <1>7. ASSUME NEW q \in Requests PROVE CopyInv(q)'
    <2>1. CopyInv(q)
      BY DEF Copies
    <2>2. CASE q = r
      <3>1. stage[q] \in Copying /\ stage'[q] = "copied" /\ "copied" \in Copying
        BY <1>1, <2>2 DEF Copying
      <3> QED BY <1>2, <1>3, <1>4, <1>5, <2>1, <2>2, <3>1 DEF CopyInv
    <2>3. CASE q # r
      <3>1. stage'[q] = stage[q] /\ payload'[q] = payload[q] /\ mem'[q] = mem[q]
        BY <1>1, <1>4, <1>5, <2>3 DEF Arrays
      <3>2. stage[q] = "written" => mem'[buf[q]] = mem[buf[q]]
        BY <1>4, <2>1, PathFacts DEF CopyInv, Copying, Arrays
      <3> QED BY <1>3, <2>1, <3>1, <3>2 DEF CopyInv
    <2> QED BY <2>2, <2>3
  <1>8. PoolSound'
    BY <1>3 DEF PoolSound
  <1> QED BY <1>6, <1>7, <1>8 DEF Copies

\* The buffer goes back empty, or to the garbage collector.
LEMMA PutStep ==
  ASSUME IndInv, PathTypeOK, Copies, PoolSound, NEW r \in Requests, Put(r)
  PROVE  PathTypeOK' /\ Copies' /\ PoolSound'
  <1>1. /\ stage[r] = "copied" /\ stage'[r] = "put"
        /\ \A q \in Requests : q # r => stage'[q] = stage[q]
        /\ stage' \in [Requests -> {"none", "got", "written", "copied", "put"}]
    BY StageFacts DEF Put
  <1> DEFINE b == buf[r]
  <1>2. b \in Buffers /\ payload[r] = r /\ mem[r] = r
    BY <1>1 DEF Copies, CopyInv, Copying
  <1>3. /\ used' = used \ {b} /\ pool' = IF Kept(b) THEN pool \cup {b} ELSE pool
        /\ buf' = [buf EXCEPT ![r] = Nil]
        /\ UNCHANGED <<mem, big, payload>>
    BY DEF Put
  <1>4. pc'[r] = "send" /\ \A q \in Requests : q # r => pc'[q] = pc[q]
    BY MoveOne DEF Put, CopyPayload
  <1>5. buf'[r] = Nil /\ \A q \in Requests : q # r => buf'[q] = buf[q]
    BY <1>3 DEF PathTypeOK
  <1>6. \A q \in Requests : q # r => buf[q] # b
    BY <1>2, PathFacts DEF PoolSound
  <1> HIDE DEF b
  <1>7. PathTypeOK'
    <2>1. buf' \in [Requests -> Buffers \cup {Nil}]
      BY <1>3 DEF PathTypeOK
    <2> QED BY <1>1, <1>2, <1>3, <2>1 DEF PathTypeOK
  <1>8. ASSUME NEW q \in Requests PROVE CopyInv(q)'
    <2>1. CopyInv(q)
      BY DEF Copies
    <2>2. CASE q = r
      <3>1. stage'[q] = "put" /\ "put" \notin Copying
        BY <1>1, <2>2 DEF Copying
      <3> QED BY <1>2, <1>3, <1>5, <2>2, <3>1 DEF CopyInv
    <2>3. CASE q # r
      <3>1. /\ stage'[q] = stage[q] /\ pc'[q] = pc[q] /\ buf'[q] = buf[q]
            /\ buf[q] \notin used => buf[q] \notin used'
        BY <1>1, <1>3, <1>4, <1>5, <2>3
      <3> QED BY <1>3, <2>1, <3>1 DEF CopyInv
    <2> QED BY <2>2, <2>3
  <1>9. PoolSound'
    <2>1. pool' \cap (used' \cup big') = {}
      BY <1>3 DEF PoolSound, Kept
    <2>2. \A q \in Requests : buf'[q] \notin pool'
      <3>1. Nil \notin pool /\ b # Nil
        BY <1>2, PathFacts DEF PathTypeOK
      <3> QED BY <1>3, <1>5, <1>6, <3>1 DEF PoolSound
    <2>3. \A p, q \in Requests : buf'[p] = buf'[q] /\ buf'[p] # Nil => p = q
      BY <1>5 DEF PoolSound
    <2> QED BY <2>1, <2>2, <2>3 DEF PoolSound
  <1> QED BY <1>7, <1>8, <1>9 DEF Copies

LEMMA PoolStepSound ==
  ASSUME IndInv, PathTypeOK, Copies, PoolSound, PoolStep
  PROVE  PathTypeOK' /\ Copies' /\ PoolSound'
  <1>1. CASE PoolDrained
    <2>1. pool' \subseteq pool /\ UNCHANGED <<pc, stage, buf, mem, used, big, payload>>
      BY <1>1 DEF PoolDrained, vars
    <2>2. PathTypeOK' /\ PoolSound'
      BY <2>1 DEF PathTypeOK, PoolSound
    <2>3. Copies'
      BY <2>1 DEF Copies, CopyInv
    <2> QED BY <2>2, <2>3
  <1> QED BY <1>1, GetStep, WriteStep, CopyStep, PutStep DEF PoolStep

-----------------------------------------------------------------------------
(* The caller of a batch and the drain.                                     *)

\* Once the handlers are drained, none starts.
LEMMA NoneRuns ==
  ASSUME IndInv, ~httpTimedOut, mpc \notin {"serving", "httpDrain", "killed"},
         NEW r \in Requests
  PROVE  pc[r] \notin InFlight /\ pc[r] # "500"
  BY DEF IndInv, DrainedQuiet, NeverPanicked

LEMMA CollectorQuiet ==
  ASSUME IndInv, BatchQuiet, CollectorStep
  PROVE  BatchQuiet'
  <1> SUFFICES ASSUME ~httpTimedOut', mpc' \notin {"serving", "httpDrain", "killed"},
                      BatchRunning'
               PROVE  FALSE
    BY DEF BatchQuiet
  <1>1. ~httpTimedOut /\ mpc # "killed"
    BY CollectorLife
  <1>2. PICK i \in 1 .. Len(Batch) - 1 : pc'[Batch[i]] = "202" /\ pc'[Batch[i + 1]] = "idle"
    BY DEF BatchRunning
  <1>3. i \in DOMAIN Batch /\ i + 1 \in DOMAIN Batch
    BY BatchFacts
  <1>4. /\ Batch[i] \in Requests /\ Batch[i + 1] \in Requests
        /\ Moves(Batch[i]) /\ Moves(Batch[i + 1])
    BY <1>3, BatchFacts, CollectorMoves
  <1>5. pc[Batch[i + 1]] = "idle" /\ pc[Batch[i]] \in {"202", "count"}
    BY <1>2, <1>4 DEF Moves
  <1>6. CASE mpc \in {"serving", "httpDrain"}
    <2>1. ~BatchRunning /\ pc' = pc
      BY <1>6, CollectorLife
    <2> QED BY <1>2, <2>1 DEF BatchRunning
  <1>7. CASE mpc \notin {"serving", "httpDrain"}
    <2>1. pc[Batch[i]] = "202"
      BY <1>1, <1>4, <1>5, <1>7, NoneRuns DEF InFlight
    <2>2. ~BatchRunning
      BY <1>1, <1>7 DEF BatchQuiet
    <2> QED BY <1>5, <2>1, <2>2 DEF BatchRunning
  <1> QED BY <1>6, <1>7

\* What a step of the pool leaves alone.
LEMMA PoolLeaves ==
  ASSUME IndInv, PathTypeOK, Copies, PoolStep
  PROVE  /\ UNCHANGED <<ch, mpc, httpTimedOut>>
         /\ \A q \in Requests : pc'[q] = pc[q] \/ (pc[q] = "reading" /\ pc'[q] = "send")
  <1>1. CASE \E r \in Requests : Put(r)
    <2>1. PICK r \in Requests : Put(r)
      BY <1>1
    <2> QED BY <2>1, MoveOne DEF Put, CopyPayload, svcVars, mainVars
  <1>2. CASE (\E r \in Requests : Get(r) \/ Write(r) \/ Copy(r)) \/ PoolDrained
    BY <1>2 DEF Get, Write, Copy, PoolDrained, vars, svcVars, mainVars
  <1> QED BY <1>1, <1>2 DEF PoolStep

LEMMA PoolQuiet ==
  ASSUME IndInv, PathTypeOK, Copies, BatchQuiet, PoolStep
  PROVE  BatchQuiet'
  <1>1. /\ UNCHANGED <<mpc, httpTimedOut>>
        /\ \A q \in Requests : pc'[q] = pc[q] \/ (pc[q] = "reading" /\ pc'[q] = "send")
    BY PoolLeaves
  <1>2. \A i \in 1 .. Len(Batch) - 1 :
          pc'[Batch[i]] = "202" /\ pc'[Batch[i + 1]] = "idle" =>
            pc[Batch[i]] = "202" /\ pc[Batch[i + 1]] = "idle"
    <2> SUFFICES ASSUME NEW i \in 1 .. Len(Batch) - 1
                 PROVE  pc'[Batch[i]] = "202" /\ pc'[Batch[i + 1]] = "idle" =>
                          pc[Batch[i]] = "202" /\ pc[Batch[i + 1]] = "idle"
      OBVIOUS
    <2>1. i \in DOMAIN Batch /\ i + 1 \in DOMAIN Batch
      BY BatchFacts
    <2> QED BY <1>1, <2>1, BatchFacts
  <1> QED BY <1>1, <1>2 DEF BatchQuiet, BatchRunning

-----------------------------------------------------------------------------
(* The order of a batch.                                                    *)

\* Who was enqueued stays so.
LEMMA EnqueuedStays ==
  ASSUME NEW q \in Requests, Moves(q), Enqueued(q)
  PROVE  Enqueued(q)'
  BY DEF Moves, Enqueued, Sending

\* What happens to the channel: a send by a handler that had not enqueued yet, a
\* receive, or nothing.
Sends(r) == /\ pc[r] \in Sending /\ ch' = Append(ch, r)
            /\ pc'[r] = "count" /\ \A q \in Requests : q # r => pc'[q] = pc[q]

Receives == ch # <<>> /\ ch' = Tail(ch) /\ \A q \in Requests : Enqueued(q)' = Enqueued(q)

LEMMA ChannelMoves ==
  ASSUME IndInv, CollectorStep
  PROVE  \/ \E r \in Requests : Sends(r)
         \/ Receives
         \/ ch' = ch /\ \A q \in Requests : Enqueued(q)' = Enqueued(q)
  <1>1. ASSUME NEW r \in Requests, NEW l, l \notin {"count", "202"}, Goto(r, l),
               pc[r] \notin {"count", "202"}
        PROVE  \A q \in Requests : Enqueued(q)' = Enqueued(q)
    BY <1>1, MoveOne DEF Enqueued
  <1>2. CASE \/ \E r \in Requests \ InBatch : Arrive(r)
             \/ \E i \in DOMAIN Batch : BatchArrive(i)
             \/ \E r \in Requests : Unread(r)
    <2>1. ch' = ch
      BY <1>2 DEF Arrive, BatchArrive, Unread, BodyUnreadable, RejectEmpty, svcVars
    <2>2. PICK r \in Requests : \E l : /\ l \notin {"count", "202"} /\ Goto(r, l)
                                       /\ pc[r] \notin {"count", "202"}
      <3>1. CASE \/ \E r \in Requests \ InBatch : Arrive(r)
                 \/ \E r \in Requests : Unread(r)
        BY <3>1 DEF Arrive, Unread, BodyUnreadable, RejectEmpty
      <3>2. CASE \E i \in DOMAIN Batch : BatchArrive(i)
        BY <3>2, BatchFacts DEF BatchArrive
      <3> QED BY <1>2, <3>1, <3>2
    <2> QED BY <1>1, <2>1, <2>2
  <1>3. ASSUME NEW r \in Requests, ChannelStep(r)
        PROVE  \/ Sends(r)
               \/ Receives
               \/ ch' = ch /\ \A q \in Requests : Enqueued(q)' = Enqueued(q)
    <2>1. ASSUME pc[r] \in Sending, SendCase(r) PROVE Sends(r)
      BY <2>1, MoveOne DEF SendCase, Sends
    <2>2. ASSUME pc[r] \in Sending, SendPanics(r) \/ QueueSaturated(r) \/ MakeRoom(r)
          PROVE  ch' = ch /\ \A q \in Requests : Enqueued(q)' = Enqueued(q)
      <3>1. ch' = ch /\ \E l \in {"500", "503", "evict"} : Goto(r, l)
        BY <2>2 DEF SendPanics, QueueSaturated, MakeRoom, svcVars
      <3> QED BY <1>1, <2>2, <3>1 DEF Sending
    <2>3. CASE Enqueue(r) \/ Retry(r)
      BY <2>1, <2>2, <2>3 DEF Enqueue, Retry, Sending
    <2>4. CASE DiscardOldest(r)
      <3>1. \A q \in Requests : Enqueued(q)' = Enqueued(q)
        BY <1>1, <2>4 DEF DiscardOldest
      <3>2. ch' = ch \/ (ch # <<>> /\ ch' = Tail(ch))
        BY <2>4 DEF DiscardOldest, EvictHead, EvictNothing, NothingToEvict
      <3> QED BY <3>1, <3>2 DEF Receives
    <2>5. CASE CountIngest(r)
      <3>1. pc[r] = "count" /\ pc'[r] = "202" /\ ch' = ch
            /\ \A q \in Requests : q # r => pc'[q] = pc[q]
        BY <2>5, MoveOne DEF CountIngest, svcVars
      <3> QED BY <3>1 DEF Enqueued
    <2> QED BY <1>3, <2>3, <2>4, <2>5 DEF ChannelStep
  <1>4. ASSUME NEW w \in Workers, Worker(w)
        PROVE  Receives \/ (ch' = ch /\ \A q \in Requests : Enqueued(q)' = Enqueued(q))
    <2>1. pc' = pc /\ (ch' = ch \/ (ch # <<>> /\ ch' = Tail(ch)))
      BY <1>4 DEF Worker, TakeJob, WorkerExit, ParseFails, ParseSucceeds, PublishFails,
                  PublishSucceeds, svcVars
    <2> QED BY <2>1 DEF Receives, Enqueued
  <1>5. CASE MainStep \/ UNCHANGED vars
    <2>1. pc' = pc /\ ch' = ch
      BY <1>5 DEF MainStep, HttpDrained, HttpTimeout, DrainPoll, DrainTimeout, CloseChannel,
                  WgWait, ClosePublisher, StopSignal, Kill, Advance, vars, svcVars
    <2> QED BY <2>1 DEF Enqueued
  <1> QED BY <1>2, <1>3, <1>4, <1>5 DEF CollectorStep

\* The event before the one that starts was answered, those before it even sooner.
LEMMA PrefixStep ==
  ASSUME IndInv, BatchInOrder, CollectorStep,
         NEW i \in DOMAIN Batch, NEW j \in DOMAIN Batch, i < j, pc'[Batch[j]] # "idle"
  PROVE  Enqueued(Batch[i])'
  <1>1. /\ Batch[i] \in Requests /\ Batch[j] \in Requests
        /\ Moves(Batch[i]) /\ Moves(Batch[j])
        /\ i \in 1 .. Len(Batch) /\ j \in 1 .. Len(Batch) /\ Len(Batch) \in Nat
    BY BatchFacts, CollectorMoves
  <1>2. CASE pc[Batch[j]] # "idle"
    <2>1. Enqueued(Batch[i])
      BY <1>2 DEF BatchInOrder
    <2> QED BY <1>1, <2>1, EnqueuedStays
  <1>3. CASE pc[Batch[j]] = "idle"
    <2>1. pc[Batch[j - 1]] = "202"
      BY <1>1, <1>3 DEF Moves, Sending
    <2>2. j - 1 \in DOMAIN Batch
      BY <1>1, BatchFacts
    <2>3. Enqueued(Batch[i])
      <3>1. CASE i = j - 1
        BY <2>1, <3>1 DEF Enqueued
      <3>2. CASE i # j - 1
        <4>1. i < j - 1
          BY <1>1, <3>2
        <4> QED BY <2>1, <2>2, <4>1 DEF BatchInOrder
      <3> QED BY <3>1, <3>2
    <2> QED BY <1>1, <2>3, EnqueuedStays
  <1> QED BY <1>2, <1>3

\* A send: the event comes last, and no later one of its batch has been enqueued.
LEMMA SendInOrder ==
  ASSUME IndInv, BatchInOrder, ChannelInOrder, NEW r \in Requests, Sends(r),
         NEW i \in DOMAIN Batch, NEW j \in DOMAIN Batch, i < j
  PROVE  /\ \A a, b \in DOMAIN ch' : ch'[a] = Batch[i] /\ ch'[b] = Batch[j] => a < b
         /\ Buffered(Batch[i])' /\ Enqueued(Batch[j])' => Buffered(Batch[j])'
  <1> DEFINE p == Batch[i]  q == Batch[j]  n == Len(ch)
  <1>1. p \in Requests /\ q \in Requests /\ p # q
    <2>1. i # j
      BY BatchFacts
    <2> QED BY <2>1, BatchFacts, PathFacts
  <1>2. ~Enqueued(r) /\ ~Buffered(r)
    <2>1. ~Enqueued(r) /\ pc[r] # "503"
      BY DEF Sends, Sending, Enqueued
    <2> QED BY <2>1, NotEnqueued
  <1>3. Enqueued(q) => Enqueued(p)
    BY DEF BatchInOrder, Enqueued
  <1>4. Buffered(q) => Enqueued(q)
    BY <1>1 DEF IndInv, Conservation, SettledOnce
  <1>5. ch \in Seq(Requests) /\ n \in Nat /\ DOMAIN ch = 1 .. n
    BY LenProperties DEF IndInv, TypeOK
  <1>6. /\ DOMAIN ch' = 1 .. n + 1 /\ ch'[n + 1] = r
        /\ \A a \in 1 .. n : ch'[a] = ch[a]
    BY <1>5, AppendFacts DEF Sends
  <1>7. ASSUME NEW a \in DOMAIN ch', NEW b \in DOMAIN ch', ch'[a] = p, ch'[b] = q
        PROVE  a < b
    <2>1. CASE a = n + 1
      <3>1. p = r /\ b \in 1 .. n
        BY <1>1, <1>5, <1>6, <1>7, <2>1
      <3>2. Buffered(q)
        BY <1>5, <1>6, <1>7, <3>1 DEF Buffered
      <3> QED BY <1>2, <1>3, <1>4, <3>1, <3>2
    <2>2. CASE b = n + 1
      BY <1>1, <1>5, <1>6, <1>7, <2>2
    <2>3. CASE a \in 1 .. n /\ b \in 1 .. n
      BY <1>5, <1>6, <1>7, <2>3 DEF ChannelInOrder
    <2> QED BY <1>5, <1>6, <2>1, <2>2, <2>3
  <1>8. ASSUME Buffered(p)', Enqueued(q)' PROVE Buffered(q)'
    <2>1. \A x \in Requests : Buffered(x)' <=> Buffered(x) \/ x = r
      BY <1>2, SendFacts DEF IndInv, TypeOK, Conservation, Sends
    <2>2. CASE q = r
      BY <1>1, <2>1, <2>2
    <2>3. CASE q # r
      <3>1. Enqueued(q)
        BY <1>1, <1>8, <2>3 DEF Sends, Enqueued
      <3>2. Buffered(p)
        BY <1>1, <1>2, <1>3, <1>8, <2>1, <3>1
      <3> QED BY <1>1, <2>1, <3>1, <3>2 DEF BatchInOrder
    <2> QED BY <2>2, <2>3
  <1> QED BY <1>7, <1>8

\* A receive: what leaves is the first one.
LEMMA ReceiveInOrder ==
  ASSUME IndInv, BatchInOrder, ChannelInOrder, Receives,
         NEW i \in DOMAIN Batch, NEW j \in DOMAIN Batch, i < j
  PROVE  /\ \A a, b \in DOMAIN ch' : ch'[a] = Batch[i] /\ ch'[b] = Batch[j] => a < b
         /\ Buffered(Batch[i])' /\ Enqueued(Batch[j])' => Buffered(Batch[j])'
  <1> DEFINE p == Batch[i]  q == Batch[j]  n == Len(ch)
  <1>1. p \in Requests /\ q \in Requests
    BY BatchFacts
  <1>2. /\ ch \in Seq(Requests) /\ n \in Nat \ {0} /\ DOMAIN ch = 1 .. n
        /\ DOMAIN ch' = 1 .. n - 1 /\ Head(ch) = ch[1]
        /\ \A a \in 1 .. n - 1 : ch'[a] = ch[a + 1]
    BY TailFacts, LenProperties DEF IndInv, TypeOK, Receives
  <1>3. \A x \in Requests : Buffered(x)' <=> Buffered(x) /\ x # Head(ch)
    BY ReceiveFacts DEF IndInv, TypeOK, Conservation, Receives
  <1>4. \A a, b \in DOMAIN ch : ch[a] = p /\ ch[b] = q => a < b
    BY DEF ChannelInOrder
  <1>5. ASSUME NEW a \in DOMAIN ch', NEW b \in DOMAIN ch', ch'[a] = p, ch'[b] = q
        PROVE  a < b
    <2>1. a + 1 \in DOMAIN ch /\ b + 1 \in DOMAIN ch /\ ch[a + 1] = p /\ ch[b + 1] = q
      BY <1>2, <1>5
    <2>2. a + 1 < b + 1
      BY <1>4, <2>1
    <2> QED BY <1>2, <2>2
  <1>6. ASSUME Buffered(p)', Enqueued(q)' PROVE Buffered(q)'
    <2>1. Enqueued(q)
      BY <1>1, <1>6 DEF Receives
    <2>2. Buffered(p) /\ Buffered(q)
      BY <1>1, <1>3, <1>6, <2>1 DEF BatchInOrder
    <2>3. q # Head(ch)
      <3>1. PICK a \in DOMAIN ch : ch[a] = p
        BY <2>2 DEF Buffered
      <3>2. ch[1] = q => a < 1
        BY <1>2, <1>4, <3>1
      <3> QED BY <1>2, <3>2
    <2> QED BY <1>1, <1>3, <2>2, <2>3
  <1> QED BY <1>5, <1>6

LEMMA CollectorOrder ==
  ASSUME IndInv, BatchInOrder, ChannelInOrder, CollectorStep
  PROVE  BatchInOrder' /\ ChannelInOrder'
  <1> SUFFICES ASSUME NEW i \in DOMAIN Batch, NEW j \in DOMAIN Batch, i < j
               PROVE  /\ pc'[Batch[j]] # "idle" => Enqueued(Batch[i])'
                      /\ Buffered(Batch[i])' /\ Enqueued(Batch[j])' => Buffered(Batch[j])'
                      /\ \A a, b \in DOMAIN ch' : ch'[a] = Batch[i] /\ ch'[b] = Batch[j] => a < b
    BY DEF BatchInOrder, ChannelInOrder
  <1>1. pc'[Batch[j]] # "idle" => Enqueued(Batch[i])'
    BY PrefixStep
  <1>2. CASE (\E r \in Requests : Sends(r)) \/ Receives
    BY <1>1, <1>2, SendInOrder, ReceiveInOrder
  <1>3. CASE ch' = ch /\ \A q \in Requests : Enqueued(q)' = Enqueued(q)
    <2>1. Batch[j] \in Requests
      BY BatchFacts
    <2>2. Buffered(Batch[i])' = Buffered(Batch[i]) /\ Buffered(Batch[j])' = Buffered(Batch[j])
      BY <1>3 DEF Buffered
    <2>3. Buffered(Batch[i]) /\ Enqueued(Batch[j]) => Buffered(Batch[j])
      BY DEF BatchInOrder
    <2>4. \A a, b \in DOMAIN ch : ch[a] = Batch[i] /\ ch[b] = Batch[j] => a < b
      BY DEF ChannelInOrder
    <2> QED BY <1>1, <1>3, <2>1, <2>2, <2>3, <2>4
  <1> QED BY <1>2, <1>3, ChannelMoves

LEMMA PoolOrder ==
  ASSUME IndInv, PathTypeOK, Copies, BatchInOrder, ChannelInOrder, PoolStep
  PROVE  BatchInOrder' /\ ChannelInOrder'
  <1>1. /\ ch' = ch
        /\ \A q \in Requests : pc'[q] = pc[q] \/ (pc[q] = "reading" /\ pc'[q] = "send")
    BY PoolLeaves
  <1>2. \A q \in Requests : Enqueued(q)' = Enqueued(q) /\ (pc'[q] # "idle" => pc[q] # "idle")
    BY <1>1 DEF Enqueued
  <1>3. \A q : Buffered(q)' = Buffered(q)
    BY <1>1 DEF Buffered
  <1>4. BatchInOrder'
    BY <1>2, <1>3, BatchFacts DEF BatchInOrder
  <1>5. ChannelInOrder'
    BY <1>1 DEF ChannelInOrder
  <1> QED BY <1>4, <1>5

-----------------------------------------------------------------------------
(* The theorems.                                                            *)

LEMMA PathInitInv == PathInit => PathInv
  <1> SUFFICES ASSUME PathInit PROVE PathInv
    OBVIOUS
  <1>1. IndInv
    BY InitIndInv DEF PathInit
  <1>2. /\ \A r \in Requests : stage[r] = "none" /\ buf[r] = Nil /\ pc[r] = "idle"
        /\ ch = <<>> /\ pool = {} /\ mpc = "serving"
    BY DEF PathInit, Init
  <1>3. PathTypeOK
    BY DEF PathInit, PathTypeOK
  <1>4. Copies /\ PoolSound
    BY <1>2 DEF Copies, CopyInv, Copying, PoolSound
  <1>5. BatchQuiet
    BY <1>2 DEF BatchQuiet
  <1>6. BatchInOrder /\ ChannelInOrder
    <2>1. DOMAIN ch = {}
      BY <1>2, EmptySeq
    <2> QED BY <1>2, <2>1, BatchFacts DEF BatchInOrder, ChannelInOrder, Buffered, Enqueued
  <1> QED BY <1>1, <1>3, <1>4, <1>5, <1>6 DEF PathInv

LEMMA PathNextInv == PathInv /\ [PathNext]_<<vars, pathVars>> => PathInv'
  <1> SUFFICES ASSUME PathInv, [PathNext]_<<vars, pathVars>> PROVE PathInv'
    OBVIOUS
  <1> USE DEF PathInv
  <1>1. CASE CollectorStep /\ Unchanged
    BY <1>1, CollectorKeeps, CollectorPool, CollectorCopies, CollectorQuiet,
       CollectorOrder
  <1>2. CASE PoolStep
    BY <1>2, PoolKeeps, PoolStepSound, PoolQuiet, PoolOrder
  <1> QED BY <1>1, <1>2, PathSteps

\* The invariant of the way in: that of the collector, with the pool, the arrays
\* and the batch.
THEOREM PathInductive == PathSpec => []PathInv
  BY PathInitInv, PathNextInv, PTL DEF PathSpec

\* Type correctness of the pool, the arrays and the stages.
THEOREM PathTypeCorrect == PathSpec => []PathTypeOK
  <1>1. PathInv => PathTypeOK
    BY DEF PathInv
  <1> QED BY <1>1, PathInductive, PTL

\* The bytes of a job stay its request's for as long as anybody reads them,
\* whoever uses the pool in the meantime (copyPayload, handleJob).
THEOREM PayloadsIntact == PathSpec => []PayloadIntact
  <1>1. PathInv => PayloadIntact
    <2> SUFFICES ASSUME PathInv, NEW r \in Requests,
                        pc[r] \in Sending \/ Buffered(r) \/ Held(r)
                 PROVE  mem[payload[r]] = r
      BY DEF PayloadIntact
    <2>1. pc[r] \in Sending \/ Enqueued(r)
      BY DEF PathInv, IndInv, Conservation, SettledOnce
    <2>2. pc[r] \notin {"idle", "reading", "400"}
      BY <2>1 DEF Sending, Enqueued
    <2>3. payload[r] = r /\ mem[r] = r
      BY <2>2 DEF PathInv, Copies, CopyInv
    <2> QED BY <2>3
  <1> QED BY <1>1, PathInductive, PTL

\* A buffer has one user, and what the pool hands out is empty and small
\* (Get, Put of the pool).
THEOREM PoolIsSound == PathSpec => []PoolSound
  <1>1. PathInv => PoolSound
    BY DEF PathInv
  <1> QED BY <1>1, PathInductive, PTL

\* A batch is enqueued as a prefix and leaves the channel in its order (IngestBatch).
THEOREM BatchKeepsOrder == PathSpec => []BatchInOrder
  <1>1. PathInv => BatchInOrder
    BY DEF PathInv
  <1> QED BY <1>1, PathInductive, PTL

\* Pool and batch do not disturb what the collector promises: every
\* event is in one place, and a graceful stop loses none.
THEOREM PathConserves == PathSpec => []Conservation /\ []NoSilentLoss
  <1>1. PathInv => Conservation /\ NoSilentLoss
    BY StoppedSettled DEF PathInv, IndInv, NoSilentLoss
  <1> QED BY <1>1, PathInductive, PTL

-----------------------------------------------------------------------------
(* The contract of the collector, with the way in as it is.                 *)

\* The next event of a batch arrives when the previous one was accepted, which may
\* be after main has stopped serving: no step of Collector, and none of the contract.
LEMMA BatchArriveImplements ==
  ASSUME IndInv, IndInv', NEW i \in DOMAIN Batch, BatchArrive(i)
  PROVE  UNCHANGED Contract!vars
  <1>1. /\ Batch[i] \in Requests /\ Goto(Batch[i], "reading") /\ pc[Batch[i]] = "idle"
        /\ UNCHANGED <<ledger, mpc>> /\ Alive /\ Alive' /\ Life' = Life
    BY BatchFacts DEF BatchArrive, countVars, mainVars, Alive, Life
  <1>2. /\ pc'[Batch[i]] = "reading"
        /\ \A q \in Requests : q # Batch[i] => pc'[q] = pc[q]
    BY <1>1, MoveOne
  <1> QED BY <1>1, <1>2, QuietStep DEF IndInv, Statuses

LEMMA CollectorNext ==
  ASSUME CollectorStep, ~ \E i \in DOMAIN Batch : BatchArrive(i) PROVE [Next]_vars
  BY DEF CollectorStep, MainStep, Unread, ChannelStep, Next, Handler, Shutdown

LEMMA PathNextImplements ==
  PathInv /\ PathInv' /\ [PathNext]_<<vars, pathVars>> => [Contract!Next]_Contract!vars
  <1> SUFFICES ASSUME PathInv, PathInv', [PathNext]_<<vars, pathVars>>
               PROVE  [Contract!Next]_Contract!vars
    OBVIOUS
  <1>1. IndInv /\ IndInv'
    BY DEF PathInv
  <1>2. CASE \E i \in DOMAIN Batch : BatchArrive(i)
    BY <1>1, <1>2, BatchArriveImplements
  <1>3. CASE CollectorStep /\ ~ \E i \in DOMAIN Batch : BatchArrive(i)
    BY <1>1, <1>3, CollectorNext, NextImplements
  <1>4. CASE PoolStep
    <2>1. UNCHANGED vars \/ \E r \in Requests : CopyPayload(r)
      BY <1>4 DEF PoolStep, Get, Write, Copy, Put, PoolDrained
    <2>2. [Next]_vars
      BY <2>1 DEF Next, Handler
    <2> QED BY <1>1, <2>2, NextImplements
  <1> QED BY <1>2, <1>3, <1>4, PathSteps

\* With pool and batches the collector still does what IngestContract
\* says, although a batch may bring events after main has stopped serving
\* (service.go:75-166, collector/main.go:92-105).
THEOREM PathImplementsContract == PathSpec => Contract!Safety
  <1>1. PathInit => Contract!Init
    BY InitImplements DEF PathInit
  <1>2. PathInv /\ PathInv' /\ [PathNext]_<<vars, pathVars>> => [Contract!Next]_Contract!vars
    BY PathNextImplements
  <1> QED BY <1>1, <1>2, PathInductive, PTL DEF PathSpec, Contract!Safety

=============================================================================

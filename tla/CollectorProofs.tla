--------------------------- MODULE CollectorProofs ---------------------------
(***************************************************************************)
(* TLAPS proofs about the collector, for every set of requests and         *)
(* workers, every capacity and both drop policies; at the end what each    *)
(* of the two policies promises.                                           *)
(***************************************************************************)
EXTENDS Collector, SequenceTheorems, TLAPS

-----------------------------------------------------------------------------
(* The channel as a sequence.                                               *)

LEMMA AppendFacts ==
  ASSUME NEW S, NEW s \in Seq(S), NEW e \in S
  PROVE  /\ Append(s, e) \in Seq(S)
         /\ Len(Append(s, e)) = Len(s) + 1
         /\ DOMAIN Append(s, e) = 1 .. Len(s) + 1
         /\ \A i \in 1 .. Len(s) : Append(s, e)[i] = s[i]
         /\ Append(s, e)[Len(s) + 1] = e
  BY SMT

LEMMA TailFacts ==
  ASSUME NEW S, NEW s \in Seq(S), s # <<>>
  PROVE  /\ Head(s) \in S /\ Head(s) = s[1]
         /\ Len(s) \in Nat \ {0}
         /\ Tail(s) \in Seq(S)
         /\ Len(Tail(s)) = Len(s) - 1
         /\ DOMAIN Tail(s) = 1 .. Len(s) - 1
         /\ \A i \in 1 .. Len(s) - 1 : Tail(s)[i] = s[i + 1]
  BY SMT

\* A send puts one request at the end and disturbs no other.
LEMMA SendFacts ==
  ASSUME ch \in Seq(Requests), BufferedOnce,
         NEW r \in Requests, ~Buffered(r), ch' = Append(ch, r)
  PROVE  /\ ch' \in Seq(Requests) /\ Len(ch') = Len(ch) + 1
         /\ BufferedOnce'
         /\ \A q \in Requests : Buffered(q)' <=> Buffered(q) \/ q = r
  <1>1. /\ ch' \in Seq(Requests) /\ Len(ch') = Len(ch) + 1
        /\ DOMAIN ch' = 1 .. Len(ch) + 1
        /\ \A i \in 1 .. Len(ch) : ch'[i] = ch[i]
        /\ ch'[Len(ch) + 1] = r
    BY AppendFacts
  <1>2. DOMAIN ch = 1 .. Len(ch) /\ Len(ch) \in Nat
    BY SMT
  <1>3. BufferedOnce'
    BY <1>1, <1>2 DEF BufferedOnce, Buffered
  <1>4. ASSUME NEW q \in Requests PROVE Buffered(q)' <=> Buffered(q) \/ q = r
    BY <1>1, <1>2 DEF Buffered
  <1> QED BY <1>1, <1>3, <1>4

\* A receive takes the oldest request and disturbs no other.
LEMMA ReceiveFacts ==
  ASSUME ch \in Seq(Requests), BufferedOnce, ch # <<>>, ch' = Tail(ch)
  PROVE  /\ Head(ch) \in Requests /\ Buffered(Head(ch))
         /\ ch' \in Seq(Requests) /\ Len(ch') <= Len(ch)
         /\ BufferedOnce'
         /\ \A q \in Requests : Buffered(q)' <=> Buffered(q) /\ q # Head(ch)
  <1>1. /\ Head(ch) \in Requests /\ Head(ch) = ch[1]
        /\ Len(ch) \in Nat \ {0}
        /\ ch' \in Seq(Requests)
        /\ Len(ch') = Len(ch) - 1
        /\ DOMAIN ch' = 1 .. Len(ch) - 1
        /\ \A i \in 1 .. Len(ch) - 1 : ch'[i] = ch[i + 1]
    BY TailFacts
  <1>2. DOMAIN ch = 1 .. Len(ch)
    BY SMT
  <1>3. BufferedOnce'
    BY <1>1, <1>2 DEF BufferedOnce
  <1>4. Buffered(Head(ch))
    BY <1>1, <1>2 DEF Buffered
  <1>5. ASSUME NEW q \in Requests PROVE Buffered(q)' <=> Buffered(q) /\ q # Head(ch)
    <2>1. ASSUME Buffered(q)' PROVE Buffered(q) /\ q # Head(ch)
      <3>1. PICK i \in 1 .. Len(ch) - 1 : ch'[i] = q
        BY <2>1, <1>1 DEF Buffered
      <3>2. i + 1 \in DOMAIN ch /\ ch[i + 1] = q /\ i + 1 # 1
        BY <3>1, <1>1, <1>2
      <3> QED BY <3>2, <1>1, <1>2 DEF Buffered, BufferedOnce
    <2>2. ASSUME Buffered(q), q # Head(ch) PROVE Buffered(q)'
      <3>1. PICK i \in 1 .. Len(ch) : ch[i] = q
        BY <2>2, <1>2 DEF Buffered
      <3>2. i # 1 /\ i - 1 \in DOMAIN ch' /\ ch'[i - 1] = q
        BY <2>2, <3>1, <1>1
      <3> QED BY <3>2 DEF Buffered
    <2> QED BY <2>1, <2>2
  <1> QED BY <1>1, <1>3, <1>4, <1>5

-----------------------------------------------------------------------------
(* The ledger.                                                              *)

OutcomeLabels == {"published", "channel_full", "parse_error", "publish_error"}

LEMMA SumOfNats ==
  ASSUME NEW a \in Nat, NEW b \in Nat, NEW c \in Nat, NEW d \in Nat
  PROVE  /\ a + b + c + d \in Nat
         /\ a + b + c + d = 0 => a = 0 /\ b = 0 /\ c = 0 /\ d = 0
  BY SMT

LEMMA OutcomesNat ==
  ASSUME TypeOK, NEW r \in Requests
  PROVE  /\ \A l \in Labels : ledger[r][l] \in Nat
         /\ Outcomes(r) \in Nat
         /\ \A l \in OutcomeLabels : Outcomes(r) = 0 => ledger[r][l] = 0
  <1>1. ledger[r] \in [Labels -> Nat]
    BY DEF TypeOK
  <1>2. \A l \in Labels : ledger[r][l] \in Nat
    BY <1>1
  <1>3. /\ ledger[r]["published"] \in Nat /\ ledger[r]["channel_full"] \in Nat
        /\ ledger[r]["parse_error"] \in Nat /\ ledger[r]["publish_error"] \in Nat
    BY <1>2 DEF Labels
  <1>4. Outcomes(r) \in Nat
    BY <1>3, SumOfNats DEF Outcomes
  <1>5. ASSUME Outcomes(r) = 0
        PROVE  /\ ledger[r]["published"] = 0 /\ ledger[r]["channel_full"] = 0
               /\ ledger[r]["parse_error"] = 0 /\ ledger[r]["publish_error"] = 0
    BY <1>3, <1>5, SumOfNats DEF Outcomes
  <1> QED BY <1>2, <1>4, <1>5 DEF OutcomeLabels

\* An increment is seen under its own request and label only.
LEMMA IncFacts ==
  ASSUME TypeOK, NEW r \in Requests, NEW l \in Labels, Inc(r, l)
  PROVE  /\ ledger' \in [Requests -> [Labels -> Nat]]
         /\ ledger'[r][l] = ledger[r][l] + 1
         /\ \A q \in Requests, k \in Labels :
              (q # r \/ k # l) => ledger'[q][k] = ledger[q][k]
  <1>1. ledger \in [Requests -> [Labels -> Nat]]
    BY DEF TypeOK
  <1>2. ledger' = [ledger EXCEPT ![r] = [ledger[r] EXCEPT ![l] = ledger[r][l] + 1]]
    BY DEF Inc
  <1>3. [ledger[r] EXCEPT ![l] = ledger[r][l] + 1] \in [Labels -> Nat]
    BY <1>1
  <1> QED BY <1>1, <1>2, <1>3

\* An outcome is settled for one request; an ingest or an empty settles none.
LEMMA IncOutcomes ==
  ASSUME TypeOK, NEW r \in Requests, NEW l \in Labels, Inc(r, l)
  PROVE  \A q \in Requests :
           Outcomes(q)' = IF q = r /\ l \in OutcomeLabels THEN Outcomes(q) + 1
                                                         ELSE Outcomes(q)
  <1> SUFFICES ASSUME NEW q \in Requests
               PROVE  Outcomes(q)' = IF q = r /\ l \in OutcomeLabels
                                       THEN Outcomes(q) + 1 ELSE Outcomes(q)
    OBVIOUS
  <1>1. \A k \in Labels : ledger[q][k] \in Nat
    BY OutcomesNat
  <1>2. /\ ledger'[r][l] = ledger[r][l] + 1
        /\ \A k \in Labels : (q # r \/ k # l) => ledger'[q][k] = ledger[q][k]
    BY IncFacts
  <1>3. CASE q # r
    BY <1>1, <1>2, <1>3 DEF Outcomes, Labels
  <1>4. CASE q = r
    <2>1. /\ ledger[r]["published"] \in Nat /\ ledger[r]["channel_full"] \in Nat
          /\ ledger[r]["parse_error"] \in Nat /\ ledger[r]["publish_error"] \in Nat
      BY <1>1, <1>4 DEF Labels
    <2>2. \A k \in Labels : ledger'[r][k] = IF k = l THEN ledger[r][k] + 1 ELSE ledger[r][k]
      BY <1>2, <1>4
    <2>3. CASE l \notin OutcomeLabels
      BY <2>2, <2>3, <1>4 DEF Outcomes, Labels, OutcomeLabels
    <2>4. CASE l = "published"
      BY <2>1, <2>2, <2>4, <1>4 DEF Outcomes, Labels, OutcomeLabels
    <2>5. CASE l = "channel_full"
      BY <2>1, <2>2, <2>5, <1>4 DEF Outcomes, Labels, OutcomeLabels
    <2>6. CASE l = "parse_error"
      BY <2>1, <2>2, <2>6, <1>4 DEF Outcomes, Labels, OutcomeLabels
    <2>7. CASE l = "publish_error"
      BY <2>1, <2>2, <2>7, <1>4 DEF Outcomes, Labels, OutcomeLabels
    <2> QED BY <2>3, <2>4, <2>5, <2>6, <2>7 DEF OutcomeLabels
  <1> QED BY <1>3, <1>4

\* A worker that handles a job holds a request.
LEMMA BusyHolds ==
  ASSUME TypeOK, HoldsWhileBusy, NEW w \in Workers, wpc[w] \in {"parse", "publish"}
  PROVE  job[w] \in Requests
  BY DEF TypeOK, HoldsWhileBusy

-----------------------------------------------------------------------------
(* Type correctness.                                                        *)

LEMMA InitTypeOK == Init => TypeOK
  <1> SUFFICES ASSUME Init PROVE TypeOK
    OBVIOUS
  <1>1. ch \in Seq(Requests) /\ Len(ch) <= ChannelCapacity
    BY CollectorAssumption, EmptySeq DEF Init
  <1>2. ledger \in [Requests -> [Labels -> Nat]]
    BY DEF Init
  <1> QED BY <1>1, <1>2 DEF Init, TypeOK

-----------------------------------------------------------------------------
(* What leaves the bookkeeping alone.                                       *)

\* Conservation reads the channel, the workers' jobs, the ledger and Enqueued.
LEMMA ConservationFrame ==
  ASSUME Conservation, UNCHANGED <<ch, job, ledger>>,
         \A q \in Requests : Enqueued(q)' <=> Enqueued(q)
  PROVE  Conservation'
  <1>1. \A q \in Requests : /\ Buffered(q)' <=> Buffered(q)
                            /\ Held(q)' <=> Held(q)
                            /\ Outcomes(q)' = Outcomes(q)
    BY DEF Buffered, Held, Outcomes
  <1>2. BufferedOnce' /\ HeldOnce'
    BY DEF Conservation, BufferedOnce, HeldOnce
  <1>3. SettledOnce'
    BY <1>1 DEF Conservation, SettledOnce
  <1> QED BY <1>2, <1>3 DEF Conservation

\* LedgerExact reads the ledger and the final statuses.
LEMMA LedgerFrame ==
  ASSUME LedgerExact, UNCHANGED ledger,
         \A q \in Requests : /\ Enqueued(q)' <=> Enqueued(q)
                             /\ pc'[q] = "202" <=> pc[q] = "202"
                             /\ pc'[q] = "503" <=> pc[q] = "503"
                             /\ pc[q] = "400" => pc'[q] = "400"
  PROVE  LedgerExact'
  <1>1. \A q \in Requests : Outcomes(q)' = Outcomes(q)
    BY DEF Outcomes
  <1> QED BY <1>1 DEF LedgerExact

\* The lifecycle parts read the workers, main, closed and the handlers in flight.
Lifecycle == /\ HoldsWhileBusy /\ ClosedLast /\ ExitedDrained
             /\ PublisherOutlivesWorkers /\ DrainedQuiet /\ NeverPanicked

LEMMA IndInvParts ==
  IndInv <=> TypeOK /\ Conservation /\ LedgerExact /\ Lifecycle
  BY DEF IndInv, Lifecycle

\* A handler that finishes or moves on, without a new one: the lifecycle stays.
LEMMA LifecycleFrame ==
  ASSUME Lifecycle, UNCHANGED <<closed, wpc, job, mpc, phantom, httpTimedOut>>,
         ch' = <<>> \/ ~closed \/ ch # <<>>,
         \A q \in Requests : /\ pc'[q] \in InFlight => pc[q] \in InFlight
                             /\ pc'[q] = "500" => pc[q] = "500"
  PROVE  Lifecycle'
  <1>1. HoldsWhileBusy' /\ ClosedLast' /\ PublisherOutlivesWorkers'
    BY DEF Lifecycle, HoldsWhileBusy, ClosedLast, PublisherOutlivesWorkers
  <1>2. ExitedDrained'
    BY DEF Lifecycle, ExitedDrained
  <1>3. DrainedQuiet' /\ NeverPanicked'
    BY DEF Lifecycle, DrainedQuiet, NeverPanicked
  <1> QED BY <1>1, <1>2, <1>3 DEF Lifecycle

\* Once the handlers are drained, or the channel closed after that, none runs.
LEMMA RunningHandler ==
  ASSUME Lifecycle, ~httpTimedOut, NEW r \in Requests, pc[r] \in InFlight
  PROVE  ~closed /\ mpc \in {"serving", "httpDrain", "killed"}
  BY DEF Lifecycle, DrainedQuiet

LEMMA GotoFacts ==
  ASSUME TypeOK, NEW r \in Requests, NEW l, Goto(r, l),
         l \in {"idle"} \cup InFlight \cup Statuses
  PROVE  /\ pc' \in [Requests -> {"idle"} \cup InFlight \cup Statuses]
         /\ pc'[r] = l
         /\ \A q \in Requests : q # r => pc'[q] = pc[q]
  BY DEF TypeOK, Goto

-----------------------------------------------------------------------------
(* The handlers.                                                            *)

\* Steps that move a handler before or without an enqueue.
LEMMA ArriveStep ==
  ASSUME IndInv, NEW r \in Requests, Arrive(r) PROVE IndInv'
  <1>1. /\ pc' \in [Requests -> {"idle"} \cup InFlight \cup Statuses]
        /\ pc'[r] = "reading" /\ pc[r] = "idle"
        /\ \A q \in Requests : q # r => pc'[q] = pc[q]
    BY GotoFacts DEF IndInv, Arrive, InFlight
  <1>2. TypeOK'
    BY <1>1 DEF IndInv, TypeOK, Arrive, svcVars, workVars, countVars, mainVars
  <1>3. Conservation'
    BY <1>1, ConservationFrame
       DEF IndInv, Enqueued, Arrive, svcVars, workVars, countVars
  <1>4. LedgerExact'
    BY <1>1, LedgerFrame DEF IndInv, Enqueued, Arrive, countVars
  <1>5. HoldsWhileBusy' /\ ClosedLast' /\ ExitedDrained' /\ PublisherOutlivesWorkers'
    BY DEF IndInv, HoldsWhileBusy, ClosedLast, ExitedDrained,
           PublisherOutlivesWorkers, Arrive, svcVars, workVars, mainVars
  <1>6. DrainedQuiet' /\ NeverPanicked'
    BY <1>1 DEF IndInv, ClosedLast, DrainedQuiet, NeverPanicked, Arrive,
                svcVars, countVars, mainVars
  <1> QED BY <1>2, <1>3, <1>4, <1>5, <1>6 DEF IndInv

\* BodyUnreadable, CopyPayload and MakeRoom: a handler goes on or answers 400.
LEMMA HandlerMoves ==
  ASSUME IndInv, NEW r \in Requests, pc[r] \in {"reading", "send"},
         NEW l \in {"send", "evict", "400"}, Goto(r, l),
         UNCHANGED <<svcVars, workVars, countVars, mainVars, overtaken>>
  PROVE  IndInv'
  <1>1. /\ pc' \in [Requests -> {"idle"} \cup InFlight \cup Statuses]
        /\ pc'[r] = l
        /\ \A q \in Requests : q # r => pc'[q] = pc[q]
    BY GotoFacts DEF IndInv, InFlight, Sending, Statuses
  <1>2. TypeOK'
    BY <1>1 DEF IndInv, TypeOK, svcVars, workVars, countVars, mainVars
  <1>3. Conservation'
    BY <1>1, ConservationFrame DEF IndInv, Enqueued, svcVars, workVars, countVars
  <1>4. LedgerExact'
    BY <1>1, LedgerFrame DEF IndInv, Enqueued, countVars
  <1>5. Lifecycle'
    BY <1>1, LifecycleFrame, IndInvParts
       DEF InFlight, Sending, svcVars, workVars, countVars, mainVars
  <1> QED BY <1>2, <1>3, <1>4, <1>5 DEF IndInv, Lifecycle

LEMMA PanicStep ==
  ASSUME IndInv, NEW r \in Requests, pc[r] \in Sending, SendPanics(r)
  PROVE  IndInv'
  <1>1. /\ pc' \in [Requests -> {"idle"} \cup InFlight \cup Statuses]
        /\ pc'[r] = "500" /\ pc[r] \notin Statuses \cup {"count"}
        /\ \A q \in Requests : q # r => pc'[q] = pc[q]
    BY GotoFacts DEF IndInv, SendPanics, Sending, Statuses
  <1>2. TypeOK'
    BY <1>1 DEF IndInv, TypeOK, SendPanics, svcVars, workVars, countVars, mainVars
  <1>3. Conservation'
    BY <1>1, ConservationFrame
       DEF IndInv, Enqueued, SendPanics, Statuses, svcVars, workVars, countVars
  <1>4. LedgerExact'
    BY <1>1, LedgerFrame DEF IndInv, Enqueued, SendPanics, Statuses, countVars
  <1>5. httpTimedOut /\ httpTimedOut'
    BY RunningHandler, IndInvParts DEF SendPanics, InFlight, IndInv, TypeOK, mainVars
  <1>6. DrainedQuiet' /\ NeverPanicked'
    BY <1>5 DEF DrainedQuiet, NeverPanicked
  <1>7. HoldsWhileBusy' /\ ClosedLast' /\ ExitedDrained' /\ PublisherOutlivesWorkers'
    BY DEF IndInv, HoldsWhileBusy, ClosedLast, ExitedDrained,
           PublisherOutlivesWorkers, SendPanics, svcVars, workVars, mainVars
  <1> QED BY <1>2, <1>3, <1>4, <1>6, <1>7 DEF IndInv

\* An event nobody enqueued is nowhere and settled nowhere.
LEMMA NotEnqueued ==
  ASSUME IndInv, NEW r \in Requests, ~Enqueued(r), pc[r] # "503"
  PROVE  ~Buffered(r) /\ ~Held(r) /\ Outcomes(r) = 0
  BY DEF IndInv, Conservation, SettledOnce, LedgerExact

LEMMA SendStep ==
  ASSUME IndInv, NEW r \in Requests, pc[r] \in Sending, SendCase(r)
  PROVE  IndInv'
  <1>1. /\ pc' \in [Requests -> {"idle"} \cup InFlight \cup Statuses]
        /\ pc'[r] = "count" /\ pc[r] \notin Statuses \cup {"count"}
        /\ \A q \in Requests : q # r => pc'[q] = pc[q]
    BY GotoFacts DEF IndInv, SendCase, Sending, InFlight, Statuses
  <1>2. ~Buffered(r) /\ ~Held(r) /\ Outcomes(r) = 0
    BY <1>1, NotEnqueued DEF Enqueued, Statuses
  <1>3. /\ ch' \in Seq(Requests) /\ Len(ch') = Len(ch) + 1
        /\ BufferedOnce'
        /\ \A q \in Requests : Buffered(q)' <=> Buffered(q) \/ q = r
    BY <1>2, SendFacts DEF IndInv, TypeOK, Conservation, SendCase
  <1>4. TypeOK'
    <2>1. overtaken' \in [Requests -> BOOLEAN]
      BY DEF IndInv, TypeOK, SendCase
    <2>2. Len(ch') <= ChannelCapacity
      BY <1>3, CollectorAssumption DEF IndInv, TypeOK, SendCase, HasRoom
    <2> QED BY <1>1, <1>3, <2>1, <2>2
            DEF IndInv, TypeOK, SendCase, workVars, countVars, mainVars
  <1>5. \A q \in Requests : /\ Outcomes(q)' = Outcomes(q)
                            /\ Held(q)' <=> Held(q)
                            /\ Enqueued(q)' <=> Enqueued(q) \/ q = r
    BY <1>1 DEF SendCase, Outcomes, Held, Enqueued, workVars, countVars
  <1>6. Conservation'
    <2>1. HeldOnce'
      BY DEF IndInv, Conservation, HeldOnce, SendCase, workVars
    <2>2. SettledOnce'
      BY <1>2, <1>3, <1>5 DEF IndInv, Conservation, SettledOnce
    <2> QED BY <1>3, <2>1, <2>2 DEF Conservation
  <1>7. LedgerExact'
    BY <1>1, <1>5 DEF IndInv, LedgerExact, SendCase, Statuses, countVars
  <1>8. Lifecycle'
    BY <1>1, LifecycleFrame, IndInvParts
       DEF InFlight, Sending, SendCase, workVars, countVars, mainVars
  <1> QED BY <1>4, <1>6, <1>7, <1>8 DEF IndInv, Lifecycle

\* An answer that comes with a counter: 400 (empty), 503 (channel_full), 202 (ingest).
LEMMA AnswerFacts ==
  ASSUME IndInv, NEW r \in Requests, pc[r] \in InFlight,
         NEW s \in Statuses, s # "500", Goto(r, s),
         NEW l \in Labels, Inc(r, l),
         UNCHANGED <<svcVars, workVars, phantom, mainVars, overtaken>>
  PROVE  /\ TypeOK' /\ Lifecycle'
         /\ pc'[r] = s
         /\ \A q \in Requests : q # r => pc'[q] = pc[q]
         /\ \A q \in Requests : Buffered(q)' <=> Buffered(q)
         /\ \A q \in Requests : Held(q)' <=> Held(q)
         /\ BufferedOnce' /\ HeldOnce'
  <1>1. /\ pc' \in [Requests -> {"idle"} \cup InFlight \cup Statuses]
        /\ pc'[r] = s
        /\ \A q \in Requests : q # r => pc'[q] = pc[q]
    BY GotoFacts DEF IndInv
  <1>2. TypeOK'
    BY <1>1, IncFacts DEF IndInv, TypeOK, svcVars, workVars, mainVars
  <1>3. Lifecycle'
    BY <1>1, LifecycleFrame, IndInvParts
       DEF InFlight, Sending, Statuses, svcVars, workVars, mainVars
  <1>4. BufferedOnce' /\ HeldOnce'
    BY DEF IndInv, Conservation, BufferedOnce, HeldOnce, svcVars, workVars
  <1> QED BY <1>1, <1>2, <1>3, <1>4 DEF Buffered, Held, svcVars, workVars

LEMMA RejectEmptyStep ==
  ASSUME IndInv, NEW r \in Requests, RejectEmpty(r) PROVE IndInv'
  <1>1. pc[r] = "reading" /\ "empty" \in Labels /\ "400" \in Statuses
    BY DEF RejectEmpty, Labels, Statuses
  <1>2. /\ TypeOK' /\ Lifecycle'
        /\ pc'[r] = "400"
        /\ \A q \in Requests : q # r => pc'[q] = pc[q]
        /\ \A q \in Requests : Buffered(q)' <=> Buffered(q)
        /\ \A q \in Requests : Held(q)' <=> Held(q)
        /\ BufferedOnce' /\ HeldOnce'
    BY <1>1, AnswerFacts DEF RejectEmpty, InFlight
  <1>3. \A q \in Requests : Outcomes(q)' = Outcomes(q)
    BY <1>1, IncOutcomes DEF IndInv, RejectEmpty, OutcomeLabels
  <1>4. \A q \in Requests : Enqueued(q)' <=> Enqueued(q)
    BY <1>1, <1>2 DEF Enqueued
  <1>5. Conservation'
    BY <1>2, <1>3, <1>4 DEF IndInv, Conservation, SettledOnce
  <1>6. \A q \in Requests, k \in Labels : q # r \/ k # "empty" => ledger'[q][k] = ledger[q][k]
    BY <1>1, IncFacts DEF IndInv, RejectEmpty
  <1>7. LedgerExact'
    BY <1>1, <1>2, <1>3, <1>4, <1>6 DEF IndInv, LedgerExact, Labels
  <1> QED BY <1>2, <1>5, <1>7 DEF IndInv, Lifecycle

LEMMA SaturatedStep ==
  ASSUME IndInv, NEW r \in Requests, pc[r] \in Sending, QueueSaturated(r)
  PROVE  IndInv'
  <1>1. /\ pc[r] \in InFlight \ {"count"} /\ pc[r] \notin Statuses
        /\ "channel_full" \in Labels /\ "503" \in Statuses
    BY DEF Labels, Sending, InFlight, Statuses
  <1>2. /\ TypeOK' /\ Lifecycle'
        /\ pc'[r] = "503"
        /\ \A q \in Requests : q # r => pc'[q] = pc[q]
        /\ \A q \in Requests : Buffered(q)' <=> Buffered(q)
        /\ \A q \in Requests : Held(q)' <=> Held(q)
        /\ BufferedOnce' /\ HeldOnce'
    BY <1>1, AnswerFacts DEF QueueSaturated
  <1>3. \A q \in Requests : Outcomes(q)' = IF q = r THEN Outcomes(q) + 1 ELSE Outcomes(q)
    BY <1>1, IncOutcomes DEF IndInv, QueueSaturated, OutcomeLabels
  <1>4. \A q \in Requests : Enqueued(q)' <=> Enqueued(q)
    BY <1>1, <1>2 DEF Enqueued, Statuses
  <1>5. ~Enqueued(r) /\ Outcomes(r) = 0 /\ ledger[r]["channel_full"] = 0
    BY <1>1, NotEnqueued, OutcomesNat DEF IndInv, Enqueued, OutcomeLabels, Statuses
  <1>6. Conservation'
    BY <1>2, <1>3, <1>4, <1>5 DEF IndInv, Conservation, SettledOnce
  <1>7. /\ ledger'[r]["channel_full"] = 1
        /\ \A q \in Requests, k \in Labels :
             q # r \/ k # "channel_full" => ledger'[q][k] = ledger[q][k]
    BY <1>1, <1>5, IncFacts DEF IndInv, QueueSaturated
  <1>8. LedgerExact'
    BY <1>1, <1>2, <1>3, <1>4, <1>5, <1>7 DEF IndInv, LedgerExact, Labels, Statuses
  <1> QED BY <1>2, <1>6, <1>8 DEF IndInv, Lifecycle

LEMMA CountIngestStep ==
  ASSUME IndInv, NEW r \in Requests, CountIngest(r) PROVE IndInv'
  <1>1. pc[r] = "count" /\ "ingest" \in Labels /\ "202" \in Statuses
    BY DEF CountIngest, Labels, Statuses
  <1>2. /\ TypeOK' /\ Lifecycle'
        /\ pc'[r] = "202"
        /\ \A q \in Requests : q # r => pc'[q] = pc[q]
        /\ \A q \in Requests : Buffered(q)' <=> Buffered(q)
        /\ \A q \in Requests : Held(q)' <=> Held(q)
        /\ BufferedOnce' /\ HeldOnce'
    BY <1>1, AnswerFacts DEF CountIngest, InFlight
  <1>3. \A q \in Requests : Outcomes(q)' = Outcomes(q)
    BY <1>1, IncOutcomes DEF IndInv, CountIngest, OutcomeLabels
  <1>4. \A q \in Requests : Enqueued(q)' <=> Enqueued(q)
    BY <1>1, <1>2 DEF Enqueued
  <1>5. Conservation'
    BY <1>2, <1>3, <1>4 DEF IndInv, Conservation, SettledOnce
  <1>6. /\ ledger'[r]["ingest"] = ledger[r]["ingest"] + 1
        /\ \A q \in Requests, k \in Labels :
             q # r \/ k # "ingest" => ledger'[q][k] = ledger[q][k]
    BY <1>1, IncFacts DEF IndInv, CountIngest
  <1>7. LedgerExact'
    BY <1>1, <1>2, <1>3, <1>4, <1>6 DEF IndInv, LedgerExact, Labels
  <1> QED BY <1>2, <1>5, <1>7 DEF IndInv, Lifecycle

\* The eviction settles the oldest buffered event, which is not the evictor's.
LEMMA EvictHeadStep ==
  ASSUME IndInv, NEW r \in Requests, DiscardOldest(r), EvictHead(r)
  PROVE  IndInv'
  <1> DEFINE h == Head(ch)
  <1>1. /\ pc' \in [Requests -> {"idle"} \cup InFlight \cup Statuses]
        /\ pc'[r] = "resend" /\ pc[r] = "evict"
        /\ \A q \in Requests : q # r => pc'[q] = pc[q]
    BY GotoFacts DEF IndInv, DiscardOldest, Sending, InFlight
  <1>2. /\ h \in Requests /\ Buffered(h)
        /\ ch' \in Seq(Requests) /\ Len(ch') <= Len(ch)
        /\ BufferedOnce'
        /\ \A q \in Requests : Buffered(q)' <=> Buffered(q) /\ q # h
    BY ReceiveFacts DEF IndInv, TypeOK, Conservation, EvictHead
  <1>3. Enqueued(h) /\ ~Held(h) /\ Outcomes(h) = 0
    BY <1>2 DEF IndInv, Conservation, SettledOnce
  <1>4. "channel_full" \in Labels /\ "channel_full" \in OutcomeLabels
    BY DEF Labels, OutcomeLabels
  <1>5. /\ ledger' \in [Requests -> [Labels -> Nat]]
        /\ \A q \in Requests, k \in Labels :
             q # h \/ k # "channel_full" => ledger'[q][k] = ledger[q][k]
        /\ \A q \in Requests :
             Outcomes(q)' = IF q = h THEN Outcomes(q) + 1 ELSE Outcomes(q)
    BY <1>2, <1>4, IncFacts, IncOutcomes DEF IndInv, EvictHead
  <1>6. \A q \in Requests : /\ Enqueued(q)' <=> Enqueued(q)
                            /\ Held(q)' <=> Held(q)
    BY <1>1 DEF Enqueued, Held, DiscardOldest, workVars
  <1>7. TypeOK'
    <2>1. Len(ch') <= ChannelCapacity
      BY <1>2, CollectorAssumption, LenProperties DEF IndInv, TypeOK
    <2>2. overtaken' \in [Requests -> BOOLEAN]
      BY DEF IndInv, TypeOK, DiscardOldest
    <2> QED BY <1>1, <1>2, <1>5, <2>1, <2>2
            DEF IndInv, TypeOK, DiscardOldest, EvictHead, workVars, mainVars
  <1>8. Conservation'
    <2>1. HeldOnce'
      BY DEF IndInv, Conservation, HeldOnce, DiscardOldest, workVars
    <2>2. SettledOnce'
      <3>1. SettledOnce
        BY DEF IndInv, Conservation
      <3> HIDE DEF h
      <3> QED BY <3>1, <1>2, <1>3, <1>5, <1>6 DEF SettledOnce
    <2> QED BY <1>2, <2>1, <2>2 DEF Conservation
  <1>9. LedgerExact'
    <2>1. LedgerExact /\ pc[h] \in {"count", "202"}
      BY <1>3 DEF IndInv, Enqueued
    <2>2. \A q \in Requests : /\ ledger'[q]["ingest"] = ledger[q]["ingest"]
                              /\ ledger'[q]["empty"] = ledger[q]["empty"]
                              /\ q # h => ledger'[q]["channel_full"] = ledger[q]["channel_full"]
      BY <1>5 DEF Labels
    <2>3. \A q \in Requests : \A s \in Statuses : pc'[q] = s <=> pc[q] = s
      BY <1>1 DEF Statuses
    <2> HIDE DEF h
    <2> SUFFICES ASSUME NEW q \in Requests
                 PROVE  /\ ledger'[q]["ingest"] = IF pc'[q] = "202" THEN 1 ELSE 0
                        /\ ledger'[q]["empty"] > 0 => pc'[q] = "400"
                        /\ ~Enqueued(q)' => Outcomes(q)' = IF pc'[q] = "503" THEN 1 ELSE 0
                        /\ pc'[q] = "503" => ledger'[q]["channel_full"] = 1
      BY DEF LedgerExact
    <2>4. /\ ledger'[q]["ingest"] = IF pc'[q] = "202" THEN 1 ELSE 0
          /\ ledger'[q]["empty"] > 0 => pc'[q] = "400"
      BY <2>1, <2>2, <2>3 DEF LedgerExact, Statuses
    <2>5. ~Enqueued(q)' => Outcomes(q)' = IF pc'[q] = "503" THEN 1 ELSE 0
      BY <1>2, <1>3, <1>5, <1>6, <2>1, <2>3 DEF LedgerExact, Statuses
    <2>6. pc'[q] = "503" => ledger'[q]["channel_full"] = 1
      BY <1>2, <2>1, <2>2, <2>3 DEF LedgerExact, Statuses
    <2> QED BY <2>4, <2>5, <2>6
  <1>10. Lifecycle'
    BY <1>1, LifecycleFrame, IndInvParts
       DEF InFlight, Sending, DiscardOldest, EvictHead, workVars, mainVars
  <1> QED BY <1>7, <1>8, <1>9, <1>10 DEF IndInv, Lifecycle

\* The receive found nothing, or the zero job of a closed channel.
LEMMA EvictMissStep ==
  ASSUME IndInv, NEW r \in Requests, DiscardOldest(r),
         EvictNothing(r) \/ NothingToEvict(r)
  PROVE  IndInv'
  <1>1. /\ pc' \in [Requests -> {"idle"} \cup InFlight \cup Statuses]
        /\ pc'[r] = "resend" /\ pc[r] = "evict"
        /\ \A q \in Requests : q # r => pc'[q] = pc[q]
    BY GotoFacts DEF IndInv, DiscardOldest, Sending, InFlight
  <1>2. /\ UNCHANGED <<ch, closed, wpc, job, ledger, mpc, httpTimedOut>>
        /\ phantom' \in Nat
        /\ phantom' # phantom => closed
    BY DEF IndInv, TypeOK, DiscardOldest, EvictNothing, NothingToEvict,
           workVars, countVars, mainVars
  <1>3. TypeOK'
    BY <1>1, <1>2 DEF IndInv, TypeOK, DiscardOldest
  <1>4. Conservation'
    BY <1>1, <1>2, ConservationFrame DEF IndInv, Enqueued
  <1>5. LedgerExact'
    BY <1>1, <1>2, LedgerFrame DEF IndInv, Enqueued
  <1>6. ~httpTimedOut => phantom' = phantom
    BY <1>1, <1>2, RunningHandler, IndInvParts DEF InFlight, Sending
  <1>7. HoldsWhileBusy' /\ ClosedLast' /\ ExitedDrained' /\ PublisherOutlivesWorkers'
    BY <1>2 DEF IndInv, HoldsWhileBusy, ClosedLast, ExitedDrained,
                PublisherOutlivesWorkers
  <1>8. DrainedQuiet' /\ NeverPanicked'
    BY <1>1, <1>2, <1>6 DEF IndInv, DrainedQuiet, NeverPanicked, InFlight, Sending
  <1> QED BY <1>3, <1>4, <1>5, <1>7, <1>8 DEF IndInv

LEMMA HandlerStep ==
  ASSUME IndInv, NEW r \in Requests, Handler(r) PROVE IndInv'
  <1>1. CASE BodyUnreadable(r)
    BY <1>1, HandlerMoves DEF BodyUnreadable
  <1>2. CASE RejectEmpty(r)
    BY <1>2, RejectEmptyStep
  <1>3. CASE CopyPayload(r)
    BY <1>3, HandlerMoves DEF CopyPayload
  <1>4. CASE Enqueue(r)
    <2>1. pc[r] = "send" /\ pc[r] \in Sending
      BY <1>4 DEF Enqueue, Sending
    <2>2. CASE MakeRoom(r)
      BY <2>1, <2>2, HandlerMoves DEF MakeRoom
    <2> QED BY <1>4, <2>1, <2>2, SendStep, PanicStep, SaturatedStep DEF Enqueue
  <1>5. CASE DiscardOldest(r)
    BY <1>5, EvictHeadStep, EvictMissStep DEF DiscardOldest
  <1>6. CASE Retry(r)
    <2>1. pc[r] \in Sending
      BY <1>6 DEF Retry, Sending
    <2> QED BY <1>6, <2>1, SendStep, PanicStep, SaturatedStep DEF Retry
  <1>7. CASE CountIngest(r)
    BY <1>7, CountIngestStep
  <1> QED BY <1>1, <1>2, <1>3, <1>4, <1>5, <1>6, <1>7 DEF Handler

-----------------------------------------------------------------------------
(* The workers.                                                             *)

LEMMA TakeJobStep ==
  ASSUME IndInv, NEW w \in Workers, TakeJob(w) PROVE IndInv'
  <1> DEFINE h == Head(ch)
  <1>1. /\ h \in Requests /\ Buffered(h)
        /\ ch' \in Seq(Requests) /\ Len(ch') <= Len(ch)
        /\ BufferedOnce'
        /\ \A q \in Requests : Buffered(q)' <=> Buffered(q) /\ q # h
    BY ReceiveFacts DEF IndInv, TypeOK, Conservation, TakeJob
  <1>2. Enqueued(h) /\ ~Held(h) /\ h # NoJob
    BY <1>1, CollectorAssumption DEF IndInv, Conservation, SettledOnce
  <1>3. /\ job[w] = NoJob /\ wpc[w] = "range" /\ ch # <<>>
        /\ job'[w] = h /\ wpc'[w] = "parse"
        /\ \A v \in Workers : v # w => job'[v] = job[v] /\ wpc'[v] = wpc[v]
    BY DEF IndInv, TypeOK, HoldsWhileBusy, TakeJob
  <1>4. TypeOK'
    <2>1. Len(ch') <= ChannelCapacity
      BY <1>1, CollectorAssumption, LenProperties DEF IndInv, TypeOK
    <2> QED BY <1>1, <2>1 DEF IndInv, TypeOK, TakeJob, countVars, mainVars
  <1>5. \A q \in Requests : /\ Held(q)' <=> Held(q) \/ q = h
                            /\ Enqueued(q)' <=> Enqueued(q)
                            /\ Outcomes(q)' = Outcomes(q)
    BY <1>2, <1>3, CollectorAssumption DEF Held, Enqueued, Outcomes, TakeJob, countVars
  <1>6. Conservation'
    <2>1. HeldOnce'
      BY <1>2, <1>3 DEF IndInv, Conservation, HeldOnce, Held
    <2>2. SettledOnce'
      <3>1. SettledOnce
        BY DEF IndInv, Conservation
      <3> HIDE DEF h
      <3> QED BY <3>1, <1>1, <1>2, <1>5 DEF SettledOnce
    <2> QED BY <1>1, <2>1, <2>2 DEF Conservation
  <1>7. LedgerExact'
    <2>1. UNCHANGED <<pc, ledger>> /\ LedgerExact
      BY DEF IndInv, TakeJob, countVars
    <2> QED BY <2>1, LedgerFrame DEF Enqueued
  <1>8. HoldsWhileBusy' /\ ClosedLast' /\ PublisherOutlivesWorkers'
    BY <1>2, <1>3 DEF IndInv, HoldsWhileBusy, ClosedLast, PublisherOutlivesWorkers,
                      TakeJob, mainVars
  <1>9. ExitedDrained'
    BY <1>3 DEF IndInv, ExitedDrained, TakeJob
  <1>10. DrainedQuiet' /\ NeverPanicked'
    BY DEF IndInv, DrainedQuiet, NeverPanicked, TakeJob, countVars, mainVars
  <1> QED BY <1>4, <1>6, <1>7, <1>8, <1>9, <1>10 DEF IndInv

LEMMA WorkerExitStep ==
  ASSUME IndInv, NEW w \in Workers, WorkerExit(w) PROVE IndInv'
  <1>1. /\ wpc[w] = "range" /\ wpc'[w] = "exited"
        /\ \A v \in Workers : v # w => wpc'[v] = wpc[v]
        /\ closed /\ ch = <<>>
        /\ UNCHANGED <<pc, ch, closed, job, ledger, phantom, mpc, httpTimedOut>>
    BY DEF IndInv, TypeOK, WorkerExit, svcVars, countVars, mainVars
  <1>2. TypeOK'
    BY DEF IndInv, TypeOK, WorkerExit, svcVars, countVars, mainVars
  <1>3. Conservation' /\ LedgerExact'
    BY <1>1, ConservationFrame, LedgerFrame DEF IndInv, Enqueued
  <1>4. HoldsWhileBusy' /\ ClosedLast' /\ ExitedDrained' /\ PublisherOutlivesWorkers'
    BY <1>1 DEF IndInv, HoldsWhileBusy, ClosedLast, ExitedDrained, PublisherOutlivesWorkers
  <1>5. DrainedQuiet' /\ NeverPanicked'
    BY <1>1 DEF IndInv, DrainedQuiet, NeverPanicked
  <1> QED BY <1>2, <1>3, <1>4, <1>5 DEF IndInv

LEMMA ParseSucceedsStep ==
  ASSUME IndInv, NEW w \in Workers, ParseSucceeds(w) PROVE IndInv'
  <1>1. /\ wpc[w] = "parse" /\ wpc'[w] = "publish"
        /\ \A v \in Workers : v # w => wpc'[v] = wpc[v]
        /\ UNCHANGED <<pc, ch, closed, job, ledger, phantom, mpc, httpTimedOut>>
    BY DEF IndInv, TypeOK, ParseSucceeds, svcVars, countVars, mainVars
  <1>2. TypeOK'
    BY DEF IndInv, TypeOK, ParseSucceeds, svcVars, countVars, mainVars
  <1>3. Conservation' /\ LedgerExact'
    BY <1>1, ConservationFrame, LedgerFrame DEF IndInv, Enqueued
  <1>4. HoldsWhileBusy' /\ ClosedLast' /\ ExitedDrained' /\ PublisherOutlivesWorkers'
    BY <1>1 DEF IndInv, HoldsWhileBusy, ClosedLast, ExitedDrained, PublisherOutlivesWorkers
  <1>5. DrainedQuiet' /\ NeverPanicked'
    BY <1>1 DEF IndInv, DrainedQuiet, NeverPanicked
  <1> QED BY <1>2, <1>3, <1>4, <1>5 DEF IndInv

\* handleJob ends: the one event the worker held is settled under one label.
LEMMA FinishStep ==
  ASSUME IndInv, NEW w \in Workers, wpc[w] \in {"parse", "publish"},
         NEW l \in {"published", "parse_error", "publish_error"},
         Inc(job[w], l), NextJob(w),
         UNCHANGED <<pc, svcVars, phantom, mainVars, overtaken>>
  PROVE  IndInv'
  <1> DEFINE h == job[w]
  <1>1. h \in Requests /\ h # NoJob /\ l \in Labels /\ l \in OutcomeLabels
    BY BusyHolds, CollectorAssumption DEF IndInv, Labels, OutcomeLabels
  <1>2. /\ job'[w] = NoJob /\ wpc'[w] = "range"
        /\ \A v \in Workers : v # w => job'[v] = job[v] /\ wpc'[v] = wpc[v]
    BY DEF IndInv, TypeOK, NextJob
  <1>3. /\ ledger' \in [Requests -> [Labels -> Nat]]
        /\ \A q \in Requests, k \in Labels :
             q # h \/ k # l => ledger'[q][k] = ledger[q][k]
        /\ \A q \in Requests :
             Outcomes(q)' = IF q = h THEN Outcomes(q) + 1 ELSE Outcomes(q)
    BY <1>1, IncFacts, IncOutcomes DEF IndInv
  <1>4. Held(h) /\ Enqueued(h) /\ ~Buffered(h) /\ Outcomes(h) = 0
    BY <1>1 DEF IndInv, Conservation, SettledOnce, Held
  <1>5. \A q \in Requests : /\ Held(q)' <=> Held(q) /\ q # h
                            /\ Buffered(q)' <=> Buffered(q)
                            /\ Enqueued(q)' <=> Enqueued(q)
    <2>1. ASSUME NEW q \in Requests PROVE Held(q)' <=> Held(q) /\ q # h
      BY <1>1, <1>2, CollectorAssumption DEF Held, IndInv, Conservation, HeldOnce
    <2> QED BY <2>1 DEF Buffered, Enqueued, svcVars
  <1>6. TypeOK'
    BY <1>3 DEF IndInv, TypeOK, NextJob, svcVars, mainVars
  <1>7. Conservation'
    <2>1. BufferedOnce' /\ HeldOnce'
      BY <1>2 DEF IndInv, Conservation, BufferedOnce, HeldOnce, svcVars
    <2>2. SettledOnce'
      BY <1>3, <1>4, <1>5 DEF IndInv, Conservation, SettledOnce
    <2> QED BY <2>1, <2>2 DEF Conservation
  <1>8. LedgerExact'
    BY <1>3, <1>4, <1>5 DEF IndInv, LedgerExact, Enqueued, Labels
  <1>9. HoldsWhileBusy' /\ ClosedLast' /\ ExitedDrained' /\ PublisherOutlivesWorkers'
    BY <1>1, <1>2 DEF IndInv, HoldsWhileBusy, ClosedLast, ExitedDrained,
                PublisherOutlivesWorkers, svcVars, mainVars
  <1>10. DrainedQuiet' /\ NeverPanicked'
    BY DEF IndInv, DrainedQuiet, NeverPanicked, svcVars, mainVars
  <1> QED BY <1>6, <1>7, <1>8, <1>9, <1>10 DEF IndInv

LEMMA WorkerStep ==
  ASSUME IndInv, NEW w \in Workers, Worker(w) PROVE IndInv'
  <1>1. CASE ParseFails(w)
    BY <1>1, FinishStep DEF ParseFails
  <1>2. CASE PublishFails(w)
    BY <1>2, FinishStep DEF PublishFails
  <1>3. CASE PublishSucceeds(w)
    BY <1>3, FinishStep DEF PublishSucceeds
  <1> QED BY <1>1, <1>2, <1>3, TakeJobStep, WorkerExitStep, ParseSucceedsStep DEF Worker

-----------------------------------------------------------------------------
(* main.                                                                    *)

LEMMA MainFrame ==
  ASSUME IndInv, NEW from, NEW to, Advance(from, to),
         to \in {"httpDrain", "queueDrain", "close", "wait", "closePub", "stopped"},
         UNCHANGED <<ch, dropPolicy>>, closed' \in BOOLEAN, httpTimedOut' \in BOOLEAN
  PROVE  /\ TypeOK' /\ Conservation' /\ LedgerExact' /\ HoldsWhileBusy'
         /\ UNCHANGED <<pc, wpc, job, phantom>>
  <1>1. UNCHANGED <<pc, ch, dropPolicy, wpc, job, ledger, phantom, overtaken>> /\ mpc' = to
    BY DEF Advance, workVars, countVars
  <1>2. TypeOK'
    BY <1>1 DEF IndInv, TypeOK
  <1>3. Conservation' /\ LedgerExact'
    BY <1>1, ConservationFrame, LedgerFrame DEF IndInv, Enqueued
  <1>4. HoldsWhileBusy'
    BY <1>1 DEF IndInv, HoldsWhileBusy
  <1> QED BY <1>1, <1>2, <1>3, <1>4

LEMMA MainSequence ==
  ASSUME IndInv, StopSignal \/ Shutdown PROVE IndInv'
  <1> USE DEF Advance, svcVars
  <1>1. closed \in BOOLEAN /\ httpTimedOut \in BOOLEAN
    BY DEF IndInv, TypeOK
  <1> DEFINE Front == /\ ClosedLast' /\ ExitedDrained' /\ PublisherOutlivesWorkers'
                      /\ DrainedQuiet' /\ NeverPanicked'
  <1>2. CASE StopSignal
    <2>1. /\ TypeOK' /\ Conservation' /\ LedgerExact' /\ HoldsWhileBusy'
          /\ UNCHANGED <<pc, wpc, job, phantom>>
      BY <1>1, <1>2, MainFrame DEF StopSignal
    <2>2. Front
      BY <1>2, <2>1 DEF StopSignal, IndInv, ClosedLast, ExitedDrained,
                        PublisherOutlivesWorkers, DrainedQuiet, NeverPanicked
    <2> QED BY <2>1, <2>2 DEF IndInv
  <1>3. CASE HttpDrained
    <2>1. /\ TypeOK' /\ Conservation' /\ LedgerExact' /\ HoldsWhileBusy'
          /\ UNCHANGED <<pc, wpc, job, phantom>>
      BY <1>1, <1>3, MainFrame DEF HttpDrained
    <2>2. Front
      BY <1>3, <2>1 DEF HttpDrained, IndInv, ClosedLast, ExitedDrained,
                        PublisherOutlivesWorkers, DrainedQuiet, NeverPanicked
    <2> QED BY <2>1, <2>2 DEF IndInv
  <1>4. CASE HttpTimeout
    <2>1. /\ TypeOK' /\ Conservation' /\ LedgerExact' /\ HoldsWhileBusy'
          /\ UNCHANGED <<pc, wpc, job, phantom>>
      BY <1>1, <1>4, MainFrame DEF HttpTimeout
    <2>2. Front
      BY <1>4, <2>1 DEF HttpTimeout, IndInv, ClosedLast, ExitedDrained,
                        PublisherOutlivesWorkers, DrainedQuiet, NeverPanicked
    <2> QED BY <2>1, <2>2 DEF IndInv
  <1>5. CASE DrainPoll \/ DrainTimeout
    <2>1. /\ TypeOK' /\ Conservation' /\ LedgerExact' /\ HoldsWhileBusy'
          /\ UNCHANGED <<pc, wpc, job, phantom>>
      BY <1>1, <1>5, MainFrame DEF DrainPoll, DrainTimeout
    <2>2. Front
      BY <1>5, <2>1 DEF DrainPoll, DrainTimeout, IndInv, ClosedLast, ExitedDrained,
                        PublisherOutlivesWorkers, DrainedQuiet, NeverPanicked
    <2> QED BY <2>1, <2>2 DEF IndInv
  <1>6. CASE CloseChannel
    <2>1. /\ TypeOK' /\ Conservation' /\ LedgerExact' /\ HoldsWhileBusy'
          /\ UNCHANGED <<pc, wpc, job, phantom>>
      BY <1>1, <1>6, MainFrame DEF CloseChannel
    <2>2. Front
      BY <1>6, <2>1 DEF CloseChannel, IndInv, ClosedLast, ExitedDrained,
                        PublisherOutlivesWorkers, DrainedQuiet, NeverPanicked
    <2> QED BY <2>1, <2>2 DEF IndInv
  <1>7. CASE WgWait
    <2>1. /\ TypeOK' /\ Conservation' /\ LedgerExact' /\ HoldsWhileBusy'
          /\ UNCHANGED <<pc, wpc, job, phantom>>
      BY <1>1, <1>7, MainFrame DEF WgWait
    <2>2. Front
      BY <1>7, <2>1 DEF WgWait, IndInv, ClosedLast, ExitedDrained, HoldsWhileBusy,
                        PublisherOutlivesWorkers, DrainedQuiet, NeverPanicked
    <2> QED BY <2>1, <2>2 DEF IndInv
  <1>8. CASE ClosePublisher
    <2>1. /\ TypeOK' /\ Conservation' /\ LedgerExact' /\ HoldsWhileBusy'
          /\ UNCHANGED <<pc, wpc, job, phantom>>
      BY <1>1, <1>8, MainFrame DEF ClosePublisher
    <2>2. Front
      BY <1>8, <2>1 DEF ClosePublisher, IndInv, ClosedLast, ExitedDrained,
                        PublisherOutlivesWorkers, DrainedQuiet, NeverPanicked
    <2> QED BY <2>1, <2>2 DEF IndInv
  <1> QED BY <1>2, <1>3, <1>4, <1>5, <1>6, <1>7, <1>8 DEF Shutdown

LEMMA KillStep ==
  ASSUME IndInv, Kill PROVE IndInv'
  <1>1. /\ UNCHANGED <<pc, ch, closed, dropPolicy, wpc, job, ledger, phantom,
                       httpTimedOut, overtaken>>
        /\ mpc' = "killed"
    BY DEF Kill, svcVars, workVars, countVars
  <1>2. TypeOK'
    BY <1>1 DEF IndInv, TypeOK
  <1>3. Conservation' /\ LedgerExact'
    BY <1>1, ConservationFrame, LedgerFrame DEF IndInv, Enqueued
  <1>4. /\ HoldsWhileBusy' /\ ClosedLast' /\ ExitedDrained'
        /\ PublisherOutlivesWorkers' /\ DrainedQuiet' /\ NeverPanicked'
    BY <1>1 DEF IndInv, HoldsWhileBusy, ClosedLast, ExitedDrained,
                PublisherOutlivesWorkers, DrainedQuiet, NeverPanicked
  <1> QED BY <1>2, <1>3, <1>4 DEF IndInv

LEMMA StutterStep ==
  ASSUME IndInv, UNCHANGED vars PROVE IndInv'
  <1>1. UNCHANGED <<pc, ch, closed, dropPolicy, wpc, job, ledger, phantom, mpc,
                    httpTimedOut, overtaken>>
    BY DEF vars, svcVars, workVars, countVars, mainVars
  <1>2. TypeOK'
    BY <1>1 DEF IndInv, TypeOK
  <1>3. Conservation' /\ LedgerExact'
    BY <1>1, ConservationFrame, LedgerFrame DEF IndInv, Enqueued
  <1>4. /\ HoldsWhileBusy' /\ ClosedLast' /\ ExitedDrained'
        /\ PublisherOutlivesWorkers' /\ DrainedQuiet' /\ NeverPanicked'
    BY <1>1 DEF IndInv, HoldsWhileBusy, ClosedLast, ExitedDrained,
                PublisherOutlivesWorkers, DrainedQuiet, NeverPanicked
  <1> QED BY <1>2, <1>3, <1>4 DEF IndInv

-----------------------------------------------------------------------------
(* The theorems.                                                            *)

LEMMA InitIndInv == Init => IndInv
  <1> SUFFICES ASSUME Init PROVE IndInv
    OBVIOUS
  <1>1. TypeOK
    BY InitTypeOK
  <1>2. /\ \A r \in Requests : /\ ~Enqueued(r) /\ ~Buffered(r) /\ ~Held(r)
                               /\ Outcomes(r) = 0
        /\ BufferedOnce /\ HeldOnce
    <2>1. DOMAIN ch = {}
      BY EmptySeq DEF Init
    <2>2. \A r \in Requests : Outcomes(r) = 0
      <3>1. \A r \in Requests : \A l \in Labels : ledger[r][l] = 0
        BY DEF Init
      <3>2. ASSUME NEW r \in Requests
            PROVE  /\ ledger[r]["published"] = 0 /\ ledger[r]["channel_full"] = 0
                   /\ ledger[r]["parse_error"] = 0 /\ ledger[r]["publish_error"] = 0
        BY <3>1 DEF Labels
      <3>3. ASSUME NEW r \in Requests PROVE Outcomes(r) = 0
        <4>1. Outcomes(r) = 0 + 0 + 0 + 0
          BY <3>2, Zenon DEF Outcomes
        <4> QED BY <4>1
      <3> QED BY <3>3
    <2> QED BY <2>1, <2>2, CollectorAssumption
            DEF Init, Enqueued, Buffered, Held, BufferedOnce, HeldOnce
  <1>3. Conservation
    BY <1>2 DEF Conservation, SettledOnce
  <1>4. LedgerExact
    <2>1. \A r \in Requests : pc[r] = "idle" /\ \A l \in Labels : ledger[r][l] = 0
      BY DEF Init
    <2>2. ASSUME NEW r \in Requests
          PROVE  pc[r] = "idle" /\ ledger[r]["ingest"] = 0 /\ ledger[r]["empty"] = 0
      BY <2>1 DEF Labels
    <2> SUFFICES ASSUME NEW r \in Requests
                 PROVE  /\ ledger[r]["ingest"] = IF pc[r] = "202" THEN 1 ELSE 0
                        /\ ledger[r]["empty"] > 0 => pc[r] = "400"
                        /\ ~Enqueued(r) => Outcomes(r) = IF pc[r] = "503" THEN 1 ELSE 0
                        /\ pc[r] = "503" => ledger[r]["channel_full"] = 1
      BY DEF LedgerExact
    <2> QED BY <1>2, <2>2
  <1>5. Lifecycle
    BY DEF Init, Lifecycle, HoldsWhileBusy, ClosedLast, ExitedDrained,
           PublisherOutlivesWorkers, DrainedQuiet, NeverPanicked
  <1> QED BY <1>1, <1>3, <1>4, <1>5, IndInvParts

LEMMA NextIndInv == IndInv /\ [Next]_vars => IndInv'
  BY ArriveStep, HandlerStep, WorkerStep, MainSequence, KillStep, StutterStep
     DEF Next, Gone

\* The invariant of the collector: every step of every goroutine preserves it.
THEOREM Inductive == Spec => []IndInv
  BY InitIndInv, NextIndInv, PTL DEF Spec

\* Type correctness, the capacity bound of the channel included.
THEOREM TypeCorrect == Spec => []TypeOK
  <1>1. IndInv => TypeOK
    BY DEF IndInv
  <1> QED BY <1>1, Inductive, PTL

\* Every enqueued event is in exactly one place, whoever evicts and whoever works
\* (enqueue, workerLoop, handleJob).
THEOREM EventsConserved == Spec => []Conservation
  <1>1. IndInv => Conservation
    BY DEF IndInv
  <1> QED BY <1>1, Inductive, PTL

\* The counters agree with the answers of the handlers (Ingest, enqueue, handleJob).
THEOREM CountersExact == Spec => []LedgerExact
  <1>1. IndInv => LedgerExact
    BY DEF IndInv
  <1> QED BY <1>1, Inductive, PTL

\* Workers that all exited left an empty channel and hold nothing.
LEMMA ExitedSettled ==
  ASSUME IndInv, \A w \in Workers : wpc[w] = "exited"
  PROVE  closed /\ \A r \in Requests : Enqueued(r) => Outcomes(r) = 1
  <1>1. \A w \in Workers : job[w] = NoJob
    BY DEF IndInv, HoldsWhileBusy
  <1>2. closed /\ ch = <<>>
    BY CollectorAssumption DEF IndInv, ExitedDrained
  <1> SUFFICES ASSUME NEW r \in Requests, Enqueued(r) PROVE Outcomes(r) = 1
    BY <1>2
  <1>3. ~Buffered(r)
    BY <1>2, EmptySeq DEF Buffered
  <1>4. ~Held(r)
    BY <1>1, CollectorAssumption DEF Held
  <1> QED BY <1>3, <1>4 DEF IndInv, Conservation, SettledOnce

LEMMA StoppedSettled ==
  ASSUME IndInv, mpc \in {"closePub", "stopped"}
  PROVE  closed /\ \A r \in Requests : Enqueued(r) => Outcomes(r) = 1
  <1>1. \A w \in Workers : wpc[w] = "exited"
    BY DEF IndInv, PublisherOutlivesWorkers
  <1> QED BY <1>1, ExitedSettled

\* A graceful stop loses no accepted event, whichever timeout fired
\* (Service.Shutdown and main's sequence).
THEOREM GracefulStopLosesNothing == Spec => []NoSilentLoss
  <1>1. IndInv => NoSilentLoss
    BY StoppedSettled DEF NoSilentLoss
  <1> QED BY <1>1, Inductive, PTL

\* Drained handlers make close(s.ch) safe: no panic and no phantom drop follows.
THEOREM DrainMakesCloseSafe == Spec => []CleanDrainNeverPanics
  <1>1. IndInv => CleanDrainNeverPanics
    BY DEF IndInv, CleanDrainNeverPanics, NeverPanicked, DrainedQuiet, InFlight
  <1> QED BY <1>1, Inductive, PTL

\* main closes the publisher after the last worker returned (wg.Wait, pub.Close).
THEOREM PublisherClosedLast == Spec => []PublisherOutlivesWorkers
  <1>1. IndInv => PublisherOutlivesWorkers
    BY DEF IndInv
  <1> QED BY <1>1, Inductive, PTL

-----------------------------------------------------------------------------
(* drop_newest: no handler ever gets to the eviction.                       *)

NobodyEvicts ==
  dropPolicy # "drop_oldest" =>
    \A r \in Requests : pc[r] \notin {"evict", "resend"}

NewestInv == NobodyEvicts /\ DropNewestKeepsAccepted

\* Steps that count no drop, send no handler to an eviction and enqueue only what
\* was never counted.
LEMMA NewestFrame ==
  ASSUME NewestInv, UNCHANGED dropPolicy,
         \A q \in Requests :
           /\ pc'[q] \in {"evict", "resend"} =>
                dropPolicy = "drop_oldest" \/ pc[q] \in {"evict", "resend"}
           /\ Enqueued(q)' /\ dropPolicy # "drop_oldest" =>
                ledger'[q]["channel_full"] = 0
  PROVE  NewestInv'
  BY DEF NewestInv, NobodyEvicts, DropNewestKeepsAccepted

\* Nothing is counted as dropped before it is enqueued, but a 503.
LEMMA FreshHandler ==
  ASSUME IndInv, NEW r \in Requests, pc[r] \in InFlight \ {"count"}
  PROVE  ledger[r]["channel_full"] = 0
  <1>1. ~Enqueued(r) /\ pc[r] # "503"
    BY DEF Enqueued, InFlight, Sending
  <1> QED BY <1>1, NotEnqueued, OutcomesNat DEF IndInv, OutcomeLabels, Labels

LEMMA NewestHandlerStep ==
  ASSUME IndInv, NewestInv, NEW r \in Requests, Arrive(r) \/ Handler(r)
  PROVE  NewestInv'
  <1>1. TypeOK
    BY DEF IndInv
  <1>2. ASSUME NEW l \in ({"idle"} \cup InFlight \cup Statuses) \ {"evict", "resend"},
               Goto(r, l), UNCHANGED <<dropPolicy, ledger>>,
               l \in {"count", "202"} => pc[r] \in InFlight
        PROVE  NewestInv'
    <2>1. pc'[r] = l /\ \A q \in Requests : q # r => pc'[q] = pc[q]
      BY <1>1, <1>2, GotoFacts
    <2>2. Enqueued(r)' => ledger[r]["channel_full"] = 0 \/ pc[r] = "count"
      BY <1>2, <2>1, FreshHandler DEF Enqueued
    <2> QED BY <1>2, <2>1, <2>2, NewestFrame
            DEF NewestInv, DropNewestKeepsAccepted, Enqueued
  <1>3. CASE Arrive(r)
    BY <1>2, <1>3 DEF Arrive, svcVars, countVars, InFlight
  <1>4. CASE BodyUnreadable(r)
    BY <1>2, <1>4 DEF BodyUnreadable, svcVars, countVars, Statuses
  <1>5. CASE CopyPayload(r)
    BY <1>2, <1>5 DEF CopyPayload, svcVars, countVars, InFlight, Sending
  <1>6. ASSUME pc[r] \in Sending, SendCase(r) PROVE NewestInv'
    BY <1>2, <1>6 DEF SendCase, countVars, InFlight
  <1>7. ASSUME pc[r] \in Sending, SendPanics(r) PROVE NewestInv'
    BY <1>2, <1>7 DEF SendPanics, svcVars, countVars, Statuses
  <1>8. ASSUME NEW l \in Labels, NEW s \in Statuses, Inc(r, l), Goto(r, s), UNCHANGED dropPolicy,
               s = "202" => pc[r] = "count" /\ l = "ingest"
        PROVE  NewestInv'
    <2>1. pc'[r] = s /\ \A q \in Requests : q # r => pc'[q] = pc[q]
      BY <1>1, <1>8, GotoFacts
    <2>2. \A q \in Requests : (q # r \/ l # "channel_full") =>
            ledger'[q]["channel_full"] = ledger[q]["channel_full"]
      BY <1>1, <1>8, IncFacts DEF Labels
    <2> QED BY <1>8, <2>1, <2>2, NewestFrame
            DEF NewestInv, DropNewestKeepsAccepted, Enqueued, Statuses
  <1>9. CASE RejectEmpty(r)
    BY <1>8, <1>9 DEF RejectEmpty, svcVars, Labels, Statuses
  <1>10. ASSUME QueueSaturated(r) PROVE NewestInv'
    BY <1>8, <1>10 DEF QueueSaturated, svcVars, Labels, Statuses
  <1>11. CASE CountIngest(r)
    BY <1>8, <1>11 DEF CountIngest, svcVars, Labels, Statuses
  <1>12. CASE Enqueue(r)
    <2>1. CASE dropPolicy = "drop_oldest" /\ MakeRoom(r)
      <3>1. UNCHANGED <<dropPolicy, ledger>>
        BY <2>1 DEF MakeRoom, svcVars, countVars
      <3> QED BY <2>1, <3>1 DEF NewestInv, NobodyEvicts, DropNewestKeepsAccepted
    <2> QED BY <1>6, <1>7, <1>10, <1>12, <2>1 DEF Enqueue, Sending
  <1>13. CASE DiscardOldest(r)
    <2>1. dropPolicy = "drop_oldest" /\ dropPolicy' = dropPolicy
      BY <1>13 DEF DiscardOldest, NewestInv, NobodyEvicts
    <2> QED BY <2>1 DEF NewestInv, NobodyEvicts, DropNewestKeepsAccepted
  <1>14. CASE Retry(r)
    BY <1>6, <1>7, <1>10, <1>14 DEF Retry, Sending
  <1> QED BY <1>3, <1>4, <1>5, <1>9, <1>11, <1>12, <1>13, <1>14 DEF Handler

LEMMA NewestOtherStep ==
  ASSUME IndInv, NewestInv,
         (\E w \in Workers : Worker(w)) \/ StopSignal \/ Shutdown \/ Kill \/ UNCHANGED vars
  PROVE  NewestInv'
  <1>1. UNCHANGED <<pc, dropPolicy>>
    BY DEF Worker, TakeJob, WorkerExit, ParseFails, ParseSucceeds, PublishFails,
           PublishSucceeds, StopSignal, Shutdown, HttpDrained, HttpTimeout, DrainPoll,
           DrainTimeout, CloseChannel, WgWait, ClosePublisher, Advance, Kill,
           vars, svcVars
  <1>2. \A q \in Requests : ledger'[q]["channel_full"] = ledger[q]["channel_full"]
    <2>1. CASE UNCHANGED ledger
      BY <2>1
    <2>2. ASSUME NEW w \in Workers, ParseFails(w) \/ PublishFails(w) \/ PublishSucceeds(w)
          PROVE  \A q \in Requests : ledger'[q]["channel_full"] = ledger[q]["channel_full"]
      <3>1. job[w] \in Requests
        BY <2>2, BusyHolds DEF IndInv, ParseFails, PublishFails, PublishSucceeds
      <3>2. PICK l \in Labels \ {"channel_full"} : Inc(job[w], l)
        BY <2>2 DEF ParseFails, PublishFails, PublishSucceeds, Labels
      <3> QED BY <3>1, <3>2, IncFacts DEF IndInv, Labels
    <2> QED BY <2>1, <2>2
            DEF Worker, TakeJob, WorkerExit, ParseSucceeds, StopSignal, Shutdown,
                HttpDrained, HttpTimeout, DrainPoll, DrainTimeout, CloseChannel, WgWait,
                ClosePublisher, Advance, Kill, vars, countVars
  <1> QED BY <1>1, <1>2 DEF NewestInv, NobodyEvicts, DropNewestKeepsAccepted, Enqueued

\* Under drop_newest an event that entered the channel is never evicted (enqueue).
THEOREM NewestNeverEvicted == Spec => []DropNewestKeepsAccepted
  <1>1. Init => NewestInv
    BY DEF Init, NewestInv, NobodyEvicts, DropNewestKeepsAccepted, Enqueued
  <1>2. IndInv /\ NewestInv /\ [Next]_vars => NewestInv'
    BY NewestHandlerStep, NewestOtherStep DEF Next, Gone
  <1>3. NewestInv => DropNewestKeepsAccepted
    BY DEF NewestInv
  <1> QED BY <1>1, <1>2, <1>3, Inductive, PTL DEF Spec

-----------------------------------------------------------------------------
(* drop_oldest: the place a handler made is there until somebody takes it.  *)

RoomMade ==
  \A r \in Requests : pc[r] = "resend" /\ ~overtaken[r] => HasRoom \/ closed

\* Steps that never fill the channel keep the place.
LEMMA RoomFrame ==
  ASSUME TypeOK, RoomMade, Len(ch') <= Len(ch), ch' \in Seq(Requests), closed => closed',
         \A q \in Requests : pc'[q] = "resend" /\ ~overtaken'[q] =>
                               pc[q] = "resend" /\ ~overtaken[q]
  PROVE  RoomMade'
  <1>1. Len(ch) \in Nat /\ Len(ch') \in Nat /\ ChannelCapacity \in Nat
    BY LenProperties, CollectorAssumption DEF TypeOK
  <1> QED BY <1>1 DEF RoomMade, HasRoom

LEMMA RoomHandlerStep ==
  ASSUME IndInv, RoomMade, NEW r \in Requests, Arrive(r) \/ Handler(r)
  PROVE  RoomMade'
  <1>1. TypeOK /\ BufferedOnce /\ Len(ch) \in Nat /\ ChannelCapacity \in Nat \ {0}
        /\ ch \in Seq(Requests)
    BY LenProperties, CollectorAssumption DEF IndInv, TypeOK, Conservation
  <1>2. ASSUME NEW l \in ({"idle"} \cup InFlight \cup Statuses) \ {"resend"}, Goto(r, l),
               UNCHANGED <<ch, closed, overtaken>>
        PROVE  RoomMade'
    <2>1. pc'[r] = l /\ \A q \in Requests : q # r => pc'[q] = pc[q]
      BY <1>1, <1>2, GotoFacts
    <2> QED BY <1>1, <1>2, <2>1, RoomFrame
  <1>3. ASSUME SendCase(r) PROVE RoomMade'
    <2>1. pc'[r] = "count" /\ \A q \in Requests : q # r => pc'[q] = pc[q]
      BY <1>1, <1>3, GotoFacts DEF SendCase, InFlight
    <2>2. \A q \in Requests : pc'[q] = "resend" => overtaken'[q]
      BY <1>3, <2>1 DEF SendCase
    <2> QED BY <2>2 DEF RoomMade
  <1>4. ASSUME SendPanics(r) \/ QueueSaturated(r) \/ MakeRoom(r) PROVE RoomMade'
    BY <1>2, <1>4 DEF SendPanics, QueueSaturated, MakeRoom, svcVars, InFlight, Sending, Statuses
  <1>5. CASE DiscardOldest(r)
    <2>1. pc'[r] = "resend" /\ \A q \in Requests : q # r => pc'[q] = pc[q]
      BY <1>1, <1>5, GotoFacts DEF DiscardOldest, InFlight, Sending
    <2>2. ~overtaken'[r] /\ \A q \in Requests : q # r => overtaken'[q] = overtaken[q]
      BY <1>1, <1>5 DEF DiscardOldest, TypeOK
    <2>3. closed' = closed
      BY <1>5 DEF DiscardOldest
    <2>4. ch' \in Seq(Requests) /\ Len(ch') <= Len(ch) /\ Len(ch') < ChannelCapacity
      <3>1. CASE EvictHead(r)
        <4>1. Len(ch') = Len(ch) - 1 /\ ch' \in Seq(Requests)
          BY <1>1, <3>1, TailFacts DEF EvictHead
        <4> QED BY <1>1, <4>1 DEF TypeOK
      <3>2. CASE ch = <<>> /\ ch' = ch
        BY <1>1, <3>2, EmptySeq
      <3> QED BY <1>5, <3>1, <3>2 DEF DiscardOldest, EvictNothing, NothingToEvict
    <2>5. Len(ch') \in Nat
      BY <2>4, LenProperties
    <2> QED BY <1>1, <2>1, <2>2, <2>3, <2>4, <2>5 DEF RoomMade, HasRoom
  <1>6. CASE Arrive(r) \/ BodyUnreadable(r) \/ RejectEmpty(r) \/ CopyPayload(r) \/ CountIngest(r)
    BY <1>2, <1>6 DEF Arrive, BodyUnreadable, RejectEmpty, CopyPayload, CountIngest, svcVars,
                      InFlight, Sending, Statuses
  <1> QED BY <1>3, <1>4, <1>5, <1>6 DEF Handler, Enqueue, Retry

LEMMA RoomOtherStep ==
  ASSUME IndInv, RoomMade,
         (\E w \in Workers : Worker(w)) \/ StopSignal \/ Shutdown \/ Kill \/ UNCHANGED vars
  PROVE  RoomMade'
  <1>1. TypeOK /\ BufferedOnce /\ ch \in Seq(Requests) /\ Len(ch) \in Nat
    BY LenProperties DEF IndInv, TypeOK, Conservation
  <1>2. UNCHANGED <<pc, overtaken>> /\ (closed => closed')
    BY DEF Worker, TakeJob, WorkerExit, ParseFails, ParseSucceeds, PublishFails,
           PublishSucceeds, StopSignal, Shutdown, HttpDrained, HttpTimeout, DrainPoll,
           DrainTimeout, CloseChannel, WgWait, ClosePublisher, Advance, Kill,
           vars, svcVars
  <1>3. ch' = ch \/ (ch # <<>> /\ ch' = Tail(ch))
    BY DEF Worker, TakeJob, WorkerExit, ParseFails, ParseSucceeds, PublishFails,
           PublishSucceeds, StopSignal, Shutdown, HttpDrained, HttpTimeout, DrainPoll,
           DrainTimeout, CloseChannel, WgWait, ClosePublisher, Advance, Kill,
           vars, svcVars
  <1>4. ch' \in Seq(Requests) /\ Len(ch') <= Len(ch)
    BY <1>1, <1>3, ReceiveFacts
  <1> QED BY <1>1, <1>2, <1>4, RoomFrame

\* Only a handler that retries answers 503 from there, and it found no room.
LEMMA FailedRetry ==
  ASSUME IndInv, RoomMade, [Next]_vars, NEW r \in Requests,
         pc[r] = "resend", pc'[r] = "503"
  PROVE  overtaken[r]
  <1>1. PICK q \in Requests : Arrive(q) \/ Handler(q)
    <2>1. UNCHANGED pc \/ \E q \in Requests : Arrive(q) \/ Handler(q)
      BY DEF Next, Gone, Worker, TakeJob, WorkerExit, ParseFails, ParseSucceeds,
             PublishFails, PublishSucceeds, StopSignal, Shutdown, HttpDrained,
             HttpTimeout, DrainPoll, DrainTimeout, CloseChannel, WgWait,
             ClosePublisher, Advance, Kill, vars
    <2> QED BY <2>1
  <1>2. PICK l : Goto(q, l)
    BY <1>1 DEF Handler, Arrive, BodyUnreadable, RejectEmpty, CopyPayload, Enqueue,
                SendCase, SendPanics, MakeRoom, QueueSaturated, DiscardOldest, Retry,
                CountIngest
  <1>3. q = r
    BY <1>2 DEF Goto, IndInv, TypeOK
  <1>4. Retry(r)
    BY <1>1, <1>3 DEF Handler, Arrive, BodyUnreadable, RejectEmpty, CopyPayload, Enqueue,
                      DiscardOldest, CountIngest
  <1>5. pc' # [pc EXCEPT ![r] = "count"] /\ pc' # [pc EXCEPT ![r] = "500"]
    BY DEF IndInv, TypeOK
  <1>6. QueueSaturated(r)
    BY <1>4, <1>5 DEF Retry, SendCase, SendPanics, Goto
  <1> QED BY <1>6 DEF QueueSaturated, RoomMade

\* Under drop_oldest an eviction is wasted only if somebody took the place first
\* (enqueue's two inner selects).
THEOREM EvictionNotWasted == Spec => RetryFailsOnlyIfOvertaken
  <1>1. Init => RoomMade
    BY DEF Init, RoomMade
  <1>2. IndInv /\ RoomMade /\ [Next]_vars => RoomMade'
    BY RoomHandlerStep, RoomOtherStep DEF Next, Gone
  <1>3. IndInv /\ RoomMade /\ [Next]_vars =>
          [\A r \in Requests : pc[r] = "resend" /\ pc'[r] = "503" => overtaken[r]]_vars
    BY FailedRetry
  <1> QED BY <1>1, <1>2, <1>3, Inductive, PTL DEF Spec, RetryFailsOnlyIfOvertaken

=============================================================================

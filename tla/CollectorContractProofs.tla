----------------------- MODULE CollectorContractProofs -----------------------
(***************************************************************************)
(* TLAPS proof that the collector implements the safety part of            *)
(* IngestContract: every step maps to a step of the contract or to none.   *)
(* At the end the safety part of what ends a shutdown: while main waits    *)
(* for the workers their work only shrinks.                                *)
(***************************************************************************)
EXTENDS CollectorProofs, FiniteSetTheorems

-----------------------------------------------------------------------------
(* The fate of an event, case by case, now and after a step.                *)

FateTable ==
  TypeOK =>
    \A r \in Requests :
      /\ ~Enqueued(r) /\ pc[r] \notin Statuses => Fate(r) = "absent"
      /\ ~Enqueued(r) /\ pc[r] \in Statuses => Fate(r) = "refused"
      /\ Enqueued(r) /\ Outcomes(r) = 0 =>
           Fate(r) = IF mpc = "killed" THEN "lost" ELSE "held"
      /\ Enqueued(r) /\ Outcomes(r) # 0 /\ ledger[r]["published"] = 0 =>
           Fate(r) = "dropped"
      /\ Enqueued(r) /\ ledger[r]["published"] # 0 => Fate(r) = "published"

LEMMA FateNow == FateTable
  <1> SUFFICES ASSUME TypeOK, NEW r \in Requests
               PROVE  /\ ~Enqueued(r) /\ pc[r] \notin Statuses => Fate(r) = "absent"
                      /\ ~Enqueued(r) /\ pc[r] \in Statuses => Fate(r) = "refused"
                      /\ Enqueued(r) /\ Outcomes(r) = 0 =>
                           Fate(r) = IF mpc = "killed" THEN "lost" ELSE "held"
                      /\ Enqueued(r) /\ Outcomes(r) # 0 /\ ledger[r]["published"] = 0 =>
                           Fate(r) = "dropped"
                      /\ Enqueued(r) /\ ledger[r]["published"] # 0 => Fate(r) = "published"
    BY DEF FateTable
  <1>1. /\ Outcomes(r) \in Nat /\ ledger[r]["published"] \in Nat
        /\ Outcomes(r) = 0 => ledger[r]["published"] = 0
    BY OutcomesNat DEF Labels, OutcomeLabels
  <1>2. CASE ~Enqueued(r)
    BY <1>2 DEF Fate
  <1>3. CASE Enqueued(r) /\ Outcomes(r) = 0
    BY <1>1, <1>3 DEF Fate
  <1>4. CASE Enqueued(r) /\ Outcomes(r) # 0
    BY <1>1, <1>4 DEF Fate
  <1> QED BY <1>2, <1>3, <1>4, <1>1

LEMMA FateNext == FateTable'
  BY FateNow, PTL

\* What Fate reads of an event that a step does not concern.
SameFate(q) == /\ Enqueued(q)' <=> Enqueued(q)
               /\ ~Enqueued(q) => (pc'[q] \in Statuses <=> pc[q] \in Statuses)
               /\ Outcomes(q)' = Outcomes(q)
               /\ ledger'[q]["published"] = ledger[q]["published"]

LEMMA FateFrame ==
  ASSUME TypeOK, TypeOK', mpc' = "killed" <=> mpc = "killed",
         NEW q \in Requests, SameFate(q)
  PROVE  Fate(q)' = Fate(q)
  <1>1. /\ Outcomes(q) \in Nat /\ ledger[q]["published"] \in Nat
        /\ Outcomes(q) = 0 => ledger[q]["published"] = 0
    BY OutcomesNat DEF Labels, OutcomeLabels
  <1> QED BY <1>1, FateNow, FateNext DEF FateTable, SameFate

-----------------------------------------------------------------------------
(* Steps of the contract.                                                   *)

\* The event of one request changes its fate, the others keep theirs.
LEMMA OneFateChanges ==
  ASSUME NEW r \in Requests, NEW from, NEW to,
         Alive, mpc' = mpc, Fate(r) = from, Fate(r)' = to,
         \A q \in Requests : q # r => Fate(q)' = Fate(q)
  PROVE  Contract!Become(r, from, to)
  BY DEF Contract!Become, Contract!Alive, Life, Alive

\* Nothing changes for the contract.
LEMMA NoFateChanges ==
  ASSUME Life' = Life, \A q \in Requests : Fate(q)' = Fate(q)
  PROVE  UNCHANGED Contract!vars
  BY DEF Contract!vars

\* A step that settles nothing and answers nobody who was not enqueued.
LEMMA QuietStep ==
  ASSUME TypeOK, TypeOK', Alive, Alive', Life' = Life, UNCHANGED ledger,
         \A q \in Requests :
           \/ pc'[q] = pc[q]
           \/ Enqueued(q) /\ Enqueued(q)'
           \/ pc[q] \notin Statuses \cup {"count"} /\ pc'[q] \notin Statuses \cup {"count"}
  PROVE  UNCHANGED Contract!vars
  <1>1. ASSUME NEW q \in Requests PROVE SameFate(q)
    <2>1. Outcomes(q)' = Outcomes(q)
      BY DEF Outcomes
    <2> QED BY <2>1 DEF SameFate, Enqueued, Statuses
  <1>2. mpc' = "killed" <=> mpc = "killed"
    BY DEF Alive
  <1> QED BY <1>1, <1>2, FateFrame, NoFateChanges

\* A handler that answers without having enqueued refuses its event.
LEMMA RefuseStep ==
  ASSUME TypeOK, TypeOK', Alive, mpc' = mpc, NEW r \in Requests,
         pc[r] \notin Statuses \cup {"count"}, NEW s \in {"400", "500", "503"}, Goto(r, s),
         UNCHANGED ledger \/ (\E l \in Labels : Inc(r, l))
  PROVE  Contract!Next
  <1>1. /\ pc'[r] = s /\ s \in Statuses /\ s # "202"
        /\ \A q \in Requests : q # r => pc'[q] = pc[q]
    BY GotoFacts DEF Statuses
  <1>2. ASSUME NEW q \in Requests, q # r PROVE Fate(q)' = Fate(q)
    <2>1. /\ Outcomes(q)' = Outcomes(q)
          /\ ledger'[q]["published"] = ledger[q]["published"]
      <3>1. CASE UNCHANGED ledger
        BY <3>1 DEF Outcomes
      <3>2. ASSUME NEW l \in Labels, Inc(r, l)
            PROVE  /\ Outcomes(q)' = Outcomes(q)
                   /\ ledger'[q]["published"] = ledger[q]["published"]
        BY <1>2, <3>2, IncOutcomes, IncFacts DEF Labels
      <3> QED BY <3>1, <3>2
    <2>2. SameFate(q)
      BY <1>1, <1>2, <2>1 DEF SameFate, Enqueued
    <2> QED BY <2>2, FateFrame
  <1>3. ~Enqueued(r) /\ ~Enqueued(r)'
    BY <1>1 DEF Enqueued, Statuses
  <1>4. Fate(r) = "absent" /\ Fate(r)' = "refused"
    BY <1>1, <1>3, FateNow, FateNext DEF FateTable
  <1>5. Contract!Refuse(r)
    BY <1>2, <1>4, OneFateChanges DEF Contract!Refuse
  <1> QED BY <1>5 DEF Contract!Next

\* A send that succeeds admits the event.
LEMMA AdmitStep ==
  ASSUME IndInv, TypeOK', Alive, NEW r \in Requests, pc[r] \in Sending, SendCase(r)
  PROVE  Contract!Next
  <1>1. /\ pc'[r] = "count" /\ pc[r] \notin Statuses \cup {"count"}
        /\ \A q \in Requests : q # r => pc'[q] = pc[q]
        /\ UNCHANGED <<ledger, mpc>>
    BY GotoFacts DEF IndInv, SendCase, Sending, InFlight, Statuses, countVars, mainVars
  <1>2. \A q \in Requests : Outcomes(q)' = Outcomes(q)
    BY <1>1 DEF Outcomes
  <1>3. ASSUME NEW q \in Requests, q # r PROVE Fate(q)' = Fate(q)
    <2>1. SameFate(q)
      BY <1>1, <1>2, <1>3 DEF SameFate, Enqueued
    <2> QED BY <1>1, <2>1, FateFrame DEF IndInv
  <1>4. ~Enqueued(r) /\ Enqueued(r)' /\ Outcomes(r)' = 0 /\ mpc' # "killed"
    BY <1>1, <1>2, NotEnqueued DEF Enqueued, Statuses, Alive
  <1>5. Fate(r) = "absent" /\ Fate(r)' = "held"
    BY <1>1, <1>4, FateNow, FateNext DEF FateTable, IndInv
  <1>6. mpc # "closePub"
    BY StoppedSettled DEF SendCase
  <1>7. Life = "up"
    BY <1>6 DEF Life
  <1>8. Contract!Admit(r)
    BY <1>1, <1>3, <1>5, <1>7, OneFateChanges DEF Contract!Admit
  <1> QED BY <1>8 DEF Contract!Next

\* An event that is in the channel or held by a worker is settled: published or
\* dropped by the label it is counted under.
LEMMA SettleStep ==
  ASSUME IndInv, TypeOK', Alive, UNCHANGED mpc, NEW h \in Requests,
         Buffered(h) \/ Held(h), NEW l \in OutcomeLabels, Inc(h, l),
         \A q \in Requests : /\ Enqueued(q)' <=> Enqueued(q)
                             /\ ~Enqueued(q) => (pc'[q] \in Statuses <=> pc[q] \in Statuses)
  PROVE  Contract!Next
  <1>1. Enqueued(h) /\ Enqueued(h)' /\ Outcomes(h) = 0
    BY DEF IndInv, Conservation, SettledOnce
  <1>2. l \in Labels /\ TypeOK
    BY DEF Labels, OutcomeLabels, IndInv
  <1>3. /\ \A q \in Requests :
             Outcomes(q)' = IF q = h THEN Outcomes(q) + 1 ELSE Outcomes(q)
        /\ ledger'[h][l] = ledger[h][l] + 1
        /\ \A q \in Requests, k \in Labels :
             q # h \/ k # l => ledger'[q][k] = ledger[q][k]
    BY <1>2, IncOutcomes, IncFacts
  <1>4. ASSUME NEW q \in Requests, q # h PROVE Fate(q)' = Fate(q)
    <2>1. "published" \in Labels
      BY DEF Labels
    <2>2. SameFate(q)
      BY <1>3, <1>4, <2>1 DEF SameFate
    <2> QED BY <1>2, <2>2, FateFrame
  <1>5. Fate(h) = "held" /\ mpc # "killed"
    BY <1>1, <1>2, FateNow DEF FateTable, Alive
  <1>6. ledger[h]["published"] = 0 /\ Outcomes(h)' = 1
    BY <1>1, <1>2, <1>3, OutcomesNat DEF OutcomeLabels
  <1>7. CASE l = "published"
    <2>1. ledger'[h]["published"] = 1
      BY <1>3, <1>6, <1>7
    <2>2. Fate(h)' = "published"
      BY <1>1, <2>1, FateNext DEF FateTable
    <2>3. Contract!Publish(h)
      BY <1>4, <1>5, <2>2, OneFateChanges DEF Contract!Publish
    <2> QED BY <2>3 DEF Contract!Next
  <1>8. CASE l # "published"
    <2>1. ledger'[h]["published"] = 0
      BY <1>3, <1>6, <1>8 DEF Labels
    <2>2. Fate(h)' = "dropped"
      BY <1>1, <1>6, <2>1, FateNext DEF FateTable
    <2>3. Contract!Drop(h)
      BY <1>4, <1>5, <2>2, OneFateChanges DEF Contract!Drop
    <2> QED BY <2>3 DEF Contract!Next
  <1> QED BY <1>7, <1>8

-----------------------------------------------------------------------------
(* Every step of the collector.                                             *)

LEMMA HandlerImplements ==
  ASSUME IndInv, IndInv', NEW r \in Requests, Handler(r)
  PROVE  [Contract!Next]_Contract!vars
  <1>1. /\ TypeOK /\ TypeOK'
        /\ Alive /\ mpc' = mpc
    BY DEF IndInv, Handler, BodyUnreadable, RejectEmpty, CopyPayload, Enqueue,
           DiscardOldest, Retry, CountIngest, SendCase, SendPanics, MakeRoom,
           QueueSaturated, mainVars
  <1>2. Alive' /\ Life' = Life
    BY <1>1 DEF Alive, Life
  <1>3. CASE BodyUnreadable(r)
    <2>1. UNCHANGED ledger
      BY <1>3 DEF BodyUnreadable, countVars
    <2> QED BY <1>1, <1>3, <2>1, RefuseStep DEF BodyUnreadable, Statuses
  <1>4. CASE RejectEmpty(r)
    <2>1. \E l \in Labels : Inc(r, l)
      BY <1>4 DEF RejectEmpty, Labels
    <2> QED BY <1>1, <1>4, <2>1, RefuseStep DEF RejectEmpty, Statuses
  <1>5. CASE CopyPayload(r)
    <2>1. /\ UNCHANGED ledger /\ pc[r] = "reading" /\ pc'[r] = "send"
          /\ \A q \in Requests : q # r => pc'[q] = pc[q]
      BY <1>1, <1>5, GotoFacts DEF CopyPayload, countVars, Sending, InFlight
    <2> QED BY <1>1, <1>2, <2>1, QuietStep DEF Statuses
  <1>6. ASSUME pc[r] \in Sending, SendPanics(r) PROVE Contract!Next
    <2>1. UNCHANGED ledger /\ pc[r] \notin Statuses \cup {"count"}
      BY <1>6 DEF SendPanics, countVars, Sending, Statuses
    <2> QED BY <1>1, <1>6, <2>1, RefuseStep DEF SendPanics
  <1>7. ASSUME pc[r] \in Sending, QueueSaturated(r) PROVE Contract!Next
    <2>1. (\E l \in Labels : Inc(r, l)) /\ pc[r] \notin Statuses \cup {"count"}
      BY <1>7 DEF QueueSaturated, Labels, Sending, Statuses
    <2> QED BY <1>1, <1>7, <2>1, RefuseStep DEF QueueSaturated
  <1>8. CASE Enqueue(r)
    <2>1. pc[r] = "send" /\ pc[r] \in Sending
      BY <1>8 DEF Enqueue, Sending
    <2>2. CASE MakeRoom(r)
      <3>1. /\ UNCHANGED ledger /\ pc'[r] = "evict"
            /\ \A q \in Requests : q # r => pc'[q] = pc[q]
        BY <1>1, <2>2, GotoFacts DEF MakeRoom, countVars, Sending, InFlight
      <3> QED BY <1>1, <1>2, <2>1, <3>1, QuietStep DEF Statuses
    <2> QED BY <1>1, <1>6, <1>7, <1>8, <2>1, <2>2, AdmitStep DEF Enqueue
  <1>9. CASE DiscardOldest(r)
    <2>1. /\ pc[r] = "evict" /\ pc'[r] = "resend"
          /\ \A q \in Requests : q # r => pc'[q] = pc[q]
      BY <1>1, <1>9, GotoFacts DEF DiscardOldest, Sending, InFlight
    <2>2. CASE EvictHead(r)
      <3>1. Head(ch) \in Requests /\ Buffered(Head(ch))
        BY <2>2, ReceiveFacts DEF IndInv, TypeOK, Conservation, EvictHead
      <3>2. /\ "channel_full" \in OutcomeLabels /\ Inc(Head(ch), "channel_full")
            /\ UNCHANGED mpc
        BY <1>1, <2>2 DEF OutcomeLabels, EvictHead
      <3>3. \A q \in Requests :
              /\ Enqueued(q)' <=> Enqueued(q)
              /\ ~Enqueued(q) => (pc'[q] \in Statuses <=> pc[q] \in Statuses)
        BY <2>1 DEF Enqueued, Statuses
      <3> QED BY <1>1, <3>1, <3>2, <3>3, SettleStep
    <2>3. CASE EvictNothing(r) \/ NothingToEvict(r)
      <3>1. UNCHANGED ledger
        BY <2>3 DEF EvictNothing, NothingToEvict, countVars
      <3> QED BY <1>1, <1>2, <2>1, <3>1, QuietStep DEF Statuses
    <2> QED BY <1>9, <2>2, <2>3 DEF DiscardOldest
  <1>10. CASE Retry(r)
    <2>1. pc[r] \in Sending
      BY <1>10 DEF Retry, Sending
    <2> QED BY <1>1, <1>6, <1>7, <1>10, <2>1, AdmitStep DEF Retry
  <1>11. CASE CountIngest(r)
    <2>1. /\ pc[r] = "count" /\ pc'[r] = "202"
          /\ \A q \in Requests : q # r => pc'[q] = pc[q]
          /\ Inc(r, "ingest") /\ "ingest" \in Labels /\ "published" \in Labels
      BY <1>1, <1>11, GotoFacts DEF CountIngest, Statuses, Labels
    <2>2. \A q \in Requests : /\ Outcomes(q)' = Outcomes(q)
                              /\ ledger'[q]["published"] = ledger[q]["published"]
      BY <1>1, <2>1, IncOutcomes, IncFacts DEF OutcomeLabels
    <2>3. \A q \in Requests : SameFate(q)
      BY <2>1, <2>2 DEF SameFate, Enqueued
    <2> QED BY <1>1, <1>2, <2>3, FateFrame, NoFateChanges
  <1> QED BY <1>3, <1>4, <1>5, <1>8, <1>9, <1>10, <1>11 DEF Handler

LEMMA WorkerImplements ==
  ASSUME IndInv, IndInv', NEW w \in Workers, Worker(w)
  PROVE  [Contract!Next]_Contract!vars
  <1>1. TypeOK /\ TypeOK' /\ Alive /\ UNCHANGED <<pc, mpc>>
    BY DEF IndInv, Worker, TakeJob, WorkerExit, ParseFails, ParseSucceeds,
           PublishFails, PublishSucceeds, mainVars
  <1>2. Alive' /\ Life' = Life
    BY <1>1 DEF Alive, Life
  <1>3. CASE TakeJob(w) \/ WorkerExit(w) \/ ParseSucceeds(w)
    <2>1. UNCHANGED ledger
      BY <1>3 DEF TakeJob, WorkerExit, ParseSucceeds, countVars
    <2> QED BY <1>1, <1>2, <2>1, QuietStep
  <1>4. ASSUME wpc[w] \in {"parse", "publish"}, NEW l \in OutcomeLabels, Inc(job[w], l)
        PROVE  Contract!Next
    <2>1. job[w] \in Requests /\ Held(job[w])
      BY <1>4, BusyHolds DEF IndInv, Held
    <2> QED BY <1>1, <1>4, <2>1, SettleStep DEF Enqueued
  <1>5. CASE ParseFails(w) \/ PublishFails(w) \/ PublishSucceeds(w)
    BY <1>4, <1>5 DEF ParseFails, PublishFails, PublishSucceeds, OutcomeLabels
  <1> QED BY <1>3, <1>5 DEF Worker

\* main: the end of wg.Wait, of pub.Close and of the process show in the contract.
LEMMA MainImplements ==
  ASSUME IndInv, IndInv', StopSignal \/ Shutdown \/ Kill
  PROVE  [Contract!Next]_Contract!vars
  <1>1. /\ TypeOK /\ TypeOK' /\ UNCHANGED <<pc, ledger>> /\ Alive
    BY DEF IndInv, StopSignal, Shutdown, Kill, HttpDrained, HttpTimeout, DrainPoll,
           DrainTimeout, CloseChannel, WgWait, ClosePublisher, Advance, Alive, countVars
  <1>2. CASE Alive' /\ Life' = Life
    BY <1>1, <1>2, QuietStep
  <1>3. CASE WgWait \/ ClosePublisher
    <2>1. mpc # "killed" /\ mpc' # "killed"
      BY <1>3 DEF WgWait, ClosePublisher, Advance
    <2>2. \A q \in Requests : SameFate(q)
      BY <1>1 DEF SameFate, Outcomes, Enqueued
    <2>3. \A q \in Requests : Fate(q)' = Fate(q)
      BY <1>1, <2>1, <2>2, FateFrame
    <2>4. CASE ClosePublisher
      <3>1. Life = "closing" /\ Life' = "stopped"
        BY <2>4 DEF ClosePublisher, Advance, Life, Alive
      <3>2. Contract!Stop
        BY <2>3, <3>1 DEF Contract!Stop
      <3> QED BY <3>2 DEF Contract!Next
    <2>5. CASE WgWait
      <3>1. Life = "up" /\ Life' = "closing"
        BY <2>5 DEF WgWait, Advance, Life, Alive
      <3>2. \A q \in Requests : Enqueued(q) => Outcomes(q) # 0
        BY <2>5, ExitedSettled DEF WgWait
      <3>3. \A q \in Requests : Fate(q) # "held"
        BY <1>1, <3>2, FateNow DEF FateTable
      <3>4. Contract!CloseIntake
        BY <2>3, <3>1, <3>3 DEF Contract!CloseIntake
      <3> QED BY <3>4 DEF Contract!Next
    <2> QED BY <1>3, <2>4, <2>5
  <1>4. CASE Kill
    <2>1. mpc' = "killed" /\ mpc # "killed"
      BY <1>4 DEF Kill, Alive
    <2>2. \A q \in Requests : Outcomes(q)' = Outcomes(q) /\ (Enqueued(q)' <=> Enqueued(q))
      BY <1>1 DEF Outcomes, Enqueued
    <2>3. ASSUME NEW q \in Requests
          PROVE  Fate(q)' = IF Fate(q) = "held" THEN "lost" ELSE Fate(q)
      <3>1. CASE ~Enqueued(q)
        BY <1>1, <2>2, <3>1, FateNow, FateNext DEF FateTable
      <3>2. CASE Enqueued(q) /\ Outcomes(q) = 0
        BY <1>1, <2>1, <2>2, <3>2, FateNow, FateNext DEF FateTable
      <3>3. CASE Enqueued(q) /\ Outcomes(q) # 0
        BY <1>1, <2>1, <2>2, <3>3, FateNow, FateNext DEF FateTable
      <3> QED BY <3>1, <3>2, <3>3
    <2>4. Contract!Kill
      BY <1>1, <2>1, <2>3 DEF Contract!Kill, Contract!Alive, Life, Alive
    <2> QED BY <2>4 DEF Contract!Next
  <1>5. (Alive' /\ Life' = Life) \/ WgWait \/ ClosePublisher \/ Kill
    BY DEF StopSignal, Shutdown, Kill, HttpDrained, HttpTimeout, DrainPoll,
           DrainTimeout, CloseChannel, Advance, Alive, Life
  <1> QED BY <1>2, <1>3, <1>4, <1>5

LEMMA InitImplements == Init => Contract!Init
  <1> SUFFICES ASSUME Init PROVE Contract!Init
    OBVIOUS
  <1>1. \A r \in Requests : Fate(r) = "absent"
    BY InitIndInv, FateNow DEF FateTable, IndInv, Init, Enqueued, Statuses
  <1> QED BY <1>1 DEF Contract!Init, Life, Alive, Init

LEMMA NextImplements ==
  IndInv /\ IndInv' /\ [Next]_vars => [Contract!Next]_Contract!vars
  <1> SUFFICES ASSUME IndInv, IndInv', [Next]_vars
               PROVE  [Contract!Next]_Contract!vars
    OBVIOUS
  <1>1. ASSUME NEW r \in Requests, Arrive(r) PROVE UNCHANGED Contract!vars
    <2>1. /\ UNCHANGED <<ledger, mpc>> /\ Alive /\ Alive' /\ Life' = Life
          /\ pc[r] = "idle" /\ pc'[r] = "reading"
          /\ \A q \in Requests : q # r => pc'[q] = pc[q]
      BY <1>1, GotoFacts DEF IndInv, Arrive, countVars, mainVars, Alive, Life, InFlight
    <2> QED BY <2>1, QuietStep DEF IndInv, Statuses
  <1>2. CASE UNCHANGED vars
    <2>1. UNCHANGED <<pc, ledger, mpc>> /\ TypeOK /\ TypeOK'
      BY <1>2 DEF vars, countVars, mainVars, IndInv
    <2>2. \A q \in Requests : SameFate(q)
      BY <2>1 DEF SameFate, Outcomes, Enqueued
    <2>3. \A q \in Requests : Fate(q)' = Fate(q)
      BY <2>1, <2>2, FateFrame
    <2> QED BY <2>1, <2>3 DEF Contract!vars, Life, Alive
  <1> QED BY <1>1, <1>2, HandlerImplements, WorkerImplements, MainImplements
          DEF Next, Gone

\* The collector implements the ingest contract: admitted events are held until
\* published or dropped, a graceful stop strands none, a kill loses the held ones
\* (the whole of service.go and the shutdown of cmd/collector/main.go).
THEOREM ImplementsSafety == Spec => Contract!Safety
  BY InitImplements, NextImplements, Inductive, PTL DEF Spec, Contract!Safety

-----------------------------------------------------------------------------
(* wg.Wait: the work that is left.                                          *)

\* main waits only for workers of a closed channel.
WaitClosed == mpc \in {"wait", "closePub", "stopped"} => closed

LEMMA WaitClosedStep == ASSUME WaitClosed, [Next]_vars PROVE WaitClosed'
  <1>1. CASE CloseChannel
    BY <1>1 DEF CloseChannel, WaitClosed
  <1>2. CASE UNCHANGED <<mpc, closed>>
    BY <1>2 DEF WaitClosed
  <1>3. ASSUME NEW r \in Requests, Arrive(r) \/ Handler(r) PROVE UNCHANGED <<mpc, closed>>
    BY <1>3 DEF Arrive, Handler, BodyUnreadable, RejectEmpty, CopyPayload, Enqueue, SendCase,
                SendPanics, MakeRoom, QueueSaturated, DiscardOldest, Retry, CountIngest,
                svcVars, mainVars
  <1>4. ASSUME NEW w \in Workers, Worker(w) PROVE UNCHANGED <<mpc, closed>>
    BY <1>4 DEF Worker, TakeJob, WorkerExit, ParseFails, ParseSucceeds, PublishFails,
                PublishSucceeds, svcVars, mainVars
  <1>5. CASE StopSignal \/ HttpDrained \/ HttpTimeout \/ DrainPoll \/ DrainTimeout
    BY <1>5 DEF StopSignal, HttpDrained, HttpTimeout, DrainPoll, DrainTimeout, Advance,
                WaitClosed
  <1>6. CASE WgWait \/ ClosePublisher \/ Kill
    BY <1>6 DEF WgWait, ClosePublisher, Advance, Kill, svcVars, WaitClosed
  <1>7. CASE Gone \/ UNCHANGED vars
    BY <1>2, <1>7 DEF Gone, vars, svcVars, mainVars
  <1> QED BY <1>1, <1>2, <1>3, <1>4, <1>5, <1>6, <1>7 DEF Next, Shutdown

\* One worker moves: the count of those in S changes by that worker alone.
One(c) == IF c THEN 1 ELSE 0

LEMMA CountMoves ==
  ASSUME IsFiniteSet(Workers), NEW U, wpc \in [Workers -> U], NEW w \in Workers, NEW l,
         wpc' = [wpc EXCEPT ![w] = l], NEW S
  PROVE  /\ Cardinality(WorkersIn(S)) \in Nat /\ Cardinality(WorkersIn(S))' \in Nat
         /\ Cardinality(WorkersIn(S))' + One(wpc[w] \in S)
              = Cardinality(WorkersIn(S)) + One(l \in S)
  <1> DEFINE A == WorkersIn(S) \ {w}
             B == {v \in Workers : wpc'[v] \in S}
  <1>1. IsFiniteSet(A)
    BY FS_Subset DEF WorkersIn
  <1>2. w \notin A
    OBVIOUS
  <1>3. /\ Cardinality(A) \in Nat /\ IsFiniteSet(A \cup {w})
        /\ Cardinality(A \cup {w}) = Cardinality(A) + 1
    BY <1>1, <1>2, FS_AddElement, FS_CardinalityType
  <1>4. wpc'[w] = l /\ \A v \in Workers \ {w} : wpc'[v] = wpc[v]
    OBVIOUS
  <1>5. WorkersIn(S) = IF wpc[w] \in S THEN A \cup {w} ELSE A
    BY DEF WorkersIn
  <1>6. B = IF l \in S THEN A \cup {w} ELSE A
    BY <1>4 DEF WorkersIn
  <1>7. Cardinality(WorkersIn(S))' = Cardinality(B)
    BY DEF WorkersIn
  <1> HIDE DEF A, B
  <1>8. Cardinality(WorkersIn(S)) = Cardinality(A) + One(wpc[w] \in S)
    BY <1>3, <1>5 DEF One
  <1>9. Cardinality(B) = Cardinality(A) + One(l \in S)
    BY <1>3, <1>6 DEF One
  <1> QED BY <1>3, <1>7, <1>8, <1>9 DEF One

LEMMA CountIsNat ==
  ASSUME IsFiniteSet(Workers), NEW S PROVE Cardinality(WorkersIn(S)) \in Nat
  <1>1. WorkersIn(S) \in SUBSET Workers
    BY DEF WorkersIn
  <1> QED BY <1>1, FS_Subset, FS_CardinalityType

\* A worker's step from one place to another, with what it does to the channel.
LEMMA WorkMoves ==
  ASSUME IsFiniteSet(Workers), TypeOK, NEW w \in Workers, NEW l,
         wpc' = [wpc EXCEPT ![w] = l], Len(ch') \in Nat,
         \/ wpc[w] = "range" /\ l = "parse" /\ Len(ch') = Len(ch) - 1
         \/ wpc[w] = "range" /\ l = "exited" /\ Len(ch') = Len(ch)
         \/ wpc[w] = "parse" /\ l \in {"range", "publish"} /\ Len(ch') = Len(ch)
         \/ wpc[w] = "publish" /\ l = "range" /\ Len(ch') = Len(ch)
  PROVE  WorkLeft \in Nat /\ WorkLeft' \in Nat /\ WorkLeft' < WorkLeft
  <1> DEFINE R == {"range", "parse", "publish"}
             Q == {"parse", "publish"}
             P == {"parse"}
             a == Cardinality(WorkersIn(R))
             b == Cardinality(WorkersIn(Q))
             c == Cardinality(WorkersIn(P))
             x == Cardinality(WorkersIn(R))'
             y == Cardinality(WorkersIn(Q))'
             z == Cardinality(WorkersIn(P))'
             m == Len(ch)
             n == Len(ch')
  <1>1. wpc \in [Workers -> {"range", "parse", "publish", "exited"}]
    BY DEF TypeOK
  <1>2. \A T : /\ Cardinality(WorkersIn(T)) \in Nat /\ Cardinality(WorkersIn(T))' \in Nat
               /\ Cardinality(WorkersIn(T))' + One(wpc[w] \in T)
                    = Cardinality(WorkersIn(T)) + One(l \in T)
    BY <1>1, CountMoves
  <1>3. /\ a \in Nat /\ x \in Nat /\ x + One(wpc[w] \in R) = a + One(l \in R)
        /\ b \in Nat /\ y \in Nat /\ y + One(wpc[w] \in Q) = b + One(l \in Q)
        /\ c \in Nat /\ z \in Nat /\ z + One(wpc[w] \in P) = c + One(l \in P)
    <2>1. a \in Nat /\ x \in Nat /\ x + One(wpc[w] \in R) = a + One(l \in R)
      BY <1>2
    <2>2. b \in Nat /\ y \in Nat /\ y + One(wpc[w] \in Q) = b + One(l \in Q)
      BY <1>2
    <2>3. c \in Nat /\ z \in Nat /\ z + One(wpc[w] \in P) = c + One(l \in P)
      BY <1>2
    <2> QED BY <2>1, <2>2, <2>3
  <1>4. a \in Nat /\ b \in Nat /\ c \in Nat /\ x \in Nat /\ y \in Nat /\ z \in Nat
    BY <1>3
  <1>5. WorkLeft = 3 * m + a + b + c /\ WorkLeft' = 3 * n + x + y + z
    BY DEF WorkLeft
  <1>6. m \in Nat /\ n \in Nat
    BY DEF TypeOK
  <1> HIDE DEF a, b, c, x, y, z
  <1>7. CASE wpc[w] = "range" /\ l = "parse" /\ n = m - 1
    <2>1. x = a /\ y = b + 1 /\ z = c + 1
      BY <1>3, <1>7 DEF One
    <2> QED BY <1>4, <1>5, <1>6, <1>7, <2>1
  <1>8. CASE wpc[w] = "range" /\ l = "exited" /\ n = m
    <2>1. x = a - 1 /\ y = b /\ z = c
      BY <1>3, <1>8 DEF One
    <2> QED BY <1>4, <1>5, <1>6, <1>8, <2>1
  <1>9. CASE wpc[w] = "parse" /\ l = "range" /\ n = m
    <2>1. x = a /\ y = b - 1 /\ z = c - 1
      BY <1>3, <1>9 DEF One
    <2> QED BY <1>4, <1>5, <1>6, <1>9, <2>1
  <1>10. CASE wpc[w] = "parse" /\ l = "publish" /\ n = m
    <2>1. x = a /\ y = b /\ z = c - 1
      BY <1>3, <1>10 DEF One
    <2> QED BY <1>4, <1>5, <1>6, <1>10, <2>1
  <1>11. CASE wpc[w] = "publish" /\ l = "range" /\ n = m
    <2>1. x = a /\ y = b - 1 /\ z = c
      BY <1>3, <1>11 DEF One
    <2> QED BY <1>4, <1>5, <1>6, <1>11, <2>1
  <1> QED BY <1>7, <1>8, <1>9, <1>10, <1>11

LEMMA WorkerWorks ==
  ASSUME IsFiniteSet(Workers), TypeOK, NEW w \in Workers, Worker(w)
  PROVE  WorkLeft \in Nat /\ WorkLeft' \in Nat /\ WorkLeft' < WorkLeft
  <1>1. Len(ch) \in Nat
    BY DEF TypeOK
  <1>2. CASE TakeJob(w)
    <2>1. ch # <<>> /\ ch' = Tail(ch) /\ ch \in Seq(Requests)
      BY <1>2 DEF TakeJob, TypeOK
    <2>2. Len(ch') = Len(ch) - 1 /\ Len(ch') \in Nat
      BY <2>1, TailFacts
    <2>3. wpc[w] = "range" /\ wpc' = [wpc EXCEPT ![w] = "parse"]
      BY <1>2 DEF TakeJob
    <2> QED BY <2>2, <2>3, WorkMoves
  <1>3. CASE WorkerExit(w)
    <2>1. wpc[w] = "range" /\ wpc' = [wpc EXCEPT ![w] = "exited"] /\ ch' = ch
      BY <1>3 DEF WorkerExit, svcVars
    <2> QED BY <1>1, <2>1, WorkMoves
  <1>4. CASE ParseSucceeds(w)
    <2>1. wpc[w] = "parse" /\ wpc' = [wpc EXCEPT ![w] = "publish"] /\ ch' = ch
      BY <1>4 DEF ParseSucceeds, svcVars
    <2> QED BY <1>1, <2>1, WorkMoves
  <1>5. CASE ParseFails(w)
    <2>1. wpc[w] = "parse" /\ wpc' = [wpc EXCEPT ![w] = "range"] /\ ch' = ch
      BY <1>5 DEF ParseFails, NextJob, svcVars
    <2> QED BY <1>1, <2>1, WorkMoves
  <1>6. CASE PublishFails(w) \/ PublishSucceeds(w)
    <2>1. wpc[w] = "publish" /\ wpc' = [wpc EXCEPT ![w] = "range"] /\ ch' = ch
      BY <1>6 DEF PublishFails, PublishSucceeds, NextJob, svcVars
    <2> QED BY <1>1, <2>1, WorkMoves
  <1> QED BY <1>2, <1>3, <1>4, <1>5, <1>6 DEF Worker

\* With the channel closed no other step adds work: no send succeeds.
LEMMA OthersAddNothing ==
  ASSUME IsFiniteSet(Workers), TypeOK, closed, [Next]_vars, \A w \in Workers : ~Worker(w)
  PROVE  UNCHANGED wpc /\ WorkLeft' <= WorkLeft
  <1>1. \A r \in Requests : ~SendCase(r)
    BY DEF SendCase
  <1>2. UNCHANGED wpc
    BY DEF Next, Gone, Handler, Arrive, BodyUnreadable, RejectEmpty, CopyPayload, Enqueue,
           SendCase, SendPanics, MakeRoom, QueueSaturated, DiscardOldest, Retry, CountIngest,
           StopSignal, Shutdown, HttpDrained, HttpTimeout, DrainPoll, DrainTimeout,
           CloseChannel, WgWait, ClosePublisher, Advance, Kill, vars, workVars
  <1>3. ch' = ch \/ (ch # <<>> /\ ch' = Tail(ch))
    <2>1. ASSUME NEW r \in Requests, Arrive(r) \/ Handler(r)
          PROVE  ch' = ch \/ (ch # <<>> /\ ch' = Tail(ch))
      BY <1>1, <2>1 DEF Arrive, Handler, BodyUnreadable, RejectEmpty, CopyPayload, Enqueue,
                        SendPanics, MakeRoom, QueueSaturated, DiscardOldest, EvictHead,
                        EvictNothing, NothingToEvict, Retry, CountIngest, svcVars
    <2>2. CASE StopSignal \/ Shutdown \/ Kill \/ Gone \/ UNCHANGED vars
      BY <2>2 DEF StopSignal, Shutdown, HttpDrained, HttpTimeout, DrainPoll, DrainTimeout,
                  CloseChannel, WgWait, ClosePublisher, Advance, Kill, Gone, vars, svcVars
    <2> QED BY <2>1, <2>2 DEF Next
  <1>4. Len(ch') \in Nat /\ Len(ch') <= Len(ch) /\ Len(ch) \in Nat
    <2>1. ch \in Seq(Requests) /\ Len(ch) \in Nat
      BY DEF TypeOK
    <2>2. ch # <<>> => Len(Tail(ch)) = Len(ch) - 1 /\ Len(ch) \in Nat \ {0}
      BY <2>1, TailFacts
    <2> QED BY <1>3, <2>1, <2>2
  <1> DEFINE k == Cardinality(WorkersIn({"range", "parse", "publish"}))
                  + Cardinality(WorkersIn({"parse", "publish"}))
                  + Cardinality(WorkersIn({"parse"}))
  <1>5. k \in Nat
    BY CountIsNat
  <1>6. k' = k
    BY <1>2 DEF WorkersIn
  <1>7. WorkLeft = 3 * Len(ch) + k /\ WorkLeft' = 3 * Len(ch') + k'
    <2>1. \A S : Cardinality(WorkersIn(S)) \in Nat
      BY CountIsNat
    <2>2. \A S : Cardinality(WorkersIn(S))' = Cardinality(WorkersIn(S))
      BY <1>2 DEF WorkersIn
    <2> QED BY <1>4, <2>1, <2>2 DEF WorkLeft
  <1> HIDE DEF k
  <1> QED BY <1>2, <1>4, <1>5, <1>6, <1>7

\* wg.Wait has nothing to wait for but finite work: from close(s.ch) on the work
\* of the workers falls with each of their steps, and no handler that outlived
\* srv.Shutdown adds to it (service.go:113, 168-194, 203-210).
THEOREM WaitOnlyShrinks ==
  ASSUME IsFiniteSet(Workers) PROVE Spec => WaitProgresses
  <1>1. Init => WaitClosed
    BY DEF Init, WaitClosed
  <1>2. WaitClosed /\ [Next]_vars => WaitClosed'
    BY WaitClosedStep
  <1>3. IndInv /\ WaitClosed /\ [Next]_vars =>
          [mpc = "wait" => /\ closed /\ WorkLeft' <= WorkLeft
                           /\ wpc' # wpc => WorkLeft' < WorkLeft]_vars
    <2> SUFFICES ASSUME IndInv, WaitClosed, [Next]_vars, mpc = "wait"
                 PROVE  /\ closed /\ WorkLeft' <= WorkLeft
                        /\ wpc' # wpc => WorkLeft' < WorkLeft
      OBVIOUS
    <2>1. closed /\ TypeOK
      BY DEF WaitClosed, IndInv
    <2>2. CASE \E w \in Workers : Worker(w)
      <3>1. WorkLeft \in Nat /\ WorkLeft' \in Nat /\ WorkLeft' < WorkLeft
        BY <2>1, <2>2, WorkerWorks
      <3> QED BY <2>1, <3>1
    <2>3. CASE \A w \in Workers : ~Worker(w)
      BY <2>1, <2>3, OthersAddNothing
    <2> QED BY <2>1, <2>2, <2>3
  <1> QED BY <1>1, <1>2, <1>3, Inductive, PTL DEF Spec, WaitProgresses

=============================================================================

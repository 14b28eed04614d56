----------------------------- MODULE Collector ------------------------------
(***************************************************************************)
(* The collector process: the gin handlers of POST /v1/ingest, the         *)
(* bounded channel of collector.Service with its two drop policies, the    *)
(* worker pool that parses and publishes, and the shutdown sequence of     *)
(* cmd/collector/main.go.                                                  *)
(*                                                                         *)
(* A request stands for one call of Ingest and for the event it carries.   *)
(* A step is what a goroutine does between two points where another one    *)
(* can interfere: a select on the channel, a counter, a call that returns. *)
(* The prometheus counters are kept per event (ledger[r][label] says how   *)
(* often r was counted under label), so that a double or a missing         *)
(* increment shows; the value scraped is the sum over r.                   *)
(***************************************************************************)
EXTENDS Naturals, Sequences, FiniteSets

CONSTANTS Requests,         \* calls of Ingest
          Workers,          \* worker goroutines of the service
          ChannelCapacity,  \* cap(s.ch)
          DropPolicies,     \* the values DROP_POLICY may have
          NoJob             \* a worker that holds no job

\* NewService replaces a capacity <= 0 and a worker count <= 0 by defaults.
ASSUME CollectorAssumption == /\ ChannelCapacity \in Nat \ {0}
                              /\ Workers # {}
                              /\ NoJob \notin Requests

VARIABLES pc,           \* pc[r]: where r's handler is, or the status it answered
          ch,           \* the jobs buffered in s.ch, oldest first
          closed,       \* s.ch has been closed
          dropPolicy,   \* s.dropPolicy
          wpc,          \* wpc[w]: where worker w is
          job,          \* job[w]: the job w holds
          ledger,       \* ledger[r][label]: increments made for r
          phantom,      \* drops counted although no event was discarded
          mpc,          \* where main is
          httpTimedOut, \* srv.Shutdown gave up on a handler (history)
          overtaken     \* overtaken[r]: somebody enqueued since r made room (history)

svcVars   == <<ch, closed, dropPolicy>>
workVars  == <<wpc, job>>
countVars == <<ledger, phantom>>
mainVars  == <<mpc, httpTimedOut>>
vars == <<pc, svcVars, workVars, countVars, mainVars, overtaken>>

Statuses == {"202", "400", "500", "503"}
\* The handler goroutine exists; "send", "evict" and "resend" are its selects on s.ch.
Sending  == {"send", "evict", "resend"}
InFlight == {"reading", "count"} \cup Sending

\* collector_ingest_total, collector_published_total, collector_drop_total by reason
Labels == {"ingest", "published", "empty", "channel_full",
           "parse_error", "publish_error"}

TypeOK ==
  /\ pc \in [Requests -> {"idle"} \cup InFlight \cup Statuses]
  /\ ch \in Seq(Requests) /\ Len(ch) <= ChannelCapacity
  /\ closed \in BOOLEAN
  /\ dropPolicy \in DropPolicies
  /\ wpc \in [Workers -> {"range", "parse", "publish", "exited"}]
  /\ job \in [Workers -> Requests \cup {NoJob}]
  /\ ledger \in [Requests -> [Labels -> Nat]]
  /\ phantom \in Nat
  /\ mpc \in {"serving", "httpDrain", "queueDrain", "close", "wait",
              "closePub", "stopped", "killed"}
  /\ httpTimedOut \in BOOLEAN
  /\ overtaken \in [Requests -> BOOLEAN]

Init ==
  /\ pc = [r \in Requests |-> "idle"]
  /\ ch = <<>> /\ closed = FALSE /\ dropPolicy \in DropPolicies
  /\ wpc = [w \in Workers |-> "range"]
  /\ job = [w \in Workers |-> NoJob]
  /\ ledger = [r \in Requests |-> [l \in Labels |-> 0]]
  /\ phantom = 0
  /\ mpc = "serving" /\ httpTimedOut = FALSE
  /\ overtaken = [r \in Requests |-> FALSE]

Alive == mpc \notin {"stopped", "killed"}

Inc(r, label) == ledger' = [ledger EXCEPT ![r][label] = @ + 1]
Goto(r, l)    == pc' = [pc EXCEPT ![r] = l]

-----------------------------------------------------------------------------
(* The handler of POST /v1/ingest up to Ingest's call of enqueue.           *)

Arrive(r) == /\ mpc = "serving" /\ pc[r] = "idle"
             /\ Goto(r, "reading")
             /\ UNCHANGED <<svcVars, workVars, countVars, mainVars, overtaken>>

\* io.ReadAll fails (a broken body, ReadTimeout).
BodyUnreadable(r) ==
  /\ Alive /\ pc[r] = "reading"
  /\ Goto(r, "400")
  /\ UNCHANGED <<svcVars, workVars, countVars, mainVars, overtaken>>

\* len(raw) == 0: counted, ErrNonRetryable.
RejectEmpty(r) ==
  /\ Alive /\ pc[r] = "reading"
  /\ Inc(r, "empty") /\ Goto(r, "400")
  /\ UNCHANGED <<svcVars, workVars, phantom, mainVars, overtaken>>

CopyPayload(r) ==
  /\ Alive /\ pc[r] = "reading"
  /\ Goto(r, "send")
  /\ UNCHANGED <<svcVars, workVars, countVars, mainVars, overtaken>>

-----------------------------------------------------------------------------
(* enqueue: every select has a default, so none of these steps waits.       *)

HasRoomOffByOne == Len(ch) <= ChannelCapacity

HasRoom == Len(ch) < ChannelCapacity

\* case s.ch <- j
SendCase(r) ==
  /\ ~closed /\ HasRoom
  /\ ch' = Append(ch, r)
  /\ Goto(r, "count")
  /\ overtaken' = [q \in Requests |-> overtaken[q] \/ (q # r /\ pc[q] = "resend")]
  /\ UNCHANGED <<closed, dropPolicy, workVars, countVars, mainVars>>

\* A select with a send on a closed channel panics; gin.Recovery answers 500.
SendPanics(r) ==
  /\ closed
  /\ Goto(r, "500")
  /\ UNCHANGED <<svcVars, workVars, countVars, mainVars, overtaken>>

QueueSaturatedUncounted(r) ==
  /\ ~closed /\ ~HasRoom
  /\ Goto(r, "503")
  /\ UNCHANGED <<svcVars, workVars, countVars, mainVars, overtaken>>

\* default: the event is counted as dropped, ErrQueueSaturated becomes a 503.
QueueSaturated(r) ==
  /\ ~closed /\ ~HasRoom
  /\ Inc(r, "channel_full") /\ Goto(r, "503")
  /\ UNCHANGED <<svcVars, workVars, phantom, mainVars, overtaken>>

\* DropOldest, the outer default: go and make room.
MakeRoom(r) ==
  /\ ~closed /\ ~HasRoom
  /\ Goto(r, "evict")
  /\ UNCHANGED <<svcVars, workVars, countVars, mainVars, overtaken>>

EnqueueAlwaysMakesRoom(r) ==
  /\ Alive /\ pc[r] = "send"
  /\ SendCase(r) \/ SendPanics(r) \/ MakeRoom(r)

Enqueue(r) ==
  /\ Alive /\ pc[r] = "send"
  /\ \/ SendCase(r)
     \/ SendPanics(r)
     \/ dropPolicy = "drop_oldest" /\ MakeRoom(r)
     \/ dropPolicy # "drop_oldest" /\ QueueSaturated(r)

EvictWithoutReceive(r) ==
  /\ ch # <<>>
  /\ UNCHANGED <<ch, countVars>>

\* case old := <-s.ch and the counter after it, which nobody reads in between.
EvictHead(r) ==
  /\ ch # <<>>
  /\ ch' = Tail(ch)
  /\ Inc(Head(ch), "channel_full")
  /\ UNCHANGED phantom

\* A receive from a closed and drained channel yields the zero job: the drop
\* is counted although nothing was discarded.
EvictNothing(r) ==
  /\ ch = <<>> /\ closed
  /\ phantom' = phantom + 1
  /\ UNCHANGED <<ch, ledger>>

\* default: the workers drained the channel in the meantime.
NothingToEvict(r) ==
  /\ ch = <<>> /\ ~closed
  /\ UNCHANGED <<ch, countVars>>

DiscardOldestBlocking(r) ==
  /\ Alive /\ pc[r] = "evict"
  /\ EvictHead(r) \/ EvictNothing(r)
  /\ Goto(r, "resend")
  /\ overtaken' = [overtaken EXCEPT ![r] = FALSE]
  /\ UNCHANGED <<closed, dropPolicy, workVars, mainVars>>

DiscardOldest(r) ==
  /\ Alive /\ pc[r] = "evict"
  /\ EvictHead(r) \/ EvictNothing(r) \/ NothingToEvict(r)
  /\ Goto(r, "resend")
  /\ overtaken' = [overtaken EXCEPT ![r] = FALSE]
  /\ UNCHANGED <<closed, dropPolicy, workVars, mainVars>>

Retry(r) ==
  /\ Alive /\ pc[r] = "resend"
  /\ SendCase(r) \/ SendPanics(r) \/ QueueSaturated(r)

\* Back in Ingest: IngestTotal is incremented after the job is already visible
\* to the workers, then the router answers 202.
CountIngest(r) ==
  /\ Alive /\ pc[r] = "count"
  /\ Inc(r, "ingest") /\ Goto(r, "202")
  /\ UNCHANGED <<svcVars, workVars, phantom, mainVars, overtaken>>

Handler(r) == \/ BodyUnreadable(r) \/ RejectEmpty(r) \/ CopyPayload(r)
              \/ Enqueue(r) \/ DiscardOldest(r) \/ Retry(r) \/ CountIngest(r)

-----------------------------------------------------------------------------
(* workerLoop and handleJob.                                                *)

\* for job := range s.ch
TakeJob(w) ==
  /\ Alive /\ wpc[w] = "range" /\ ch # <<>>
  /\ ch' = Tail(ch)
  /\ job' = [job EXCEPT ![w] = Head(ch)]
  /\ wpc' = [wpc EXCEPT ![w] = "parse"]
  /\ UNCHANGED <<pc, closed, dropPolicy, countVars, mainVars, overtaken>>

WorkerExitEarly(w) ==
  /\ Alive /\ wpc[w] = "range" /\ closed
  /\ wpc' = [wpc EXCEPT ![w] = "exited"]
  /\ UNCHANGED <<pc, svcVars, job, countVars, mainVars, overtaken>>

\* The range ends when the channel is closed and drained; wg.Done.
WorkerExit(w) ==
  /\ Alive /\ wpc[w] = "range" /\ closed /\ ch = <<>>
  /\ wpc' = [wpc EXCEPT ![w] = "exited"]
  /\ UNCHANGED <<pc, svcVars, job, countVars, mainVars, overtaken>>

\* handleJob returns: the worker goes back to its range loop.
NextJob(w) == /\ wpc' = [wpc EXCEPT ![w] = "range"]
              /\ job' = [job EXCEPT ![w] = NoJob]

ParseFails_NoReturn(w) ==
  /\ Alive /\ wpc[w] = "parse"
  /\ Inc(job[w], "parse_error")
  /\ wpc' = [wpc EXCEPT ![w] = "publish"]
  /\ UNCHANGED <<pc, svcVars, job, phantom, mainVars, overtaken>>

ParseFails(w) ==
  /\ Alive /\ wpc[w] = "parse"
  /\ Inc(job[w], "parse_error")
  /\ NextJob(w)
  /\ UNCHANGED <<pc, svcVars, phantom, mainVars, overtaken>>

ParseSucceeds(w) ==
  /\ Alive /\ wpc[w] = "parse"
  /\ wpc' = [wpc EXCEPT ![w] = "publish"]
  /\ UNCHANGED <<pc, svcVars, job, countVars, mainVars, overtaken>>

\* publisher.Publish returns an error (the broker, or the 30s deadline).
PublishFails(w) ==
  /\ Alive /\ wpc[w] = "publish"
  /\ Inc(job[w], "publish_error")
  /\ NextJob(w)
  /\ UNCHANGED <<pc, svcVars, phantom, mainVars, overtaken>>

PublishSucceeds(w) ==
  /\ Alive /\ wpc[w] = "publish"
  /\ Inc(job[w], "published")
  /\ NextJob(w)
  /\ UNCHANGED <<pc, svcVars, phantom, mainVars, overtaken>>

Worker(w) == \/ TakeJob(w) \/ WorkerExit(w)
             \/ ParseFails(w) \/ ParseSucceeds(w)
             \/ PublishFails(w) \/ PublishSucceeds(w)

-----------------------------------------------------------------------------
(* main: serve, srv.Shutdown, svc.Shutdown, pub.Close.                      *)

Advance(from, to) == /\ mpc = from
                     /\ mpc' = to
                     /\ UNCHANGED <<pc, workVars, countVars, overtaken>>

\* SIGTERM or SIGINT, or an error of ListenAndServe.
StopSignal == /\ Advance("serving", "httpDrain")
              /\ UNCHANGED <<svcVars, httpTimedOut>>

HttpNotDrained == /\ Advance("httpDrain", "queueDrain")
                  /\ UNCHANGED <<svcVars, httpTimedOut>>

\* srv.Shutdown returns nil: the listener is closed and no handler is active.
HttpDrained == /\ \A r \in Requests : pc[r] \notin InFlight
               /\ Advance("httpDrain", "queueDrain")
               /\ UNCHANGED <<svcVars, httpTimedOut>>

\* srv.Shutdown returns shCtx's error; main logs it and goes on, handlers run.
HttpTimeout == /\ Advance("httpDrain", "queueDrain")
               /\ httpTimedOut' = TRUE
               /\ UNCHANGED svcVars

\* case <-ticker.C with len(s.ch) == 0
DrainPoll == /\ ch = <<>>
             /\ Advance("queueDrain", "close")
             /\ UNCHANGED <<svcVars, httpTimedOut>>

\* case <-ctx.Done()
DrainTimeout == /\ Advance("queueDrain", "close")
                /\ UNCHANGED <<svcVars, httpTimedOut>>

CloseForgotten == /\ Advance("close", "wait")
                  /\ UNCHANGED <<svcVars, httpTimedOut>>

\* close(s.ch): not atomic with the poll before it.
CloseChannel == /\ Advance("close", "wait")
                /\ closed' = TRUE
                /\ UNCHANGED <<ch, dropPolicy, httpTimedOut>>

WgNotAwaited == /\ Advance("wait", "closePub")
                /\ UNCHANGED <<svcVars, httpTimedOut>>

\* s.wg.Wait() returns: it has no deadline.
WgWait == /\ \A w \in Workers : wpc[w] = "exited"
          /\ Advance("wait", "closePub")
          /\ UNCHANGED <<svcVars, httpTimedOut>>

\* pub.Close() flushes the writer, main returns and the process is gone.
ClosePublisher == /\ Advance("closePub", "stopped")
                  /\ UNCHANGED <<svcVars, httpTimedOut>>

\* SIGKILL when the grace period ends, an OOM kill, a node failure.
Kill == /\ Alive
        /\ mpc' = "killed"
        /\ UNCHANGED <<pc, svcVars, workVars, countVars, httpTimedOut, overtaken>>

Shutdown == \/ HttpDrained \/ HttpTimeout \/ DrainPoll \/ DrainTimeout
            \/ CloseChannel \/ WgWait \/ ClosePublisher

\* The process is gone: nothing happens any more.
Gone == ~Alive /\ UNCHANGED vars

Next == \/ \E r \in Requests : Arrive(r) \/ Handler(r)
        \/ \E w \in Workers : Worker(w)
        \/ StopSignal \/ Shutdown \/ Kill
        \/ Gone

(* The Go scheduler runs every runnable goroutine: a handler that has        *)
(* started, a worker with a job or a closed channel, main once it is         *)
(* shutting down (its waits end by a timer).  Publish returns within its 30s *)
(* deadline and ReadAll within ReadTimeout.  Nobody has to send requests,    *)
(* stop the process or kill it.                                              *)
Fairness == /\ \A r \in Requests : WF_vars(Handler(r))
            /\ \A w \in Workers : WF_vars(Worker(w))
            /\ WF_vars(Shutdown)

Spec     == Init /\ [][Next]_vars
FairSpec == Spec /\ Fairness

-----------------------------------------------------------------------------
(* Where an event is.                                                       *)

Enqueued(r) == pc[r] \in {"count", "202"}
Buffered(r) == \E i \in DOMAIN ch : ch[i] = r
Held(r)     == \E w \in Workers : job[w] = r

Outcomes(r) == ledger[r]["published"] + ledger[r]["channel_full"]
               + ledger[r]["parse_error"] + ledger[r]["publish_error"]

(* Conservation: an enqueued event is in one place only: once in the          *)
(* channel, or in the hands of one worker, or settled under exactly one       *)
(* counter.  Evictions by handlers race the workers for the same channel      *)
(* (service.go:109-147, 168-194).                                             *)
BufferedOnce == \A i, j \in DOMAIN ch : ch[i] = ch[j] => i = j
HeldOnce     == \A v, w \in Workers : job[v] = job[w] /\ job[v] # NoJob => v = w
SettledOnce  ==
  \A r \in Requests :
    /\ ~(Buffered(r) /\ Held(r))
    /\ Buffered(r) \/ Held(r) => Enqueued(r)
    /\ Enqueued(r) => Outcomes(r) = IF Buffered(r) \/ Held(r) THEN 0 ELSE 1

Conservation == BufferedOnce /\ HeldOnce /\ SettledOnce

(* The counters tell the truth about the answer: a 202 is one ingest, a 503 is *)
(* one channel_full drop and nothing else, and an event nobody enqueued is     *)
(* never counted as published or failed (metrics/collector.go:12-14).          *)
LedgerExact ==
  \A r \in Requests :
    /\ ledger[r]["ingest"] = IF pc[r] = "202" THEN 1 ELSE 0
    /\ ledger[r]["empty"] > 0 => pc[r] = "400"
    /\ ~Enqueued(r) => Outcomes(r) = IF pc[r] = "503" THEN 1 ELSE 0
    /\ pc[r] = "503" => ledger[r]["channel_full"] = 1

(* No accepted event is lost by a graceful stop, whichever of the timeouts of  *)
(* the shutdown fired: when main returns every enqueued event was published or *)
(* counted as dropped (main.go:92-104, service.go:197-214).                    *)
NoSilentLoss ==
  mpc = "stopped" => \A r \in Requests : Enqueued(r) => Outcomes(r) = 1

(* If srv.Shutdown drained the handlers, nobody sends on the closed channel    *)
(* and no drop is counted for the zero job of a closed channel                 *)
(* (main.go:94-100, service.go:113, 119, 126, 203).                            *)
CleanDrainNeverPanics ==
  ~httpTimedOut =>
    /\ phantom = 0
    /\ \A r \in Requests : pc[r] # "500"
    /\ closed => \A r \in Requests : pc[r] \notin Sending

(* The publisher is closed only when no worker can still call Publish          *)
(* (kafka/publisher.go:62, main.go:100-102).                                   *)
PublisherOutlivesWorkers ==
  mpc \in {"closePub", "stopped"} =>
    \A w \in Workers : wpc[w] = "exited" /\ job[w] = NoJob

(* Under drop_newest an event that entered the channel is never evicted: a 202 *)
(* can only be followed by a parse or publish error (config.go:9, 137-145).    *)
DropNewestKeepsAccepted ==
  dropPolicy # "drop_oldest" =>
    \A r \in Requests : Enqueued(r) => ledger[r]["channel_full"] = 0

(* Under drop_oldest a retry fails only because another request took the place *)
(* this one had made: an eviction is never wasted without somebody's fresher   *)
(* event being in the channel (service.go:124-132).                            *)
RetryFailsOnlyIfOvertaken ==
  [][\A r \in Requests : pc[r] = "resend" /\ pc'[r] = "503" => overtaken[r]]_vars

(* While main is in wg.Wait, which has no deadline, the channel is closed, so  *)
(* no worker can wait for ever, and the work that is left shrinks with every   *)
(* step of a worker and never grows, whatever handlers outlived srv.Shutdown:  *)
(* three steps for a buffered event, one for each step of a worker up to its   *)
(* return (service.go:113, 168-194, 203-210).                                  *)
WorkersIn(S) == {w \in Workers : wpc[w] \in S}

WorkLeft == 3 * Len(ch) + Cardinality(WorkersIn({"range", "parse", "publish"}))
            + Cardinality(WorkersIn({"parse", "publish"})) + Cardinality(WorkersIn({"parse"}))

WaitProgresses ==
  [][mpc = "wait" => /\ closed /\ WorkLeft' <= WorkLeft
                     /\ wpc' # wpc => WorkLeft' < WorkLeft]_vars

(* What makes these inductive: a worker holds a job exactly while it handles   *)
(* one; main closes the channel last; a worker exits only from a closed and    *)
(* drained channel, which nobody fills again; handlers that were drained stay  *)
(* gone.                                                                       *)
HoldsWhileBusy == \A w \in Workers : job[w] = NoJob <=> wpc[w] \in {"range", "exited"}
ClosedLast     == closed => mpc \in {"wait", "closePub", "stopped", "killed"}
ExitedDrained  == \A w \in Workers : wpc[w] = "exited" => closed /\ ch = <<>>
DrainedQuiet   ==
  ~httpTimedOut /\ (closed \/ mpc \notin {"serving", "httpDrain", "killed"}) =>
    \A r \in Requests : pc[r] \notin InFlight
NeverPanicked  == ~httpTimedOut => phantom = 0 /\ \A r \in Requests : pc[r] # "500"

(* The inductive invariant of the proofs (CollectorProofs).                    *)
IndInv ==
  /\ TypeOK /\ Conservation /\ LedgerExact
  /\ HoldsWhileBusy /\ ClosedLast /\ ExitedDrained
  /\ PublisherOutlivesWorkers /\ DrainedQuiet /\ NeverPanicked

(* Once shutdown has begun the process ends, whatever the handlers do and      *)
(* however full the channel is (service.go:197-214: wg.Wait has no deadline).  *)
ShutdownTerminates == (mpc = "httpDrain") ~> ~Alive

(* Every request that was started is answered unless the process ends first:   *)
(* no select of enqueue may wait for the workers (service.go:113-132).         *)
EveryRequestAnswered ==
  \A r \in Requests : (pc[r] = "reading") ~> (pc[r] \in Statuses \/ ~Alive)

-----------------------------------------------------------------------------
(* What the documentation says of the shutdown: docs/architecture.md:46 "stop  *)
(* accepting new HTTP requests; drain in-flight handlers" and :47 "then        *)
(* **close** the worker channel": no handler ever meets the closed channel.    *)

RequestsNeverPanic == \A r \in Requests : pc[r] # "500"

-----------------------------------------------------------------------------
(* The collector implements the ingest contract.                            *)

Fate(r) ==
  CASE Enqueued(r) /\ ledger[r]["published"] > 0      -> "published"
    [] Enqueued(r) /\ ledger[r]["published"] = 0
                   /\ Outcomes(r) > 0                 -> "dropped"
    [] Enqueued(r) /\ Outcomes(r) = 0                 ->
                        IF mpc = "killed" THEN "lost" ELSE "held"
    [] ~Enqueued(r) /\ pc[r] \in Statuses             -> "refused"
    [] OTHER                                          -> "absent"

\* wg.Wait has returned: the channel is closed and drained, pub.Close comes next.
Life == IF mpc = "closePub" THEN "closing" ELSE IF Alive THEN "up" ELSE mpc

Contract == INSTANCE IngestContract
              WITH fate <- [r \in Requests |-> Fate(r)], life <- Life

(* Every step of the collector is a step of IngestContract or none, and what   *)
(* it holds is eventually published or dropped while it lives                  *)
(* (contract/collector.go, service.go).                                        *)
ImplementsContract == Contract!Spec

=============================================================================

----------------------------- MODULE Lifecycle ------------------------------
(***************************************************************************)
(* How the processes start, serve and stop, and how long that takes: the   *)
(* main functions of the collector, the query API and the processor.       *)
(*                                                                         *)
(* Time is discrete.  Tick passes one unit for every timer, and only when  *)
(* nothing is due: a goroutine that can run does so before time goes on.   *)
(* A handler may take any time, and so may a job up to its deadline.       *)
(*                                                                         *)
(* Collector has every interleaving of the stop, without durations; here   *)
(* the channel is a number and the workers are the time their jobs have    *)
(* left.                                                                   *)
(***************************************************************************)
EXTENDS Integers

CONSTANTS Commands,         \* of "collector", "query-api", "processor"
          Settings,         \* CHANNEL_CAP and DROP_POLICY as main reads them
          DefaultCapacity,  \* of DefaultBackpressure
          Cpus,             \* runtime.NumCPU
          ShutdownTimeout,  \* SHUTDOWN_TIMEOUT or DefaultShutdownTimeout
          PublishTimeout,   \* the deadline handleJob gives to Publish
          CloseTime,        \* what the closing of a client takes at most
          Graces,           \* terminationGracePeriodSeconds; 0: nobody kills
          MaxConns          \* bound: handlers in flight

ASSUME LifecycleAssumption ==
  /\ Commands \subseteq {"collector", "query-api", "processor"}
  /\ {DefaultCapacity, Cpus, PublishTimeout} \subseteq Nat \ {0}
  /\ {ShutdownTimeout, CloseTime, MaxConns} \cup Graces \subseteq Nat
  /\ Settings \subseteq [capacity : Int, policy : STRING]

VARIABLES cmd,          \* the command that runs
          cfg,          \* the collector's configuration in effect
          grace,        \* the pod's grace period
          listener,     \* ListenAndServe: starting, open, failed or closed
          conns,        \* handlers in flight
          stopping,     \* srv.Shutdown: not called, draining, drained, timed out
          signalled,    \* SIGTERM was received: ctx is done
          main,         \* where the main function is
          since,        \* time since main's present timer was set
          elapsed,      \* time since the signal
          queue,        \* jobs in the collector's channel
          busy          \* busy[w]: the time left to worker w's job, 0 when idle

start  == <<cmd, cfg, grace>>
server == <<listener, conns, stopping>>
clocks == <<since, elapsed>>
jobs   == <<queue, busy>>
vars   == <<start, server, signalled, main, clocks, jobs>>

Workers == 1 .. 2 * Cpus

DefaultBackpressure == [capacity |-> DefaultCapacity, policy |-> "drop_newest"]

WithPolicy(s) == IF s.policy = "" THEN [s EXCEPT !.policy = "drop_newest"] ELSE s

NewService_OffByOne(s) == IF s.capacity < 0 THEN DefaultBackpressure ELSE WithPolicy(s)

\* A capacity that is not positive replaces the whole configuration.
NewService(s) == IF s.capacity <= 0 THEN DefaultBackpressure ELSE WithPolicy(s)

TypeOK ==
  /\ cmd \in Commands /\ grace \in Graces
  /\ cfg.capacity \in Nat \ {0}
  /\ cfg.policy # ""
  /\ listener \in {"starting", "open", "failed", "closed"}
  /\ conns \in 0 .. MaxConns
  /\ stopping \in {"no", "draining", "drained", "timedOut"}
  /\ signalled \in BOOLEAN
  /\ main \in {"serving", "http", "drain", "wait", "close", "exited", "killed"}
  /\ since \in 0 .. ShutdownTimeout + CloseTime /\ elapsed \in Nat
  /\ queue \in 0 .. cfg.capacity
  /\ busy \in [Workers -> 0 .. PublishTimeout]

Init ==
  /\ cmd \in Commands /\ cfg \in {NewService(s) : s \in Settings} /\ grace \in Graces
  /\ listener = "starting" /\ conns = 0 /\ stopping = "no"
  /\ signalled = FALSE /\ main = "serving"
  /\ since = 0 /\ elapsed = 0
  /\ queue = 0 /\ busy = [w \in Workers |-> 0]

Gone == main \in {"exited", "killed"}

Goto(from, to) == main = from /\ main' = to /\ since' = 0

-----------------------------------------------------------------------------
(* The HTTP server and its handlers.                                        *)

Listens ==
  /\ ~Gone /\ listener = "starting"
  /\ listener' \in {"open", "failed"}
  /\ UNCHANGED <<start, conns, stopping, signalled, main, clocks, jobs>>

AcceptFails ==
  /\ ~Gone /\ listener = "open" /\ listener' = "failed"
  /\ UNCHANGED <<start, conns, stopping, signalled, main, clocks, jobs>>

Request ==
  /\ ~Gone /\ listener = "open" /\ conns < MaxConns
  /\ conns' = conns + 1
  /\ UNCHANGED <<start, listener, stopping, signalled, main, clocks, jobs>>

\* A handler of the collector may leave a job, unless the channel is full or closed.
HandlerReturns ==
  /\ ~Gone /\ conns > 0 /\ conns' = conns - 1
  /\ \/ UNCHANGED queue
     \/ /\ cmd = "collector" /\ main \in {"serving", "http", "drain"}
        /\ queue < cfg.capacity /\ queue' = queue + 1
  /\ UNCHANGED <<start, listener, stopping, signalled, main, clocks, busy>>

\* SIGTERM, from whoever stops the pod or restarts it for its liveness probe.
Sigterm ==
  /\ ~Gone /\ ~signalled /\ signalled' = TRUE
  /\ UNCHANGED <<start, server, main, clocks, jobs>>

\* srv.Shutdown closes the listener first; ListenAndServe returns at once.
BeginShutdown == /\ stopping = "no" /\ stopping' = "draining"
                 /\ listener' = IF listener = "failed" THEN "failed" ELSE "closed"
                 /\ UNCHANGED conns

Drains == stopping = "draining" /\ conns = 0 /\ stopping' = "drained"

TimesOut_Never == FALSE /\ stopping' = stopping

TimesOut == /\ stopping = "draining" /\ since = ShutdownTimeout
            /\ stopping' = "timedOut"

-----------------------------------------------------------------------------
(* The main functions.                                                      *)

ServerError_Logged == FALSE

\* What ends the serving besides a signal: errCh, in the collector only.
ServerError == cmd = "collector" /\ listener = "failed"

StopServing ==
  /\ cmd # "processor" /\ (signalled \/ ServerError)
  /\ BeginShutdown /\ Goto("serving", "http")
  /\ UNCHANGED <<start, signalled, elapsed, jobs>>

AfterHttp == IF cmd = "collector" THEN "drain" ELSE "exited"

ServerStopped_InBackground == stopping' = stopping

ServerStopped == Drains \/ TimesOut

\* srv.Shutdown returns; its error is logged.
ShutdownReturns ==
  /\ ServerStopped
  /\ Goto("http", AfterHttp)
  /\ UNCHANGED <<start, listener, conns, signalled, elapsed, jobs>>

HalfTimeOver == since >= ShutdownTimeout \div 2

\* svc.Shutdown: the poll sees an empty channel, or half the timeout is over.
DrainEnds ==
  /\ queue = 0 \/ HalfTimeOver
  /\ Goto("drain", "wait")
  /\ UNCHANGED <<start, server, signalled, elapsed, jobs>>

AllIdle == queue = 0 /\ \A w \in Workers : busy[w] = 0

\* wg.Wait returns.
WorkersDone ==
  /\ AllIdle /\ Goto("wait", "close")
  /\ UNCHANGED <<start, server, signalled, elapsed, jobs>>

\* pub.Close; of the processor st.Close and rdr.Close.
ClientsClosed ==
  /\ Goto("close", "exited")
  /\ UNCHANGED <<start, server, signalled, elapsed, jobs>>

\* The processor: Run returns, the metrics server may still be stopping.
RunEnds ==
  /\ cmd = "processor" /\ Goto("serving", "close")
  /\ UNCHANGED <<start, server, signalled, elapsed, jobs>>

\* ctx is done.
RunReturns == signalled /\ RunEnds

\* The commit of a message that does not unmarshal fails, at any time.
RunFails == RunEnds

\* Its goroutine that stops the metrics server; nobody waits for it.
MetricsShutdown ==
  /\ cmd = "processor" /\ signalled /\ ~Gone
  /\ BeginShutdown \/ (Drains /\ UNCHANGED <<listener, conns>>)
  /\ UNCHANGED <<start, signalled, main, clocks, jobs>>

Main == \/ StopServing \/ ShutdownReturns \/ DrainEnds \/ WorkersDone
        \/ ClientsClosed \/ RunReturns

-----------------------------------------------------------------------------
(* The collector's workers.                                                 *)

TakeJob(w) ==
  /\ ~Gone /\ busy[w] = 0 /\ queue > 0
  /\ queue' = queue - 1
  /\ busy' = [busy EXCEPT ![w] = PublishTimeout]
  /\ UNCHANGED <<start, server, signalled, main, clocks>>

JobDone(w) ==
  /\ ~Gone /\ busy[w] > 0
  /\ busy' = [busy EXCEPT ![w] = 0]
  /\ UNCHANGED <<start, server, signalled, main, clocks, queue>>

-----------------------------------------------------------------------------
(* Time.                                                                    *)

\* Something has to happen before time goes on.
Due == \/ main = "serving" /\ (signalled \/ ServerError)
       \/ main = "http" /\ (conns = 0 \/ since = ShutdownTimeout)
       \/ main = "drain" /\ (queue = 0 \/ HalfTimeOver)
       \/ main = "wait" /\ AllIdle
       \/ main = "close" /\ since = CloseTime
       \/ queue > 0 /\ \E w \in Workers : busy[w] = 0
       \/ grace > 0 /\ elapsed = grace

TimeLeft_NoDeadline(t) == t

TimeLeft(t) == IF t = 0 THEN 0 ELSE t - 1

Tick ==
  /\ ~Gone /\ ~Due
  /\ since' = IF main \in {"http", "drain", "close"} THEN since + 1 ELSE 0
  /\ elapsed' = IF signalled /\ grace > 0 THEN elapsed + 1 ELSE 0
  /\ busy' = [w \in Workers |-> TimeLeft(busy[w])]
  /\ UNCHANGED <<start, server, signalled, main, queue>>

\* SIGKILL, when the grace period is over.
Kill ==
  /\ ~Gone /\ signalled /\ grace > 0 /\ elapsed = grace
  /\ main' = "killed"
  /\ UNCHANGED <<start, server, signalled, clocks, jobs>>

Finished == Gone /\ UNCHANGED vars

Next == \/ Listens \/ AcceptFails \/ Request \/ HandlerReturns \/ Sigterm
        \/ Main \/ RunFails \/ MetricsShutdown
        \/ \E w \in Workers : TakeJob(w) \/ JobDone(w)
        \/ Tick \/ Kill \/ Finished

(* Time passes, main does what is due, the workers take what is queued, a    *)
(* grace period that is over kills.  No handler has to return, no job has to *)
(* end before its deadline, no commit has to fail, nobody has to stop the    *)
(* process.                                                                  *)
Fairness == /\ WF_vars(Main) /\ WF_vars(Tick) /\ WF_vars(Kill)
            /\ \A w \in Workers : WF_vars(TakeJob(w))

Spec == Init /\ [][Next]_vars /\ Fairness

-----------------------------------------------------------------------------
(* The longest stop: the collector drains its server and then its channel,    *)
(* but wg.Wait still has a job in every worker and a full channel behind it.  *)
Rounds == (cfg.capacity + 2 * Cpus - 1) \div (2 * Cpus)

StopTime ==
  CASE cmd = "collector" -> ShutdownTimeout + ShutdownTimeout \div 2
                              + PublishTimeout * (1 + Rounds) + CloseTime
    [] cmd = "query-api" -> ShutdownTimeout
    [] cmd = "processor" -> CloseTime

(* A pod whose grace period exceeds StopTime is never killed in the middle of  *)
(* its stop: the waits of main add up to that and to no more                   *)
(* (collector/main.go:92-105, service.go:184, 197-214, query-api/main.go:48-54). *)
KilledOnlyWhenGraceTooShort == main = "killed" => grace <= StopTime

(* What the handlers use is closed after they have returned, unless            *)
(* srv.Shutdown gave up on them; only the processor, which does not wait for   *)
(* its metrics server, may leave with handlers in flight                       *)
(* (collector/main.go:94-102, query-api/main.go:48-54, processor/main.go:73-86).*)
HandlersGoneBeforeClose ==
  main \in {"drain", "wait", "close", "exited"} /\ conns > 0 =>
    stopping = "timedOut" \/ cmd = "processor"

(* A signalled process ends, also where nobody would kill it (grace = 0) and   *)
(* although no handler has to return (collector/main.go:92-105,                *)
(* query-api/main.go:48-54, processor/main.go:80-86).                          *)
SignalledProcessEnds == signalled ~> Gone

(* A listener that fails ends the collector without a signal; the query API    *)
(* and the processor would go on for ever (collector/main.go:77-90).           *)
FailedListenerEndsProcess == (cmd = "collector" /\ listener = "failed") ~> Gone
=============================================================================

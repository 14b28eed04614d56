--------------------------- MODULE LifecycleProofs ---------------------------
(***************************************************************************)
(* What the stop of a command promises, for any timers, any number of      *)
(* CPUs and any capacity of the channel: what handlers use is closed after *)
(* them, and a stop never takes longer than StopTime.                      *)
(***************************************************************************)
EXTENDS Lifecycle, FiniteSetTheorems, TLAPS

-----------------------------------------------------------------------------
(* The constants, and arithmetic about them.                                *)

LEMMA ConstantFacts ==
  /\ Commands \subseteq {"collector", "query-api", "processor"}
  /\ DefaultCapacity \in Nat \ {0} /\ Cpus \in Nat \ {0} /\ PublishTimeout \in Nat \ {0}
  /\ ShutdownTimeout \in Nat /\ CloseTime \in Nat /\ MaxConns \in Nat
  /\ Graces \subseteq Nat
  BY LifecycleAssumption DEF LifecycleAssumption

LEMMA SettingsFacts == Settings \subseteq [capacity : Int, policy : STRING]
  BY LifecycleAssumption DEF LifecycleAssumption

LEMMA HalfFacts ==
  /\ ShutdownTimeout \div 2 \in Nat
  /\ ShutdownTimeout \div 2 <= ShutdownTimeout
  <1>1. ASSUME NEW n \in Nat PROVE n \div 2 \in Nat /\ n \div 2 <= n
    OBVIOUS
  <1> QED BY <1>1, ConstantFacts

-----------------------------------------------------------------------------
(* The invariant.                                                           *)

Sized == cfg.capacity \in Nat \ {0} /\ cfg.policy # ""

Types ==
  /\ cmd \in Commands /\ grace \in Graces
  /\ Sized
  /\ listener \in {"starting", "open", "failed", "closed"}
  /\ conns \in 0 .. MaxConns
  /\ stopping \in {"no", "draining", "drained", "timedOut"}
  /\ signalled \in BOOLEAN
  /\ main \in {"serving", "http", "drain", "wait", "close", "exited", "killed"}
  /\ since \in Nat /\ elapsed \in Nat
  /\ queue \in 0 .. cfg.capacity
  /\ busy \in [Workers -> 0 .. PublishTimeout]

\* Which command gets where.
Places ==
  /\ main \in {"drain", "wait"} => cmd = "collector"
  /\ main = "http" => cmd # "processor"
  /\ main = "close" => cmd \in {"collector", "processor"}

\* main's present timer has not passed its end.
Timers ==
  /\ main \in {"serving", "wait", "exited"} => since = 0
  /\ main = "http" => since <= ShutdownTimeout
  /\ main = "drain" => since <= ShutdownTimeout \div 2
  /\ main = "close" => since <= CloseTime
  /\ since <= ShutdownTimeout + CloseTime

\* A server that is being stopped accepts nobody.
Stopped ==
  /\ cmd # "processor" /\ main \notin {"serving", "http", "killed"} =>
       stopping \in {"drained", "timedOut"}
  /\ cmd # "processor" /\ main = "http" => stopping # "no"
  /\ stopping # "no" => listener \in {"closed", "failed"}
  /\ stopping = "drained" => conns = 0

-----------------------------------------------------------------------------
(* Types.                                                                   *)

LEMMA NewServiceFacts ==
  ASSUME NEW s \in Settings
  PROVE  NewService(s).capacity \in Nat \ {0} /\ NewService(s).policy # ""
  <1>1. s \in [capacity : Int, policy : STRING]
    BY SettingsFacts
  <1>2. CASE s.capacity <= 0
    BY <1>2, ConstantFacts DEF NewService, DefaultBackpressure
  <1>3. CASE ~(s.capacity <= 0)
    <2>1. NewService(s) = WithPolicy(s) /\ s.capacity \in Nat \ {0}
      BY <1>1, <1>3 DEF NewService
    <2>2. CASE s.policy = ""
      <3>1. WithPolicy(s) = [s EXCEPT !.policy = "drop_newest"]
        BY <2>2 DEF WithPolicy
      <3>2. /\ [s EXCEPT !.policy = "drop_newest"].capacity = s.capacity
            /\ [s EXCEPT !.policy = "drop_newest"].policy = "drop_newest"
        BY <1>1
      <3> QED BY <2>1, <3>1, <3>2
    <2>3. CASE s.policy # ""
      BY <2>1, <2>3 DEF WithPolicy
    <2> QED BY <2>2, <2>3
  <1> QED BY <1>2, <1>3

LEMMA TypesInit == ASSUME Init PROVE Types
  <1>1. Sized
    BY NewServiceFacts DEF Init, Sized
  <1>3. cfg.capacity \in Nat
    BY <1>1 DEF Sized
  <1>2. /\ cmd \in Commands /\ grace \in Graces
        /\ listener = "starting" /\ conns = 0 /\ stopping = "no"
        /\ signalled = FALSE /\ main = "serving"
        /\ since = 0 /\ elapsed = 0
        /\ queue = 0 /\ busy = [w \in Workers |-> 0]
    BY DEF Init
  <1>4. queue \in 0 .. cfg.capacity /\ conns \in 0 .. MaxConns
    BY <1>2, <1>3, ConstantFacts
  <1>5. busy \in [Workers -> 0 .. PublishTimeout]
    BY <1>2, ConstantFacts
  <1> QED BY <1>1, <1>2, <1>4, <1>5 DEF Types

LEMMA TimeLeftFacts ==
  ASSUME NEW t \in 0 .. PublishTimeout
  PROVE  TimeLeft(t) \in 0 .. PublishTimeout
  BY ConstantFacts DEF TimeLeft

\* What passes with a unit of time, and what it waits for.
LEMMA TickFacts ==
  ASSUME Types, Tick
  PROVE  /\ UNCHANGED <<start, server, signalled, main, queue>>
         /\ since' = IF main \in {"http", "drain", "close"} THEN since + 1 ELSE 0
         /\ elapsed' = IF signalled /\ grace > 0 THEN elapsed + 1 ELSE 0
         /\ busy' \in [Workers -> 0 .. PublishTimeout]
         /\ \A w \in Workers : busy'[w] = TimeLeft(busy[w])
  <1>1. busy' = [w \in Workers |-> TimeLeft(busy[w])]
    BY DEF Tick
  <1>2. busy \in [Workers -> 0 .. PublishTimeout]
    BY DEF Types
  <1>3. \A w \in Workers : TimeLeft(busy[w]) \in 0 .. PublishTimeout
    BY <1>2, TimeLeftFacts
  <1>4. busy' \in [Workers -> 0 .. PublishTimeout]
    BY <1>1, <1>3
  <1>5. \A w \in Workers : busy'[w] = TimeLeft(busy[w])
    BY <1>1
  <1> QED BY <1>4, <1>5 DEF Tick

LEMMA ConfigFixed == ASSUME Types, [Next]_vars PROVE cfg' = cfg /\ cfg.capacity \in Nat /\ Sized'
  <1>1. CASE UNCHANGED start
    <2>1. cfg' = cfg
      BY <1>1 DEF start
    <2> QED BY <2>1 DEF Types, Sized
  <1> QED BY <1>1 DEF Next, Main, Listens, AcceptFails, Request, HandlerReturns, Sigterm,
             StopServing, ShutdownReturns, DrainEnds, WorkersDone, ClientsClosed, RunReturns,
             RunFails, RunEnds, MetricsShutdown, TakeJob, JobDone, Tick, Kill, Finished, vars

LEMMA TickTypes == ASSUME Types, Tick PROVE Types'
  <1>1. UNCHANGED <<cmd, cfg, grace, listener, conns, stopping, signalled, main, queue>>
    BY TickFacts DEF start, server
  <1>2. since' \in Nat /\ elapsed' \in Nat
    <2>1. since \in Nat /\ elapsed \in Nat
      BY DEF Types
    <2> QED BY <2>1, TickFacts
  <1>3. busy' \in [Workers -> 0 .. PublishTimeout]
    BY TickFacts
  <1>4. Sized'
    BY ConfigFixed DEF Next
  <1>5. /\ cmd' \in Commands /\ grace' \in Graces
        /\ listener' \in {"starting", "open", "failed", "closed"}
        /\ conns' \in 0 .. MaxConns
        /\ stopping' \in {"no", "draining", "drained", "timedOut"}
        /\ signalled' \in BOOLEAN
    BY <1>1 DEF Types
  <1>6. main' \in {"serving", "http", "drain", "wait", "close", "exited", "killed"}
    BY <1>1 DEF Types
  <1>7. queue' \in 0 .. cfg'.capacity
    BY <1>1 DEF Types
  <1> QED BY <1>2, <1>3, <1>4, <1>5, <1>6, <1>7 DEF Types

LEMMA TypesStep == ASSUME Types, [Next]_vars PROVE Types'
  <1>0. cfg' = cfg /\ cfg.capacity \in Nat /\ Sized'
    BY ConfigFixed
  <1> USE ConstantFacts DEF Types, start, server, clocks, jobs, Goto, Gone
  <1>1. CASE Listens \/ AcceptFails
    BY <1>0, <1>1 DEF Listens, AcceptFails
  <1>14. CASE Sigterm
    BY <1>0, <1>14 DEF Sigterm
  <1>15. CASE Request
    BY <1>0, <1>15 DEF Request
  <1>2. CASE HandlerReturns
    BY <1>0, <1>2 DEF HandlerReturns
  <1>3. CASE StopServing
    BY <1>0, <1>3 DEF StopServing, BeginShutdown
  <1>4. CASE ShutdownReturns
    BY <1>0, <1>4 DEF ShutdownReturns, ServerStopped, Drains, TimesOut, AfterHttp
  <1>5. CASE DrainEnds \/ WorkersDone \/ ClientsClosed
    BY <1>0, <1>5 DEF DrainEnds, WorkersDone, ClientsClosed
  <1>6. CASE RunReturns \/ RunFails
    BY <1>0, <1>6 DEF RunReturns, RunFails, RunEnds
  <1>7. CASE MetricsShutdown
    BY <1>0, <1>7 DEF MetricsShutdown, BeginShutdown, Drains
  <1>9. ASSUME NEW w \in Workers, TakeJob(w) PROVE Types'
    BY <1>0, <1>9 DEF TakeJob
  <1>10. ASSUME NEW w \in Workers, JobDone(w) PROVE Types'
    BY <1>0, <1>10 DEF JobDone
  <1>11. CASE Tick
    BY <1>11, TickTypes
  <1>12. CASE Kill
    BY <1>0, <1>12 DEF Kill
  <1>13. CASE UNCHANGED vars
    BY <1>0, <1>13 DEF vars
  <1> QED BY <1>1, <1>2, <1>3, <1>4, <1>5, <1>6, <1>7, <1>9, <1>10, <1>11, <1>12, <1>13,
             <1>14, <1>15 DEF Next, Main, Finished

-----------------------------------------------------------------------------
(* Places and timers.                                                       *)

\* Steps that leave main where it is, with its timer.
LEMMA MainRests ==
  ASSUME Listens \/ AcceptFails \/ Sigterm \/ Request \/ HandlerReturns \/ MetricsShutdown
         \/ (\E w \in Workers : TakeJob(w) \/ JobDone(w)) \/ UNCHANGED vars
  PROVE  UNCHANGED <<start, main, clocks>>
  BY DEF Listens, AcceptFails, Sigterm, Request, HandlerReturns, MetricsShutdown,
         TakeJob, JobDone, vars, clocks

LEMMA PlacesStep == ASSUME Types, Places, [Next]_vars PROVE Places'
  <1> USE DEF Places, start, Goto
  <1>1. CASE UNCHANGED <<start, main>>
    BY <1>1
  <1>2. CASE StopServing
    BY <1>2 DEF StopServing
  <1>3. CASE ShutdownReturns
    BY <1>3 DEF ShutdownReturns, AfterHttp
  <1>4. CASE DrainEnds \/ WorkersDone \/ ClientsClosed
    BY <1>4 DEF DrainEnds, WorkersDone, ClientsClosed
  <1>5. CASE RunReturns \/ RunFails
    BY <1>5 DEF RunReturns, RunFails, RunEnds
  <1>6. CASE Tick \/ Kill
    BY <1>6 DEF Tick, Kill
  <1> QED BY <1>1, <1>2, <1>3, <1>4, <1>5, <1>6, MainRests DEF Next, Main, Finished

\* Time goes on only while main's timer has not run out.
LEMMA TickNotDue ==
  ASSUME Tick
  PROVE  /\ main = "serving" => ~signalled
         /\ main = "http" => since # ShutdownTimeout
         /\ main = "drain" => ~HalfTimeOver
         /\ main = "wait" => ~AllIdle
         /\ main = "close" => since # CloseTime
         /\ queue > 0 => \A w \in Workers : busy[w] # 0
         /\ main # "exited"
  <1>1. ~Due /\ ~Gone
    BY DEF Tick
  <1> QED BY <1>1, Zenon DEF Due, Gone

LEMMA TickTimers == ASSUME Types, Timers, Tick PROVE Timers'
  <1>1. main' = main /\ main # "exited"
    BY TickFacts, TickNotDue
  <1>2. since' = IF main \in {"http", "drain", "close"} THEN since + 1 ELSE 0
    BY TickFacts
  <1>3. since \in Nat
    BY DEF Types
  <1>4. CASE main = "http"
    <2>1. since # ShutdownTimeout /\ since' = since + 1 /\ since <= ShutdownTimeout
      BY <1>2, <1>4, TickNotDue DEF Timers
    <2> QED BY <1>1, <1>3, <1>4, <2>1, ConstantFacts DEF Timers
  <1>5. CASE main = "drain"
    <2>1. ~(since >= ShutdownTimeout \div 2) /\ since' = since + 1
      BY <1>2, <1>5, TickNotDue DEF HalfTimeOver
    <2> QED BY <1>1, <1>3, <1>5, <2>1, ConstantFacts, HalfFacts DEF Timers
  <1>6. CASE main = "close"
    <2>1. since # CloseTime /\ since' = since + 1 /\ since <= CloseTime
      BY <1>2, <1>6, TickNotDue DEF Timers
    <2> QED BY <1>1, <1>3, <1>6, <2>1, ConstantFacts DEF Timers
  <1>7. CASE main \notin {"http", "drain", "close"}
    <2>1. since' = 0
      BY <1>2, <1>7
    <2> QED BY <1>1, <1>7, <2>1, ConstantFacts DEF Timers
  <1> QED BY <1>4, <1>5, <1>6, <1>7

LEMMA TimersStep == ASSUME Types, Places, Timers, [Next]_vars PROVE Timers'
  <1>1. CASE UNCHANGED <<main, clocks>>
    BY <1>1 DEF Timers, clocks
  <1>2. CASE Main \/ RunFails
    <2>1. since' = 0
      BY <1>2 DEF Main, StopServing, ShutdownReturns, DrainEnds, WorkersDone, ClientsClosed,
                  RunReturns, RunFails, RunEnds, Goto
    <2> QED BY <2>1, ConstantFacts, HalfFacts DEF Timers
  <1>3. CASE Tick
    BY <1>3, TickTimers
  <1>4. CASE Kill
    BY <1>4 DEF Kill, Timers, clocks
  <1> QED BY <1>1, <1>2, <1>3, <1>4, MainRests DEF Next, Finished

-----------------------------------------------------------------------------
(* The server.                                                              *)

LEMMA StoppedStep == ASSUME Types, Places, Stopped, [Next]_vars PROVE Stopped'
  <1>1. CASE UNCHANGED <<start, server, main>>
    BY <1>1 DEF Stopped, start, server
  <1>2. CASE Listens \/ AcceptFails \/ Request
    BY <1>2 DEF Listens, AcceptFails, Request, Stopped, start
  <1>3. CASE HandlerReturns
    <2>1. conns \in 0 .. MaxConns /\ conns > 0 /\ UNCHANGED <<start, main, listener, stopping>>
      BY <1>3 DEF HandlerReturns, Types
    <2> QED BY <2>1 DEF Stopped, start
  <1>4. CASE StopServing
    <2>1. /\ cmd' = cmd /\ main' = "http" /\ stopping' = "draining"
          /\ listener' \in {"closed", "failed"}
      BY <1>4 DEF StopServing, BeginShutdown, Goto, start
    <2> QED BY <2>1 DEF Stopped
  <1>5. CASE ShutdownReturns
    <2>1. /\ cmd' = cmd /\ UNCHANGED <<listener, conns>>
          /\ stopping = "draining"
          /\ (stopping' = "drained" /\ conns = 0) \/ stopping' = "timedOut"
      BY <1>5 DEF ShutdownReturns, ServerStopped, Drains, TimesOut, start
    <2>2. main' # "http"
      BY <1>5 DEF ShutdownReturns, Goto, AfterHttp
    <2> QED BY <2>1, <2>2 DEF Stopped
  <1>6. CASE DrainEnds \/ WorkersDone \/ ClientsClosed
    <2>1. /\ UNCHANGED <<start, server>>
          /\ main \in {"drain", "wait", "close"}
          /\ main' \in {"wait", "close", "exited"}
      BY <1>6 DEF DrainEnds, WorkersDone, ClientsClosed, Goto
    <2> QED BY <2>1 DEF Stopped, start, server
  <1>7. CASE RunReturns \/ RunFails
    <2>1. cmd = "processor" /\ UNCHANGED <<start, server>>
      BY <1>7 DEF RunReturns, RunFails, RunEnds
    <2> QED BY <2>1 DEF Stopped, start, server
  <1>8. CASE MetricsShutdown
    <2>1. /\ cmd' = "processor" /\ conns' = conns
          /\ \/ stopping' = "draining" /\ listener' \in {"closed", "failed"}
             \/ stopping = "draining" /\ stopping' = "drained" /\ conns = 0
                /\ listener' = listener
      BY <1>8 DEF MetricsShutdown, BeginShutdown, Drains, start
    <2> QED BY <2>1 DEF Stopped
  <1>9. CASE Kill
    <2>1. main' = "killed" /\ UNCHANGED <<start, server>>
      BY <1>9 DEF Kill
    <2> QED BY <2>1 DEF Stopped, start, server
  <1>10. CASE \/ Sigterm \/ (\E w \in Workers : TakeJob(w) \/ JobDone(w))
              \/ Tick \/ UNCHANGED vars
    <2>1. UNCHANGED <<start, server, main>>
      BY <1>10 DEF Sigterm, TakeJob, JobDone, Tick, vars
    <2> QED BY <1>1, <2>1
  <1> QED BY <1>2, <1>3, <1>4, <1>5, <1>6, <1>7, <1>8, <1>9, <1>10 DEF Next, Main, Finished

LEMMA StoppedSuffices == ASSUME Types, Stopped PROVE HandlersGoneBeforeClose
  <1>1. conns \in 0 .. MaxConns /\ stopping \in {"no", "draining", "drained", "timedOut"}
    BY DEF Types
  <1> QED BY <1>1, ConstantFacts DEF Stopped, HandlersGoneBeforeClose

-----------------------------------------------------------------------------
(* The length of a stop.  While main waits for the workers, the jobs left   *)
(* fit into n rounds of all workers, after the t units of the present one:  *)
(* every worker has a job for as long as the channel holds one.             *)

W == 2 * Cpus

DrainTime == ShutdownTimeout + ShutdownTimeout \div 2

JobsTime == PublishTimeout * (1 + Rounds)

Late(t) == {w \in Workers : busy[w] > t}

InTime(n, t) == /\ elapsed + n * PublishTimeout + t <= DrainTime + JobsTime
                /\ queue + Cardinality(Late(t)) <= n * W

JobsInTime == \E n \in Nat, t \in 0 .. PublishTimeout - 1 : InTime(n, t)

JobsTimeSpent == IF cmd = "collector" THEN DrainTime + JobsTime ELSE 0

Elapsed ==
  /\ elapsed = 0 \/ (signalled /\ grace > 0)
  /\ main = "serving" => elapsed = 0
  /\ main = "http" => elapsed <= since
  /\ main = "drain" => elapsed <= ShutdownTimeout + since
  /\ main = "wait" => JobsInTime
  /\ main = "close" => elapsed <= since + JobsTimeSpent

LEMMA TimesSucc == ASSUME NEW a \in Nat, NEW b \in Nat PROVE a * (b + 1) = a * b + a
  OBVIOUS

LEMMA TimesNat == ASSUME NEW a \in Nat, NEW b \in Nat PROVE a * b \in Nat /\ a * b = b * a
  OBVIOUS

\* Rounds is the capacity over the workers, rounded up.
LEMMA RoundsUp ==
  ASSUME NEW c \in Nat, NEW w \in Nat \ {0}
  PROVE  (c + w - 1) \div w \in Nat /\ c <= ((c + w - 1) \div w) * w
  <1> DEFINE a == c + w - 1  q == a \div w  r == a % w
  <1>1. a \in Nat
    OBVIOUS
  <1>2. w * q + r = a /\ r \in 0 .. w - 1 /\ q \in Int
    BY <1>1
  <1>3. q >= 0
    BY <1>1
  <1>4. w * q = q * w
    BY <1>2
  <1> HIDE DEF q, r
  <1> QED BY <1>2, <1>3, <1>4

LEMMA RoundsFacts ==
  ASSUME Types PROVE Rounds \in Nat /\ cfg.capacity <= Rounds * W /\ cfg.capacity \in Nat
  <1>1. cfg.capacity \in Nat /\ W \in Nat \ {0}
    <2>1. cfg.capacity \in Nat
      BY DEF Types, Sized
    <2> QED BY <2>1, ConstantFacts DEF W
  <1>2. Rounds = (cfg.capacity + W - 1) \div W
    BY DEF Rounds, W
  <1> HIDE DEF W
  <1> QED BY <1>1, <1>2, RoundsUp

LEMMA TimesFacts ==
  ASSUME Types
  PROVE  DrainTime \in Nat /\ JobsTime \in Nat /\ W \in Nat \ {0} /\ JobsTimeSpent \in Nat
  <1>1. DrainTime \in Nat /\ W \in Nat \ {0}
    BY ConstantFacts, HalfFacts DEF DrainTime, W
  <1>2. JobsTime \in Nat
    <2>1. 1 + Rounds \in Nat
      BY RoundsFacts
    <2> QED BY <2>1, ConstantFacts, TimesNat DEF JobsTime
  <1> QED BY <1>1, <1>2 DEF JobsTimeSpent

LEMMA WorkersFacts == IsFiniteSet(Workers) /\ Cardinality(Workers) = W
  <1>1. 2 * Cpus \in Int /\ ~(1 > 2 * Cpus) /\ 2 * Cpus - 1 + 1 = 2 * Cpus
    BY ConstantFacts
  <1> QED BY <1>1, FS_Interval DEF Workers, W

LEMMA SomeWorkers ==
  ASSUME NEW S \in SUBSET Workers
  PROVE  IsFiniteSet(S) /\ Cardinality(S) \in Nat /\ Cardinality(S) <= W
  <1>1. IsFiniteSet(S) /\ Cardinality(S) <= W
    BY WorkersFacts, FS_Subset
  <1> QED BY <1>1, FS_CardinalityType

LEMMA LateFacts ==
  ASSUME NEW t
  PROVE  IsFiniteSet(Late(t)) /\ Cardinality(Late(t)) \in Nat /\ Cardinality(Late(t)) <= W
  BY SomeWorkers DEF Late

LEMMA SmallerIsLess ==
  ASSUME NEW S, NEW R \in SUBSET S, IsFiniteSet(S)
  PROVE  Cardinality(R) <= Cardinality(S)
  BY FS_Subset

\* What a unit of time adds to the elapsed time.
LEMMA TickElapsed ==
  ASSUME Types, Elapsed, Tick
  PROVE  /\ elapsed' \in Nat /\ elapsed' <= elapsed + 1
         /\ ~(signalled /\ grace > 0) => elapsed' = 0
         /\ elapsed' = 0 \/ (signalled' /\ grace' > 0)
  <1>1. elapsed' = IF signalled /\ grace > 0 THEN elapsed + 1 ELSE 0
    BY TickFacts
  <1>2. elapsed \in Nat /\ signalled' = signalled /\ grace' = grace
    BY TickFacts DEF Types, start
  <1> QED BY <1>1, <1>2

LEMMA BudgetFixed ==
  ASSUME cfg' = cfg PROVE Rounds' = Rounds /\ JobsTime' = JobsTime
  <1>1. Rounds' = Rounds
    BY DEF Rounds
  <1> QED BY <1>1 DEF JobsTime

LEMMA UnitOfRound ==
  ASSUME NEW e \in Nat, NEW f \in Nat, NEW x \in Nat, NEW t \in Nat, NEW b \in Nat,
         f <= e + 1, t # 0, e + x + t <= b
  PROVE  f + x + (t - 1) <= b
  OBVIOUS

LEMMA LastOfRound ==
  ASSUME NEW e \in Nat, NEW f \in Nat, NEW x \in Nat, NEW p \in Nat, NEW b \in Nat,
         f <= e + 1, e + (x + p) <= b
  PROVE  f + x + (p - 1) <= b
  OBVIOUS

\* A unit of time ends the present unit of the round, or begins the next round.
LEMMA WaitTicks ==
  ASSUME Types, Elapsed, Tick, main = "wait"
  PROVE  JobsInTime'
  <1> DEFINE P == PublishTimeout  Budget == DrainTime + JobsTime
             card(t) == Cardinality(Late(t))  cardAfter(t) == Cardinality(Late(t)')
  <1>1. PICK n \in Nat, t \in 0 .. P - 1 : elapsed + n * P + t <= Budget /\ queue + card(t) <= n * W
    BY DEF Elapsed, JobsInTime, InTime
  <1>2. /\ P \in Nat /\ P >= 1 /\ W \in Nat /\ W >= 1 /\ Budget \in Nat /\ elapsed \in Nat
        /\ t \in Nat /\ card(t) \in Nat /\ t <= P - 1
    <2>1. card(t) \in Nat
      BY LateFacts
    <2> QED BY <1>1, <2>1, ConstantFacts, TimesFacts DEF Types
  <1>3. queue \in Nat /\ queue' = queue
    <2>1. queue \in 0 .. cfg.capacity /\ cfg.capacity \in Nat
      BY RoundsFacts DEF Types
    <2> QED BY <2>1, TickFacts
  <1>4. busy \in [Workers -> 0 .. P] /\ \A w \in Workers : busy'[w] = TimeLeft(busy[w])
    BY TickFacts DEF Types
  <1>5. Budget' = Budget
    BY BudgetFixed, TickFacts DEF start, DrainTime
  <1>6. n * P \in Nat /\ n * W \in Nat
    BY <1>2, TimesNat
  <1>7. \A u : Late(u)' = {w \in Workers : busy'[w] > u}
    BY DEF Late
  <1>8. \A m \in Nat, u \in 0 .. P - 1 :
          elapsed' + m * P + u <= Budget /\ queue + cardAfter(u) <= m * W => JobsInTime'
    BY <1>3, <1>5 DEF JobsInTime, InTime
  <1>9. CASE elapsed' = 0
    <2>1. Late(t)' \subseteq Late(t)
      <3>1. \A b \in 0 .. P : TimeLeft(b) > t => b > t
        BY <1>2 DEF TimeLeft
      <3> QED BY <1>4, <1>7, <3>1 DEF Late
    <2>2. cardAfter(t) \in Nat /\ cardAfter(t) <= card(t)
      <3>1. Late(t)' \in SUBSET Workers
        BY <1>7
      <3> QED BY <2>1, <3>1, SomeWorkers, LateFacts, SmallerIsLess
    <2>3. elapsed' + n * P + t <= Budget /\ queue + cardAfter(t) <= n * W
      <3> HIDE DEF Budget, P, card, cardAfter
      <3> QED BY <1>1, <1>2, <1>3, <1>6, <1>9, <2>2
    <2> QED BY <1>1, <1>8, <2>3
  <1>10. CASE elapsed' <= elapsed + 1 /\ elapsed' \in Nat /\ t # 0
    <2>1. Late(t - 1)' \subseteq Late(t)
      <3>1. \A b \in 0 .. P : TimeLeft(b) > t - 1 => b > t
        BY <1>2, <1>10 DEF TimeLeft
      <3> QED BY <1>4, <1>7, <3>1 DEF Late
    <2>2. cardAfter(t - 1) \in Nat /\ cardAfter(t - 1) <= card(t)
      <3>1. Late(t - 1)' \in SUBSET Workers
        BY <1>7
      <3> QED BY <2>1, <3>1, SomeWorkers, LateFacts, SmallerIsLess
    <2>3. queue + cardAfter(t - 1) <= n * W
      <3> HIDE DEF Budget, P, card, cardAfter
      <3> QED BY <1>1, <1>2, <1>3, <1>6, <2>2
    <2>5. elapsed' + n * P + (t - 1) <= Budget
      <3> DEFINE left == n * P
      <3>1. left \in Nat /\ elapsed + left + t <= Budget
        BY <1>1, <1>6
      <3>2. elapsed' + left + (t - 1) <= Budget
        <4> HIDE DEF Budget, P, card, cardAfter, left
        <4> QED BY <1>2, <1>10, <3>1, UnitOfRound, Zenon
      <3> QED BY <3>2
    <2>4. t - 1 \in 0 .. P - 1
      BY <1>2, <1>10
    <2> QED BY <1>1, <1>8, <2>3, <2>4, <2>5
  <1>11. CASE elapsed' <= elapsed + 1 /\ elapsed' \in Nat /\ t = 0
    <2>1. queue > 0 => card(t) = W
      <3>1. ASSUME queue > 0 PROVE \A w \in Workers : busy[w] > 0
        <4>1. \A w \in Workers : busy[w] # 0 /\ busy[w] \in 0 .. P
          BY <1>4, <3>1, TickNotDue
        <4> QED BY <1>2, <4>1
      <3>2. ASSUME queue > 0 PROVE Late(t) = Workers
        BY <1>11, <3>1, <3>2 DEF Late
      <3> QED BY <3>2, WorkersFacts
    <2>2. queue = 0 => card(t) >= 1
      <3>1. ASSUME queue = 0 PROVE Late(t) # {}
        <4>1. PICK w \in Workers : busy[w] # 0
          BY <3>1, TickNotDue DEF AllIdle
        <4>2. busy[w] > 0
          BY <1>2, <1>4, <4>1
        <4> QED BY <1>11, <4>2 DEF Late
      <3> QED BY <1>2, <3>1, LateFacts, FS_EmptySet
    <2>3. n # 0
      <3>1. n = 0 => n * W = 0
        BY <1>2
      <3> HIDE DEF card, P, Budget
      <3> QED BY <1>1, <1>2, <1>3, <2>1, <2>2, <3>1
    <2>4. PICK m \in Nat : n = m + 1
      <3>1. n - 1 \in Nat /\ n = (n - 1) + 1
        BY <1>1, <2>3
      <3> QED BY <3>1
    <2>5. n * P = m * P + P /\ n * W = m * W + W /\ m * P \in Nat /\ m * W \in Nat
      <3>1. (m + 1) * P = m * P + P /\ (m + 1) * W = m * W + W
        BY <1>2, TimesSucc, TimesNat
      <3> QED BY <1>2, <2>4, <3>1, TimesNat
    <2>6. Late(P - 1)' = {}
      <3>1. \A b \in 0 .. P : ~(TimeLeft(b) > P - 1)
        BY <1>2 DEF TimeLeft
      <3> QED BY <1>4, <1>7, <3>1
    <2>7. cardAfter(P - 1) = 0
      BY <2>6, FS_EmptySet
    <2>8. queue + cardAfter(P - 1) <= m * W
      <3> HIDE DEF Budget, P, card, cardAfter
      <3> QED BY <1>1, <1>2, <1>3, <1>6, <2>1, <2>2, <2>5, <2>7
    <2>10. elapsed' + m * P + (P - 1) <= Budget
      <3> DEFINE left == m * P
      <3>1. left \in Nat /\ elapsed + (left + P) <= Budget
        BY <1>1, <1>2, <1>11, <2>5
      <3>2. elapsed' + left + (P - 1) <= Budget
        <4> HIDE DEF Budget, P, card, cardAfter, left
        <4> QED BY <1>2, <1>11, <3>1, LastOfRound, Zenon
      <3> QED BY <3>2
    <2>9. P - 1 \in 0 .. P - 1
      BY <1>2
    <2> QED BY <1>8, <2>4, <2>8, <2>9, <2>10
  <1> QED BY <1>9, <1>10, <1>11, TickElapsed

\* A worker takes a job: one less in the channel, at most one more that is late.
LEMMA WaitTakes ==
  ASSUME Types, Elapsed, main = "wait", NEW w \in Workers, TakeJob(w)
  PROVE  JobsInTime'
  <1> DEFINE P == PublishTimeout
  <1>1. PICK n \in Nat, t \in 0 .. P - 1 : InTime(n, t)
    BY DEF Elapsed, JobsInTime
  <1>2. /\ queue' = queue - 1 /\ busy' = [busy EXCEPT ![w] = P]
        /\ UNCHANGED <<cfg, elapsed>>
    BY DEF TakeJob, start, clocks
  <1>3. queue \in Nat
    <2>1. queue \in 0 .. cfg.capacity /\ cfg.capacity \in Nat
      BY RoundsFacts DEF Types
    <2> QED BY <2>1
  <1>4. Late(t)' \subseteq Late(t) \cup {w}
    <2>1. busy \in [Workers -> 0 .. P]
      BY DEF Types
    <2>2. \A v \in Workers \ {w} : busy'[v] = busy[v]
      BY <1>2, <2>1
    <2> QED BY <2>2 DEF Late
  <1>5. Cardinality(Late(t)') \in Nat /\ Cardinality(Late(t)') <= Cardinality(Late(t)) + 1
    <2>1. /\ IsFiniteSet(Late(t) \cup {w}) /\ Cardinality(Late(t)) \in Nat
          /\ Cardinality(Late(t) \cup {w}) <= Cardinality(Late(t)) + 1
      <3>1. IsFiniteSet(Late(t)) /\ Cardinality(Late(t)) \in Nat
        BY LateFacts
      <3>2. /\ IsFiniteSet(Late(t) \cup {w})
            /\ Cardinality(Late(t) \cup {w}) =
                 IF w \in Late(t) THEN Cardinality(Late(t)) ELSE Cardinality(Late(t)) + 1
        BY <3>1, FS_AddElement
      <3> QED BY <3>1, <3>2
    <2>2. Late(t)' \in SUBSET Workers
      BY DEF Late
    <2>3. Cardinality(Late(t)') <= Cardinality(Late(t) \cup {w})
      BY <1>4, <2>1, SmallerIsLess
    <2>4. Cardinality(Late(t)') \in Nat /\ Cardinality(Late(t) \cup {w}) \in Nat
      BY <2>1, <2>2, SomeWorkers, FS_CardinalityType
    <2> QED BY <2>1, <2>3, <2>4
  <1>6. queue' + Cardinality(Late(t)') <= n * W
    <2>1. queue + Cardinality(Late(t)) <= n * W /\ Cardinality(Late(t)) \in Nat /\ n * W \in Nat
      BY <1>1, LateFacts, TimesFacts, TimesNat DEF InTime
    <2> QED BY <1>2, <1>3, <1>5, <2>1
  <1>7. elapsed' + n * P + t <= (DrainTime + JobsTime)'
    BY <1>1, <1>2, BudgetFixed DEF InTime, DrainTime
  <1> QED BY <1>1, <1>6, <1>7 DEF JobsInTime, InTime

\* A job ends: fewer are late.
LEMMA WaitDone ==
  ASSUME Types, Elapsed, main = "wait", NEW w \in Workers, JobDone(w)
  PROVE  JobsInTime'
  <1> DEFINE P == PublishTimeout
  <1>1. PICK n \in Nat, t \in 0 .. P - 1 : InTime(n, t)
    BY DEF Elapsed, JobsInTime
  <1>2. busy' = [busy EXCEPT ![w] = 0] /\ UNCHANGED <<cfg, elapsed, queue>>
    BY DEF JobDone, start, clocks
  <1>3. queue \in Nat
    <2>1. queue \in 0 .. cfg.capacity /\ cfg.capacity \in Nat
      BY RoundsFacts DEF Types
    <2> QED BY <2>1
  <1>4. Late(t)' \subseteq Late(t)
    <2>1. busy \in [Workers -> 0 .. P] /\ ~(0 > t)
      BY DEF Types
    <2>2. \A v \in Workers : busy'[v] = IF v = w THEN 0 ELSE busy[v]
      BY <1>2, <2>1
    <2> QED BY <2>1, <2>2 DEF Late
  <1>5. Cardinality(Late(t)') \in Nat /\ Cardinality(Late(t)') <= Cardinality(Late(t))
    <2>1. Late(t)' \in SUBSET Workers
      BY DEF Late
    <2> QED BY <1>4, <2>1, SomeWorkers, LateFacts, SmallerIsLess
  <1>6. queue' + Cardinality(Late(t)') <= n * W
    <2>1. queue + Cardinality(Late(t)) <= n * W /\ Cardinality(Late(t)) \in Nat /\ n * W \in Nat
      BY <1>1, LateFacts, TimesFacts, TimesNat DEF InTime
    <2> QED BY <1>2, <1>3, <1>5, <2>1
  <1>7. elapsed' + n * P + t <= (DrainTime + JobsTime)'
    BY <1>1, <1>2, BudgetFixed DEF InTime, DrainTime
  <1> QED BY <1>1, <1>6, <1>7 DEF JobsInTime, InTime

\* The waiting begins with all rounds ahead.
LEMMA WaitBegins ==
  ASSUME Types, Places, Timers, Elapsed, DrainEnds
  PROVE  JobsInTime'
  <1> DEFINE P == PublishTimeout  n == 1 + Rounds
  <1>1. main = "drain" /\ UNCHANGED <<cfg, elapsed, queue, busy>>
    BY DEF DrainEnds, Goto, start, jobs
  <1>2. elapsed <= DrainTime /\ elapsed \in Nat
    <2>1. elapsed <= ShutdownTimeout + since /\ since <= ShutdownTimeout \div 2
      BY <1>1 DEF Elapsed, Timers
    <2>2. elapsed \in Nat /\ since \in Nat
      BY DEF Types
    <2> QED BY <2>1, <2>2, ConstantFacts, HalfFacts DEF DrainTime
  <1>3. n \in Nat /\ 0 \in 0 .. P - 1
    BY RoundsFacts, ConstantFacts
  <1>4. elapsed + n * P + 0 <= DrainTime + JobsTime
    <2>1. n * P = JobsTime
      BY <1>3, ConstantFacts, TimesNat DEF JobsTime
    <2> HIDE DEF n, P
    <2> QED BY <1>2, <2>1, TimesFacts
  <1>5. queue + Cardinality(Late(0)) <= n * W
    <2>1. queue \in Nat /\ queue <= Rounds * W
      <3>1. queue \in 0 .. cfg.capacity
        BY DEF Types
      <3>2. Rounds * W \in Nat
        BY RoundsFacts, TimesFacts, TimesNat
      <3> QED BY <3>1, <3>2, RoundsFacts
    <2>2. n * W = Rounds * W + W /\ Rounds * W \in Nat
      <3>1. W * (Rounds + 1) = W * Rounds + W
        BY RoundsFacts, TimesFacts, TimesSucc
      <3>2. n = Rounds + 1 /\ W * n = n * W /\ W * Rounds = Rounds * W /\ Rounds * W \in Nat
        BY <1>3, RoundsFacts, TimesFacts, TimesNat
      <3> QED BY <3>1, <3>2
    <2>3. Cardinality(Late(0)) \in Nat /\ Cardinality(Late(0)) <= W
      BY LateFacts
    <2> HIDE DEF n
    <2> QED BY <2>1, <2>2, <2>3, TimesFacts
  <1>6. /\ elapsed' + n * P + 0 <= (DrainTime + JobsTime)'
        /\ queue' + Cardinality(Late(0)') <= n * W
    <2>1. UNCHANGED <<DrainTime, JobsTime>> /\ Late(0)' = Late(0)
      BY <1>1, BudgetFixed DEF DrainTime, Late
    <2> HIDE DEF n
    <2> QED BY <1>1, <1>4, <1>5, <2>1
  <1> HIDE DEF n
  <1> QED BY <1>3, <1>6 DEF JobsInTime, InTime

\* When it ends, the budget is kept.
LEMMA WaitEnds ==
  ASSUME Types, Elapsed, main = "wait"
  PROVE  elapsed <= DrainTime + JobsTime
  <1> DEFINE P == PublishTimeout
  <1>1. PICK n \in Nat, t \in 0 .. P - 1 : InTime(n, t)
    BY DEF Elapsed, JobsInTime
  <1>2. n * P \in Nat /\ t \in Nat /\ elapsed \in Nat
    BY ConstantFacts, TimesNat DEF Types
  <1> DEFINE left == n * P
  <1>3. left \in Nat /\ elapsed + left + t <= DrainTime + JobsTime
    BY <1>1, <1>2 DEF InTime
  <1> HIDE DEF left
  <1> QED BY <1>2, <1>3, TimesFacts

\* Steps that leave main and its timers alone.
LEMMA ElapsedRests ==
  ASSUME Elapsed, UNCHANGED <<start, main, clocks>>,
         signalled => signalled',
         main # "wait" \/ UNCHANGED jobs
  PROVE  Elapsed'
  <1>1. UNCHANGED <<cmd, cfg, grace, main, since, elapsed>>
    BY DEF start, clocks
  <1>2. main' = "wait" => JobsInTime'
    <2>1. ASSUME main = "wait" PROVE UNCHANGED <<queue, busy>>
      BY <2>1 DEF jobs
    <2>2. UNCHANGED <<DrainTime, JobsTime>>
      BY <1>1, BudgetFixed DEF DrainTime
    <2>3. ASSUME main = "wait" PROVE \A t : Late(t)' = Late(t)
      BY <2>1, <2>3 DEF Late
    <2>4. ASSUME main = "wait" PROVE JobsInTime' = JobsInTime
      BY <1>1, <2>1, <2>2, <2>3, <2>4 DEF JobsInTime, InTime
    <2> QED BY <1>1, <2>4 DEF Elapsed
  <1>3. JobsTimeSpent' = JobsTimeSpent
    BY <1>1, BudgetFixed DEF JobsTimeSpent, DrainTime
  <1>4. elapsed' = 0 \/ (signalled' /\ grace' > 0)
    BY <1>1 DEF Elapsed
  <1> QED BY <1>1, <1>2, <1>3, <1>4 DEF Elapsed

LEMMA ElapsedTick ==
  ASSUME Types, Places, Timers, Elapsed, Tick
  PROVE  Elapsed'
  <1>1. /\ UNCHANGED <<cmd, cfg, main, signalled>>
        /\ since' = IF main \in {"http", "drain", "close"} THEN since + 1 ELSE 0
    BY TickFacts DEF start
  <1>2. /\ elapsed' \in Nat /\ elapsed' <= elapsed + 1
        /\ elapsed' = 0 \/ (signalled' /\ grace' > 0)
        /\ elapsed \in Nat /\ since \in Nat
    BY TickElapsed DEF Types
  <1>3. main' = "serving" => elapsed' = 0
    BY <1>1, TickNotDue, TickElapsed
  <1>4. main' = "http" => elapsed' <= since'
    BY <1>1, <1>2 DEF Elapsed
  <1>5. main' = "drain" => elapsed' <= ShutdownTimeout + since'
    BY <1>1, <1>2, ConstantFacts DEF Elapsed
  <1>6. main' = "wait" => JobsInTime'
    BY <1>1, WaitTicks
  <1>7. main' = "close" => elapsed' <= since' + JobsTimeSpent'
    <2>1. JobsTimeSpent' = JobsTimeSpent
      BY <1>1, BudgetFixed DEF JobsTimeSpent, DrainTime
    <2> HIDE DEF JobsTimeSpent
    <2> QED BY <1>1, <1>2, <2>1, TimesFacts DEF Elapsed
  <1> HIDE DEF JobsInTime
  <1> QED BY <1>2, <1>3, <1>4, <1>5, <1>6, <1>7 DEF Elapsed

LEMMA ElapsedMain ==
  ASSUME Types, Places, Timers, Elapsed, Main \/ RunFails
  PROVE  Elapsed'
  <1>1. UNCHANGED <<start, elapsed, signalled>> /\ since' = 0
    BY DEF Main, StopServing, ShutdownReturns, DrainEnds, WorkersDone, ClientsClosed,
           RunReturns, RunFails, RunEnds, Goto
  <1>2. elapsed' = 0 \/ (signalled' /\ grace' > 0)
    BY <1>1 DEF Elapsed, start
  <1>3. elapsed \in Nat /\ since \in Nat
    BY DEF Types
  <1>4. CASE StopServing
    <2>1. main = "serving" /\ main' = "http"
      BY <1>4 DEF StopServing, Goto
    <2>2. elapsed' <= since'
      BY <1>1, <2>1 DEF Elapsed
    <2> QED BY <1>2, <2>1, <2>2 DEF Elapsed
  <1>5. CASE ShutdownReturns
    <2>1. main = "http" /\ main' = AfterHttp
      BY <1>5 DEF ShutdownReturns, Goto
    <2>2. main' \in {"drain", "exited"}
      BY <2>1 DEF AfterHttp
    <2>3. elapsed' <= ShutdownTimeout
      BY <1>1, <1>3, <2>1, ConstantFacts DEF Elapsed, Timers
    <2>4. elapsed' <= ShutdownTimeout + since'
      BY <1>1, <1>3, <2>3, ConstantFacts
    <2> QED BY <1>1, <1>2, <2>2, <2>4 DEF Elapsed
  <1>6. CASE DrainEnds
    <2>1. main' = "wait"
      BY <1>6 DEF DrainEnds, Goto
    <2> QED BY <1>2, <1>6, <2>1, WaitBegins DEF Elapsed
  <1>7. CASE WorkersDone
    <2>1. main = "wait" /\ main' = "close" /\ cmd = "collector"
      BY <1>7 DEF WorkersDone, Goto, Places
    <2>2. elapsed <= JobsTimeSpent
      BY <2>1, WaitEnds DEF JobsTimeSpent
    <2>3. elapsed' <= since' + JobsTimeSpent'
      <3>1. JobsTimeSpent' = JobsTimeSpent
        BY <1>1, BudgetFixed DEF JobsTimeSpent, DrainTime, start
      <3> HIDE DEF JobsTimeSpent
      <3> QED BY <1>1, <2>2, <3>1, TimesFacts
    <2> QED BY <1>2, <2>1, <2>3 DEF Elapsed
  <1>8. CASE RunReturns \/ RunFails
    <2>1. main = "serving" /\ main' = "close" /\ cmd' = "processor"
      BY <1>8 DEF RunReturns, RunFails, RunEnds, Goto, start
    <2>2. elapsed' <= since' + JobsTimeSpent'
      <3>1. JobsTimeSpent' = 0 /\ elapsed' = 0
        BY <1>1, <2>1 DEF JobsTimeSpent, Elapsed
      <3> QED BY <1>1, <3>1
    <2> QED BY <1>2, <2>1, <2>2 DEF Elapsed
  <1>9. CASE ClientsClosed
    <2>1. main' = "exited"
      BY <1>9 DEF ClientsClosed, Goto
    <2> QED BY <1>2, <2>1 DEF Elapsed
  <1> QED BY <1>4, <1>5, <1>6, <1>7, <1>8, <1>9 DEF Main

LEMMA ElapsedStep ==
  ASSUME Types, Places, Timers, Elapsed, [Next]_vars
  PROVE  Elapsed'
  <1>1. CASE Listens \/ AcceptFails \/ Sigterm \/ Request \/ MetricsShutdown \/ UNCHANGED vars
    <2>1. /\ UNCHANGED <<start, main, clocks, jobs>>
          /\ signalled => signalled'
      BY <1>1 DEF Listens, AcceptFails, Sigterm, Request, MetricsShutdown, vars, clocks,
                  jobs, start
    <2> QED BY <2>1, ElapsedRests
  <1>2. CASE HandlerReturns
    <2>1. /\ UNCHANGED <<start, main, clocks, signalled>>
          /\ main # "wait" \/ UNCHANGED jobs
      BY <1>2 DEF HandlerReturns, jobs
    <2> QED BY <2>1, ElapsedRests
  <1>4. ASSUME NEW w \in Workers, TakeJob(w) \/ JobDone(w) PROVE Elapsed'
    <2>1. UNCHANGED <<start, main, clocks, signalled>>
      BY <1>4 DEF TakeJob, JobDone
    <2>2. CASE main = "wait"
      <3>1. JobsInTime'
        BY <1>4, <2>2, WaitTakes, WaitDone
      <3>2. main' = "wait" /\ (elapsed' = 0 \/ (signalled' /\ grace' > 0))
        BY <2>1, <2>2 DEF Elapsed, start, clocks
      <3> QED BY <3>1, <3>2 DEF Elapsed
    <2> QED BY <2>1, <2>2, ElapsedRests
  <1>5. CASE Main \/ RunFails
    BY <1>5, ElapsedMain
  <1>6. CASE Tick
    BY <1>6, ElapsedTick
  <1>7. CASE Kill
    <2>1. main' = "killed" /\ UNCHANGED <<start, signalled, clocks>>
      BY <1>7 DEF Kill
    <2> QED BY <2>1 DEF Elapsed, start, clocks
  <1> QED BY <1>1, <1>2, <1>4, <1>5, <1>6, <1>7 DEF Next, Finished

-----------------------------------------------------------------------------
(* The grace period.                                                        *)

LEMMA StopTimeFacts ==
  /\ cmd = "collector" => StopTime = DrainTime + JobsTime + CloseTime
  /\ cmd = "query-api" => StopTime = ShutdownTimeout
  /\ cmd = "processor" => StopTime = CloseTime
  BY DEF StopTime, DrainTime, JobsTime

\* Wherever main is, the stop has taken no more than StopTime.
LEMMA StopInTime ==
  ASSUME Types, Places, Timers, Elapsed, ~Gone
  PROVE  elapsed <= StopTime
  <1>1. /\ elapsed \in Nat /\ since \in Nat
        /\ cmd \in {"collector", "query-api", "processor"}
        /\ main \in {"serving", "http", "drain", "wait", "close"}
    BY ConstantFacts DEF Types, Gone
  <1>2. /\ ShutdownTimeout \in Nat /\ CloseTime \in Nat /\ JobsTime \in Nat /\ DrainTime \in Nat
        /\ ShutdownTimeout <= DrainTime
    BY ConstantFacts, HalfFacts, TimesFacts DEF DrainTime
  <1>3. StopTime \in Nat
    BY <1>1, <1>2, StopTimeFacts
  <1>4. CASE main = "serving"
    BY <1>3, <1>4 DEF Elapsed
  <1>5. CASE main = "http"
    <2>1. elapsed <= ShutdownTimeout
      BY <1>1, <1>2, <1>5 DEF Elapsed, Timers
    <2>2. cmd # "processor"
      BY <1>5 DEF Places
    <2> QED BY <1>1, <1>2, <2>1, <2>2, StopTimeFacts
  <1>6. CASE main = "drain"
    <2>1. elapsed <= ShutdownTimeout + since /\ since <= ShutdownTimeout \div 2
      BY <1>6 DEF Elapsed, Timers
    <2>2. elapsed <= DrainTime
      BY <1>1, <1>2, <2>1, HalfFacts DEF DrainTime
    <2> QED BY <1>1, <1>2, <1>6, <2>2, StopTimeFacts DEF Places
  <1>7. CASE main = "wait"
    <2>1. elapsed <= DrainTime + JobsTime /\ cmd = "collector"
      BY <1>7, WaitEnds DEF Places
    <2> QED BY <1>1, <1>2, <2>1, StopTimeFacts
  <1>8. CASE main = "close"
    <2>1. elapsed <= since + JobsTimeSpent /\ since <= CloseTime
      BY <1>8 DEF Elapsed, Timers
    <2>2. cmd = "collector" => JobsTimeSpent = DrainTime + JobsTime
      BY DEF JobsTimeSpent
    <2>3. cmd = "processor" => JobsTimeSpent = 0
      BY DEF JobsTimeSpent
    <2> QED BY <1>1, <1>2, <1>8, <2>1, <2>2, <2>3, StopTimeFacts DEF Places
  <1> QED BY <1>1, <1>4, <1>5, <1>6, <1>7, <1>8

LEMMA KilledStep ==
  ASSUME Types, Places, Timers, Elapsed, KilledOnlyWhenGraceTooShort, [Next]_vars
  PROVE  KilledOnlyWhenGraceTooShort'
  <1>1. CASE Kill
    <2>1. ~Gone /\ elapsed = grace /\ UNCHANGED <<cmd, cfg, grace>>
      BY <1>1 DEF Kill, start
    <2>2. UNCHANGED StopTime
      BY <2>1 DEF StopTime, Rounds
    <2>3. grace' <= StopTime'
      <3> HIDE DEF StopTime
      <3> QED BY <2>1, <2>2, StopInTime
    <2> QED BY <2>3 DEF KilledOnlyWhenGraceTooShort
  <1>2. CASE Finished \/ UNCHANGED vars
    <2>1. UNCHANGED <<cmd, cfg, grace, main>>
      BY <1>2 DEF Finished, vars, start
    <2>2. UNCHANGED StopTime
      BY <2>1 DEF StopTime, Rounds
    <2> HIDE DEF StopTime
    <2> QED BY <2>1, <2>2 DEF KilledOnlyWhenGraceTooShort
  <1>3. CASE Main \/ RunFails
    <2>1. main' # "killed"
      <3>1. (main # "killed" /\ main' = main) \/ main' # "killed"
        BY <1>3 DEF Main, StopServing, ShutdownReturns, DrainEnds, WorkersDone, ClientsClosed,
                    RunReturns, RunFails, RunEnds, Goto, AfterHttp
      <3> QED BY <3>1
    <2> QED BY <2>1 DEF KilledOnlyWhenGraceTooShort
  <1>4. CASE \/ Listens \/ AcceptFails \/ Sigterm \/ Request \/ HandlerReturns \/ MetricsShutdown
             \/ (\E w \in Workers : TakeJob(w) \/ JobDone(w)) \/ Tick
    <2>1. main # "killed" /\ main' = main
      BY <1>4 DEF Listens, AcceptFails, Sigterm, Request, HandlerReturns, MetricsShutdown,
                  TakeJob, JobDone, Tick, Gone
    <2> QED BY <2>1 DEF KilledOnlyWhenGraceTooShort
  <1> QED BY <1>1, <1>2, <1>3, <1>4 DEF Next

-----------------------------------------------------------------------------
(* The theorems.                                                            *)

IndInv == Types /\ Places /\ Timers /\ Stopped /\ Elapsed
          /\ KilledOnlyWhenGraceTooShort

LEMMA InitIndInv == Init => IndInv
  <1> SUFFICES ASSUME Init PROVE IndInv
    OBVIOUS
  <1>1. Types
    BY TypesInit
  <1>2. /\ main = "serving" /\ stopping = "no" /\ since = 0 /\ elapsed = 0
    BY DEF Init
  <1>3. Places /\ Timers
    BY <1>2, ConstantFacts DEF Places, Timers
  <1>4. Stopped
    BY <1>2 DEF Stopped
  <1>6. Elapsed
    BY <1>2 DEF Elapsed
  <1>7. KilledOnlyWhenGraceTooShort
    BY <1>2 DEF KilledOnlyWhenGraceTooShort
  <1> QED BY <1>1, <1>3, <1>4, <1>6, <1>7 DEF IndInv

LEMMA NextIndInv == IndInv /\ [Next]_vars => IndInv'
  <1> SUFFICES ASSUME IndInv, [Next]_vars PROVE IndInv'
    OBVIOUS
  <1> USE DEF IndInv
  <1>1. Types' /\ Places' /\ Timers'
    BY TypesStep, PlacesStep, TimersStep
  <1>2. Stopped'
    BY StoppedStep
  <1>3. Elapsed' /\ KilledOnlyWhenGraceTooShort'
    BY ElapsedStep, KilledStep
  <1> QED BY <1>1, <1>2, <1>3

\* The invariant of the commands' lives: where main may be, that no timer has
\* run past its end, what the server has come to by then, and how much of the
\* stop's time has been spent.
THEOREM Inductive == Spec => []IndInv
  BY InitIndInv, NextIndInv, PTL DEF Spec

\* Type correctness of the commands' model.
THEOREM TypeCorrect == Spec => []TypeOK
  <1>1. IndInv => TypeOK
    <2> SUFFICES ASSUME IndInv PROVE TypeOK
      OBVIOUS
    <2>1. since \in 0 .. ShutdownTimeout + CloseTime
      BY ConstantFacts DEF IndInv, Types, Timers
    <2>2. cfg.capacity \in Nat \ {0} /\ cfg.policy # ""
      BY DEF IndInv, Types, Sized
    <2> QED BY <2>1, <2>2, Zenon DEF IndInv, Types, TypeOK
  <1> QED BY <1>1, Inductive, PTL

\* What handlers use is closed after the last of them, unless srv.Shutdown gave
\* up on them (the ends of the main functions).
THEOREM HandlersFirst == Spec => []HandlersGoneBeforeClose
  <1>1. IndInv => HandlersGoneBeforeClose
    BY StoppedSuffices DEF IndInv
  <1> QED BY <1>1, Inductive, PTL

\* Whatever the timeouts, the CPUs and the capacity, a pod that grants more than
\* StopTime is never killed while it stops (the ends of the main functions).
THEOREM GraceSuffices == Spec => []KilledOnlyWhenGraceTooShort
  <1>1. IndInv => KilledOnlyWhenGraceTooShort
    BY DEF IndInv
  <1> QED BY <1>1, Inductive, PTL

=============================================================================

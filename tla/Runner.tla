------------------------------- MODULE Runner -------------------------------
(***************************************************************************)
(* The processor: the Run loop of processor.Runner in every replica, its   *)
(* fetch goroutine, the Influx storage it writes to, and the consumer      *)
(* group (kafka-go Reader, broker) it reads from and commits to.           *)
(*                                                                         *)
(* A message is a pair <<p, o>> of a partition and an offset from 1 on.    *)
(* The topic is fixed: a message that is produced later is one that is     *)
(* fetched later.  The storage is a set, since a point written twice has   *)
(* the same measurement, tags and time and replaces itself.                *)
(***************************************************************************)
EXTENDS Naturals, Sequences

CONSTANTS Runners,     \* the processor replicas
          Partitions,  \* the partitions of the topic
          MaxOffset,   \* messages per partition (bound)
          BatchMax,    \* Runner.BatchMax
          OutCap,      \* the channel outcomes and the fetch that waits to send
          MaxHeld,     \* messages a replica holds at most (bound of the model)
          Faults,      \* what may go wrong: see below
          MaxStops,    \* crashes, signals and spontaneous rebalances (bound)
          Err,         \* an outcome that carries an error
          None         \* the owner of an unassigned partition

(* "poison": a message may not unmarshal into a LogEvent                      *)
(* "point":  the storage may refuse any point of a batch                       *)
(* "outage": the storage may refuse whole batches, the broker may fail commits *)
(* "signal": a replica may be stopped by SIGTERM, and not only crash           *)
ASSUME RunnerAssumption ==
  /\ MaxOffset \in Nat /\ MaxStops \in Nat
  /\ MaxHeld \in Nat
  /\ BatchMax \in Nat \ {0} /\ OutCap \in Nat \ {0}
  /\ Faults \subseteq {"poison", "point", "outage", "signal"}
  /\ Err \notin Partitions \X (1 .. MaxOffset)
  /\ None \notin Runners

VARIABLES poison,     \* the messages that do not unmarshal
          committed,  \* committed[p]: last offset the group has passed
          owner,      \* owner[p]: the replica the group assigned p to
          pos,        \* pos[p]: last offset the owner's reader has returned
          joining,    \* the group has a membership change to settle
          rpc,        \* rpc[r]: where r's main loop is
          cancelled,  \* cancelled[r]: r's ctx is cancelled
          out,        \* out[r]: the outcomes fetched and not yet handled
          buf,        \* buf[r]: the messages of r's batch
          tried,      \* tried[r]: how many points r's WritePoints has tried
          written,    \* written[r]: one of them was accepted
          stored,     \* the messages whose point is in the storage
          refused,    \* not stored by a write that returned nil (history)
          passed,     \* not stored, passed by the commit of a poison message (history)
          failed,     \* failed[r]: r's last flush has failed (history)
          stops       \* crashes, signals and spontaneous rebalances so far

groupVars   == <<committed, owner, pos, joining>>
loopVars    == <<rpc, out, buf, tried, written>>
storageVars == <<stored, refused, passed>>
vars == <<poison, groupVars, loopVars, cancelled, storageVars, failed, stops>>

Messages == Partitions \X (1 .. MaxOffset)
Offsets  == 0 .. MaxOffset
Batch(r) == {buf[r][i] : i \in DOMAIN buf[r]}

\* "final" marks the flush before Run returns.
Writing    == {"write", "finalWrite"}
Committing == {"commit", "finalCommit"}
Flushing   == Writing \cup Committing

TypeOK ==
  /\ poison \subseteq Messages
  /\ committed \in [Partitions -> Offsets] /\ pos \in [Partitions -> Offsets]
  /\ owner \in [Partitions -> Runners \cup {None}]
  /\ joining \in BOOLEAN
  /\ rpc \in [Runners -> {"down", "select", "returned"} \cup Flushing]
  /\ cancelled \in [Runners -> BOOLEAN]
  /\ out \in [Runners -> Seq(Messages \cup {Err})]
  /\ buf \in [Runners -> Seq(Messages)]
  /\ tried \in [Runners -> Nat] /\ written \in [Runners -> BOOLEAN]
  /\ stored \subseteq Messages /\ refused \subseteq Messages /\ passed \subseteq Messages
  /\ failed \in [Runners -> BOOLEAN]
  /\ stops \in 0 .. MaxStops

Init ==
  /\ poison \in IF "poison" \in Faults THEN SUBSET Messages ELSE {{}}
  /\ committed = [p \in Partitions |-> 0] /\ pos = committed
  /\ owner = [p \in Partitions |-> None] /\ joining = TRUE
  /\ rpc = [r \in Runners |-> "select"]
  /\ cancelled = [r \in Runners |-> FALSE]
  /\ out = [r \in Runners |-> <<>>] /\ buf = [r \in Runners |-> <<>>]
  /\ tried = [r \in Runners |-> 0] /\ written = [r \in Runners |-> FALSE]
  /\ stored = {} /\ refused = {} /\ passed = {}
  /\ failed = [r \in Runners |-> FALSE] /\ stops = 0

Up(r)      == rpc[r] # "down"
Goto(r, l) == rpc' = [rpc EXCEPT ![r] = l]

-----------------------------------------------------------------------------
(* The fetch goroutine.  A fetch that is under way when the ctx is cancelled *)
(* has the effect of one that ended just before.                             *)

Fetching(r) == rpc[r] \in {"select"} \cup Flushing /\ ~cancelled[r] /\ Len(out[r]) < OutCap

Fetched(r, fo) ==
  /\ out' = [out EXCEPT ![r] = Append(@, fo)]
  /\ UNCHANGED <<poison, committed, owner, joining, rpc, cancelled, buf, tried, written,
                 storageVars, failed, stops>>

FetchMessage(r, p) ==
  /\ Fetching(r) /\ owner[p] = r /\ pos[p] < MaxOffset
  /\ Len(buf[r]) + Len(out[r]) < MaxHeld
  /\ pos' = [pos EXCEPT ![p] = @ + 1]
  /\ Fetched(r, <<p, pos[p] + 1>>)

FetchFails_Reopens(r) ==
  /\ Fetching(r)
  /\ pos' = [p \in Partitions |-> IF owner[p] = r THEN committed[p] ELSE pos[p]]
  /\ Fetched(r, Err)

FetchFails(r) ==
  /\ Fetching(r)
  /\ UNCHANGED pos
  /\ Fetched(r, Err)

-----------------------------------------------------------------------------
(* The main loop's select: any of its ready cases.                          *)

\* flush returns at once when there is nothing to write.
BeginFlush(r) == Goto(r, IF buf[r] = <<>> THEN "select" ELSE "write")
FinalFlush(r) == Goto(r, IF buf[r] = <<>> THEN "returned" ELSE "finalWrite")

ContextDone(r) ==
  /\ rpc[r] = "select" /\ cancelled[r]
  /\ FinalFlush(r)
  /\ UNCHANGED <<poison, groupVars, cancelled, out, buf, tried, written, storageVars, failed, stops>>

Tick_FullBatchesOnly(r) ==
  /\ rpc[r] = "select" /\ Len(buf[r]) >= BatchMax
  /\ BeginFlush(r)
  /\ UNCHANGED <<poison, groupVars, cancelled, out, buf, tried, written, storageVars, failed, stops>>

Tick(r) ==
  /\ rpc[r] = "select" /\ buf[r] # <<>>
  /\ BeginFlush(r)
  /\ UNCHANGED <<poison, groupVars, cancelled, out, buf, tried, written, storageVars, failed, stops>>

Receive(r, fo) == /\ rpc[r] = "select" /\ out[r] # <<>> /\ Head(out[r]) = fo
                  /\ out' = [out EXCEPT ![r] = Tail(@)]

\* fo.err # nil: the last flush if the ctx is done, else a pause and on.
HandleError(r) ==
  /\ Receive(r, Err)
  /\ IF cancelled[r] THEN FinalFlush(r) ELSE UNCHANGED rpc
  /\ UNCHANGED <<poison, groupVars, cancelled, buf, tried, written, storageVars, failed, stops>>

HandleEvent_OffByOne(r) ==
  \E m \in Messages \ poison :
    /\ Receive(r, m)
    /\ buf' = [buf EXCEPT ![r] = Append(@, m)]
    /\ Goto(r, IF Len(buf'[r]) > BatchMax THEN "write" ELSE "select")
    /\ UNCHANGED <<poison, groupVars, cancelled, tried, written, storageVars, failed, stops>>

\* The message joins the batch; a full batch is flushed at once.
HandleEvent(r) ==
  \E m \in Messages \ poison :
    /\ Receive(r, m)
    /\ buf' = [buf EXCEPT ![r] = Append(@, m)]
    /\ Goto(r, IF Len(buf'[r]) >= BatchMax THEN "write" ELSE "select")
    /\ UNCHANGED <<poison, groupVars, cancelled, tried, written, storageVars, failed, stops>>

\* What CommitMessages makes of the offsets of B: the highest of each partition.
Marks(B) ==
  {mark \in [Partitions -> Offsets] :
     \A p \in Partitions :
       /\ <<p, mark[p]>> \in B \/ (mark[p] = committed[p] /\ \A o \in Offsets : <<p, o>> \notin B)
       /\ \A o \in Offsets : <<p, o>> \in B => o <= mark[p]}

Behind(mark) == {m \in Messages : m[2] <= mark[m[1]]}

\* A message that does not unmarshal is committed by itself; whatever of the
\* partition is still in the batch is passed with it.
CommitPoison(r, m) ==
  /\ committed' \in Marks({m})
  /\ passed' = passed \cup (Behind(committed') \ (Behind(committed) \cup stored \cup refused))

HandlePoison(r) ==
  \E m \in poison :
    /\ Receive(r, m)
    /\ \/ CommitPoison(r, m) /\ UNCHANGED rpc
       \* CommitMessages returns an error: Run returns it.
       \/ /\ "outage" \in Faults \/ cancelled[r]
          /\ CommitPoison(r, m) \/ UNCHANGED <<committed, passed>>
          /\ Goto(r, "returned")
    /\ UNCHANGED <<poison, owner, pos, joining, cancelled, buf, tried, written,
                   stored, refused, failed, stops>>

-----------------------------------------------------------------------------
(* flush: WritePoints, then CommitMessages, then the batch is cleared.       *)

Final(r) == rpc[r] \in {"finalWrite", "finalCommit"}

EndFlush_Retries(r) == Goto(r, "select")

\* flush returns, with or without an error: back to the select or out of Run.
EndFlush(r) == Goto(r, IF Final(r) THEN "returned" ELSE "select")

\* WritePoints tries the points of the batch one by one.
NextPoint(r, m) == /\ rpc[r] \in Writing /\ tried[r] < Len(buf[r])
                   /\ m = buf[r][tried[r] + 1]
                   /\ tried' = [tried EXCEPT ![r] = @ + 1]
                   /\ UNCHANGED <<poison, groupVars, rpc, cancelled, out, buf, refused, passed,
                                  failed, stops>>

\* An outage begins and ends between two writes; only "point" mixes them.
PointAccepted(r) ==
  \E m \in Messages :
    /\ NextPoint(r, m)
    /\ ~cancelled[r] /\ ("point" \in Faults \/ tried[r] = 0 \/ written[r])
    /\ stored' = stored \cup {m}
    /\ written' = [written EXCEPT ![r] = TRUE]

\* An error, whether the point is stored or not.  A cancelled ctx makes every
\* later call fail before it begins.
PointRefused(r) ==
  \E m \in Messages :
    /\ NextPoint(r, m)
    /\ \/ cancelled[r] /\ UNCHANGED stored
       \/ /\ "point" \in Faults \/ ("outage" \in Faults /\ ~written[r])
          /\ stored' \in {stored, stored \cup {m}}
    /\ UNCHANGED written

WritesTried(r) == /\ rpc[r] \in Writing /\ tried[r] = Len(buf[r])
                  /\ tried' = [tried EXCEPT ![r] = 0]
                  /\ written' = [written EXCEPT ![r] = FALSE]

WriteFails_ErrorIgnored(r) ==
  /\ WritesTried(r) /\ ~written[r]
  /\ Goto(r, IF Final(r) THEN "finalCommit" ELSE "commit")
  /\ UNCHANGED <<poison, groupVars, cancelled, out, buf, storageVars, failed, stops>>

WriteFails_BatchDropped(r) ==
  /\ WritesTried(r) /\ ~written[r]
  /\ failed' = [failed EXCEPT ![r] = TRUE]
  /\ buf' = [buf EXCEPT ![r] = <<>>]
  /\ EndFlush(r)
  /\ UNCHANGED <<poison, groupVars, cancelled, out, storageVars, stops>>

\* WritePoints returns an error only if no point was accepted: the batch is kept.
WriteFails(r) ==
  /\ WritesTried(r) /\ ~written[r]
  /\ failed' = [failed EXCEPT ![r] = TRUE]
  /\ EndFlush(r)
  /\ UNCHANGED <<poison, groupVars, cancelled, out, buf, storageVars, stops>>

\* Else it returns nil, and flush does not look at WriteResult.Errors.
WriteReturns(r) ==
  /\ WritesTried(r) /\ written[r]
  /\ refused' = refused \cup (Batch(r) \ stored)
  /\ Goto(r, IF Final(r) THEN "finalCommit" ELSE "commit")
  /\ UNCHANGED <<poison, groupVars, cancelled, out, buf, stored, passed, failed, stops>>

\* The broker has the offsets and CommitMessages returns nil.
CommitSucceeds(r) ==
  /\ rpc[r] \in Committing
  /\ committed' \in Marks(Batch(r))
  /\ buf' = [buf EXCEPT ![r] = <<>>]
  /\ failed' = [failed EXCEPT ![r] = FALSE]
  /\ EndFlush(r)
  /\ UNCHANGED <<poison, owner, pos, joining, cancelled, out, tried, written, storageVars,
                 stops>>

\* It returns an error, whether the broker has them or not: the batch is kept.
CommitFails(r) ==
  /\ rpc[r] \in Committing
  /\ "outage" \in Faults \/ cancelled[r]
  /\ committed' \in Marks(Batch(r)) \cup {committed}
  /\ failed' = [failed EXCEPT ![r] = TRUE]
  /\ EndFlush(r)
  /\ UNCHANGED <<poison, owner, pos, joining, cancelled, out, buf, tried, written, storageVars,
                 stops>>

Loop(r) == \/ ContextDone(r) \/ Tick(r)
           \/ HandleError(r) \/ HandleEvent(r) \/ HandlePoison(r)
           \/ PointAccepted(r) \/ PointRefused(r) \/ WriteFails(r) \/ WriteReturns(r)
           \/ CommitSucceeds(r) \/ CommitFails(r)

-----------------------------------------------------------------------------
(* The life of a replica and of the group.                                   *)

\* The batch and the outcomes are in memory only; the group reassigns r's
\* partitions.
Gone(r) ==
  /\ Goto(r, "down")
  /\ buf' = [buf EXCEPT ![r] = <<>>] /\ out' = [out EXCEPT ![r] = <<>>]
  /\ tried' = [tried EXCEPT ![r] = 0] /\ written' = [written EXCEPT ![r] = FALSE]
  /\ owner' = [p \in Partitions |-> IF owner[p] = r THEN None ELSE owner[p]]
  /\ joining' = TRUE
  /\ cancelled' = [cancelled EXCEPT ![r] = FALSE]
  /\ failed' = [failed EXCEPT ![r] = FALSE]
  /\ UNCHANGED <<poison, committed, pos, storageVars>>

\* main closes the storage and the reader and returns.
Exit(r) == /\ rpc[r] = "returned"
           /\ Gone(r)
           /\ UNCHANGED stops

Crash(r) == /\ Up(r) /\ stops < MaxStops
            /\ stops' = stops + 1
            /\ Gone(r)

\* SIGTERM: NotifyContext cancels the ctx.
Signal(r) == /\ "signal" \in Faults
             /\ Up(r) /\ ~cancelled[r] /\ stops < MaxStops
             /\ stops' = stops + 1
             /\ cancelled' = [cancelled EXCEPT ![r] = TRUE]
             /\ UNCHANGED <<poison, groupVars, loopVars, storageVars, failed>>

\* Kubernetes starts a replica in the place of one that is gone.
Start(r) == /\ rpc[r] = "down"
            /\ Goto(r, "select")
            /\ joining' = TRUE
            /\ UNCHANGED <<poison, committed, owner, pos, cancelled, out, buf, tried, written,
                           storageVars, failed, stops>>

NewGeneration ==
  /\ \/ joining /\ UNCHANGED stops
     \/ ~joining /\ stops < MaxStops /\ stops' = stops + 1
  /\ owner' \in [Partitions -> {r \in Runners : Up(r)} \cup {None}]
  /\ \A p \in Partitions : owner'[p] = None => \A r \in Runners : ~Up(r)
  /\ joining' = FALSE
  /\ UNCHANGED <<poison, committed, loopVars, cancelled, storageVars, failed>>

\* Every assigned partition is read from its committed offset on; the batches
\* and outcomes of the members stay what they are.
Rebalance == NewGeneration /\ pos' = committed

Next == \/ \E r \in Runners : \/ \E p \in Partitions : FetchMessage(r, p)
                              \/ FetchFails(r) \/ Loop(r)
                              \/ Exit(r) \/ Crash(r) \/ Signal(r) \/ Start(r)
        \/ Rebalance

(* The select takes each of its ready cases again and again; a fetch, a write  *)
(* or a commit that is tried again and again succeeds in the end (an outage    *)
(* ends); the group settles and Kubernetes replaces what is gone.  Nothing has *)
(* to crash, to be signalled or to fail.                                       *)
Fairness ==
  /\ \A r \in Runners :
       /\ \A p \in Partitions : SF_vars(FetchMessage(r, p))
       /\ SF_vars(ContextDone(r)) /\ SF_vars(Tick(r))
       /\ SF_vars(HandleError(r) \/ HandleEvent(r) \/ HandlePoison(r))
       /\ SF_vars(PointAccepted(r)) /\ SF_vars(CommitSucceeds(r))
       /\ WF_vars(Loop(r)) /\ WF_vars(Exit(r)) /\ WF_vars(Start(r))
  /\ WF_vars(joining /\ Rebalance)

Spec     == Init /\ [][Next]_vars
FairSpec == Spec /\ Fairness

-----------------------------------------------------------------------------
InBatch(r, m) == m \in Batch(r)
InOut(r, m)   == \E i \in DOMAIN out[r] : out[r][i] = m
InHand(r, m)  == InBatch(r, m) \/ InOut(r, m)

(* Every message behind the committed offset is stored, or was given up in one *)
(* of the two ways the code has: not stored by a write that returned nil        *)
(* (storage.go:38-47), or passed unstored by the commit of a message that does  *)
(* not unmarshal (runner.go:112-118).                                           *)
Settled         == stored \cup refused \cup passed
OnlyKnownLosses == Behind(committed) \subseteq Settled

(* The batch outgrows BatchMax only while flushes fail: one that succeeds       *)
(* brings it back, however far it had grown (runner.go:70, 124-129).            *)
BatchBounded == \A r \in Runners : Len(buf[r]) > BatchMax => failed[r]

(* While a replica lives it lets go of an event only when the event is stored   *)
(* or refused in a write that returned nil (runner.go:66-70, 110-129).          *)
KeepsUntilWritten ==
  [][\A r \in Runners : \A m \in Messages \ poison :
       InHand(r, m) /\ Up(r)' => InHand(r, m)' \/ m \in stored' \cup refused']_vars

(* At-least-once, where every message unmarshals, an outage covers whole writes *)
(* and no signal cuts a write in two: an event behind the committed offset is   *)
(* stored, whatever crashes, rebalances, late commits and outages there are     *)
(* (runner.go:48-72).                                                           *)
CommitOnlyStored == Behind(committed) \subseteq stored

(* What makes OnlyKnownLosses inductive: r's commits pass nothing but settled   *)
(* messages, since everything of a partition up to a message that r holds, and  *)
(* up to pos where r is the owner, is settled or held by r itself, in order; a  *)
(* batch is committed after it was settled; a replica that is down holds and    *)
(* owns nothing.  One that has left Run over a failed commit of a poison        *)
(* message has a gap in its outcomes and handles no more of them.               *)
Covered(r, S, p, o) == \A k \in 1 .. o : <<p, k>> \in Settled \cup Batch(r) \cup S
Outcomes(r, n)      == {out[r][i] : i \in 1 .. n}

BatchCovered(r) ==
  \A p \in Partitions, o \in 1 .. MaxOffset :
    <<p, o>> \in Batch(r) => Covered(r, {}, p, o)
OutCovered(r) ==
  \A i \in 1 .. Len(out[r]), p \in Partitions, o \in 1 .. MaxOffset :
    out[r][i] = <<p, o>> => Covered(r, Outcomes(r, i), p, o)
OwnedCovered(r) ==
  \A p \in Partitions :
    owner[p] = r => Covered(r, Outcomes(r, Len(out[r])), p, pos[p])
SettledFirst(r) == rpc[r] \in Committing => Batch(r) \subseteq stored \cup refused
DownIsEmpty(r)  ==
  rpc[r] = "down" => buf[r] = <<>> /\ out[r] = <<>> /\ \A p \in Partitions : owner[p] # r

\* One flush at a time: below BatchMax in the select, unless the last one failed.
FlushedWhenFull(r) ==
  ~failed[r] => Len(buf[r]) <= BatchMax /\ (rpc[r] = "select" => Len(buf[r]) < BatchMax)

(* The inductive invariant of the proofs (RunnerProofs).                        *)
ReplicaInv(r) ==
  /\ BatchCovered(r) /\ SettledFirst(r) /\ DownIsEmpty(r) /\ FlushedWhenFull(r)
  /\ rpc[r] # "returned" => OutCovered(r) /\ OwnedCovered(r)
IndInv == TypeOK /\ OnlyKnownLosses /\ \A r \in Runners : ReplicaInv(r)

(* Where every message unmarshals, the committed offset moves backwards only    *)
(* after a rebalance, by the late commit of a former owner (runner.go:66).      *)
OffsetsAdvance ==
  [][stops = 0 => \A p \in Partitions : committed'[p] >= committed[p]]_vars

(* Without stops the whole topic is committed in the end, the last incomplete   *)
(* batch included (runner.go:96-99).                                            *)
TopicDrains ==
  [](stops = 0) => <>[](\A p \in Partitions : committed[p] = MaxOffset)

(* A signalled replica leaves, although its last flush fails                    *)
(* (runner.go:91-95).                                                           *)
SignalledReplicaLeaves == \A r \in Runners : cancelled[r] ~> ~cancelled[r]

(* The runner implements at-least-once delivery up to the known losses: offsets *)
(* pass settled messages only, and every message is settled in the end.         *)
Contract == INSTANCE DeliveryContract WITH settled <- Settled

ImplementsDelivery == Contract!Spec

-----------------------------------------------------------------------------
(* What the documentation says of the processor.                               *)

(* docs/architecture.md:54 "commits follow at-least-once batching rules": an    *)
(* event behind the committed offset is stored or still in the hands of a       *)
(* replica.                                                                     *)
NothingLost ==
  \A m \in Behind(committed) \ poison : m \in stored \/ \E r \in Runners : InHand(r, m)

(* docs/architecture.md:52 "`Runner.Run` returns after optional final flush":   *)
(* a cancelled replica whose storage and broker work leaves no batch behind.    *)
FinalFlushWrites == \A r \in Runners : rpc[r] = "returned" => buf[r] = <<>>

=============================================================================

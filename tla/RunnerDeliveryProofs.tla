------------------------ MODULE RunnerDeliveryProofs ------------------------
(***************************************************************************)
(* What the inductive invariant of RunnerProofs gives: the processor       *)
(* implements the delivery contract, keeps what it holds until it is       *)
(* written, delivers at least once where only outages go wrong, and moves  *)
(* no offset back before the first stop where every message unmarshals.    *)
(***************************************************************************)
EXTENDS RunnerProofs

-----------------------------------------------------------------------------
(* The delivery contract.                                                   *)

LEMMA InitImplements == Init => Contract!Init
  BY DEF Init, Contract!Init, Settled

\* Every step is a commit of the contract, if only of the offsets as they are.
LEMMA NextImplements == IndInv /\ IndInv' /\ [Next]_vars => [Contract!Next]_(Contract!vars)
  <1> SUFFICES ASSUME IndInv, IndInv', [Next]_vars PROVE Contract!Next
    OBVIOUS
  <1>1. Settled' = Settled \cup Settled'
    BY SettledStays DEF Settled
  <1>2. Settled' \in SUBSET Contract!Messages
    BY DEF IndInv, TypeOK, Settled, Messages, Contract!Messages
  <1>3. committed' \in [Partitions -> 0 .. MaxOffset]
    BY DEF IndInv, TypeOK, Offsets
  <1>4. Contract!Behind(committed') \subseteq Settled'
    BY DEF IndInv, OnlyKnownLosses, Behind, Messages, Contract!Behind, Contract!Messages
  <1>5. Contract!Commit(committed', Settled')
    BY <1>1, <1>4 DEF Contract!Commit
  <1> QED BY <1>2, <1>3, <1>5 DEF Contract!Next

\* The processor implements at-least-once delivery up to the known losses: no
\* step of a replica or of the group lets an offset pass an unsettled message,
\* and nothing settled is unsettled again (Run, WritePoints, CommitMessages).
THEOREM ImplementsSafety == Spec => Contract!Safety
  BY InitImplements, NextImplements, Inductive, PTL DEF Contract!Safety, Spec

-----------------------------------------------------------------------------
(* What a replica lets go of.                                               *)

LEMMA BatchKept ==
  ASSUME IndInv, [Next]_vars, NEW r \in Runners, Up(r)', NEW m \in Batch(r)
  PROVE  m \in Batch(r)' \cup stored' \cup refused'
  <1>1. CASE buf'[r] = buf[r]
    BY <1>1 DEF Batch
  <1>2. CASE HandleEvent(r)
    <2>1. PICK e \in Messages : buf'[r] = Append(buf[r], e)
      BY <1>2 DEF HandleEvent, IndInv, TypeOK
    <2> QED BY <2>1, BatchAppend DEF IndInv
  <1>3. CASE CommitSucceeds(r)
    <2>1. m \in stored \cup refused
      BY <1>3 DEF CommitSucceeds, IndInv, ReplicaInv, SettledFirst
    <2> QED BY <2>1, SettledStays
  <1>4. CASE Gone(r)
    BY <1>4 DEF Gone, Goto, Up, IndInv, TypeOK
  <1>5. buf'[r] = buf[r] \/ HandleEvent(r) \/ CommitSucceeds(r) \/ Gone(r)
    <2>1. \/ buf' = buf
          \/ \E q \in Runners : HandleEvent(q) \/ CommitSucceeds(q) \/ Gone(q)
      BY Footprint
    <2>2. ASSUME NEW q \in Runners, q # r, HandleEvent(q) \/ CommitSucceeds(q) \/ Gone(q)
          PROVE  buf'[r] = buf[r]
      <3>1. \E x : buf' = [buf EXCEPT ![q] = x]
        BY <2>2 DEF HandleEvent, CommitSucceeds, Gone
      <3> QED BY <2>2, <3>1 DEF IndInv, TypeOK
    <2> QED BY <2>1, <2>2
  <1> QED BY <1>1, <1>2, <1>3, <1>4, <1>5

\* What a step does to the outcomes of a replica that lives on.
LEMMA OutChanges ==
  ASSUME IndInv, [Next]_vars, NEW r \in Runners, Up(r)'
  PROVE  \/ out'[r] = out[r]
         \/ \E fo \in Messages \cup {Err} : out'[r] = Append(out[r], fo)
         \/ /\ out[r] # <<>> /\ out'[r] = Tail(out[r])
            /\ Head(out[r]) \in poison \cup Batch(r)' \cup {Err}
  <1>1. CASE FetchFails(r)
    BY <1>1 DEF FetchFails, Fetched, IndInv, TypeOK
  <1>2. ASSUME NEW p \in Partitions, FetchMessage(r, p)
        PROVE  \E fo \in Messages \cup {Err} : out'[r] = Append(out[r], fo)
    <2>1. <<p, pos[p] + 1>> \in Messages
      BY <1>2, RunnerAssumption DEF FetchMessage, IndInv, TypeOK, Offsets, Messages
    <2> QED BY <1>2, <2>1 DEF FetchMessage, Fetched, IndInv, TypeOK
  <1>3. CASE HandleError(r)
    BY <1>3, ReceiveFacts DEF HandleError, IndInv
  <1>4. CASE HandleEvent(r)
    <2>1. PICK m \in Messages \ poison : Receive(r, m) /\ buf'[r] = Append(buf[r], m)
      BY <1>4 DEF HandleEvent, IndInv, TypeOK
    <2>2. m \in Batch(r)'
      BY <2>1, BatchAppend DEF IndInv
    <2> QED BY <2>1, <2>2, ReceiveFacts DEF IndInv
  <1>5. CASE HandlePoison(r)
    BY <1>5, ReceiveFacts DEF HandlePoison, IndInv
  <1>6. CASE Gone(r)
    BY <1>6 DEF Gone, Goto, Up, IndInv, TypeOK
  <1>7. \/ out'[r] = out[r]
        \/ FetchFails(r) \/ \E p \in Partitions : FetchMessage(r, p)
        \/ HandleError(r) \/ HandleEvent(r) \/ HandlePoison(r) \/ Gone(r)
    <2>1. \/ out' = out
          \/ \E q \in Runners :
               \/ FetchFails(q) \/ \E p \in Partitions : FetchMessage(q, p)
               \/ HandleError(q) \/ HandleEvent(q) \/ HandlePoison(q) \/ Gone(q)
      BY DEF Next, Loop, ContextDone, Tick, PointAccepted, PointRefused, NextPoint, WriteFails,
             WriteReturns, CommitSucceeds, CommitFails, Exit, Crash, Signal, Start, Rebalance,
             NewGeneration, vars, loopVars
    <2>2. ASSUME NEW q \in Runners, q # r,
                 \/ FetchFails(q) \/ \E p \in Partitions : FetchMessage(q, p)
                 \/ HandleError(q) \/ HandleEvent(q) \/ HandlePoison(q) \/ Gone(q)
          PROVE  out'[r] = out[r]
      <3>1. \E x : out' = [out EXCEPT ![q] = x]
        BY <2>2 DEF FetchFails, FetchMessage, Fetched, HandleError, HandleEvent, HandlePoison,
                    Receive, Gone
      <3> QED BY <2>2, <3>1 DEF IndInv, TypeOK
    <2> QED BY <2>1, <2>2
  <1> QED BY <1>1, <1>2, <1>3, <1>4, <1>5, <1>6, <1>7

LEMMA OutKept ==
  ASSUME IndInv, [Next]_vars, NEW r \in Runners, Up(r)',
         NEW m \in Messages \ poison, InOut(r, m)
  PROVE  InOut(r, m)' \/ m \in Batch(r)'
  <1>1. out[r] \in Seq(Messages \cup {Err})
    BY DEF IndInv, TypeOK
  <1>2. PICK i \in 1 .. Len(out[r]) : out[r][i] = m
    BY <1>1 DEF InOut
  <1>3. CASE out'[r] = out[r]
    BY <1>3 DEF InOut
  <1>4. ASSUME NEW fo \in Messages \cup {Err}, out'[r] = Append(out[r], fo)
        PROVE  InOut(r, m)'
    <2>1. out'[r][i] = m /\ i \in DOMAIN out'[r]
      BY <1>1, <1>2, <1>4, AppendFacts
    <2> QED BY <2>1 DEF InOut
  <1>5. CASE /\ out[r] # <<>> /\ out'[r] = Tail(out[r])
             /\ Head(out[r]) \in poison \cup Batch(r)' \cup {Err}
    <2>1. /\ Head(out[r]) = out[r][1]
          /\ Tail(out[r]) \in Seq(Messages \cup {Err}) /\ Len(out[r]) \in Nat \ {0}
          /\ Len(Tail(out[r])) = Len(out[r]) - 1
          /\ \A j \in 1 .. Len(out[r]) - 1 : Tail(out[r])[j] = out[r][j + 1]
      BY <1>1, <1>5, TailFacts
    <2>2. CASE i = 1
      <3>1. m # Err
        BY RunnerAssumption DEF Messages
      <3> QED BY <1>2, <1>5, <2>1, <2>2, <3>1
    <2>3. CASE i # 1
      <3>1. i - 1 \in 1 .. Len(out[r]) - 1 /\ (i - 1) + 1 = i
        BY <1>2, <2>1, <2>3
      <3>2. out'[r][i - 1] = m /\ i - 1 \in DOMAIN out'[r]
        BY <1>2, <1>5, <2>1, <3>1
      <3> QED BY <3>2 DEF InOut
    <2> QED BY <2>2, <2>3
  <1> QED BY <1>3, <1>4, <1>5, OutChanges

\* A replica that lives lets go of an event only when the event is stored, or
\* refused in a write that returned nil (Run: fetched, batched, flushed).
THEOREM NothingDropped == Spec => KeepsUntilWritten
  <1>1. ASSUME IndInv, [Next]_vars, NEW r \in Runners, NEW m \in Messages \ poison,
               InHand(r, m), Up(r)'
        PROVE  InHand(r, m)' \/ m \in stored' \cup refused'
    <2>1. CASE InBatch(r, m)
      BY <1>1, <2>1, BatchKept DEF InBatch, InHand
    <2>2. CASE InOut(r, m)
      BY <1>1, <2>2, OutKept DEF InBatch, InHand
    <2> QED BY <1>1, <2>1, <2>2 DEF InHand
  <1>2. IndInv /\ [Next]_vars =>
          [\A r \in Runners : \A m \in Messages \ poison :
             InHand(r, m) /\ Up(r)' => InHand(r, m)' \/ m \in stored' \cup refused']_vars
    BY <1>1
  <1> QED BY <1>2, Inductive, PTL DEF Spec, KeepsUntilWritten

-----------------------------------------------------------------------------
(* At least once, where only outages go wrong.                              *)

(* Nothing is given up.  Once a point of a write was accepted, every point it  *)
(* has tried is stored, so a write that returns nil has stored its batch.      *)
WholeWrites(r) ==
  /\ ~cancelled[r]
  /\ rpc[r] \notin Writing => ~written[r] /\ tried[r] = 0
  /\ written[r] => \A i \in 1 .. tried[r] : buf[r][i] \in stored
NothingGivenUp == poison = {} /\ refused = {} /\ passed = {}
OutageInv      == NothingGivenUp /\ \A r \in Runners : WholeWrites(r)

LEMMA InitOutageInv ==
  ASSUME Faults \subseteq {"outage"}, Init PROVE OutageInv
  <1>1. poison = {}
    BY DEF Init
  <1> QED BY <1>1 DEF Init, OutageInv, NothingGivenUp, WholeWrites

\* Another replica's step touches r's write in nothing but what is stored.
LEMMA WriteFrame ==
  ASSUME NEW r \in Runners, WholeWrites(r), stored \subseteq stored',
         buf'[r] = buf[r], rpc'[r] = rpc[r], tried'[r] = tried[r], written'[r] = written[r],
         cancelled'[r] = cancelled[r]
  PROVE  WholeWrites(r)'
  BY DEF WholeWrites

\* A replica that has no write under way, before the step or after it.
LEMMA NoWriteFrame ==
  ASSUME NEW r \in Runners, ~cancelled'[r], ~written'[r], tried'[r] = 0
  PROVE  WholeWrites(r)'
  BY DEF WholeWrites

LEMMA PointWhole ==
  ASSUME Faults \subseteq {"outage"}, IndInv, NEW r \in Runners, WholeWrites(r),
         PointAccepted(r) \/ PointRefused(r)
  PROVE  WholeWrites(r)'
  <1>1. /\ UNCHANGED <<buf, rpc, cancelled>> /\ rpc[r] \in Writing
        /\ tried[r] \in Nat /\ tried'[r] = tried[r] + 1
    BY DEF PointAccepted, PointRefused, NextPoint, IndInv, TypeOK
  <1>2. CASE PointAccepted(r)
    <2>1. /\ stored \subseteq stored' /\ buf[r][tried[r] + 1] \in stored'
          /\ tried[r] = 0 \/ written[r]
      BY <1>2 DEF PointAccepted, NextPoint
    <2>2. \A i \in 1 .. tried[r] : buf[r][i] \in stored
      BY <1>1, <2>1 DEF WholeWrites
    <2>3. \A i \in 1 .. tried'[r] : i \in 1 .. tried[r] \/ i = tried[r] + 1
      BY <1>1
    <2> QED BY <1>1, <2>1, <2>2, <2>3 DEF WholeWrites
  <1>3. CASE PointRefused(r)
    <2>1. ~written[r] /\ written' = written
      BY <1>3 DEF PointRefused, WholeWrites
    <2> QED BY <1>1, <2>1 DEF WholeWrites
  <1> QED BY <1>2, <1>3

\* A write that returns nil has stored its batch.
LEMMA ReturnsWhole ==
  ASSUME IndInv, NEW r \in Runners, WholeWrites(r), WriteReturns(r)
  PROVE  refused' = refused
  <1>1. /\ written[r] /\ tried[r] = Len(buf[r]) /\ buf[r] \in Seq(Messages)
        /\ refused' = refused \cup (Batch(r) \ stored)
    BY DEF WriteReturns, WritesTried, IndInv, TypeOK
  <1>2. Batch(r) \subseteq stored
    BY <1>1 DEF Batch, WholeWrites
  <1> QED BY <1>1, <1>2

\* A step of r, seen by r.
LEMMA OwnWriteStep ==
  ASSUME Faults \subseteq {"outage"}, IndInv, NothingGivenUp, NEW r \in Runners, WholeWrites(r),
         \/ FetchFails(r) \/ \E p \in Partitions : FetchMessage(r, p)
         \/ Loop(r) \/ Exit(r) \/ Crash(r) \/ Signal(r) \/ Start(r)
  PROVE  WholeWrites(r)'
  <1>1. CASE FetchFails(r) \/ \E p \in Partitions : FetchMessage(r, p)
    <2>1. UNCHANGED <<stored, buf, rpc, tried, written, cancelled>>
      BY <1>1 DEF FetchFails, FetchMessage, Fetched, storageVars
    <2> QED BY <2>1, WriteFrame
  <1>2. CASE ContextDone(r) \/ Tick(r) \/ HandleError(r) \/ HandleEvent(r) \/ Start(r)
             \/ CommitSucceeds(r) \/ CommitFails(r)
    <2>1. rpc[r] \notin Writing /\ UNCHANGED <<tried, written, cancelled>>
      BY <1>2 DEF ContextDone, Tick, HandleError, HandleEvent, Receive, Start, CommitSucceeds,
                  CommitFails, Writing, Committing
    <2> QED BY <2>1, NoWriteFrame DEF WholeWrites
  <1>3. CASE PointAccepted(r) \/ PointRefused(r)
    BY <1>3, PointWhole
  <1>4. CASE WriteFails(r) \/ WriteReturns(r)
    <2>1. WritesTried(r) /\ UNCHANGED cancelled
      BY <1>4 DEF WriteFails, WriteReturns
    <2>2. ~written'[r] /\ tried'[r] = 0
      BY <2>1 DEF WritesTried, IndInv, TypeOK
    <2> QED BY <2>1, <2>2, NoWriteFrame DEF WholeWrites
  <1>5. CASE Exit(r) \/ Crash(r)
    <2>1. Gone(r)
      BY <1>5 DEF Exit, Crash
    <2>2. tried'[r] = 0
      BY <2>1 DEF Gone, IndInv, TypeOK
    <2>3. ~written'[r] /\ ~cancelled'[r]
      BY <2>1 DEF Gone, IndInv, TypeOK
    <2> QED BY <2>2, <2>3, NoWriteFrame
  <1>6. ~HandlePoison(r) /\ ~Signal(r)
    BY DEF HandlePoison, Signal, NothingGivenUp
  <1> QED BY <1>1, <1>2, <1>3, <1>4, <1>5, <1>6 DEF Loop

\* A step of q, seen by r.
LEMMA OtherWriteStep ==
  ASSUME IndInv, [Next]_vars, NEW r \in Runners, NEW q \in Runners, q # r, WholeWrites(r),
         \/ FetchFails(q) \/ \E p \in Partitions : FetchMessage(q, p)
         \/ Loop(q) \/ Exit(q) \/ Crash(q) \/ Signal(q) \/ Start(q)
  PROVE  WholeWrites(r)'
  <1> USE DEF groupVars, loopVars, Goto
  <1>1. buf'[r] = buf[r] /\ rpc'[r] = rpc[r] /\ tried'[r] = tried[r]
    BY DEF FetchFails, FetchMessage, Fetched, Loop, ContextDone, Tick, HandleError, HandleEvent,
           HandlePoison, BeginFlush, FinalFlush, EndFlush, PointAccepted, PointRefused, NextPoint,
           WriteFails, WriteReturns, WritesTried, CommitSucceeds, CommitFails, Exit, Crash, Gone,
           Signal, Start, IndInv, TypeOK
  <1>2. \/ written' = written
        \/ written' = [written EXCEPT ![q] = TRUE] \/ written' = [written EXCEPT ![q] = FALSE]
    BY DEF FetchFails, FetchMessage, Fetched, Loop, ContextDone, Tick, HandleError, HandleEvent,
           HandlePoison, PointAccepted, PointRefused, WriteFails, WriteReturns, WritesTried,
           CommitSucceeds, CommitFails, Exit, Crash, Gone, Signal, Start
  <1>3. \/ cancelled' = cancelled
        \/ cancelled' = [cancelled EXCEPT ![q] = TRUE]
        \/ cancelled' = [cancelled EXCEPT ![q] = FALSE]
    BY DEF FetchFails, FetchMessage, Fetched, Loop, ContextDone, Tick, HandleError, HandleEvent,
           HandlePoison, PointAccepted, PointRefused, NextPoint, WriteFails, WriteReturns,
           CommitSucceeds, CommitFails, Exit, Crash, Gone, Signal, Start
  <1>4. written'[r] = written[r]
    BY <1>2 DEF IndInv, TypeOK
  <1>5. cancelled'[r] = cancelled[r]
    BY <1>3 DEF IndInv, TypeOK
  <1> QED BY <1>1, <1>4, <1>5, SettledStays, WriteFrame

LEMMA GivenUpStep ==
  ASSUME IndInv, OutageInv, [Next]_vars PROVE NothingGivenUp'
  <1>1. ASSUME NEW r \in Runners, WriteReturns(r) PROVE NothingGivenUp'
    <2>1. refused' = refused /\ UNCHANGED <<poison, passed>>
      BY <1>1, ReturnsWhole DEF OutageInv, WriteReturns
    <2> QED BY <2>1 DEF OutageInv, NothingGivenUp
  <1>2. \A r \in Runners : ~HandlePoison(r)
    BY DEF HandlePoison, OutageInv, NothingGivenUp
  <1>3. UNCHANGED <<poison, refused, passed>> \/ \E r \in Runners : WriteReturns(r)
    BY <1>2, Footprint
  <1> QED BY <1>1, <1>3 DEF OutageInv, NothingGivenUp

LEMMA NextOutageInv ==
  ASSUME Faults \subseteq {"outage"}
  PROVE  IndInv /\ OutageInv /\ [Next]_vars => OutageInv'
  <1> SUFFICES ASSUME IndInv, OutageInv, [Next]_vars, NEW r \in Runners PROVE WholeWrites(r)'
    BY GivenUpStep DEF OutageInv
  <1>1. WholeWrites(r) /\ NothingGivenUp
    BY DEF OutageInv
  <1>2. CASE UNCHANGED vars \/ Rebalance
    <2>1. UNCHANGED <<stored, buf, rpc, tried, written, cancelled>>
      BY <1>2 DEF vars, loopVars, storageVars, Rebalance, NewGeneration
    <2> QED BY <1>1, <2>1, WriteFrame
  <1>3. ASSUME NEW q \in Runners,
               \/ FetchFails(q) \/ \E p \in Partitions : FetchMessage(q, p)
               \/ Loop(q) \/ Exit(q) \/ Crash(q) \/ Signal(q) \/ Start(q)
        PROVE  WholeWrites(r)'
    <2>1. CASE q = r
      BY <1>1, <1>3, <2>1, OwnWriteStep
    <2>2. CASE q # r
      BY <1>1, <1>3, <2>2, OtherWriteStep
    <2> QED BY <2>1, <2>2
  <1> QED BY <1>2, <1>3 DEF Next

\* Delivery is at least once where every message unmarshals, an outage covers
\* whole writes and no signal cuts one: whatever crashes, rebalances, late
\* commits and lost answers there are, an offset passes stored events only.
THEOREM AtLeastOnce ==
  ASSUME Faults \subseteq {"outage"} PROVE Spec => []CommitOnlyStored
  <1>1. Init => OutageInv
    BY InitOutageInv
  <1>2. IndInv /\ OutageInv /\ [Next]_vars => OutageInv'
    BY NextOutageInv
  <1>3. IndInv /\ OutageInv => CommitOnlyStored
    BY DEF IndInv, OnlyKnownLosses, Settled, OutageInv, NothingGivenUp, CommitOnlyStored
  <1> QED BY <1>1, <1>2, <1>3, Inductive, PTL DEF Spec

-----------------------------------------------------------------------------
(* Offsets, until the first stop.                                           *)

(* Before anything has stopped, the group has settled at most once: what a     *)
(* replica holds it owns.  Of a partition r owns, what it has fetched and not  *)
(* handled yet comes after the committed offset and after its batch, in order, *)
(* and a batch that has anything of it goes at least as far as the commit.     *)
OwnOnly(r) == \A m \in Messages : InHand(r, m) => owner[m[1]] = r

BatchAhead(r, p) ==
  \A o \in 1 .. MaxOffset :
    <<p, o>> \in Batch(r) =>
      /\ o <= pos[p]
      /\ \E k \in 1 .. MaxOffset : k >= committed[p] /\ <<p, k>> \in Batch(r)

OutAhead(r, p) ==
  \A i \in 1 .. Len(out[r]), o \in 1 .. MaxOffset :
    out[r][i] = <<p, o>> =>
      /\ committed[p] < o /\ o <= pos[p]
      /\ \A k \in 1 .. MaxOffset : <<p, k>> \in Batch(r) => k < o
      /\ \A j \in 1 .. i - 1, k \in 1 .. MaxOffset : out[r][j] = <<p, k>> => k < o

Ahead(r, p) == committed[p] <= pos[p] /\ BatchAhead(r, p) /\ OutAhead(r, p)

Staying == {"select", "write", "commit"}

Stays(r) == /\ ~cancelled[r] /\ rpc[r] \in Staying
            /\ OwnOnly(r)
            /\ \A p \in Partitions : owner[p] = r => Ahead(r, p)

Calm == /\ joining => \A p \in Partitions : owner[p] = None
        /\ \A r \in Runners : Stays(r)

CalmInv == poison = {} /\ (stops = 0 => Calm)

LEMMA InitCalm ==
  ASSUME "poison" \notin Faults, Init PROVE CalmInv
  <1>1. poison = {} /\ \A p \in Partitions : owner[p] = None
    BY DEF Init
  <1>2. ASSUME NEW r \in Runners PROVE Stays(r)
    <2>1. ~cancelled[r] /\ rpc[r] \in Staying /\ buf[r] = <<>> /\ out[r] = <<>>
      BY DEF Init, Staying
    <2>2. Batch(r) = {} /\ \A m : ~InOut(r, m)
      BY <2>1 DEF Batch, InOut
    <2>3. \A p \in Partitions : owner[p] # r
      BY <1>1, RunnerAssumption
    <2> QED BY <2>1, <2>2, <2>3 DEF Stays, OwnOnly, InHand, InBatch
  <1> QED BY <1>1, <1>2 DEF CalmInv, Calm

LEMMA HandTypes ==
  ASSUME TypeOK, NEW r \in Runners
  PROVE  /\ out[r] \in Seq(Messages \cup {Err}) /\ buf[r] \in Seq(Messages)
         /\ Batch(r) \subseteq Messages
         /\ \A m : InOut(r, m) <=> \E i \in 1 .. Len(out[r]) : out[r][i] = m
         /\ \A p \in Partitions : committed[p] \in 0 .. MaxOffset /\ pos[p] \in 0 .. MaxOffset
  <1>1. out[r] \in Seq(Messages \cup {Err}) /\ buf[r] \in Seq(Messages)
    BY DEF TypeOK
  <1>2. \A p \in Partitions : committed[p] \in 0 .. MaxOffset /\ pos[p] \in 0 .. MaxOffset
    BY DEF TypeOK, Offsets
  <1>3. DOMAIN out[r] = 1 .. Len(out[r])
    BY <1>1
  <1> QED BY <1>1, <1>2, <1>3, BatchType DEF InOut

\* A replica whose batch, outcomes and partitions a step leaves alone.
LEMMA StaysFrame ==
  ASSUME NEW r \in Runners, Stays(r), ~cancelled'[r], rpc'[r] \in Staying,
         buf'[r] = buf[r], out'[r] = out[r], owner' = owner,
         \A p \in Partitions : owner[p] = r => committed'[p] = committed[p] /\ pos'[p] = pos[p]
  PROVE  Stays(r)'
  <1>1. OwnOnly(r)'
    BY DEF Stays, OwnOnly, InHand, InBatch, InOut, Batch
  <1>2. ASSUME NEW p \in Partitions, owner'[p] = r PROVE Ahead(r, p)'
    <2>1. Ahead(r, p) /\ committed'[p] = committed[p] /\ pos'[p] = pos[p]
      BY <1>2 DEF Stays
    <2>2. Batch(r)' = Batch(r)
      BY DEF Batch
    <2>3. BatchAhead(r, p)'
      BY <2>1, <2>2 DEF Ahead, BatchAhead
    <2>4. OutAhead(r, p)'
      BY <2>1, <2>2 DEF Ahead, OutAhead
    <2> QED BY <2>1, <2>3, <2>4 DEF Ahead
  <1> QED BY <1>1, <1>2 DEF Stays

\* A fetched message comes after all that is held of its partition.
LEMMA FetchStays ==
  ASSUME IndInv, NEW r \in Runners, Stays(r), NEW q \in Partitions, FetchMessage(r, q)
  PROVE  Stays(r)'
  <1> DEFINE n == Len(out[r])
             e == pos[q] + 1
             m == <<q, e>>
  <1>1. TypeOK
    BY DEF IndInv
  <1>2. /\ owner[q] = r /\ UNCHANGED <<committed, owner, rpc, cancelled, buf>>
        /\ out' = [out EXCEPT ![r] = Append(out[r], m)]
        /\ pos' = [pos EXCEPT ![q] = e] /\ pos[q] < MaxOffset
    BY DEF FetchMessage, Fetched
  <1>3. /\ pos[q] \in Nat /\ committed[q] \in Nat /\ e \in 1 .. MaxOffset /\ MaxOffset \in Nat
        /\ m \in Messages
    BY <1>1, <1>2, HandTypes, RunnerAssumption DEF Messages
  <1>4. /\ \A p \in Partitions : pos'[p] = IF p = q THEN e ELSE pos[p]
        /\ out'[r] = Append(out[r], m)
    BY <1>1, <1>2 DEF TypeOK
  <1>5. /\ n \in Nat /\ Len(out'[r]) = n + 1 /\ out'[r][n + 1] = m
        /\ \A i \in 1 .. n : out'[r][i] = out[r][i]
        /\ out'[r] \in Seq(Messages \cup {Err})
    BY <1>1, <1>3, <1>4, HandTypes, AppendFacts
  <1>6. Batch(r)' = Batch(r)
    BY <1>2 DEF Batch
  <1>7. OwnOnly(r)'
    <2> SUFFICES ASSUME NEW x \in Messages, InHand(r, x)' PROVE owner[x[1]] = r
      BY <1>2 DEF OwnOnly
    <2>1. CASE InBatch(r, x)'
      BY <1>6, <2>1 DEF Stays, OwnOnly, InHand, InBatch
    <2>2. CASE InOut(r, x)'
      <3>1. PICK i \in 1 .. n + 1 : out'[r][i] = x
        BY <1>5, <2>2 DEF InOut
      <3>2. CASE i = n + 1
        BY <1>2, <1>5, <3>1, <3>2
      <3>3. CASE i \in 1 .. n
        <4>1. InOut(r, x)
          BY <1>1, <1>5, <3>1, <3>3, HandTypes
        <4> QED BY <4>1 DEF Stays, OwnOnly, InHand
      <3> QED BY <1>5, <3>2, <3>3
    <2> QED BY <2>1, <2>2 DEF InHand
  <1>8. ASSUME NEW p \in Partitions, owner'[p] = r PROVE Ahead(r, p)'
    <2>1. Ahead(r, p) /\ committed'[p] = committed[p]
      BY <1>2, <1>8 DEF Stays
    <2>2. /\ committed[p] \in Nat /\ pos[p] \in Nat /\ pos'[p] \in Nat /\ pos[p] <= pos'[p]
          /\ p = q => pos'[p] = pos[p] + 1
      BY <1>1, <1>3, <1>4, HandTypes
    <2>3. committed'[p] <= pos'[p]
      BY <2>1, <2>2 DEF Ahead
    <2>4. BatchAhead(r, p)'
      <3>1. \A o \in 1 .. MaxOffset : o <= pos[p] => o <= pos'[p]
        BY <2>2
      <3> QED BY <1>6, <2>1, <3>1 DEF Ahead, BatchAhead
    <2>5. ASSUME NEW i \in 1 .. Len(out'[r]), NEW o \in 1 .. MaxOffset, out'[r][i] = <<p, o>>
          PROVE  /\ committed'[p] < o /\ o <= pos'[p]
                 /\ \A k \in 1 .. MaxOffset : <<p, k>> \in Batch(r)' => k < o
                 /\ \A j \in 1 .. i - 1, k \in 1 .. MaxOffset : out'[r][j] = <<p, k>> => k < o
      <3>1. \A j \in 1 .. i - 1 : j \in 1 .. n /\ out'[r][j] = out[r][j]
        BY <1>5
      <3>2. CASE i \in 1 .. n
        <4>1. out[r][i] = <<p, o>>
          BY <1>5, <2>5, <3>2
        <4>2. /\ committed[p] < o /\ o <= pos[p]
              /\ \A k \in 1 .. MaxOffset : <<p, k>> \in Batch(r) => k < o
              /\ \A j \in 1 .. i - 1, k \in 1 .. MaxOffset : out[r][j] = <<p, k>> => k < o
          BY <2>1, <3>2, <4>1 DEF Ahead, OutAhead
        <4>3. o <= pos'[p]
          BY <2>2, <4>2
        <4> QED BY <1>6, <2>1, <3>1, <4>2, <4>3
      <3>3. CASE i = n + 1
        <4>1. p = q /\ o = pos[p] + 1
          BY <1>5, <2>5, <3>3
        <4>2. \A k \in 1 .. MaxOffset : k <= pos[p] => k < o
          BY <2>2, <4>1
        <4>3. \A k \in 1 .. MaxOffset : <<p, k>> \in Batch(r) => k < o
          BY <2>1, <4>2 DEF Ahead, BatchAhead
        <4>4. \A j \in 1 .. n, k \in 1 .. MaxOffset : out[r][j] = <<p, k>> => k < o
          BY <2>1, <4>2 DEF Ahead, OutAhead
        <4>5. committed[p] < o /\ o <= pos'[p]
          <5>1. committed[p] <= pos[p]
            BY <2>1 DEF Ahead
          <5> QED BY <2>2, <4>1, <5>1
        <4> QED BY <1>6, <2>1, <3>1, <4>3, <4>4, <4>5
      <3>4. i \in 1 .. n \/ i = n + 1
        BY <1>5
      <3> QED BY <3>2, <3>3, <3>4
    <2>6. OutAhead(r, p)'
      BY <2>5 DEF OutAhead
    <2> QED BY <2>3, <2>4, <2>6 DEF Ahead
  <1> QED BY <1>2, <1>7, <1>8 DEF Stays

\* What is left of the outcomes when the first one has been taken.
LEMMA OutShifts ==
  ASSUME TypeOK, NEW r \in Runners, NEW fo, Receive(r, fo)
  PROVE  /\ out[r][1] = fo /\ 1 \in 1 .. Len(out[r])
         /\ Len(out[r]) \in Nat \ {0} /\ Len(out'[r]) = Len(out[r]) - 1
         /\ \A i \in 1 .. Len(out'[r]) : i + 1 \in 1 .. Len(out[r]) /\ out'[r][i] = out[r][i + 1]
         /\ \A m : InOut(r, m)' => InOut(r, m)
  <1>1. /\ out[r] # <<>> /\ out'[r] = Tail(out[r]) /\ out[r][1] = fo
        /\ out[r] \in Seq(Messages \cup {Err})
    BY ReceiveFacts DEF TypeOK
  <1>2. /\ Len(out[r]) \in Nat \ {0} /\ Len(out'[r]) = Len(out[r]) - 1
        /\ \A i \in 1 .. Len(out[r]) - 1 : out'[r][i] = out[r][i + 1]
        /\ out'[r] \in Seq(Messages \cup {Err})
    BY <1>1, TailFacts
  <1>3. /\ 1 \in 1 .. Len(out[r])
        /\ \A i \in 1 .. Len(out'[r]) : i + 1 \in 1 .. Len(out[r]) /\ i \in 1 .. Len(out[r]) - 1
    BY <1>2
  <1>4. DOMAIN out'[r] = 1 .. Len(out'[r]) /\ DOMAIN out[r] = 1 .. Len(out[r])
    BY <1>1, <1>2
  <1>5. \A m : InOut(r, m)' => InOut(r, m)
    BY <1>2, <1>3, <1>4 DEF InOut
  <1> QED BY <1>1, <1>2, <1>3, <1>5

LEMMA TailAhead ==
  ASSUME TypeOK, NEW r \in Runners, NEW fo, Receive(r, fo), NEW p \in Partitions,
         OutAhead(r, p), committed' = committed, pos' = pos,
         \A k \in 1 .. MaxOffset : <<p, k>> \in Batch(r)' => <<p, k>> \in Batch(r) \cup {fo}
  PROVE  OutAhead(r, p)'
  <1>1. /\ out[r][1] = fo /\ 1 \in 1 .. Len(out[r])
        /\ Len(out[r]) \in Nat \ {0} /\ Len(out'[r]) = Len(out[r]) - 1
        /\ \A i \in 1 .. Len(out'[r]) : i + 1 \in 1 .. Len(out[r]) /\ out'[r][i] = out[r][i + 1]
    BY OutShifts
  <1> SUFFICES ASSUME NEW i \in 1 .. Len(out'[r]), NEW o \in 1 .. MaxOffset,
                      out'[r][i] = <<p, o>>
               PROVE  /\ committed[p] < o /\ o <= pos[p]
                      /\ \A k \in 1 .. MaxOffset : <<p, k>> \in Batch(r)' => k < o
                      /\ \A j \in 1 .. i - 1, k \in 1 .. MaxOffset :
                           out'[r][j] = <<p, k>> => k < o
    BY DEF OutAhead
  <1>2. /\ i + 1 \in 1 .. Len(out[r]) /\ out[r][i + 1] = <<p, o>>
        /\ \A j \in 1 .. i - 1 : j + 1 \in 1 .. (i + 1) - 1 /\ out'[r][j] = out[r][j + 1]
        /\ 1 \in 1 .. (i + 1) - 1
    <2>1. i + 1 \in 1 .. Len(out[r]) /\ out[r][i + 1] = <<p, o>>
      BY <1>1
    <2>2. \A j \in 1 .. i - 1 : j \in 1 .. Len(out'[r]) /\ j + 1 \in 1 .. (i + 1) - 1
      BY <1>1
    <2>3. 1 \in 1 .. (i + 1) - 1
      BY <1>1
    <2> QED BY <1>1, <2>1, <2>2, <2>3
  <1>3. /\ committed[p] < o /\ o <= pos[p]
        /\ \A k \in 1 .. MaxOffset : <<p, k>> \in Batch(r) => k < o
        /\ \A j \in 1 .. (i + 1) - 1, k \in 1 .. MaxOffset : out[r][j] = <<p, k>> => k < o
    BY <1>2 DEF OutAhead
  <1>4. \A k \in 1 .. MaxOffset : <<p, k>> = fo => k < o
    BY <1>1, <1>2, <1>3
  <1> QED BY <1>2, <1>3, <1>4

LEMMA HandleErrorStays ==
  ASSUME IndInv, NEW r \in Runners, Stays(r), HandleError(r)
  PROVE  Stays(r)'
  <1>1. TypeOK /\ Receive(r, Err)
    BY DEF IndInv, HandleError
  <1>2. UNCHANGED <<rpc, cancelled, buf, owner, committed, pos>>
    BY DEF HandleError, Stays, groupVars
  <1>3. Batch(r)' = Batch(r)
    BY <1>2 DEF Batch
  <1>4. OwnOnly(r)'
    <2>1. \A m : InOut(r, m)' => InOut(r, m)
      BY <1>1, OutShifts
    <2> QED BY <1>2, <1>3, <2>1 DEF Stays, OwnOnly, InHand, InBatch
  <1>5. ASSUME NEW p \in Partitions, owner'[p] = r PROVE Ahead(r, p)'
    <2>1. Ahead(r, p)
      BY <1>2, <1>5 DEF Stays
    <2>2. OutAhead(r, p)'
      BY <1>1, <1>2, <1>3, <2>1, TailAhead DEF Ahead
    <2> QED BY <1>2, <1>3, <2>1, <2>2 DEF Ahead, BatchAhead
  <1> QED BY <1>2, <1>4, <1>5 DEF Stays

LEMMA HandleEventStays ==
  ASSUME IndInv, NEW r \in Runners, Stays(r), HandleEvent(r)
  PROVE  Stays(r)'
  <1>1. PICK m \in Messages : /\ Receive(r, m)
                              /\ buf' = [buf EXCEPT ![r] = Append(buf[r], m)]
                              /\ rpc'[r] \in {"write", "select"}
                              /\ UNCHANGED <<cancelled, owner, committed, pos>>
    BY DEF HandleEvent, IndInv, TypeOK, Goto, groupVars
  <1>2. TypeOK
    BY DEF IndInv
  <1>3. Batch(r)' = Batch(r) \cup {m}
    BY <1>1, <1>2, BatchAppend DEF TypeOK
  <1>4. /\ out[r][1] = m /\ 1 \in 1 .. Len(out[r])
        /\ \A x : InOut(r, x)' => InOut(r, x)
    BY <1>1, <1>2, OutShifts
  <1>5. InOut(r, m)
    BY <1>2, <1>4, HandTypes
  <1>6. OwnOnly(r)'
    BY <1>1, <1>3, <1>4, <1>5 DEF Stays, OwnOnly, InHand, InBatch
  <1>7. ASSUME NEW p \in Partitions, owner'[p] = r PROVE Ahead(r, p)'
    <2>1. Ahead(r, p)
      BY <1>1, <1>7 DEF Stays
    <2>2. OutAhead(r, p)'
      BY <1>1, <1>2, <1>3, <2>1, TailAhead DEF Ahead
    <2>3. BatchAhead(r, p)'
      <3> SUFFICES ASSUME NEW o \in 1 .. MaxOffset, <<p, o>> \in Batch(r)'
                   PROVE  /\ o <= pos[p]
                          /\ \E k \in 1 .. MaxOffset : k >= committed[p] /\ <<p, k>> \in Batch(r)'
        BY <1>1 DEF BatchAhead
      <3>1. CASE <<p, o>> \in Batch(r)
        BY <1>3, <2>1, <3>1 DEF Ahead, BatchAhead
      <3>2. CASE <<p, o>> = m
        <4>1. committed[p] < o /\ o <= pos[p]
          BY <1>4, <2>1, <3>2 DEF Ahead, OutAhead
        <4>2. o >= committed[p]
          BY <1>2, <4>1, HandTypes
        <4> QED BY <4>1, <4>2
      <3> QED BY <1>3, <3>1, <3>2
    <2> QED BY <1>1, <2>1, <2>2, <2>3 DEF Ahead
  <1> QED BY <1>1, <1>6, <1>7 DEF Stays, Staying

\* What the commit of a batch does to the offsets.
LEMMA CommitMoves ==
  ASSUME IndInv, NEW r \in Runners, Stays(r), NEW mark \in Marks(Batch(r)),
         NEW p \in Partitions
  PROVE  /\ mark[p] \in 0 .. MaxOffset /\ mark[p] >= committed[p]
         /\ owner[p] # r => mark[p] = committed[p]
         /\ \A o \in 1 .. MaxOffset : <<p, o>> \in Batch(r) => <<p, mark[p]>> \in Batch(r)
         /\ \/ mark[p] = committed[p]
            \/ mark[p] \in 1 .. MaxOffset /\ <<p, mark[p]>> \in Batch(r)
  <1>1. /\ Batch(r) \subseteq Messages
        /\ committed[p] \in 0 .. MaxOffset /\ pos[p] \in 0 .. MaxOffset
    BY HandTypes DEF IndInv
  <1>2. /\ mark[p] \in 0 .. MaxOffset
        /\ \/ <<p, mark[p]>> \in Batch(r)
           \/ mark[p] = committed[p] /\ \A o \in Offsets : <<p, o>> \notin Batch(r)
        /\ \A o \in Offsets : <<p, o>> \in Batch(r) => o <= mark[p]
    BY DEF Marks, Offsets
  <1>3. \A o \in 1 .. MaxOffset : o \in Offsets
    BY DEF Offsets
  <1>4. CASE <<p, mark[p]>> \in Batch(r)
    <2>1. mark[p] \in 1 .. MaxOffset /\ <<p, mark[p]>> \in Messages
      BY <1>1, <1>4 DEF Messages
    <2>2. owner[p] = r
      BY <1>4, <2>1 DEF Stays, OwnOnly, InHand, InBatch
    <2>3. PICK k \in 1 .. MaxOffset : k >= committed[p] /\ <<p, k>> \in Batch(r)
      BY <1>4, <2>1, <2>2 DEF Stays, Ahead, BatchAhead
    <2>4. k <= mark[p]
      BY <1>2, <1>3, <2>3
    <2> QED BY <1>1, <1>2, <1>4, <2>1, <2>2, <2>3, <2>4
  <1>5. CASE mark[p] = committed[p] /\ \A o \in Offsets : <<p, o>> \notin Batch(r)
    BY <1>1, <1>2, <1>3, <1>5
  <1> QED BY <1>2, <1>4, <1>5

\* A commit, whether the broker has the offsets or not, and whether the batch is
\* cleared after it or kept.
LEMMA CommitStays ==
  ASSUME IndInv, NEW r \in Runners, Stays(r), CommitSucceeds(r) \/ CommitFails(r)
  PROVE  Stays(r)'
  <1>1. /\ UNCHANGED <<out, owner, pos, cancelled>> /\ rpc'[r] \in Staying
        /\ committed' = committed \/ committed' \in Marks(Batch(r))
        /\ \/ buf'[r] = buf[r]
           \/ buf'[r] = <<>>
    BY DEF CommitSucceeds, CommitFails, EndFlush, Final, Goto, Stays, Staying, IndInv, TypeOK
  <1>2. TypeOK
    BY DEF IndInv
  <1>3. Batch(r)' = Batch(r) \/ Batch(r)' = {}
    BY <1>1 DEF Batch
  <1>4. OwnOnly(r)'
    BY <1>1, <1>3 DEF Stays, OwnOnly, InHand, InBatch, InOut
  <1>5. ASSUME NEW p \in Partitions, owner'[p] = r PROVE Ahead(r, p)'
    <2>1. Ahead(r, p)
      BY <1>1, <1>5 DEF Stays
    <2>2. committed[p] \in 0 .. MaxOffset /\ pos[p] \in 0 .. MaxOffset
      BY <1>2, HandTypes
    <2>3. \/ committed'[p] = committed[p]
          \/ committed'[p] \in 1 .. MaxOffset /\ <<p, committed'[p]>> \in Batch(r)
      BY <1>1, CommitMoves
    <2>4. committed'[p] <= pos[p]
      BY <2>1, <2>3 DEF Ahead, BatchAhead
    <2>5. OutAhead(r, p)'
      BY <1>1, <1>3, <2>1, <2>3 DEF Ahead, OutAhead
    <2>6. BatchAhead(r, p)'
      <3> SUFFICES ASSUME NEW o \in 1 .. MaxOffset, <<p, o>> \in Batch(r)'
                   PROVE  /\ o <= pos[p]
                          /\ \E k \in 1 .. MaxOffset : k >= committed'[p] /\ <<p, k>> \in Batch(r)'
        BY <1>1 DEF BatchAhead
      <3>1. Batch(r)' = Batch(r) /\ <<p, o>> \in Batch(r)
        BY <1>3
      <3>2. o <= pos[p]
        BY <2>1, <3>1 DEF Ahead, BatchAhead
      <3>3. CASE committed'[p] = committed[p]
        BY <2>1, <3>1, <3>2, <3>3 DEF Ahead, BatchAhead
      <3>4. CASE committed'[p] \in 1 .. MaxOffset /\ <<p, committed'[p]>> \in Batch(r)
        BY <3>1, <3>2, <3>4
      <3> QED BY <2>3, <3>3, <3>4
    <2> QED BY <1>1, <2>4, <2>5, <2>6 DEF Ahead
  <1> QED BY <1>1, <1>4, <1>5 DEF Stays

\* The group settles before anything was fetched.
LEMMA RebalanceCalm ==
  ASSUME IndInv, Calm, Rebalance, joining
  PROVE  Calm'
  <1>1. /\ joining' = FALSE /\ pos' = committed /\ UNCHANGED <<committed, buf, out, rpc, cancelled>>
    BY DEF Rebalance, NewGeneration, loopVars
  <1>2. TypeOK /\ \A p \in Partitions : owner[p] = None
    BY DEF IndInv, Calm
  <1>3. ASSUME NEW r \in Runners PROVE Stays(r)'
    <2>1. Stays(r) /\ Batch(r)' = Batch(r)
      BY <1>1 DEF Calm, Batch
    <2>2. ASSUME NEW m \in Messages PROVE ~InHand(r, m)
      <3>1. owner[m[1]] = None
        BY <1>2 DEF Messages
      <3> QED BY <2>1, <3>1, RunnerAssumption DEF Stays, OwnOnly
    <2>3. OwnOnly(r)'
      BY <1>1, <2>1, <2>2 DEF OwnOnly, InHand, InBatch, InOut
    <2>4. ASSUME NEW p \in Partitions PROVE Ahead(r, p)'
      <3>1. \A o \in 1 .. MaxOffset : <<p, o>> \in Messages
        BY DEF Messages
      <3>2. \A o \in 1 .. MaxOffset : <<p, o>> \notin Batch(r)'
        BY <2>1, <2>2, <3>1 DEF InHand, InBatch
      <3>3. \A i \in 1 .. Len(out[r]), o \in 1 .. MaxOffset : out[r][i] # <<p, o>>
        BY <1>2, <2>2, <3>1, HandTypes DEF InHand
      <3>4. committed'[p] <= pos'[p]
        BY <1>1, <1>2, HandTypes DEF TypeOK, Offsets
      <3>5. BatchAhead(r, p)'
        BY <3>2 DEF BatchAhead
      <3>6. OutAhead(r, p)'
        BY <1>1, <3>3 DEF OutAhead
      <3> QED BY <3>4, <3>5, <3>6 DEF Ahead
    <2> QED BY <1>1, <2>1, <2>3, <2>4 DEF Stays
  <1> QED BY <1>1, <1>3 DEF Calm

\* What a step of q changes for r.
LEMMA OtherStays ==
  ASSUME IndInv, NEW r \in Runners, NEW q \in Runners, q # r, Stays(r), Stays(q),
         poison = {},
         \/ FetchFails(q) \/ \E p \in Partitions : FetchMessage(q, p)
         \/ Loop(q) \/ Exit(q) \/ Start(q)
  PROVE  Stays(r)'
  <1> USE DEF groupVars, loopVars, Goto
  <1>1. rpc[q] \in Staying /\ ~HandlePoison(q)
    BY DEF Stays, HandlePoison
  <1>2. buf'[r] = buf[r] /\ out'[r] = out[r] /\ rpc'[r] = rpc[r] /\ UNCHANGED <<cancelled, owner>>
    BY <1>1 DEF FetchFails, FetchMessage, Fetched, Loop, ContextDone, Tick, HandleError, HandleEvent,
           Receive, BeginFlush, FinalFlush, EndFlush, PointAccepted, PointRefused, NextPoint,
           WriteFails, WriteReturns, WritesTried, CommitSucceeds, CommitFails, Exit,
           Start, Staying, IndInv, TypeOK
  <1>3. ASSUME NEW p \in Partitions, owner[p] = r
        PROVE  committed'[p] = committed[p] /\ pos'[p] = pos[p]
    <2>1. CASE \E s \in Partitions : FetchMessage(q, s)
      BY <1>3, <2>1 DEF FetchMessage, Fetched, IndInv, TypeOK
    <2>2. CASE CommitSucceeds(q) \/ CommitFails(q)
      <3>1. UNCHANGED pos /\ (committed' = committed \/ committed' \in Marks(Batch(q)))
        BY <2>2 DEF CommitSucceeds, CommitFails
      <3> QED BY <1>3, <3>1, CommitMoves
    <2>3. UNCHANGED <<committed, pos>> \/ CommitSucceeds(q) \/ CommitFails(q)
          \/ \E s \in Partitions : FetchMessage(q, s)
      BY <1>1 DEF FetchFails, Fetched, Loop, ContextDone, Tick, HandleError, HandleEvent,
             PointAccepted, PointRefused, NextPoint, WriteFails, WriteReturns, Exit, Start, Staying
    <2> QED BY <2>1, <2>2, <2>3
  <1> QED BY <1>2, <1>3, StaysFrame DEF Stays

LEMMA OwnStays ==
  ASSUME IndInv, NEW r \in Runners, Stays(r), poison = {},
         \/ FetchFails(r) \/ \E p \in Partitions : FetchMessage(r, p)
         \/ Loop(r) \/ Exit(r) \/ Start(r)
  PROVE  Stays(r)'
  <1>1. CASE \E p \in Partitions : FetchMessage(r, p)
    BY <1>1, FetchStays
  <1>2. CASE HandleError(r)
    BY <1>2, HandleErrorStays
  <1>3. CASE HandleEvent(r)
    BY <1>3, HandleEventStays
  <1>4. CASE CommitSucceeds(r) \/ CommitFails(r)
    BY <1>4, CommitStays
  <1>5. CASE Tick(r) \/ PointAccepted(r) \/ PointRefused(r) \/ WriteFails(r) \/ WriteReturns(r)
    <2>1. /\ UNCHANGED <<buf, out, owner, committed, pos, cancelled>>
          /\ rpc'[r] \in Staying
      BY <1>5 DEF Tick, BeginFlush, PointAccepted, PointRefused, NextPoint, WriteFails, WriteReturns,
                  EndFlush, Final, Goto, Stays, Staying, groupVars, IndInv, TypeOK
    <2> QED BY <2>1, StaysFrame DEF Stays
  <1>6. CASE FetchFails(r)
    <2>1. /\ UNCHANGED <<buf, rpc, owner, committed, pos, cancelled>>
          /\ out' = [out EXCEPT ![r] = Append(out[r], Err)]
      BY <1>6 DEF FetchFails, Fetched
    <2>2. /\ Len(out[r]) \in Nat /\ Len(out'[r]) = Len(out[r]) + 1
          /\ out'[r][Len(out[r]) + 1] = Err
          /\ \A i \in 1 .. Len(out[r]) : out'[r][i] = out[r][i]
          /\ out'[r] \in Seq(Messages \cup {Err})
      <3>1. out[r] \in Seq(Messages \cup {Err}) /\ out'[r] = Append(out[r], Err)
        BY <2>1 DEF IndInv, TypeOK
      <3> QED BY <3>1, AppendFacts
    <2>3. Batch(r)' = Batch(r)
      BY <2>1 DEF Batch
    <2>4. \A m \in Messages : m # Err
      BY RunnerAssumption DEF Messages
    <2>5. \A i \in 1 .. Len(out'[r]) :
            out'[r][i] \in Messages => i \in 1 .. Len(out[r]) /\ out[r][i] = out'[r][i]
      <3> SUFFICES ASSUME NEW i \in 1 .. Len(out'[r]), out'[r][i] \in Messages
                   PROVE  i \in 1 .. Len(out[r]) /\ out[r][i] = out'[r][i]
        OBVIOUS
      <3>1. i # Len(out[r]) + 1
        BY <2>2, <2>4
      <3> QED BY <2>2, <3>1
    <2>6. \A m \in Messages : InOut(r, m)' => InOut(r, m)
      <3>1. DOMAIN out'[r] = 1 .. Len(out'[r])
        BY <2>2
      <3> QED BY <2>5, <3>1, HandTypes DEF InOut, IndInv
    <2>7. OwnOnly(r)'
      BY <2>1, <2>3, <2>6 DEF Stays, OwnOnly, InHand, InBatch
    <2>8. ASSUME NEW p \in Partitions, owner'[p] = r PROVE Ahead(r, p)'
      <3>1. Ahead(r, p)
        BY <2>1, <2>8 DEF Stays
      <3>2. \A o \in 1 .. MaxOffset : <<p, o>> \in Messages
        BY DEF Messages
      <3>3. \A i \in 1 .. Len(out'[r]), o \in 1 .. MaxOffset :
              out'[r][i] = <<p, o>> => i \in 1 .. Len(out[r]) /\ out[r][i] = <<p, o>>
        BY <2>5, <3>2
      <3>4. \A i \in 1 .. Len(out[r]) : \A j \in 1 .. i - 1 : j \in 1 .. Len(out'[r])
        BY <2>2
      <3>5. OutAhead(r, p)'
        BY <2>1, <2>3, <3>1, <3>3, <3>4 DEF Ahead, OutAhead
      <3>6. BatchAhead(r, p)'
        BY <2>1, <2>3, <3>1 DEF Ahead, BatchAhead
      <3> QED BY <2>1, <3>1, <3>5, <3>6 DEF Ahead
    <2> QED BY <2>1, <2>7, <2>8 DEF Stays
  <1>7. ~ContextDone(r) /\ ~HandlePoison(r) /\ ~Exit(r) /\ ~Start(r)
    BY DEF ContextDone, HandlePoison, Exit, Start, Stays, Staying
  <1> QED BY <1>1, <1>2, <1>3, <1>4, <1>5, <1>6, <1>7 DEF Loop

LEMMA NextCalm == IndInv /\ CalmInv /\ [Next]_vars => CalmInv'
  <1> SUFFICES ASSUME IndInv, CalmInv, [Next]_vars PROVE CalmInv'
    OBVIOUS
  <1>1. poison' = {}
    BY Footprint DEF CalmInv
  <1> SUFFICES ASSUME stops' = 0 PROVE Calm'
    BY <1>1 DEF CalmInv
  <1>2. stops \in Nat
    BY RunnerAssumption DEF IndInv, TypeOK
  <1>3. CASE Rebalance
    <2>1. joining /\ stops = 0
      BY <1>2, <1>3 DEF Rebalance, NewGeneration
    <2> QED BY <1>3, <2>1, RebalanceCalm DEF CalmInv
  <1>4. ASSUME NEW q \in Runners,
               \/ FetchFails(q) \/ \E p \in Partitions : FetchMessage(q, p)
               \/ Loop(q) \/ Exit(q) \/ Start(q)
        PROVE  Calm'
    <2>1. stops = 0
      BY <1>4 DEF FetchFails, FetchMessage, Fetched, Loop, ContextDone, Tick, HandleError,
             HandleEvent, HandlePoison, PointAccepted, PointRefused, NextPoint, WriteFails,
             WriteReturns, CommitSucceeds, CommitFails, Exit, Start
    <2>2. Stays(q) /\ poison = {} /\ Calm
      BY <2>1 DEF CalmInv, Calm
    <2>3. UNCHANGED <<joining, owner>>
      BY <1>4, <2>2 DEF FetchFails, FetchMessage, Fetched, Loop, ContextDone, Tick, HandleError,
             HandleEvent, HandlePoison, PointAccepted, PointRefused, NextPoint, WriteFails,
             WriteReturns, CommitSucceeds, CommitFails, Exit, Start, Stays, Staying, groupVars
    <2>4. ASSUME NEW r \in Runners PROVE Stays(r)'
      <3>1. Stays(r)
        BY <2>2 DEF Calm
      <3>2. CASE r = q
        BY <1>4, <2>2, <3>2, OwnStays
      <3>3. CASE r # q
        BY <1>4, <2>2, <3>1, <3>3, OtherStays
      <3> QED BY <3>2, <3>3
    <2> QED BY <2>2, <2>3, <2>4 DEF Calm
  <1>5. ASSUME NEW q \in Runners, Crash(q) \/ Signal(q) PROVE FALSE
    BY <1>2, <1>5 DEF Crash, Signal
  <1>6. CASE UNCHANGED vars
    <2>1. Calm /\ UNCHANGED <<joining, owner, committed, pos, buf, out, rpc, cancelled>>
      BY <1>6 DEF vars, groupVars, loopVars, CalmInv
    <2>2. ASSUME NEW r \in Runners PROVE Stays(r)'
      BY <2>1, StaysFrame DEF Calm, Stays
    <2> QED BY <2>1, <2>2 DEF Calm
  <1> QED BY <1>3, <1>4, <1>5, <1>6 DEF Next

\* Where every message unmarshals no offset goes back before the first stop:
\* the batch of a replica ends at or after the offset it commits over, even when
\* an earlier commit reached the broker and its answer did not (Run, flush).
THEOREM OffsetsOnlyAdvance ==
  ASSUME "poison" \notin Faults PROVE Spec => OffsetsAdvance
  <1>1. Init => CalmInv
    BY InitCalm
  <1>2. IndInv /\ CalmInv /\ [Next]_vars => CalmInv'
    BY NextCalm
  <1>3. ASSUME IndInv, CalmInv, [Next]_vars, stops = 0, NEW p \in Partitions
        PROVE  committed'[p] >= committed[p]
    <2>1. committed[p] \in 0 .. MaxOffset
      BY <1>3 DEF IndInv, TypeOK, Offsets
    <2>2. \/ committed' = committed
          \/ \E r \in Runners : CommitSucceeds(r) \/ CommitFails(r)
      <3>1. \A r \in Runners : ~HandlePoison(r)
        BY <1>3 DEF CalmInv, HandlePoison
      <3> QED BY <1>3, <3>1, Footprint
    <2>3. ASSUME NEW r \in Runners, CommitSucceeds(r) \/ CommitFails(r)
          PROVE  committed'[p] >= committed[p]
      <3>1. committed' = committed \/ committed' \in Marks(Batch(r))
        BY <2>3 DEF CommitSucceeds, CommitFails
      <3>2. Stays(r)
        BY <1>3 DEF CalmInv, Calm
      <3>3. \A mark \in Marks(Batch(r)) : mark[p] >= committed[p]
        BY <1>3, <3>2, CommitMoves
      <3>4. committed[p] >= committed[p]
        BY <2>1
      <3> QED BY <3>1, <3>3, <3>4
    <2> QED BY <2>1, <2>2, <2>3
  <1>4. IndInv /\ CalmInv /\ [Next]_vars =>
          [stops = 0 => \A p \in Partitions : committed'[p] >= committed[p]]_vars
    BY <1>3
  <1> QED BY <1>1, <1>2, <1>4, Inductive, PTL DEF Spec, OffsetsAdvance

=============================================================================

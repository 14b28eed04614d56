----------------------------- MODULE RunnerProofs -----------------------------
(***************************************************************************)
(* Safety of the processor for any number of replicas, partitions and      *)
(* messages, any BatchMax and any combination of faults.                   *)
(***************************************************************************)
EXTENDS Runner, SequenceTheorems, TLAPS

-----------------------------------------------------------------------------
(* Sequences.                                                               *)

LEMMA AppendFacts ==
  ASSUME NEW S, NEW s \in Seq(S), NEW e \in S
  PROVE  /\ Append(s, e) \in Seq(S) /\ Len(s) \in Nat
         /\ Len(Append(s, e)) = Len(s) + 1
         /\ \A i \in 1 .. Len(s) : Append(s, e)[i] = s[i]
         /\ Append(s, e)[Len(s) + 1] = e
  BY SMT

LEMMA TailFacts ==
  ASSUME NEW S, NEW s \in Seq(S), s # <<>>
  PROVE  /\ Head(s) \in S /\ Head(s) = s[1]
         /\ Tail(s) \in Seq(S) /\ Len(s) \in Nat \ {0}
         /\ Len(Tail(s)) = Len(s) - 1
         /\ \A i \in 1 .. Len(s) - 1 : Tail(s)[i] = s[i + 1]
  BY SMT

-----------------------------------------------------------------------------
(* Type correctness.                                                        *)

LEMMA InitTypeOK == Init => TypeOK
  <1> SUFFICES ASSUME Init PROVE TypeOK
    OBVIOUS
  <1>1. poison \subseteq Messages
    BY DEF Init
  <1>2. 0 \in Offsets /\ 0 \in 0 .. MaxStops
    BY RunnerAssumption DEF Offsets
  <1>3. /\ out \in [Runners -> Seq(Messages \cup {Err})]
        /\ buf \in [Runners -> Seq(Messages)]
    BY DEF Init
  <1> QED BY <1>1, <1>2, <1>3 DEF Init, TypeOK

\* A fetch, of a message or of an error, appends one outcome.
LEMMA FetchTypeOK ==
  ASSUME TypeOK, NEW r \in Runners,
         FetchFails(r) \/ \E p \in Partitions : FetchMessage(r, p)
  PROVE  TypeOK'
  <1>1. PICK fo \in Messages \cup {Err} :
          out' = [out EXCEPT ![r] = Append(@, fo)] /\ pos' \in [Partitions -> Offsets]
    <2>1. CASE FetchFails(r)
      BY <2>1 DEF FetchFails, Fetched, TypeOK
    <2>2. ASSUME NEW p \in Partitions, FetchMessage(r, p)
          PROVE  \E fo \in Messages \cup {Err} :
                   out' = [out EXCEPT ![r] = Append(@, fo)] /\ pos' \in [Partitions -> Offsets]
      <3>1. pos[p] + 1 \in 1 .. MaxOffset /\ pos[p] + 1 \in Offsets
        BY <2>2, RunnerAssumption DEF FetchMessage, TypeOK, Offsets
      <3> QED BY <2>2, <3>1 DEF FetchMessage, Fetched, TypeOK, Messages
    <2> QED BY <2>1, <2>2
  <1>2. out' \in [Runners -> Seq(Messages \cup {Err})]
    BY <1>1 DEF TypeOK
  <1> QED BY <1>1, <1>2 DEF TypeOK, FetchFails, FetchMessage, Fetched, storageVars

\* The cases of the select that take an outcome.
LEMMA ReceiveTypeOK ==
  ASSUME TypeOK, NEW r \in Runners, NEW fo, Receive(r, fo)
  PROVE  out' \in [Runners -> Seq(Messages \cup {Err})]
  <1>1. Tail(out[r]) \in Seq(Messages \cup {Err})
    BY TailFacts DEF TypeOK, Receive
  <1> QED BY <1>1 DEF TypeOK, Receive

LEMMA BatchType ==
  ASSUME TypeOK, NEW r \in Runners
  PROVE  Batch(r) \subseteq Messages
  <1>1. buf[r] \in Seq(Messages)
    BY DEF TypeOK
  <1> QED BY <1>1 DEF Batch

LEMMA MarksType == \A B : Marks(B) \subseteq [Partitions -> Offsets]
  BY DEF Marks

LEMMA LoopTypeOK ==
  ASSUME TypeOK, NEW r \in Runners, Loop(r) PROVE TypeOK'
  <1>1. CASE ContextDone(r) \/ Tick(r)
    BY <1>1 DEF TypeOK, ContextDone, Tick, BeginFlush, FinalFlush, Goto, Flushing, Writing,
                groupVars, storageVars
  <1>2. CASE HandleError(r)
    BY <1>2, ReceiveTypeOK DEF TypeOK, HandleError, FinalFlush, Goto, Flushing, Writing,
                               groupVars, storageVars
  <1>3. CASE HandleEvent(r)
    <2>1. PICK m \in Messages \ poison :
            /\ Receive(r, m)
            /\ buf' = [buf EXCEPT ![r] = Append(@, m)]
            /\ Goto(r, IF Len(buf'[r]) >= BatchMax THEN "write" ELSE "select")
      BY <1>3 DEF HandleEvent
    <2>2. buf' \in [Runners -> Seq(Messages)]
      BY <2>1 DEF TypeOK
    <2>3. rpc' \in [Runners -> {"down", "select", "returned"} \cup Flushing]
      BY <2>1 DEF TypeOK, Goto, Flushing, Writing
    <2> QED BY <1>3, <2>1, <2>2, <2>3, ReceiveTypeOK
            DEF TypeOK, HandleEvent, groupVars, storageVars
  <1>4. CASE HandlePoison(r)
    <2>1. PICK m \in poison : Receive(r, m)
      BY <1>4 DEF HandlePoison
    <2>2. out' \in [Runners -> Seq(Messages \cup {Err})]
      BY <2>1, ReceiveTypeOK
    <2>3. rpc' \in [Runners -> {"down", "select", "returned"} \cup Flushing]
      BY <1>4 DEF TypeOK, HandlePoison, Goto
    <2>4. committed' \in [Partitions -> Offsets] /\ passed' \subseteq Messages
      BY <1>4, MarksType DEF TypeOK, HandlePoison, CommitPoison, Behind
    <2> QED BY <1>4, <2>2, <2>3, <2>4 DEF TypeOK, HandlePoison
  <1>5. CASE PointAccepted(r) \/ PointRefused(r)
    <2>1. tried' \in [Runners -> Nat]
      BY <1>5 DEF TypeOK, PointAccepted, PointRefused, NextPoint
    <2>2. written' \in [Runners -> BOOLEAN]
      <3>1. written' = written \/ written' = [written EXCEPT ![r] = TRUE]
        BY <1>5 DEF PointAccepted, PointRefused
      <3> QED BY <3>1 DEF TypeOK
    <2>3. stored' \subseteq Messages
      BY <1>5 DEF TypeOK, PointAccepted, PointRefused
    <2>4. UNCHANGED <<poison, groupVars, rpc, cancelled, out, buf, refused, passed, failed, stops>>
      BY <1>5 DEF PointAccepted, PointRefused, NextPoint
    <2> QED BY <2>1, <2>2, <2>3, <2>4 DEF TypeOK, groupVars
  <1>6. CASE WriteFails(r) \/ WriteReturns(r)
    <2>1. Batch(r) \subseteq Messages
      BY BatchType
    <2>2. WritesTried(r)
      BY <1>6 DEF WriteFails, WriteReturns
    <2>3. tried' \in [Runners -> Nat] /\ written' \in [Runners -> BOOLEAN]
      BY <2>2 DEF TypeOK, WritesTried
    <2>4. rpc' \in [Runners -> {"down", "select", "returned"} \cup Flushing]
      BY <1>6 DEF TypeOK, WriteFails, WriteReturns, EndFlush, Goto, Flushing, Committing
    <2>5. failed' = failed \/ failed' = [failed EXCEPT ![r] = TRUE]
      BY <1>6 DEF WriteFails, WriteReturns
    <2>6. failed' \in [Runners -> BOOLEAN]
      BY <2>5 DEF TypeOK
    <2>7. refused' \subseteq Messages
      BY <1>6, <2>1 DEF TypeOK, WriteFails, WriteReturns, storageVars
    <2>8. UNCHANGED <<poison, groupVars, cancelled, out, buf, stored, passed, stops>>
      BY <1>6 DEF WriteFails, WriteReturns, storageVars
    <2> QED BY <2>3, <2>4, <2>6, <2>7, <2>8 DEF TypeOK, groupVars
  <1>7. CASE CommitSucceeds(r) \/ CommitFails(r)
    <2>1. committed' \in [Partitions -> Offsets]
      <3>1. committed' \in Marks(Batch(r)) \cup {committed}
        BY <1>7 DEF CommitSucceeds, CommitFails
      <3> QED BY <3>1, MarksType DEF TypeOK
    <2>2. buf' \in [Runners -> Seq(Messages)]
      <3>1. buf' = buf \/ buf' = [buf EXCEPT ![r] = <<>>]
        BY <1>7 DEF CommitSucceeds, CommitFails
      <3>2. buf \in [Runners -> Seq(Messages)] /\ <<>> \in Seq(Messages)
        BY EmptySeq DEF TypeOK
      <3> QED BY ONLY <3>1, <3>2
    <2>3. rpc' \in [Runners -> {"down", "select", "returned"} \cup Flushing]
      <3>1. EndFlush(r)
        BY <1>7 DEF CommitSucceeds, CommitFails
      <3> QED BY <3>1 DEF TypeOK, EndFlush, Goto
    <2>4. \E f \in BOOLEAN : failed' = [failed EXCEPT ![r] = f]
      BY <1>7 DEF CommitSucceeds, CommitFails
    <2>5. failed' \in [Runners -> BOOLEAN]
      BY <2>4 DEF TypeOK
    <2>6. UNCHANGED <<poison, owner, pos, joining, cancelled, out, tried, written, storageVars, stops>>
      BY <1>7 DEF CommitSucceeds, CommitFails
    <2> QED BY <2>1, <2>2, <2>3, <2>5, <2>6 DEF TypeOK, storageVars
  <1> QED BY <1>1, <1>2, <1>3, <1>4, <1>5, <1>6, <1>7 DEF Loop

\* Exit, Crash, Signal and Start of a replica, and the group.
LEMMA LifeTypeOK ==
  ASSUME TypeOK,
         Rebalance \/ \E r \in Runners : Exit(r) \/ Crash(r) \/ Signal(r) \/ Start(r)
  PROVE  TypeOK'
  <1>1. MaxStops \in Nat /\ stops \in 0 .. MaxStops
    BY RunnerAssumption DEF TypeOK
  <1>2. stops < MaxStops => stops + 1 \in 0 .. MaxStops
    BY <1>1
  <1>3. ASSUME NEW r \in Runners, Exit(r) \/ Crash(r) PROVE TypeOK'
    <2>1. Gone(r) /\ stops' \in 0 .. MaxStops
      BY <1>1, <1>2, <1>3 DEF Exit, Crash
    <2>2. /\ buf' \in [Runners -> Seq(Messages)]
          /\ out' \in [Runners -> Seq(Messages \cup {Err})]
      BY <2>1, EmptySeq DEF TypeOK, Gone
    <2> QED BY <2>1, <2>2 DEF TypeOK, Gone, Goto, storageVars
  <1>4. ASSUME NEW r \in Runners, Signal(r) \/ Start(r) PROVE TypeOK'
    BY <1>1, <1>2, <1>4 DEF TypeOK, Signal, Start, Goto, groupVars, loopVars, storageVars
  <1>5. CASE Rebalance
    <2>1. stops' \in 0 .. MaxStops /\ owner' \in [Partitions -> Runners \cup {None}]
      BY <1>1, <1>2, <1>5 DEF Rebalance, NewGeneration
    <2> QED BY <1>5, <2>1 DEF TypeOK, Rebalance, NewGeneration, loopVars, storageVars
  <1> QED BY <1>3, <1>4, <1>5

LEMMA NextTypeOK == TypeOK /\ [Next]_vars => TypeOK'
  <1>1. TypeOK /\ UNCHANGED vars => TypeOK'
    BY DEF TypeOK, vars, groupVars, loopVars, storageVars
  <1> QED BY <1>1, FetchTypeOK, LoopTypeOK, LifeTypeOK DEF Next

-----------------------------------------------------------------------------
(* What is settled stays settled.                                           *)

LEMMA BehindFacts ==
  ASSUME NEW mark \in [Partitions -> Offsets], NEW S
  PROVE  Behind(mark) \subseteq S
           <=> \A p \in Partitions : \A k \in 1 .. mark[p] : <<p, k>> \in S
  <1>1. ASSUME NEW p \in Partitions, NEW k \in 1 .. mark[p]
        PROVE  <<p, k>> \in Behind(mark)
    <2>1. mark[p] \in 0 .. MaxOffset
      BY DEF Offsets
    <2>2. k \in 1 .. MaxOffset /\ k <= mark[p]
      BY <2>1, RunnerAssumption
    <2> QED BY <2>2 DEF Behind, Messages
  <1>2. ASSUME NEW m \in Behind(mark)
        PROVE  \E p \in Partitions : \E k \in 1 .. mark[p] : m = <<p, k>>
    <2>1. PICK p \in Partitions, k \in 1 .. MaxOffset : m = <<p, k>>
      BY DEF Behind, Messages
    <2>2. k <= mark[p] /\ mark[p] \in 0 .. MaxOffset
      BY <2>1 DEF Behind, Offsets
    <2>3. k \in 1 .. mark[p]
      BY <2>2, RunnerAssumption
    <2> QED BY <2>1, <2>3
  <1> QED BY <1>1, <1>2

LEMMA SettledStays ==
  ASSUME [Next]_vars
  PROVE  stored \subseteq stored' /\ refused \subseteq refused' /\ passed \subseteq passed'
  <1>1. CASE UNCHANGED storageVars
    BY <1>1 DEF storageVars
  <1>2. ASSUME NEW r \in Runners, HandlePoison(r)
        PROVE  stored' = stored /\ refused' = refused /\ passed \subseteq passed'
    BY <1>2 DEF HandlePoison, CommitPoison
  <1>3. ASSUME NEW r \in Runners, PointAccepted(r) \/ PointRefused(r)
        PROVE  stored \subseteq stored' /\ refused' = refused /\ passed' = passed
    BY <1>3 DEF PointAccepted, PointRefused, NextPoint
  <1>4. ASSUME NEW r \in Runners, WriteReturns(r)
        PROVE  stored' = stored /\ refused \subseteq refused' /\ passed' = passed
    BY <1>4 DEF WriteReturns
  <1>5. UNCHANGED storageVars
        \/ \E r \in Runners : \/ HandlePoison(r) \/ WriteReturns(r)
                              \/ PointAccepted(r) \/ PointRefused(r)
    BY DEF Next, Loop, FetchMessage, FetchFails, Fetched, ContextDone, Tick, HandleError,
           HandleEvent, WriteFails, CommitSucceeds, CommitFails, Exit, Crash, Gone, Signal,
           Start, Rebalance, NewGeneration, vars
  <1> QED BY <1>1, <1>2, <1>3, <1>4, <1>5

-----------------------------------------------------------------------------
(* What a replica holds covers its offsets.                                 *)

\* The outcomes after a receive and after a fetch.
LEMMA OutTail ==
  ASSUME TypeOK, NEW r \in Runners, out[r] # <<>>, out'[r] = Tail(out[r])
  PROVE  /\ Len(out[r]) \in Nat \ {0} /\ Len(out'[r]) = Len(out[r]) - 1
         /\ \A i \in 1 .. Len(out'[r]) : out'[r][i] = out[r][i + 1]
         /\ \A i \in 0 .. Len(out'[r]) :
              Outcomes(r, i + 1) \subseteq Outcomes(r, i)' \cup {Head(out[r])}
  <1>1. out[r] \in Seq(Messages \cup {Err})
    BY DEF TypeOK
  <1>2. /\ Len(out[r]) \in Nat \ {0} /\ Len(out'[r]) = Len(out[r]) - 1
        /\ \A i \in 1 .. Len(out'[r]) : out'[r][i] = out[r][i + 1]
        /\ Head(out[r]) = out[r][1]
    BY <1>1, TailFacts
  <1>3. ASSUME NEW i \in 0 .. Len(out'[r]), NEW j \in 1 .. i + 1
        PROVE  out[r][j] \in Outcomes(r, i)' \cup {Head(out[r])}
    <2>1. CASE j = 1
      BY <1>2, <2>1
    <2>2. CASE j # 1
      <3>1. j - 1 \in 1 .. i /\ j - 1 \in 1 .. Len(out'[r]) /\ (j - 1) + 1 = j
        BY <1>2, <2>2
      <3>2. out'[r][j - 1] = out[r][j]
        BY <1>2, <3>1
      <3> QED BY <3>1, <3>2 DEF Outcomes
    <2> QED BY <2>1, <2>2
  <1> QED BY <1>2, <1>3 DEF Outcomes

LEMMA OutAppend ==
  ASSUME TypeOK, NEW r \in Runners, NEW fo \in Messages \cup {Err},
         out'[r] = Append(out[r], fo)
  PROVE  /\ Len(out[r]) \in Nat /\ Len(out'[r]) = Len(out[r]) + 1
         /\ out'[r][Len(out[r]) + 1] = fo
         /\ \A i \in 1 .. Len(out[r]) : out'[r][i] = out[r][i]
         /\ \A i \in 0 .. Len(out[r]) : Outcomes(r, i)' = Outcomes(r, i)
         /\ \A n : n = Len(out[r]) + 1 =>
                   Outcomes(r, n)' = Outcomes(r, Len(out[r])) \cup {fo}
  <1>1. out[r] \in Seq(Messages \cup {Err})
    BY DEF TypeOK
  <1>2. /\ Len(out[r]) \in Nat /\ Len(out'[r]) = Len(out[r]) + 1
        /\ out'[r][Len(out[r]) + 1] = fo
        /\ \A i \in 1 .. Len(out[r]) : out'[r][i] = out[r][i]
    BY <1>1, AppendFacts
  <1>3. ASSUME NEW i \in 0 .. Len(out[r]) PROVE Outcomes(r, i)' = Outcomes(r, i)
    <2>1. \A j \in 1 .. i : j \in 1 .. Len(out[r])
      BY <1>2
    <2> QED BY <1>2, <2>1 DEF Outcomes
  <1>4. ASSUME NEW n, n = Len(out[r]) + 1
        PROVE  Outcomes(r, n)' = Outcomes(r, Len(out[r])) \cup {fo}
    <2>1. \A j : j \in 1 .. n <=> j \in 1 .. Len(out[r]) \/ j = n
      BY <1>2, <1>4
    <2>2. {out'[r][j] : j \in 1 .. n} = {out[r][j] : j \in 1 .. Len(out[r])} \cup {fo}
      BY <1>2, <1>4, <2>1
    <2> QED BY <2>2 DEF Outcomes
  <1> QED BY <1>2, <1>3, <1>4

\* Nothing of the batch vanishes unsettled: the batch stays covered.
LEMMA BatchStep ==
  ASSUME NEW r \in Runners, BatchCovered(r), Settled \subseteq Settled',
         Batch(r)' \subseteq Batch(r), Batch(r) \subseteq Settled' \cup Batch(r)'
  PROVE  BatchCovered(r)'
  BY DEF BatchCovered, Covered

\* Nor of the outcomes: they and the position stay covered.
LEMMA CoverStep ==
  ASSUME TypeOK, NEW r \in Runners, OutCovered(r), OwnedCovered(r),
         Settled \subseteq Settled', Batch(r) \subseteq Settled' \cup Batch(r)',
         UNCHANGED <<owner, pos>>,
         \/ out'[r] = out[r]
         \/ /\ out[r] # <<>> /\ out'[r] = Tail(out[r])
            /\ Head(out[r]) \in Settled' \cup Batch(r)' \cup {Err}
  PROVE  OutCovered(r)' /\ OwnedCovered(r)'
  <1>1. CASE out'[r] = out[r]
    <2>1. \A n : Outcomes(r, n)' = Outcomes(r, n)
      BY <1>1 DEF Outcomes
    <2> QED BY <1>1, <2>1 DEF OutCovered, OwnedCovered, Covered
  <1>2. CASE /\ out[r] # <<>> /\ out'[r] = Tail(out[r])
             /\ Head(out[r]) \in Settled' \cup Batch(r)' \cup {Err}
    <2>1. /\ Len(out[r]) \in Nat \ {0} /\ Len(out'[r]) = Len(out[r]) - 1
          /\ \A i \in 1 .. Len(out'[r]) : out'[r][i] = out[r][i + 1]
          /\ \A i \in 0 .. Len(out'[r]) :
               Outcomes(r, i + 1) \subseteq Outcomes(r, i)' \cup {Head(out[r])}
      BY <1>2, OutTail
    <2>2. ASSUME NEW p \in Partitions, NEW o \in Offsets, NEW i \in 0 .. Len(out'[r]),
                 Covered(r, Outcomes(r, i + 1), p, o)
          PROVE  \A k \in 1 .. o : <<p, k>> \in Settled' \cup Batch(r)' \cup Outcomes(r, i)'
      <3> SUFFICES ASSUME NEW k \in 1 .. o
                   PROVE  <<p, k>> \in Settled' \cup Batch(r)' \cup Outcomes(r, i)'
        OBVIOUS
      <3>1. <<p, k>> # Err
        <4>1. k \in 1 .. MaxOffset
          BY RunnerAssumption DEF Offsets
        <4> QED BY <4>1, RunnerAssumption
      <3>2. <<p, k>> \in Settled \cup Batch(r) \cup Outcomes(r, i + 1)
        BY <2>2 DEF Covered
      <3> QED BY <1>2, <2>1, <3>1, <3>2
    <2>3. OutCovered(r)'
      <3> SUFFICES ASSUME NEW i \in 1 .. Len(out'[r]), NEW p \in Partitions,
                          NEW o \in 1 .. MaxOffset, out'[r][i] = <<p, o>>
                   PROVE  \A k \in 1 .. o :
                            <<p, k>> \in Settled' \cup Batch(r)' \cup Outcomes(r, i)'
        BY DEF OutCovered, Covered
      <3>1. i + 1 \in 1 .. Len(out[r]) /\ i \in 0 .. Len(out'[r]) /\ o \in Offsets
        BY <2>1, RunnerAssumption DEF Offsets
      <3>2. Covered(r, Outcomes(r, i + 1), p, o)
        BY <2>1, <3>1 DEF OutCovered
      <3> QED BY <2>2, <3>1, <3>2
    <2>4. OwnedCovered(r)'
      <3> SUFFICES ASSUME NEW p \in Partitions, owner[p] = r
                   PROVE  \A k \in 1 .. pos[p] :
                            <<p, k>> \in Settled' \cup Batch(r)' \cup Outcomes(r, Len(out[r]))'
        BY DEF OwnedCovered, Covered
      <3>1. /\ pos[p] \in Offsets /\ Len(out'[r]) + 1 = Len(out[r])
            /\ Len(out'[r]) \in 0 .. Len(out'[r])
        BY <2>1 DEF TypeOK
      <3>2. Covered(r, Outcomes(r, Len(out'[r]) + 1), p, pos[p])
        BY <3>1 DEF OwnedCovered
      <3>3. Outcomes(r, Len(out[r]))' = {out'[r][i] : i \in 1 .. Len(out'[r])}
        BY DEF Outcomes
      <3>4. \A k \in 1 .. pos[p] :
              <<p, k>> \in Settled' \cup Batch(r)' \cup {out'[r][i] : i \in 1 .. Len(out'[r])}
        <4> DEFINE n == Len(out'[r])
        <4> HIDE DEF n
        <4>1. \A k \in 1 .. pos[p] : <<p, k>> \in Settled' \cup Batch(r)' \cup {out'[r][i] : i \in 1 .. n}
          BY <2>2, <3>1, <3>2 DEF n, Outcomes
        <4> QED BY <4>1 DEF n
      <3> QED BY <3>3, <3>4
    <2> QED BY <2>3, <2>4
  <1> QED BY <1>1, <1>2

-----------------------------------------------------------------------------
(* A step of one replica, seen by another.                                  *)

LEMMA ReplicaFrame ==
  ASSUME TypeOK, OnlyKnownLosses, NEW q \in Runners, ReplicaInv(q),
         buf'[q] = buf[q], out'[q] = out[q], rpc'[q] = rpc[q], failed'[q] = failed[q],
         stored \subseteq stored', refused \subseteq refused', passed \subseteq passed',
         \A p \in Partitions :
           owner'[p] = q => \/ owner[p] = q /\ pos'[p] = pos[p]
                            \/ rpc[q] # "down" /\ pos'[p] = committed[p]
  PROVE  ReplicaInv(q)'
  <1>1. Batch(q)' = Batch(q) /\ \A n : Outcomes(q, n)' = Outcomes(q, n)
    BY DEF Batch, Outcomes
  <1>2. Settled \subseteq Settled'
    BY DEF Settled
  <1>3. BatchCovered(q)'
    BY <1>1, <1>2, BatchStep DEF ReplicaInv
  <1>4. SettledFirst(q)' /\ DownIsEmpty(q)' /\ FlushedWhenFull(q)'
    BY <1>1 DEF ReplicaInv, SettledFirst, DownIsEmpty, FlushedWhenFull
  <1>5. ASSUME rpc'[q] # "returned" PROVE OutCovered(q)' /\ OwnedCovered(q)'
    <2>1. OutCovered(q) /\ OwnedCovered(q)
      BY <1>5 DEF ReplicaInv
    <2>2. OutCovered(q)'
      BY <1>1, <1>2, <2>1 DEF OutCovered, Covered
    <2>3. OwnedCovered(q)'
      <3> SUFFICES ASSUME NEW p \in Partitions, owner'[p] = q, NEW k \in 1 .. pos'[p]
                   PROVE  <<p, k>> \in Settled' \cup Batch(q)' \cup Outcomes(q, Len(out[q]))'
        BY DEF OwnedCovered, Covered
      <3>1. CASE owner[p] = q /\ pos'[p] = pos[p]
        <4>1. <<p, k>> \in Settled \cup Batch(q) \cup Outcomes(q, Len(out[q]))
          BY <2>1, <3>1 DEF OwnedCovered, Covered
        <4> QED BY <1>1, <1>2, <4>1 DEF Outcomes
      <3>2. CASE pos'[p] = committed[p]
        <4>1. committed \in [Partitions -> Offsets]
          BY DEF TypeOK
        <4>2. <<p, k>> \in Settled
          BY <3>2, <4>1, BehindFacts DEF OnlyKnownLosses
        <4> QED BY <1>2, <4>2
      <3> QED BY <3>1, <3>2
    <2> QED BY <2>2, <2>3
  <1> QED BY <1>3, <1>4, <1>5 DEF ReplicaInv

\* A step of r touches nothing of q but what is settled.
LEMMA OtherReplica ==
  ASSUME TypeOK, OnlyKnownLosses, NEW r \in Runners, NEW q \in Runners, q # r, ReplicaInv(q),
         stored \subseteq stored', refused \subseteq refused', passed \subseteq passed',
         \/ FetchFails(r) \/ \E p \in Partitions : FetchMessage(r, p)
         \/ Loop(r) \/ Exit(r) \/ Crash(r) \/ Signal(r) \/ Start(r)
  PROVE  ReplicaInv(q)'
  <1> USE DEF groupVars, loopVars, Goto
  <1>1. buf'[q] = buf[q]
    BY DEF FetchFails, FetchMessage, Fetched, Loop, ContextDone, Tick, HandleError, HandleEvent,
           HandlePoison, PointAccepted, PointRefused, NextPoint, WriteFails, WriteReturns,
           CommitSucceeds, CommitFails, Exit, Crash, Gone, Signal, Start, TypeOK
  <1>2. out'[q] = out[q]
    BY DEF FetchFails, FetchMessage, Fetched, Loop, ContextDone, Tick, HandleError, HandleEvent,
           HandlePoison, Receive, PointAccepted, PointRefused, NextPoint, WriteFails, WriteReturns,
           CommitSucceeds, CommitFails, Exit, Crash, Gone, Signal, Start, TypeOK
  <1>3. rpc'[q] = rpc[q]
    BY DEF FetchFails, FetchMessage, Fetched, Loop, ContextDone, Tick, HandleError, HandleEvent,
           HandlePoison, BeginFlush, FinalFlush, EndFlush, PointAccepted, PointRefused, NextPoint,
           WriteFails, WriteReturns, CommitSucceeds, CommitFails, Exit, Crash, Gone, Signal, Start,
           TypeOK
  <1>4. failed' = failed \/ failed' = [failed EXCEPT ![r] = TRUE]
        \/ failed' = [failed EXCEPT ![r] = FALSE]
    BY DEF FetchFails, FetchMessage, Fetched, Loop, ContextDone, Tick, HandleError, HandleEvent,
           HandlePoison, PointAccepted, PointRefused, NextPoint, WriteFails, WriteReturns,
           CommitSucceeds, CommitFails, Exit, Crash, Gone, Signal, Start
  <1>5. failed'[q] = failed[q]
    BY <1>4 DEF TypeOK
  <1>6. \A p \in Partitions : owner'[p] = q => owner[p] = q /\ pos'[p] = pos[p]
    <2>1. CASE UNCHANGED <<owner, pos>>
      BY <2>1
    <2>2. ASSUME NEW x \in Partitions, FetchMessage(r, x)
          PROVE  \A p \in Partitions : owner'[p] = q => owner[p] = q /\ pos'[p] = pos[p]
      BY <2>2 DEF FetchMessage, Fetched, TypeOK
    <2>3. CASE Gone(r)
      BY <2>3, RunnerAssumption DEF Gone, TypeOK
    <2> QED BY <2>1, <2>2, <2>3
            DEF FetchFails, Fetched, Loop, ContextDone, Tick, HandleError, HandleEvent,
                HandlePoison, PointAccepted, PointRefused, NextPoint, WriteFails, WriteReturns,
                CommitSucceeds, CommitFails, Exit, Crash, Signal, Start
  <1> QED BY <1>1, <1>2, <1>3, <1>5, <1>6, ReplicaFrame

-----------------------------------------------------------------------------
(* A step of one replica, seen by itself.                                   *)

LEMMA FetchStep ==
  ASSUME TypeOK, NEW r \in Runners, ReplicaInv(r),
         FetchFails(r) \/ \E p \in Partitions : FetchMessage(r, p)
  PROVE  ReplicaInv(r)'
  <1>1. /\ UNCHANGED <<rpc, buf, owner, failed, storageVars>>
        /\ rpc[r] \notin {"returned", "down"}
    BY DEF FetchFails, FetchMessage, Fetched, Fetching, Flushing, Writing, Committing
  <1>2. Batch(r)' = Batch(r) /\ Settled' = Settled
    BY <1>1 DEF Batch, Settled, storageVars
  <1>3. BatchCovered(r)' /\ SettledFirst(r)' /\ DownIsEmpty(r)' /\ FlushedWhenFull(r)'
    BY <1>1, <1>2 DEF ReplicaInv, BatchCovered, Covered, SettledFirst, DownIsEmpty,
                      FlushedWhenFull, storageVars
  <1>4. OutCovered(r) /\ OwnedCovered(r)
    BY <1>1 DEF ReplicaInv
  <1> DEFINE n == Len(out[r]) + 1
  <1>5. ASSUME NEW fo \in Messages \cup {Err}, out'[r] = Append(out[r], fo),
               \A p \in Partitions, o \in 1 .. MaxOffset :
                 fo = <<p, o>> => owner[p] = r /\ o = pos[p] + 1,
               \A p \in Partitions :
                 owner[p] = r => pos'[p] = pos[p] \/ (fo = <<p, pos'[p]>> /\ pos'[p] = pos[p] + 1)
        PROVE  ReplicaInv(r)'
    <2>1. /\ Len(out[r]) \in Nat /\ Len(out'[r]) = n /\ n \in Nat
          /\ out'[r][n] = fo
          /\ \A i \in 1 .. Len(out[r]) : out'[r][i] = out[r][i]
          /\ \A i \in 0 .. Len(out[r]) : Outcomes(r, i)' = Outcomes(r, i)
          /\ \A i : i = n => Outcomes(r, i)' = Outcomes(r, Len(out[r])) \cup {fo}
      <3>1. /\ Len(out[r]) \in Nat /\ Len(out'[r]) = Len(out[r]) + 1
            /\ out'[r][Len(out[r]) + 1] = fo
            /\ \A i \in 1 .. Len(out[r]) : out'[r][i] = out[r][i]
            /\ \A i \in 0 .. Len(out[r]) : Outcomes(r, i)' = Outcomes(r, i)
            /\ \A i : i = Len(out[r]) + 1 =>
                        Outcomes(r, i)' = Outcomes(r, Len(out[r])) \cup {fo}
        BY <1>5, OutAppend
      <3> QED BY <3>1
    <2>2. pos \in [Partitions -> Offsets]
      BY DEF TypeOK
    <2>3. ASSUME NEW p \in Partitions, owner[p] = r, NEW k \in 1 .. pos[p]
          PROVE  <<p, k>> \in Settled \cup Batch(r) \cup Outcomes(r, Len(out[r]))
      BY <1>4, <2>3 DEF OwnedCovered, Covered
    <2>4. OutCovered(r)'
      <3> SUFFICES ASSUME NEW i \in 1 .. Len(out'[r]), NEW p \in Partitions,
                          NEW o \in 1 .. MaxOffset, out'[r][i] = <<p, o>>, NEW k \in 1 .. o
                   PROVE  <<p, k>> \in Settled' \cup Batch(r)' \cup Outcomes(r, i)'
        BY DEF OutCovered, Covered
      <3>1. CASE i # n
        <4>1. i \in 1 .. Len(out[r]) /\ i \in 0 .. Len(out[r])
          BY <2>1, <3>1
        <4>2. <<p, k>> \in Settled \cup Batch(r) \cup Outcomes(r, i)
          BY <1>4, <2>1, <4>1 DEF OutCovered, Covered
        <4> QED BY <1>2, <2>1, <4>1, <4>2
      <3>2. CASE i = n
        <4>1. owner[p] = r /\ o = pos[p] + 1 /\ fo = <<p, o>>
          BY <1>5, <2>1, <3>2
        <4>2. k \in 1 .. pos[p] \/ k = o
          BY <2>2, <4>1 DEF Offsets
        <4> QED BY <1>2, <2>1, <2>3, <3>2, <4>1, <4>2
      <3> QED BY <3>1, <3>2
    <2>5. OwnedCovered(r)'
      <3> SUFFICES ASSUME NEW p \in Partitions, owner[p] = r, NEW k \in 1 .. pos'[p]
                   PROVE  <<p, k>> \in Settled' \cup Batch(r)' \cup Outcomes(r, Len(out[r]))'
        BY <1>1 DEF OwnedCovered, Covered
      <3>1. Outcomes(r, Len(out[r]))' = Outcomes(r, Len(out[r])) \cup {fo}
        <4>1. Outcomes(r, Len(out[r]))' = {out'[r][i] : i \in 1 .. n}
          BY <2>1 DEF Outcomes
        <4>2. ASSUME NEW i, i = n PROVE {out'[r][j] : j \in 1 .. i} = Outcomes(r, Len(out[r])) \cup {fo}
          BY <2>1, <4>2 DEF Outcomes
        <4> QED BY <4>1, <4>2
      <3>2. k \in 1 .. pos[p] \/ fo = <<p, k>>
        BY <1>5, <2>2 DEF Offsets
      <3> QED BY <1>2, <2>3, <3>1, <3>2
    <2> QED BY <1>3, <2>4, <2>5 DEF ReplicaInv
  <1>6. CASE FetchFails(r)
    <2>1. out'[r] = Append(out[r], Err) /\ pos' = pos
      BY <1>6 DEF FetchFails, Fetched, TypeOK
    <2>2. \A p \in Partitions, o \in 1 .. MaxOffset : Err # <<p, o>>
      BY RunnerAssumption
    <2> QED BY <1>5, <2>1, <2>2
  <1>7. ASSUME NEW p \in Partitions, FetchMessage(r, p) PROVE ReplicaInv(r)'
    <2>1. pos[p] + 1 \in 1 .. MaxOffset
      BY <1>7, RunnerAssumption DEF FetchMessage, TypeOK, Offsets
    <2>2. /\ out'[r] = Append(out[r], <<p, pos[p] + 1>>) /\ owner[p] = r
          /\ pos'[p] = pos[p] + 1
          /\ \A x \in Partitions : x # p => pos'[x] = pos[x]
      BY <1>7 DEF FetchMessage, Fetched, TypeOK
    <2>3. <<p, pos[p] + 1>> \in Messages
      BY <2>1 DEF Messages
    <2> HIDE DEF n
    <2> QED BY <1>5, <2>2, <2>3
  <1> QED BY <1>6, <1>7

\* The cases of the select that flush: only the place in the loop changes.
LEMMA SelectFlushStep ==
  ASSUME TypeOK, NEW r \in Runners, ReplicaInv(r), ContextDone(r) \/ Tick(r)
  PROVE  ReplicaInv(r)'
  <1>1. /\ UNCHANGED <<out, buf, owner, pos, failed, storageVars>>
        /\ rpc[r] = "select" /\ rpc'[r] \in {"select", "returned", "write", "finalWrite"}
    BY DEF ContextDone, Tick, BeginFlush, FinalFlush, Goto, TypeOK, groupVars
  <1>2. /\ Batch(r)' = Batch(r) /\ Settled' = Settled
    BY <1>1 DEF Batch, Settled, storageVars
  <1>3. BatchCovered(r)' /\ SettledFirst(r)' /\ DownIsEmpty(r)' /\ FlushedWhenFull(r)'
    BY <1>1, <1>2 DEF ReplicaInv, BatchCovered, Covered, SettledFirst, DownIsEmpty,
                      FlushedWhenFull, Committing
  <1>4. OutCovered(r)' /\ OwnedCovered(r)'
    BY <1>1, <1>2, CoverStep DEF ReplicaInv
  <1> QED BY <1>3, <1>4 DEF ReplicaInv

\* The head of the outcomes goes.
LEMMA ReceiveFacts ==
  ASSUME TypeOK, NEW r \in Runners, NEW fo, Receive(r, fo)
  PROVE  /\ out[r] # <<>> /\ out'[r] = Tail(out[r]) /\ Head(out[r]) = fo
         /\ rpc[r] = "select" /\ Len(out[r]) \in Nat \ {0} /\ out[r][1] = fo
  <1>1. out[r] \in Seq(Messages \cup {Err})
    BY DEF TypeOK
  <1> QED BY <1>1, TailFacts DEF TypeOK, Receive

LEMMA HandleErrorStep ==
  ASSUME TypeOK, NEW r \in Runners, ReplicaInv(r), HandleError(r)
  PROVE  ReplicaInv(r)'
  <1>1. /\ UNCHANGED <<buf, owner, pos, failed, storageVars>>
        /\ rpc'[r] \in {"select", "returned", "finalWrite"}
    BY DEF HandleError, Receive, FinalFlush, Goto, TypeOK, groupVars
  <1>2. /\ out[r] # <<>> /\ out'[r] = Tail(out[r]) /\ Head(out[r]) = Err
        /\ rpc[r] = "select"
    BY ReceiveFacts DEF HandleError
  <1>3. /\ Batch(r)' = Batch(r) /\ Settled' = Settled
    BY <1>1 DEF Batch, Settled, storageVars
  <1>4. BatchCovered(r)' /\ SettledFirst(r)' /\ DownIsEmpty(r)' /\ FlushedWhenFull(r)'
    BY <1>1, <1>2, <1>3 DEF ReplicaInv, BatchCovered, Covered, SettledFirst, DownIsEmpty,
                            FlushedWhenFull, Committing
  <1>5. OutCovered(r) /\ OwnedCovered(r)
    BY <1>2 DEF ReplicaInv
  <1>6. OutCovered(r)' /\ OwnedCovered(r)'
    BY <1>1, <1>2, <1>3, <1>5, CoverStep
  <1> QED BY <1>4, <1>6 DEF ReplicaInv

\* A batch and the message that joins it.
LEMMA BatchAppend ==
  ASSUME TypeOK, NEW r \in Runners, NEW m \in Messages, buf'[r] = Append(buf[r], m)
  PROVE  /\ Batch(r)' = Batch(r) \cup {m}
         /\ Len(buf[r]) \in Nat /\ Len(buf'[r]) = Len(buf[r]) + 1
  <1>1. buf[r] \in Seq(Messages)
    BY DEF TypeOK
  <1>2. /\ Len(buf[r]) \in Nat /\ Len(buf'[r]) = Len(buf[r]) + 1
        /\ \A i \in 1 .. Len(buf[r]) : buf'[r][i] = buf[r][i]
        /\ buf'[r][Len(buf[r]) + 1] = m
        /\ DOMAIN buf[r] = 1 .. Len(buf[r]) /\ DOMAIN buf'[r] = 1 .. Len(buf[r]) + 1
    BY <1>1, AppendFacts
  <1>3. \A i : i \in 1 .. Len(buf[r]) + 1 <=> i \in 1 .. Len(buf[r]) \/ i = Len(buf[r]) + 1
    BY <1>2
  <1> QED BY <1>2, <1>3 DEF Batch

LEMMA HandleEventStep ==
  ASSUME TypeOK, NEW r \in Runners, ReplicaInv(r), HandleEvent(r)
  PROVE  ReplicaInv(r)'
  <1>1. PICK m \in Messages \ poison :
          /\ Receive(r, m)
          /\ buf' = [buf EXCEPT ![r] = Append(@, m)]
          /\ Goto(r, IF Len(buf'[r]) >= BatchMax THEN "write" ELSE "select")
    BY DEF HandleEvent
  <1>2. UNCHANGED <<owner, pos, failed, storageVars>>
    BY DEF HandleEvent, groupVars
  <1>3. /\ out[r] # <<>> /\ out'[r] = Tail(out[r]) /\ Head(out[r]) = m
        /\ rpc[r] = "select" /\ Len(out[r]) \in Nat \ {0} /\ out[r][1] = m
    BY <1>1, ReceiveFacts
  <1>4. buf'[r] = Append(buf[r], m)
    BY <1>1 DEF TypeOK
  <1>5. /\ Batch(r)' = Batch(r) \cup {m}
        /\ Len(buf[r]) \in Nat /\ Len(buf'[r]) = Len(buf[r]) + 1
    BY <1>4, BatchAppend
  <1>6. rpc'[r] = IF Len(buf'[r]) >= BatchMax THEN "write" ELSE "select"
    BY <1>1 DEF Goto, TypeOK
  <1>7. Settled' = Settled
    BY <1>2 DEF Settled, storageVars
  <1>8. OutCovered(r) /\ OwnedCovered(r) /\ BatchCovered(r)
    BY <1>3 DEF ReplicaInv
  <1>9. BatchCovered(r)'
    <2> SUFFICES ASSUME NEW p \in Partitions, NEW o \in 1 .. MaxOffset,
                        <<p, o>> \in Batch(r)', NEW k \in 1 .. o
                 PROVE  <<p, k>> \in Settled' \cup Batch(r)'
      BY DEF BatchCovered, Covered
    <2>1. CASE <<p, o>> \in Batch(r)
      BY <1>5, <1>7, <1>8, <2>1 DEF BatchCovered, Covered
    <2>2. CASE <<p, o>> = m
      <3>1. Covered(r, Outcomes(r, 1), p, o)
        BY <1>3, <1>8, <2>2 DEF OutCovered
      <3>2. Outcomes(r, 1) = {m}
        BY <1>3 DEF Outcomes
      <3> QED BY <1>5, <1>7, <3>1, <3>2 DEF Covered
    <2> QED BY <1>5, <2>1, <2>2
  <1>10. SettledFirst(r)' /\ DownIsEmpty(r)'
    BY <1>6 DEF SettledFirst, DownIsEmpty, Committing
  <1>11. FlushedWhenFull(r)'
    BY <1>2, <1>3, <1>5, <1>6, RunnerAssumption DEF ReplicaInv, FlushedWhenFull
  <1>12. OutCovered(r)' /\ OwnedCovered(r)'
    BY <1>2, <1>3, <1>5, <1>7, <1>8, CoverStep
  <1> QED BY <1>9, <1>10, <1>11, <1>12 DEF ReplicaInv

\* The commit of a poison message passes nothing that is not settled by it.
LEMMA CommitPoisonSettles ==
  ASSUME TypeOK, OnlyKnownLosses, NEW r \in Runners, NEW m \in Messages, CommitPoison(r, m),
         UNCHANGED <<stored, refused>>
  PROVE  Behind(committed') \subseteq Settled' /\ m \in Settled'
  <1>1. Behind(committed') \subseteq Settled'
    BY DEF CommitPoison, OnlyKnownLosses, Settled
  <1>2. PICK p \in Partitions, o \in 1 .. MaxOffset : m = <<p, o>>
    BY DEF Messages
  <1>3. committed'[p] \in 0 .. MaxOffset /\ o <= committed'[p]
    <2>1. committed' \in Marks({m}) /\ o \in Offsets
      BY <1>2, RunnerAssumption DEF CommitPoison, Offsets
    <2> QED BY <1>2, <2>1 DEF Marks, Offsets
  <1>4. m \in Behind(committed')
    BY <1>2, <1>3 DEF Behind, Messages
  <1> QED BY <1>1, <1>4

LEMMA HandlePoisonStep ==
  ASSUME TypeOK, OnlyKnownLosses, NEW r \in Runners, ReplicaInv(r), HandlePoison(r)
  PROVE  ReplicaInv(r)'
  <1>1. PICK m \in poison :
          /\ Receive(r, m)
          /\ \/ CommitPoison(r, m) /\ UNCHANGED rpc
             \/ rpc'[r] = "returned"
    BY DEF HandlePoison, Goto, TypeOK
  <1>2. /\ UNCHANGED <<buf, owner, pos, failed, stored, refused>> /\ passed \subseteq passed'
        /\ m \in Messages
    BY DEF HandlePoison, CommitPoison, TypeOK
  <1>3. /\ out[r] # <<>> /\ out'[r] = Tail(out[r]) /\ Head(out[r]) = m
        /\ rpc[r] = "select"
    BY <1>1, ReceiveFacts
  <1>4. /\ Batch(r)' = Batch(r) /\ Settled \subseteq Settled'
    BY <1>2 DEF Batch, Settled
  <1>5. BatchCovered(r)' /\ SettledFirst(r)' /\ DownIsEmpty(r)' /\ FlushedWhenFull(r)'
    BY <1>1, <1>2, <1>3, <1>4 DEF ReplicaInv, BatchCovered, Covered, SettledFirst, DownIsEmpty,
                                  FlushedWhenFull, Committing
  <1>6. ASSUME rpc'[r] # "returned" PROVE OutCovered(r)' /\ OwnedCovered(r)'
    <2>1. OutCovered(r) /\ OwnedCovered(r)
      BY <1>3 DEF ReplicaInv
    <2>2. m \in Settled'
      BY <1>1, <1>2, <1>6, CommitPoisonSettles
    <2> QED BY <1>2, <1>3, <1>4, <2>1, <2>2, CoverStep
  <1> QED BY <1>5, <1>6 DEF ReplicaInv

\* One point of a write.
LEMMA PointStep ==
  ASSUME TypeOK, OnlyKnownLosses, NEW r \in Runners, ReplicaInv(r),
         PointAccepted(r) \/ PointRefused(r)
  PROVE  ReplicaInv(r)'
  <1>1. /\ UNCHANGED <<rpc, out, buf, owner, pos, failed, refused, passed>>
        /\ stored \subseteq stored'
    BY DEF PointAccepted, PointRefused, NextPoint, groupVars
  <1> QED BY <1>1, ReplicaFrame

\* The end of WritePoints.
LEMMA WriteEndStep ==
  ASSUME TypeOK, NEW r \in Runners, ReplicaInv(r), WriteFails(r) \/ WriteReturns(r)
  PROVE  ReplicaInv(r)'
  <1>1. /\ UNCHANGED <<out, buf, owner, pos, stored, passed>> /\ refused \subseteq refused'
        /\ rpc[r] \in Writing
    BY DEF WriteFails, WriteReturns, WritesTried, groupVars, storageVars
  <1>2. \/ failed'[r] /\ rpc'[r] \in {"select", "returned"}
        \/ /\ failed' = failed /\ rpc'[r] \in Committing
           /\ Batch(r) \subseteq stored' \cup refused'
    BY DEF WriteFails, WriteReturns, EndFlush, Goto, Committing, TypeOK
  <1>3. /\ Batch(r)' = Batch(r) /\ Settled \subseteq Settled'
    BY <1>1 DEF Batch, Settled
  <1>4. rpc[r] \in {"write", "finalWrite"} /\ rpc'[r] \in {"select", "returned"} \cup Committing
    BY <1>1, <1>2 DEF Writing
  <1>5. BatchCovered(r)'
    BY <1>3, BatchStep DEF ReplicaInv
  <1>6. SettledFirst(r)' /\ DownIsEmpty(r)' /\ FlushedWhenFull(r)'
    BY <1>1, <1>2, <1>3, <1>4 DEF ReplicaInv, SettledFirst, DownIsEmpty, FlushedWhenFull, Committing
  <1>7. OutCovered(r)' /\ OwnedCovered(r)'
    BY <1>1, <1>3, <1>4, CoverStep DEF ReplicaInv
  <1> QED BY <1>5, <1>6, <1>7 DEF ReplicaInv

\* A batch that is committed is settled, and so is everything before it.
LEMMA CommitBehind ==
  ASSUME TypeOK, OnlyKnownLosses, NEW r \in Runners, ReplicaInv(r), rpc[r] \in Committing,
         NEW mark \in Marks(Batch(r))
  PROVE  Behind(mark) \subseteq Settled /\ Batch(r) \subseteq Settled
  <1>1. Batch(r) \subseteq Settled
    BY DEF ReplicaInv, SettledFirst, Settled
  <1>2. mark \in [Partitions -> Offsets]
    BY MarksType
  <1>3. ASSUME NEW p \in Partitions, NEW k \in 1 .. mark[p] PROVE <<p, k>> \in Settled
    <2>1. CASE <<p, mark[p]>> \in Batch(r)
      <3>1. mark[p] \in 1 .. MaxOffset
        BY <2>1, BatchType DEF Messages
      <3> QED BY <1>1, <2>1, <3>1 DEF ReplicaInv, BatchCovered, Covered
    <2>2. CASE mark[p] = committed[p]
      <3>1. committed \in [Partitions -> Offsets]
        BY DEF TypeOK
      <3> QED BY <2>2, <3>1, BehindFacts DEF OnlyKnownLosses
    <2> QED BY <2>1, <2>2 DEF Marks
  <1> QED BY <1>1, <1>2, <1>3, BehindFacts

LEMMA CommitStep ==
  ASSUME TypeOK, OnlyKnownLosses, NEW r \in Runners, ReplicaInv(r),
         CommitSucceeds(r) \/ CommitFails(r)
  PROVE  ReplicaInv(r)'
  <1>1. /\ UNCHANGED <<out, owner, pos, storageVars>> /\ rpc[r] \in Committing
        /\ rpc'[r] \in {"select", "returned"}
    BY DEF CommitSucceeds, CommitFails, EndFlush, Goto, TypeOK
  <1>2. \/ buf'[r] = <<>> \/ (buf' = buf /\ failed'[r])
    BY DEF CommitSucceeds, CommitFails, TypeOK
  <1>3. Settled' = Settled /\ Batch(r) \subseteq Settled
    BY <1>1 DEF ReplicaInv, SettledFirst, Settled, storageVars
  <1>4. Batch(r)' \subseteq Batch(r)
    BY <1>2 DEF Batch
  <1>5. BatchCovered(r)'
    BY <1>3, <1>4, BatchStep DEF ReplicaInv
  <1>6. SettledFirst(r)' /\ DownIsEmpty(r)'
    BY <1>1 DEF SettledFirst, DownIsEmpty, Committing
  <1>7. FlushedWhenFull(r)'
    BY <1>2, RunnerAssumption DEF FlushedWhenFull
  <1>8. OutCovered(r) /\ OwnedCovered(r)
    BY <1>1 DEF ReplicaInv, Committing
  <1>9. OutCovered(r)' /\ OwnedCovered(r)'
    BY <1>1, <1>3, <1>8, CoverStep
  <1> QED BY <1>5, <1>6, <1>7, <1>9 DEF ReplicaInv

-----------------------------------------------------------------------------
(* The life of a replica and of the group.                                  *)

\* A replica that holds and owns nothing covers what it has.
LEMMA EmptyReplica ==
  ASSUME NEW r \in Runners, buf'[r] = <<>>, out'[r] = <<>>, rpc'[r] \in {"down", "select"},
         \A p \in Partitions : owner'[p] # r
  PROVE  ReplicaInv(r)'
  <1>1. Batch(r)' = {} /\ Len(buf'[r]) = 0 /\ Len(out'[r]) = 0
    BY DEF Batch
  <1>2. BatchCovered(r)' /\ SettledFirst(r)' /\ DownIsEmpty(r)' /\ OwnedCovered(r)'
    BY <1>1 DEF BatchCovered, SettledFirst, DownIsEmpty, OwnedCovered
  <1>3. OutCovered(r)'
    BY <1>1 DEF OutCovered
  <1>4. FlushedWhenFull(r)'
    BY <1>1, RunnerAssumption DEF FlushedWhenFull
  <1> QED BY <1>2, <1>3, <1>4 DEF ReplicaInv

LEMMA GoneStep ==
  ASSUME TypeOK, NEW r \in Runners, Gone(r) PROVE ReplicaInv(r)'
  <1>1. buf'[r] = <<>> /\ out'[r] = <<>> /\ rpc'[r] = "down"
    BY DEF Gone, Goto, TypeOK
  <1>2. \A p \in Partitions : owner'[p] # r
    BY RunnerAssumption DEF Gone
  <1> QED BY <1>1, <1>2, EmptyReplica

LEMMA StartStep ==
  ASSUME TypeOK, NEW r \in Runners, ReplicaInv(r), Start(r) PROVE ReplicaInv(r)'
  <1>1. /\ UNCHANGED <<buf, out, owner>> /\ rpc[r] = "down" /\ rpc'[r] = "select"
    BY DEF Start, Goto, TypeOK
  <1>2. buf[r] = <<>> /\ out[r] = <<>> /\ \A p \in Partitions : owner[p] # r
    BY <1>1 DEF ReplicaInv, DownIsEmpty
  <1> QED BY <1>1, <1>2, EmptyReplica

LEMMA SignalStep ==
  ASSUME TypeOK, OnlyKnownLosses, NEW r \in Runners, ReplicaInv(r), Signal(r)
  PROVE  ReplicaInv(r)'
  <1>1. UNCHANGED <<buf, out, rpc, failed, owner, pos, stored, refused, passed>>
    BY DEF Signal, groupVars, loopVars, storageVars
  <1> QED BY <1>1, ReplicaFrame

\* A new owner starts where the group is, a former one keeps what it holds.
LEMMA RebalanceStep ==
  ASSUME TypeOK, OnlyKnownLosses, NEW q \in Runners, ReplicaInv(q), Rebalance
  PROVE  ReplicaInv(q)'
  <1>1. UNCHANGED <<buf, out, rpc, failed, stored, refused, passed>> /\ pos' = committed
    BY DEF Rebalance, NewGeneration, loopVars, storageVars
  <1>2. \A p \in Partitions : owner'[p] = q => rpc[q] # "down"
    BY RunnerAssumption DEF Rebalance, NewGeneration, Up
  <1> QED BY <1>1, <1>2, ReplicaFrame

-----------------------------------------------------------------------------
(* The inductive invariant.                                                 *)

\* Which steps change what.
LEMMA Footprint ==
  ASSUME [Next]_vars
  PROVE  /\ poison' = poison
         /\ committed' = committed
            \/ \E r \in Runners : HandlePoison(r) \/ CommitSucceeds(r) \/ CommitFails(r)
         /\ refused' = refused \/ \E r \in Runners : WriteReturns(r)
         /\ passed' = passed \/ \E r \in Runners : HandlePoison(r)
         /\ buf' = buf \/ \E r \in Runners : HandleEvent(r) \/ CommitSucceeds(r) \/ Gone(r)
  <1>1. CASE UNCHANGED vars \/ Rebalance
    BY <1>1 DEF vars, groupVars, loopVars, storageVars, Rebalance, NewGeneration
  <1>2. ASSUME NEW r \in Runners, FetchFails(r) \/ \E p \in Partitions : FetchMessage(r, p)
        PROVE  UNCHANGED <<poison, committed, refused, passed, buf>>
    BY <1>2 DEF FetchFails, FetchMessage, Fetched, storageVars
  <1>3. ASSUME NEW r \in Runners, ContextDone(r) \/ Tick(r) \/ HandleError(r)
        PROVE  UNCHANGED <<poison, committed, refused, passed, buf>>
    BY <1>3 DEF ContextDone, Tick, HandleError, groupVars, storageVars
  <1>4. ASSUME NEW r \in Runners, HandleEvent(r)
        PROVE  UNCHANGED <<poison, committed, refused, passed>>
    BY <1>4 DEF HandleEvent, groupVars, storageVars
  <1>5. ASSUME NEW r \in Runners, HandlePoison(r) PROVE UNCHANGED <<poison, refused, buf>>
    BY <1>5 DEF HandlePoison
  <1>6. ASSUME NEW r \in Runners, PointAccepted(r) \/ PointRefused(r)
        PROVE  UNCHANGED <<poison, committed, refused, passed, buf>>
    BY <1>6 DEF PointAccepted, PointRefused, NextPoint, groupVars
  <1>7. ASSUME NEW r \in Runners, WriteFails(r)
        PROVE  UNCHANGED <<poison, committed, refused, passed, buf>>
    BY <1>7 DEF WriteFails, groupVars, storageVars
  <1>8. ASSUME NEW r \in Runners, WriteReturns(r)
        PROVE  UNCHANGED <<poison, committed, passed, buf>>
    BY <1>8 DEF WriteReturns, groupVars
  <1>9. ASSUME NEW r \in Runners, CommitSucceeds(r) PROVE UNCHANGED <<poison, refused, passed>>
    BY <1>9 DEF CommitSucceeds, storageVars
  <1>10. ASSUME NEW r \in Runners, CommitFails(r)
         PROVE  UNCHANGED <<poison, refused, passed, buf>>
    BY <1>10 DEF CommitFails, storageVars
  <1>11. ASSUME NEW r \in Runners, Exit(r) \/ Crash(r)
         PROVE  Gone(r) /\ UNCHANGED <<poison, committed, refused, passed>>
    BY <1>11 DEF Exit, Crash, Gone, storageVars
  <1>12. ASSUME NEW r \in Runners, Signal(r) \/ Start(r)
         PROVE  UNCHANGED <<poison, committed, refused, passed, buf>>
    BY <1>12 DEF Signal, Start, groupVars, loopVars, storageVars
  <1>13. ASSUME NEW r \in Runners, Loop(r)
         PROVE  /\ poison' = poison
                /\ committed' = committed \/ HandlePoison(r) \/ CommitSucceeds(r) \/ CommitFails(r)
                /\ refused' = refused \/ WriteReturns(r)
                /\ passed' = passed \/ HandlePoison(r)
                /\ buf' = buf \/ HandleEvent(r) \/ CommitSucceeds(r)
    BY <1>3, <1>4, <1>5, <1>6, <1>7, <1>8, <1>9, <1>10, <1>13 DEF Loop
  <1> QED BY <1>1, <1>2, <1>11, <1>12, <1>13 DEF Next

\* Only commits move the group's offsets, and they pass settled messages.
LEMMA LossesStep ==
  ASSUME IndInv, [Next]_vars
  PROVE  OnlyKnownLosses'
  <1>1. Settled \subseteq Settled'
    BY SettledStays DEF Settled
  <1>2. ASSUME NEW r \in Runners, CommitSucceeds(r) \/ CommitFails(r)
        PROVE  OnlyKnownLosses'
    <2>1. committed' \in Marks(Batch(r)) \/ committed' = committed
      BY <1>2 DEF CommitSucceeds, CommitFails
    <2>2. Behind(committed') \subseteq Settled
      BY <1>2, <2>1, CommitBehind DEF IndInv, OnlyKnownLosses, CommitSucceeds, CommitFails
    <2> QED BY <1>1, <2>2 DEF OnlyKnownLosses, Behind
  <1>3. ASSUME NEW r \in Runners, HandlePoison(r), committed' # committed
        PROVE  OnlyKnownLosses'
    <2>1. PICK m \in Messages : CommitPoison(r, m)
      BY <1>3 DEF HandlePoison, IndInv, TypeOK
    <2>2. UNCHANGED <<stored, refused>>
      BY <1>3 DEF HandlePoison
    <2> QED BY <2>1, <2>2, CommitPoisonSettles DEF OnlyKnownLosses, IndInv, Behind
  <1>4. CASE committed' = committed
    <2>1. Behind(committed)' = Behind(committed)
      BY <1>4 DEF Behind
    <2> QED BY <1>1, <2>1 DEF OnlyKnownLosses, IndInv
  <1>5. committed' = committed
        \/ \E r \in Runners : HandlePoison(r) \/ CommitSucceeds(r) \/ CommitFails(r)
    BY Footprint
  <1> QED BY <1>2, <1>3, <1>4, <1>5

LEMMA ReplicasStep ==
  ASSUME IndInv, [Next]_vars, NEW q \in Runners
  PROVE  ReplicaInv(q)'
  <1>1. TypeOK /\ OnlyKnownLosses /\ ReplicaInv(q)
    BY DEF IndInv
  <1>2. stored \subseteq stored' /\ refused \subseteq refused' /\ passed \subseteq passed'
    BY SettledStays
  <1>3. CASE UNCHANGED vars
    <2>1. UNCHANGED <<buf, out, rpc, failed, owner, pos>>
      BY <1>3 DEF vars, groupVars, loopVars
    <2> QED BY <1>1, <1>2, <2>1, ReplicaFrame
  <1>4. CASE Rebalance
    BY <1>1, <1>4, RebalanceStep
  <1>5. ASSUME NEW r \in Runners,
               \/ FetchFails(r) \/ \E p \in Partitions : FetchMessage(r, p)
               \/ Loop(r) \/ Exit(r) \/ Crash(r) \/ Signal(r) \/ Start(r)
        PROVE  ReplicaInv(q)'
    <2>1. CASE q # r
      BY <1>1, <1>2, <1>5, <2>1, OtherReplica
    <2>2. CASE q = r
      <3>1. CASE FetchFails(r) \/ \E p \in Partitions : FetchMessage(r, p)
        BY <1>1, <2>2, <3>1, FetchStep
      <3>2. CASE Loop(r)
        BY <1>1, <2>2, <3>2, SelectFlushStep, HandleErrorStep, HandleEventStep,
           HandlePoisonStep, PointStep, WriteEndStep, CommitStep DEF Loop
      <3>3. CASE Exit(r) \/ Crash(r)
        BY <1>1, <2>2, <3>3, GoneStep DEF Exit, Crash
      <3>4. CASE Signal(r) \/ Start(r)
        BY <1>1, <2>2, <3>4, SignalStep, StartStep
      <3> QED BY <1>5, <3>1, <3>2, <3>3, <3>4
    <2> QED BY <2>1, <2>2
  <1> QED BY <1>3, <1>4, <1>5 DEF Next

LEMMA InitIndInv == Init => IndInv
  <1> SUFFICES ASSUME Init PROVE IndInv
    OBVIOUS
  <1>1. TypeOK
    BY InitTypeOK
  <1>2. OnlyKnownLosses
    <2>1. committed \in [Partitions -> Offsets] /\ \A p \in Partitions : committed[p] = 0
      BY <1>1 DEF Init, TypeOK
    <2> QED BY <2>1, BehindFacts DEF OnlyKnownLosses
  <1>3. ASSUME NEW r \in Runners PROVE ReplicaInv(r)
    <2>1. /\ buf[r] = <<>> /\ out[r] = <<>> /\ rpc[r] = "select"
          /\ \A p \in Partitions : owner[p] # r
      BY RunnerAssumption DEF Init
    <2>2. Batch(r) = {} /\ Len(buf[r]) = 0 /\ Len(out[r]) = 0
      BY <2>1 DEF Batch
    <2>3. BatchCovered(r) /\ SettledFirst(r) /\ DownIsEmpty(r) /\ OwnedCovered(r)
      BY <2>1, <2>2 DEF BatchCovered, SettledFirst, DownIsEmpty, OwnedCovered
    <2>4. OutCovered(r) /\ FlushedWhenFull(r)
      BY <2>2, RunnerAssumption DEF OutCovered, FlushedWhenFull
    <2> QED BY <2>3, <2>4 DEF ReplicaInv
  <1> QED BY <1>1, <1>2, <1>3 DEF IndInv

LEMMA NextIndInv == IndInv /\ [Next]_vars => IndInv'
  <1> SUFFICES ASSUME IndInv, [Next]_vars PROVE IndInv'
    OBVIOUS
  <1>1. TypeOK'
    BY NextTypeOK DEF IndInv
  <1> QED BY <1>1, LossesStep, ReplicasStep DEF IndInv

\* The invariant of the processor: what is held or passed is covered, for every
\* replica, through crashes, signals, rebalances and every fault.
THEOREM Inductive == Spec => []IndInv
  BY InitIndInv, NextIndInv, PTL DEF Spec

\* Type correctness of the processor's model.
THEOREM TypeCorrect == Spec => []TypeOK
  <1>1. IndInv => TypeOK
    BY DEF IndInv
  <1> QED BY <1>1, Inductive, PTL

\* A message behind the committed offset is stored or was given up in one of the
\* two known ways (flush, the commit of poison messages).
THEOREM LossesKnown == Spec => []OnlyKnownLosses
  <1>1. IndInv => OnlyKnownLosses
    BY DEF IndInv
  <1> QED BY <1>1, Inductive, PTL

\* A batch is longer than BatchMax only while flushes fail (Run's append and flush).
THEOREM BatchesBounded == Spec => []BatchBounded
  <1>1. IndInv => BatchBounded
    <2> SUFFICES ASSUME IndInv, NEW r \in Runners, ~failed[r] PROVE ~(Len(buf[r]) > BatchMax)
      BY DEF BatchBounded
    <2>1. Len(buf[r]) <= BatchMax /\ Len(buf[r]) \in Nat
      BY LenProperties DEF IndInv, ReplicaInv, FlushedWhenFull, TypeOK
    <2> QED BY <2>1, RunnerAssumption
  <1> QED BY <1>1, Inductive, PTL

=============================================================================

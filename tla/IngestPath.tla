----------------------------- MODULE IngestPath -----------------------------
(***************************************************************************)
(* What surrounds enqueue on the way in: the pooled buffers and the arrays *)
(* that payloads live in, and IngestBatch.  Collector's CopyPayload is     *)
(* split here into the steps of copyPayload, between which other handlers  *)
(* use the pool.                                                           *)
(*                                                                         *)
(* Memory is a set of byte arrays: those of the buffers, and one for the   *)
(* copy each request makes.  The content of an array is named after the    *)
(* request whose bytes it holds.                                           *)
(***************************************************************************)
EXTENDS Collector

CONSTANTS Buffers,      \* bytes.Buffer objects; as many as concurrent handlers
          Batch,        \* the events of one IngestBatch call, in order
          Nil           \* no buffer, no array, no content

ASSUME PathAssumption == /\ Batch \in Seq(Requests)
                         /\ \A i, j \in DOMAIN Batch : Batch[i] = Batch[j] => i = j
                         /\ Nil \notin Buffers \cup Requests
                         /\ Buffers \cap Requests = {}

VARIABLES stage,        \* stage[r]: how far copyPayload is
          buf,          \* buf[r]: the buffer r's handler holds
          pool,         \* the buffers in the sync.Pool
          mem,          \* mem[a]: the content of array a
          used,         \* the buffers with a length > 0
          big,          \* the buffers with a capacity over maxPooledBufferCap
          payload       \* payload[r]: the array that r's job refers to

heapVars == <<buf, pool, mem, used, big, payload>>
pathVars == <<stage, heapVars>>

Arrays  == Buffers \cup Requests
Mixed   == "mixed"
InBatch == {Batch[i] : i \in DOMAIN Batch}

PathTypeOK ==
  /\ stage \in [Requests -> {"none", "got", "written", "copied", "put"}]
  /\ buf \in [Requests -> Buffers \cup {Nil}]
  /\ pool \subseteq Buffers /\ used \subseteq Buffers /\ big \subseteq Buffers
  /\ mem \in [Arrays -> Requests \cup {Nil, Mixed}]
  /\ payload \in [Requests -> Arrays \cup {Nil}]

PathInit ==
  /\ Init
  /\ stage = [r \in Requests |-> "none"]
  /\ buf = [r \in Requests |-> Nil] /\ pool = {}
  /\ mem = [a \in Arrays |-> Nil] /\ used = {} /\ big = {}
  /\ payload = [r \in Requests |-> Nil]

Stage(r, from, to) == stage[r] = from /\ stage' = [stage EXCEPT ![r] = to]

-----------------------------------------------------------------------------
(* copyPayload and the pool.                                                *)

\* An object nobody refers to: what New returns, or the collector has freed.
Unreferenced(b) == b \notin pool /\ \A r \in Requests : buf[r] # b /\ payload[r] # b

\* What the pool may return.
Available == pool \cup {b \in Buffers : Unreferenced(b)}

\* bp.Get and buf.Reset
Get(r) ==
  /\ Alive /\ pc[r] = "reading" /\ Stage(r, "none", "got")
  /\ \E b \in Available :
       /\ buf' = [buf EXCEPT ![r] = b]
       /\ pool' = pool \ {b} /\ used' = used \ {b}
       /\ big' = IF b \in pool THEN big ELSE big \ {b}
  /\ UNCHANGED <<vars, mem, payload>>

\* buf.Write: the array of the buffer may grow past the limit.
Write(r) ==
  /\ Alive /\ Stage(r, "got", "written")
  /\ mem' = [mem EXCEPT ![buf[r]] = IF buf[r] \in used THEN Mixed ELSE r]
  /\ used' = used \cup {buf[r]}
  /\ big' \in {big, big \cup {buf[r]}}
  /\ UNCHANGED <<vars, buf, pool, payload>>

Out_Alias(r) == payload' = [payload EXCEPT ![r] = buf[r]] /\ UNCHANGED mem

\* out is a new array.
Out(r) == /\ payload' = [payload EXCEPT ![r] = r]
          /\ mem' = [mem EXCEPT ![r] = mem[buf[r]]]

Copy(r) ==
  /\ Alive /\ Stage(r, "written", "copied")
  /\ Out(r)
  /\ UNCHANGED <<vars, buf, pool, used, big>>

Kept_Always(b) == TRUE

Kept(b) == b \notin big

\* bp.Put: Reset, and back into the pool unless the array is too large.
Put(r) ==
  /\ CopyPayload(r) /\ Stage(r, "copied", "put")
  /\ used' = used \ {buf[r]}
  /\ pool' = IF Kept(buf[r]) THEN pool \cup {buf[r]} ELSE pool
  /\ buf' = [buf EXCEPT ![r] = Nil]
  /\ UNCHANGED <<mem, big, payload>>

\* The garbage collector may empty a sync.Pool.
PoolDrained == /\ Alive /\ \E b \in pool : pool' = pool \ {b}
               /\ UNCHANGED <<vars, stage, buf, mem, used, big, payload>>

-----------------------------------------------------------------------------
(* IngestBatch: Ingest for one event after the other, until one is refused. *)
(* Its caller is taken to be the handler of another request.                *)

NextDue_AfterError(i) == pc[Batch[i - 1]] \in Statuses

NextDue(i) == pc[Batch[i - 1]] = "202"

BatchArrive(i) ==
  /\ Alive /\ pc[Batch[i]] = "idle"
  /\ IF i = 1 THEN mpc = "serving" ELSE NextDue(i)
  /\ Goto(Batch[i], "reading")
  /\ UNCHANGED <<svcVars, workVars, countVars, mainVars, overtaken, pathVars>>

\* Between two events the caller is on its way to the next one.
BatchRunning == \E i \in 1 .. Len(Batch) - 1 : /\ pc[Batch[i]] = "202"
                                               /\ pc[Batch[i + 1]] = "idle"

-----------------------------------------------------------------------------
(* The rest of the collector as it is.                                      *)

Unread(r) == stage[r] = "none" /\ ((r \notin InBatch /\ BodyUnreadable(r)) \/ RejectEmpty(r))

ChannelStep(r) == Enqueue(r) \/ DiscardOldest(r) \/ Retry(r) \/ CountIngest(r)

MainStep == \/ HttpDrained /\ ~BatchRunning
            \/ HttpTimeout \/ DrainPoll \/ DrainTimeout
            \/ CloseChannel \/ WgWait \/ ClosePublisher \/ StopSignal \/ Kill

Unchanged == UNCHANGED pathVars

PathNext ==
  \/ \E r \in Requests \ InBatch : Arrive(r) /\ Unchanged
  \/ \E i \in DOMAIN Batch : BatchArrive(i)
  \/ \E r \in Requests : \/ Get(r) \/ Write(r) \/ Copy(r) \/ Put(r)
                         \/ (Unread(r) \/ ChannelStep(r)) /\ Unchanged
  \/ \E w \in Workers : Worker(w) /\ Unchanged
  \/ MainStep /\ Unchanged
  \/ PoolDrained
  \/ Gone /\ Unchanged

PathSpec == PathInit /\ [][PathNext]_<<vars, pathVars>>

-----------------------------------------------------------------------------
(* The bytes of a job are its request's from the copy until a worker is done   *)
(* with them, whatever other requests do with the pool in the meantime         *)
(* (service.go:99-107, 177; pool.go:21-37).                                    *)
PayloadIntact ==
  \A r \in Requests :
    pc[r] \in Sending \/ Buffered(r) \/ Held(r) => mem[payload[r]] = r

(* A buffer belongs to one handler or to the pool; what is in the pool is      *)
(* empty and below the limit, so that ReadBodyIntoPool, which does not reset   *)
(* what it gets, reads into an empty buffer (pool.go:25-37, service.go:217).   *)
PoolSound ==
  /\ \A q, r \in Requests : buf[q] = buf[r] /\ buf[q] # Nil => q = r
  /\ \A r \in Requests : buf[r] \notin pool
  /\ pool \cap (used \cup big) = {}

(* IngestBatch enqueues a prefix of its events, and they leave the channel in  *)
(* that order, to a worker or by eviction (service.go:118-121, 159-173).       *)
BatchInOrder ==
  \A i, j \in DOMAIN Batch :
    i < j =>
      /\ pc[Batch[j]] # "idle" => Enqueued(Batch[i])
      /\ Buffered(Batch[i]) /\ Enqueued(Batch[j]) => Buffered(Batch[j])
=============================================================================

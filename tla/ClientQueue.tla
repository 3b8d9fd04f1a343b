---------------------------- MODULE ClientQueue ----------------------------
(***************************************************************************)
(* The client library: SubmitTx, the durable offline queue, and the two     *)
(* goroutines that flush it (reconnectLoop, and Close on its way out),      *)
(* against the SubmitTx and SubmitBatch calls of a node.                    *)
(*                                                                          *)
(* Every queue operation is one bbolt transaction, hence one step; a remote *)
(* call is another, and may be lost on its way there or back.  The process  *)
(* may stop at any point; pending, seq and hashes are on disk.              *)
(***************************************************************************)
EXTENDS Integers, FiniteSets

CONSTANTS
  Tx,          \* signed transactions
  Bad,         \* those the node refuses (signature, encoding, size)
  Caller,      \* goroutines that call SubmitTx
  MaxBatch,    \* the most transactions SubmitBatch takes
  MaxSeq,      \* bound on the number of queue entries ever written
  MaxStops     \* bound on the number of Close calls and crashes

ASSUME BadKnown == Bad \subseteq Tx
ASSUME BoundsNat == {MaxBatch, MaxSeq, MaxStops} \subseteq Nat

Flusher == {"loop", "close"}

VARIABLES
  pending,    \* the pending bucket, durable
  seq,        \* its sequence counter, durable
  hashes,     \* the hashes bucket, durable; a transaction is its own hash
  life,       \* "open", "closing" (Close is flushing) or "closed"
  ready,      \* is the connection Ready
  seen,       \* the connection state reconnectLoop looked at last
  call,       \* [Caller -> where its SubmitTx is, and with what]
  flush,      \* [Flusher -> where its flush is, and what it drained]
  accepted,   \* every transaction the node has gossiped for this client
  acked,      \* every transaction SubmitTx returned nil for
  stops       \* how many Close calls and crashes happened

queue == <<pending, seq, hashes>>
clientVars == <<pending, seq, hashes, life, ready, seen, call, flush, accepted,
          acked, stops>>

Resting == [at |-> "idle", txs |-> {}]

\* The transactions in the queue.
Queued == {e.tx : e \in pending}

-----------------------------------------------------------------------------
(* SubmitTx.                                                                *)

\* The connection state decides between a remote call and the queue.
SubmitTx(c, t) ==
  /\ life # "closed"
  /\ call[c] = Resting
  /\ call' = [call EXCEPT ![c] = [at |-> IF ready THEN "send" ELSE "enqueue", txs |-> {t}]]
  /\ UNCHANGED <<queue, life, ready, seen, flush, accepted, acked, stops>>

\* The node accepts the transaction and its answer arrives.  A call made while
\* the connection is being set up again waits for it, so this needs no ready.
Sent(c) ==
  /\ call[c].at = "send"
  /\ call[c].txs \cap Bad = {}
  /\ accepted' = accepted \cup call[c].txs
  /\ acked' = acked \cup call[c].txs
  /\ call' = [call EXCEPT ![c] = Resting]
  /\ UNCHANGED <<queue, life, ready, seen, flush, stops>>

\* The node refuses it, or cannot gossip it: SubmitTx returns the error.
Rejected(c) ==
  /\ call[c].at = "send"
  /\ call' = [call EXCEPT ![c] = Resting]
  /\ UNCHANGED <<queue, life, ready, seen, flush, accepted, acked, stops>>

\* The call fails (unreachable, timed out, rate limited); the node may have
\* accepted the transaction all the same.
SendFails(c) ==
  /\ call[c].at = "send"
  /\ accepted' \in {accepted, accepted \cup (call[c].txs \ Bad)}
  /\ call' = [call EXCEPT ![c].at = "enqueue"]
  /\ UNCHANGED <<queue, life, ready, seen, flush, acked, stops>>

\* bbolt's NextSequence: never handed out twice, not even after a delete.
NextKey == seq + 1

\* queue.Enqueue: nothing is written for a transaction already queued.
Enqueue(c) ==
  /\ call[c].at = "enqueue"
  /\ IF call[c].txs \subseteq hashes THEN UNCHANGED queue
     ELSE /\ seq < MaxSeq
          /\ seq' = seq + 1
          /\ pending' = pending \cup {[key |-> NextKey, tx |-> t] : t \in call[c].txs}
          /\ hashes' = hashes \cup call[c].txs
  /\ acked' = acked \cup call[c].txs
  /\ call' = [call EXCEPT ![c] = Resting]
  /\ UNCHANGED <<life, ready, seen, flush, accepted, stops>>

-----------------------------------------------------------------------------
(* flush, run by reconnectLoop and by Close.                                *)

\* Where a flusher goes when its flush is over, done or not: the loop waits
\* for the connection state to differ from the one it looked at; Close goes
\* on to close the connection and the database.
Over(f) ==
  IF f = "loop" /\ ready = seen THEN [at |-> "wait", txs |-> {}]
  ELSE Resting

\* A careless loop that only waits.
LoopOnlyWaits ==
  /\ life = "open"
  /\ flush["loop"] = Resting
  /\ seen' = ready
  /\ flush' = [flush EXCEPT !["loop"].at = "wait"]
  /\ UNCHANGED <<queue, life, ready, call, accepted, acked, stops>>

\* The loop looks at the connection and flushes if it is Ready.  Once its
\* context is cancelled nothing it does has an effect, and it ends.
LoopLooks ==
  /\ life = "open"
  /\ flush["loop"] = Resting
  /\ seen' = ready
  /\ flush' = [flush EXCEPT !["loop"].at = IF ready THEN "drain" ELSE "wait"]
  /\ UNCHANGED <<queue, life, ready, call, accepted, acked, stops>>

\* queue.Drain: a copy of every entry, none of which is removed.
Drain(f) ==
  /\ flush[f].at = "drain"
  /\ flush' = [flush EXCEPT ![f] =
                 IF pending = {} THEN Over(f) ELSE [at |-> "batch", txs |-> pending]]
  /\ UNCHANGED <<queue, life, ready, seen, call, accepted, acked, stops>>

\* SubmitBatch takes a batch whole or not at all.
BatchTaken(entries) ==
  /\ Cardinality(entries) <= MaxBatch
  /\ \A e \in entries : e.tx \notin Bad

\* The node takes the batch and its answer arrives.
BatchSent(f) ==
  /\ flush[f].at = "batch"
  /\ f = "loop" => life = "open"
  /\ BatchTaken(flush[f].txs)
  /\ accepted' = accepted \cup {e.tx : e \in flush[f].txs}
  /\ flush' = [flush EXCEPT ![f].at = "delete"]
  /\ UNCHANGED <<queue, life, ready, seen, call, acked, stops>>

\* The batch is refused or the call fails; the node may have taken it.
BatchFails(f) ==
  /\ flush[f].at = "batch"
  /\ \/ UNCHANGED accepted
     \/ /\ BatchTaken(flush[f].txs)
        /\ accepted' = accepted \cup {e.tx : e \in flush[f].txs}
  /\ flush' = [flush EXCEPT ![f] = Over(f)]
  /\ UNCHANGED <<queue, life, ready, seen, call, acked, stops>>

\* A careless DeleteKeys that empties the bucket.
AllEntries(drained) == pending

\* The entries DeleteKeys finds under the drained keys: the other flusher may
\* have deleted some.
Drained(drained) == {e \in pending : \E d \in drained : d.key = e.key}

\* A careless DeleteKeys that takes the hashes from what was drained.
HashesOfDrained(drained) == {d.tx : d \in drained}

\* The hashes DeleteKeys removes, read back from the entries still there.
HashesFound(drained) == {e.tx : e \in Drained(drained)}

DeleteKeys(f) ==
  /\ flush[f].at = "delete"
  /\ pending' = pending \ Drained(flush[f].txs)
  /\ hashes' = hashes \ HashesFound(flush[f].txs)
  /\ flush' = [flush EXCEPT ![f] = Over(f)]
  /\ UNCHANGED <<seq, life, ready, seen, call, accepted, acked, stops>>

-----------------------------------------------------------------------------
(* The connection, Close, crashes and New.                                  *)

\* The connection comes up or breaks; a change always wakes a waiting loop.
ConnChange ==
  /\ life # "closed"
  /\ ready' = ~ready
  /\ flush' = IF flush["loop"].at = "wait" THEN [flush EXCEPT !["loop"] = Resting] ELSE flush
  /\ UNCHANGED <<queue, life, seen, call, accepted, acked, stops>>

\* Close cancels the loop's context and flushes, not waiting for the loop.
Close ==
  /\ life = "open"
  /\ stops < MaxStops
  /\ stops' = stops + 1
  /\ life' = "closing"
  /\ flush' = [flush EXCEPT !["close"].at = "drain"]
  /\ UNCHANGED <<queue, ready, seen, call, accepted, acked>>

\* Connection and database are closed: what is still running gets an error.
Closed ==
  /\ life = "closing"
  /\ flush["close"] = Resting
  /\ life' = "closed"
  /\ ready' = FALSE
  /\ call' = [c \in Caller |-> Resting]
  /\ flush' = [f \in Flusher |-> Resting]
  /\ UNCHANGED <<queue, seen, accepted, acked, stops>>

\* The process dies, with all that is not on disk.
ClientCrash ==
  /\ life # "closed"
  /\ stops < MaxStops
  /\ stops' = stops + 1
  /\ life' = "closed"
  /\ ready' = FALSE
  /\ call' = [c \in Caller |-> Resting]
  /\ flush' = [f \in Flusher |-> Resting]
  /\ UNCHANGED <<queue, seen, accepted, acked>>

\* New opens the queue, dials, and starts reconnectLoop.
New ==
  /\ life = "closed"
  /\ life' = "open"
  /\ UNCHANGED <<queue, ready, seen, call, flush, accepted, acked, stops>>

-----------------------------------------------------------------------------
ClientInit ==
  /\ pending = {} /\ seq = 0 /\ hashes = {}
  /\ life = "closed"
  /\ ready = FALSE /\ seen = FALSE
  /\ call = [c \in Caller |-> Resting]
  /\ flush = [f \in Flusher |-> Resting]
  /\ accepted = {} /\ acked = {}
  /\ stops = 0

Submission(c) ==
  \/ \E t \in Tx : SubmitTx(c, t)
  \/ Sent(c) \/ Rejected(c) \/ SendFails(c) \/ Enqueue(c)

Flush(f) == Drain(f) \/ BatchSent(f) \/ BatchFails(f) \/ DeleteKeys(f)

ClientNext ==
  \/ \E c \in Caller : Submission(c)
  \/ LoopLooks
  \/ \E f \in Flusher : Flush(f)
  \/ ConnChange \/ Close \/ Closed \/ ClientCrash \/ New

ClientSpec == ClientInit /\ [][ClientNext]_clientVars

\* Goroutines are scheduled, a call ends, the program is started again; a
\* connection that is Ready again and again is so for long enough, at last, for
\* the loop to see it, and a batch sent again and again gets through.
ClientFairness ==
  /\ WF_clientVars(LoopLooks) /\ SF_clientVars(LoopLooks /\ ready)
  /\ \A f \in Flusher : WF_clientVars(Flush(f)) /\ SF_clientVars(BatchSent(f))
  /\ WF_clientVars(Closed)
  /\ WF_clientVars(New)

FairClientSpec == ClientSpec /\ ClientFairness

-----------------------------------------------------------------------------
ClientTypeOK ==
  /\ pending \in SUBSET [key : 1..seq, tx : Tx]
  /\ seq \in Nat
  /\ hashes \in SUBSET Tx
  /\ life \in {"open", "closing", "closed"}
  /\ ready \in BOOLEAN /\ seen \in BOOLEAN
  /\ call \in [Caller -> [at : {"idle", "send", "enqueue"}, txs : SUBSET Tx]]
  /\ flush \in [Flusher -> [at : {"idle", "wait", "drain", "batch", "delete"},
                             txs : SUBSET [key : 1..seq, tx : Tx]]]
  /\ accepted \in SUBSET Tx /\ acked \in SUBSET Tx
  /\ stops \in Nat

\* SubmitTx returning nil is a promise: the transaction is with the node or
\* in the durable queue, whatever flushes overlap and whenever the process
\* stops.
NothingLost == acked \subseteq accepted \cup Queued

\* Enqueue's "Already enqueued" test is exact: the hashes bucket names the
\* transactions of the pending bucket, each of which is there once, although
\* two flushers delete and callers put the same transaction back.
HashesExact ==
  /\ hashes = Queued
  /\ \A d, e \in pending : d.key = e.key \/ d.tx = e.tx => d = e

\* What the queue can never get rid of: a batch the node refuses whole.
Blocked == Cardinality(pending) > MaxBatch \/ \E e \in pending : e.tx \in Bad

\* reconnectLoop flushes the queue: while the connection keeps coming and
\* going, a queued transaction reaches the node, unless the queue has become a
\* batch the node refuses.
EventuallyFlushed ==
  ([]<>ready /\ []<>~ready) =>
    \A t \in Tx : t \in Queued ~> (t \in accepted \/ Blocked)
=============================================================================

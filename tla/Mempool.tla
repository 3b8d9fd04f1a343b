------------------------------ MODULE Mempool ------------------------------
(***************************************************************************)
(* The transaction pool of one node (core/blockloop) between the gossip     *)
(* reader that feeds it and the consensus engine that proposes from it and  *)
(* tells it how a proposal ended.                                           *)
(*                                                                          *)
(* The pool is a linked list with an index from transaction ids to list     *)
(* elements; both are changed under one mutex, so a call is one step.  A    *)
(* transaction is its own id.                                               *)
(***************************************************************************)
EXTENDS Filters, Functions

CONSTANTS
  Tx,        \* transactions
  Trap,      \* those that make every block holding them fail to apply
  Cap,       \* capacity of the pool
  TMax,      \* the most transactions of one proposal
  ChanCap,   \* capacity of the channel from the gossip reader
  Foreign    \* transaction lists other nodes propose

ASSUME TrapKnown == Trap \subseteq Tx
ASSUME Positive == {Cap, TMax, ChanCap} \subseteq Nat \ {0}
ASSUME ForeignSeqs == Foreign \subseteq Seq(Tx)

\* List elements; one more than the pool can hold is always enough.
Elem == 1..(Cap + 1)

Cell == [elem : Elem, tx : Tx]

VARIABLES
  txCh,       \* the channel readTxs and readBatches fill
  queue,      \* the list: a sequence of cells
  index,      \* function from the ids in the pool to their elements
  proposal    \* {} or {this round's proposal: its transactions, and whether
              \* this node made it}

vars == <<txCh, queue, index, proposal>>

\* The transactions in the pool.
Pooled == {queue[i].tx : i \in DOMAIN queue}

-----------------------------------------------------------------------------
\* readTxs, readBatches: a verified transaction goes to the channel, or is
\* dropped when there is no room.  The network may deliver it again at any
\* time, long after it was committed included.
Gossip(t) ==
  /\ Len(txCh) < ChanCap
  /\ txCh' = Append(txCh, t)
  /\ UNCHANGED <<queue, index, proposal>>

\* list.Remove of some elements: nothing happens to one that is not in the list.
ListRemove(q, elems) == Filter(q, {x \in Cell : x.elem \notin elems})

\* A careless eviction that leaves the oldest transaction in the index.
EvictFromList(P) == [P EXCEPT !.queue = Tail(@)]

\* A careless eviction of the newest transaction.
DropNewest(P) ==
  LET n == Len(P.queue)
  IN  [queue |-> SubSeq(P.queue, 1, n - 1), index |-> Restrict(P.index, DOMAIN P.index \ {P.queue[n].tx})]

\* The oldest transaction makes room.
DropOldest(P) ==
  [queue |-> Tail(P.queue), index |-> Restrict(P.index, DOMAIN P.index \ {Head(P.queue).tx})]

\* Enqueue for a transaction that is not in the pool.
PushBack(P, t) ==
  LET R == IF Len(P.queue) >= Cap THEN DropOldest(P) ELSE P
      e == CHOOSE e \in Elem : e \notin Range(R.index) /\ \A i \in DOMAIN R.queue : R.queue[i].elem # e
  IN  [queue |-> Append(R.queue, [elem |-> e, tx |-> t]),
       index |-> [u \in DOMAIN R.index \cup {t} |-> IF u = t THEN e ELSE R.index[u]]]

\* Enqueue's membership test.
Has(P, t) == t \in DOMAIN P.index

\* Start's goroutine takes the next transaction and enqueues it.
Enqueue ==
  /\ txCh # <<>>
  /\ txCh' = Tail(txCh)
  /\ LET P == [queue |-> queue, index |-> index]
         Q == IF Has(P, Head(txCh)) THEN P ELSE PushBack(P, Head(txCh))
     IN  queue' = Q.queue /\ index' = Q.index
  /\ UNCHANGED proposal

\* removeCommitted: transactions the pool never saw are passed over.
removeCommitted(txs) ==
  LET found == Range(txs) \cap DOMAIN index
  IN  /\ queue' = ListRemove(queue, {index[t] : t \in found})
      /\ index' = Restrict(index, DOMAIN index \ found)

-----------------------------------------------------------------------------
(* The rounds of the engine, as far as the pool takes part in them.         *)

\* propose: the oldest transactions, which stay in the pool.
Propose ==
  /\ proposal = {}
  /\ LET count == IF Len(queue) > TMax THEN TMax ELSE Len(queue)
     IN  proposal' = {[own |-> TRUE, txs |-> [i \in 1..count |-> queue[i].tx]]}
  /\ UNCHANGED <<txCh, queue, index>>

\* Another node's proposal is taken for this round.
ReceiveProposal(b) ==
  /\ proposal = {}
  /\ proposal' = {[own |-> FALSE, txs |-> b]}
  /\ UNCHANGED <<txCh, queue, index>>

\* The engine committed the proposal.
OnCommit ==
  /\ \E p \in proposal : Range(p.txs) \cap Trap = {} /\ removeCommitted(p.txs)
  /\ proposal' = {}
  /\ UNCHANGED txCh

\* A careless OnReject that leaves everything for the next round.
RejectKeeps ==
  /\ proposal # {}
  /\ proposal' = {}
  /\ UNCHANGED <<txCh, queue, index>>

\* rejectProposal: the block did not apply, or a quorum of precommits had no
\* 2/3 majority for one block.
OnReject ==
  /\ \E p \in proposal : removeCommitted(p.txs)
  /\ proposal' = {}
  /\ UNCHANGED txCh

\* The round times out: the pool is not told.
RoundTimesOut ==
  /\ proposal # {}
  /\ proposal' = {}
  /\ UNCHANGED <<txCh, queue, index>>

\* The process stops: channel and pool are in memory only.
Restart ==
  /\ queue # <<>>
  /\ txCh' = <<>> /\ queue' = <<>> /\ index' = <<>> /\ proposal' = {}

-----------------------------------------------------------------------------
Init == txCh = <<>> /\ queue = <<>> /\ index = <<>> /\ proposal = {}

Next ==
  \/ \E t \in Tx : Gossip(t)
  \/ Enqueue
  \/ Propose
  \/ \E b \in Foreign : ReceiveProposal(b)
  \/ OnCommit \/ OnReject \/ RoundTimesOut
  \/ Restart

Spec == Init /\ [][Next]_vars

\* This node's proposal gets its quorum of precommits: the block is committed,
\* or found not to apply.
OwnDecided ==
  \E p \in proposal : p.own /\ (OnCommit \/ (Range(p.txs) \cap Trap # {} /\ OnReject))

\* The goroutine of Start runs, rounds end, the turn to propose comes round
\* again, and not every own proposal times out.
Fairness ==
  /\ WF_vars(Enqueue)
  /\ WF_vars(OnCommit \/ OnReject \/ RoundTimesOut)
  /\ SF_vars(Propose)
  /\ SF_vars(OwnDecided)

FairSpec == Spec /\ Fairness

-----------------------------------------------------------------------------
\* The list and the index describe one pool: every transaction of the list is
\* indexed at its own element, nothing else is indexed, none is listed twice,
\* and the pool keeps to its capacity, whatever evictions, repeated gossip and
\* foreign proposals come between a proposal and its end.
PoolCoherent ==
  /\ Len(queue) <= Cap
  /\ DOMAIN index = Pooled
  /\ \A i \in DOMAIN queue : index[queue[i].tx] = queue[i].elem
  /\ \A i, j \in DOMAIN queue : queue[i].tx = queue[j].tx => i = j

\* List and index together behave as a bounded queue without duplicates: no
\* call reorders the pool or loses a transaction it was not told to remove.
Fifo == INSTANCE BoundedFifo WITH pool <- [i \in DOMAIN queue |-> queue[i].tx]
PoolIsFifo == Fifo!Spec

\* Nothing stays at the head for ever: as long as this node's own proposals
\* are decided again and again, every transaction leaves the pool, those that
\* make a block fail included.
EveryTxLeaves == \A t \in Tx : (t \in Pooled) ~> (t \notin Pooled)
=============================================================================

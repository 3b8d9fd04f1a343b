---------------------------- MODULE BoundedFifo ----------------------------
(***************************************************************************)
(* What a mempool promises: at most Cap transactions, each once, in the     *)
(* order they came; a newcomer to a full pool pushes out the oldest; any    *)
(* set of transactions can be taken out, and the others keep their order.   *)
(***************************************************************************)
EXTENDS Filters, Functions

CONSTANTS Tx, Cap

VARIABLE pool

Init == pool = <<>>

Arrive(t) ==
  /\ t \notin Range(pool)
  /\ pool' = Append(IF Len(pool) >= Cap THEN Tail(pool) ELSE pool, t)

TakeOut(S) == pool' = Filter(pool, Tx \ S)

Next == (\E t \in Tx : Arrive(t)) \/ (\E S \in SUBSET Tx : TakeOut(S))

Spec == Init /\ [][Next]_pool
=============================================================================

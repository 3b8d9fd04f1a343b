----------------------------- MODULE MCMempool -----------------------------
(***************************************************************************)
(* Instances of Mempool for TLC.                                            *)
(***************************************************************************)
EXTENDS Mempool

\* Foreign blocks: empty, one transaction, two, and one twice.
MCForeign == {<<>>} \cup {<<t>> : t \in Tx} \cup {<<t, u>> : t, u \in Tx}
=============================================================================

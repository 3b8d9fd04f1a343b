---------------------------- MODULE MCConsensus ----------------------------
(***************************************************************************)
(* Instances of Consensus for TLC: three validators of stake 2, 1 and 1, so *)
(* that a quorum is the big one with either small one.                      *)
(***************************************************************************)
EXTENDS Consensus

CONSTANTS n1, n2, n3, f, ok, bad, big

MCNode == {n1, n2, n3}

MCStake == [n \in MCNode |-> IF n = n1 THEN 2 ELSE 1]

MCOrder == <<n2, n3, n1>>

\* Two validators of equal stake: each needs the other.
MCPair == {n1, n2}

MCPairStake == [n \in MCPair |-> 1]

MCPairOrder == <<n1, n2>>

\* The faulty validator takes n3's place: with n1 it makes a quorum.
MCTrio == {n1, n2, f}

MCTrioStake == [n \in MCTrio |-> IF n = n1 THEN 2 ELSE 1]

MCTrioOrder == <<f, n1, n2>>

\* The first proposer moves on with the height.
MCSeed(root, h) == h - 1

=============================================================================

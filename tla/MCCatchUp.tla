----------------------------- MODULE MCCatchUp -----------------------------
(***************************************************************************)
(* Instances of CatchUp for TLC.                                            *)
(***************************************************************************)
EXTENDS CatchUp, TLC

CONSTANTS p1, p2, p3

V == {"v1", "v2", "v3", "v4"}

\* Three validators; the second block of every chain bonds a fourth.
MCBonded(blocks) == IF Len(blocks) >= 2 THEN V ELSE V \ {"v4"}

B(root, parent, empty) ==
  [root |-> root, parent |-> parent, empty |-> empty, proposer |-> "v1",
   votes |-> IF parent = "g" THEN {} ELSE {"v1", "v2", "v3"}]

\* Two peers on one chain, a third that committed another second block.
Forked ==
  LET common == <<B("a1", "g", FALSE), B("a2", "a1", FALSE), B("a3", "a2", FALSE)>>
  IN  p1 :> common @@ p2 :> common @@ p3 :> <<B("a1", "g", FALSE), B("b2", "a1", FALSE)>>

\* Two peers on one chain whose second block is empty.
WithEmpty ==
  LET common == <<B("a1", "g", FALSE), B("a2", "a1", TRUE), B("a3", "a2", FALSE)>>
  IN  p1 :> common @@ p2 :> common
=============================================================================

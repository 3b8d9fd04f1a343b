------------------------------ MODULE Filters ------------------------------
(***************************************************************************)
(* A loop over a list that keeps some of its elements.                      *)
(***************************************************************************)
EXTENDS Integers, Sequences

\* The elements of s that are in A, in their order.
Filter(s, A) ==
  LET kept[n \in 0 .. Len(s)] ==
        IF n = 0 THEN <<>>
        ELSE IF s[n] \in A THEN Append(kept[n - 1], s[n]) ELSE kept[n - 1]
  IN  kept[Len(s)]
=============================================================================

--------------------------- MODULE MCStateMachine ---------------------------
(***************************************************************************)
(* Instances of StateMachine for TLC: two validators a and b and small      *)
(* economic parameters, with one set of transactions for each run.          *)
(***************************************************************************)
EXTENDS StateMachine

CONSTANTS a, b

MCKey == {a, b}

MCKeyOrder == <<a, b>>

MCSeed(h) == h

MCBalance == [k \in MCKey |-> 10]

MCBond == [k \in MCKey |-> IF k = a THEN 3 ELSE 2]

\* A transaction with every optional field empty.
Plain(type, k, n) ==
  [type |-> type, sender |-> k, nonce |-> n, to |-> Main(k), value |-> 0,
   target |-> k, skip |-> 0, wellFormed |-> TRUE, outcome |-> "ok",
   fuelGas |-> 0, pays |-> Main(k), amount |-> 0]

\* b pays its own account, and the escrow of a.
Payments ==
  {[Plain("transfer", b, 1) EXCEPT !.to = to, !.value = 2] :
     to \in {Main(b), EscrowAccount(a)}}

\* a leaves, comes back, and claims rewards.
Staking ==
  {Plain("unbond", a, n) : n \in 1 .. 2}
    \cup {Plain("finalize", a, n) : n \in 2 .. 3}
    \cup {[Plain("bond", a, 3) EXCEPT !.value = 3], Plain("claim", a, 1)}

\* Evidence against a, with a fresh or a stale nonce.
Evidence ==
  {[Plain("miss", b, n) EXCEPT !.target = a, !.skip = s] :
     n \in 1 .. 2, s \in 0 .. 2}
    \cup {[Plain("equivocation", b, n) EXCEPT !.target = a] : n \in 1 .. 2}

\* b deploys a contract and calls it; the contract pays a or itself, traps, or
\* does not know the function.
Contracts ==
  LET call == [Plain("call", b, 2) EXCEPT !.to = ContractAddr(b, 1), !.value = 1,
                                          !.fuelGas = 2, !.amount = 2]
  IN  {[Plain("deploy", b, 1) EXCEPT !.value = 2, !.fuelGas = 1]}
        \cup {[call EXCEPT !.outcome = o, !.pays = Main(a)] : o \in {"ok", "trap", "nofunc"}}
        \cup {[call EXCEPT !.pays = ContractAddr(b, 1)]}

MCTxs == Payments \cup Staking \cup Evidence \cup Contracts

=============================================================================

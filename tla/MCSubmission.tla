---------------------------- MODULE MCSubmission -----------------------------
(***************************************************************************)
(* Small instances of Submission: each scenario lets a few clients that    *)
(* share an account, a mutex, a policy or an address at the node run into  *)
(* each other.                                                             *)
(***************************************************************************)
EXTENDS Submission, TLC

Request(via, op, key, to, frg, quanta, peer) ==
  [via |-> via, op |-> op, key |-> key, to |-> to, frg |-> frg, quanta |-> quanta,
   wasm |-> {}, data |-> {}, func |-> {}, height |-> 0,
   peer |-> peer, role |-> "validator", fate |-> "ok", txs |-> <<>>]

\* Amounts in FRG, of two decimals: 0.1, 0.2, 0.3, 0.02, 1, .2; and what is not
\* an amount: a third decimal, two points, a sign, a letter, nothing.
Tenths(n) == {Text(<<0>>, 1, <<n>>)}
Hundredths(n) == {Text(<<0>>, 1, <<0, n>>)}
Whole(n) == {Text(<<n>>, 0, <<>>)}
NoWhole(n) == {Text(<<>>, 1, <<n>>)}
ThirdDecimal == {Text(<<0>>, 1, <<0, 0, 1>>)}
TwoPoints == {Text(<<1>>, 2, <<1>>)}
ALetter == {Text(<<NotDigit>>, 0, <<>>)}
OnlyAPoint == {Text(<<>>, 1, <<>>)}
Negative == {[Text(<<1>>, 0, <<>>) EXCEPT !.sign = "-"]}

Raw(via, op, txs, peer) == [Request(via, op, "c", "x", {}, {}, peer) EXCEPT !.txs = txs]

Signed(n, v) == [op |-> "transfer", key |-> "c", to |-> "x", value |-> v, nonce |-> n]

Failing(q, fate) == [q EXCEPT !.fate = fate]

As(q, role) == [q EXCEPT !.role = role]

\* Calls of one wallet between two blocks, and of frg-cli with its key file.
WalletCalls ==
  [w1 |-> Request("wallet", "transfer", "w", "x", Tenths(1), {}, "p1"),
   w2 |-> [Request("wallet", "deploy", "w", "x", {}, {}, "p1") EXCEPT !.wasm = {"code"}],
   w3 |-> Request("cli", "unbond", "w", "x", {}, {}, "p2"),
   c1 |-> Request("cli", "send", "w", "x", NoWhole(2), {}, "p1"),
   c2 |-> Request("cli", "bond", "w", "x", {}, Whole(7), "p2")]

\* Clients without the right to submit, to read, or any identity.
RoleCalls ==
  [w4 |-> As([Request("wallet", "call", "w", "x", {}, {}, "p1") EXCEPT !.func = {"ping"}],
             "observer"),
   w5 |-> As(Request("wallet", "bond", "w", "x", {}, Whole(5), "p1"), "submitter"),
   w6 |-> As(Request("wallet", "claim", "w", "x", {}, {}, "p2"), "none"),
   w7 |-> Request("wallet", "finalize", "w", "x", {}, {}, "p2")]

\* What the wallet and frg-cli refuse by themselves, and a few they do not.
RefusedCalls ==
  [n1 |-> Request("wallet", "transfer", "w", "x", {}, Whole(0), "p1"),
   n2 |-> Request("wallet", "bond", "w", "x", Whole(1), Whole(1), "p1"),
   n3 |-> [Request("wallet", "deploy", "w", "x", Whole(1), {}, "p1") EXCEPT !.wasm = {"bad"}],
   n4 |-> [Request("wallet", "call", "w", "x", {}, {}, "p1") EXCEPT !.func = {"bad"}],
   n5 |-> [Request("wallet", "call", "w", "x", {}, {}, "p1") EXCEPT !.func = {"ping"}, !.data = {"d"}],
   n6 |-> Request("wallet", "miss", "w", "x", {}, {}, "p1"),
   n7 |-> Request("cli", "send", "w", "nobody", Whole(1), {}, "p1"),
   n8 |-> Request("cli", "bond", "w", "x", {}, {}, "p1"),
   n9 |-> Request("cli", "prepare", "w", "x", {}, {}, "p1"),
   w8 |-> [Request("wallet", "miss", "w", "y", {}, {}, "p1") EXCEPT !.height = 1],
   w9 |-> Request("wallet", "transfer", "w", "x", Hundredths(2), {}, "p1")]

\* Amounts that are none, to both parsers.
SpellingCalls ==
  LET t(frg, quanta) == Request("wallet", "transfer", "w", "x", frg, quanta, "p1")
      c(frg, quanta) == Request("cli", "send", "w", "x", frg, quanta, "p1")
  IN  [b1 |-> t(ThirdDecimal, {}), b2 |-> t(TwoPoints, {}), b3 |-> t(ALetter, {}),
       b4 |-> c(OnlyAPoint, {}), b5 |-> c(Negative, {}), b6 |-> c({}, Negative),
       b7 |-> t({}, TwoPoints), b8 |-> c({}, ALetter), b9 |-> t(OnlyAPoint, {})]

\* Ready-made transactions: batches of legal and of illegal size, one with a
\* bad item, and one transaction that frg-cli prepare made with nonce 0.
RawCalls ==
  [r1 |-> Raw("raw", "batch", <<Signed(1, 1), Signed(2, 1)>>, "p1"),
   r2 |-> Failing(Raw("web", "batch", <<Signed(1, 2), Signed(2, 2)>>, "p1"), "unsigned"),
   r3 |-> Request("cli", "prepare", "c", "w", Tenths(3), {}, "p2"),
   r4 |-> Failing(Raw("web", "single", <<Signed(1, 1)>>, "p2"), "nohex"),
   r5 |-> Raw("web", "batch", <<Signed(1, 1), Signed(2, 1), Signed(3, 1)>>, "p2")]

\* Clients that only use up the limiter: what they send is refused after it.
LimiterCalls ==
  [l1 |-> Failing(Raw("raw", "batch", <<Signed(1, 1), Signed(2, 1)>>, "p1"), "unpublished"),
   l2 |-> Failing(Raw("web", "batch", <<Signed(1, 1), Signed(2, 2)>>, "p1"), "unsigned"),
   l3 |-> Failing(Raw("raw", "batch", <<Signed(1, 1), Signed(2, 3)>>, "p1"), "unsigned"),
   l4 |-> Failing(Raw("raw", "single", <<Signed(1, 1)>>, "p1"), "huge"),
   l5 |-> Failing(Raw("raw", "single", <<Signed(1, 1)>>, "p1"), "unsigned"),
   l6 |-> Failing(Raw("web", "single", <<Signed(1, 1)>>, "p2"), "unsigned"),
   l7 |-> Failing(Raw("raw", "single", <<Signed(1, 1)>>, "p3"), "unsigned"),
   l8 |-> Raw("raw", "batch", <<Signed(1, 1), Signed(2, 1), Signed(3, 1)>>, "p3")]

\* The faucet: two requests for one key, and two for two keys.
FaucetCalls ==
  LET f(to, peer) == Request("faucet", "transfer", "f", to, {}, {}, peer)
  IN  [f1 |-> f("x", "p1"), f2 |-> f("x", "p2"), f3 |-> f("y", "p2"), f4 |-> f("nobody", "p2")]

\* The MCP server: spends that together exceed the limit, calls that the
\* policy refuses, and calls without an amount.
McpCalls ==
  [m1 |-> Request("mcp", "transfer", "w", "x", Tenths(2), {}, "p1"),
   m2 |-> Request("mcp", "call", "w", "x", NoWhole(2), {}, "p1"),
   m3 |-> [Request("mcp", "work", "w", "x", {}, Whole(1), "p1") EXCEPT !.func = {"accept"}],
   m4 |-> [Request("mcp", "deploy", "w", "x", Tenths(1), {}, "p1") EXCEPT !.wasm = {"code"}],
   m5 |-> Request("mcp", "transfer", "w", "y", Tenths(1), {}, "p1"),
   m6 |-> Request("mcp", "transfer", "w", "x", Tenths(3), {}, "p1"),
   m7 |-> Request("mcp", "claim", "w", "x", {}, {}, "p1"),
   m8 |-> Request("mcp", "bond", "w", "x", Tenths(1), {}, "p1"),
   m9 |-> Request("mcp", "unbond", "w", "x", {}, {}, "p1"),
   m10 |-> Request("mcp", "finalize", "w", "x", {}, {}, "p1"),
   m11 |-> [Request("mcp", "work", "w", "x", {}, {}, "p1") EXCEPT !.func = {"dance"}],
   m12 |-> [Request("mcp", "work", "w", "x", {}, {}, "p1") EXCEPT !.func = {"post"}, !.data = {"bad"}]]

Of(calls, names) == [q \in names |-> calls[q]]

Single(calls, names) == {Of(calls, {q}) : q \in names}

MCScenarios ==
  {Of(WalletCalls, {"w1", "w2", "w3"}), Of(WalletCalls, {"c1", "c2"}), RoleCalls,
   Of(RefusedCalls, {"w8", "w9"}), Of(RawCalls, {"r1", "r2", "r3"}), Of(RawCalls, {"r4", "r5"}),
   LimiterCalls, Of(FaucetCalls, {"f1", "f2"}), Of(FaucetCalls, {"f1", "f3", "f4"}),
   Of(McpCalls, {"m1", "m2"}) @@ Of(WalletCalls, {"w1"}), Of(McpCalls, {"m3", "m6", "m7"})}
  \cup Single(RefusedCalls, DOMAIN RefusedCalls \ {"w8", "w9"})
  \cup Single(McpCalls, {"m4", "m5", "m8", "m9", "m10", "m11", "m12"})
  \cup Single(SpellingCalls, DOMAIN SpellingCalls)

MCPolicy == [submit |-> TRUE, bond |-> FALSE, deploy |-> FALSE, max |-> 20, daily |-> 30,
             recipients |-> {"x"}, contracts |-> {}]
=============================================================================

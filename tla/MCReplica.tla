----------------------------- MODULE MCReplica ------------------------------
(***************************************************************************)
(* Instances of Replica: a tree with two children to a node and room for    *)
(* four transactions, and blocks that reach every edge of it.               *)
(***************************************************************************)
EXTENDS Replica

MCHostFuel == [k \in HostKind |->
  CASE k = "byte" -> 1 [] k = "write" -> 4 [] k = "pair" -> 6 [] OTHER -> 2]

Op == [op |-> "context", key |-> <<>>, val |-> <<>>, outLen |-> 0, len |-> 0,
       to |-> Main("a"), amount |-> 0, pairs |-> 0, cost |-> 0]

Write(k, v) == [Op EXCEPT !.op = "set", !.key = k, !.val = v]
ReadOut(k, n) == [Op EXCEPT !.op = "get", !.key = k, !.outLen = n]
Send(to, v) == [Op EXCEPT !.op = "transfer", !.to = to, !.amount = v]
Compute(n) == [Op EXCEPT !.op = "compute", !.cost = n]
Pairing(n) == [Op EXCEPT !.op = "pairing", !.pairs = n]

\* A contract that keeps a value and pays, one that clears it, one that
\* computes for long, one that writes a value as long as the field is wide.
Store == <<"store">>

MCExports ==
  (Store :>
     [f \in {InitFunc} \cup {<<g>> : g \in {"keep", "clear", "work", "fill", "bad"}} |->
        CASE f[1] = "init" -> <<Write(<<1>>, <<2>>), Op>>
          [] f[1] = "keep" -> <<Write(<<1, 2>>, <<3>>), ReadOut(<<1>>, 4),
                                Send(Main("b"), 1), Send(Main("b"), 2)>>
          [] f[1] = "clear" -> <<Write(<<1>>, <<>>), Pairing(9)>>
          [] f[1] = "work" -> <<Compute(20), Write(<<1>>, <<3, 3>>)>>
          [] f[1] = "fill" -> <<Write(<<1>>, <<3, 0, 1, 2>>)>>
          [] OTHER -> <<Write(<<>>, <<1>>), Send(Main("b"), 1)>>])

Signed(t, chain) == [t EXCEPT !.sig = CHOOSE s \in SignSenderForChain(t, t.from, chain) : TRUE]

T0 == [type |-> "transfer", sender |-> <<Letter>>, receiver |-> <<Letter>>,
       value |-> 1, nonce |-> 1, missed |-> <<0, 0, 0>>, code |-> <<>>, args |-> <<>>,
       call |-> <<>>, evidence |-> <<<<>>, <<>>>>, from |-> "a", to |-> Main("b"),
       sig |-> <<>>, rsig |-> <<>>]

Pay(k, to, v, x) ==
  Signed([T0 EXCEPT !.from = k, !.to = Main(to), !.value = v, !.nonce = x], "frg")
Deploy(k, v, x) ==
  Signed([T0 EXCEPT !.type = "deploy", !.from = k, !.value = v, !.nonce = x,
                    !.code = Store, !.args = <<1>>], "frg")
Invoke(k, c, f, v, x) ==
  Signed([T0 EXCEPT !.type = "call", !.from = k, !.to = c, !.call = f, !.value = v,
                    !.nonce = x], "frg")
Named(name) == Signed([T0 EXCEPT !.sender = name], "frg")

CA == <<"contract", "a", 1>>
CB == <<"contract", "b", 1>>

\* The last of them: a name to normalize, one too long for a batch and one too
\* long for a transaction, a batch too long, a signature for another chain,
\* evidence, and a full block with a contract.
MCBlockSet ==
  {<<>>,
   <<Pay("a", "b", 3, 1)>>,
   <<Pay("a", "b", 3, 1), Pay("b", "a", 0, 1), Pay("b", "a", 1, 3)>>,
   <<Pay("a", "b", 3, 1), Pay("b", "a", 0, 1), Pay("b", "a", 1, 3), Pay("b", "a", 1, 3)>>,
   <<Deploy("a", 2, 1)>>,
   <<Deploy("a", 2, 1), Deploy("b", 0, 1)>>,
   <<Invoke("b", CA, <<"keep">>, 1, 1)>>,
   <<Invoke("b", CA, <<"fill">>, 0, 1), Invoke("b", CA, <<>>, 1, 2)>>,
   <<Invoke("a", CA, <<"clear">>, 0, 2), Invoke("b", CA, <<"keep">>, 1, 1)>>,
   <<Invoke("a", CA, <<"work">>, 0, 2), Invoke("a", CB, <<"work">>, 1, 3)>>,
   <<Invoke("a", CA, <<"bad">>, 0, 2)>>,
   <<Invoke("b", CA, <<"clear">>, 0, 1)>>,
   <<Named(<<Letter, Accent>>)>>,
   <<Named(<<Letter, Letter, Letter, Letter>>)>>,
   <<Named(<<Letter, Letter, Letter, Letter, Letter>>)>>,
   <<Deploy("a", 0, 1), Deploy("a", 0, 2), Deploy("a", 0, 3), Deploy("a", 0, 4)>>,
   <<Signed(T0, "other")>>,
   <<Signed([T0 EXCEPT !.type = "evidence", !.evidence = <<<<>>, <<5>>>>], "other")>>,
   <<Deploy("a", 2, 1), Pay("a", "b", 1, 2), Pay("a", "b", 2, 3), Pay("a", "b", 1, 4)>>}

U(i, v) == [index |-> i, tx |-> LeafOf(Pay("a", "b", v, 30))]

MCUpdateSet == {<<U(1, 2)>>, <<U(3, 5), U(1, 0)>>, <<U(2, 1), U(2, 4)>>,
                <<U(2, 7), U(4, 40)>>}

MCGenesisBalance == [k \in {"a", "b"} |-> IF k = "a" THEN 30 ELSE 15]
=============================================================================

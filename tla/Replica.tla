------------------------------ MODULE Replica -------------------------------
(***************************************************************************)
(* Nodes that hold the same chain: what a decided block is on the wire, in  *)
(* the database and as a state root, on the node that proposed it and on    *)
(* those that take it from a proposal or from a peer's store.               *)
(*                                                                          *)
(* StateMachine has the economics of a block with contracts as given        *)
(* outcomes; here contracts run (Contract), the root is computed (RGTree)   *)
(* and blocks are encoded, with transfers, deployments and calls and a      *)
(* fixed base fee.  The node also keeps the tree of its last block, whose   *)
(* leaves core/tree lets a caller change.                                   *)
(***************************************************************************)
EXTENDS RGTree, Contract, TxCodec

CONSTANTS
  Replica,        \* nodes
  Proposer,       \* the only validator, whose blocks are decided at once
  Key,            \* accounts that sign
  BlockSet,       \* the blocks the proposer chooses from
  UpdateSet,      \* the leaf updates a caller chooses from
  MaxHeight,      \* bound on the number of blocks
  MaxUpdates,     \* bound on the leaf updates of a tree
  MaxNonce,       \* bound on nonces
  GenesisBalance, \* [Key -> Nat]
  BaseFee

ASSUME ReplicaParameters ==
  /\ Proposer \in Replica
  /\ {MaxHeight, MaxUpdates, MaxNonce, BaseFee} \subseteq Nat

Account == {Main(k) : k \in Key} \cup {ContractAddr(k, n) : k \in Key, n \in 1 .. MaxNonce}

\* The zero root, of a node that has applied no block.
NoRoot == <<>>

VARIABLES
  decided,   \* the decided blocks, as proposed
  node,      \* node[r]: the database of a replica
  status,    \* status[r]: how its last attempt to apply a block ended
  kept       \* the retained tree of the proposer's last block; want and
             \* whole are history: the leaves asked for, and no failure yet

vars == <<decided, node, status, kept>>

-----------------------------------------------------------------------------
(* core/statemachine: the stored block.                                     *)

\* The 32-bit count of the header is exact.  A block without transactions has
\* no batch.
SerializeBlock(b) ==
  {[height |-> b.height, prev |-> b.prev, root |-> b.root,
    count |-> Len(b.txs), batch |-> e] :
     e \in IF b.txs = <<>> THEN {<<>>} ELSE SerializeBatch(b.txs)}

DeserializeBlock(raw) ==
  {[height |-> raw.height, prev |-> raw.prev, root |-> raw.root, txs |-> txs] :
     txs \in IF raw.count = 0 THEN {<<>>}
             ELSE {t \in DeserializeBatch(raw.batch) : Len(t) = raw.count}}

\* None above the height of the node, and none when the bytes do not parse.
BlockAt(r, h) ==
  IF h \notin DOMAIN node[r].blocks THEN {} ELSE DeserializeBlock(node[r].blocks[h])

-----------------------------------------------------------------------------
(* core/statemachine: the transactions of a block.                          *)

\* S is the part of the database that transactions change, with the fuel and
\* the contracts of the block so far; ran is a history of the contract runs
\* of the block, live one of the state each left in memory.
Begin(db) == [bal |-> db.bal, nonce |-> db.nonce, code |-> db.code, state |-> db.state,
              live |-> db.live, fuels |-> <<>>, touched |-> {}, ran |-> {}]

SequenceFault(S, t) == t.nonce # S.nonce[t.from] + 1

ContractGasLimit(S, t) ==
  IF BaseFee = 0 THEN {0}
  ELSE {g - 1 : g \in {S.bal[Main(t.from)] \div BaseFee} \ {0, 1}}

\* The program a contract transaction runs, and the address it runs at.
RunOf(S, t) ==
  IF t.type = "deploy"
  THEN [at |-> ContractAddr(t.from, t.nonce), module |-> t.code, func |-> InitFunc]
  ELSE [at |-> t.to, module |-> S.code[t.to], func |-> FuncName(t)]

Touch(S, run, o, gasLimit) ==
  [o.S EXCEPT !.fuels = Append(S.fuels, o.fuel),
              !.touched = @ \cup {run.at},
              !.live = [a \in DOMAIN @ \cup {run.at} |->
                          IF a = run.at THEN o.live ELSE @[a]],
              !.ran = @ \cup {[module |-> run.module, func |-> run.func, fuel |-> o.fuel,
                               limit |-> FuelCap(gasLimit)]}]

ExecuteContract(S, t) ==
  LET A == [S EXCEPT !.nonce[t.from] = t.nonce]
  IN  UNION {{IF o.fuel = -1 THEN [A EXCEPT !.fuels = Append(@, 0)]
              ELSE Touch(A, RunOf(S, t), o, g) :
                o \in IF t.type = "deploy"
                      THEN DeployContract(A, t, ContractAddr(t.from, t.nonce), g)
                      ELSE CallContract(A, t, g)} :
               g \in ContractGasLimit(A, t)}

\* A transaction out of sequence is passed over; any other error is the
\* block's.
ExecuteTx(S, t) ==
  IF SequenceFault(S, t) THEN {[S EXCEPT !.fuels = Append(@, 0)]}
  ELSE IF t.type = "transfer"
       THEN {[S EXCEPT !.bal = b, !.nonce[t.from] = t.nonce, !.fuels = Append(@, 0)] :
               b \in Move(S.bal, Main(t.from), t.to, t.value)}
       ELSE ExecuteContract(S, t)

ExecuteTxs(S, txs) ==
  FoldLeft(LAMBDA ss, t : UNION {ExecuteTx(s, t) : s \in ss}, {S}, txs)

\* Every transaction pays, the skipped ones too; fuels has one entry for each.
ChargeGas(S, txs) ==
  LET Fee(i) == BaseFee * (1 + (S.fuels[i] \div FuelUnitsPerGas))
      pay[i \in 0 .. Len(txs)] ==
        IF i = 0 THEN {S.bal}
        ELSE {[b EXCEPT ![Main(txs[i].from)] = @ - Fee(i)] :
                b \in {c \in pay[i - 1] : c[Main(txs[i].from)] >= Fee(i)}}
  IN  {[S EXCEPT !.bal = b] : b \in pay[Len(txs)]}

-----------------------------------------------------------------------------
(* core/statemachine: the root and the record of a block.                   *)

\* The leaf of a contract: its balance, and the root of its stored state.
ContractNode(S, c) ==
  [scale |-> 1, volume |-> S.bal[c], variance |-> 0, sig |-> "atomic",
   children |-> <<StateRoot(LoadState(S, c))>>, squares |-> S.bal[c]^2,
   count |-> 1, contracts |-> 1]

\* The map of the touched contracts is walked in an order of its own.
Orders(C) == {s \in [1 .. Cardinality(C) -> C] : ToSet(s) = C}

LeafOf(t) == [id |-> CHOOSE x \in ID(t) : TRUE, value |-> t.value, contract |-> t.type # "transfer"]

Leaves(txs) == [i \in DOMAIN txs |-> LeafOf(txs[i])]

\* One entry per level: its nodes, its volume, how many nodes have each
\* signature, and how many are contracts.
LevelTelemetry(layer) ==
  [nodes |-> Len(layer),
   volume |-> Total(layer, LAMBDA n : n.volume),
   variance |-> Total(layer, LAMBDA n : n.variance),
   signatures |-> [s \in {layer[p].sig : p \in DOMAIN layer} |->
                     Cardinality({p \in DOMAIN layer : layer[p].sig = s})],
   volatile |-> {p \in DOMAIN layer : layer[p].sig = "volatile"},
   stagnant |-> {p \in DOMAIN layer : layer[p].sig = "stagnant"},
   contractNodes |-> Cardinality({p \in DOMAIN layer : layer[p].sig = "contract"})]

BlockTelemetry(b, T) ==
  LET leaves == Leaves(b.txs)
      total == Total(leaves, LAMBDA t : t.value)
      squares == Total(leaves, LAMBDA t : t.value^2)
  IN  [height |-> b.height, root |-> b.root, txCount |-> Len(leaves), total |-> total,
       mean |-> IF leaves = <<>> THEN 0 ELSE total \div Len(leaves),
       variance |-> VarianceOf(squares, total, Len(leaves)),
       types |-> [ty \in {b.txs[i].type : i \in DOMAIN b.txs} |->
                    Cardinality({i \in DOMAIN b.txs : b.txs[i].type = ty})],
       levels |-> [d \in DOMAIN T.layers |-> LevelTelemetry(T.layers[d])]]

\* Mutant of Accepts: the height of the block is not looked at.
AcceptsAnyHeight(db, b) ==
  /\ b.prev # NoRoot => b.prev = db.root
  /\ \A i \in DOMAIN b.txs : VerifySigsForChain(b.txs[i])

\* The checks before the write transaction.
Accepts(db, b) ==
  /\ b.height = db.height + 1
  /\ b.prev # NoRoot => b.prev = db.root
  /\ \A i \in DOMAIN b.txs : VerifySigsForChain(b.txs[i])

\* The rest of the write transaction, for an order of the touched contracts.
CommitBlock(db, b, S, order) ==
  LET nodes == [c \in DOMAIN order |-> ContractNode(S, order[c])]
      Rooted(T) == [b EXCEPT !.root = TreeRoot(T)]
  IN  UNION {{[T |-> T, db |->
                 [bal |-> P.bal, nonce |-> P.nonce, code |-> P.code, state |-> P.state,
                  live |-> P.live, ran |-> P.ran, touched |-> P.touched,
                  height |-> b.height, root |-> TreeRoot(T),
                  blocks |-> Append(db.blocks, raw),
                  tele |-> Append(db.tele, BlockTelemetry(Rooted(T), T))]] :
                 P \in ChargeGas(S, b.txs), raw \in SerializeBlock(Rooted(T))} :
               T \in {U \in BuildTree(Leaves(b.txs), nodes) :
                        b.root = NoRoot \/ b.root = TreeRoot(U)}}

\* What a block makes of a database: an outcome for each order of the
\* contracts it touched, none on an error.
ApplyBlock(db, b) ==
  IF ~Accepts(db, b) THEN {}
  ELSE UNION {UNION {CommitBlock(db, b, S, order) : order \in Orders(S.touched)} :
                S \in ExecuteTxs(Begin(db), b.txs)}

-----------------------------------------------------------------------------
(* The nodes.                                                               *)

Init ==
  /\ decided = <<>>
  /\ node = [r \in Replica |->
       [bal |-> [a \in Account |-> IF a[1] = "main" THEN GenesisBalance[a[2]] ELSE 0],
        nonce |-> [k \in Key |-> 0], code |-> [a \in {} |-> 0],
        state |-> [a \in {} |-> 0], live |-> [a \in {} |-> 0], ran |-> {},
        touched |-> {}, height |-> 0, root |-> NoRoot, blocks |-> <<>>, tele |-> <<>>]]
  /\ status = [r \in Replica |-> "ok"]
  /\ kept = [T |-> {}, want |-> <<>>, whole |-> TRUE, updates |-> 0]

\* What a node has of the transaction t of a client.
Submitted(t) == UNION {Deserialize(w) : w \in Serialize(t)}

\* A proposal names the transactions and the root it builds on; it is sent
\* only if its batch can be encoded.  asked is history.
Propose(asked) ==
  /\ node[Proposer].height = Len(decided) /\ Len(decided) < MaxHeight
  /\ \A i \in DOMAIN asked : Submitted(asked[i]) # {}
  /\ LET txs == [i \in DOMAIN asked |-> CHOOSE t \in Submitted(asked[i]) : TRUE]
     IN  /\ txs = <<>> \/ SerializeBatch(txs) # {}
         /\ decided' = Append(decided,
              [height |-> Len(decided) + 1, prev |-> node[Proposer].root,
               root |-> NoRoot, txs |-> txs, asked |-> asked])
  /\ UNCHANGED <<node, status, kept>>

\* The proposal as a node has it: the proposer its own, the others what they
\* decode.
Received(r, b) ==
  IF r = Proposer \/ b.txs = <<>> THEN {b}
  ELSE {[b EXCEPT !.txs = txs] : txs \in UNION {DeserializeBatch(e) : e \in SerializeBatch(b.txs)}}

\* A decided block on a node that is up to it.  The proposer goes back to the
\* height when the block cannot be applied; another node is left behind.
ApplyDecided(r) ==
  /\ node[r].height < Len(decided)
  /\ LET outcomes == UNION {ApplyBlock(node[r], b) :
                              b \in Received(r, decided[node[r].height + 1])}
     IN  \/ \E o \in outcomes :
              /\ node' = [node EXCEPT ![r] = o.db]
              /\ status' = [status EXCEPT ![r] = "ok"]
              /\ kept' = IF r # Proposer THEN kept
                         ELSE [T |-> {o.T}, want |-> o.T.layers[1], whole |-> TRUE, updates |-> 0]
              /\ UNCHANGED decided
         \/ /\ outcomes = {}
            /\ status' = [status EXCEPT ![r] = "refused"]
            /\ decided' = IF r = Proposer THEN Front(decided) ELSE decided
            /\ UNCHANGED <<node, kept>>

\* A block out of the store of a peer, which has the peer's root in it.
SyncBlock(r, s, h) ==
  /\ r # Proposer /\ r # s /\ h \in DOMAIN node[s].blocks
  /\ LET outcomes == UNION {ApplyBlock(node[r], b) : b \in BlockAt(s, h)}
     IN  \/ \E o \in outcomes :
              /\ node' = [node EXCEPT ![r] = o.db]
              /\ status' = [status EXCEPT ![r] = "ok"]
         \/ /\ outcomes = {}
            /\ status' = [status EXCEPT ![r] = "refused"]
            /\ UNCHANGED node
  /\ UNCHANGED <<decided, kept>>

\* The leaves a caller asks for: the last update of an index is its tx.
Wanted(leaves, us) ==
  [p \in DOMAIN leaves |->
     LET asked == {u \in DOMAIN us : us[u].index = p}
     IN  IF asked = {} THEN leaves[p]
         ELSE CHOOSE n \in MakeAtomicNode(us[Max(asked)].tx) : TRUE]

\* The leaf updates us on the retained tree.  The leaves of contracts are
\* atomic as well, and are replaced as readily.
UpdateTree(us) ==
  /\ kept.updates < MaxUpdates
  /\ \E T \in kept.T : \E o \in UpdateLeaves(T, us) :
       kept' = [kept EXCEPT !.T = {o.tree}, !.updates = @ + 1,
                            !.whole = @ /\ o.ok,
                            !.want = IF o.ok THEN Wanted(@, us) ELSE @]
  /\ UNCHANGED <<decided, node, status>>

\* Root() on a tree whose root is out of date keeps what it computes.
ReadRoot ==
  /\ \E T \in kept.T : /\ T.dirty
                        /\ kept' = [kept EXCEPT !.T = {[T EXCEPT !.root = TreeRoot(T),
                                                               !.dirty = FALSE]}]
  /\ UNCHANGED <<decided, node, status>>

Next ==
  \/ \E asked \in BlockSet : Propose(asked)
  \/ \E r \in Replica : ApplyDecided(r)
  \/ \E r, s \in Replica, h \in 1 .. MaxHeight : SyncBlock(r, s, h)
  \/ \E us \in UpdateSet : UpdateTree(us)
  \/ ReadRoot

Spec == Init /\ [][Next]_vars

-----------------------------------------------------------------------------
(* Properties.                                                              *)

\* Nodes at one height have the same accounts, nonces, code and contract
\* state, whichever way the blocks reached them, and the same root unless the
\* block touched several contracts, whose leaves are in no fixed order
\* (ApplyBlockForChain, touchedContracts).
ReplicasAgree ==
  \A r, s \in Replica :
    node[r].height = node[s].height =>
      /\ node[r].bal = node[s].bal /\ node[r].nonce = node[s].nonce
      /\ node[r].code = node[s].code /\ node[r].state = node[s].state
      /\ node[r].touched = node[s].touched
      /\ Cardinality(node[r].touched) <= 1 => node[r].root = node[s].root

\* Nodes at one height have one root ("StateMachine applies finalised blocks
\* deterministically", core/statemachine/statemachine.go).
RootsAgree ==
  \A r, s \in Replica : node[r].height = node[s].height => node[r].root = node[s].root

\* A committed block can be read back and is the block that was applied,
\* exactly when the 16-bit count of its batch holds its length
\* (SerializeBatch, putBlockTx, BlockAt).
BlockReadable ==
  \A r \in Replica : \A h \in DOMAIN node[r].blocks :
    LET b == decided[h]
    IN  IF Len(b.txs) < 2^CountBits
        THEN \E c \in BlockAt(r, h) : c.height = h /\ c.txs = b.txs /\ c.prev = b.prev
                                     /\ node[r].tele[h].root = c.root
        ELSE BlockAt(r, h) = {}

\* w with the first composed letter of the sender spelled as two.
Respelled(w) ==
  LET at == {p \in 4 .. 3 + w[3] : w[p] = Composed}
  IN  IF at = {} THEN {}
      ELSE {SubSeq(w, 1, 2) \o <<w[3] + 1>> \o SubSeq(w, 4, Min(at) - 1)
              \o <<Letter, Accent>> \o SubSeq(w, Min(at) + 1, Len(w))}

\* A transaction has one encoding: it is read back as it is, under the id and
\* with the signature verdict of what the client signed, and its bytes cut
\* short, lengthened or spelled otherwise are not read (serializeUnsigned's
\* normalization, the canonical check of Deserialize).
WireExact ==
  \A b \in Range(decided) : \A i \in DOMAIN b.txs :
    LET t == b.txs[i]
        Other(w) == {SubSeq(w, 1, n) : n \in 0 .. Len(w) - 1} \cup {Append(w, 0)} \cup Respelled(w)
    IN  /\ ID(t) = ID(b.asked[i])
        /\ VerifySigsForChain(t) <=> VerifySigsForChain(b.asked[i])
        /\ \E w \in Serialize(t) : Deserialize(w) = {t}
                                  /\ \A v \in Other(w) : Deserialize(v) = {}

\* The transactions of the block the retained tree was built from.
KeptTxs == decided[node[Proposer].height].txs

\* A proof of a leaf verifies for that leaf's transaction and for no other,
\* with both verifiers, against the root of the tree it was made from, before
\* and after updates (GenerateProof, VerifyProof, VerifyProofCanonical).
KeptProofsVerify ==
  \A T \in kept.T : kept.whole =>
    \A p, q \in DOMAIN kept.want :
      LET proof == GenerateProof(T, p)
          id == kept.want[q].children[1]
          same == kept.want[p].children[1] = id
      IN  /\ VerifyProof(proof, id, TreeRoot(T)) <=> same
          /\ VerifyProofCanonical(proof, id, TreeRoot(T)) <=> same

\* A proof made from the transactions alone verifies against the node's root
\* exactly when the block touched no contract (generateStepProof).
TxProofsNeedNoContract ==
  node[Proposer].height > 0 /\ KeptTxs # <<>> =>
    \A T \in BuildTree(Leaves(KeptTxs), <<>>) : \A p \in DOMAIN KeptTxs :
      VerifyProof(GenerateProof(T, p), LeafOf(KeptTxs[p]).id, node[Proposer].root)
        <=> node[Proposer].touched = {}

\* The aggregates of every node of the tree are those of the leaves under it,
\* computed flat, whatever the padding and the updates; and each level of the
\* telemetry has the volume of the block (coarseGrain, levelVolume).
AggregatesExact ==
  /\ \A T \in kept.T : kept.whole => \A d \in DOMAIN T.layers : \A q \in DOMAIN T.layers[d] :
       LET width == K^(d - 1)
           under == SubSeq(kept.want, (q - 1) * width + 1, Min({q * width, Len(kept.want)}))
           n == T.layers[d][q]
           volume == Total(under, LAMBDA x : x.volume)
       IN  /\ n.volume = volume /\ n.count = Len(under)
           /\ n.variance = VarianceOf(Total(under, LAMBDA x : x.volume^2), volume, Len(under))
           /\ n.sig = "null" <=> under = <<>>
  /\ \A r \in Replica : \A h \in DOMAIN node[r].tele :
       LET t == node[r].tele[h]
       IN  \A d \in DOMAIN t.levels : t.levels[d].volume = t.levels[1].volume

\* After any updates that all succeeded, the tree is the one BuildTree makes
\* of the leaves asked for, and Root() is its root (UpdateLeaves, Root).
UpdateIsRebuild ==
  \A T \in kept.T : kept.whole =>
    /\ LayersOf(kept.want) = {T.layers}
    /\ kept.want # <<>> => TreeRoot(T) = NodeRoot(Last(T.layers)[1])

\* Two blocks with one root have the same transaction ids in the same order
\* (RGNode.Root, coarsenLayer's padding).
RootBinds ==
  \A r, s \in Replica : \A g \in DOMAIN node[r].tele, h \in DOMAIN node[s].tele :
    node[r].tele[g].root = node[s].tele[h].root =>
      Leaves(decided[g].txs) = Leaves(decided[h].txs)

\* What a root and a proof tell a client: a proof verifies for its own leaf
\* only, a proof made from the transactions of a block verifies exactly when the
\* block touched no contract, and a root stands for one list of transactions
\* (core/tree/proof.go, coarsenLayer).
ProofsVerify == KeptProofsVerify /\ TxProofsNeedNoContract /\ RootBinds

\* The retained tree is exact: updated in place it is the tree built anew, with
\* the aggregates of its leaves at every node (UpdateLeaves, coarseGrain).
TreeExact == UpdateIsRebuild /\ AggregatesExact

\* What a contract left in memory is what the next call loads, exactly when
\* no value fills its length field (StateStore.Serialize, DeserializeState).
StateSurvives ==
  \A r \in Replica : \A c \in DOMAIN node[r].live :
    LoadState(node[r], c) = node[r].live[c]
      <=> \A k \in DOMAIN node[r].live[c] : Len(node[r].live[c][k]) < 2^FieldBits

\* What the node stores it can read back, blocks and contract states alike,
\* but for the ones that overflow a 16-bit length (putBlockTx, BlockAt,
\* saveState, loadState).
StoreReadable == BlockReadable /\ StateSurvives

Work(op) == IF op.op = "compute" THEN op.cost ELSE CallCost(op)

\* A run that succeeds has paid for every host call and instruction of its
\* program, within the limit its sender could afford (chargeFuelFor, Call,
\* FuelConsumed).
WorkPaid ==
  \A r \in Replica : \A run \in node[r].ran :
    /\ run.fuel <= run.limit
    /\ run.fuel >= FoldLeft(LAMBDA sum, op : sum + Work(op), 0,
                            Exports[run.module][run.func])
=============================================================================

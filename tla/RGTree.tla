------------------------------- MODULE RGTree -------------------------------
(***************************************************************************)
(* The renormalization-group tree of core/tree and core/node: building it   *)
(* from a block, changing leaves of a retained tree, inclusion proofs.      *)
(*                                                                          *)
(* A hash is the tuple of what is hashed.  An operation that may fail       *)
(* yields a set: empty on an error, else the one value it returns.  The     *)
(* code has K = 4 and MaxScale = TMax = 65536; levels count from 1.         *)
(***************************************************************************)
EXTENDS Integers, Sequences, SequencesExt, FiniteSetsExt

CONSTANTS
  K,          \* children of a node
  MaxScale,   \* the largest valid scale, a power of K
  TMax,       \* the most transactions a block may have
  MaxUint     \* the largest uint256

ASSUME TreeParameters ==
  /\ K \in Nat \ {0, 1} /\ {TMax, MaxUint} \subseteq Nat
  /\ \E n \in 0 .. 16 : MaxScale = K^n

Depth == CHOOSE n \in 0 .. 16 : MaxScale = K^n

ValidScale(s) == \E n \in 0 .. Depth : s = K^n

-----------------------------------------------------------------------------
(* core/node.                                                               *)

\* The hash leaves the sums out that the parent's aggregates are made from.
NodeRoot(n) == <<n.scale, n.volume, n.variance, n.sig, n.children>>

NullNode[d \in 0 .. Depth] ==
  [scale |-> K^d, volume |-> 0, variance |-> 0, sig |-> "null",
   children |-> IF d = 0 THEN <<<<"NULL_PAD">>>>
                ELSE [c \in 1 .. K |-> NodeRoot(NullNode[d - 1])],
   squares |-> 0, count |-> 0, contracts |-> 0]

\* The padding for a layer of a scale.
NullOf(s) == NullNode[CHOOSE d \in 0 .. Depth : K^d = s]

EmptyBlockRoot == <<1, 0, 0, "stagnant", <<<<"EMPTY_BLOCK">>>>>>

IsNullPad(n) ==
  /\ n.volume = 0 /\ n.variance = 0 /\ n.count = 0
  /\ n.children = NullOf(n.scale).children

DeriveSignature(n) ==
  CASE IsNullPad(n) -> "null"
    [] ~IsNullPad(n) /\ n.scale = 1 ->
         IF n.children = <<<<"EMPTY_BLOCK">>>> /\ n.volume = 0 /\ n.variance = 0
         THEN "stagnant" ELSE "atomic"
    [] OTHER ->
         CASE n.volume = 0 /\ n.variance = 0 -> "stagnant"
           [] n.volume > 0 /\ n.count > 0 /\ n.contracts = n.count -> "contract"
           [] OTHER ->
                IF /\ n.count > 0
                   /\ n.variance > 4 * (n.volume \div n.count)^2
                THEN "volatile" ELSE "laminar"

-----------------------------------------------------------------------------
(* core/tree: building.                                                     *)

\* The leaf of a transaction [id, value, contract].
MakeAtomicNode(t) ==
  IF t.value^2 > MaxUint THEN {}
  ELSE {[scale |-> 1, volume |-> t.value, variance |-> 0, sig |-> "atomic",
         children |-> <<t.id>>, squares |-> t.value^2, count |-> 1,
         contracts |-> IF t.contract THEN 1 ELSE 0]}

AtomicLayer(txs) ==
  IF \E i \in DOMAIN txs : MakeAtomicNode(txs[i]) = {} THEN {}
  ELSE {[i \in DOMAIN txs |-> CHOOSE n \in MakeAtomicNode(txs[i]) : TRUE]}

Total(ns, f(_)) == FoldLeft(LAMBDA sum, n : sum + f(n), 0, ns)

\* The integer divisions can leave the second moment below the squared mean.
VarianceOf(squares, volume, count) ==
  IF count = 0 THEN 0
  ELSE Max({0, (squares \div count) - (volume \div count)^2})

CoarseGrain(chunk, scale) ==
  LET volume == Total(chunk, LAMBDA n : n.volume)
      squares == Total(chunk, LAMBDA n : n.squares)
      count == Total(chunk, LAMBDA n : n.count)
      node == [scale |-> scale, volume |-> volume,
               variance |-> VarianceOf(squares, volume, count), sig |-> "null",
               children |-> [c \in DOMAIN chunk |-> NodeRoot(chunk[c])],
               squares |-> squares, count |-> count,
               contracts |-> Total(chunk, LAMBDA n : n.contracts)]
  IN  IF volume > MaxUint \/ squares > MaxUint THEN {}
      ELSE {[node EXCEPT !.sig = DeriveSignature(node)]}

\* The positions of the parents of the positions ps; positions count from 1.
Parents(ps) == {((p - 1) \div K) + 1 : p \in ps}

\* The children of parent q: the tail of the layer is padded with null nodes.
Chunk(layer, q) ==
  [c \in 1 .. K |-> LET p == (q - 1) * K + c
                    IN  IF p <= Len(layer) THEN layer[p] ELSE NullOf(layer[1].scale)]

RebuildChunk(layer, q) == CoarseGrain(Chunk(layer, q), layer[1].scale * K)

CoarsenLayer(layer) ==
  LET qs == Parents(DOMAIN layer)
  IN  IF \/ ~ValidScale(layer[1].scale * K)
         \/ \E q \in qs : RebuildChunk(layer, q) = {}
      THEN {}
      ELSE {[q \in qs |-> CHOOSE n \in RebuildChunk(layer, q) : TRUE]}

\* All layers above a layer, the last of them a single node.
LayersOf(layer) ==
  LET up[d \in 0 .. Depth + 1] ==
        IF d = 0 THEN {<<layer>>}
        ELSE UNION {IF Len(Last(ls)) <= 1 THEN {ls}
                    ELSE {Append(ls, l) : l \in CoarsenLayer(Last(ls))} :
                      ls \in up[d - 1]}
  IN  up[Depth + 1]

\* A retained tree: its layers, the root last computed, and whether that root
\* is out of date.
BuildTree(txs, contractNodes) ==
  IF txs = <<>> /\ contractNodes = <<>>
  THEN {[layers |-> <<<<>>>>, root |-> EmptyBlockRoot, dirty |-> FALSE]}
  ELSE IF Len(txs) > TMax THEN {}
  ELSE {[layers |-> ls, root |-> NodeRoot(Last(ls)[1]), dirty |-> FALSE] :
          ls \in UNION {LayersOf(l \o contractNodes) : l \in AtomicLayer(txs)}}

-----------------------------------------------------------------------------
(* core/tree: a retained tree.                                              *)

TreeRoot(T) == IF T.dirty THEN NodeRoot(Last(T.layers)[1]) ELSE T.root

\* An update is [index, tx].  The last one for an index counts; they are made
\* in index order.
Deduped(updates) ==
  LET last(j) == Max({u \in DOMAIN updates : updates[u].index = j})
      order == SetToSortSeq({updates[u].index : u \in DOMAIN updates}, <)
  IN  [o \in DOMAIN order |-> updates[last(order[o])]]

UpdateRefused(layer, u) ==
  \/ u.index \notin DOMAIN layer
  \/ layer[u.index].sig # "atomic"
  \/ MakeAtomicNode(u.tx) = {}

\* The leaves up to the first refused update are replaced, and stay.
ReplaceLeaves(layer, updates) ==
  LET us == Deduped(updates)
      bad == {o \in DOMAIN us : UpdateRefused(layer, us[o])}
      done == IF bad = {} THEN us ELSE SubSeq(us, 1, Min(bad) - 1)
  IN  [ok |-> bad = {},
       layer |-> [p \in DOMAIN layer |->
                    IF \E o \in DOMAIN done : done[o].index = p
                    THEN CHOOSE n \in MakeAtomicNode(
                           (CHOOSE u \in Range(done) : u.index = p).tx) : TRUE
                    ELSE layer[p]]]

\* One level of the rebuild, from the changed positions ps of level d.  The
\* parents are taken in map order: when one fails, any of the others may have
\* been replaced before it.
RebuildLevel(layers, d, ps) ==
  LET qs == Parents(ps)
      good == {q \in qs : RebuildChunk(layers[d], q) # {}}
      with(done) == [layers EXCEPT ![d + 1] =
                       [q \in DOMAIN @ |->
                          IF q \in done
                          THEN CHOOSE n \in RebuildChunk(layers[d], q) : TRUE
                          ELSE @[q]]]
  IN  IF good = qs THEN {[ok |-> TRUE, layers |-> with(qs)]}
      ELSE {[ok |-> FALSE, layers |-> with(done)] : done \in SUBSET good}

\* Mutant of UpdateLeaves: the levels above the first parents are left alone.
UpdateLeavesLow(T, updates) ==
  LET replaced == ReplaceLeaves(T.layers[1], updates)
      start == [T.layers EXCEPT ![1] = replaced.layer]
      ps == {updates[u].index : u \in DOMAIN updates}
  IN  IF ~replaced.ok THEN {[ok |-> FALSE, tree |-> [T EXCEPT !.layers = start]]}
      ELSE IF Len(start) = 1
           THEN {[ok |-> TRUE, tree |-> [T EXCEPT !.layers = start, !.dirty = TRUE]]}
           ELSE {[ok |-> e.ok, tree |-> [T EXCEPT !.layers = e.layers, !.dirty = e.ok]] :
                   e \in RebuildLevel(start, 1, ps)}

\* Every way the call can end: whether it succeeds, and the tree it leaves.
UpdateLeaves(T, updates) ==
  LET replaced == ReplaceLeaves(T.layers[1], updates)
      start == [ok |-> TRUE, layers |-> [T.layers EXCEPT ![1] = replaced.layer]]
      dirty[d \in 1 .. Len(T.layers)] ==
        IF d = 1 THEN {updates[u].index : u \in DOMAIN updates} ELSE Parents(dirty[d - 1])
      level[d \in 1 .. Len(T.layers)] ==
        IF d = 1 THEN {start}
        ELSE UNION {IF e.ok THEN RebuildLevel(e.layers, d - 1, dirty[d - 1]) ELSE {e} :
                      e \in level[d - 1]}
  IN  IF updates = <<>> THEN {[ok |-> TRUE, tree |-> T]}
      ELSE IF ~replaced.ok
      THEN {[ok |-> FALSE, tree |-> [T EXCEPT !.layers = start.layers]]}
      ELSE {[ok |-> e.ok,
             tree |-> [T EXCEPT !.layers = e.layers, !.dirty = @ \/ e.ok]] :
              e \in level[Len(T.layers)]}

-----------------------------------------------------------------------------
(* core/tree: inclusion proofs.                                             *)

\* The siblings of position p in its chunk, in order: those in the layer, then
\* null nodes.
Siblings(layer, p) ==
  LET first == ((p - 1) \div K) * K + 1
      there == {q \in first .. first + K - 1 : q <= Len(layer) /\ q # p}
      order == SetToSortSeq(there, <)
  IN  [s \in 1 .. K - 1 |-> IF s <= Len(order) THEN NodeRoot(layer[order[s]])
                            ELSE NodeRoot(NullOf(layer[1].scale))]

\* Mutant of GenerateProof: the child position of the leaf in every step.
GenerateProofFlat(T, idx) ==
  LET at[d \in 1 .. Len(T.layers)] ==
        IF d = 1 THEN idx ELSE ((at[d - 1] - 1) \div K) + 1
  IN  [d \in 1 .. Len(T.layers) |->
         LET n == T.layers[d][at[d]]
         IN  [scale |-> n.scale, volume |-> n.volume, variance |-> n.variance,
              sig |-> n.sig,
              siblings |-> IF d = 1 THEN <<>> ELSE Siblings(T.layers[d - 1], at[d - 1]),
              childIdx |-> (idx - 1) % K]]

\* One step for the leaf, then one for each level above it.
GenerateProof(T, idx) ==
  LET at[d \in 1 .. Len(T.layers)] ==
        IF d = 1 THEN idx ELSE ((at[d - 1] - 1) \div K) + 1
  IN  [d \in 1 .. Len(T.layers) |->
         LET n == T.layers[d][at[d]]
         IN  [scale |-> n.scale, volume |-> n.volume, variance |-> n.variance,
              sig |-> n.sig,
              siblings |-> IF d = 1 THEN <<>> ELSE Siblings(T.layers[d - 1], at[d - 1]),
              childIdx |-> IF d = 1 THEN 0 ELSE (at[d - 1] - 1) % K]]

\* VerifyProofCanonical: the siblings are used up in order.
ChildrenCanonical(step, current) ==
  [c \in 1 .. K |->
     IF c - 1 = step.childIdx THEN current
     ELSE step.siblings[Cardinality({b \in 1 .. c : b - 1 # step.childIdx})]]

\* VerifyProof: the sibling of a slot is computed.
ChildrenFast(step, current) ==
  [c \in 1 .. K |->
     IF c - 1 = step.childIdx THEN current
     ELSE step.siblings[IF c - 1 > step.childIdx THEN c - 1 ELSE c]]

Verifies(p, id, root, Children(_, _)) ==
  LET leaf == p[1]
      cur[d \in 1 .. Len(p)] ==
        IF d = 1 THEN <<1, leaf.volume, leaf.variance, leaf.sig, <<id>>>>
        ELSE <<p[d].scale, p[d].volume, p[d].variance, p[d].sig,
               Children(p[d], cur[d - 1])>>
  IN  p # <<>> /\ leaf.scale = 1 /\ cur[Len(p)] = root

VerifyProofCanonical(p, id, root) == Verifies(p, id, root, ChildrenCanonical)

VerifyProof(p, id, root) == Verifies(p, id, root, ChildrenFast)
=============================================================================

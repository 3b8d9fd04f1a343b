--------------------------- MODULE AdmissionProofs ---------------------------
(***************************************************************************)
(* Theorems about the two gates a transaction passes before a block, for    *)
(* any transactions, peers, limits and proposals of other nodes.  The pool: *)
(* list and index agree, and together they implement a bounded queue        *)
(* without duplicates.  The limiter of submissions: its windows stay        *)
(* bounded, it starves nobody, and no address is granted more than twice    *)
(* its allowance within the length of a window.                             *)
(***************************************************************************)
EXTENDS Mempool, SubmitLimiter, DataLemmas

\* The transactions of a list.
TxsOf(q) == [j \in DOMAIN q |-> q[j].tx]

\* List q and index ix describe one pool.  No two cells are one element: Remove
\* takes one cell out.
Coherent(q, ix) ==
  /\ q \in Seq(Cell)
  /\ Len(q) <= Cap
  /\ DOMAIN ix = {q[j].tx : j \in DOMAIN q}
  /\ \A j \in DOMAIN q : ix[q[j].tx] = q[j].elem
  /\ \A j, k \in DOMAIN q : q[j].tx = q[k].tx => j = k
  /\ \A j, k \in DOMAIN q : q[j].elem = q[k].elem => j = k

IInv ==
  /\ txCh \in Seq(Tx)
  /\ \A p \in proposal : p.txs \in Seq(Tx)
  /\ Coherent(queue, index)

-----------------------------------------------------------------------------
(* Lists of cells and lists of transactions.                                *)

LEMMA CapPositive == Cap \in Nat \ {0} /\ TMax \in Nat \ {0}
BY Positive

LEMMA TxsType ==
  ASSUME NEW q \in Seq(Cell)
  PROVE  /\ TxsOf(q) \in Seq(Tx) /\ Len(TxsOf(q)) = Len(q)
         /\ DOMAIN q = 1 .. Len(q)
         /\ \A j \in 1 .. Len(q) : q[j] \in Cell /\ q[j].tx \in Tx /\ TxsOf(q)[j] = q[j].tx
<1>1. \A j \in 1 .. Len(q) : q[j] \in Cell
  OBVIOUS
<1>2. \A x \in Cell : x.tx \in Tx
  BY DEF Cell
<1>3. DOMAIN q = 1 .. Len(q) /\ Len(q) \in Nat
  OBVIOUS
<1> QED  BY <1>1, <1>2, <1>3 DEF TxsOf

LEMMA TxsAppend ==
  ASSUME NEW q \in Seq(Cell), NEW x \in Cell
  PROVE  TxsOf(Append(q, x)) = Append(TxsOf(q), x.tx)
<1> DEFINE u == Append(q, x)
<1>1. u \in Seq(Cell) /\ Len(u) = Len(q) + 1 /\ Len(q) \in Nat
  OBVIOUS
<1>2. x.tx \in Tx
  BY DEF Cell
<1>3. \A j \in 1 .. Len(q) : u[j] = q[j]
  OBVIOUS
<1>4. u[Len(q) + 1] = x
  OBVIOUS
<1> HIDE DEF u
<1>5. /\ TxsOf(q) \in Seq(Tx) /\ Len(TxsOf(q)) = Len(q)
      /\ \A j \in 1 .. Len(q) : TxsOf(q)[j] = q[j].tx
  BY TxsType
<1>6. /\ TxsOf(u) \in Seq(Tx) /\ Len(TxsOf(u)) = Len(q) + 1
      /\ \A j \in 1 .. Len(q) + 1 : TxsOf(u)[j] = u[j].tx
  BY <1>1, TxsType
<1>7. /\ Append(TxsOf(q), x.tx) \in Seq(Tx) /\ Len(Append(TxsOf(q), x.tx)) = Len(q) + 1
      /\ \A j \in 1 .. Len(q) : Append(TxsOf(q), x.tx)[j] = TxsOf(q)[j]
      /\ Append(TxsOf(q), x.tx)[Len(q) + 1] = x.tx
  BY <1>2, <1>5
<1>8. \A j \in 1 .. Len(q) + 1 : TxsOf(u)[j] = Append(TxsOf(q), x.tx)[j]
  <2> SUFFICES ASSUME NEW j \in 1 .. Len(q) + 1
               PROVE  TxsOf(u)[j] = Append(TxsOf(q), x.tx)[j]
    BY Zenon
  <2>1. j \in 1 .. Len(q) \/ j = Len(q) + 1
    BY <1>1
  <2> QED  BY <1>3, <1>4, <1>5, <1>6, <1>7, <2>1
<1>9. TxsOf(u) = Append(TxsOf(q), x.tx)
  BY <1>1, <1>6, <1>7, <1>8
<1> QED  BY <1>9 DEF u

\* A filter on cells that looks at the transaction only.
LEMMA TxsFilter ==
  ASSUME NEW q \in Seq(Cell), NEW A, NEW B,
         \A j \in 1 .. Len(q) : q[j] \in A <=> q[j].tx \in B
  PROVE  TxsOf(Filter(q, A)) = Filter(TxsOf(q), B)
<1> DEFINE Same(u) == \A j \in 1 .. Len(u) : u[j] \in A <=> u[j].tx \in B
           T == {u \in Seq(Cell) : Same(u) => TxsOf(Filter(u, A)) = Filter(TxsOf(u), B)}
<1>1. <<>> \in T
  <2>1. TxsOf(<<>>) = <<>> /\ <<>> \in Seq(Cell)
    BY DEF TxsOf
  <2> QED  BY <2>1, FilterNone
<1>2. ASSUME NEW u \in Seq(Cell), u \in T, NEW x \in Cell
      PROVE  Append(u, x) \in T
  <2>1. Append(u, x) \in Seq(Cell)
    OBVIOUS
  <2> SUFFICES ASSUME Same(Append(u, x))
               PROVE  TxsOf(Filter(Append(u, x), A)) = Filter(TxsOf(Append(u, x)), B)
    BY Zenon, <2>1
  <2>2. Same(u) /\ (x \in A <=> x.tx \in B)
    <3>1. /\ Len(Append(u, x)) = Len(u) + 1 /\ Append(u, x)[Len(u) + 1] = x
          /\ \A j \in 1 .. Len(u) : j \in 1 .. Len(u) + 1 /\ Append(u, x)[j] = u[j]
          /\ Len(u) + 1 \in 1 .. Len(u) + 1
      OBVIOUS
    <3> QED  BY <3>1
  <2> DEFINE f == Filter(u, A)
  <2>3. TxsOf(f) = Filter(TxsOf(u), B)
    BY <1>2, <2>2
  <2>4. f \in Seq(Cell)
    <3>1. f \in Seq(Cell \cap A) /\ Cell \cap A \subseteq Cell
      BY FilterType
    <3> HIDE DEF f
    <3> QED  BY <3>1
  <2>5. Filter(Append(u, x), A) = IF x \in A THEN Append(f, x) ELSE f
    BY FilterAppend
  <2>6. TxsOf(Append(u, x)) = Append(TxsOf(u), x.tx)
    BY TxsAppend
  <2>7. Filter(Append(TxsOf(u), x.tx), B)
          = IF x.tx \in B THEN Append(Filter(TxsOf(u), B), x.tx) ELSE Filter(TxsOf(u), B)
    <3>1. TxsOf(u) \in Seq(Tx)
      BY TxsType
    <3>2. x.tx \in Tx
      BY DEF Cell
    <3>3. ASSUME NEW w \in Seq(Tx), NEW t \in Tx
          PROVE  Filter(Append(w, t), B) = IF t \in B THEN Append(Filter(w, B), t) ELSE Filter(w, B)
      BY FilterAppend
    <3> HIDE DEF T, Same, f
    <3> QED  BY Zenon, <3>1, <3>2, <3>3
  <2> HIDE DEF f, Same
  <2>8. TxsOf(Append(f, x)) = Append(TxsOf(f), x.tx)
    BY <2>4, TxsAppend
  <2> QED  BY Zenon, <2>2, <2>3, <2>5, <2>6, <2>7, <2>8
<1>3. Seq(Cell) \subseteq T
  <2> HIDE DEF T
  <2> QED  BY <1>1, <1>2, SeqInduction
<1> QED  BY <1>3

-----------------------------------------------------------------------------
(* Taking transactions out.                                                 *)

\* A filtered pool is a pool.
LEMMA FilterCoherent ==
  ASSUME NEW q, NEW ix, Coherent(q, ix), NEW A, NEW iy,
         DOMAIN iy = {t \in DOMAIN ix : \E j \in DOMAIN q : q[j].tx = t /\ q[j] \in A},
         \A t \in DOMAIN iy : iy[t] = ix[t]
  PROVE  Coherent(Filter(q, A), iy)
<1> DEFINE f == Filter(q, A)
<1>1. q \in Seq(Cell) /\ DOMAIN q = 1 .. Len(q) /\ Len(q) \in Nat
  BY DEF Coherent
<1>2. PICK m : Positions(m, f, q, A)
  BY <1>1, FilterPositions
<1>3. f \in Seq(Cell) /\ Len(f) <= Len(q) /\ DOMAIN f = 1 .. Len(f) /\ Len(f) \in Nat
  <2>1. f \in Seq(Cell \cap A) /\ Len(f) <= Len(q) /\ Cell \cap A \subseteq Cell
    BY <1>1, FilterType
  <2> HIDE DEF f
  <2> QED  BY <2>1
<1> HIDE DEF f
<1>4. /\ m \in [1 .. Len(f) -> 1 .. Len(q)]
      /\ \A j, k \in 1 .. Len(f) : j < k => m[j] < m[k]
      /\ \A j \in 1 .. Len(f) : f[j] = q[m[j]] /\ f[j] \in A
      /\ \A n \in 1 .. Len(q) : q[n] \in A => \E j \in 1 .. Len(f) : m[j] = n
  BY <1>2 DEF Positions
<1>5. ASSUME NEW j \in 1 .. Len(f), NEW k \in 1 .. Len(f), m[j] = m[k]
      PROVE  j = k
  <2>1. j \in Nat /\ k \in Nat /\ m[j] \in Nat /\ ~(m[j] < m[k]) /\ ~(m[k] < m[j])
    BY <1>1, <1>3, <1>4, <1>5
  <2>2. ~(j < k) /\ ~(k < j)
    BY <1>4, <2>1
  <2> QED  BY <2>1, <2>2
<1>6. \A j, k \in DOMAIN f : (f[j].tx = f[k].tx \/ f[j].elem = f[k].elem) => j = k
  <2> SUFFICES ASSUME NEW j \in 1 .. Len(f), NEW k \in 1 .. Len(f),
                      f[j].tx = f[k].tx \/ f[j].elem = f[k].elem
               PROVE  j = k
    BY <1>3
  <2>1. m[j] \in DOMAIN q /\ m[k] \in DOMAIN q /\ f[j] = q[m[j]] /\ f[k] = q[m[k]]
    BY Zenon, <1>1, <1>4
  <2>2. m[j] = m[k]
    BY <2>1 DEF Coherent
  <2> QED  BY <1>5, <2>2
<1>7. DOMAIN iy = {f[j].tx : j \in DOMAIN f}
  <2>1. ASSUME NEW t \in DOMAIN iy
        PROVE  \E j \in DOMAIN f : f[j].tx = t
    <3>1. PICK n \in 1 .. Len(q) : q[n].tx = t /\ q[n] \in A
      BY <1>1
    <3>2. PICK j \in 1 .. Len(f) : m[j] = n
      BY <1>4, <3>1
    <3> QED  BY <1>3, <1>4, <3>1, <3>2
  <2>2. ASSUME NEW j \in DOMAIN f
        PROVE  f[j].tx \in DOMAIN iy
    <3>1. m[j] \in DOMAIN q /\ f[j] = q[m[j]] /\ f[j] \in A
      BY <1>1, <1>3, <1>4
    <3>2. f[j].tx \in DOMAIN ix
      BY <3>1 DEF Coherent
    <3> QED  BY <3>1, <3>2
  <2> QED  BY <2>1, <2>2
<1>8. \A j \in DOMAIN f : iy[f[j].tx] = f[j].elem
  <2> TAKE j \in DOMAIN f
  <2>1. m[j] \in DOMAIN q /\ f[j] = q[m[j]]
    BY <1>1, <1>3, <1>4
  <2>2. iy[f[j].tx] = ix[f[j].tx]
    BY <1>7
  <2>3. ix[q[m[j]].tx] = q[m[j]].elem
    BY <2>1 DEF Coherent
  <2> QED  BY <2>1, <2>2, <2>3
<1>9. Len(f) <= Cap
  BY <1>1, <1>3, CapPositive DEF Coherent
<1> QED  BY Zenon, <1>3, <1>6, <1>7, <1>8, <1>9 DEF Coherent, f

\* removeCommitted leaves a pool, from which exactly the transactions of the
\* block are gone.
LEMMA Removal ==
  ASSUME NEW txs \in Seq(Tx), Coherent(queue, index), removeCommitted(txs)
  PROVE  /\ Coherent(queue', index')
         /\ TxsOf(queue') = Filter(TxsOf(queue), Tx \ Range(txs))
<1> DEFINE found == Range(txs) \cap DOMAIN index
           elems == {index[t] : t \in found}
           A == {x \in Cell : x.elem \notin elems}
<1>1. queue' = Filter(queue, A) /\ index' = Restrict(index, DOMAIN index \ found)
  BY DEF removeCommitted, ListRemove
<1>2. queue \in Seq(Cell) /\ DOMAIN queue = 1 .. Len(queue)
  BY DEF Coherent
<1>3. ASSUME NEW j \in DOMAIN queue
      PROVE  /\ queue[j] \in Cell /\ queue[j].tx \in Tx /\ queue[j].tx \in DOMAIN index
             /\ queue[j] \in A <=> queue[j].tx \in Tx \ Range(txs)
  <2>1. queue[j] \in Cell /\ queue[j].tx \in Tx
    BY <1>2, TxsType
  <2>2. queue[j].tx \in DOMAIN index /\ index[queue[j].tx] = queue[j].elem
    BY DEF Coherent
  <2>3. queue[j].tx \in Range(txs) => queue[j].elem \in elems
    BY <2>2
  <2>4. ASSUME queue[j].elem \in elems
        PROVE  queue[j].tx \in Range(txs)
    <3>1. PICK t \in found : queue[j].elem = index[t]
      BY <2>4
    <3>2. PICK k \in DOMAIN queue : queue[k].tx = t
      BY <3>1 DEF Coherent
    <3>3. index[t] = queue[k].elem
      BY <3>2 DEF Coherent
    <3>4. j = k
      BY <3>1, <3>3 DEF Coherent
    <3> QED  BY Zenon, <3>1, <3>2, <3>4
  <2> HIDE DEF elems
  <2> QED  BY Zenon, <2>1, <2>2, <2>3, <2>4
<1>4. /\ DOMAIN index' = DOMAIN index \ found
      /\ \A t \in DOMAIN index' : index'[t] = index[t]
  BY <1>1 DEF Restrict
<1>5. DOMAIN index' = {t \in DOMAIN index : \E j \in DOMAIN queue : queue[j].tx = t /\ queue[j] \in A}
  <2> HIDE DEF A
  <2>1. \A t \in DOMAIN index : \E j \in DOMAIN queue : queue[j].tx = t
    BY DEF Coherent
  <2>2. ASSUME NEW t \in DOMAIN index
        PROVE  t \in DOMAIN index' <=> \E j \in DOMAIN queue : queue[j].tx = t /\ queue[j] \in A
    BY <1>3, <1>4, <2>1
  <2>3. DOMAIN index' \subseteq DOMAIN index
    BY <1>4
  <2> QED  BY Zenon, <2>2, <2>3
<1> HIDE DEF A, found
<1>6. Coherent(queue', index')
  <2>1. Coherent(Filter(queue, A), index')
    BY <1>4, <1>5, FilterCoherent
  <2> QED  BY Zenon, <1>1, <2>1
<1>7. TxsOf(queue') = Filter(TxsOf(queue), Tx \ Range(txs))
  BY <1>1, <1>2, <1>3, TxsFilter
<1> QED  BY <1>6, <1>7

-----------------------------------------------------------------------------
(* Putting a transaction in.                                                *)

\* A new element is at hand: there is one more than a pool can hold.
LEMMA FreeElement ==
  ASSUME NEW q, NEW ix, Coherent(q, ix)
  PROVE  \E e \in Elem : e \notin Range(ix) /\ \A j \in DOMAIN q : q[j].elem # e
<1>1. q \in Seq(Cell) /\ DOMAIN q = 1 .. Len(q) /\ Len(q) \in Nat /\ Len(q) <= Cap
  BY DEF Coherent
<1> DEFINE at == [j \in 1 .. Len(q) |-> q[j].elem]
           used == {at[j] : j \in 1 .. Len(q)}
<1>2. \A e \in Range(ix) : e \in used
  <2> SUFFICES ASSUME NEW t \in DOMAIN ix
               PROVE  ix[t] \in used
    BY DEF Range
  <2>1. PICK j \in 1 .. Len(q) : q[j].tx = t
    BY <1>1 DEF Coherent
  <2>2. ix[t] = q[j].elem
    BY <1>1, <2>1 DEF Coherent
  <2> QED  BY <2>2
<1>3. \E e \in Elem : e \notin used
  <2> SUFFICES ASSUME Elem \subseteq used
               PROVE  FALSE
    OBVIOUS
  <2>1. IsFiniteSet(1 .. Len(q)) /\ Cardinality(1 .. Len(q)) = Len(q)
    BY <1>1, FS_Interval
  <2>2. at \in Surjection(1 .. Len(q), used)
    BY DEF Surjection
  <2> HIDE DEF at, used
  <2>3. IsFiniteSet(used) /\ Cardinality(used) <= Len(q)
    BY <2>1, <2>2, FS_Surjection
  <2>4. IsFiniteSet(Elem) /\ Cardinality(Elem) = Cap + 1
    BY CapPositive, FS_Interval DEF Elem
  <2>5. Cardinality(Elem) <= Cardinality(used)
    BY <2>3, FS_Subset
  <2>6. Cardinality(used) \in Nat
    BY <2>3, FS_CardinalityType
  <2> QED  BY <1>1, <2>3, <2>4, <2>5, <2>6, CapPositive
<1>4. PICK e \in Elem : e \notin used
  BY <1>3
<1>5. \A j \in DOMAIN q : q[j].elem # e
  BY <1>1, <1>4
<1>6. e \notin Range(ix)
  BY <1>2, <1>4
<1> QED  BY <1>5, <1>6

LEMMA DropCoherent ==
  ASSUME NEW P, Coherent(P.queue, P.index), Len(P.queue) >= Cap
  PROVE  LET R == DropOldest(P)
         IN  /\ Coherent(R.queue, R.index) /\ Len(R.queue) < Cap
             /\ DOMAIN R.index \subseteq DOMAIN P.index
             /\ TxsOf(R.queue) = Tail(TxsOf(P.queue))
<1> DEFINE q == P.queue
           ix == P.index
           h == Head(q).tx
           w == Tail(q)
           iy == Restrict(ix, DOMAIN ix \ {h})
<1>1. DropOldest(P).queue = w /\ DropOldest(P).index = iy
  BY DEF DropOldest
<1>2. q \in Seq(Cell) /\ DOMAIN q = 1 .. Len(q) /\ Len(q) \in Nat /\ Len(q) <= Cap
  BY DEF Coherent
<1>3. Len(q) >= 1
  BY <1>2, CapPositive
<1>4. /\ w \in Seq(Cell) /\ Len(w) = Len(q) - 1 /\ DOMAIN w = 1 .. Len(q) - 1
      /\ \A j \in 1 .. Len(q) - 1 : w[j] = q[j + 1] /\ j + 1 \in DOMAIN q /\ j + 1 # 1
  <2> HIDE DEF q
  <2> QED  BY <1>2, <1>3
<1>5. h = q[1].tx /\ 1 \in DOMAIN q
  <2> HIDE DEF q
  <2> QED  BY <1>2, <1>3
<1>6. DOMAIN iy = DOMAIN ix \ {h} /\ \A t \in DOMAIN iy : iy[t] = ix[t]
  BY DEF Restrict
<1>7. /\ DOMAIN ix = {q[j].tx : j \in DOMAIN q}
      /\ \A j \in DOMAIN q : ix[q[j].tx] = q[j].elem
      /\ \A j, k \in DOMAIN q : q[j].tx = q[k].tx => j = k
      /\ \A j, k \in DOMAIN q : q[j].elem = q[k].elem => j = k
  BY DEF Coherent
<1> HIDE DEF q, ix, h, w, iy
<1>8. DOMAIN iy = {w[j].tx : j \in DOMAIN w}
  <2>1. ASSUME NEW t \in DOMAIN iy
        PROVE  \E j \in DOMAIN w : w[j].tx = t
    <3>1. PICK k \in DOMAIN q : q[k].tx = t
      BY <1>6, <1>7
    <3>2. k # 1
      BY Zenon, <1>5, <1>6, <3>1
    <3>3. k - 1 \in DOMAIN w /\ (k - 1) + 1 = k
      BY <1>2, <1>4, <3>2
    <3>4. w[k - 1] = q[k]
      BY Zenon, <1>4, <3>3
    <3> QED  BY Zenon, <3>1, <3>3, <3>4
  <2>2. ASSUME NEW j \in DOMAIN w
        PROVE  w[j].tx \in DOMAIN iy
    <3>1. w[j] = q[j + 1] /\ j + 1 \in DOMAIN q /\ j + 1 # 1
      BY <1>4
    <3>2. q[j + 1].tx # q[1].tx
      BY Zenon, <1>5, <1>7, <3>1
    <3> QED  BY <1>5, <1>6, <1>7, <3>1, <3>2
  <2> QED  BY Zenon, <2>1, <2>2
<1>9. \A j \in DOMAIN w : iy[w[j].tx] = w[j].elem
  <2> TAKE j \in DOMAIN w
  <2>1. w[j] = q[j + 1] /\ j + 1 \in DOMAIN q
    BY <1>4
  <2>2. ix[q[j + 1].tx] = q[j + 1].elem
    BY <1>7, <2>1
  <2>3. iy[w[j].tx] = ix[w[j].tx]
    BY Zenon, <1>6, <1>8
  <2> QED  BY <2>1, <2>2, <2>3
<1>10. \A j, k \in DOMAIN w : (w[j].tx = w[k].tx \/ w[j].elem = w[k].elem) => j = k
  <2> SUFFICES ASSUME NEW j \in DOMAIN w, NEW k \in DOMAIN w, w[j].tx = w[k].tx \/ w[j].elem = w[k].elem
               PROVE  j = k
    OBVIOUS
  <2>1. w[j] = q[j + 1] /\ w[k] = q[k + 1] /\ j + 1 \in DOMAIN q /\ k + 1 \in DOMAIN q
    BY <1>4
  <2>2. j + 1 = k + 1
    BY <1>7, <2>1
  <2>3. j \in Int /\ k \in Int
    BY <1>4
  <2> QED  BY <2>2, <2>3
<1>11. Len(w) < Cap /\ Len(w) <= Cap
  BY <1>2, <1>4, CapPositive
<1>12. Coherent(w, iy)
  BY Zenon, <1>4, <1>8, <1>9, <1>10, <1>11 DEF Coherent
<1>13. TxsOf(w) = Tail(TxsOf(q))
  <2>1. /\ TxsOf(w) \in Seq(Tx) /\ Len(TxsOf(w)) = Len(q) - 1
        /\ \A j \in 1 .. Len(q) - 1 : TxsOf(w)[j] = w[j].tx
    BY <1>4, TxsType
  <2>2. /\ TxsOf(q) \in Seq(Tx) /\ Len(TxsOf(q)) = Len(q)
        /\ \A j \in 1 .. Len(q) : TxsOf(q)[j] = q[j].tx
    BY <1>2, TxsType
  <2>3. /\ Tail(TxsOf(q)) \in Seq(Tx) /\ Len(Tail(TxsOf(q))) = Len(q) - 1
        /\ \A j \in 1 .. Len(q) - 1 : Tail(TxsOf(q))[j] = TxsOf(q)[j + 1]
    BY <1>2, <1>3, <2>2
  <2>4. \A j \in 1 .. Len(q) - 1 : TxsOf(w)[j] = Tail(TxsOf(q))[j]
    BY Zenon, <1>2, <1>4, <2>1, <2>2, <2>3
  <2> QED  BY <1>2, <2>1, <2>3, <2>4
<1> QED  BY Zenon, <1>1, <1>6, <1>11, <1>12, <1>13 DEF q, ix

\* The index with t at element e.
With(ix, t, e) == [u \in DOMAIN ix \cup {t} |-> IF u = t THEN e ELSE ix[u]]

\* A cell for a new transaction at the end.
LEMMA AppendCoherent ==
  ASSUME NEW q, NEW ix, Coherent(q, ix), Len(q) < Cap,
         NEW t \in Tx, t \notin DOMAIN ix,
         NEW e \in Elem, \A j \in DOMAIN q : q[j].elem # e
  PROVE  Coherent(Append(q, [elem |-> e, tx |-> t]), With(ix, t, e))
<1> DEFINE x == [elem |-> e, tx |-> t]
           w == Append(q, x)
           iy == With(ix, t, e)
           n == Len(q)
<1>1. q \in Seq(Cell) /\ DOMAIN q = 1 .. n /\ n \in Nat
  BY DEF Coherent
<1>2. x \in Cell /\ x.tx = t /\ x.elem = e
  BY DEF Cell
<1>3. /\ DOMAIN ix = {q[j].tx : j \in DOMAIN q}
      /\ \A j \in DOMAIN q : ix[q[j].tx] = q[j].elem
      /\ \A j, k \in DOMAIN q : q[j].tx = q[k].tx => j = k
      /\ \A j, k \in DOMAIN q : q[j].elem = q[k].elem => j = k
  BY DEF Coherent
<1>4. /\ DOMAIN iy = DOMAIN ix \cup {t} /\ iy[t] = e
      /\ \A u \in DOMAIN ix : iy[u] = ix[u]
  BY DEF With
<1> HIDE DEF x, iy
<1>5. /\ w \in Seq(Cell) /\ Len(w) = n + 1 /\ DOMAIN w = 1 .. n + 1 /\ w[n + 1] = x
      /\ \A j \in 1 .. n : w[j] = q[j]
  BY <1>1, <1>2
<1> HIDE DEF w
<1>6. DOMAIN w = DOMAIN q \cup {n + 1} /\ n + 1 \notin DOMAIN q
  BY <1>1, <1>5
<1> HIDE DEF n
<1>7. \A j \in DOMAIN q : /\ w[j] = q[j] /\ q[j].tx \in DOMAIN ix
                          /\ q[j].tx # t /\ q[j].elem # e
  BY <1>1, <1>3, <1>5
<1>8. DOMAIN iy = {w[j].tx : j \in DOMAIN w}
  <2>1. ASSUME NEW u \in DOMAIN iy
        PROVE  \E j \in DOMAIN w : w[j].tx = u
    <3>1. CASE u = t
      BY Zenon, <1>2, <1>5, <1>6, <3>1
    <3>2. CASE u \in DOMAIN ix
      <4>1. PICK j \in DOMAIN q : q[j].tx = u
        BY <1>3, <3>2
      <4> QED  BY Zenon, <1>6, <1>7, <4>1
    <3> QED  BY Zenon, <1>4, <3>1, <3>2
  <2>2. ASSUME NEW j \in DOMAIN w
        PROVE  w[j].tx \in DOMAIN iy
    BY Zenon, <1>2, <1>4, <1>5, <1>6, <1>7
  <2> QED  BY Zenon, <2>1, <2>2
<1>9. \A j \in DOMAIN w : iy[w[j].tx] = w[j].elem
  <2>1. \A j \in DOMAIN q : iy[w[j].tx] = w[j].elem
    <3> SUFFICES ASSUME NEW j \in DOMAIN q PROVE iy[w[j].tx] = w[j].elem
      BY Zenon
    <3>1. w[j] = q[j] /\ q[j].tx \in DOMAIN ix /\ ix[q[j].tx] = q[j].elem
      BY Zenon, <1>3, <1>7
    <3> QED  BY Zenon, <1>4, <3>1
  <2>2. iy[w[n + 1].tx] = w[n + 1].elem
    BY <1>2, <1>4, <1>5
  <2> QED  BY Zenon, <1>6, <2>1, <2>2
<1>10. \A j, k \in DOMAIN w : w[j].tx = w[k].tx => j = k
  BY Zenon, <1>2, <1>3, <1>5, <1>6, <1>7
<1>11. \A j, k \in DOMAIN w : w[j].elem = w[k].elem => j = k
  BY Zenon, <1>2, <1>3, <1>5, <1>6, <1>7
<1>12. Len(w) <= Cap
  BY <1>1, <1>5, CapPositive DEF n
<1> QED  BY Zenon, <1>5, <1>8, <1>9, <1>10, <1>11, <1>12 DEF Coherent, w, x, iy

LEMMA PushCoherent ==
  ASSUME NEW P, Coherent(P.queue, P.index), NEW t \in Tx, t \notin DOMAIN P.index
  PROVE  LET Q == PushBack(P, t)
             s == TxsOf(P.queue)
         IN  /\ Coherent(Q.queue, Q.index)
             /\ TxsOf(Q.queue) = Append(IF Len(s) >= Cap THEN Tail(s) ELSE s, t)
<1> DEFINE R == IF Len(P.queue) >= Cap THEN DropOldest(P) ELSE P
           s == TxsOf(P.queue)
           free(e) == e \notin Range(R.index) /\ \A i \in DOMAIN R.queue : R.queue[i].elem # e
           e == CHOOSE e \in Elem : free(e)
<1>1. P.queue \in Seq(Cell) /\ Len(P.queue) \in Nat /\ Len(s) = Len(P.queue)
  BY TxsType DEF Coherent
<1>2. /\ Coherent(R.queue, R.index) /\ Len(R.queue) < Cap
      /\ t \notin DOMAIN R.index
      /\ TxsOf(R.queue) = IF Len(s) >= Cap THEN Tail(s) ELSE s
  <2>1. CASE Len(P.queue) >= Cap
    BY Zenon, <1>1, <2>1, DropCoherent
  <2>2. CASE ~(Len(P.queue) >= Cap)
    BY <1>1, <2>2, CapPositive
  <2> QED  BY <2>1, <2>2
<1>3. /\ PushBack(P, t).queue = Append(R.queue, [elem |-> e, tx |-> t])
      /\ PushBack(P, t).index = With(R.index, t, e)
  BY DEF PushBack, With
<1> HIDE DEF R, s
<1>4. e \in Elem /\ \A j \in DOMAIN R.queue : R.queue[j].elem # e
  <2>1. \E y \in Elem : free(y)
    BY <1>2, FreeElement
  <2> QED  BY <2>1
<1> HIDE DEF e
<1>5. Coherent(PushBack(P, t).queue, PushBack(P, t).index)
  <2>1. Coherent(Append(R.queue, [elem |-> e, tx |-> t]), With(R.index, t, e))
    BY Zenon, <1>2, <1>4, AppendCoherent
  <2> QED  BY Zenon, <1>3, <2>1
<1>6. TxsOf(PushBack(P, t).queue) = Append(TxsOf(R.queue), t)
  <2>1. R.queue \in Seq(Cell) /\ [elem |-> e, tx |-> t] \in Cell
    BY <1>2, <1>4 DEF Coherent, Cell
  <2>2. TxsOf(Append(R.queue, [elem |-> e, tx |-> t])) = Append(TxsOf(R.queue), [elem |-> e, tx |-> t].tx)
    BY Zenon, <2>1, TxsAppend
  <2> QED  BY Zenon, <1>3, <2>2
<1> QED  BY Zenon, <1>2, <1>5, <1>6 DEF s

-----------------------------------------------------------------------------
(* The steps.                                                               *)

\* Steps of the bounded queue, told by the list.
LEMMA ViewArrive ==
  ASSUME NEW t \in Tx, t \notin Range(TxsOf(queue)),
         TxsOf(queue') = Append(IF Len(TxsOf(queue)) >= Cap THEN Tail(TxsOf(queue)) ELSE TxsOf(queue), t)
  PROVE  Fifo!Next
<1>1. Fifo!Range(TxsOf(queue)) = Range(TxsOf(queue))
  BY DEF Fifo!Range, Range
<1>2. t \notin Fifo!Range(TxsOf(queue))
  BY <1>1
<1>3. Fifo!Arrive(t)
  BY Zenon, <1>2 DEF Fifo!Arrive, TxsOf
<1> QED  BY <1>3 DEF Fifo!Next

LEMMA ViewTakeOut ==
  ASSUME NEW S \in SUBSET Tx, TxsOf(queue') = Filter(TxsOf(queue), Tx \ S)
  PROVE  Fifo!Next
<1>1. ASSUME NEW s, NEW A
      PROVE  Fifo!Filter(s, A) = Filter(s, A)
  BY DEF Fifo!Filter, Filter
<1>2. TxsOf(queue') = Fifo!Filter(TxsOf(queue), Tx \ S)
  BY <1>1
<1>3. Fifo!TakeOut(S)
  BY <1>2 DEF Fifo!TakeOut, TxsOf
<1> QED  BY <1>3 DEF Fifo!Next

LEMMA EmptyCoherent == Coherent(<<>>, <<>>)
<1>1. <<>> \in Seq(Cell) /\ Len(<<>>) = 0 /\ DOMAIN <<>> = {}
  OBVIOUS
<1> QED  BY <1>1, CapPositive DEF Coherent

LEMMA InitIInv == Init => IInv
<1>1. <<>> \in Seq(Tx)
  OBVIOUS
<1> QED  BY <1>1, EmptyCoherent DEF Init, IInv

LEMMA EnqueueStep ==
  ASSUME IInv, Enqueue
  PROVE  IInv' /\ (Fifo!Next \/ queue' = queue)
<1> DEFINE t == Head(txCh)
           P == [queue |-> queue, index |-> index]
<1>1. t \in Tx /\ txCh' \in Seq(Tx)
  BY DEF IInv, Enqueue
<1>2. \A p \in proposal' : p.txs \in Seq(Tx)
  BY DEF IInv, Enqueue
<1>3. P.queue = queue /\ P.index = index /\ Coherent(queue, index)
  BY DEF IInv
<1>4. IF t \in DOMAIN index THEN queue' = queue /\ index' = index
      ELSE queue' = PushBack(P, t).queue /\ index' = PushBack(P, t).index
  BY DEF Enqueue, Has
<1> HIDE DEF P, t
<1>5. CASE t \in DOMAIN index
  BY Zenon, <1>1, <1>2, <1>3, <1>4, <1>5 DEF IInv
<1>6. CASE t \notin DOMAIN index
  <2>1. /\ Coherent(queue', index')
        /\ TxsOf(queue') = Append(IF Len(TxsOf(queue)) >= Cap THEN Tail(TxsOf(queue)) ELSE TxsOf(queue), t)
    BY Zenon, <1>1, <1>3, <1>4, <1>6, PushCoherent
  <2>2. t \notin Range(TxsOf(queue))
    <3>1. /\ Len(TxsOf(queue)) = Len(queue) /\ DOMAIN queue = 1 .. Len(queue)
          /\ \A j \in 1 .. Len(queue) : TxsOf(queue)[j] = queue[j].tx
      BY <1>3, TxsType DEF Coherent
    <3>2. \A j \in DOMAIN queue : queue[j].tx # t
      BY <1>3, <1>6 DEF Coherent
    <3> QED  BY <3>1, <3>2 DEF Range, TxsOf
  <2>3. Fifo!Next
    BY <1>1, <2>1, <2>2, ViewArrive
  <2> QED  BY Zenon, <1>1, <1>2, <2>1, <2>3 DEF IInv
<1> QED  BY <1>5, <1>6

\* The end of a round, with the pool told of it.
LEMMA RemovalStep ==
  ASSUME IInv, NEW p \in proposal, removeCommitted(p.txs), proposal' = {}, txCh' = txCh
  PROVE  IInv' /\ Fifo!Next
<1>1. p.txs \in Seq(Tx) /\ Coherent(queue, index)
  BY DEF IInv
<1>2. Range(p.txs) \in SUBSET Tx
  BY <1>1 DEF Range
<1>3. /\ Coherent(queue', index')
      /\ TxsOf(queue') = Filter(TxsOf(queue), Tx \ Range(p.txs))
  BY <1>1, Removal
<1>4. Fifo!Next
  BY <1>2, <1>3, ViewTakeOut
<1> QED  BY <1>3, <1>4 DEF IInv

LEMMA ProposeStep ==
  ASSUME IInv, Propose
  PROVE  IInv' /\ queue' = queue
<1> DEFINE count == IF Len(queue) > TMax THEN TMax ELSE Len(queue)
<1>1. queue \in Seq(Cell) /\ Len(queue) \in Nat /\ count \in Nat /\ count <= Len(queue)
  BY CapPositive DEF IInv, Coherent
<1>2. \A j \in 1 .. Len(queue) : queue[j].tx \in Tx
  BY <1>1, TxsType
<1>3. proposal' = {[own |-> TRUE, txs |-> [i \in 1..count |-> queue[i].tx]]}
  BY DEF Propose
<1> HIDE DEF count
<1> DEFINE txs == [i \in 1..count |-> queue[i].tx]
<1>4. txs \in Seq(Tx)
  BY <1>1, <1>2
<1>5. \A p \in proposal' : p.txs \in Seq(Tx)
  <2>1. proposal' = {[own |-> TRUE, txs |-> txs]}
    BY <1>3
  <2> HIDE DEF txs
  <2>2. \A p \in proposal' : p.txs = txs
    BY <2>1
  <2> QED  BY <1>4, <2>2
<1> QED  BY <1>5 DEF IInv, Propose

\* A restart empties the pool: everything is taken out.
LEMMA RestartStep ==
  ASSUME IInv, Restart
  PROVE  IInv' /\ Fifo!Next
<1>1. TxsOf(queue) \in Seq(Tx)
  BY TxsType DEF IInv, Coherent
<1>2. queue' = <<>> /\ index' = <<>> /\ proposal' = {} /\ txCh' = <<>>
  BY DEF Restart
<1>3. TxsOf(queue') = <<>>
  BY <1>2 DEF TxsOf
<1>4. Filter(TxsOf(queue), Tx \ Tx) = <<>>
  <2>1. \A j \in 1 .. Len(TxsOf(queue)) : TxsOf(queue)[j] \notin Tx \ Tx
    OBVIOUS
  <2> QED  BY <1>1, <2>1, FilterEmpty
<1>5. Fifo!Next
  <2>1. TxsOf(queue') = Filter(TxsOf(queue), Tx \ Tx) /\ Tx \in SUBSET Tx
    BY <1>3, <1>4
  <2> QED  BY <2>1, ViewTakeOut
<1> QED  BY <1>2, <1>5, EmptyCoherent DEF IInv

LEMMA NextStep ==
  ASSUME IInv, [Next]_vars
  PROVE  IInv' /\ (Fifo!Next \/ queue' = queue)
<1>1. ASSUME NEW t \in Tx, Gossip(t)
      PROVE  IInv' /\ queue' = queue
  <2>1. txCh' \in Seq(Tx)
    BY <1>1 DEF IInv, Gossip
  <2> QED  BY <1>1, <2>1 DEF IInv, Gossip
<1>2. ASSUME NEW b \in Foreign, ReceiveProposal(b)
      PROVE  IInv' /\ queue' = queue
  <2>1. b \in Seq(Tx)
    BY ForeignSeqs
  <2>2. \A p \in proposal' : p.txs \in Seq(Tx)
    BY <1>2, <2>1 DEF ReceiveProposal
  <2> QED  BY <1>2, <2>2 DEF IInv, ReceiveProposal
<1>3. CASE RoundTimesOut
  BY <1>3 DEF IInv, RoundTimesOut
<1>4. CASE OnCommit
  BY <1>4, RemovalStep DEF OnCommit
<1>5. CASE OnReject
  BY <1>5, RemovalStep DEF OnReject
<1>6. CASE UNCHANGED vars
  BY <1>6 DEF IInv, vars
<1> QED  BY Zenon, <1>1, <1>2, <1>3, <1>4, <1>5, <1>6, EnqueueStep, ProposeStep, RestartStep DEF Next

-----------------------------------------------------------------------------
\* Whatever evictions, repeated gossip, foreign proposals and restarts come
\* between a proposal and its end, list and index describe one pool, without
\* duplicates and within its capacity.
THEOREM PoolIsCoherent == Spec => []PoolCoherent
<1>1. IInv => PoolCoherent
  BY DEF IInv, Coherent, PoolCoherent, Pooled
<1>2. IInv /\ [Next]_vars => IInv'
  BY NextStep
<1> QED  BY <1>1, <1>2, InitIInv, PTL DEF Spec

\* List and index implement a bounded queue: Enqueue is an arrival, pushing out
\* the oldest transaction of a full pool, the end of a round takes out exactly
\* the transactions it names, a restart all, and nothing else changes it.
THEOREM PoolImplementsFifo == Spec => PoolIsFifo
<1>1. Init => Fifo!Init
  <2>1. ASSUME queue = <<>>
        PROVE  [i \in DOMAIN queue |-> queue[i].tx] = <<>>
    BY <2>1
  <2> QED  BY <2>1 DEF Init, Fifo!Init
<1>2. IInv /\ [Next]_vars => [Fifo!Next]_([i \in DOMAIN queue |-> queue[i].tx])
  <2>1. queue' = queue => [i \in DOMAIN queue |-> queue[i].tx]' = [i \in DOMAIN queue |-> queue[i].tx]
    OBVIOUS
  <2> QED  BY <2>1, NextStep
<1>3. IInv /\ [Next]_vars => IInv'
  BY NextStep
<1> QED  BY <1>1, <1>2, <1>3, InitIInv, PTL DEF Spec, PoolIsFifo, Fifo!Spec

-----------------------------------------------------------------------------
(* The limiter.                                                            *)

WindowOK(w) ==
  /\ w \in Window
  /\ w.started <= now /\ w.txs <= MaxTxs /\ w.requests <= MaxReqs

\* A window that has counted something has a grant to show for it.
Accounted(p, w) ==
  w.txs > 0 \/ w.requests > 0 =>
    \E g \in granted : g.peer = p /\ g.at \in Nat /\ w.started <= g.at

\* What is recorded of a submission that is allowed.
Grant(p, n) ==
  [peer |-> p, at |-> now, txs |-> n, window |-> Current(p).started, seq |-> Cardinality(granted)]

\* The inductive invariant of the limiter.
LimiterInv ==
  /\ now \in Nat
  /\ IsFiniteSet(DOMAIN windows) /\ Cardinality(DOMAIN windows) <= MaxTracked
  /\ \A p \in DOMAIN windows : WindowOK(windows[p]) /\ Accounted(p, windows[p])

\* A new window is empty and starts now.
LEMMA NewWindowOK ==
  ASSUME LimiterInv
  PROVE  WindowOK(NewWindow) /\ NewWindow.txs = 0 /\ NewWindow.requests = 0
BY LimiterParameters DEF LimiterInv, WindowOK, Window, NewWindow

\* The window a call counts in.
LEMMA CurrentOK ==
  ASSUME LimiterInv, NEW p
  PROVE  WindowOK(Current(p)) /\ Accounted(p, Current(p))
<1>1. CASE p \in DOMAIN windows /\ ~Expired(windows[p])
  BY <1>1 DEF Current, LimiterInv
<1>2. CASE ~(p \in DOMAIN windows /\ ~Expired(windows[p]))
  BY <1>2, NewWindowOK DEF Current, Accounted
<1> QED
  BY <1>1, <1>2

\* Pruning only removes windows.
LEMMA PruneOK ==
  ASSUME LimiterInv, NEW p
  PROVE  /\ DOMAIN Prune(p) \subseteq DOMAIN windows
         /\ \A q \in DOMAIN Prune(p) : Prune(p)[q] = windows[q]
         /\ p \in DOMAIN windows => Prune(p) = windows
         /\ IsFiniteSet(DOMAIN Prune(p))
         /\ Cardinality(DOMAIN Prune(p)) \in Nat
         /\ Cardinality(DOMAIN Prune(p)) <= MaxTracked
<1>1. /\ DOMAIN Prune(p) \subseteq DOMAIN windows
      /\ \A q \in DOMAIN Prune(p) : Prune(p)[q] = windows[q]
      /\ p \in DOMAIN windows => Prune(p) = windows
  BY DEF Prune
<1>2. /\ IsFiniteSet(DOMAIN Prune(p))
      /\ Cardinality(DOMAIN Prune(p)) <= Cardinality(DOMAIN windows)
  BY <1>1, FS_Subset DEF LimiterInv
<1> QED
  BY <1>1, <1>2, FS_CardinalityType, LimiterParameters DEF LimiterInv

\* Counting keeps a window within its limits.
LEMMA CountOK ==
  ASSUME LimiterInv, NEW w, WindowOK(w), NEW n \in 1 .. MaxTxs
  PROVE  WindowOK(Count(w, n)) /\ Count(w, n).started = w.started
<1>1. CASE Fits(w, n)
  <2>1. Count(w, n) = [started |-> w.started, txs |-> w.txs + n, requests |-> w.requests + 1]
    BY Zenon, <1>1 DEF Count, WindowOK, Window
  <2> QED
    BY <1>1, <2>1, LimiterParameters DEF Fits, WindowOK, Window, LimiterInv
<1>2. CASE ~Fits(w, n)
  BY <1>2 DEF Count
<1> QED
  BY Zenon, <1>1, <1>2

\* allow preserves the invariant.
LEMMA AllowOK ==
  ASSUME LimiterInv, NEW p, NEW n, Allow(p, n), UNCHANGED now
  PROVE  LimiterInv'
<1>1. granted \subseteq granted'
  BY DEF Allow
<1>2. ASSUME NEW q, NEW w, WindowOK(w), Accounted(q, w) PROVE WindowOK(w)' /\ Accounted(q, w)'
  BY <1>1, <1>2 DEF WindowOK, Accounted
<1>3. CASE n \notin 1 .. MaxTxs
  <2>1. windows' = windows
    BY <1>3 DEF Allow, After
  <2> QED
    BY <1>2, <2>1 DEF LimiterInv
<1>4. CASE n \in 1 .. MaxTxs /\ ~Room(p)
  <2>1. windows' = Prune(p)
    BY <1>4 DEF Allow, After
  <2> QED
    BY <1>2, <2>1, PruneOK DEF LimiterInv
<1>5. CASE n \in 1 .. MaxTxs /\ Room(p)
  <2> DEFINE D == DOMAIN Prune(p)
  <2>0. PICK c : c = Count(Current(p), n)
    OBVIOUS
  <2>1. windows' = [q \in D \cup {p} |-> IF q = p THEN c ELSE Prune(p)[q]]
    BY <1>5, <2>0 DEF Allow, After
  <2>2. IsFiniteSet(D \cup {p}) /\ Cardinality(D \cup {p}) <= MaxTracked
    <3>1. IsFiniteSet(D) /\ Cardinality(D) \in Nat /\ Cardinality(D) <= MaxTracked
      BY PruneOK
    <3>2. CASE p \in D
      BY Zenon, <3>1, <3>2, FS_AddElement
    <3>3. CASE p \notin D
      <4>1. p \notin DOMAIN windows
        BY <3>3, PruneOK
      <4>2. Cardinality(D) < MaxTracked
        BY <1>5, <4>1 DEF Room
      <4> QED
        BY <3>1, <3>3, <4>2, FS_AddElement, LimiterParameters
    <3> QED
      BY <3>2, <3>3
  <2>3. WindowOK(c)' /\ Accounted(p, c)'
    <3>1. WindowOK(Current(p)) /\ Accounted(p, Current(p))
      BY CurrentOK
    <3>2. WindowOK(c) /\ c.started = Current(p).started
      BY Zenon, <1>5, <2>0, <3>1, CountOK
    <3>3. CASE Fits(Current(p), n)
      <4>1. PICK g : g = Grant(p, n)
        OBVIOUS
      <4>2. g \in granted' /\ g.peer = p /\ g.at = now
        BY Zenon, <1>5, <3>3, <4>1 DEF Allow, Allowed, Grant
      <4>3. c.started <= g.at /\ g.at \in Nat
        BY <3>2, <4>2 DEF WindowOK, LimiterInv
      <4> QED
        BY <3>2, <4>2, <4>3 DEF WindowOK, Accounted
    <3>4. CASE ~Fits(Current(p), n)
      <4>1. c = Current(p)
        BY <2>0, <3>4 DEF Count
      <4> QED
        BY <1>2, <3>1, <4>1
    <3> QED
      BY <3>3, <3>4
  <2>4. ASSUME NEW q \in D, NEW w, w = Prune(p)[q] PROVE WindowOK(w)' /\ Accounted(q, w)'
    BY <1>2, <2>4, PruneOK DEF LimiterInv
  <2>5. now' \in Nat /\ DOMAIN windows' = D \cup {p}
    BY <2>1 DEF LimiterInv
  <2>6. ASSUME NEW q \in DOMAIN windows' PROVE WindowOK(windows[q])' /\ Accounted(q, windows[q])'
    BY Zenon, <2>1, <2>3, <2>4, <2>5
  <2> HIDE DEF D
  <2> QED
    BY <2>2, <2>5, <2>6 DEF LimiterInv
<1> QED
  BY <1>3, <1>4, <1>5

\* The invariant of the limiter is inductive.
LEMMA LimiterInvInit == LimiterInit => LimiterInv
BY FS_EmptySet, LimiterParameters DEF LimiterInit, LimiterInv

\* Every step of the limiter accounts for what it does.
LEMMA LimiterInvNext == LimiterInv /\ [LimiterNext]_limiterVars => LimiterInv'
<1> SUFFICES ASSUME LimiterInv, [LimiterNext]_limiterVars PROVE LimiterInv'
  OBVIOUS
<1>1. CASE UNCHANGED limiterVars
  BY <1>1 DEF limiterVars, LimiterInv, WindowOK, Accounted
<1>2. CASE Advance
  BY <1>2 DEF Advance, LimiterInv, WindowOK, Window, Accounted
<1>3. CASE Forget
  BY <1>3, FS_EmptySet, LimiterParameters DEF Forget, LimiterInv
<1> QED
  BY Zenon, <1>1, <1>2, <1>3, AllowOK DEF LimiterNext, Call

\* What the invariant says of an address that is refused.
LEMMA RefusedForAReason == LimiterInv => QuietAdmitted
<1> SUFFICES ASSUME LimiterInv, NEW p \in Peers, NEW n \in 1 .. MaxTxs, ~Allowed(p, n),
                    ~\E g \in granted : g.peer = p /\ now - g.at < SubmitWindow
             PROVE  Cardinality({q \in DOMAIN windows \ {p} :
                                   now - windows[q].started < SubmitWindow}) >= MaxTracked
  BY DEF QuietAdmitted
<1> DEFINE w == Current(p)
<1>1. WindowOK(w) /\ Accounted(p, w)
  BY CurrentOK
<1>2. Fits(w, n)
  <2>1. ASSUME ~Fits(w, n) PROVE FALSE
    <3>1. w.txs > 0 \/ w.requests > 0
      BY <1>1, <2>1, LimiterParameters DEF Fits, WindowOK, Window
    <3>2. now - w.started < SubmitWindow
      BY <3>1, NewWindowOK, LimiterParameters DEF Current, Expired, LimiterInv, WindowOK, Window
    <3> QED
      BY <1>1, <3>1, <3>2, LimiterParameters DEF Accounted, WindowOK, Window, LimiterInv
  <2> QED
    BY Zenon, <2>1
<1>3. ~Room(p)
  BY <1>2 DEF Allowed
<1>4. p \notin DOMAIN windows /\ ~(Cardinality(DOMAIN Prune(p)) < MaxTracked)
  BY <1>3 DEF Room
<1>5. DOMAIN Prune(p) = {x \in DOMAIN windows : ~Expired(windows[x])}
  BY <1>4 DEF Prune
<1>6. DOMAIN Prune(p) = {q \in DOMAIN windows \ {p} : now - windows[q].started < SubmitWindow}
  BY <1>4, <1>5, LimiterParameters DEF Expired, LimiterInv, WindowOK, Window
<1> QED
  BY <1>4, <1>6, PruneOK, LimiterParameters

-----------------------------------------------------------------------------
(* What the grants of a window add up to.                                  *)

LEMMA TallyIn ==
  ASSUME NEW G, IsFiniteSet(G), \A x \in G : x.txs \in Nat, NEW S \in SUBSET G
  PROVE  /\ Tally(S) = SumFunctionOnSet([x \in G |-> x.txs], S)
         /\ Tally(S) \in Nat /\ Tally(S) <= Tally(G)
<1> DEFINE f == [x \in G |-> x.txs]
           h == [x \in S |-> x.txs]
<1>1. IsFiniteSet(S)
  BY FS_Subset
<1>2. \A x \in S : f[x] \in Int /\ h[x] = f[x]
  OBVIOUS
<1>3. \A x \in G : f[x] \in Nat
  OBVIOUS
<1>4. Tally(S) = SumFunctionOnSet(h, S) /\ Tally(G) = SumFunctionOnSet(f, G)
  BY DEF Tally
<1> HIDE DEF f, h
<1>5. Tally(S) = SumFunctionOnSet(f, S)
  BY Zenon, <1>1, <1>2, <1>4, SumSame
<1>6. SumFunctionOnSet(f, S) \in Nat /\ SumFunctionOnSet(f, S) <= SumFunctionOnSet(f, G)
  BY <1>3, SumMonotone
<1> QED  BY Zenon, <1>4, <1>5, <1>6 DEF f

LEMMA TallyNone == Tally({}) = 0
BY SumNone DEF Tally

LEMMA TallyJoin ==
  ASSUME NEW G, IsFiniteSet(G), NEW H, IsFiniteSet(H), G \cap H = {},
         \A x \in G \cup H : x.txs \in Nat
  PROVE  Tally(G \cup H) = Tally(G) + Tally(H)
<1> DEFINE U == G \cup H
           f == [x \in U |-> x.txs]
<1>1. IsFiniteSet(U)
  BY Zenon, FS_Union
<1>2. \A x \in G \cup H : f[x] \in Int
  OBVIOUS
<1>3. SumFunctionOnSet(f, G \cup H) = SumFunctionOnSet(f, G) + SumFunctionOnSet(f, H)
  <2> HIDE DEF f
  <2> QED  BY <1>2, SumDisjoint
<1>4. G \in SUBSET U /\ H \in SUBSET U /\ U \in SUBSET U
  OBVIOUS
<1> HIDE DEF U
<1>5. \A S \in SUBSET U : Tally(S) = SumFunctionOnSet([x \in U |-> x.txs], S)
  BY <1>1, TallyIn DEF U
<1>6. Tally(G) = SumFunctionOnSet(f, G) /\ Tally(H) = SumFunctionOnSet(f, H) /\ Tally(U) = SumFunctionOnSet(f, U)
  BY Zenon, <1>4, <1>5
<1> QED  BY <1>3, <1>6 DEF U

LEMMA TallyOne ==
  ASSUME NEW x, x.txs \in Nat
  PROVE  Tally({x}) = x.txs
<1> DEFINE f == [y \in {x} |-> y.txs]
<1>1. \A y \in {x} : f[y] \in Int
  OBVIOUS
<1>2. IsFiniteSet({x}) /\ x \in {x} /\ {x} \ {x} = {} /\ f[x] = x.txs
  BY Zenon, FS_Singleton
<1> HIDE DEF f
<1>3. SumFunctionOnSet(f, {x}) = f[x] + SumFunctionOnSet(f, {x} \ {x})
  BY Zenon, <1>1, <1>2, SumOut
<1>4. SumFunctionOnSet(f, {x} \ {x}) = 0
  BY Zenon, <1>2, SumNone
<1> QED  BY <1>2, <1>3, <1>4 DEF Tally, f

\* The grants of one window.
GrantsOf(grants, p, start) == {x \in grants : x.peer = p /\ x.window = start}

GrantOK(g) ==
  /\ g.at \in Nat /\ g.window \in Nat /\ g.txs \in Nat /\ g.seq \in Nat
  /\ g.window <= g.at /\ g.at < g.window + SubmitWindow /\ g.at <= now
  /\ g.seq < Cardinality(granted)

\* Windows of one address do not overlap.
Apart(start, other) == start = other \/ start + SubmitWindow <= other

\* The window of an address accounts for what was granted in it, and earlier
\* grants were in windows that had ended when it started; without a window all
\* of them have ended.
SlideInv ==
  /\ IsFiniteSet(granted)
  /\ \A g \in granted : GrantOK(g)
  /\ \A g, h \in granted : g.peer = h.peer =>
       Apart(g.window, h.window) \/ Apart(h.window, g.window)
  /\ \A g \in granted : Tally(GrantsOf(granted, g.peer, g.window)) <= MaxTxs
  /\ \A p \in DOMAIN windows :
       /\ Tally(GrantsOf(granted, p, windows[p].started)) = windows[p].txs
       /\ \A g \in granted : g.peer = p => Apart(g.window, windows[p].started)
  /\ \A g \in granted : g.peer \notin DOMAIN windows => g.window + SubmitWindow <= now

\* At most two windows meet an interval of the length of one.
LEMMA TwoWindows ==
  ASSUME LimiterInv, SlideInv, NEW p, NEW g \in granted, g.peer = p
  PROVE  GrantedTo(p, g.at, g.at + SubmitWindow - 1) <= 2 * MaxTxs
<1> DEFINE S == {x \in granted : x.peer = p /\ g.at <= x.at /\ x.at <= g.at + SubmitWindow - 1}
           A == GrantsOf(granted, p, g.window)
<1>1. GrantedTo(p, g.at, g.at + SubmitWindow - 1) = Tally(S)
  BY Zenon DEF GrantedTo
<1>2. IsFiniteSet(granted) /\ S \subseteq granted /\ IsFiniteSet(S)
  BY Zenon, FS_Subset DEF SlideInv
<1>3. \A x \in granted : GrantOK(x) /\ x.txs \in Nat
  BY Zenon DEF SlideInv, GrantOK
<1>4. A \subseteq granted /\ IsFiniteSet(A) /\ Tally(A) <= MaxTxs
  BY Zenon, <1>2, FS_Subset DEF SlideInv, GrantsOf
<1>5. SubmitWindow \in Nat \ {0} /\ MaxTxs \in Nat \ {0}
  BY LimiterParameters
<1>6. ASSUME NEW x \in S, x \notin A
      PROVE  g.window + SubmitWindow <= x.window
  <2>1. GrantOK(x) /\ GrantOK(g) /\ x \in granted
    BY Zenon, <1>3
  <2>2. Apart(g.window, x.window) \/ Apart(x.window, g.window)
    BY DEF SlideInv
  <2>3. x.window # g.window
    BY <1>6 DEF GrantsOf
  <2>4. g.at <= x.at
    OBVIOUS
  <2> QED  BY <1>5, <2>1, <2>2, <2>3, <2>4 DEF Apart, GrantOK
<1>7. ASSUME NEW x \in S, x \notin A, NEW y \in S, y \notin A
      PROVE  y \in GrantsOf(granted, p, x.window)
  <2>1. GrantOK(x) /\ GrantOK(g) /\ GrantOK(y)
    BY Zenon, <1>3
  <2>2. Apart(y.window, x.window) \/ Apart(x.window, y.window)
    BY DEF SlideInv
  <2>3. g.window + SubmitWindow <= x.window /\ g.window + SubmitWindow <= y.window
    BY <1>6, <1>7
  <2>4. x.at <= g.at + SubmitWindow - 1 /\ y.at <= g.at + SubmitWindow - 1
    BY Zenon
  <2>5. x.window = y.window
    BY <1>5, <2>1, <2>2, <2>3, <2>4 DEF Apart, GrantOK
  <2> QED  BY <2>5 DEF GrantsOf
<1>8. CASE S \subseteq A
  <2>1. Tally(S) <= Tally(A) /\ Tally(S) \in Nat
    BY Zenon, <1>3, <1>4, <1>8, TallyIn
  <2>2. Tally(A) \in Nat
    BY Zenon, <1>3, <1>4, TallyIn
  <2> QED  BY <1>1, <1>4, <1>5, <2>1, <2>2
<1>9. CASE ~(S \subseteq A)
  <2>1. PICK x \in S : x \notin A
    BY Zenon, <1>9
  <2> DEFINE B == GrantsOf(granted, p, x.window)
  <2>2. B \subseteq granted /\ IsFiniteSet(B) /\ Tally(B) <= MaxTxs
    BY <1>2, FS_Subset DEF SlideInv, GrantsOf
  <2>3. A \cap B = {}
    BY Zenon, <2>1 DEF GrantsOf
  <2>4. S \in SUBSET (A \cup B)
    BY Zenon, <1>7, <2>1
  <2>5. \A y \in A \cup B : y.txs \in Nat
    BY Zenon, <1>3, <1>4, <2>2
  <2> HIDE DEF A, B, S
  <2>6. Tally(A \cup B) = Tally(A) + Tally(B) /\ IsFiniteSet(A \cup B)
    BY Zenon, <1>4, <2>2, <2>3, <2>5, TallyJoin, FS_Union
  <2>7. Tally(S) \in Nat /\ Tally(S) <= Tally(A \cup B)
    BY Zenon, <2>4, <2>5, <2>6, TallyIn
  <2>8. Tally(A) \in Nat /\ Tally(B) \in Nat
    BY Zenon, <1>4, <2>2, <2>5, TallyIn
  <2> QED  BY <1>1, <1>4, <1>5, <2>2, <2>6, <2>7, <2>8
<1> QED  BY <1>8, <1>9

\* The grants and the window a call counts in.
LEMMA CurrentTally ==
  ASSUME LimiterInv, SlideInv, NEW p
  PROVE  /\ Tally(GrantsOf(granted, p, Current(p).started)) = Current(p).txs
         /\ \A g \in granted : g.peer = p => Apart(g.window, Current(p).started)
         /\ Current(p).started <= now /\ now < Current(p).started + SubmitWindow
         /\ Current(p) \in Window
<1>0. SubmitWindow \in Nat \ {0} /\ now \in Nat
  BY Zenon, LimiterParameters DEF LimiterInv
<1>1. CASE p \in DOMAIN windows /\ ~Expired(windows[p])
  <2>1. Current(p) = windows[p]
    BY <1>1 DEF Current
  <2>2. WindowOK(windows[p])
    BY Zenon, <1>1 DEF LimiterInv
  <2>3. /\ Tally(GrantsOf(granted, p, windows[p].started)) = windows[p].txs
        /\ \A g \in granted : g.peer = p => Apart(g.window, windows[p].started)
    BY Zenon, <1>1 DEF SlideInv
  <2> QED  BY <1>0, <1>1, <2>1, <2>2, <2>3 DEF WindowOK, Window, Expired
<1>2. CASE ~(p \in DOMAIN windows /\ ~Expired(windows[p]))
  <2>1. Current(p) = NewWindow
    BY <1>2 DEF Current
  <2>2. Current(p).started = now /\ Current(p).txs = 0 /\ Current(p) \in Window
    BY <1>0, <2>1 DEF NewWindow, Window
  <2>3. ASSUME NEW g \in granted, g.peer = p
        PROVE  g.window + SubmitWindow <= now
    <3>1. CASE p \notin DOMAIN windows
      BY Zenon, <2>3, <3>1 DEF SlideInv
    <3>2. CASE p \in DOMAIN windows
      <4>1. Apart(g.window, windows[p].started)
        BY Zenon, <2>3, <3>2 DEF SlideInv
      <4>2. WindowOK(windows[p]) /\ GrantOK(g)
        BY Zenon, <3>2 DEF LimiterInv, SlideInv
      <4>3. now - windows[p].started >= SubmitWindow
        BY Zenon, <1>2, <3>2 DEF Expired
      <4> QED  BY <1>0, <4>1, <4>2, <4>3 DEF Apart, WindowOK, Window, GrantOK
    <3> QED  BY Zenon, <3>1, <3>2
  <2>4. \A g \in granted : g.peer = p => g.window # now
    <3>1. ASSUME NEW g \in granted, g.peer = p PROVE g.window # now
      <4>1. g.window \in Nat
        BY DEF SlideInv, GrantOK
      <4> QED  BY <1>0, <2>3, <3>1, <4>1
    <3> QED  BY <3>1
  <2>5. GrantsOf(granted, p, now) = {}
    BY Zenon, <2>4 DEF GrantsOf
  <2> QED  BY <1>0, <2>2, <2>3, <2>5, TallyNone DEF Apart
<1> QED  BY Zenon, <1>1, <1>2

\* A grant is counted in the window it is recorded with.
LEMMA GrantCounted ==
  ASSUME LimiterInv, SlideInv, NEW p, NEW n \in 1 .. MaxTxs, Fits(Current(p), n),
         UNCHANGED now, granted' = granted \cup {Grant(p, n)}
  PROVE  /\ IsFiniteSet(granted')
         /\ \A g \in granted' : GrantOK(g)'
         /\ \A g, h \in granted' : g.peer = h.peer =>
              Apart(g.window, h.window) \/ Apart(h.window, g.window)
         /\ \A g \in granted' : Tally(GrantsOf(granted', g.peer, g.window)) <= MaxTxs
         /\ Tally(GrantsOf(granted', p, Current(p).started)) = Current(p).txs + n
         /\ \A g \in granted' : g.peer = p => Apart(g.window, Current(p).started)
         /\ \A q, start : q # p => GrantsOf(granted', q, start) = GrantsOf(granted, q, start)
<1> DEFINE w == Current(p)
           start == w.started
<1>1. PICK x : x = Grant(p, n)
  BY Zenon
<1>2. /\ x.peer = p /\ x.at = now /\ x.txs = n /\ x.window = start
      /\ x.seq = Cardinality(granted) /\ granted' = granted \cup {x}
  BY Zenon, <1>1 DEF Grant
<1>3. /\ Tally(GrantsOf(granted, p, start)) = w.txs
      /\ \A g \in granted : g.peer = p => Apart(g.window, start)
      /\ start <= now /\ now < start + SubmitWindow /\ w \in Window
  BY Zenon, CurrentTally
<1>4. now \in Nat /\ start \in Nat /\ w.txs \in Nat /\ n \in Nat /\ SubmitWindow \in Nat \ {0} /\ MaxTxs \in Nat
  BY <1>3, LimiterParameters DEF LimiterInv, Window
<1>5. w.txs + n <= MaxTxs
  BY Zenon DEF Fits
<1> HIDE DEF w, start
<1>6. IsFiniteSet(granted) /\ Cardinality(granted) \in Nat
  BY Zenon, FS_CardinalityType DEF SlideInv
<1>7. \A g \in granted : GrantOK(g)
  BY DEF SlideInv
<1>8. x \notin granted
  <2> SUFFICES ASSUME x \in granted
               PROVE  FALSE
    OBVIOUS
  <2>1. x.seq < Cardinality(granted)
    BY <1>7 DEF GrantOK
  <2> QED  BY <1>2, <1>6, <2>1
<1>9. IsFiniteSet(granted') /\ Cardinality(granted') = Cardinality(granted) + 1
  BY <1>2, <1>6, <1>8, FS_AddElement
<1>10. \A g \in granted' : GrantOK(g)'
  <2> SUFFICES ASSUME NEW g \in granted'
               PROVE  GrantOK(g)'
    BY Zenon
  <2>1. CASE g \in granted
    BY <1>4, <1>6, <1>7, <1>9, <2>1 DEF GrantOK
  <2>2. CASE g = x
    BY <1>2, <1>3, <1>4, <1>6, <1>9, <2>2 DEF GrantOK
  <2> QED  BY Zenon, <1>2, <2>1, <2>2
<1>11. \A g, h \in granted' : g.peer = h.peer =>
         Apart(g.window, h.window) \/ Apart(h.window, g.window)
  <2> SUFFICES ASSUME NEW g \in granted', NEW h \in granted', g.peer = h.peer
               PROVE  Apart(g.window, h.window) \/ Apart(h.window, g.window)
    BY Zenon
  <2>1. CASE g \in granted /\ h \in granted
    BY Zenon, <2>1 DEF SlideInv
  <2>2. CASE g = x \/ h = x
    BY Zenon, <1>2, <1>3, <2>2 DEF Apart
  <2> QED  BY Zenon, <1>2, <2>1, <2>2
<1>12. \A q, s : GrantsOf(granted', q, s) = IF q = p /\ s = start THEN GrantsOf(granted, q, s) \cup {x} ELSE GrantsOf(granted, q, s)
  BY <1>2 DEF GrantsOf
<1>13. Tally(GrantsOf(granted', p, start)) = w.txs + n
  <2> DEFINE G == GrantsOf(granted, p, start)
  <2>1. G \subseteq granted /\ IsFiniteSet(G) /\ x \notin G
    BY Zenon, <1>6, <1>8, FS_Subset DEF GrantsOf
  <2>2. \A y \in G \cup {x} : y.txs \in Nat
    BY Zenon, <1>2, <1>4, <1>7, <2>1 DEF GrantOK
  <2>3. IsFiniteSet({x}) /\ G \cap {x} = {} /\ x.txs \in Nat
    BY <1>2, <1>4, <2>1, FS_Singleton
  <2>4. GrantsOf(granted', p, start) = G \cup {x}
    BY Zenon, <1>12
  <2> HIDE DEF G
  <2>5. Tally(G \cup {x}) = Tally(G) + Tally({x})
    BY Zenon, <2>1, <2>2, <2>3, TallyJoin
  <2>6. Tally({x}) = n
    BY Zenon, <1>2, <2>3, TallyOne
  <2> QED  BY Zenon, <1>3, <2>4, <2>5, <2>6 DEF G
<1>14. \A g \in granted' : Tally(GrantsOf(granted', g.peer, g.window)) <= MaxTxs
  <2> SUFFICES ASSUME NEW g \in granted'
               PROVE  Tally(GrantsOf(granted', g.peer, g.window)) <= MaxTxs
    OBVIOUS
  <2>1. CASE g.peer = p /\ g.window = start
    BY Zenon, <1>5, <1>13, <2>1
  <2>2. CASE ~(g.peer = p /\ g.window = start)
    <3>1. g \in granted
      BY Zenon, <1>2, <2>2
    <3>2. GrantsOf(granted', g.peer, g.window) = GrantsOf(granted, g.peer, g.window)
      BY Zenon, <1>12, <2>2
    <3>3. Tally(GrantsOf(granted, g.peer, g.window)) <= MaxTxs
      BY Zenon, <3>1 DEF SlideInv
    <3> QED  BY Zenon, <3>2, <3>3
  <2> QED  BY Zenon, <2>1, <2>2
<1>15. \A g \in granted' : g.peer = p => Apart(g.window, start)
  BY <1>2, <1>3 DEF Apart
<1>16. \A q, s : q # p => GrantsOf(granted', q, s) = GrantsOf(granted, q, s)
  BY Zenon, <1>12
<1> QED  BY Zenon, <1>9, <1>10, <1>11, <1>13, <1>14, <1>15, <1>16 DEF w, start

\* A window that is pruned has ended, with all that was granted in it.
LEMMA PrunedEnded ==
  ASSUME LimiterInv, SlideInv, NEW p, NEW g \in granted, g.peer \notin DOMAIN Prune(p)
  PROVE  g.window + SubmitWindow <= now
<1>0. SubmitWindow \in Nat \ {0} /\ now \in Nat
  BY Zenon, LimiterParameters DEF LimiterInv
<1> DEFINE q == g.peer
<1>1. CASE q \notin DOMAIN windows
  BY Zenon, <1>1 DEF SlideInv
<1>2. CASE q \in DOMAIN windows
  <2>1. Expired(windows[q])
    BY Zenon, <1>2 DEF Prune
  <2>2. WindowOK(windows[q]) /\ GrantOK(g) /\ Apart(g.window, windows[q].started)
    BY Zenon, <1>2 DEF LimiterInv, SlideInv
  <2> QED  BY <1>0, <2>1, <2>2 DEF Apart, WindowOK, Window, GrantOK, Expired
<1> QED  BY Zenon, <1>1, <1>2

\* allow keeps the account.
LEMMA SlideAllow ==
  ASSUME LimiterInv, SlideInv, NEW p, NEW n, Allow(p, n), UNCHANGED now
  PROVE  SlideInv'
<1>1. CASE n \notin 1 .. MaxTxs
  <2>1. windows' = windows /\ granted' = granted
    BY Zenon, <1>1 DEF Allow, After, Allowed
  <2> QED  BY Zenon, <2>1 DEF SlideInv, GrantOK, Apart
<1>2. CASE n \in 1 .. MaxTxs /\ ~Room(p)
  <2>1. windows' = Prune(p) /\ granted' = granted
    BY Zenon, <1>2 DEF Allow, After, Allowed
  <2>2. \A q, start : GrantsOf(granted', q, start) = GrantsOf(granted, q, start)
    BY Zenon, <2>1 DEF GrantsOf
  <2>3. ASSUME NEW q \in DOMAIN windows'
        PROVE  /\ Tally(GrantsOf(granted', q, windows'[q].started)) = windows'[q].txs
               /\ \A g \in granted' : g.peer = q => Apart(g.window, windows'[q].started)
    <3>1. q \in DOMAIN windows /\ windows'[q] = windows[q]
      BY Zenon, <2>1, PruneOK
    <3> QED  BY Zenon, <2>1, <2>2, <3>1 DEF SlideInv
  <2>4. \A g \in granted' : g.peer \notin DOMAIN windows' => g.window + SubmitWindow <= now'
    BY Zenon, <2>1, PrunedEnded
  <2>5. /\ IsFiniteSet(granted') /\ \A g \in granted' : GrantOK(g)'
        /\ \A g, h \in granted' : g.peer = h.peer =>
              Apart(g.window, h.window) \/ Apart(h.window, g.window)
        /\ \A g \in granted' : Tally(GrantsOf(granted', g.peer, g.window)) <= MaxTxs
    BY Zenon, <2>1, <2>2 DEF SlideInv, GrantOK
  <2> QED  BY Zenon, <2>3, <2>4, <2>5 DEF SlideInv, Apart
<1>3. CASE n \in 1 .. MaxTxs /\ Room(p)
  <2> DEFINE D == DOMAIN Prune(p)
  <2>0. PICK c : c = Count(Current(p), n)
    BY Zenon
  <2>1. windows' = [q \in D \cup {p} |-> IF q = p THEN c ELSE Prune(p)[q]]
    BY Zenon, <1>3, <2>0 DEF Allow, After
  <2>2. granted \subseteq granted' /\ \A g \in granted' : g \in granted \/ g.peer = p
    BY DEF Allow
  <2>3. /\ IsFiniteSet(granted') /\ \A g \in granted' : GrantOK(g)'
        /\ \A g, h \in granted' : g.peer = h.peer =>
              Apart(g.window, h.window) \/ Apart(h.window, g.window)
        /\ \A g \in granted' : Tally(GrantsOf(granted', g.peer, g.window)) <= MaxTxs
        /\ Tally(GrantsOf(granted', p, c.started)) = c.txs
        /\ \A g \in granted' : g.peer = p => Apart(g.window, c.started)
        /\ \A q, start : q # p => GrantsOf(granted', q, start) = GrantsOf(granted, q, start)
    <3>1. CASE Fits(Current(p), n)
      <4>1. granted' = granted \cup {Grant(p, n)}
        BY Zenon, <1>3, <3>1 DEF Allow, Allowed, Grant
      <4>2. Current(p) \in Window
        BY CurrentTally
      <4>3. c.started = Current(p).started /\ c.txs = Current(p).txs + n
        BY Zenon, <2>0, <3>1, <4>2 DEF Count, Window
      <4> QED  BY Zenon, <1>3, <3>1, <4>1, <4>3, GrantCounted
    <3>2. CASE ~Fits(Current(p), n)
      <4>1. granted' = granted /\ c = Current(p)
        BY Zenon, <2>0, <3>2 DEF Allow, Allowed, Count
      <4>2. \A q, start : GrantsOf(granted', q, start) = GrantsOf(granted, q, start)
        BY Zenon, <4>1 DEF GrantsOf
      <4>3. /\ IsFiniteSet(granted') /\ \A g \in granted' : GrantOK(g)'
            /\ \A g, h \in granted' : g.peer = h.peer =>
                  Apart(g.window, h.window) \/ Apart(h.window, g.window)
            /\ \A g \in granted' : Tally(GrantsOf(granted', g.peer, g.window)) <= MaxTxs
        BY Zenon, <4>1, <4>2 DEF SlideInv, GrantOK
      <4> QED  BY Zenon, <4>1, <4>2, <4>3, CurrentTally
    <3> QED  BY Zenon, <3>1, <3>2
  <2>4. DOMAIN windows' = D \cup {p} /\ windows'[p] = c
    BY Zenon, <2>1
  <2>5. ASSUME NEW q \in DOMAIN windows'
        PROVE  /\ Tally(GrantsOf(granted', q, windows'[q].started)) = windows'[q].txs
               /\ \A g \in granted' : g.peer = q => Apart(g.window, windows'[q].started)
    <3>1. CASE q = p
      BY Zenon, <2>3, <2>4, <3>1
    <3>2. CASE q # p
      <4>1. q \in DOMAIN windows /\ windows'[q] = windows[q]
        BY Zenon, <2>1, <2>4, <3>2, PruneOK
      <4>2. GrantsOf(granted', q, windows'[q].started) = GrantsOf(granted, q, windows[q].started)
        BY Zenon, <2>3, <3>2, <4>1
      <4> QED  BY Zenon, <2>2, <3>2, <4>1, <4>2 DEF SlideInv
    <3> QED  BY Zenon, <3>1, <3>2
  <2>6. \A g \in granted' : g.peer \notin DOMAIN windows' => g.window + SubmitWindow <= now'
    BY Zenon, <2>2, <2>4, PrunedEnded
  <2> HIDE DEF D
  <2> QED  BY Zenon, <2>3, <2>5, <2>6 DEF SlideInv, Apart
<1> QED  BY Zenon, <1>1, <1>2, <1>3

LEMMA SlideInvInit == LimiterInit => SlideInv
BY Zenon, FS_EmptySet DEF LimiterInit, SlideInv

\* Time only moves on, and a restart forgets windows and grants alike.
LEMMA SlideInvNext == LimiterInv /\ SlideInv /\ [LimiterNext]_limiterVars => SlideInv'
<1> SUFFICES ASSUME LimiterInv, SlideInv, [LimiterNext]_limiterVars PROVE SlideInv'
  BY Zenon
<1>1. CASE UNCHANGED limiterVars
  BY Zenon, <1>1 DEF limiterVars, SlideInv, GrantOK, Apart
<1>2. CASE Advance
  <2>1. windows' = windows /\ granted' = granted /\ now' = now + 1 /\ now \in Nat
    BY <1>2 DEF Advance, LimiterInv
  <2>2. \A q, start : GrantsOf(granted', q, start) = GrantsOf(granted, q, start)
    BY Zenon, <2>1 DEF GrantsOf
  <2>3. ASSUME NEW g \in granted
        PROVE  GrantOK(g)' /\ (g.peer \notin DOMAIN windows => g.window + SubmitWindow <= now')
    <3>1. GrantOK(g) /\ (g.peer \notin DOMAIN windows => g.window + SubmitWindow <= now)
      BY Zenon DEF SlideInv
    <3> QED  BY <2>1, <3>1, LimiterParameters DEF GrantOK
  <2> QED  BY Zenon, <2>1, <2>2, <2>3 DEF SlideInv, Apart
<1>3. CASE Forget
  BY Zenon, <1>3, FS_EmptySet DEF Forget, SlideInv
<1> QED
  BY Zenon, <1>1, <1>2, <1>3, SlideAllow DEF LimiterNext, Call

\* What was granted within the length of one window.
LEMMA SlideInvBounds == LimiterInv /\ SlideInv => SlidingBound
BY TwoWindows DEF SlidingBound

\* The map of the limiter and its windows stay within their bounds (allow,
\* grpc_server.go).
THEOREM LimiterBounded == LimiterSpec => []WindowsBounded
<1>1. LimiterInv => WindowsBounded
  BY DEF LimiterInv, WindowOK, WindowsBounded
<1> QED
  BY <1>1, LimiterInvInit, LimiterInvNext, PTL DEF LimiterSpec

\* The limiter starves nobody (allow, grpc_server.go).
THEOREM QuietAreAdmitted == LimiterSpec => []QuietAdmitted
<1> QED
  BY LimiterInvInit, LimiterInvNext, RefusedForAReason, PTL DEF LimiterSpec

\* The windows are fixed, yet no address is granted more than twice
\* maxSubmitTxPerPeer within the length of one, whatever is pruned, forgotten
\* or started afresh.
THEOREM SlidingIsBounded == LimiterSpec => []SlidingBound
<1>1. LimiterSpec => [](LimiterInv /\ SlideInv)
  BY LimiterInvInit, LimiterInvNext, SlideInvInit, SlideInvNext, PTL DEF LimiterSpec
<1> QED
  BY <1>1, SlideInvBounds, PTL

=============================================================================

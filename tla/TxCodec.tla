------------------------------- MODULE TxCodec -------------------------------
(***************************************************************************)
(* core/tx: what a transaction is on the wire, what is signed of it, and a *)
(* batch of them.                                                          *)
(*                                                                         *)
(* A wire form is a sequence; a number, a key, a signature or one byte of  *)
(* a name, of code or of call data is one element of it, and lengths count *)
(* elements.  As elsewhere an operation that may fail yields a set.        *)
(***************************************************************************)
EXTENDS Integers, Sequences, SequencesExt

CONSTANTS
  ChainID,
  MaxValue,       \* UINT256_MAX
  CountBits,      \* width of the batch's transaction count: 16
  MaxField,       \* the most that a length field holds: 0xFFFF
  MaxWasm,        \* maxWasmBytes
  MaxTxBytes,     \* maxTxBytes
  MaxBatchTxs,    \* maxBatchTxs
  MaxBatchBytes   \* maxBatchBytes

ASSUME CodecParameters ==
  {MaxValue, CountBits, MaxField, MaxWasm, MaxTxBytes, MaxBatchTxs, MaxBatchBytes}
    \subseteq Nat \ {0}

DomainTx == "FRG_TX"
DomainTxBatch == "FRG_TX_BATCH"
DefaultChainID == "frg-mainnet-1"

Types == {"transfer", "miss", "deploy", "call", "bond", "unbond", "finalize", "claim", "evidence"}

\* Bytes of names: a letter, an accent that combines with the letter before
\* it, the letter with the accent, and one that is not valid UTF-8.
Letter == 1
Accent == 2
Composed == 3
Invalid == 0

NFC(name) ==
  FoldLeft(LAMBDA s, c : IF c = Accent /\ s # <<>> /\ Last(s) = Letter
                         THEN Append(Front(s), Composed) ELSE Append(s, c), <<>>, name)

-----------------------------------------------------------------------------
Counted(s) == <<Len(s)>> \o s

\* The part of the wire form that depends on the type.
Extension(t) ==
  CASE t.type = "deploy" -> Counted(t.code)
    [] t.type = "call" -> Counted(t.call)
    [] t.type = "evidence" -> Counted(t.evidence[1]) \o Counted(t.evidence[2])
    [] OTHER -> <<>>

Encodable(t) ==
  /\ Invalid \notin Range(t.sender) \cup Range(t.receiver)
  /\ t.value \in 0 .. MaxValue
  /\ Len(NFC(t.sender)) <= MaxField /\ Len(NFC(t.receiver)) <= MaxField
  /\ t.type = "deploy" => Len(t.code) <= MaxWasm
  /\ t.type = "call" => Len(t.call) <= MaxField
  /\ t.type = "evidence" => Len(t.evidence[1]) <= MaxField /\ Len(t.evidence[2]) <= MaxField

\* The names are normalized; neither the keys nor the constructor arguments
\* are in it.
SerializeUnsigned(t) ==
  IF ~Encodable(t) THEN {}
  ELSE {<<DomainTx, t.type>> \o Counted(NFC(t.sender)) \o Counted(NFC(t.receiver))
          \o <<t.value, t.nonce, t.missed[1], t.missed[2], t.missed[3]>> \o Extension(t)}

\* H of the unsigned form.
ID(t) == {<<"id">> \o u : u \in SerializeUnsigned(t)}

ChainDomain(chain) == <<"FRG_CHAIN_V1", IF chain = "" THEN DefaultChainID ELSE chain>>

UnsignedHashForChain(t, chain) == {ChainDomain(chain) \o u : u \in SerializeUnsigned(t)}

\* A signature stands for its key and what it signs.
SignSenderForChain(t, key, chain) ==
  {<<"sig", key, msg>> : msg \in UnsignedHashForChain(t, chain)}

VerifySigsForChain(t) ==
  t.type \in Types /\ t.sig \in SignSenderForChain(t, t.from, ChainID)

\* Keys and signatures come last.
Serialize(t) ==
  {w \in {u \o <<t.from, t.to, t.sig, t.rsig>> : u \in SerializeUnsigned(t)} :
     Len(w) <= MaxTxBytes}

-----------------------------------------------------------------------------
\* The counted field at position p, if it ends before position end.
FieldAt(w, p, end) ==
  IF p < end /\ p + w[p] < end
  THEN {[val |-> SubSeq(w, p + 1, p + w[p]), next |-> p + w[p] + 1]} ELSE {}

\* What is between the fixed fields and the keys, from position p.
ExtensionAt(w, type, p, end) ==
  LET none == [code |-> <<>>, call |-> <<>>, evidence |-> <<<<>>, <<>>>>, next |-> p]
  IN  CASE type = "deploy" ->
             {[none EXCEPT !.code = f.val, !.next = f.next] :
                f \in {g \in FieldAt(w, p, end) : Len(g.val) <= MaxWasm}}
        [] type = "call" ->
             {[none EXCEPT !.call = f.val, !.next = f.next] : f \in FieldAt(w, p, end)}
        [] type = "evidence" ->
             UNION {{[none EXCEPT !.evidence = <<f.val, g.val>>, !.next = g.next] :
                       g \in FieldAt(w, f.next, end)} : f \in FieldAt(w, p, end)}
        [] OTHER -> {none}

\* The transaction that the bytes spell out, if every byte is accounted for.
\* (The length of the receiver is read without looking whether the bytes end
\* there: a form cut off inside the sender stops the program rather than
\* being refused.)
Parse(w) ==
  LET end == Len(w) - 3                     \* where the keys begin
  IN  UNION {UNION {{
        [type |-> w[2], sender |-> s.val, receiver |-> r.val,
         value |-> w[r.next], nonce |-> w[r.next + 1],
         missed |-> <<w[r.next + 2], w[r.next + 3], w[r.next + 4]>>,
         code |-> x.code, call |-> x.call, evidence |-> x.evidence, args |-> <<>>,
         from |-> w[end], to |-> w[end + 1], sig |-> w[end + 2], rsig |-> w[end + 3]] :
          x \in {y \in ExtensionAt(w, w[2], r.next + 5, end) : y.next = end}} :
          r \in {y \in FieldAt(w, s.next, end) : y.next + 4 < end}} :
          s \in FieldAt(w, 3, end)}

\* Mutant of Deserialize: the bytes need not be the canonical ones.
DeserializeLoose(w) ==
  IF Len(w) \notin 13 .. MaxTxBytes THEN {}
  ELSE IF w[1] # DomainTx THEN {} ELSE Parse(w)

\* 13 elements are a transaction with empty names.  What was parsed must
\* encode to the same bytes again.
Deserialize(w) ==
  IF Len(w) \notin 13 .. MaxTxBytes THEN {}
  ELSE IF w[1] # DomainTx THEN {} ELSE {t \in Parse(w) : Serialize(t) = {w}}

-----------------------------------------------------------------------------
\* Mutant of SerializeBatch: the count has one bit less.
SerializeBatchNarrow(txs) ==
  LET wires == [i \in DOMAIN txs |-> CHOOSE w \in Serialize(txs[i]) : TRUE]
      raw == <<DomainTxBatch, Len(txs) % 2^(CountBits - 1)>>
               \o FlattenSeq([i \in DOMAIN txs |-> Counted(wires[i])])
  IN  IF \/ Len(txs) \notin 1 .. MaxBatchTxs
         \/ \E i \in DOMAIN txs : Serialize(txs[i]) = {} \/ Len(wires[i]) > MaxField
         \/ Len(raw) > MaxBatchBytes
      THEN {} ELSE {raw}

\* The count is cut to its field; the transactions are all there.
SerializeBatch(txs) ==
  LET wires == [i \in DOMAIN txs |-> CHOOSE w \in Serialize(txs[i]) : TRUE]
      raw == <<DomainTxBatch, Len(txs) % 2^CountBits>>
               \o FlattenSeq([i \in DOMAIN txs |-> Counted(wires[i])])
  IN  IF \/ Len(txs) \notin 1 .. MaxBatchTxs
         \/ \E i \in DOMAIN txs : Serialize(txs[i]) = {} \/ Len(wires[i]) > MaxField
         \/ Len(raw) > MaxBatchBytes
      THEN {} ELSE {raw}

\* Reads as many transactions as the count says; bytes left over are an error.
DeserializeBatch(raw) ==
  LET read[n \in 0 .. raw[2]] ==
        IF n = 0 THEN {[txs |-> <<>>, next |-> 3]}
        ELSE UNION {UNION {{[txs |-> Append(b.txs, t), next |-> f.next] :
                              t \in Deserialize(f.val)} :
                             f \in FieldAt(raw, b.next, Len(raw) + 1)} :
                      b \in read[n - 1]}
  IN  IF Len(raw) \notin 2 .. MaxBatchBytes THEN {}
      ELSE IF raw[1] # DomainTxBatch THEN {}
      ELSE {b.txs : b \in {c \in read[raw[2]] : c.next = Len(raw) + 1}}
=============================================================================

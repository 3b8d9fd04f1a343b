---------------------------- MODULE AmountProofs ----------------------------
(***************************************************************************)
(* Proofs about the money that clients send, for any requests, texts and    *)
(* amounts: what is sent is what the user wrote, to the last decimal, and   *)
(* the MCP server keeps to its daily budget.                                *)
(***************************************************************************)
EXTENDS SubmissionProofs, DataLemmas


(* ParseFRG.                                                               *)

\* The text of an amount.
TextOK(x) == x.whole \in Seq(0 .. NotDigit) /\ x.frac \in Seq(0 .. NotDigit)

LEMMA QuantaNat == QuantaPerFRG \in Nat \ {0}
BY TensIs, DecimalsPositive DEF QuantaPerFRG

\* What ParseFRG reads is what is written, to the last decimal.
LEMMA ParseFRGExact ==
  ASSUME NEW x, TextOK(x), NEW v \in ParseFRG(x)
  PROVE  /\ v \in Nat /\ ParseFRG(x) = {v}
         /\ v * Tens[Len(x.frac)] = Number(x.whole \o x.frac) * QuantaPerFRG
<1> DEFINE w == x.whole
           f == x.frac
           l == Len(f)
<1>1. w \in Seq(Nat) /\ f \in Seq(Nat) /\ l \in Nat
  <2>1. 0 .. NotDigit \subseteq Nat
    BY DEF NotDigit
  <2>2. w \in Seq(0 .. NotDigit) /\ f \in Seq(0 .. NotDigit)
    BY DEF TextOK
  <2> HIDE DEF w, f
  <2>3. \A u \in Seq(0 .. NotDigit) : u \in Seq(Nat) /\ Len(u) \in Nat
    BY Zenon, <2>1, SeqWiden
  <2> QED  BY <2>2, <2>3
<1>2. /\ ParseFRG(x) = {Number(w) * QuantaPerFRG + Number(f \o Zeros(Decimals - l))}
      /\ ~(l > Decimals)
  BY DEF ParseFRG
<1> HIDE DEF w, f
<1>3. Decimals \in Nat /\ l <= Decimals /\ Decimals - l \in Nat /\ l + (Decimals - l) = Decimals
  BY <1>1, <1>2, DecimalsPositive
<1> DEFINE W == Number(w)
           N == Number(f)
           A == Tens[l]
           B == Tens[Decimals - l]
<1>4. W \in Nat /\ N \in Nat /\ A \in Nat /\ B \in Nat
  BY Zenon, <1>1, <1>3, NumberNat, TensIs
<1>5. QuantaPerFRG = A * B
  BY Zenon, <1>1, <1>3, TensAdd DEF QuantaPerFRG
<1>6. Number(f \o Zeros(Decimals - l)) = N * B
  BY Zenon, <1>1, <1>3, NumberPadded
<1>7. Number(w \o f) = W * A + N
  BY <1>1, NumberConcat
<1>8. v = W * (A * B) + N * B
  BY Zenon, <1>2, <1>5, <1>6
<1> HIDE DEF W, N, A, B
<1>9. v \in Nat
  BY <1>4, <1>8
<1>10. v * A = (W * A + N) * (A * B)
  <2>1. \A a, b, c, d \in Nat : (a * (c * d) + b * d) * c = (a * c + b) * (c * d)
    OBVIOUS
  <2> QED  BY <1>4, <1>8, <2>1
<1>11. v * A = Number(w \o f) * QuantaPerFRG
  BY Zenon, <1>5, <1>7, <1>10
<1> QED  BY <1>2, <1>9, <1>11 DEF w, f, A, l

\* What FormatFRG shows, ParseFRG reads back.
LEMMA FormatFRGReadsBack ==
  ASSUME NEW n \in Nat
  PROVE  ParseFRG(FormatFRG(n)) = {n}
<1> DEFINE Q == QuantaPerFRG
           W == n \div Q
           R == n % Q
           whole == DigitsOf[W]
           D == 0 .. 9
<1>1. Q \in Nat \ {0} /\ Decimals \in Nat \ {0}
  BY QuantaNat, DecimalsPositive
<1>2. W \in Nat /\ R \in Nat /\ R < Q /\ n = Q * W + R
  BY <1>1, Division
<1> HIDE DEF Q, W, R
<1>3. /\ whole \in Seq(D) /\ whole \in Seq(Nat) /\ Len(whole) \in Nat \ {0} /\ Number(whole) = W
  BY <1>2, DigitsOfNumber
<1> HIDE DEF whole
<1>4. \A e : \A f \in Seq(D), p \in {0, 1} :
        Len(f) <= Decimals /\ Number(f \o Zeros(Decimals - Len(f))) = e
          => ParseFRG(Text(whole, p, f)) = {W * Q + e}
  <2> TAKE e
  <2> TAKE f \in Seq(D), p \in {0, 1}
  <2> HAVE Len(f) <= Decimals /\ Number(f \o Zeros(Decimals - Len(f))) = e
  <2> DEFINE x == Text(whole, p, f)
  <2>1. x.whole = whole /\ x.frac = f /\ x.dots = p /\ x.sign = ""
    BY DEF Text
  <2> HIDE DEF x
  <2>2. whole \o f # <<>> /\ whole \o f \in Seq(D)
    <3> HIDE DEF D
    <3>1. Len(whole \o f) = Len(whole) + Len(f) /\ Len(f) \in Nat /\ Len(<<>>) = 0
      BY <1>3
    <3>2. Len(whole \o f) # 0
      BY <1>3, <3>1
    <3> QED  BY <1>3, <3>1, <3>2
  <2>3. DigitsOnly(whole \o f)
    <3> DEFINE u == whole \o f
    <3>1. u \in Seq(D)
      BY <2>2
    <3> HIDE DEF u
    <3>2. \A i \in DOMAIN u : u[i] \in D
      <4> HIDE DEF D
      <4> QED  BY <3>1
    <3>3. DigitsOnly(u)
      BY <3>2 DEF DigitsOnly
    <3> QED  BY <3>3 DEF u
  <2>4. ~(x.sign = "-") /\ ~(x.dots > 1) /\ ~(Len(x.frac) > Decimals)
    <3>1. Len(f) \in Nat
      <4> HIDE DEF D
      <4> QED  OBVIOUS
    <3>2. "" # "-"
      OBVIOUS
    <3>3. ~(p > 1) /\ ~(Len(f) > Decimals)
      BY <1>1, <3>1
    <3> QED  BY Zenon, <2>1, <3>2, <3>3
  <2>5. ParseFRG(x) = {Number(whole) * QuantaPerFRG + Number(f \o Zeros(Decimals - Len(f)))}
    <3>1. /\ ~(\/ x.sign = "-" \/ x.dots > 1 \/ Len(x.frac) > Decimals
               \/ x.whole \o x.frac = <<>>
               \/ ~DigitsOnly(x.whole \o x.frac))
      BY <2>1, <2>2, <2>3, <2>4
    <3>2. ParseFRG(x) = {Number(x.whole) * QuantaPerFRG
                           + Number(x.frac \o Zeros(Decimals - Len(x.frac)))}
      BY Zenon, <3>1 DEF ParseFRG
    <3> QED  BY Zenon, <2>1, <3>2
  <2> QED  BY <1>3, <2>5 DEF x, Q
<1>5. CASE R = 0
  <2>1. FormatFRG(n) = Text(whole, 0, <<>>)
    BY <1>5 DEF FormatFRG, whole, W, R, Q
  <2>2. <<>> \in Seq(D) /\ Len(<<>>) = 0 /\ 0 <= Decimals /\ Decimals - 0 = Decimals
    BY <1>1
  <2>3. Number(<<>> \o Zeros(Decimals)) = 0
    <3>1. Zeros(Decimals) \in Seq(Nat)
      BY Zenon, <1>1, ZerosType
    <3>2. <<>> \o Zeros(Decimals) = Zeros(Decimals)
      BY <3>1
    <3> QED  BY Zenon, <1>1, <3>2, NumberZeros
  <2>4. ParseFRG(Text(whole, 0, <<>>)) = {W * Q + 0}
    <3>1. 0 \in {0, 1} /\ Len(<<>>) <= Decimals
          /\ Number(<<>> \o Zeros(Decimals - Len(<<>>))) = 0
      BY Zenon, <2>2, <2>3
    <3> HIDE DEF D
    <3> QED  BY Zenon, <1>4, <2>2, <3>1
  <2>5. W * Q + 0 = n
    BY <1>1, <1>2, <1>5
  <2> QED  BY Zenon, <2>1, <2>4, <2>5
<1>6. CASE R # 0
  <2> DEFINE frac == DigitsOf[R]
             padded == Zeros(Decimals - Len(frac)) \o frac
             t == TrimRight(padded)
  <2>1. /\ frac \in Seq(D) /\ frac \in Seq(Nat) /\ Len(frac) \in Nat /\ Number(frac) = R
        /\ Len(frac) <= Decimals
    BY Zenon, <1>1, <1>2, DigitsOfNumber DEF Q, QuantaPerFRG
  <2>2. FormatFRG(n) = Text(whole, 1, t)
    BY <1>6 DEF FormatFRG, whole, W, R, Q
  <2> HIDE DEF frac
  <2>3. Decimals - Len(frac) \in Nat
    BY <1>1, <2>1
  <2>4. padded \in Seq(D) /\ Len(padded) = Decimals
    <3> DEFINE z == Zeros(Decimals - Len(frac))
    <3>1. z \in Seq(D) /\ Len(z) = Decimals - Len(frac)
      BY Zenon, <2>3, ZerosType
    <3> HIDE DEF z, D
    <3>2. z \o frac \in Seq(D) /\ Len(z \o frac) = Len(z) + Len(frac)
      BY ONLY <2>1, <3>1
    <3> QED  BY <1>1, <2>1, <3>1, <3>2 DEF z
  <2>5. Number(padded) = R
    BY <2>1, <2>3, NumberPadded
  <2> HIDE DEF padded
  <2>6. /\ t \in Seq(D) /\ Len(t) \in Nat /\ Len(t) <= Decimals
        /\ t \o Zeros(Decimals - Len(t)) = padded
    BY Zenon, <2>4, TrimRightPadded
  <2> HIDE DEF t
  <2>7. ParseFRG(Text(whole, 1, t)) = {W * Q + R}
    <3>1. 1 \in {0, 1} /\ Number(t \o Zeros(Decimals - Len(t))) = R
      BY Zenon, <2>5, <2>6
    <3> HIDE DEF D
    <3> QED  BY Zenon, <1>4, <2>6, <3>1
  <2>8. W * Q + R = n
    BY <1>1, <1>2
  <2> QED  BY Zenon, <2>2, <2>7, <2>8
<1> QED  BY <1>5, <1>6

-----------------------------------------------------------------------------
(* The amounts of the drafts.                                              *)

\* The amount v is what the request q says.
WrittenAs(q, v) ==
  /\ v \in Nat
  /\ \A x \in q.frg : v * Tens[Len(x.frac)] = Number(x.whole \o x.frac) * QuantaPerFRG

\* The amounts that the fields of a request name.
Named(q) == UNION ({ParseQuanta(x) : x \in q.quanta} \cup {ParseFRG(x) : x \in q.frg})

LEMMA ParseQuantaNat ==
  ASSUME NEW x, x.whole \in Seq(0 .. NotDigit), NEW v \in ParseQuanta(x)
  PROVE  v \in Nat /\ ParseQuanta(x) = {v}
<1>1. x.whole \in Seq(Nat)
  <2>1. 0 .. NotDigit \subseteq Nat
    BY DEF NotDigit
  <2> QED  BY Zenon, <2>1, SeqWiden
<1>2. Number(x.whole) \in Nat
  BY Zenon, <1>1, NumberNat
<1>3. PICK m \in Int : m = IF x.sign = "-" THEN -Number(x.whole) ELSE Number(x.whole)
  BY <1>2
<1>4. ParseQuanta(x) = {n \in {m} : n >= 0}
  BY <1>3 DEF ParseQuanta
<1> QED  BY <1>3, <1>4

LEMMA NamedOne ==
  ASSUME NEW q, GivenText(q.frg), GivenText(q.quanta), q.frg = {} \/ q.quanta = {},
         NEW a \in Named(q)
  PROVE  WrittenAs(q, a) /\ Named(q) = {a}
<1>1. CASE q.frg = {}
  <2>1. PICK x \in q.quanta : a \in ParseQuanta(x)
    BY <1>1 DEF Named
  <2>2. a \in Nat /\ ParseQuanta(x) = {a}
    BY Zenon, <2>1, ParseQuantaNat DEF GivenText
  <2>3. q.quanta = {x}
    BY <2>1 DEF GivenText
  <2> QED  BY Zenon, <1>1, <2>2, <2>3 DEF Named, WrittenAs
<1>2. CASE q.quanta = {}
  <2>1. PICK x \in q.frg : a \in ParseFRG(x)
    BY <1>2 DEF Named
  <2>2. TextOK(x)
    BY DEF GivenText, TextOK
  <2>3. /\ a \in Nat /\ ParseFRG(x) = {a}
        /\ a * Tens[Len(x.frac)] = Number(x.whole \o x.frac) * QuantaPerFRG
    BY Zenon, <2>1, <2>2, ParseFRGExact
  <2>4. q.frg = {x}
    BY <2>1 DEF GivenText
  <2> QED  BY Zenon, <1>2, <2>3, <2>4 DEF Named, WrittenAs
<1> QED  BY Zenon, <1>1, <1>2

LEMMA AmountFieldsWritten ==
  ASSUME NEW q, GivenText(q.frg), GivenText(q.quanta), NEW positive \in BOOLEAN,
         NEW a \in ParseAmountFields(q, positive)
  PROVE  WrittenAs(q, a) /\ \A b \in ParseAmountFields(q, positive) : b = a
<1>1. ~(q.frg # {} /\ q.quanta # {})
  BY DEF ParseAmountFields
<1>2. CASE q.frg = {} /\ q.quanta = {}
  <2>1. ParseAmountFields(q, positive) \subseteq {0}
    BY <1>2 DEF ParseAmountFields
  <2> QED  BY <1>2, <2>1 DEF WrittenAs
<1>3. CASE ~(q.frg = {} /\ q.quanta = {})
  <2>1. ParseAmountFields(q, positive) \subseteq Named(q)
    BY Zenon, <1>1, <1>3 DEF ParseAmountFields, Named
  <2>2. WrittenAs(q, a) /\ Named(q) = {a}
    BY Zenon, <1>1, <2>1, NamedOne
  <2> QED  BY Zenon, <2>1, <2>2
<1> QED  BY Zenon, <1>2, <1>3

LEMMA CLIAmountWritten ==
  ASSUME NEW q, GivenText(q.frg), GivenText(q.quanta), NEW a \in ParseCLIAmount(q)
  PROVE  WrittenAs(q, a)
<1>1. (q.frg = {} \/ q.quanta = {}) /\ a \in Named(q)
  BY Zenon DEF ParseCLIAmount, Named
<1> QED  BY Zenon, <1>1, NamedOne

\* The library puts the amount it is given in the transaction, or none.
LEMMA LibraryDraft ==
  ASSUME NEW k, NEW d
  PROVE  /\ \A to, a : d \in Transfer(k, to, a) => d = Draft("transfer", k, to, a) /\ d.value = a
         /\ \A a : d \in Bond(k, a) => d = Draft("bond", k, k, a) /\ d.value = a
         /\ d \in Unbond(k) => d = Draft("unbond", k, k, 0) /\ d.value = 0
         /\ d \in FinalizeUnbond(k) => d = Draft("finalize", k, k, 0) /\ d.value = 0
         /\ d \in ClaimRewards(k) => d = Draft("claim", k, k, 0) /\ d.value = 0
         /\ \A p : d \in SubmitMissedDeadlineReport(k, p)
                     => d = Draft("miss", k, p, 0) /\ d.value = 0
         /\ \A w, a : d \in DeployContract(k, w, a)
                        => d = Draft("deploy", k, "nobody", a) /\ d.value = a
BY DEF Transfer, Bond, Unbond, FinalizeUnbond, ClaimRewards, SubmitMissedDeadlineReport,
       DeployContract, Draft

LEMMA CallDraft ==
  ASSUME NEW k, NEW c, NEW x, NEW a, NEW d \in CallContract(k, c, x, a)
  PROVE  d = Draft("call", k, c, a) /\ d.value = a
BY DEF CallContract, Draft

\* A request with its amount in the fields there are.
AsksWell(q) ==
  /\ GivenText(q.frg) /\ GivenText(q.quanta)
  /\ q.via = "wallet" => q.op \in WalletOps
  /\ q.via = "mcp" => q.op \in McpOps
  /\ q.frg # {} => q.op \in AmountOps(q.via)

LEMMA WrittenNone ==
  ASSUME NEW q, q.frg = {}
  PROVE  \A v \in Nat : WrittenAs(q, v)
BY Zenon DEF WrittenAs

LEMMA WalletDraftWritten ==
  ASSUME NEW q, AsksWell(q), q.via = "wallet", NEW d \in WalletDraft(q)
  PROVE  WrittenAs(q, d.value)
<1>0. AmountOps(q.via) = {"transfer", "bond", "deploy", "call"}
  BY Zenon DEF AmountOps
<1>1. /\ q.op = "transfer" => WalletDraft(q) = HandleTransfer(q)
      /\ q.op = "bond" => WalletDraft(q) = HandleBond(q)
      /\ q.op = "unbond" => WalletDraft(q) = HandleUnbond(q)
      /\ q.op = "finalize" => WalletDraft(q) = HandleFinalizeUnbond(q)
      /\ q.op = "claim" => WalletDraft(q) = HandleClaimRewards(q)
      /\ q.op = "miss" => WalletDraft(q) = HandleMissedDeadlineReport(q)
      /\ q.op = "deploy" => WalletDraft(q) = HandleContractDeploy(q)
      /\ q.op = "call" => WalletDraft(q) = HandleContractCall(q)
  BY DEF WalletDraft
<1>2. \A p \in BOOLEAN : \A a \in ParseAmountFields(q, p) : WrittenAs(q, a)
  BY AmountFieldsWritten DEF AsksWell
<1>3. TRUE \in BOOLEAN /\ FALSE \in BOOLEAN
  OBVIOUS
<1>4. ASSUME d \in HandleTransfer(q) PROVE WrittenAs(q, d.value)
  <2>1. PICK a \in ParseAmountFields(q, TRUE) : d \in Transfer(q.key, q.to, a)
    BY Zenon, <1>4 DEF HandleTransfer
  <2>2. d.value = a
    BY Zenon, <2>1, LibraryDraft
  <2> QED  BY Zenon, <1>2, <1>3, <2>2
<1>5. ASSUME d \in HandleBond(q) PROVE WrittenAs(q, d.value)
  <2>1. PICK a \in ParseAmountFields(q, TRUE) : d \in Bond(q.key, a)
    BY Zenon, <1>5 DEF HandleBond
  <2>2. d.value = a
    BY Zenon, <2>1, LibraryDraft
  <2> QED  BY Zenon, <1>2, <1>3, <2>2
<1>6. ASSUME d \in HandleContractDeploy(q) PROVE WrittenAs(q, d.value)
  <2>1. PICK a \in ParseAmountFields(q, FALSE) : d \in DeployContract(q.key, q.wasm \ {"bad"}, a)
    BY Zenon, <1>6 DEF HandleContractDeploy
  <2>2. d.value = a
    BY Zenon, <2>1, LibraryDraft
  <2> QED  BY Zenon, <1>2, <1>3, <2>2
<1>7. ASSUME d \in HandleContractCall(q) PROVE WrittenAs(q, d.value)
  <2>1. PICK a \in ParseAmountFields(q, FALSE) :
          d \in CallContract(q.key, q.to, ContractCallData(q), a)
    BY Zenon, <1>7 DEF HandleContractCall
  <2>2. d.value = a
    BY <2>1, CallDraft
  <2> QED  BY Zenon, <1>2, <1>3, <2>2
<1>8. ASSUME q.op \in {"unbond", "finalize", "claim", "miss"} PROVE WrittenAs(q, d.value)
  <2>1. q.frg = {}
    BY <1>0, <1>8 DEF AsksWell
  <2>2. d.value = 0
    <3>1. CASE q.op \in {"unbond", "finalize", "claim"}
      BY <1>1, <3>1 DEF HandleUnbond, HandleFinalizeUnbond, HandleClaimRewards, Unbond,
                        FinalizeUnbond, ClaimRewards, Draft
    <3>2. CASE q.op = "miss"
      <4>1. PICK p : d \in SubmitMissedDeadlineReport(q.key, p)
        BY Zenon, <1>1, <3>2 DEF HandleMissedDeadlineReport
      <4> QED  BY Zenon, <4>1, LibraryDraft
    <3> QED  BY Zenon, <1>8, <3>1, <3>2
  <2> QED  BY <2>1, <2>2, WrittenNone
<1> QED  BY Zenon, <1>1, <1>4, <1>5, <1>6, <1>7, <1>8 DEF AsksWell, WalletOps

LEMMA CliDraftWritten ==
  ASSUME NEW q, AsksWell(q), q.via = "cli", NEW d \in CliDraft(q)
  PROVE  WrittenAs(q, d.value)
<1>0. AmountOps(q.via) = {"send", "bond", "prepare"}
  BY DEF AmountOps
<1>1. \A a \in ParseCLIAmount(q) : WrittenAs(q, a)
  BY CLIAmountWritten DEF AsksWell
<1>2. CASE q.op \in {"send", "bond", "prepare"}
  <2>1. PICK a \in ParseCLIAmount(q) : d.value = a
    <3>1. d \in SendCmd(q) \/ d \in BondCmd(q) \/ d \in PrepareCmd(q)
      BY Zenon, <1>2 DEF CliDraft
    <3> QED  BY <3>1 DEF SendCmd, BondCmd, PrepareCmd, Draft
  <2> QED  BY Zenon, <1>1, <2>1
<1>3. CASE q.op \notin {"send", "bond", "prepare"}
  <2>1. q.frg = {}
    BY <1>0, <1>3 DEF AsksWell
  <2>2. d.value = 0
    BY <1>3 DEF CliDraft, ProtocolZeroValueCmd, Draft
  <2> QED  BY <2>1, <2>2, WrittenNone
<1> QED  BY Zenon, <1>2, <1>3

\* An MCP tool drafts at most one transaction, of an amount within what is left.
LEMMA CallToolDraft ==
  ASSUME NEW q, AsksWell(q), q.via = "mcp", NEW s \in Nat, s <= Policy.daily,
         NEW d \in CallTool(q, s)
  PROVE  /\ WrittenAs(q, d.value) /\ s + d.value <= Policy.daily
         /\ CallTool(q, s) = {d}
<1>0. AmountOps(q.via) = {"transfer", "bond", "deploy", "call", "work"}
  BY Zenon DEF AmountOps
<1>1. /\ q.op = "transfer" => CallTool(q, s) = McpTransfer(q, s)
      /\ q.op = "bond" => CallTool(q, s) = McpBond(q, s)
      /\ q.op = "unbond" => CallTool(q, s) = McpUnbond(q, s)
      /\ q.op = "finalize" => CallTool(q, s) = McpFinalizeUnbond(q, s)
      /\ q.op = "claim" => CallTool(q, s) = McpClaimRewards(q, s)
      /\ q.op = "deploy" => CallTool(q, s) = McpContractDeploy(q, s)
      /\ q.op = "call" => CallTool(q, s) = McpContractCall(q, s)
      /\ q.op = "work" => CallTool(q, s) = McpWorkAction(q, s)
  BY DEF CallTool
<1>2. \A p \in BOOLEAN : \A a \in ParseAmountFields(q, p) :
        WrittenAs(q, a) /\ \A b \in ParseAmountFields(q, p) : b = a
  BY Zenon, AmountFieldsWritten DEF AsksWell
<1>3. \A p \in BOOLEAN : \A a \in ParseAmountFields(q, p) : a \in Nat
  BY Zenon, <1>2 DEF WrittenAs
<1>4. \A a \in Nat : \A action, target, bond, deploy :
        AllowSpend(s, action, target, a, bond, deploy) => s + a <= Policy.daily
  BY PolicyAmounts DEF AllowSpend
\* The draft of an amount that the policy allows.
<1> DEFINE From(e, p, op, to) ==
             \E a \in ParseAmountFields(q, p) :
               /\ e = Draft(op, q.key, to, a) /\ e.value = a /\ s + a <= Policy.daily
<1>5. ASSUME NEW p \in BOOLEAN, NEW op, NEW to, \A e \in CallTool(q, s) : From(e, p, op, to)
      PROVE  /\ WrittenAs(q, d.value) /\ s + d.value <= Policy.daily
             /\ CallTool(q, s) = {d}
  <2>1. PICK a \in ParseAmountFields(q, p) :
          d = Draft(op, q.key, to, a) /\ d.value = a /\ s + a <= Policy.daily
    BY <1>5
  <2>2. ASSUME NEW e \in CallTool(q, s) PROVE e = d
    <3>1. PICK b \in ParseAmountFields(q, p) : e = Draft(op, q.key, to, b)
      BY Zenon, <1>5
    <3>2. b = a
      BY Zenon, <1>2, <2>1, <3>1
    <3> QED  BY Zenon, <2>1, <3>1, <3>2
  <2> QED  BY <1>2, <2>1, <2>2
<1>6. CASE q.op = "transfer"
  <2>1. ASSUME NEW e \in McpTransfer(q, s) PROVE From(e, TRUE, "transfer", q.to)
    <3>1. PICK a \in {x \in ParseAmountFields(q, TRUE) :
                        AllowSpend(s, "transfer", q.to, x, FALSE, FALSE)} :
            e \in Transfer(q.key, q.to, a)
      BY Zenon, <2>1 DEF McpTransfer
    <3>2. a \in ParseAmountFields(q, TRUE) /\ AllowSpend(s, "transfer", q.to, a, FALSE, FALSE)
      BY Zenon, <3>1
    <3>3. s + a <= Policy.daily
      BY Zenon, <1>3, <1>4, <3>2
    <3>4. e = Draft("transfer", q.key, q.to, a) /\ e.value = a
      BY Zenon, <3>1, LibraryDraft
    <3> QED  BY Zenon, <3>2, <3>3, <3>4
  <2> HIDE DEF From
  <2> QED  BY Zenon, <1>1, <1>5, <1>6, <2>1
<1>7. CASE q.op = "bond"
  <2>1. ASSUME NEW e \in McpBond(q, s) PROVE From(e, TRUE, "bond", q.key)
    <3>1. PICK a \in {x \in ParseAmountFields(q, TRUE) :
                        AllowSpend(s, "bond", "", x, TRUE, FALSE)} :
            e \in Bond(q.key, a)
      BY Zenon, <2>1 DEF McpBond
    <3>2. a \in ParseAmountFields(q, TRUE) /\ AllowSpend(s, "bond", "", a, TRUE, FALSE)
      BY <3>1
    <3>3. s + a <= Policy.daily
      BY <1>3, <1>4, <3>2
    <3>4. e = Draft("bond", q.key, q.key, a) /\ e.value = a
      BY <3>1, LibraryDraft
    <3> QED  BY <3>2, <3>3, <3>4
  <2> HIDE DEF From
  <2> QED  BY Zenon, <1>1, <1>5, <1>7, <2>1
<1>8. CASE q.op = "deploy"
  <2>1. ASSUME NEW e \in McpContractDeploy(q, s) PROVE From(e, FALSE, "deploy", "nobody")
    <3>1. PICK a \in {x \in ParseAmountFields(q, FALSE) :
                        AllowSpend(s, "contract_deploy", "", x, FALSE, TRUE)} :
            e \in DeployContract(q.key, q.wasm \ {"bad"}, a)
      BY Zenon, <2>1 DEF McpContractDeploy
    <3>2. a \in ParseAmountFields(q, FALSE) /\ AllowSpend(s, "contract_deploy", "", a, FALSE, TRUE)
      BY <3>1
    <3>3. s + a <= Policy.daily
      BY <1>3, <1>4, <3>2
    <3>4. e = Draft("deploy", q.key, "nobody", a) /\ e.value = a
      BY <3>1, LibraryDraft
    <3> QED  BY <3>2, <3>3, <3>4
  <2> HIDE DEF From
  <2> QED  BY Zenon, <1>1, <1>5, <1>8, <2>1
<1>9. CASE q.op \in {"call", "work"}
  <2>1. ASSUME NEW e \in CallTool(q, s) PROVE From(e, FALSE, "call", q.to)
    <3>1. e \in McpContractCall(q, s) \/ e \in McpWorkAction(q, s)
      BY Zenon, <1>1, <1>9, <2>1
    <3>2. PICK x : \E a \in {y \in ParseAmountFields(q, FALSE) :
                               AllowSpend(s, "contract_call", q.to, y, FALSE, FALSE)} :
            e \in CallContract(q.key, q.to, x, a)
      BY Zenon, <3>1 DEF McpContractCall, McpWorkAction
    <3>3. PICK a \in {y \in ParseAmountFields(q, FALSE) :
                        AllowSpend(s, "contract_call", q.to, y, FALSE, FALSE)} :
            e \in CallContract(q.key, q.to, x, a)
      BY Zenon, <3>2
    <3>4. a \in ParseAmountFields(q, FALSE) /\ AllowSpend(s, "contract_call", q.to, a, FALSE, FALSE)
      BY Zenon, <3>3
    <3>5. s + a <= Policy.daily
      BY Zenon, <1>3, <1>4, <3>4
    <3>6. e = Draft("call", q.key, q.to, a) /\ e.value = a
      BY <3>3, CallDraft
    <3> QED  BY Zenon, <3>4, <3>5, <3>6
  <2> HIDE DEF From
  <2> QED  BY Zenon, <1>5, <2>1
<1>10. CASE q.op \in {"unbond", "finalize", "claim"}
  <2>1. q.frg = {}
    BY Zenon, <1>0, <1>10 DEF AsksWell
  <2>2. PICK e : CallTool(q, s) \subseteq {e} /\ e.value = 0
    <3>1. ASSUME NEW op, CallTool(q, s) \subseteq {Draft(op, q.key, q.key, 0)}
          PROVE  \E e : CallTool(q, s) \subseteq {e} /\ e.value = 0
      <4>1. Draft(op, q.key, q.key, 0).value = 0
        BY DEF Draft
      <4> QED  BY Zenon, <3>1, <4>1
    <3>2. CASE q.op = "unbond"
      <4>1. CallTool(q, s) \subseteq {Draft("unbond", q.key, q.key, 0)}
        BY <1>1, <3>2 DEF McpUnbond, Unbond
      <4> QED  BY Zenon, <3>1, <4>1
    <3>3. CASE q.op = "finalize"
      <4>1. CallTool(q, s) \subseteq {Draft("finalize", q.key, q.key, 0)}
        BY <1>1, <3>3 DEF McpFinalizeUnbond, FinalizeUnbond
      <4> QED  BY Zenon, <3>1, <4>1
    <3>4. CASE q.op = "claim"
      <4>1. CallTool(q, s) \subseteq {Draft("claim", q.key, q.key, 0)}
        BY <1>1, <3>4 DEF McpClaimRewards, ClaimRewards
      <4> QED  BY Zenon, <3>1, <4>1
    <3> QED  BY Zenon, <1>10, <3>2, <3>3, <3>4
  <2>3. d = e /\ d.value = 0 /\ CallTool(q, s) = {d}
    BY Zenon, <2>2
  <2> QED  BY <2>1, <2>3, WrittenNone, PolicyAmounts
<1> QED  BY Zenon, <1>6, <1>7, <1>8, <1>9, <1>10 DEF AsksWell, McpOps

-----------------------------------------------------------------------------
(* What values add up to.                                                  *)

LEMMA TotalIn ==
  ASSUME NEW G, IsFiniteSet(G), \A x \in G : x.value \in Nat, NEW S \in SUBSET G
  PROVE  /\ Total(S) = SumFunctionOnSet([x \in G |-> x.value], S)
         /\ Total(S) \in Nat /\ Total(S) <= Total(G)
<1> DEFINE f == [x \in G |-> x.value]
           h == [x \in S |-> x.value]
<1>1. IsFiniteSet(S)
  BY Zenon, FS_Subset
<1>2. \A x \in S : f[x] \in Int /\ h[x] = f[x]
  OBVIOUS
<1>3. \A x \in G : f[x] \in Nat
  OBVIOUS
<1>4. Total(S) = SumFunctionOnSet(h, S) /\ Total(G) = SumFunctionOnSet(f, G)
  BY Zenon DEF Total
<1> HIDE DEF f, h
<1>5. Total(S) = SumFunctionOnSet(f, S)
  BY Zenon, <1>1, <1>2, <1>4, SumSame
<1>6. SumFunctionOnSet(f, S) \in Nat /\ SumFunctionOnSet(f, S) <= SumFunctionOnSet(f, G)
  BY Zenon, <1>3, SumMonotone
<1> QED  BY Zenon, <1>4, <1>5, <1>6 DEF f

\* The values of two sets together are no more than those of each.
LEMMA TotalJoin ==
  ASSUME NEW G, IsFiniteSet(G), NEW H, IsFiniteSet(H), \A x \in G \cup H : x.value \in Nat
  PROVE  /\ Total(G) \in Nat /\ Total(H) \in Nat /\ Total(G \cup H) \in Nat
         /\ Total(G \cup H) <= Total(G) + Total(H)
<1> DEFINE U == G \cup H
           K == H \ G
           f == [x \in U |-> x.value]
<1>1. IsFiniteSet(U) /\ IsFiniteSet(K)
  BY Zenon, FS_Union, FS_Subset
<1>2. \A x \in G \cup K : f[x] \in Int
  OBVIOUS
<1>3. G \cup K = U /\ G \cap K = {} /\ K \in SUBSET H /\ H \in SUBSET H
  OBVIOUS
<1>4. SumFunctionOnSet(f, G \cup K) = SumFunctionOnSet(f, G) + SumFunctionOnSet(f, K)
  <2> HIDE DEF f, K
  <2> QED  BY Zenon, <1>1, <1>2, <1>3, SumDisjoint
<1>5. G \in SUBSET U /\ K \in SUBSET U /\ U \in SUBSET U /\ H \in SUBSET U
  OBVIOUS
<1>6. \A x \in U : x.value \in Nat
  OBVIOUS
<1>7. \A x \in H : x.value \in Nat
  OBVIOUS
<1> HIDE DEF U, K
<1>8. \A S \in SUBSET U : /\ Total(S) = SumFunctionOnSet([x \in U |-> x.value], S)
                          /\ Total(S) \in Nat
  BY Zenon, <1>1, <1>6, TotalIn
<1>9. /\ Total(G) = SumFunctionOnSet(f, G) /\ Total(K) = SumFunctionOnSet(f, K)
      /\ Total(U) = SumFunctionOnSet(f, U)
  BY Zenon, <1>5, <1>8
<1>10. Total(U) = Total(G) + Total(K)
  <2> HIDE DEF f
  <2> QED  BY Zenon, <1>3, <1>4, <1>9
<1>11. Total(K) <= Total(H)
  BY Zenon, <1>3, <1>7, TotalIn
<1>12. Total(G) \in Nat /\ Total(K) \in Nat /\ Total(H) \in Nat /\ Total(U) \in Nat
  BY Zenon, <1>5, <1>8
<1>13. \A a, b, c, d \in Nat : d = a + b /\ b <= c => d <= a + c
  OBVIOUS
<1> HIDE DEF f
<1>14. Total(U) <= Total(G) + Total(H)
  BY Zenon, <1>10, <1>11, <1>12, <1>13
<1> QED  BY Zenon, <1>12, <1>14 DEF U

LEMMA TotalNone == Total({}) = 0
BY Zenon, SumNone DEF Total

LEMMA TotalOne ==
  ASSUME NEW x, x.value \in Nat
  PROVE  Total({x}) = x.value
<1> DEFINE f == [y \in {x} |-> y.value]
<1>1. \A y \in {x} : f[y] \in Int
  OBVIOUS
<1>2. IsFiniteSet({x}) /\ x \in {x} /\ {x} \ {x} = {} /\ f[x] = x.value
  BY Zenon, FS_Singleton
<1> HIDE DEF f
<1>3. SumFunctionOnSet(f, {x}) = f[x] + SumFunctionOnSet(f, {x} \ {x})
  BY Zenon, <1>1, <1>2, SumOut
<1>4. SumFunctionOnSet(f, {x} \ {x}) = 0
  BY Zenon, <1>2, SumNone
<1> QED  BY <1>2, <1>3, <1>4 DEF Total, f

\* The union of finitely many finite sets.
LEMMA GatherFinite ==
  ASSUME NEW S, IsFiniteSet(S), NEW f, \A q \in S : IsFiniteSet(f[q].sent)
  PROVE  IsFiniteSet(UNION {f[q].sent : q \in S})
<1> DEFINE T == {f[q].sent : q \in S}
           g == [q \in S |-> f[q].sent]
<1>1. g \in Surjection(S, T)
  BY DEF Surjection
<1>2. \A u \in T : IsFiniteSet(u)
  BY Zenon
<1> HIDE DEF T, g
<1>3. IsFiniteSet(T)
  BY Zenon, <1>1, FS_Surjection
<1>4. IsFiniteSet(UNION T)
  BY Zenon, <1>2, <1>3, FS_UNION
<1> QED  BY Zenon, <1>4 DEF T

-----------------------------------------------------------------------------
(* The MCP server's budget.  It handles one call at a time, so what the    *)
(* policy allowed is still within the limit when it is recorded.           *)

McpOK(q) ==
  ask[q].via = "mcp" =>
    /\ req[q].pc \in {"idle", "read", "ok", "error"}
    /\ req[q].pc = "read" =>
         \E d : req[q].draft = {d} /\ d.value \in Nat /\ spent + d.value <= Policy.daily
    /\ IsFiniteSet(req[q].sent) /\ \A t \in req[q].sent : t.value \in Nat
    /\ req[q].sent # {} => req[q].pc \in {"ok", "error"}

\* What the node acknowledged to the server.
Paid == UNION {req[q].sent : q \in {r \in Via("mcp") : req[r].pc = "ok"}}

BudgetInv ==
  /\ spent \in Nat /\ spent <= Policy.daily
  /\ restarts \in [{"mcp", "faucet", "node"} -> Nat]
  /\ \A q \in Requests : McpOK(q)
  /\ \A q, r \in Via("mcp") : req[q].pc = "read" /\ req[r].pc = "read" => q = r
  /\ Total(Paid) <= restarts["mcp"] * Policy.daily + spent

LEMMA BudgetInvInit == Init => BudgetInv
<1> SUFFICES ASSUME Init PROVE BudgetInv
  BY Zenon
<1>1. PICK s \in Scenarios :
        /\ ask = s
        /\ req = [q \in DOMAIN s |-> [pc |-> "idle", draft |-> {}, nonce |-> 0, sent |-> {},
                                      after |-> {}, checked |-> 0, recorded |-> 0]]
  BY Zenon DEF Init
<1>2. \A q \in Requests : req[q].pc = "idle" /\ req[q].sent = {}
  BY Zenon, <1>1 DEF Requests
<1>3. Paid = {}
  BY Zenon, <1>2 DEF Paid, Via
<1>4. \A q \in Requests : McpOK(q)
  BY Zenon, <1>2, FS_EmptySet DEF McpOK
<1>5. spent = 0 /\ restarts = [p \in {"mcp", "faucet", "node"} |-> 0]
  BY DEF Init
<1>6. Total(Paid) <= restarts["mcp"] * Policy.daily + spent
  <2>1. restarts["mcp"] = 0
    BY Zenon, <1>5
  <2>2. 0 * Policy.daily + 0 = 0
    BY PolicyAmounts
  <2>3. 0 <= 0
    OBVIOUS
  <2> QED  BY Zenon, <1>3, <1>5, <2>1, <2>2, <2>3, TotalNone
<1>7. \A q, r \in Via("mcp") : req[q].pc = "read" /\ req[r].pc = "read" => q = r
  BY Zenon, <1>2 DEF Via
<1>8. restarts \in [{"mcp", "faucet", "node"} -> Nat] /\ spent \in Nat /\ spent <= Policy.daily
  BY <1>5, PolicyAmounts
<1> QED  BY Zenon, <1>4, <1>6, <1>7, <1>8 DEF BudgetInv

\* What the requests to the server, its budget and its restarts keep.
LEMMA BudgetKept ==
  ASSUME BudgetInv, UNCHANGED <<ask, spent>>, DOMAIN req' = DOMAIN req,
         restarts' \in [{"mcp", "faucet", "node"} -> Nat], restarts'["mcp"] = restarts["mcp"],
         \A q \in Via("mcp") : req'[q] = req[q]
  PROVE  BudgetInv'
<1>1. Via("mcp")' = Via("mcp") /\ Requests' = Requests
  BY Zenon DEF Via, Requests
<1>2. Paid' = Paid
  <2>1. {r \in Via("mcp") : req[r].pc = "ok"}' = {r \in Via("mcp") : req[r].pc = "ok"}
    BY Zenon, <1>1
  <2>2. \A r \in {x \in Via("mcp") : req[x].pc = "ok"} : req'[r].sent = req[r].sent
    BY Zenon
  <2> QED  BY <2>1, <2>2 DEF Paid
<1>3. ASSUME NEW q \in Requests PROVE McpOK(q)'
  <2>1. CASE ask[q].via = "mcp"
    <3>1. req'[q] = req[q] /\ McpOK(q)
      BY Zenon, <2>1 DEF Via, BudgetInv
    <3> QED  BY Zenon, <3>1 DEF McpOK
  <2>2. CASE ask[q].via # "mcp"
    BY Zenon, <2>2 DEF McpOK
  <2> QED  BY Zenon, <2>1, <2>2
<1>4. \A q, r \in Via("mcp")' : req'[q].pc = "read" /\ req'[r].pc = "read" => q = r
  BY Zenon, <1>1 DEF BudgetInv
<1>5. (Total(Paid) <= restarts["mcp"] * Policy.daily + spent)'
  BY Zenon, <1>2 DEF BudgetInv
<1> QED  BY Zenon, <1>1, <1>3, <1>4, <1>5 DEF BudgetInv

\* A step of one request that is not, and was not, acknowledged.
LEMMA PaidKept ==
  ASSUME NEW q \in Requests, ask' = ask, OthersKept(q), req[q].pc # "ok", req'[q].pc # "ok"
  PROVE  Paid' = Paid
<1>1. Via("mcp")' = Via("mcp")
  BY Zenon DEF Via, Requests, OthersKept
<1> DEFINE R == {r \in Via("mcp") : req[r].pc = "ok"}
<1>2. R' = R
  <2>1. \A r \in Via("mcp") : req'[r].pc = "ok" <=> req[r].pc = "ok"
    BY DEF Via, Requests, OthersKept
  <2> QED  BY Zenon, <1>1, <2>1
<1>3. \A r \in R : req'[r].sent = req[r].sent
  BY Zenon DEF Via, Requests, OthersKept
<1> QED  BY <1>2, <1>3 DEF Paid

\* One that is acknowledged adds what it sent.
LEMMA PaidMore ==
  ASSUME NEW q \in Via("mcp"), ask' = ask, OthersKept(q), req[q].pc # "ok", req'[q].pc = "ok"
  PROVE  Paid' = Paid \cup req'[q].sent
<1>1. Via("mcp")' = Via("mcp")
  BY DEF Via, Requests, OthersKept
<1> DEFINE R == {r \in Via("mcp") : req[r].pc = "ok"}
<1>2. R' = R \cup {q}
  <2>1. \A r \in Via("mcp") : r # q => (req'[r].pc = "ok" <=> req[r].pc = "ok")
    BY DEF Via, Requests, OthersKept
  <2> QED  BY Zenon, <1>1, <2>1
<1>3. \A r \in R : req'[r].sent = req[r].sent
  BY Zenon DEF Via, Requests, OthersKept
<1> QED  BY <1>2, <1>3 DEF Paid

LEMMA PaidFinite ==
  ASSUME AskInv, BudgetInv
  PROVE  IsFiniteSet(Paid) /\ \A t \in Paid : t.value \in Nat
<1> DEFINE R == {r \in Via("mcp") : req[r].pc = "ok"}
<1>1. IsFiniteSet(R)
  <2>1. IsFiniteSet(DOMAIN ask) /\ R \subseteq DOMAIN ask
    BY Zenon, RequestsWellFormed DEF AskInv, Via, Requests
  <2> QED  BY Zenon, <2>1, FS_Subset
<1>2. \A r \in R : McpOK(r) /\ ask[r].via = "mcp"
  BY Zenon DEF BudgetInv, Via
<1>3. \A r \in R : IsFiniteSet(req[r].sent) /\ \A t \in req[r].sent : t.value \in Nat
  BY Zenon, <1>2 DEF McpOK
<1>4. Paid = UNION {req[r].sent : r \in R}
  BY Zenon DEF Paid
<1> HIDE DEF R
<1> QED  BY <1>1, <1>3, <1>4, GatherFinite

LEMMA AsksWellAll ==
  ASSUME AskInv, NEW q \in Requests
  PROVE  AsksWell(ask[q])
BY Zenon, RequestsWellFormed DEF AskInv, Requests, AsksWell

\* A step of one request to the server.
LEMMA BudgetOne ==
  ASSUME BudgetInv, NEW q \in Via("mcp"), ask' = ask, OthersKept(q), UNCHANGED restarts,
         spent' \in Nat, spent' <= Policy.daily, McpOK(q)',
         spent' = spent \/ \A r \in Via("mcp") : r # q => req[r].pc # "read",
         req'[q].pc = "read" => \A r \in Via("mcp") : r # q => req[r].pc # "read",
         Total(Paid') <= restarts["mcp"] * Policy.daily + spent'
  PROVE  BudgetInv'
<1>1. Via("mcp")' = Via("mcp") /\ Requests' = Requests
  BY Zenon DEF Via, Requests, OthersKept
<1>2. \A r \in Requests \ {q} : req'[r] = req[r]
  BY Zenon DEF Requests, OthersKept
<1>3. ASSUME NEW r \in Requests PROVE McpOK(r)'
  <2>1. CASE r = q
    BY Zenon, <2>1
  <2>2. CASE r # q /\ ask[r].via = "mcp"
    <3>1. req'[r] = req[r] /\ McpOK(r) /\ r \in Via("mcp")
      BY Zenon, <1>2, <2>2 DEF Via, BudgetInv
    <3>2. spent' = spent \/ req[r].pc # "read"
      BY Zenon, <2>2, <3>1
    <3> QED  BY Zenon, <3>1, <3>2 DEF McpOK
  <2>3. CASE ask[r].via # "mcp"
    BY Zenon, <2>3 DEF McpOK
  <2> QED  BY Zenon, <2>1, <2>2, <2>3
<1>4. \A a, b \in Via("mcp")' : req'[a].pc = "read" /\ req'[b].pc = "read" => a = b
  <2>1. \A r \in Via("mcp") \ {q} : req'[r] = req[r]
    BY Zenon, <1>2 DEF Via
  <2> QED  BY Zenon, <1>1, <2>1 DEF BudgetInv
<1> QED  BY Zenon, <1>1, <1>3, <1>4 DEF BudgetInv

LEMMA BudgetCall ==
  ASSUME AskInv, BudgetInv, NEW q \in Requests, McpCall(q)
  PROVE  BudgetInv'
<1>1. /\ q \in Via("mcp") /\ ask' = ask /\ OthersKept(q) /\ UNCHANGED <<spent, restarts>>
      /\ req[q].pc = "idle" /\ \A r \in Via("mcp") : req[r].pc # "read"
  BY Zenon, ClientStepOK DEF McpCall, Via, ClientStep, mcpVars
<1>2. McpOK(q) /\ spent \in Nat /\ spent <= Policy.daily
  BY Zenon DEF BudgetInv
<1> DEFINE D == CallTool(ask[q], spent)
<1>3. /\ req'[q].sent = req[q].sent
      /\ \/ req'[q].pc = "error"
         \/ D # {} /\ req'[q].pc = "read" /\ req'[q].draft = D
  <2>1. CASE D = {}
    <3>1. Step(q, "error")
      BY Zenon, <2>1 DEF McpCall
    <3> QED  BY Zenon, <3>1, StepOK
  <2>2. CASE D # {}
    <3>1. ReadNonce(q, D)
      BY Zenon, <2>2 DEF McpCall
    <3> HIDE DEF D
    <3> QED  BY Zenon, <2>2, <3>1, ReadNonceOK
  <2> QED  BY Zenon, <2>1, <2>2
<1>4. \A d \in D : d.value \in Nat /\ spent + d.value <= Policy.daily /\ D = {d}
  <2>1. AsksWell(ask[q]) /\ ask[q].via = "mcp"
    BY Zenon, <1>1, AsksWellAll DEF Via
  <2> QED  BY Zenon, <1>2, <2>1, CallToolDraft DEF WrittenAs
<1> HIDE DEF D
<1>5. McpOK(q)'
  <2>1. req[q].sent = {} /\ IsFiniteSet({})
    BY Zenon, <1>1, <1>2, FS_EmptySet DEF McpOK, Via
  <2>2. CASE req'[q].pc = "error"
    BY Zenon, <1>3, <2>1, <2>2 DEF McpOK
  <2>3. CASE D # {} /\ req'[q].pc = "read" /\ req'[q].draft = D
    <3>1. PICK d \in D : TRUE
      BY Zenon, <2>3
    <3>2. req'[q].draft = {d} /\ d.value \in Nat /\ spent' + d.value <= Policy.daily
      BY Zenon, <1>1, <1>4, <2>3, <3>1
    <3> QED  BY Zenon, <1>3, <2>1, <2>3, <3>2 DEF McpOK
  <2> QED  BY Zenon, <1>3, <2>2, <2>3
<1>6. Paid' = Paid
  <2>1. req[q].pc # "ok" /\ req'[q].pc # "ok"
    BY Zenon, <1>1, <1>3
  <2> QED  BY Zenon, <1>1, <2>1, PaidKept
<1>7. Total(Paid') <= restarts["mcp"] * Policy.daily + spent'
  BY Zenon, <1>1, <1>6 DEF BudgetInv
<1> QED  BY Zenon, <1>1, <1>2, <1>5, <1>7, BudgetOne

\* The transaction of a request with one draft.
LEMMA OneTx ==
  ASSUME NEW q, NEW d, req[q].draft = {d}
  PROVE  \E t : Range(Txs(q)) = {t} /\ t.value = d.value
<1>1. Txs(q) = <<WithNonce(d, req[q].nonce)>>
  BY Zenon DEF Txs
<1> DEFINE t == WithNonce(d, req[q].nonce)
<1>2. t.value = d.value
  BY DEF WithNonce
<1> HIDE DEF t
<1>3. Range(<<t>>) = {t}
  BY DEF Range
<1> QED  BY Zenon, <1>1, <1>2, <1>3 DEF t

LEMMA BudgetSubmit ==
  ASSUME AskInv, BudgetInv, NEW q \in Requests, McpSubmit(q)
  PROVE  BudgetInv'
<1>1. /\ q \in Via("mcp") /\ ask' = ask /\ OthersKept(q) /\ UNCHANGED restarts
      /\ req[q].pc = "read"
  BY Zenon, ClientStepOK DEF McpSubmit, Via, ClientStep
<1>2. McpOK(q) /\ spent \in Nat /\ spent <= Policy.daily /\ restarts["mcp"] \in Nat
  BY Zenon DEF BudgetInv
<1>3. PICK d : req[q].draft = {d} /\ d.value \in Nat /\ spent + d.value <= Policy.daily
  BY Zenon, <1>1, <1>2 DEF McpOK, Via
<1>4. PICK t : Range(Txs(q)) = {t} /\ t.value = d.value
  BY Zenon, <1>3, OneTx
<1>5. PICK ok \in BOOLEAN : /\ Answered(q, IF ok THEN "ok" ELSE "error")
                            /\ IF ok THEN RecordSpend(q) ELSE UNCHANGED spent
  BY Zenon DEF McpSubmit
<1>6. req'[q].pc = (IF ok THEN "ok" ELSE "error") /\ req'[q].sent = {t}
  BY Zenon, <1>4, <1>5, AnsweredOK
<1>7. McpOK(q)'
  <2>1. IsFiniteSet({t})
    BY Zenon, FS_Singleton
  <2> QED  BY Zenon, <1>3, <1>4, <1>6, <2>1 DEF McpOK
<1>8. \A r \in Via("mcp") : r # q => req[r].pc # "read"
  BY Zenon, <1>1 DEF BudgetInv
<1>9. req'[q].pc # "read"
  BY Zenon, <1>6
<1>10. IsFiniteSet(Paid) /\ \A x \in Paid : x.value \in Nat
  BY Zenon, PaidFinite
<1>11. Total(Paid) <= restarts["mcp"] * Policy.daily + spent
  BY Zenon DEF BudgetInv
<1>12. CASE ok
  <2>1. spent' = spent + d.value
    BY Zenon, <1>3, <1>5, <1>12, TotalOne DEF RecordSpend
  <2>2. Paid' = Paid \cup {t}
    BY Zenon, <1>1, <1>6, <1>12, PaidMore
  <2>3. /\ Total(Paid) \in Nat /\ Total({t}) \in Nat
        /\ Total(Paid \cup {t}) \in Nat /\ Total(Paid \cup {t}) <= Total(Paid) + Total({t})
    <3>1. IsFiniteSet({t}) /\ \A x \in Paid \cup {t} : x.value \in Nat
      BY Zenon, <1>3, <1>4, <1>10, FS_Singleton
    <3> QED  BY Zenon, <1>10, <3>1, TotalJoin
  <2>4. Total({t}) = d.value
    BY Zenon, <1>3, <1>4, TotalOne
  <2>5. spent' \in Nat /\ spent' <= Policy.daily
    BY <1>2, <1>3, <2>1
  <2>6. restarts["mcp"] * Policy.daily \in Nat
    BY <1>2, PolicyAmounts
  <2>7. \A a, b, v, s, m \in Nat : a <= b + v /\ b <= m + s => a <= m + (s + v)
    OBVIOUS
  <2>8. Total(Paid') <= restarts["mcp"] * Policy.daily + spent'
    BY Zenon, <1>2, <1>3, <1>11, <2>1, <2>2, <2>3, <2>4, <2>6, <2>7
  <2> QED  BY Zenon, <1>1, <1>7, <1>8, <1>9, <2>5, <2>8, BudgetOne
<1>13. CASE ~ok
  <2>1. spent' = spent
    BY Zenon, <1>5, <1>13
  <2>2. Paid' = Paid
    <3>1. req'[q].pc # "ok" /\ req[q].pc # "ok"
      BY Zenon, <1>1, <1>6, <1>13
    <3> QED  BY Zenon, <1>1, <3>1, PaidKept
  <2>3. Total(Paid') <= restarts["mcp"] * Policy.daily + spent'
    BY Zenon, <1>11, <2>1, <2>2
  <2> QED  BY Zenon, <1>1, <1>2, <1>7, <1>8, <1>9, <2>1, <2>3, BudgetOne
<1> QED  BY Zenon, <1>12, <1>13

LEMMA BudgetRestart ==
  ASSUME AskInv, BudgetInv, McpRestart
  PROVE  BudgetInv'
<1>1. /\ ask' = ask /\ spent' = 0 /\ restarts' = [restarts EXCEPT !["mcp"] = @ + 1]
      /\ DOMAIN req' = DOMAIN req
  BY DEF McpRestart, Restart, Requests
<1>2. \A q \in Requests : \/ req'[q] = req[q] /\ ~(ask[q].via = "mcp" /\ req[q].pc = "read")
                          \/ /\ ask[q].via = "mcp" /\ req[q].pc = "read"
                             /\ req'[q].pc = "error"
                             /\ req'[q].draft = req[q].draft /\ req'[q].sent = req[q].sent
  <2> TAKE q \in Requests
  <2>1. req'[q] = IF ask[q].via = "mcp" /\ req[q].pc = "read"
                  THEN [req[q] EXCEPT !.pc = "error"] ELSE req[q]
    BY Zenon DEF McpRestart
  <2>2. RequestShape(req[q])
    BY Zenon DEF AskInv, Requests
  <2> QED  BY Zenon, <2>1, <2>2 DEF RequestShape
<1>3. Via("mcp")' = Via("mcp") /\ Requests' = Requests
  BY Zenon, <1>1 DEF Via, Requests
<1>4. Paid' = Paid
  <2> DEFINE R == {r \in Via("mcp") : req[r].pc = "ok"}
  <2>1. R' = R
    <3>1. \A r \in Via("mcp") : req'[r].pc = "ok" <=> req[r].pc = "ok"
      BY Zenon, <1>2 DEF Via
    <3> QED  BY Zenon, <1>3, <3>1
  <2>2. \A r \in R : req'[r].sent = req[r].sent
    BY Zenon, <1>2 DEF Via
  <2> QED  BY Zenon, <2>1, <2>2 DEF Paid
<1>5. ASSUME NEW q \in Requests PROVE McpOK(q)' /\ (ask[q].via = "mcp" => req'[q].pc # "read")
  <2>1. McpOK(q)
    BY Zenon DEF BudgetInv
  <2> QED  BY Zenon, <1>1, <1>2, <2>1 DEF McpOK
<1>6. /\ restarts' \in [{"mcp", "faucet", "node"} -> Nat]
      /\ restarts'["mcp"] = restarts["mcp"] + 1 /\ restarts["mcp"] \in Nat
  BY <1>1 DEF BudgetInv
<1>7. Total(Paid') <= restarts'["mcp"] * Policy.daily + spent'
  <2>1. Total(Paid) <= restarts["mcp"] * Policy.daily + spent /\ spent \in Nat /\ spent <= Policy.daily
    BY DEF BudgetInv
  <2>2. Total(Paid) \in Nat
    <3>1. IsFiniteSet(Paid) /\ (\A t \in Paid : t.value \in Nat) /\ Paid \in SUBSET Paid
      BY Zenon, PaidFinite
    <3> QED  BY Zenon, <3>1, TotalIn
  <2>3. \A a, r, m, s \in Nat : a <= r * m + s /\ s <= m => a <= (r + 1) * m + 0
    OBVIOUS
  <2> QED  BY Zenon, <1>1, <1>4, <1>6, <2>1, <2>2, <2>3, PolicyAmounts
<1>8. \A q, r \in Via("mcp")' : req'[q].pc = "read" /\ req'[r].pc = "read" => q = r
  BY Zenon, <1>3, <1>5 DEF Via
<1>9. spent' \in Nat /\ spent' <= Policy.daily
  BY <1>1, PolicyAmounts
<1> QED  BY Zenon, <1>3, <1>5, <1>6, <1>7, <1>8, <1>9 DEF BudgetInv

LEMMA BudgetInvNext == AskInv /\ BudgetInv /\ [Next]_vars => BudgetInv'
<1> SUFFICES ASSUME AskInv, BudgetInv, [Next]_vars PROVE BudgetInv'
  BY Zenon
<1>0. restarts \in [{"mcp", "faucet", "node"} -> Nat]
  BY Zenon DEF BudgetInv
<1>1. ASSUME UNCHANGED <<ask, spent, restarts, req>> PROVE BudgetInv'
  BY Zenon, <1>0, <1>1, BudgetKept
<1>2. ASSUME NEW q \in Requests, q \notin Via("mcp"), UNCHANGED <<ask, spent, restarts>>,
             OthersKept(q)
      PROVE  BudgetInv'
  <2>1. \A r \in Via("mcp") : req'[r] = req[r]
    BY Zenon, <1>2 DEF Via, Requests, OthersKept
  <2> QED  BY Zenon, <1>0, <1>2, <2>1, BudgetKept DEF OthersKept
<1>3. ASSUME NEW q \in Requests, ClientStep(q) \/ CliPrepare(q) \/ CliSubmit(q) PROVE BudgetInv'
  <2>1. CASE McpCall(q)
    BY Zenon, <2>1, BudgetCall
  <2>2. CASE McpSubmit(q)
    BY Zenon, <2>2, BudgetSubmit
  <2>3. CASE ~McpCall(q) /\ ~McpSubmit(q)
    <3>1. ask' = ask /\ OthersKept(q)
      BY Zenon, <1>3, ClientStepOK
    <3>2. q \notin Via("mcp")
      <4>1. CASE CliSubmit(q)
        <5>1. McpOK(q)
          BY Zenon DEF BudgetInv
        <5> QED  BY Zenon, <4>1, <5>1 DEF CliSubmit, McpOK, Via
      <4>2. CASE ~CliSubmit(q)
        BY Zenon, <1>3, <2>3, <4>2
           DEF ClientStep, WalletRead, SignAndSubmit, RawSubmit, FaucetCheck, FaucetNonce,
               FaucetSubmit, FaucetRecord, CliPrepare, Via
      <4> QED  BY Zenon, <4>1, <4>2
    <3>3. UNCHANGED <<spent, restarts>>
      BY Zenon, <1>3, <2>3
         DEF ClientStep, WalletRead, SignAndSubmit, RawSubmit, FaucetCheck, FaucetNonce,
             FaucetSubmit, FaucetRecord, CliPrepare, CliSubmit, mcpVars
    <3> QED  BY Zenon, <1>2, <3>1, <3>2, <3>3
  <2> QED  BY Zenon, <2>1, <2>2, <2>3
<1>4. ASSUME NEW q \in Requests, NEW k \in Keys, CliCountersign(q, k) PROVE BudgetInv'
  <2>1. OthersKept(q) /\ UNCHANGED <<ask, spent, restarts>> /\ req[q].pc = "prepared"
    BY Zenon, <1>4, StepOK DEF CliCountersign, mcpVars
  <2>2. q \notin Via("mcp")
    <3>1. McpOK(q)
      BY Zenon DEF BudgetInv
    <3> QED  BY Zenon, <2>1, <3>1 DEF McpOK, Via
  <2> QED  BY Zenon, <1>2, <2>1, <2>2
<1>5. CASE FaucetCrash
  <2>1. UNCHANGED <<ask, spent>> /\ restarts' = [restarts EXCEPT !["faucet"] = @ + 1]
    BY Zenon, <1>5 DEF FaucetCrash, Restart
  <2>2. restarts' \in [{"mcp", "faucet", "node"} -> Nat] /\ restarts'["mcp"] = restarts["mcp"]
    BY <1>0, <2>1
  <2>3. DOMAIN req' = DOMAIN req /\ \A q \in Via("mcp") : req'[q] = req[q]
    BY Zenon, <1>5 DEF FaucetCrash, Via, Requests
  <2> QED  BY Zenon, <2>1, <2>2, <2>3, BudgetKept
<1>6. CASE NodeRestart
  <2>1. UNCHANGED <<ask, spent, req>> /\ restarts' = [restarts EXCEPT !["node"] = @ + 1]
    BY Zenon, <1>6 DEF NodeRestart, Restart
  <2>2. restarts' \in [{"mcp", "faucet", "node"} -> Nat] /\ restarts'["mcp"] = restarts["mcp"]
    BY <1>0, <2>1
  <2> QED  BY Zenon, <2>1, <2>2, BudgetKept
<1>7. CASE McpRestart
  BY Zenon, <1>7, BudgetRestart
<1>8. CASE (\E t \in flying : Execute(t) \/ Skip(t) \/ Lose(t)) \/ Tick \/ UNCHANGED vars
  BY Zenon, <1>1, <1>8 DEF Execute, Skip, Lose, Tick, vars, mcpVars
<1> QED  BY Zenon, <1>3, <1>4, <1>5, <1>6, <1>7, <1>8 DEF Next

\* What was sent is acknowledged, or ended with an error.
LEMMA BudgetHolds == AskInv /\ BudgetInv => McpBudget
<1> SUFFICES ASSUME AskInv, BudgetInv PROVE McpBudget
  BY Zenon
<1> DEFINE E == {r \in Via("mcp") : req[r].pc = "error"}
           sent == UNION {req[q].sent : q \in Via("mcp")}
           unanswered == UNION {req[q].sent : q \in E}
<1>1. \A r \in Via("mcp") : /\ IsFiniteSet(req[r].sent) /\ \A t \in req[r].sent : t.value \in Nat
                            /\ req[r].sent # {} => req[r].pc \in {"ok", "error"}
  BY Zenon DEF BudgetInv, McpOK, Via
<1>2. IsFiniteSet(E)
  <2>1. IsFiniteSet(DOMAIN ask) /\ E \subseteq DOMAIN ask
    BY Zenon, RequestsWellFormed DEF AskInv, Via, Requests
  <2> QED  BY Zenon, <2>1, FS_Subset
<1>3. IsFiniteSet(unanswered) /\ \A t \in unanswered : t.value \in Nat
  <2>1. \A r \in E : IsFiniteSet(req[r].sent) /\ \A t \in req[r].sent : t.value \in Nat
    BY Zenon, <1>1
  <2> HIDE DEF E
  <2> QED  BY <1>2, <2>1, GatherFinite
<1>4. sent \subseteq Paid \cup unanswered
  <2> SUFFICES ASSUME NEW t \in sent PROVE t \in Paid \cup unanswered
    BY Zenon
  <2>1. PICK r \in Via("mcp") : t \in req[r].sent
    BY Zenon
  <2>2. req[r].pc \in {"ok", "error"}
    BY Zenon, <1>1, <2>1
  <2> QED  BY Zenon, <2>1, <2>2 DEF Paid
<1>5. IsFiniteSet(Paid) /\ \A t \in Paid : t.value \in Nat
  BY Zenon, PaidFinite
<1> DEFINE U == Paid \cup unanswered
           X == executed \cap sent
<1>6. X \in SUBSET U
  BY Zenon, <1>4
<1>7. McpBudget <=> Total(X) <= (restarts["mcp"] + 1) * Policy.daily + Total(unanswered)
  BY DEF McpBudget
<1> HIDE DEF E, sent, unanswered, X
<1>8. IsFiniteSet(U) /\ \A t \in U : t.value \in Nat
  BY Zenon, <1>3, <1>5, FS_Union
<1>9. /\ Total(Paid) \in Nat /\ Total(unanswered) \in Nat /\ Total(U) \in Nat
      /\ Total(U) <= Total(Paid) + Total(unanswered)
  BY Zenon, <1>3, <1>5, <1>8, TotalJoin
<1>10. Total(X) \in Nat /\ Total(X) <= Total(U)
  <2> HIDE DEF U
  <2> QED  BY Zenon, <1>6, <1>8, TotalIn
<1>11. /\ Total(Paid) <= restarts["mcp"] * Policy.daily + spent /\ spent \in Nat
       /\ spent <= Policy.daily /\ restarts["mcp"] \in Nat
  BY DEF BudgetInv
<1>12. \A x, u, p, e, r, m, s \in Nat :
         x <= u /\ u <= p + e /\ p <= r * m + s /\ s <= m => x <= (r + 1) * m + e
  OBVIOUS
<1>13. Total(X) <= (restarts["mcp"] + 1) * Policy.daily + Total(unanswered)
  <2> HIDE DEF U
  <2> QED  BY Zenon, <1>9, <1>10, <1>11, <1>12, PolicyAmounts
<1> QED  BY Zenon, <1>7, <1>13

\* What the MCP server's key really spent on the chain stays within the daily
\* limit for each life of the server, but for submissions whose answer was lost,
\* for any policy, requests and number of restarts (allowSpend and recordSpend,
\* frg-mcp/main.go:1136-1181).
THEOREM BudgetIsKept == Spec => []McpBudget
BY AskInvInit, AskInvNext, BudgetInvInit, BudgetInvNext, BudgetHolds, PTL DEF Spec

-----------------------------------------------------------------------------
(* What is drafted and what is sent carries the amount that was written.   *)

RequestWritten(q) ==
  /\ \A d \in req[q].draft : WrittenAs(ask[q], d.value)
  /\ \A t \in req[q].sent : WrittenAs(ask[q], t.value)
  /\ req[q].pc \in {"read", "prepared", "countersigned"} => req[q].draft # {}

AmountInv == \A q \in Requests : RequestWritten(q)

LEMMA AmountInvInit == Init => AmountInv
<1> SUFFICES ASSUME Init PROVE AmountInv
  BY Zenon
<1>1. PICK s \in Scenarios :
        /\ ask = s
        /\ req = [q \in DOMAIN s |-> [pc |-> "idle", draft |-> {}, nonce |-> 0, sent |-> {},
                                      after |-> {}, checked |-> 0, recorded |-> 0]]
  BY Zenon DEF Init
<1>2. \A q \in Requests : req[q].pc = "idle" /\ req[q].sent = {} /\ req[q].draft = {}
  BY Zenon, <1>1 DEF Requests
<1> QED  BY Zenon, <1>2 DEF AmountInv, RequestWritten

\* What a request sends: its draft, or what is ready-made.
LEMMA TxsWritten ==
  ASSUME AskInv, NEW q \in Requests, RequestWritten(q),
         req[q].draft # {} \/ ask[q].via \in {"raw", "web"}, NEW t \in Range(Txs(q))
  PROVE  WrittenAs(ask[q], t.value)
<1>1. CASE req[q].draft # {}
  <2>1. PICK d \in req[q].draft : d = CHOOSE x \in req[q].draft : TRUE
    BY Zenon, <1>1
  <2>2. Txs(q) = <<WithNonce(d, req[q].nonce)>>
    BY Zenon, <1>1, <2>1 DEF Txs
  <2>3. t = WithNonce(d, req[q].nonce)
    BY <2>2 DEF Range
  <2>4. t.value = d.value
    BY Zenon, <2>3 DEF WithNonce
  <2> QED  BY Zenon, <2>1, <2>4 DEF RequestWritten
<1>2. CASE req[q].draft = {}
  <2>1. Txs(q) = ask[q].txs
    BY Zenon, <1>2 DEF Txs
  <2> DEFINE Tx == [op : STRING, key : Keys, to : STRING, value : Nat, nonce : Nat]
  <2>2. ask[q].txs \in Seq(Tx)
    BY Zenon, RequestsWellFormed DEF AskInv, Requests
  <2>3. PICK i \in DOMAIN ask[q].txs : t = ask[q].txs[i]
    BY Zenon, <2>1 DEF Range
  <2>4. t \in Tx
    <3> HIDE DEF Tx
    <3> QED  BY <2>2, <2>3
  <2>5. t.value \in Nat
    BY Zenon, <2>4
  <2>6. ask[q].frg = {}
    <3>1. AmountOps(ask[q].via) = {}
      BY Zenon, <1>2 DEF AmountOps
    <3>2. AsksWell(ask[q])
      BY Zenon, AsksWellAll
    <3> QED  BY Zenon, <3>1, <3>2 DEF AsksWell
  <2> QED  BY Zenon, <2>5, <2>6, WrittenNone
<1> QED  BY Zenon, <1>1, <1>2

\* The steps of a request: one that moves it on, one that drafts, one that sends.
LEMMA WrittenMoved ==
  ASSUME NEW q, RequestWritten(q), ask' = ask,
         req'[q].draft = req[q].draft, req'[q].sent = req[q].sent,
         \/ req'[q].pc \notin {"read", "prepared", "countersigned"}
         \/ req[q].pc = "prepared"
  PROVE  RequestWritten(q)'
BY Zenon DEF RequestWritten

LEMMA WrittenDrafted ==
  ASSUME NEW q, RequestWritten(q), ask' = ask, req'[q].sent = req[q].sent,
         req'[q].draft # {}, \A d \in req'[q].draft : WrittenAs(ask[q], d.value)
  PROVE  RequestWritten(q)'
BY Zenon DEF RequestWritten

LEMMA WrittenSent ==
  ASSUME AskInv, NEW q \in Requests, RequestWritten(q), ask' = ask, NEW pc,
         pc \in {"ok", "sent", "error"}, Answered(q, pc),
         req[q].draft # {} \/ ask[q].via \in {"raw", "web"}
  PROVE  RequestWritten(q)'
<1>1. req'[q].pc = pc /\ req'[q].sent = Range(Txs(q)) /\ req'[q].draft = req[q].draft
  BY Zenon, AnsweredOK
<1>2. \A t \in Range(Txs(q)) : WrittenAs(ask[q], t.value)
  BY Zenon, TxsWritten
<1> QED  BY Zenon, <1>1, <1>2 DEF RequestWritten

LEMMA WrittenRead ==
  ASSUME AskInv, NEW q \in Requests, RequestWritten(q), ask' = ask, NEW D, D # {},
         \A d \in D : WrittenAs(ask[q], d.value), ReadNonce(q, D)
  PROVE  RequestWritten(q)'
<1>1. /\ req'[q].sent = req[q].sent
      /\ \/ req'[q].pc = "error" /\ req'[q].draft = req[q].draft
         \/ req'[q].draft = D
  BY Zenon, ReadNonceOK
<1>2. CASE req'[q].pc = "error" /\ req'[q].draft = req[q].draft
  <2>1. req'[q].pc \notin {"read", "prepared", "countersigned"}
    BY Zenon, <1>2
  <2> QED  BY Zenon, <1>1, <1>2, <2>1, WrittenMoved
<1>3. CASE req'[q].draft = D
  BY Zenon, <1>1, <1>3, WrittenDrafted
<1> QED  BY Zenon, <1>1, <1>2, <1>3

LEMMA WrittenError ==
  ASSUME AskInv, NEW q \in Requests, RequestWritten(q), ask' = ask, Step(q, "error")
  PROVE  RequestWritten(q)'
<1>1. /\ req'[q].sent = req[q].sent /\ req'[q].draft = req[q].draft
      /\ req'[q].pc \notin {"read", "prepared", "countersigned"}
  BY StepOK
<1> QED  BY Zenon, <1>1, WrittenMoved

LEMMA ClientWritten ==
  ASSUME AskInv, BudgetInv, AmountInv, NEW q \in Requests,
         ClientStep(q) \/ CliPrepare(q) \/ CliSubmit(q)
  PROVE  RequestWritten(q)'
<1>0. RequestShape(req[q])
  BY Zenon DEF AskInv, Requests
<1>1. ask' = ask /\ RequestWritten(q) /\ AsksWell(ask[q])
  BY Zenon, ClientStepOK, AsksWellAll DEF AmountInv
<1>2. req[q].pc \in {"read", "prepared", "countersigned"} => req[q].draft # {}
  BY Zenon, <1>1 DEF RequestWritten
<1>3. ASSUME NEW ok \in BOOLEAN
      PROVE  (IF ok THEN "ok" ELSE "error") \in {"ok", "sent", "error"}
  OBVIOUS
<1>4. CASE WalletRead(q)
  <2> DEFINE D == IF ask[q].via = "wallet" THEN WalletDraft(ask[q]) ELSE CliDraft(ask[q])
  <2>1. ask[q].via \in {"wallet", "cli"} /\ IF D = {} THEN Step(q, "error") ELSE ReadNonce(q, D)
    BY Zenon, <1>4 DEF WalletRead
  <2>2. \A d \in D : WrittenAs(ask[q], d.value)
    <3>1. CASE ask[q].via = "wallet"
      BY Zenon, <1>1, <3>1, WalletDraftWritten
    <3>2. CASE ask[q].via = "cli"
      BY Zenon, <1>1, <3>2, CliDraftWritten
    <3> QED  BY Zenon, <2>1, <3>1, <3>2
  <2> HIDE DEF D
  <2>3. CASE D = {}
    BY Zenon, <1>1, <2>1, <2>3, WrittenError
  <2>4. CASE D # {}
    BY Zenon, <1>1, <2>1, <2>2, <2>4, WrittenRead
  <2> QED  BY Zenon, <2>3, <2>4
<1>5. CASE SignAndSubmit(q)
  <2>1. PICK ok \in BOOLEAN : Answered(q, IF ok THEN "ok" ELSE "error")
    BY Zenon, <1>5 DEF SignAndSubmit
  <2>2. req[q].draft # {}
    BY Zenon, <1>2, <1>5 DEF SignAndSubmit
  <2> QED  BY Zenon, <1>1, <1>3, <2>1, <2>2, WrittenSent
<1>6. CASE RawSubmit(q)
  <2>1. ask[q].via \in {"raw", "web"}
    BY Zenon, <1>6 DEF RawSubmit
  <2>2. CASE Step(q, "error")
    BY Zenon, <1>1, <2>2, WrittenError
  <2>3. CASE \E ok \in BOOLEAN : Answered(q, IF ok THEN "ok" ELSE "error")
    <3>1. PICK ok \in BOOLEAN : Answered(q, IF ok THEN "ok" ELSE "error")
      BY Zenon, <2>3
    <3> QED  BY Zenon, <1>1, <1>3, <2>1, <3>1, WrittenSent
  <2> QED  BY Zenon, <1>6, <2>2, <2>3 DEF RawSubmit
<1>7. CASE McpCall(q)
  <2> DEFINE D == CallTool(ask[q], spent)
  <2>1. ask[q].via = "mcp" /\ IF D = {} THEN Step(q, "error") ELSE ReadNonce(q, D)
    BY Zenon, <1>7 DEF McpCall
  <2>2. \A d \in D : WrittenAs(ask[q], d.value)
    BY Zenon, <1>1, <2>1, CallToolDraft DEF BudgetInv
  <2> HIDE DEF D
  <2>3. CASE D = {}
    BY Zenon, <1>1, <2>1, <2>3, WrittenError
  <2>4. CASE D # {}
    BY Zenon, <1>1, <2>1, <2>2, <2>4, WrittenRead
  <2> QED  BY Zenon, <2>3, <2>4
<1>8. CASE McpSubmit(q)
  <2>1. PICK ok \in BOOLEAN : Answered(q, IF ok THEN "ok" ELSE "error")
    BY Zenon, <1>8 DEF McpSubmit
  <2>2. req[q].draft # {}
    BY Zenon, <1>2, <1>8 DEF McpSubmit
  <2> QED  BY Zenon, <1>1, <1>3, <2>1, <2>2, WrittenSent
<1>9. CASE FaucetCheck(q)
  <2>1. CASE Step(q, "error")
    BY Zenon, <1>1, <2>1, WrittenError
  <2>2. CASE req' = [req EXCEPT ![q].pc = "waiting", ![q].checked = now,
                                ![q].after = {r \in Via("faucet") : req[r].pc = "ok"}]
    <3>1. /\ req'[q].pc = "waiting" /\ req'[q].draft = req[q].draft
          /\ req'[q].sent = req[q].sent
      <4>1. PICK S : S = {r \in Via("faucet") : req[r].pc = "ok"}
        BY Zenon
      <4>2. req'[q] = [req[q] EXCEPT !.pc = "waiting", !.checked = now, !.after = S]
        BY Zenon, <2>2, <4>1 DEF Requests
      <4> QED  BY Zenon, <1>0, <4>2 DEF RequestShape
    <3>2. req'[q].pc \notin {"read", "prepared", "countersigned"}
      BY Zenon, <3>1
    <3> QED  BY Zenon, <1>1, <3>1, <3>2, WrittenMoved
  <2> QED  BY Zenon, <1>9, <2>1, <2>2 DEF FaucetCheck
<1>10. CASE FaucetNonce(q)
  <2> DEFINE d == Draft("transfer", ask[q].key, ask[q].to, FaucetAmount)
  <2>1. ask[q].via = "faucet" /\ ReadNonce(q, {d})
    BY Zenon, <1>10 DEF FaucetNonce
  <2>2. ask[q].frg = {}
    <3>1. AmountOps(ask[q].via) = {}
      BY Zenon, <2>1 DEF AmountOps
    <3> QED  BY Zenon, <1>1, <3>1 DEF AsksWell
  <2>3. d.value = FaucetAmount
    BY Zenon DEF Draft
  <2> HIDE DEF d
  <2>4. \A e \in {d} : WrittenAs(ask[q], e.value)
    BY Zenon, <2>2, <2>3, WrittenNone, FaucetAmountNat
  <2> QED  BY Zenon, <1>1, <2>1, <2>4, WrittenRead
<1>11. CASE FaucetSubmit(q)
  <2>1. PICK ok \in BOOLEAN : Answered(q, IF ok THEN "sent" ELSE "error")
    BY Zenon, <1>11 DEF FaucetSubmit
  <2>2. req[q].draft # {}
    BY Zenon, <1>2, <1>11 DEF FaucetSubmit
  <2>3. (IF ok THEN "sent" ELSE "error") \in {"ok", "sent", "error"}
    BY Zenon
  <2> QED  BY Zenon, <1>1, <2>1, <2>2, <2>3, WrittenSent
<1>12. CASE FaucetRecord(q)
  <2>1. req' = [req EXCEPT ![q].pc = "ok", ![q].recorded = now]
    BY Zenon, <1>12 DEF FaucetRecord
  <2>2. req'[q].pc = "ok" /\ req'[q].draft = req[q].draft /\ req'[q].sent = req[q].sent
    <3>1. req'[q] = [req[q] EXCEPT !.pc = "ok", !.recorded = now]
      BY Zenon, <2>1 DEF Requests
    <3> QED  BY Zenon, <1>0, <3>1 DEF RequestShape
  <2>3. req'[q].pc \notin {"read", "prepared", "countersigned"}
    BY Zenon, <2>2
  <2> QED  BY Zenon, <1>1, <2>2, <2>3, WrittenMoved
<1>13. CASE CliPrepare(q)
  <2> DEFINE D == CliDraft(ask[q])
  <2>1. /\ ask[q].via = "cli"
        /\ req' = IF D = {} THEN [req EXCEPT ![q].pc = "error"]
                  ELSE [req EXCEPT ![q].pc = "prepared", ![q].draft = D]
    BY Zenon, <1>13 DEF CliPrepare
  <2>2. \A d \in D : WrittenAs(ask[q], d.value)
    BY Zenon, <1>1, <2>1, CliDraftWritten
  <2> HIDE DEF D
  <2>3. CASE D = {}
    <3>1. Step(q, "error")
      BY Zenon, <2>1, <2>3 DEF Step
    <3> QED  BY Zenon, <1>1, <3>1, WrittenError
  <2>4. CASE D # {}
    <3>1. req'[q].draft = D /\ req'[q].sent = req[q].sent
      <4>1. req'[q] = [req[q] EXCEPT !.pc = "prepared", !.draft = D]
        BY Zenon, <2>1, <2>4 DEF Requests
      <4> QED  BY Zenon, <1>0, <4>1 DEF RequestShape
    <3> QED  BY Zenon, <1>1, <2>2, <2>4, <3>1, WrittenDrafted
  <2> QED  BY Zenon, <2>3, <2>4
<1>14. CASE CliSubmit(q)
  <2>1. PICK ok \in BOOLEAN : Answered(q, IF ok THEN "ok" ELSE "error")
    BY Zenon, <1>14 DEF CliSubmit
  <2>2. req[q].draft # {}
    BY Zenon, <1>2, <1>14 DEF CliSubmit
  <2> QED  BY Zenon, <1>1, <1>3, <2>1, <2>2, WrittenSent
<1> QED
  BY Zenon, <1>4, <1>5, <1>6, <1>7, <1>8, <1>9, <1>10, <1>11, <1>12, <1>13, <1>14
     DEF ClientStep

LEMMA AmountInvNext == AskInv /\ BudgetInv /\ AmountInv /\ [Next]_vars => AmountInv'
<1> SUFFICES ASSUME AskInv, BudgetInv, AmountInv, [Next]_vars PROVE AmountInv'
  BY Zenon
<1>1. ASSUME UNCHANGED <<ask, req>> PROVE AmountInv'
  BY Zenon, <1>1 DEF AmountInv, RequestWritten, Requests
<1>2. ASSUME NEW q \in Requests, ask' = ask, OthersKept(q), RequestWritten(q)' PROVE AmountInv'
  <2>1. Requests' = Requests
    BY Zenon, <1>2 DEF OthersKept, Requests
  <2>2. ASSUME NEW r \in Requests PROVE RequestWritten(r)'
    <3>1. CASE r = q
      BY Zenon, <1>2, <3>1
    <3>2. CASE r # q
      <4>1. req'[r] = req[r] /\ RequestWritten(r)
        BY Zenon, <1>2, <3>2 DEF OthersKept, Requests, AmountInv
      <4> QED  BY Zenon, <1>2, <4>1 DEF RequestWritten
    <3> QED  BY Zenon, <3>1, <3>2
  <2> QED  BY Zenon, <2>1, <2>2 DEF AmountInv
<1>3. ASSUME NEW q \in Requests, ClientStep(q) \/ CliPrepare(q) \/ CliSubmit(q) PROVE AmountInv'
  BY Zenon, <1>2, <1>3, ClientStepOK, ClientWritten
<1>4. ASSUME NEW q \in Requests, NEW k \in Keys, CliCountersign(q, k) PROVE AmountInv'
  <2>1. Step(q, "countersigned") /\ ask' = ask /\ req[q].pc = "prepared"
    BY Zenon, <1>4 DEF CliCountersign
  <2>2. OthersKept(q) /\ req'[q].draft = req[q].draft /\ req'[q].sent = req[q].sent
    BY Zenon, <2>1, StepOK
  <2>3. RequestWritten(q)'
    BY Zenon, <2>1, <2>2, WrittenMoved DEF AmountInv
  <2> QED  BY Zenon, <1>2, <2>1, <2>2, <2>3
<1>5. CASE McpRestart \/ FaucetCrash
  <2>1. /\ ask' = ask /\ Requests' = Requests
        /\ \A q \in Requests :
             \/ req'[q] = req[q]
             \/ /\ req'[q].pc = "error"
                /\ req'[q].draft = req[q].draft /\ req'[q].sent = req[q].sent
    BY Zenon, <1>5, DeathOK DEF Requests
  <2>2. ASSUME NEW q \in Requests PROVE RequestWritten(q)'
    <3>1. RequestWritten(q)
      BY Zenon DEF AmountInv
    <3>2. CASE req'[q] = req[q]
      BY Zenon, <2>1, <3>1, <3>2 DEF RequestWritten
    <3>3. CASE /\ req'[q].pc = "error"
               /\ req'[q].draft = req[q].draft /\ req'[q].sent = req[q].sent
      <4>1. req'[q].pc \notin {"read", "prepared", "countersigned"}
        BY Zenon, <3>3
      <4> QED  BY Zenon, <2>1, <3>1, <3>3, <4>1, WrittenMoved
    <3> QED  BY Zenon, <2>1, <3>2, <3>3
  <2> QED  BY Zenon, <2>1, <2>2 DEF AmountInv
<1>6. CASE \/ \E t \in flying : Execute(t) \/ Skip(t) \/ Lose(t)
           \/ NodeRestart \/ Tick \/ UNCHANGED vars
  BY Zenon, <1>1, <1>6 DEF Execute, Skip, Lose, NodeRestart, Tick, vars
<1> QED  BY Zenon, <1>3, <1>4, <1>5, <1>6 DEF Next

LEMMA AmountHolds == AmountInv => AmountAsWritten
<1> SUFFICES ASSUME AmountInv, NEW q \in Requests, NEW t \in req[q].sent
             PROVE  /\ \A x \in ask[q].frg :
                         t.value * Tens[Len(x.frac)] = Number(x.whole \o x.frac) * QuantaPerFRG
                    /\ ParseFRG(FormatFRG(t.value)) = {t.value}
  BY Zenon DEF AmountAsWritten
<1>1. WrittenAs(ask[q], t.value)
  BY Zenon DEF AmountInv, RequestWritten
<1>2. t.value \in Nat
  BY Zenon, <1>1 DEF WrittenAs
<1>3. ParseFRG(FormatFRG(t.value)) = {t.value}
  BY Zenon, <1>2, FormatFRGReadsBack
<1> QED  BY Zenon, <1>1, <1>3 DEF WrittenAs

\* What a client sends carries the amount the user wrote, to the last decimal,
\* and shown to the user it reads back as that amount, for every text, every
\* amount and any number of decimals (ParseFRG and FormatFRG, denom.go:14-117).
THEOREM AmountIsAsWritten == Spec => []AmountAsWritten
BY AskInvInit, AskInvNext, BudgetInvInit, BudgetInvNext, AmountInvInit, AmountInvNext,
   AmountHolds, PTL DEF Spec
=============================================================================

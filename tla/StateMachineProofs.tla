------------------------- MODULE StateMachineProofs -------------------------
(***************************************************************************)
(* Theorems about StateMachine: bonds are backed by their escrows, nonces   *)
(* are used in order, no bond leaves before its lockup, and the recorded    *)
(* supply is what the balances add up to, for any keys, transactions,       *)
(* blocks and parameters.                                                   *)
(***************************************************************************)
EXTENDS StateMachine, DataLemmas

ContractAccounts == {"contract"} \X Key \X (1 .. MaxNonce)

\* Every record is the only one of its key, and its escrow covers it.
Covered(S, k) ==
  \A r \in S.rec[k] : S.rec[k] = {r} /\ S.bal[EscrowAccount(k)] >= r.amount

Backed(S) == \A k \in Key : Covered(S, k)

\* The nonces used are 1, 2, ... up to the last.
InOrder(S) == \A k \in Key : S.executed[k] = [n \in 1 .. S.nonce[k] |-> n]

\* What holds of the database and of the open write transaction.  Contracts
\* spend from their own accounts, so it matters that none is an escrow.
Good(S) ==
  /\ S \in State
  /\ Backed(S)
  /\ InOrder(S)
  /\ S.contracts \subseteq ContractAccounts

\* s has the records, nonces, contracts and meta keys of S.
SameBooks(S, s) ==
  /\ s.rec = S.rec /\ s.nonce = S.nonce /\ s.executed = S.executed
  /\ s.contracts = S.contracts /\ s.height = S.height /\ s.baseFee = S.baseFee

\* s is S but for the balance of a, which is x.
Wrote(S, a, x, s) ==
  /\ s \in State /\ SameBooks(S, s) /\ s.paidToSelf = S.paidToSelf
  /\ s.bal = [S.bal EXCEPT ![a] = x]

\* s differs from S in balances (and the history of self-payments) only, and
\* no escrow lost anything.
LedgerStep(S, s) ==
  /\ s \in State
  /\ SameBooks(S, s)
  /\ \A k \in Key : s.bal[EscrowAccount(k)] >= S.bal[EscrowAccount(k)]

\* What a transaction of the block at height h may do to the record of k: leave
\* it, create it, begin to unbond it, release it when it is due, or remove it on
\* evidence.  A miss changes the amount and the counter.
RecordStep(S, s, h, k, evidence) ==
  \/ s.rec[k] = S.rec[k]
  \/ S.rec[k] = {}
  \/ evidence
  \/ \E r \in S.rec[k] : \E q \in s.rec[k] :
       \/ q.state = "unbonding" /\ q.unbondingAt = h
       \/ q.state = r.state /\ q.unbondingAt = r.unbondingAt
  \/ \E r \in S.rec[k] : r.state = "unbonding" /\ h >= r.unbondingAt + UnbondingBlocks

-----------------------------------------------------------------------------
(* Accounts and the ledger.                                                 *)

\* The four kinds of accounts are accounts, and escrows are of a kind of their
\* own.
LEMMA Accounts ==
  ASSUME NEW k \in Key
  PROVE  /\ {Main(k), EscrowAccount(k), FeeAccount(k)} \subseteq Account
         /\ \A n \in 1 .. MaxNonce : ContractAddr(k, n) \in ContractAccounts
         /\ \A j \in Key : /\ Main(j) # EscrowAccount(k) /\ FeeAccount(j) # EscrowAccount(k)
                           /\ EscrowAccount(j) = EscrowAccount(k) => j = k
         /\ EscrowAccount(k) \notin ContractAccounts
         /\ ContractAccounts \subseteq Account
BY DEF Main, EscrowAccount, FeeAccount, ContractAddr, Account, ContractAccounts

\* A balance that is written is in range, and nothing else changes.
LEMMA WriteIs ==
  ASSUME NEW S \in State, NEW a \in Account, NEW x, NEW s \in WriteBalance(S, a, x)
  PROVE  /\ x \in 0 .. MaxUint256
         /\ Wrote(S, a, x, s)
<1>1. x \in 0 .. MaxUint256 /\ s = [S EXCEPT !.bal[a] = x]
  BY DEF WriteBalance
<1>2. s \in State
  BY Zenon, <1>1 DEF State
<1>3. s.bal = [S.bal EXCEPT ![a] = x] /\ s.paidToSelf = S.paidToSelf
  BY <1>1 DEF State
<1>4. SameBooks(S, s)
  BY <1>1 DEF State, SameBooks
<1> QED  BY <1>1, <1>2, <1>3, <1>4 DEF Wrote

\* A payment takes v from one account, and no other loses anything.
LEMMA MoveIs ==
  ASSUME NEW S \in State, NEW from \in Account, NEW to \in Account, NEW v \in Nat,
         NEW s \in MoveTx(S, from, to, v)
  PROVE  /\ s \in State /\ SameBooks(S, s)
         /\ s.bal[from] >= S.bal[from] - v
         /\ \A a \in Account \ {from} : s.bal[a] >= S.bal[a]
         /\ from # to => s.bal[to] = S.bal[to] + v
<1> DEFINE debited == S.bal[from] - v
           credited == S.bal[to] + v
           Paid(q) == [q EXCEPT !.paidToSelf = IF from = to THEN @ + v ELSE @]
<1>1. PICK q \in WriteBalance(S, from, debited) : s \in WriteBalance(Paid(q), to, credited)
  BY DEF MoveTx
<1> HIDE DEF debited, credited
<1>2. q \in State /\ q.bal = [S.bal EXCEPT ![from] = debited] /\ SameBooks(S, q)
  <2>1. Wrote(S, from, debited, q)
    BY <1>1, WriteIs
  <2> QED  BY <2>1 DEF Wrote
<1> DEFINE sum == IF from = to THEN q.paidToSelf + v ELSE q.paidToSelf
           p == [q EXCEPT !.paidToSelf = sum]
<1>3. p \in State /\ p.bal = q.bal /\ SameBooks(q, p)
  <2>1. sum \in Nat
    BY <1>2 DEF State
  <2> HIDE DEF sum
  <2> QED  BY Zenon, <1>2, <2>1 DEF State, SameBooks
<1>4. Paid(q) = p
  BY <1>2 DEF State
<1>5. s \in WriteBalance(p, to, credited)
  BY <1>1, <1>4
<1> HIDE DEF p
<1>6. s \in State /\ s.bal = [p.bal EXCEPT ![to] = credited] /\ SameBooks(p, s)
  <2>1. Wrote(p, to, credited, s)
    BY <1>3, <1>5, WriteIs
  <2> QED  BY <2>1 DEF Wrote
<1>7. SameBooks(S, s)
  BY <1>2, <1>3, <1>6 DEF SameBooks
<1>8. S.bal \in [Account -> Nat]
  BY ParametersNat DEF State
<1>9. s.bal = [[S.bal EXCEPT ![from] = debited] EXCEPT ![to] = credited]
  BY <1>2, <1>3, <1>6
<1>10. /\ s.bal[from] >= S.bal[from] - v
       /\ \A a \in Account \ {from} : s.bal[a] >= S.bal[a]
       /\ from # to => s.bal[to] = S.bal[to] + v
  BY <1>8, <1>9 DEF debited, credited
<1> QED  BY <1>6, <1>7, <1>10

\* A payment from an account that is no escrow.
LEMMA PaymentStep ==
  ASSUME NEW S \in State, NEW from \in Account, NEW to \in Account, NEW v \in Nat,
         \A k \in Key : from # EscrowAccount(k),
         NEW s \in MoveTx(S, from, to, v)
  PROVE  LedgerStep(S, s)
<1>1. \A k \in Key : EscrowAccount(k) \in Account \ {from}
  BY Accounts
<1> QED  BY <1>1, MoveIs DEF LedgerStep

\* Ledger steps keep the invariant and the records.
LEMMA LedgerGood ==
  ASSUME NEW S, Good(S), NEW s, LedgerStep(S, s)
  PROVE  Good(s)
<1>1. \A k \in Key : \A r \in s.rec[k] :
        s.rec[k] = {r} /\ s.bal[EscrowAccount(k)] >= r.amount
  <2> TAKE k \in Key
  <2> TAKE r \in s.rec[k]
  <2>1. S.rec[k] = {r} /\ S.bal[EscrowAccount(k)] >= r.amount
    BY DEF Good, Backed, Covered, LedgerStep, SameBooks
  <2>2. r.amount \in Nat /\ EscrowAccount(k) \in Account
    <3>1. S.rec[k] \in SUBSET Record
      BY DEF Good, State
    <3>2. r \in Record
      BY <2>1, <3>1
    <3> QED  BY <3>2, Accounts, ParametersNat DEF Record
  <2>3. S.bal[EscrowAccount(k)] \in Nat /\ s.bal[EscrowAccount(k)] \in Nat
    BY <2>2, ParametersNat DEF Good, LedgerStep, State
  <2>4. s.bal[EscrowAccount(k)] >= S.bal[EscrowAccount(k)] /\ s.rec = S.rec
    BY DEF LedgerStep, SameBooks
  <2> QED  BY <2>1, <2>2, <2>3, <2>4
<1> QED  BY <1>1 DEF Good, LedgerStep, SameBooks, Backed, Covered, InOrder

\* Ledger steps one after the other.
LEMMA LedgerTwice ==
  ASSUME NEW S \in State, NEW q, LedgerStep(S, q), NEW s, LedgerStep(q, s)
  PROVE  LedgerStep(S, s)
<1>1. \A k \in Key : /\ S.bal[EscrowAccount(k)] \in Nat /\ q.bal[EscrowAccount(k)] \in Nat
                     /\ s.bal[EscrowAccount(k)] \in Nat
  BY Accounts, ParametersNat DEF LedgerStep, State
<1>2. \A k \in Key : s.bal[EscrowAccount(k)] >= S.bal[EscrowAccount(k)]
  BY <1>1 DEF LedgerStep
<1> QED  BY <1>2 DEF LedgerStep, SameBooks

\* No step at all.
LEMMA LedgerNone ==
  ASSUME NEW S \in State
  PROVE  LedgerStep(S, S)
<1>1. \A k \in Key : S.bal[EscrowAccount(k)] \in Nat
  BY Accounts, ParametersNat DEF State
<1> QED  BY <1>1 DEF LedgerStep, SameBooks

\* A burn takes v from one account.
LEMMA BurnIs ==
  ASSUME NEW S \in State, NEW a \in Account, NEW v, NEW s \in BurnTx(S, a, v)
  PROVE  Wrote(S, a, S.bal[a] - v, s) /\ ~(S.bal[a] < v)
BY WriteIs DEF BurnTx

-----------------------------------------------------------------------------
(* Records.                                                                 *)

\* What is left of the invariant when the record of k is replaced.
GoodBut(S, k) ==
  /\ S \in State
  /\ \A j \in Key \ {k} : Covered(S, j)
  /\ InOrder(S)
  /\ S.contracts \subseteq ContractAccounts

\* s is S but for the record of k.
Recorded(S, k, R, s) ==
  /\ s \in State
  /\ s.rec = [S.rec EXCEPT ![k] = R]
  /\ s.bal = S.bal /\ s.nonce = S.nonce /\ s.executed = S.executed
  /\ s.contracts = S.contracts /\ s.height = S.height /\ s.baseFee = S.baseFee
  /\ s.paidToSelf = S.paidToSelf

\* Writing a record.
LEMMA RecordIs ==
  ASSUME NEW S \in State, NEW k \in Key, NEW R \in SUBSET Record
  PROVE  Recorded(S, k, R, [S EXCEPT !.rec[k] = R])
<1> DEFINE s == [S EXCEPT !.rec[k] = R]
<1>1. s \in State
  BY Zenon DEF State
<1>2. /\ s.rec = [S.rec EXCEPT ![k] = R]
      /\ s.bal = S.bal /\ s.nonce = S.nonce /\ s.executed = S.executed
      /\ s.contracts = S.contracts /\ s.height = S.height /\ s.baseFee = S.baseFee
      /\ s.paidToSelf = S.paidToSelf
  BY DEF State
<1> QED  BY <1>1, <1>2 DEF Recorded

\* A new record that the escrow covers restores the invariant.
LEMMA RecordGood ==
  ASSUME NEW S, NEW k \in Key, GoodBut(S, k), NEW R, NEW s, Recorded(S, k, R, s),
         \A r \in R : R = {r} /\ S.bal[EscrowAccount(k)] >= r.amount
  PROVE  Good(s) /\ s.rec[k] = R /\ \A j \in Key \ {k} : s.rec[j] = S.rec[j]
<1>1. S.rec \in [Key -> SUBSET Record]
  BY DEF GoodBut, State
<1>2. s.rec[k] = R /\ \A j \in Key \ {k} : s.rec[j] = S.rec[j]
  BY <1>1 DEF Recorded
<1>3. \A j \in Key : Covered(s, j)
  BY <1>2 DEF Recorded, Covered, GoodBut
<1> QED  BY <1>2, <1>3 DEF Good, Backed, GoodBut, Recorded, InOrder

\* A step of the ledger that may cost the escrow of k something.
LEMMA LedgerGoodBut ==
  ASSUME NEW S, Good(S), NEW k \in Key, NEW s \in State, SameBooks(S, s),
         \A j \in Key \ {k} : s.bal[EscrowAccount(j)] >= S.bal[EscrowAccount(j)]
  PROVE  GoodBut(s, k)
<1>1. \A j \in Key \ {k} : Covered(s, j)
  <2> TAKE j \in Key \ {k}
  <2> SUFFICES ASSUME NEW r \in s.rec[j]
               PROVE  s.rec[j] = {r} /\ s.bal[EscrowAccount(j)] >= r.amount
    BY DEF Covered
  <2>1. S.rec[j] = {r} /\ S.bal[EscrowAccount(j)] >= r.amount
    BY DEF Good, Backed, Covered, SameBooks
  <2>2. r.amount \in Nat
    <3>1. S.rec[j] \in SUBSET Record
      BY DEF Good, State
    <3> QED  BY <2>1, <3>1, ParametersNat DEF Record
  <2>3. S.bal[EscrowAccount(j)] \in Nat /\ s.bal[EscrowAccount(j)] \in Nat
    BY Accounts, ParametersNat DEF Good, State
  <2>4. s.rec[j] = S.rec[j]
    BY DEF SameBooks
  <2> QED  BY <2>1, <2>2, <2>3, <2>4
<1> QED  BY <1>1 DEF GoodBut, Good, SameBooks, InOrder

\* The only record of a key.
LEMMA TheRecord ==
  ASSUME NEW S, Good(S), NEW k \in Key, NEW r \in S.rec[k]
  PROVE  /\ r \in Record /\ S.rec[k] = {r}
         /\ r.amount \in Nat /\ S.bal[EscrowAccount(k)] \in Nat
         /\ S.bal[EscrowAccount(k)] >= r.amount
<1>1. r \in Record
  BY DEF Good, State
<1>2. S.rec[k] = {r} /\ S.bal[EscrowAccount(k)] >= r.amount
  BY DEF Good, Backed, Covered
<1>3. S.bal[EscrowAccount(k)] \in Nat
  BY Accounts, ParametersNat DEF Good, State
<1> QED  BY <1>1, <1>2, <1>3, ParametersNat DEF Record

\* What a transaction, with the evidence against keys that it carries, does to
\* the state at height h.
TxStep(S, s, Against) ==
  /\ Good(s)
  /\ s.height = S.height /\ s.baseFee = S.baseFee
  /\ \A k \in Key : RecordStep(S, s, S.height + 1, k, k \in Against)

\* A step of the ledger is one that touches no record.
LEMMA LedgerTx ==
  ASSUME NEW S, Good(S), NEW s, LedgerStep(S, s), NEW A
  PROVE  TxStep(S, s, A)
BY Zenon, LedgerGood DEF TxStep, LedgerStep, SameBooks, RecordStep

\* Bond.
LEMMA BondStep ==
  ASSUME NEW S, Good(S), NEW k \in Key, NEW v \in 0 .. MaxUint256, NEW s \in BondTx(S, k, v),
         NEW A
  PROVE  TxStep(S, s, A)
<1> DEFINE new == [state |-> "bonded", amount |-> v, unbondingAt |-> 0, missCount |-> 0]
<1>1. S.rec[k] = {}
  BY DEF BondTx
<1>2. PICK q \in MoveTx(S, Main(k), EscrowAccount(k), v) : s = [q EXCEPT !.rec[k] = {new}]
  BY Zenon, <1>1 DEF BondTx
<1>3. /\ S \in State /\ v \in Nat /\ {Main(k), EscrowAccount(k)} \subseteq Account
      /\ Main(k) # EscrowAccount(k)
  BY Accounts, ParametersNat DEF Good
<1>4. /\ q \in State /\ SameBooks(S, q)
      /\ \A a \in Account \ {Main(k)} : q.bal[a] >= S.bal[a]
      /\ q.bal[EscrowAccount(k)] = S.bal[EscrowAccount(k)] + v
  BY <1>2, <1>3, MoveIs
<1>5. GoodBut(q, k)
  <2>1. \A j \in Key : EscrowAccount(j) \in Account \ {Main(k)}
    BY Accounts
  <2> QED  BY Zenon, <1>4, <2>1, LedgerGoodBut
<1>6. {new} \in SUBSET Record
  BY ParametersNat DEF Record
<1>7. Recorded(q, k, {new}, s)
  BY Zenon, <1>2, <1>4, <1>6, RecordIs
<1>8. \A r \in {new} : {new} = {r} /\ q.bal[EscrowAccount(k)] >= r.amount
  <2>1. S.bal[EscrowAccount(k)] \in Nat
    BY <1>3, ParametersNat DEF State
  <2> QED  BY <1>3, <1>4, <2>1
<1>9. Good(s) /\ s.rec[k] = {new} /\ \A j \in Key \ {k} : s.rec[j] = q.rec[j]
  BY <1>5, <1>7, <1>8, RecordGood
<1>10. \A j \in Key : RecordStep(S, s, S.height + 1, j, j \in A)
  BY Zenon, <1>1, <1>4, <1>9 DEF RecordStep, SameBooks
<1> QED  BY <1>4, <1>7, <1>9, <1>10 DEF TxStep, SameBooks, Recorded

\* Unbond.
LEMMA UnbondStep ==
  ASSUME NEW S, Good(S), NEW k \in Key, NEW s \in UnbondTx(S, k, S.height + 1), NEW A
  PROVE  TxStep(S, s, A)
<1> DEFINE h == S.height + 1
<1>1. PICK r \in S.rec[k] :
        s = [S EXCEPT !.rec[k] = {[r EXCEPT !.state = "unbonding", !.unbondingAt = h]}]
  BY Zenon DEF UnbondTx
<1> DEFINE q == [r EXCEPT !.state = "unbonding", !.unbondingAt = h]
<1>2. /\ r \in Record /\ S.rec[k] = {r} /\ S.bal[EscrowAccount(k)] >= r.amount
  BY Zenon, <1>1, TheRecord
<1>3. S \in State /\ h \in Nat /\ GoodBut(S, k)
  BY DEF Good, State, GoodBut, Backed
<1>4. /\ q \in Record /\ q.amount = r.amount
      /\ q.state = "unbonding" /\ q.unbondingAt = h
  BY Zenon, <1>2, <1>3 DEF Record
<1> HIDE DEF q
<1>5. Recorded(S, k, {q}, s)
  BY Zenon, <1>1, <1>3, <1>4, RecordIs DEF q
<1>6. Good(s) /\ s.rec[k] = {q} /\ \A j \in Key \ {k} : s.rec[j] = S.rec[j]
  BY <1>2, <1>3, <1>4, <1>5, RecordGood
<1>7. \A j \in Key : RecordStep(S, s, h, j, j \in A)
  BY Zenon, <1>2, <1>4, <1>6 DEF RecordStep
<1> QED  BY <1>5, <1>6, <1>7 DEF TxStep, Recorded

\* FinalizeUnbond, when it releases a bond and when it does not.
LEMMA FinalizeStep ==
  ASSUME NEW S, Good(S), NEW k \in Key, NEW s \in FinalizeTx(S, k, S.height + 1), NEW A
  PROVE  TxStep(S, s, A)
<1> DEFINE h == S.height + 1
           due == {r \in S.rec[k] : r.state = "unbonding" /\ h >= r.unbondingAt + UnbondingBlocks}
<1>1. CASE due = {}
  <2>1. s = S /\ S \in State
    BY Zenon, <1>1 DEF FinalizeTx, Good
  <2> QED  BY <2>1, LedgerNone, LedgerTx
<1>2. CASE due # {}
  <2>1. PICK r \in due : \E q \in MoveTx(S, EscrowAccount(k), Main(k), r.amount) :
                            s = [q EXCEPT !.rec[k] = {}]
    BY <1>2 DEF FinalizeTx
  <2>2. PICK q \in MoveTx(S, EscrowAccount(k), Main(k), r.amount) : s = [q EXCEPT !.rec[k] = {}]
    BY Zenon, <2>1
  <2>3. r.amount \in Nat
    BY Zenon, <2>1, TheRecord
  <2>4. S \in State /\ {Main(k), EscrowAccount(k)} \subseteq Account
    BY Accounts DEF Good
  <2>5. /\ q \in State /\ SameBooks(S, q)
        /\ \A a \in Account \ {EscrowAccount(k)} : q.bal[a] >= S.bal[a]
    BY Zenon, <2>2, <2>3, <2>4, MoveIs
  <2>6. GoodBut(q, k)
    <3>1. \A j \in Key \ {k} : EscrowAccount(j) \in Account \ {EscrowAccount(k)}
      BY Accounts
    <3> QED  BY Zenon, <2>5, <3>1, LedgerGoodBut
  <2>7. Recorded(q, k, {}, s)
    BY Zenon, <2>2, <2>5, RecordIs
  <2>8. Good(s) /\ s.rec[k] = {} /\ \A j \in Key \ {k} : s.rec[j] = q.rec[j]
    BY <2>6, <2>7, RecordGood
  <2>9. \A j \in Key : RecordStep(S, s, h, j, j \in A)
    BY <2>1, <2>5, <2>8 DEF RecordStep, SameBooks
  <2> QED  BY Zenon, <2>5, <2>7, <2>8, <2>9 DEF TxStep, SameBooks, Recorded
<1> QED  BY <1>1, <1>2

\* A burn from the escrow of k.
LEMMA EscrowBurn ==
  ASSUME NEW S, Good(S), NEW k \in Key, NEW v, NEW s \in BurnTx(S, EscrowAccount(k), v)
  PROVE  /\ Wrote(S, EscrowAccount(k), S.bal[EscrowAccount(k)] - v, s)
         /\ GoodBut(s, k)
<1>1. S \in State /\ EscrowAccount(k) \in Account
  BY Accounts DEF Good
<1>2. Wrote(S, EscrowAccount(k), S.bal[EscrowAccount(k)] - v, s)
  BY Zenon, <1>1, BurnIs
<1>3. \A j \in Key \ {k} : s.bal[EscrowAccount(j)] >= S.bal[EscrowAccount(j)]
  <2> TAKE j \in Key \ {k}
  <2>1. EscrowAccount(j) \in Account /\ EscrowAccount(j) # EscrowAccount(k)
    BY Accounts
  <2>2. S.bal \in [Account -> Nat]
    BY <1>1, ParametersNat DEF State
  <2> QED  BY <1>2, <2>1, <2>2 DEF Wrote
<1> QED  BY Zenon, <1>2, <1>3, LedgerGoodBut DEF Wrote

\* Equivocation evidence against k.
LEMMA SlashStep ==
  ASSUME NEW S, Good(S), NEW k \in Key, NEW s \in SlashTx(S, k)
  PROVE  TxStep(S, s, {k})
<1>1. PICK r \in S.rec[k] : \E q \in BurnTx(S, EscrowAccount(k), r.amount) :
                               s = [q EXCEPT !.rec[k] = {}]
  BY DEF SlashTx
<1>2. PICK q \in BurnTx(S, EscrowAccount(k), r.amount) : s = [q EXCEPT !.rec[k] = {}]
  BY Zenon, <1>1
<1>3. q \in State /\ SameBooks(S, q) /\ GoodBut(q, k)
  BY Zenon, <1>2, EscrowBurn DEF Wrote
<1>4. Recorded(q, k, {}, s)
  BY Zenon, <1>2, <1>3, RecordIs
<1>5. Good(s) /\ \A j \in Key \ {k} : s.rec[j] = q.rec[j]
  BY <1>3, <1>4, RecordGood
<1>6. \A j \in Key : RecordStep(S, s, S.height + 1, j, j \in {k})
  BY <1>3, <1>5 DEF RecordStep, SameBooks
<1> QED  BY <1>3, <1>4, <1>5, <1>6 DEF TxStep, SameBooks, Recorded

\* A percentage of an amount is at most the amount.
LEMMA Percentage ==
  ASSUME NEW a \in Nat, NEW p \in 0 .. 100
  PROVE  (a * p) \div 100 \in 0 .. a
<1>1. a * p \in Nat /\ a * p <= a * 100
  OBVIOUS
<1> QED  BY <1>1

\* A miss: the record q replaces r, and what q has less is burnt.
Missed(S, k, s, r, q, cut, M) ==
  /\ S.rec[k] = {r}
  /\ q.state = r.state /\ q.unbondingAt = r.unbondingAt /\ q.amount = r.amount - cut
  /\ Recorded(S, k, {q}, M)
  /\ s \in BurnTx(M, EscrowAccount(k), cut)

LEMMA MissIs ==
  ASSUME NEW S, Good(S), NEW k \in Key, NEW s \in RecordMissTx(S, k)
  PROVE  \E r, q \in Record : \E cut \in 0 .. r.amount : \E M : Missed(S, k, s, r, q, cut, M)
<1> DEFINE Cut(r) == SlashAmount(r)
           Counted(r) == IF r.missCount + 1 >= MissThreshold
                         THEN [r EXCEPT !.missCount = 0, !.amount = @ - Cut(r)]
                         ELSE [r EXCEPT !.missCount = @ + 1]
<1>1. PICK r \in S.rec[k] :
        s \in BurnTx([S EXCEPT !.rec[k] = {Counted(r)}], EscrowAccount(k), Cut(r))
  BY Zenon DEF RecordMissTx
<1> DEFINE q == Counted(r)
           cut == Cut(r)
           M == [S EXCEPT !.rec[k] = {q}]
<1>2. r \in Record /\ S.rec[k] = {r} /\ r.amount \in Nat
  BY Zenon, <1>1, TheRecord
<1>3. cut \in 0 .. r.amount
  BY <1>2, Percentage, ParametersNat DEF SlashAmount
<1>4. /\ q \in Record /\ q.state = r.state /\ q.unbondingAt = r.unbondingAt
      /\ q.amount = r.amount - cut
  <2>1. CASE r.missCount + 1 >= MissThreshold
    <3> DEFINE left == r.amount - cut
    <3>1. left \in 0 .. MaxUint256
      <4> HIDE DEF cut
      <4> QED  BY <1>2, <1>3, ParametersNat DEF Record
    <3>2. q = [r EXCEPT !.missCount = 0, !.amount = left]
      BY <2>1
    <3> HIDE DEF left, q
    <3>3. 0 \in 0 .. MissThreshold - 1
      BY ParametersNat
    <3>4. /\ q \in Record /\ q.state = r.state /\ q.unbondingAt = r.unbondingAt
          /\ q.amount = left
      BY Zenon, <1>2, <3>1, <3>2, <3>3 DEF Record
    <3> QED  BY <3>4 DEF left
  <2>2. CASE ~(r.missCount + 1 >= MissThreshold)
    BY <1>2, <1>3, <2>2, ParametersNat DEF Record, SlashAmount
  <2> QED  BY <2>1, <2>2
<1> HIDE DEF q, cut
<1>5. Recorded(S, k, {q}, M)
  BY Zenon, <1>4, RecordIs DEF Good
<1>6. s \in BurnTx(M, EscrowAccount(k), cut)
  BY <1>1 DEF q, cut
<1> HIDE DEF M
<1>7. Missed(S, k, s, r, q, cut, M)
  BY Zenon, <1>2, <1>4, <1>5, <1>6 DEF Missed
<1> QED  BY Zenon, <1>2, <1>3, <1>4, <1>7

LEMMA MissStep ==
  ASSUME NEW S, Good(S), NEW k \in Key, NEW s \in RecordMissTx(S, k)
  PROVE  TxStep(S, s, {})
<1>1. PICK r, q \in Record : \E cut \in 0 .. r.amount : \E M : Missed(S, k, s, r, q, cut, M)
  BY MissIs
<1>2. PICK cut \in 0 .. r.amount : \E M : Missed(S, k, s, r, q, cut, M)
  BY <1>1
<1>3. PICK M : Missed(S, k, s, r, q, cut, M)
  BY Zenon, <1>2
<1>4. /\ S.rec[k] = {r} /\ q.state = r.state /\ q.unbondingAt = r.unbondingAt
      /\ q.amount = r.amount - cut /\ Recorded(S, k, {q}, M)
      /\ s \in BurnTx(M, EscrowAccount(k), cut)
  BY <1>3 DEF Missed
<1>5. /\ r.amount \in Nat /\ q.amount \in Nat
      /\ S.bal[EscrowAccount(k)] \in Nat /\ S.bal[EscrowAccount(k)] >= r.amount
  <2>1. r \in S.rec[k] /\ q.amount \in Nat
    BY <1>4, ParametersNat DEF Record
  <2> QED  BY Zenon, <2>1, TheRecord
<1>6. S \in State /\ GoodBut(S, k)
  BY Zenon DEF Good, GoodBut, Backed
<1>7. Good(M) /\ M.rec[k] = {q} /\ \A j \in Key \ {k} : M.rec[j] = S.rec[j]
  <2>1. S.bal[EscrowAccount(k)] >= q.amount
    BY <1>2, <1>4, <1>5
  <2> QED  BY <1>4, <1>6, <2>1, RecordGood
<1>8. Wrote(M, EscrowAccount(k), M.bal[EscrowAccount(k)] - cut, s) /\ GoodBut(s, k)
  BY Zenon, <1>4, <1>7, EscrowBurn
<1>9. Covered(s, k)
  <2>1. s.bal[EscrowAccount(k)] = S.bal[EscrowAccount(k)] - cut
    <3>1. EscrowAccount(k) \in Account /\ M.bal = S.bal /\ S.bal \in [Account -> 0 .. MaxUint256]
      BY Zenon, <1>4, <1>6, Accounts DEF Recorded, State
    <3> QED  BY Zenon, <1>8, <3>1 DEF Wrote
  <2>2. s.rec[k] = {q}
    BY Zenon, <1>7, <1>8 DEF Wrote, SameBooks
  <2> QED  BY <1>2, <1>4, <1>5, <2>1, <2>2 DEF Covered
<1>10. Good(s)
  BY Zenon, <1>8, <1>9 DEF Good, GoodBut, Backed
<1>11. \A j \in Key : RecordStep(S, s, S.height + 1, j, j \in {})
  BY <1>4, <1>7, <1>8 DEF RecordStep, Wrote, SameBooks
<1> QED  BY Zenon, <1>4, <1>8, <1>10, <1>11 DEF TxStep, Wrote, SameBooks, Recorded

-----------------------------------------------------------------------------
(* Transactions.                                                            *)

\* The host function transfer takes from the contract's own account.
LEMMA HostStep ==
  ASSUME NEW S \in State, NEW c \in ContractAccounts, NEW t \in Tx,
         NEW s \in HostTransfer(S, c, t)
  PROVE  LedgerStep(S, s)
<1>1. CASE s = S
  BY <1>1, LedgerNone
<1>2. CASE s \in MoveTx(S, c, t.pays, t.amount)
  <2>1. c \in Account /\ \A k \in Key : c # EscrowAccount(k)
    BY Accounts DEF ContractAccounts, Account
  <2>2. t.pays \in Account /\ t.amount \in Nat
    BY ParametersNat DEF Tx
  <2> QED  BY Zenon, <1>2, <2>1, <2>2, PaymentStep
<1> QED  BY <1>1, <1>2 DEF HostTransfer

\* A contract runs.
LEMMA RunStep ==
  ASSUME NEW S, Good(S), NEW c \in ContractAccounts, NEW t \in Tx,
         NEW s \in RunContract(S, c, t)
  PROVE  LedgerStep(S, s)
<1>1. PICK q \in MoveTx(S, Main(t.sender), c, t.value) : s \in HostTransfer(q, c, t)
  BY Zenon DEF RunContract
<1>2. /\ S \in State /\ t.sender \in Key /\ t.value \in Nat /\ c \in Account
      /\ Main(t.sender) \in Account /\ \A k \in Key : Main(t.sender) # EscrowAccount(k)
  <2>1. t.sender \in Key /\ t.value \in Nat
    BY ParametersNat DEF Tx
  <2> QED  BY Zenon, <2>1, Accounts DEF Good
<1>3. LedgerStep(S, q)
  BY Zenon, <1>1, <1>2, PaymentStep
<1>4. LedgerStep(q, s)
  BY Zenon, <1>1, <1>3, HostStep DEF LedgerStep
<1> QED  BY Zenon, <1>2, <1>3, <1>4, LedgerTwice

\* Deploy: the new contract has an address of its own kind.
LEMMA DeployStep ==
  ASSUME NEW S, Good(S), NEW t \in Tx, NEW s \in Deploy(S, t), NEW A
  PROVE  TxStep(S, s, A)
<1> DEFINE c == ContractAddr(t.sender, t.nonce)
<1>1. c \in ContractAccounts /\ c \in Account
  <2>1. t.sender \in Key /\ t.nonce \in 1 .. MaxNonce
    BY DEF Tx
  <2> QED  BY <2>1, Accounts
<1> HIDE DEF c
<1>2. PICK q \in RunContract(S, c, t) : s = [q EXCEPT !.contracts = @ \cup {c}]
  BY DEF Deploy, c
<1>3. LedgerStep(S, q)
  BY Zenon, <1>1, <1>2, RunStep
<1>4. Good(q) /\ q.height = S.height /\ q.baseFee = S.baseFee /\ q.rec = S.rec
  BY <1>3, LedgerGood DEF LedgerStep, SameBooks
<1>5. /\ s \in State /\ s.bal = q.bal /\ s.rec = q.rec /\ s.nonce = q.nonce
      /\ s.executed = q.executed /\ s.height = q.height /\ s.baseFee = q.baseFee
      /\ s.contracts = q.contracts \cup {c}
  <2>1. q \in State
    BY Zenon, <1>4 DEF Good
  <2> QED  BY Zenon, <1>1, <1>2, <2>1 DEF State
<1>6. Good(s)
  BY <1>1, <1>4, <1>5 DEF Good, Backed, Covered, InOrder
<1> QED  BY Zenon, <1>4, <1>5, <1>6 DEF TxStep, RecordStep

\* Call.
LEMMA CallStep ==
  ASSUME NEW S, Good(S), NEW t \in Tx, NEW s \in Call(S, t)
  PROVE  LedgerStep(S, s)
<1>1. CASE s = S
  BY Zenon, <1>1, LedgerNone DEF Good
<1>2. CASE t.to \in S.contracts /\ s \in RunContract(S, t.to, t)
  BY Zenon, <1>2, RunStep DEF Good
<1> QED  BY <1>1, <1>2 DEF Call

\* The keys that a transaction carries equivocation evidence against.
Against(t) == IF t.type = "equivocation" THEN {t.target} ELSE {}

\* Every transaction keeps the invariant and treats records as it may.
LEMMA ExecuteStep ==
  ASSUME NEW S, Good(S), NEW t \in Tx, NEW s \in Execute(S, t)
  PROVE  TxStep(S, s, Against(t))
<1> DEFINE k == t.sender
<1>1. /\ S \in State /\ k \in Key /\ t.target \in Key /\ t.to \in Account
      /\ t.value \in 0 .. MaxUint256 /\ t.value \in Nat /\ t.type \in TxType
  BY ParametersNat DEF Good, Tx
<1>2. /\ {Main(k), FeeAccount(k)} \subseteq Account
      /\ \A j \in Key : Main(k) # EscrowAccount(j) /\ FeeAccount(k) # EscrowAccount(j)
  BY Zenon, <1>1, Accounts
<1>3. CASE t.type = "transfer"
  <2>1. s \in MoveTx(S, Main(k), t.to, t.value)
    BY Zenon, <1>3 DEF Execute
  <2> QED  BY Zenon, <1>1, <1>2, <2>1, PaymentStep, LedgerTx
<1>4. CASE t.type = "miss"
  <2>1. s = S
    BY <1>4 DEF Execute
  <2> QED  BY <1>1, <2>1, LedgerNone, LedgerTx
<1>5. CASE t.type = "deploy"
  <2>1. s \in Deploy(S, t)
    BY <1>5 DEF Execute
  <2> QED  BY <2>1, DeployStep
<1>6. CASE t.type = "call"
  <2>1. s \in Call(S, t)
    BY <1>6 DEF Execute
  <2> QED  BY <2>1, CallStep, LedgerTx
<1>7. CASE t.type = "bond"
  <2>1. s \in BondTx(S, k, t.value)
    BY Zenon, <1>7 DEF Execute
  <2> QED  BY <1>1, <2>1, BondStep
<1>8. CASE t.type = "unbond"
  <2>1. s \in UnbondTx(S, k, S.height + 1)
    BY <1>8 DEF Execute
  <2> QED  BY <1>1, <2>1, UnbondStep
<1>9. CASE t.type = "finalize"
  <2>1. s \in FinalizeTx(S, k, S.height + 1)
    BY Zenon, <1>9 DEF Execute
  <2> QED  BY <1>1, <2>1, FinalizeStep
<1>10. CASE t.type = "claim"
  <2>1. s \in MoveTx(S, FeeAccount(k), Main(k), S.bal[FeeAccount(k)])
    BY Zenon, <1>10 DEF Execute, ClaimTx
  <2>2. S.bal[FeeAccount(k)] \in Nat
    BY <1>1, <1>2, ParametersNat DEF State
  <2> QED  BY Zenon, <1>1, <1>2, <2>1, <2>2, PaymentStep, LedgerTx
<1>11. CASE t.type = "equivocation"
  <2>1. s \in SlashTx(S, t.target)
    BY <1>11 DEF Execute
  <2> QED  BY Zenon, <1>1, <1>11, <2>1, SlashStep DEF Against
<1> QED  BY Zenon, <1>1, <1>3, <1>4, <1>5, <1>6, <1>7, <1>8, <1>9, <1>10, <1>11 DEF TxType

\* The next nonce extends the nonces used.
LEMMA OneMore ==
  ASSUME NEW m \in Nat
  PROVE  Append([n \in 1 .. m |-> n], m + 1) = [n \in 1 .. m + 1 |-> n]
OBVIOUS

\* Consuming the nonce of a transaction.
LEMMA NonceStep ==
  ASSUME NEW S, Good(S), NEW t \in Tx, ~SequenceFault(S, t)
  PROVE  LET s == AdvanceNonceTx(S, t)
         IN  Good(s) /\ s.height = S.height /\ s.baseFee = S.baseFee /\ s.rec = S.rec
<1> DEFINE k == t.sender
           s == AdvanceNonceTx(S, t)
<1>1. /\ S \in State /\ k \in Key /\ t.nonce \in 1 .. MaxNonce
      /\ t.nonce = S.nonce[k] + 1 /\ S.nonce[k] \in Nat
  <2>1. S \in State /\ t.nonce = S.nonce[k] + 1
    BY DEF Good, SequenceFault
  <2>2. k \in Key /\ t.nonce \in 1 .. MaxNonce
    BY DEF Tx
  <2>3. S.nonce \in [Key -> 0 .. MaxNonce]
    BY <2>1 DEF State
  <2> QED  BY <2>1, <2>2, <2>3, ParametersNat
<1> DEFINE used == Append(S.executed[k], t.nonce)
<1>2. used \in Seq(1 .. MaxNonce) /\ used = [n \in 1 .. t.nonce |-> n]
  <2>1. S.executed[k] = [n \in 1 .. S.nonce[k] |-> n]
    BY Zenon, <1>1 DEF Good, InOrder
  <2>2. used = [n \in 1 .. t.nonce |-> n]
    BY Zenon, <1>1, <2>1, OneMore
  <2>3. S.executed \in [Key -> Seq(1 .. MaxNonce)]
    BY Zenon, <1>1 DEF State
  <2>4. S.executed[k] \in Seq(1 .. MaxNonce)
    BY Zenon, <1>1, <2>3
  <2>5. used \in Seq(1 .. MaxNonce)
    BY <1>1, <2>4
  <2> QED  BY Zenon, <2>2, <2>5
<1> HIDE DEF used
<1>3. s = [S EXCEPT !.nonce[k] = t.nonce, !.executed[k] = used]
  BY <1>1 DEF AdvanceNonceTx, State, used
<1> HIDE DEF s
<1>4. s \in State
  <2> DEFINE nonces == [S.nonce EXCEPT ![k] = t.nonce]
             history == [S.executed EXCEPT ![k] = used]
  <2>1. nonces \in [Key -> 0 .. MaxNonce] /\ history \in [Key -> Seq(1 .. MaxNonce)]
    BY <1>1, <1>2 DEF State
  <2>2. s = [S EXCEPT !.nonce = nonces, !.executed = history]
    BY <1>1, <1>3 DEF State
  <2> HIDE DEF nonces, history
  <2> QED  BY Zenon, <1>1, <2>1, <2>2 DEF State
<1>5. /\ s.bal = S.bal /\ s.rec = S.rec /\ s.contracts = S.contracts
      /\ s.height = S.height /\ s.baseFee = S.baseFee
      /\ s.nonce = [S.nonce EXCEPT ![k] = t.nonce]
      /\ s.executed = [S.executed EXCEPT ![k] = used]
  BY <1>1, <1>3 DEF State
<1>6. InOrder(s)
  <2>1. S.nonce \in [Key -> 0 .. MaxNonce] /\ S.executed \in [Key -> Seq(1 .. MaxNonce)]
    BY Zenon, <1>1 DEF State
  <2> QED  BY Zenon, <1>1, <1>2, <1>5, <2>1 DEF Good, InOrder
<1>7. Good(s)
  BY Zenon, <1>4, <1>5, <1>6 DEF Good, Backed, Covered
<1> QED  BY Zenon, <1>5, <1>7 DEF s

\* One round of the loop over the transactions.
LEMMA ApplyStep ==
  ASSUME NEW S, Good(S), NEW t \in Tx, NEW s \in Apply(S, t)
  PROVE  TxStep(S, s, Against(t))
<1>1. CASE SequenceFault(S, t)
  <2>1. s = S /\ S \in State
    BY Zenon, <1>1 DEF Apply, Good
  <2> QED  BY Zenon, <2>1, LedgerNone, LedgerTx
<1>2. CASE ~SequenceFault(S, t)
  <2> DEFINE q == AdvanceNonceTx(S, t)
  <2>1. Good(q) /\ q.height = S.height /\ q.baseFee = S.baseFee /\ q.rec = S.rec
    BY Zenon, <1>2, NonceStep
  <2>2. s \in Execute(q, t)
    BY <1>2 DEF Apply
  <2> HIDE DEF q
  <2>3. TxStep(q, s, Against(t))
    BY Zenon, <2>1, <2>2, ExecuteStep
  <2> QED  BY Zenon, <2>1, <2>3 DEF TxStep, RecordStep
<1> QED  BY Zenon, <1>1, <1>2

-----------------------------------------------------------------------------
(* The rest of a block.                                                     *)

\* Fees leave main accounts only.
LEMMA FeeStep ==
  ASSUME NEW S \in State, NEW k \in Key, NEW v, NEW s \in BurnTx(S, Main(k), v)
  PROVE  LedgerStep(S, s)
<1>1. Wrote(S, Main(k), S.bal[Main(k)] - v, s)
  BY Zenon, Accounts, BurnIs
<1>2. \A j \in Key : s.bal[EscrowAccount(j)] = S.bal[EscrowAccount(j)]
  <2>1. \A j \in Key : EscrowAccount(j) \in Account \ {Main(k)}
    BY Accounts
  <2>2. S.bal \in [Account -> 0 .. MaxUint256]
    BY Zenon DEF State
  <2> QED  BY Zenon, <1>1, <2>1, <2>2 DEF Wrote
<1>3. \A j \in Key : S.bal[EscrowAccount(j)] \in Nat
  BY Accounts, ParametersNat DEF State
<1> QED  BY <1>1, <1>2, <1>3 DEF LedgerStep, Wrote

\* A minted share goes to a fee account.  That the validators are keys is not
\* needed: a fee account is no escrow, whosever it is.
LEMMA ShareStep ==
  ASSUME NEW S \in State, NEW k, NEW v, NEW s \in CreditTx(S, FeeAccount(k), v)
  PROVE  LedgerStep(S, s)
<1> DEFINE a == FeeAccount(k)
           x == S.bal[a] + v
<1>1. S.bal \in [Account -> 0 .. MaxUint256]
  BY DEF State
<1>2. \A j \in Key : EscrowAccount(j) \in Account /\ EscrowAccount(j) # a
  BY Accounts DEF EscrowAccount, FeeAccount
<1>3. \A j \in Key : S.bal[EscrowAccount(j)] \in Nat
  BY <1>1, <1>2, ParametersNat
<1>4. s \in WriteBalance(S, a, x)
  BY Zenon DEF CreditTx
<1> HIDE DEF a, x
<1>5. CASE a \in Account
  <2>1. Wrote(S, a, x, s)
    BY Zenon, <1>4, <1>5, WriteIs
  <2> QED  BY <1>1, <1>2, <1>3, <2>1 DEF LedgerStep, Wrote
<1>6. CASE a \notin Account
  <2>1. [S.bal EXCEPT ![a] = x] = S.bal
    BY Zenon, <1>1, <1>6
  <2>2. s = [S EXCEPT !.bal = [S.bal EXCEPT ![a] = x]]
    BY <1>4 DEF WriteBalance, State
  <2>3. s = S
    BY Zenon, <2>1, <2>2 DEF State
  <2> QED  BY Zenon, <2>3, LedgerNone
<1> QED  BY Zenon, <1>5, <1>6

\* The base fee stays a natural number.
LEMMA FeeNat ==
  ASSUME NEW prev \in Nat, NEW gas \in Nat
  PROVE  BaseFee(prev, gas) \in Nat
<1> DEFINE T == TargetGasPerBlock
           D == MaxAdjustmentDenominator
           delta(d) == ((prev * d) \div T) \div D
<1>1. T \in Nat \ {0} /\ D \in Nat \ {0} /\ MinBaseFee \in Nat
  BY ParametersNat
<1>2. ASSUME NEW d \in Nat
      PROVE  delta(d) \in Int
  <2>1. prev * d \in Int
    OBVIOUS
  <2>2. (prev * d) \div T \in Int
    BY <1>1, <2>1
  <2> QED  BY <1>1, <2>2
<1> HIDE DEF delta
<1>3. CASE gas > T
  <2>1. gas - T \in Nat
    BY <1>1, <1>3
  <2>2. BaseFee(prev, gas) = IF prev + delta(gas - T) < MinBaseFee THEN MinBaseFee
                             ELSE prev + delta(gas - T)
    BY <1>3 DEF BaseFee, delta
  <2> QED  BY <1>1, <1>2, <2>1, <2>2
<1>4. CASE ~(gas > T)
  <2>1. T - gas \in Nat
    BY <1>1, <1>4
  <2>2. BaseFee(prev, gas) = IF prev - delta(T - gas) < MinBaseFee THEN MinBaseFee
                             ELSE prev - delta(T - gas)
    BY <1>4 DEF BaseFee, delta
  <2> QED  BY <1>1, <1>2, <2>1, <2>2
<1> QED  BY Zenon, <1>3, <1>4

-----------------------------------------------------------------------------
(* The inductive invariant.                                                 *)

\* The block may remove the record of k: it carries evidence against k, or the
\* record of k in the database is due.
Excused(k) ==
  \/ \E j \in DOMAIN txs : txs[j].type = "equivocation" /\ txs[j].target = k
  \/ \E r \in db.rec[k] : r.state = "unbonding"
                            /\ db.height + 1 >= r.unbondingAt + UnbondingBlocks

\* A record of the database is still there, and if it is unbonding then it
\* either was already or is so since this block.
Kept(k) ==
  \A r \in db.rec[k] : \E q \in w.rec[k] : q.state = "unbonding" =>
    \/ q.unbondingAt = db.height + 1
    \/ r.state = "unbonding" /\ q.unbondingAt = r.unbondingAt

Traced == \A k \in Key : Excused(k) \/ Kept(k)

\* The local variables of ApplyBlockForChain.
Locals ==
  /\ txs \in Seq(TxSet)
  /\ i \in Nat \ {0}
  /\ fuels \in Seq(Nat)
  /\ totalGas \in Nat
  /\ step = "txs" => i <= Len(txs) + 1 /\ Len(fuels) = i - 1
  /\ step = "gas" => Len(fuels) = Len(txs)

IInv ==
  /\ Good(db)
  /\ Good(w)
  /\ w.height = db.height
  /\ Locals
  /\ Traced

\* A write transaction that has changed nothing.
LEMMA Untouched ==
  ASSUME w = db
  PROVE  Traced
BY DEF Traced, Kept

\* A step of the block that treats records as a transaction may.
LEMMA TracedStep ==
  ASSUME Good(db), Good(w), w.height = db.height, Traced,
         UNCHANGED <<db, txs>>,
         NEW A, TxStep(w, w', A), \A k \in A : Excused(k)
  PROVE  Good(db') /\ Good(w') /\ w'.height = db'.height /\ Traced'
<1>1. Good(w') /\ w'.height = db'.height
  BY Zenon DEF TxStep
<1>2. ASSUME NEW k \in Key
      PROVE  Excused(k)' \/ Kept(k)'
  <2>1. Excused(k)' <=> Excused(k)
    BY DEF Excused
  <2>2. SUFFICES ASSUME ~Excused(k) PROVE Kept(k)'
    BY <2>1
  <2>3. Kept(k)
    BY Zenon, <2>2 DEF Traced
  <2> DEFINE h == db.height + 1
  <2>4. RecordStep(w, w', h, k, FALSE)
    <3>1. RecordStep(w, w', h, k, k \in A)
      BY DEF TxStep
    <3>2. k \notin A
      BY Zenon, <2>2
    <3> QED  BY Zenon, <3>1, <3>2 DEF RecordStep
  <2>5. SUFFICES ASSUME NEW r \in db.rec[k]
                 PROVE  \E q \in w'.rec[k] : q.state = "unbonding" =>
                          \/ q.unbondingAt = h
                          \/ r.state = "unbonding" /\ q.unbondingAt = r.unbondingAt
    BY Zenon DEF Kept
  <2>6. PICK p \in w.rec[k] : p.state = "unbonding" =>
                                 \/ p.unbondingAt = h
                                 \/ r.state = "unbonding" /\ p.unbondingAt = r.unbondingAt
    BY Zenon, <2>3 DEF Kept
  <2>7. \A x \in w.rec[k] : x = p
    BY <2>6 DEF Good, Backed, Covered
  <2>8. CASE w'.rec[k] = w.rec[k]
    BY Zenon, <2>6, <2>8
  <2>9. CASE \E x \in w.rec[k] : \E q \in w'.rec[k] :
               \/ q.state = "unbonding" /\ q.unbondingAt = h
               \/ q.state = x.state /\ q.unbondingAt = x.unbondingAt
    BY Zenon, <2>6, <2>7, <2>9
  <2>10. ASSUME NEW x \in w.rec[k], x.state = "unbonding", h >= x.unbondingAt + UnbondingBlocks
         PROVE  FALSE
    <3>1. p.state = "unbonding" /\ h >= p.unbondingAt + UnbondingBlocks
      BY Zenon, <2>7, <2>10
    <3>2. h \in Nat /\ UnbondingBlocks \in Nat \ {0}
      <4>1. db.height \in Nat
        BY Zenon DEF Good, State
      <4> QED  BY <4>1, ParametersNat
    <3>3. p.unbondingAt # h
      BY <3>1, <3>2
    <3>4. r.state = "unbonding" /\ h >= r.unbondingAt + UnbondingBlocks
      BY Zenon, <2>6, <3>1, <3>3
    <3> QED  BY Zenon, <2>2, <3>4 DEF Excused
  <2> QED  BY Zenon, <2>4, <2>6, <2>8, <2>9, <2>10 DEF RecordStep
<1> QED  BY Zenon, <1>1, <1>2 DEF Traced

\* Genesis.
LEMMA GenesisGood == Good(Genesis)
<1> DEFINE bal == [a \in Account |->
                     CASE a[1] = "main"   -> GenesisBalance[a[2]] - GenesisBond[a[2]]
                       [] a[1] = "escrow" -> GenesisBond[a[2]]
                       [] OTHER           -> 0]
           new(k) == [state |-> "bonded", amount |-> GenesisBond[k],
                      unbondingAt |-> 0, missCount |-> 0]
           rec == [k \in Key |-> IF GenesisBond[k] = 0 THEN {} ELSE {new(k)}]
<1>1. \A k \in Key : /\ GenesisBalance[k] \in 0 .. MaxUint256
                      /\ GenesisBond[k] \in 0 .. MaxUint256
                      /\ GenesisBalance[k] - GenesisBond[k] \in 0 .. MaxUint256
  BY GenesisValid, ParametersNat
<1>2. \A a \in Account : a[1] \in {"main", "escrow"} => a[2] \in Key
  BY DEF Account, ContractAccounts, Main, EscrowAccount, FeeAccount, ContractAddr
<1>3. bal \in [Account -> 0 .. MaxUint256]
  <2>1. ASSUME NEW a \in Account
        PROVE  bal[a] \in 0 .. MaxUint256
    <3>1. CASE a[1] = "main"
      BY Zenon, <1>1, <1>2, <3>1
    <3>2. CASE a[1] = "escrow"
      BY Zenon, <1>1, <1>2, <3>2
    <3>3. CASE a[1] \notin {"main", "escrow"}
      <4>1. bal[a] = 0
        BY <3>3
      <4> QED  BY <4>1, ParametersNat
    <3> QED  BY Zenon, <3>1, <3>2, <3>3
  <2>2. bal = [a \in Account |-> bal[a]]
    OBVIOUS
  <2> HIDE DEF bal
  <2> QED  BY Zenon, <2>1, <2>2
<1>4. rec \in [Key -> SUBSET Record]
  <2>1. \A k \in Key : GenesisBond[k] # 0 => new(k) \in Record
    BY <1>1, ParametersNat DEF Record
  <2> HIDE DEF new
  <2> QED  BY Zenon, <2>1
<1>5. \A k \in Key : bal[EscrowAccount(k)] = GenesisBond[k]
  <2>1. TAKE k \in Key
  <2>2. EscrowAccount(k) \in Account
    BY Accounts
  <2>3. EscrowAccount(k)[1] = "escrow" /\ EscrowAccount(k)[2] = k
    BY Zenon DEF EscrowAccount
  <2> QED  BY <2>2, <2>3
<1>6. \A k \in Key : \A r \in rec[k] : rec[k] = {r} /\ r.amount = GenesisBond[k]
  OBVIOUS
<1>7. /\ Genesis.bal = bal /\ Genesis.rec = rec /\ Genesis.contracts = {}
      /\ Genesis.nonce = [k \in Key |-> 0] /\ Genesis.executed = [k \in Key |-> <<>>]
  BY Zenon DEF Genesis
<1> HIDE DEF bal, rec
<1>8. Genesis \in State
  <2>1. Genesis = [bal |-> bal, nonce |-> [k \in Key |-> 0], rec |-> rec, contracts |-> {},
                   height |-> 0, baseFee |-> MinBaseFee,
                   supply |-> SumFunction(GenesisBalance), paidToSelf |-> 0,
                   executed |-> [k \in Key |-> <<>>]]
    BY Zenon DEF Genesis, bal, rec
  <2>2. /\ SumFunction(GenesisBalance) \in Nat /\ MinBaseFee \in Nat
        /\ [k \in Key |-> 0] \in [Key -> 0 .. MaxNonce]
    <3>1. \A k \in Key : GenesisBalance[k] \in Nat
      BY <1>1, ParametersNat
    <3>2. DOMAIN GenesisBalance = Key
      BY Zenon, GenesisValid
    <3>3. SumFunctionOnSet(GenesisBalance, Key) \in Nat
      BY Zenon, <3>1, KeysOrdered, SumMonotone
    <3> QED  BY <3>2, <3>3, ParametersNat DEF SumFunction
  <2>3. [k \in Key |-> <<>>] \in [Key -> Seq(1 .. MaxNonce)]
    OBVIOUS
  <2> QED  BY Zenon, <1>3, <1>4, <2>1, <2>2, <2>3 DEF State
<1>9. Backed(Genesis)
  <2>1. ASSUME NEW k \in Key, NEW r \in rec[k]
        PROVE  rec[k] = {r} /\ bal[EscrowAccount(k)] >= r.amount
    <3>1. r.amount = GenesisBond[k] /\ bal[EscrowAccount(k)] = GenesisBond[k]
      BY Zenon, <1>5, <1>6
    <3>2. GenesisBond[k] \in Nat
      BY <1>1, ParametersNat
    <3>3. rec[k] = {r}
      BY Zenon, <1>6
    <3> QED  BY <3>1, <3>2, <3>3
  <2> QED  BY Zenon, <1>7, <2>1 DEF Backed, Covered
<1>10. InOrder(Genesis)
  <2>1. <<>> = [n \in 1 .. 0 |-> n]
    OBVIOUS
  <2> QED  BY <1>7, <2>1 DEF InOrder
<1> QED  BY Zenon, <1>7, <1>8, <1>9, <1>10 DEF Good

LEMMA InitGood == Init => IInv
<1> SUFFICES ASSUME Init PROVE IInv
  OBVIOUS
<1>1. Good(db) /\ Good(w) /\ w = db
  BY GenesisGood DEF Init
<1>2. Locals
  BY DEF Init, Locals
<1> QED  BY Zenon, <1>1, <1>2, Untouched DEF IInv

\* The end of a write transaction leaves nothing to trace.
LEMMA FinishStep ==
  ASSUME Good(db'), Finish
  PROVE  IInv'
<1>1. w' = db' /\ Traced'
  BY DEF Finish, Traced, Kept
<1>2. Locals'
  BY DEF Finish, Locals
<1> QED  BY Zenon, <1>1, <1>2 DEF IInv

\* A committed block: the meta keys change, nothing else does.
LEMMA CommitGood ==
  ASSUME IInv, Commit
  PROVE  /\ Good(db')
         /\ db'.rec = w.rec
         /\ db'.height = db.height + 1
<1> DEFINE supply == db.supply - db.baseFee * totalGas - totalSlashed + MintAmount(db)
           fee == BaseFee(db.baseFee, totalGas)
<1>1. db' = [w EXCEPT !.height = @ + 1, !.supply = supply, !.baseFee = fee] /\ supply \in Nat
  BY Zenon DEF Commit
<1>2. w \in State /\ Good(w) /\ w.height = db.height
  BY DEF IInv, Good
<1>3. fee \in Nat
  <2>1. db.baseFee \in Nat /\ totalGas \in Nat
    BY DEF IInv, Good, State, Locals
  <2> QED  BY Zenon, <2>1, FeeNat
<1> HIDE DEF supply, fee
<1>4. db' \in State
  <2> DEFINE next == w.height + 1
  <2>1. next \in Nat
    BY <1>2 DEF State
  <2>2. db' = [w EXCEPT !.height = next, !.supply = supply, !.baseFee = fee]
    BY Zenon, <1>1, <1>2 DEF State
  <2> HIDE DEF next
  <2> QED  BY Zenon, <1>1, <1>2, <1>3, <2>1, <2>2 DEF State
<1>5. /\ db'.bal = w.bal /\ db'.rec = w.rec /\ db'.nonce = w.nonce
      /\ db'.executed = w.executed /\ db'.contracts = w.contracts
      /\ db'.height = w.height + 1
  BY Zenon, <1>1, <1>2 DEF State
<1> QED  BY <1>2, <1>4, <1>5 DEF Good, Backed, Covered, InOrder

\* Every step keeps the invariant.
LEMMA NextGood == IInv /\ [Next]_vars => IInv'
<1> SUFFICES ASSUME IInv, [Next]_vars PROVE IInv'
  BY Zenon
<1>1. Good(db) /\ Good(w) /\ w \in State /\ w.height = db.height /\ Traced /\ Locals
  BY DEF IInv, Good
<1>2. CASE Begin
  <2>1. Good(db') /\ Good(w') /\ w' = db'
    BY Zenon, <1>1, <1>2 DEF Begin
  <2>2. Traced'
    BY <2>1 DEF Traced, Kept
  <2>3. PICK n \in 0 .. MaxTxs : \E b \in [1 .. n -> TxSet] : txs' = b
    BY <1>2 DEF Begin
  <2>4. n \in Nat /\ txs' \in [1 .. n -> TxSet]
    BY <2>3, ParametersNat
  <2>5. txs' \in Seq(TxSet)
    BY <2>4
  <2>6. Locals'
    BY <1>2, <2>5 DEF Begin, Locals
  <2> QED  BY Zenon, <2>1, <2>2, <2>6 DEF IInv
<1>3. CASE ApplyTx
  <2> DEFINE t == txs[i]
  <2>1. i \in 1 .. Len(txs) /\ t \in TxSet /\ txs \in Seq(TxSet)
    BY <1>1, <1>3 DEF ApplyTx, Locals
  <2>2. t \in Tx
    BY Zenon, <2>1, TransactionsKnown
  <2>3. w' \in Apply(w, t)
    BY <1>3 DEF ApplyTx
  <2>4. TxStep(w, w', Against(t))
    BY Zenon, <1>1, <2>2, <2>3, ApplyStep
  <2>5. \A k \in Against(t) : Excused(k)
    BY <2>1 DEF Against, Excused
  <2>6. Good(db') /\ Good(w') /\ w'.height = db'.height /\ Traced'
    <3>1. UNCHANGED <<db, txs>>
      BY Zenon, <1>3 DEF ApplyTx
    <3> HIDE DEF t
    <3> QED  BY Zenon, <1>1, <2>4, <2>5, <3>1, TracedStep
  <2>7. FuelGas(w, t) \in Nat
    BY Zenon, <2>2 DEF FuelGas, Tx
  <2>8. Locals'
    <3>1. /\ step = "txs" /\ fuels' = Append(fuels, FuelGas(w, t)) /\ i' = i + 1
          /\ UNCHANGED <<txs, step, totalGas>>
      BY <1>3 DEF ApplyTx
    <3> HIDE DEF t
    <3> QED  BY <1>1, <2>1, <2>7, <3>1 DEF Locals
  <2> QED  BY Zenon, <2>6, <2>8 DEF IInv
<1>4. CASE ChargeGas
  <2>1. i \in 1 .. Len(txs) /\ txs[i] \in TxSet /\ fuels[i] \in Nat
    BY <1>1, <1>4 DEF ChargeGas, Locals
  <2>2. txs[i].sender \in Key
    BY Zenon, <2>1, TransactionsKnown DEF Tx
  <2>3. w' \in BurnTx(w, Main(txs[i].sender), db.baseFee * (1 + fuels[i]))
    BY Zenon, <1>4 DEF ChargeGas
  <2>4. TxStep(w, w', {})
    BY Zenon, <1>1, <2>2, <2>3, FeeStep, LedgerTx
  <2>5. Good(db') /\ Good(w') /\ w'.height = db'.height /\ Traced'
    <3>1. UNCHANGED <<db, txs>>
      BY Zenon, <1>4 DEF ChargeGas
    <3> QED  BY <1>1, <2>4, <3>1, TracedStep
  <2>6. Locals'
    BY <1>1, <1>4, <2>1 DEF ChargeGas, Locals
  <2> QED  BY Zenon, <2>5, <2>6 DEF IInv
<1>5. CASE RecordMiss
  <2>1. i \in 1 .. Len(txs) /\ txs[i] \in TxSet
    BY <1>1, <1>5 DEF RecordMiss, Locals
  <2>2. txs[i].target \in Key
    BY Zenon, <2>1, TransactionsKnown DEF Tx
  <2>3. w' = w \/ w' \in RecordMissTx(w, txs[i].target)
    BY Zenon, <1>5 DEF RecordMiss
  <2>4. TxStep(w, w', {})
    BY Zenon, <1>1, <2>2, <2>3, MissStep, LedgerNone, LedgerTx
  <2>5. Good(db') /\ Good(w') /\ w'.height = db'.height /\ Traced'
    <3>1. UNCHANGED <<db, txs>>
      BY Zenon, <1>5 DEF RecordMiss
    <3> QED  BY <1>1, <2>4, <3>1, TracedStep
  <2>6. Locals'
    BY <1>1, <1>5 DEF RecordMiss, Locals
  <2> QED  BY <2>5, <2>6 DEF IInv
<1>6. CASE MintShare
  <2> DEFINE vs == Validators(db)
  <2>1. w' \in CreditTx(w, FeeAccount(vs[i]), SplitReward(MintAmount(db), Len(vs), i))
    BY <1>6 DEF MintShare
  <2>2. TxStep(w, w', {})
    BY Zenon, <1>1, <2>1, ShareStep, LedgerTx
  <2>3. Good(db') /\ Good(w') /\ w'.height = db'.height /\ Traced'
    <3>1. UNCHANGED <<db, txs>>
      BY <1>6 DEF MintShare
    <3> QED  BY <1>1, <2>2, <3>1, TracedStep
  <2>4. Locals'
    <3>1. step = "mint" /\ i' = i + 1 /\ UNCHANGED <<txs, step, fuels, totalGas>>
      BY <1>6 DEF MintShare
    <3> QED  BY <1>1, <3>1 DEF Locals
  <2> QED  BY Zenon, <2>3, <2>4 DEF IInv
<1>7. CASE NextLoop
  <2>1. UNCHANGED <<db, w, txs>>
    BY Zenon, <1>7 DEF NextLoop
  <2>2. Good(db') /\ Good(w') /\ w'.height = db'.height /\ Traced'
    BY Zenon, <1>1, <2>1 DEF Traced, Kept, Excused
  <2>3. Locals'
    BY <1>1, <1>7 DEF NextLoop, Locals
  <2> QED  BY Zenon, <2>2, <2>3 DEF IInv
<1>8. CASE Commit
  BY Zenon, <1>8, CommitGood, FinishStep DEF Commit
<1>9. CASE Rollback
  BY Zenon, <1>1, <1>9, FinishStep DEF Rollback
<1>10. CASE UNCHANGED vars
  BY <1>1, <1>10 DEF vars, IInv, Locals, Traced, Kept, Excused
<1> QED  BY Zenon, <1>2, <1>3, <1>4, <1>5, <1>6, <1>7, <1>8, <1>9, <1>10 DEF Next

LEMMA Invariance == Spec => []IInv
BY InitGood, NextGood, PTL DEF Spec

-----------------------------------------------------------------------------
(* Money.                                                                   *)

\* What there is, not counting what accounts paid to themselves.
Net(S) == SumFunction(S.bal) - S.paidToSelf

LEMMA AccountsFinite == IsFiniteSet(Account)
<1> DEFINE Kinds == {"main", "escrow", "fee", "contract"}
           Pairs == Key \X (0 .. MaxNonce)
           Ranked == Kinds \X Pairs
           f == [a \in Account |-> <<a[1], <<a[2], a[3]>>>>]
<1>1. IsFiniteSet(Kinds)
  <2>1. Kinds = (({"main"} \cup {"escrow"}) \cup {"fee"}) \cup {"contract"}
    OBVIOUS
  <2>2. IsFiniteSet({"main"})
    BY Zenon, FS_Singleton
  <2>3. IsFiniteSet({"main"} \cup {"escrow"})
    BY Zenon, <2>2, FS_AddElement
  <2>4. IsFiniteSet(({"main"} \cup {"escrow"}) \cup {"fee"})
    BY <2>3, FS_AddElement
  <2> QED  BY <2>1, <2>4, FS_AddElement
<1>2. IsFiniteSet(Pairs)
  <2>1. IsFiniteSet(0 .. MaxNonce)
    BY FS_Interval, ParametersNat
  <2> QED  BY Zenon, <2>1, KeysOrdered, FS_Product
<1>3. IsFiniteSet(Ranked)
  BY Zenon, <1>1, <1>2, FS_Product
<1>4. ASSUME NEW a \in Account
      PROVE  /\ a[1] \in Kinds /\ a[2] \in Key /\ a[3] \in 0 .. MaxNonce
             /\ a = <<a[1], a[2], a[3]>>
  BY ParametersNat DEF Account
<1>5. f \in Injection(Account, Ranked)
  <2>1. f \in [Account -> Ranked]
    BY Zenon, <1>4
  <2>2. \A a, b \in Account : f[a] = f[b] => a = b
    <3> TAKE a, b \in Account
    <3>1. f[a] = f[b] => a[1] = b[1] /\ a[2] = b[2] /\ a[3] = b[3]
      OBVIOUS
    <3> QED  BY Zenon, <1>4, <3>1
  <2> HIDE DEF f
  <2> QED  BY Zenon, <2>1, <2>2 DEF Injection, IsInjective
<1> HIDE DEF f, Ranked
<1> QED  BY Zenon, <1>3, <1>5, FS_Injection

\* Balances add up to an integer, and so does what there is.
LEMMA NetInt ==
  ASSUME NEW S \in State
  PROVE  Net(S) \in Int /\ SumFunction(S.bal) \in Int /\ S.bal \in [Account -> Int]
<1>1. S.bal \in [Account -> Int] /\ S.paidToSelf \in Int
  BY ParametersNat DEF State
<1>2. SumFunction(S.bal) \in Int
  BY Zenon, <1>1, AccountsFinite, SumInt DEF SumFunction
<1> QED  BY <1>1, <1>2 DEF Net

\* Writing a balance.
LEMMA WriteNet ==
  ASSUME NEW S \in State, NEW a \in Account, NEW x \in Int, NEW s, Wrote(S, a, x, s)
  PROVE  Net(s) = Net(S) - S.bal[a] + x
<1>1. S.bal \in [Account -> Int] /\ S.bal[a] \in Int
  BY Zenon, NetInt
<1>2. SumFunction(s.bal) = SumFunction(S.bal) - S.bal[a] + x
  BY <1>1, AccountsFinite, SumUpdate DEF Wrote
<1>3. SumFunction(S.bal) \in Int /\ S.paidToSelf \in Int /\ s.paidToSelf = S.paidToSelf
  <2>1. S.paidToSelf \in Int
    BY DEF State
  <2>2. SumFunction(S.bal) \in Int
    BY Zenon, NetInt
  <2> QED  BY <2>1, <2>2 DEF Wrote
<1> QED  BY <1>1, <1>2, <1>3 DEF Net

\* A payment makes and loses no money, but for one from an account to itself,
\* which paidToSelf counts.
LEMMA MoveNet ==
  ASSUME NEW S \in State, NEW from \in Account, NEW to \in Account, NEW v \in Nat,
         NEW s \in MoveTx(S, from, to, v)
  PROVE  Net(s) = Net(S)
<1> DEFINE debited == S.bal[from] - v
           credited == S.bal[to] + v
           Paid(q) == [q EXCEPT !.paidToSelf = IF from = to THEN @ + v ELSE @]
<1>1. PICK q \in WriteBalance(S, from, debited) : s \in WriteBalance(Paid(q), to, credited)
  BY Zenon DEF MoveTx
<1>2. S.bal \in [Account -> Int] /\ debited \in Int /\ credited \in Int
  BY NetInt
<1> HIDE DEF debited, credited
<1>3. Wrote(S, from, debited, q)
  BY Zenon, <1>1, WriteIs
<1>4. Net(q) = Net(S) - S.bal[from] + debited
  BY Zenon, <1>2, <1>3, WriteNet
<1> DEFINE sum == IF from = to THEN q.paidToSelf + v ELSE q.paidToSelf
           p == [q EXCEPT !.paidToSelf = sum]
<1>5. p \in State /\ p.bal = q.bal /\ p.paidToSelf = sum /\ q.paidToSelf \in Nat /\ q \in State
  <2>1. q \in State
    BY Zenon, <1>3 DEF Wrote
  <2>2. sum \in Nat /\ q.paidToSelf \in Nat
    BY <2>1 DEF State
  <2> HIDE DEF sum
  <2> QED  BY Zenon, <2>1, <2>2 DEF State
<1>6. Paid(q) = p
  BY <1>5 DEF State
<1> HIDE DEF p
<1>7. Wrote(p, to, credited, s)
  BY Zenon, <1>1, <1>5, <1>6, WriteIs
<1>8. Net(s) = Net(p) - p.bal[to] + credited
  BY <1>2, <1>5, <1>7, WriteNet
<1>9. Net(p) = Net(q) - (IF from = to THEN v ELSE 0)
  BY <1>5, NetInt DEF Net
<1>10. p.bal[to] = IF from = to THEN debited ELSE S.bal[to]
  BY Zenon, <1>2, <1>3, <1>5 DEF Wrote
<1>11. Net(S) \in Int /\ Net(q) \in Int /\ Net(p) \in Int /\ S.bal[from] \in Int /\ S.bal[to] \in Int
  BY Zenon, <1>2, <1>5, NetInt
<1> QED  BY <1>2, <1>4, <1>8, <1>9, <1>10, <1>11 DEF debited, credited

\* A burn loses what it burns, and a credit makes what it credits.
LEMMA BurnNet ==
  ASSUME NEW S \in State, NEW a \in Account, NEW v \in Int, NEW s \in BurnTx(S, a, v)
  PROVE  Net(s) = Net(S) - v
<1>1. S.bal[a] \in Int /\ Net(S) \in Int /\ S.bal[a] - v \in Int
  BY NetInt
<1>2. Wrote(S, a, S.bal[a] - v, s)
  BY Zenon, BurnIs
<1>3. Net(s) = Net(S) - S.bal[a] + (S.bal[a] - v)
  BY Zenon, <1>1, <1>2, WriteNet
<1> QED  BY <1>1, <1>3

LEMMA CreditNet ==
  ASSUME NEW S \in State, NEW a \in Account, NEW v \in Int, NEW s \in CreditTx(S, a, v)
  PROVE  Net(s) = Net(S) + v
<1>1. S.bal[a] \in Int /\ Net(S) \in Int /\ S.bal[a] + v \in Int
  BY NetInt
<1>2. Wrote(S, a, S.bal[a] + v, s)
  BY Zenon, WriteIs DEF CreditTx
<1>3. Net(s) = Net(S) - S.bal[a] + (S.bal[a] + v)
  BY Zenon, <1>1, <1>2, WriteNet
<1> QED  BY <1>1, <1>3

\* Writing a record moves no money.
LEMMA RecordNet ==
  ASSUME NEW S, NEW k, NEW R, NEW s, Recorded(S, k, R, s)
  PROVE  Net(s) = Net(S)
BY DEF Recorded, Net

\* The bond of a key that has a record.
LEMMA TheBond ==
  ASSUME NEW S, NEW k, NEW r, S.rec[k] = {r}
  PROVE  BondOf(S, k) = r.amount
<1>1. (CHOOSE q \in S.rec[k] : TRUE) = r
  BY Zenon
<1> QED  BY <1>1 DEF BondOf

LEMMA BondNet ==
  ASSUME NEW S, Good(S), NEW k \in Key, NEW v \in 0 .. MaxUint256, NEW s \in BondTx(S, k, v)
  PROVE  Net(s) = Net(S)
<1> DEFINE new == [state |-> "bonded", amount |-> v, unbondingAt |-> 0, missCount |-> 0]
<1>1. PICK q \in MoveTx(S, Main(k), EscrowAccount(k), v) : s = [q EXCEPT !.rec[k] = {new}]
  BY Zenon DEF BondTx
<1>2. S \in State /\ v \in Nat /\ {Main(k), EscrowAccount(k)} \subseteq Account
  BY Accounts, ParametersNat DEF Good
<1>3. q \in State /\ Net(q) = Net(S)
  BY <1>1, <1>2, MoveIs, MoveNet
<1>4. {new} \in SUBSET Record
  BY ParametersNat DEF Record
<1>5. Recorded(q, k, {new}, s)
  BY Zenon, <1>1, <1>3, <1>4, RecordIs
<1> QED  BY Zenon, <1>3, <1>5, RecordNet

LEMMA UnbondNet ==
  ASSUME NEW S, Good(S), NEW k \in Key, NEW s \in UnbondTx(S, k, S.height + 1)
  PROVE  Net(s) = Net(S)
<1>1. PICK r \in S.rec[k] : s = [S EXCEPT !.rec[k] =
                                 {[r EXCEPT !.state = "unbonding", !.unbondingAt = S.height + 1]}]
  BY Zenon DEF UnbondTx
<1>2. s.bal = S.bal /\ s.paidToSelf = S.paidToSelf
  BY <1>1 DEF Good, State
<1> QED  BY <1>2 DEF Net

LEMMA FinalizeNet ==
  ASSUME NEW S, Good(S), NEW k \in Key, NEW h, NEW s \in FinalizeTx(S, k, h)
  PROVE  Net(s) = Net(S)
<1> DEFINE due == {r \in S.rec[k] : r.state = "unbonding" /\ h >= r.unbondingAt + UnbondingBlocks}
<1>1. CASE due = {}
  BY Zenon, <1>1 DEF FinalizeTx
<1>2. CASE due # {}
  <2>1. PICK r \in due : \E q \in MoveTx(S, EscrowAccount(k), Main(k), r.amount) :
                            s = [q EXCEPT !.rec[k] = {}]
    BY <1>2 DEF FinalizeTx
  <2>2. PICK q \in MoveTx(S, EscrowAccount(k), Main(k), r.amount) : s = [q EXCEPT !.rec[k] = {}]
    BY Zenon, <2>1
  <2>3. r.amount \in Nat /\ S \in State /\ {Main(k), EscrowAccount(k)} \subseteq Account
    BY Zenon, <2>1, TheRecord, Accounts DEF Good
  <2>4. q \in State /\ Net(q) = Net(S)
    BY <2>2, <2>3, MoveIs, MoveNet
  <2>5. Recorded(q, k, {}, s)
    BY Zenon, <2>2, <2>4, RecordIs
  <2> QED  BY Zenon, <2>4, <2>5, RecordNet
<1> QED  BY <1>1, <1>2

\* Equivocation evidence burns the bond it finds.
LEMMA SlashNet ==
  ASSUME NEW S, Good(S), NEW k \in Key, NEW s \in SlashTx(S, k)
  PROVE  Net(s) = Net(S) - BondOf(S, k) /\ BondOf(S, k) \in Nat
<1>1. PICK r \in S.rec[k] : \E q \in BurnTx(S, EscrowAccount(k), r.amount) :
                               s = [q EXCEPT !.rec[k] = {}]
  BY DEF SlashTx
<1>2. PICK q \in BurnTx(S, EscrowAccount(k), r.amount) : s = [q EXCEPT !.rec[k] = {}]
  BY Zenon, <1>1
<1>3. S.rec[k] = {r} /\ r.amount \in Nat /\ S \in State /\ EscrowAccount(k) \in Account
  BY Zenon, TheRecord, Accounts DEF Good
<1>4. Net(q) = Net(S) - r.amount
  BY <1>2, <1>3, BurnNet
<1>5. q \in State
  BY Zenon, <1>2, <1>3, BurnIs DEF Wrote
<1>6. Recorded(q, k, {}, s)
  BY Zenon, <1>2, <1>5, RecordIs
<1> QED  BY Zenon, <1>3, <1>4, <1>6, RecordNet, TheBond

\* A miss burns what it takes from the bond.
LEMMA MissNet ==
  ASSUME NEW S, Good(S), NEW k \in Key, NEW s \in RecordMissTx(S, k)
  PROVE  /\ Net(s) = Net(S) - (BondOf(S, k) - BondOf(s, k))
         /\ BondOf(S, k) \in Int /\ BondOf(s, k) \in Int
<1>1. PICK r, q \in Record : \E cut \in 0 .. r.amount : \E M : Missed(S, k, s, r, q, cut, M)
  BY Zenon, MissIs
<1>2. PICK cut \in 0 .. r.amount : \E M : Missed(S, k, s, r, q, cut, M)
  BY Zenon, <1>1
<1>3. PICK M : Missed(S, k, s, r, q, cut, M)
  BY Zenon, <1>2
<1>4. /\ S.rec[k] = {r} /\ q.amount = r.amount - cut /\ Recorded(S, k, {q}, M)
      /\ s \in BurnTx(M, EscrowAccount(k), cut)
  BY Zenon, <1>3 DEF Missed
<1>5. r.amount \in Nat /\ q.amount \in Nat /\ cut \in Nat
  BY ParametersNat DEF Record
<1>6. S \in State /\ M \in State /\ EscrowAccount(k) \in Account /\ M.rec[k] = {q}
  <2>1. S.rec \in [Key -> SUBSET Record] /\ S \in State
    BY Zenon DEF Good, State
  <2> QED  BY Zenon, <1>4, <2>1, Accounts DEF Recorded
<1>7. Net(s) = Net(M) - cut /\ Net(M) = Net(S) /\ Net(S) \in Int
  BY <1>4, <1>5, <1>6, BurnNet, RecordNet, NetInt
<1>8. s.rec = M.rec
  <2>1. Wrote(M, EscrowAccount(k), M.bal[EscrowAccount(k)] - cut, s)
    BY Zenon, <1>4, <1>6, BurnIs
  <2> QED  BY Zenon, <2>1 DEF Wrote, SameBooks
<1>9. BondOf(S, k) = r.amount /\ BondOf(s, k) = q.amount
  BY <1>4, <1>6, <1>8, TheBond
<1> QED  BY <1>4, <1>5, <1>7, <1>9

\* A contract's run moves money and makes none.
LEMMA RunNet ==
  ASSUME NEW S, Good(S), NEW c \in ContractAccounts, NEW t \in Tx,
         NEW s \in RunContract(S, c, t)
  PROVE  Net(s) = Net(S)
<1>1. PICK q \in MoveTx(S, Main(t.sender), c, t.value) : s \in HostTransfer(q, c, t)
  BY Zenon DEF RunContract
<1>2. /\ S \in State /\ t.value \in Nat /\ c \in Account /\ Main(t.sender) \in Account
      /\ t.pays \in Account /\ t.amount \in Nat
  <2>1. t.sender \in Key /\ t.value \in Nat /\ t.pays \in Account /\ t.amount \in Nat
    BY ParametersNat DEF Tx
  <2> QED  BY Zenon, <2>1, Accounts DEF Good
<1>3. q \in State /\ Net(q) = Net(S)
  BY <1>1, <1>2, MoveIs, MoveNet
<1>4. s = q \/ s \in MoveTx(q, c, t.pays, t.amount)
  BY Zenon, <1>1 DEF HostTransfer
<1> QED  BY <1>2, <1>3, <1>4, MoveNet

LEMMA DeployNet ==
  ASSUME NEW S, Good(S), NEW t \in Tx, NEW s \in Deploy(S, t)
  PROVE  Net(s) = Net(S)
<1> DEFINE c == ContractAddr(t.sender, t.nonce)
<1>1. c \in ContractAccounts
  <2>1. t.sender \in Key /\ t.nonce \in 1 .. MaxNonce
    BY DEF Tx
  <2> QED  BY Zenon, <2>1, Accounts
<1> HIDE DEF c
<1>2. PICK q \in RunContract(S, c, t) : s = [q EXCEPT !.contracts = @ \cup {c}]
  BY DEF Deploy, c
<1>3. q \in State /\ Net(q) = Net(S)
  BY Zenon, <1>1, <1>2, RunStep, RunNet DEF LedgerStep
<1>4. s.bal = q.bal /\ s.paidToSelf = q.paidToSelf
  BY Zenon, <1>2, <1>3 DEF State
<1> QED  BY Zenon, <1>3, <1>4 DEF Net

\* What a transaction burns: the bond that equivocation evidence is against.
LEMMA ExecuteNet ==
  ASSUME NEW S, Good(S), NEW t \in Tx, NEW s \in Execute(S, t)
  PROVE  LET burnt == IF t.type = "equivocation" THEN BondOf(S, t.target) ELSE 0
         IN  Net(s) = Net(S) - burnt /\ burnt \in Nat
<1> DEFINE k == t.sender
<1>1. /\ S \in State /\ k \in Key /\ t.target \in Key /\ t.to \in Account
      /\ t.value \in 0 .. MaxUint256 /\ t.value \in Nat /\ t.type \in TxType
  BY ParametersNat DEF Good, Tx
<1>2. {Main(k), FeeAccount(k)} \subseteq Account
  BY Zenon, <1>1, Accounts
<1>3. Net(S) \in Int /\ S.bal \in [Account -> Nat]
  <2>1. S.bal \in [Account -> Nat]
    BY <1>1, ParametersNat DEF State
  <2> QED  BY Zenon, <1>1, <2>1, NetInt
<1>4. SUFFICES t.type # "equivocation" => Net(s) = Net(S)
  <2>1. CASE t.type = "equivocation"
    <3>1. s \in SlashTx(S, t.target)
      BY Zenon, <2>1 DEF Execute
    <3> QED  BY Zenon, <1>1, <2>1, <3>1, SlashNet
  <2>2. CASE t.type # "equivocation"
    BY <1>3, <1>4, <2>2
  <2> QED  BY Zenon, <2>1, <2>2
<1>5. CASE t.type = "transfer"
  <2>1. s \in MoveTx(S, Main(k), t.to, t.value)
    BY <1>5 DEF Execute
  <2> QED  BY <1>1, <1>2, <2>1, MoveNet
<1>6. CASE t.type = "miss"
  BY Zenon, <1>6 DEF Execute
<1>7. CASE t.type = "deploy"
  <2>1. s \in Deploy(S, t)
    BY Zenon, <1>7 DEF Execute
  <2> QED  BY Zenon, <2>1, DeployNet
<1>8. CASE t.type = "call"
  <2>1. s \in Call(S, t)
    BY Zenon, <1>8 DEF Execute
  <2>2. s = S \/ (t.to \in S.contracts /\ s \in RunContract(S, t.to, t))
    BY Zenon, <2>1 DEF Call
  <2> QED  BY Zenon, <2>2, RunNet DEF Good
<1>9. CASE t.type = "bond"
  <2>1. s \in BondTx(S, k, t.value)
    BY Zenon, <1>9 DEF Execute
  <2> QED  BY Zenon, <1>1, <2>1, BondNet
<1>10. CASE t.type = "unbond"
  <2>1. s \in UnbondTx(S, k, S.height + 1)
    BY Zenon, <1>10 DEF Execute
  <2> QED  BY Zenon, <1>1, <2>1, UnbondNet
<1>11. CASE t.type = "finalize"
  <2>1. s \in FinalizeTx(S, k, S.height + 1)
    BY Zenon, <1>11 DEF Execute
  <2> QED  BY Zenon, <1>1, <2>1, FinalizeNet
<1>12. CASE t.type = "claim"
  <2>1. s \in MoveTx(S, FeeAccount(k), Main(k), S.bal[FeeAccount(k)])
    BY Zenon, <1>12 DEF Execute, ClaimTx
  <2>2. S.bal[FeeAccount(k)] \in Nat
    BY Zenon, <1>2, <1>3
  <2> QED  BY <1>1, <1>2, <2>1, <2>2, MoveNet
<1> QED  BY Zenon, <1>1, <1>5, <1>6, <1>7, <1>8, <1>9, <1>10, <1>11, <1>12 DEF TxType

LEMMA ApplyNet ==
  ASSUME NEW S, Good(S), NEW t \in Tx, NEW s \in Apply(S, t)
  PROVE  Net(s) = Net(S) - Slashed(S, t) /\ Slashed(S, t) \in Nat
<1>1. CASE SequenceFault(S, t)
  <2>1. s = S /\ S \in State /\ Slashed(S, t) = 0
    BY Zenon, <1>1 DEF Apply, Good, Slashed
  <2> QED  BY <2>1, NetInt
<1>2. CASE ~SequenceFault(S, t)
  <2> DEFINE q == AdvanceNonceTx(S, t)
  <2>1. Good(q) /\ q.rec = S.rec
    BY Zenon, <1>2, NonceStep
  <2>2. s \in Execute(q, t)
    BY <1>2 DEF Apply
  <2>3. Net(q) = Net(S)
    BY Zenon DEF AdvanceNonceTx, Net, Good, State
  <2> HIDE DEF q
  <2>4. BondOf(q, t.target) = BondOf(S, t.target)
    BY <2>1 DEF BondOf
  <2> QED  BY Zenon, <1>2, <2>1, <2>2, <2>3, <2>4, ExecuteNet DEF Slashed
<1> QED  BY Zenon, <1>1, <1>2

-----------------------------------------------------------------------------
(* Rewards.                                                                 *)

\* The validators are keys.
LEMMA ValidatorsAreKeys ==
  ASSUME NEW S
  PROVE  Validators(S) \in Seq(Key)
<1> DEFINE A == {k \in Key : IsBonded(S, k)}
<1>1. Filter(KeyOrder, A) \in Seq(Key \cap A)
  BY KeysOrdered, FilterType
<1>2. Key \cap A \subseteq Key
  OBVIOUS
<1> HIDE DEF A
<1>3. Filter(KeyOrder, A) \in Seq(Key)
  BY <1>1, <1>2
<1> QED  BY Zenon, <1>3 DEF Validators, A

LEMMA Quotient ==
  ASSUME NEW a \in Nat, NEW b \in Nat \ {0}
  PROVE  a \div b \in Nat /\ a % b \in Nat /\ b * (a \div b) + (a % b) = a
OBVIOUS

\* What is staked is a number, so the reward of a block is one.
LEMMA StakedInt ==
  ASSUME NEW S, Good(S)
  PROVE  TotalStaked(S) \in Int
<1> DEFINE f == [k \in Key |-> BondOf(S, k)]
           B == {k \in Key : IsBonded(S, k)}
<1>1. ASSUME NEW k \in B PROVE f[k] \in Int
  <2>1. PICK r \in S.rec[k] : TRUE
    BY Zenon DEF IsBonded
  <2>2. S.rec[k] = {r} /\ r.amount \in Nat
    BY Zenon, TheRecord
  <2>3. BondOf(S, k) = r.amount
    BY Zenon, <2>2, TheBond
  <2> QED  BY <2>2, <2>3
<1>2. IsFiniteSet(B)
  BY Zenon, KeysOrdered, FS_Subset
<1> HIDE DEF f, B
<1>3. SumFunctionOnSet(f, B) \in Int
  BY Zenon, <1>1, <1>2, SumInt
<1> QED  BY Zenon, <1>3 DEF TotalStaked, f, B

LEMMA MintNat ==
  ASSUME NEW S, Good(S)
  PROVE  MintAmount(S) \in Nat
<1> DEFINE supply == S.supply
           staked == TotalStaked(S)
           target == (supply * TargetStakingRatioPct) \div 100
           most == ((supply * MaxAnnualRatePct) \div 100) \div BlocksPerYear
<1>1. /\ supply \in Nat /\ staked \in Int /\ TargetStakingRatioPct \in Nat
      /\ MaxAnnualRatePct \in Nat /\ BlocksPerYear \in Nat \ {0}
  BY Zenon, StakedInt, ParametersNat DEF Good, State
<1> HIDE DEF supply, staked
<1>2. target \in Nat
  <2>1. supply * TargetStakingRatioPct \in Nat
    BY <1>1
  <2> QED  BY <2>1, Quotient
<1>3. most \in Nat
  <2>1. supply * MaxAnnualRatePct \in Nat
    BY <1>1
  <2>2. (supply * MaxAnnualRatePct) \div 100 \in Nat
    BY <2>1, Quotient
  <2> QED  BY Zenon, <1>1, <2>2, Quotient
<1> HIDE DEF target, most
<1>4. ASSUME target # 0, staked < target
      PROVE  (most * (target - staked)) \div target \in Nat
  <2>1. target - staked \in Nat /\ target \in Nat \ {0}
    BY <1>1, <1>2, <1>4
  <2>2. most * (target - staked) \in Nat
    BY <1>3, <2>1
  <2> QED  BY Zenon, <2>1, <2>2, Quotient
<1>5. MintPerBlock(supply, staked) = IF supply <= 0 \/ target = 0 \/ staked >= target THEN 0
                                     ELSE (most * (target - staked)) \div target
  BY DEF MintPerBlock, target, most
<1>6. MintPerBlock(supply, staked) \in Nat
  BY <1>1, <1>2, <1>4, <1>5
<1> QED  BY <1>6 DEF MintAmount, supply, staked

\* The share of the j-th validator, and those of the ones before it.
SharesPaid(reward, n, j) ==
  IF j = 0 THEN 0 ELSE j * (reward \div n) + (reward % n)

LEMMA ShareIs ==
  ASSUME NEW reward \in Nat, NEW n \in Nat \ {0}, NEW j \in Nat \ {0}
  PROVE  /\ SplitReward(reward, n, j) \in Nat
         /\ SharesPaid(reward, n, j) = SharesPaid(reward, n, j - 1) + SplitReward(reward, n, j)
         /\ SharesPaid(reward, n, j) \in Nat /\ SharesPaid(reward, n, j - 1) \in Nat
         /\ SharesPaid(reward, n, n) = reward
<1> DEFINE d == reward \div n
           m == reward % n
<1>1. d \in Nat /\ m \in Nat /\ n * d + m = reward
  BY Zenon, Quotient
<1> HIDE DEF d, m
<1>2. SplitReward(reward, n, j) = d + (IF j = 1 THEN m ELSE 0)
  BY DEF SplitReward, d, m
<1>3. \A p : SharesPaid(reward, n, p) = IF p = 0 THEN 0 ELSE p * d + m
  BY DEF SharesPaid, d, m
<1>4. j * d = (j - 1) * d + d /\ j * d \in Nat /\ (j - 1) * d \in Nat
  BY <1>1
<1>5. SharesPaid(reward, n, n) = reward
  BY Zenon, <1>1, <1>3
<1>6. CASE j = 1
  <2>1. SharesPaid(reward, n, 0) = 0 /\ SharesPaid(reward, n, 1) = d + m
    BY <1>1, <1>3
  <2> QED  BY <1>1, <1>2, <1>5, <1>6, <2>1
<1>7. CASE j # 1
  <2>1. j - 1 # 0
    BY <1>7
  <2>2. SharesPaid(reward, n, j) = j * d + m /\ SharesPaid(reward, n, j - 1) = (j - 1) * d + m
    BY Zenon, <1>3, <2>1
  <2>3. SplitReward(reward, n, j) = d
    BY <1>1, <1>2, <1>7
  <2> QED  BY <1>1, <1>4, <1>5, <2>2, <2>3
<1> QED  BY Zenon, <1>6, <1>7

\* Genesis: a bond is a part of the balance it is taken from.
LEMMA GenesisNet == Net(Genesis) = Genesis.supply
<1> DEFINE bal == Genesis.bal
           Of(K) == {Main(k) : k \in K} \cup {EscrowAccount(k) : k \in K}
           T == {K \in SUBSET Key : SumFunctionOnSet(bal, Of(K)) = SumFunctionOnSet(GenesisBalance, K)}
<1>1. bal \in [Account -> Int]
  BY Zenon, GenesisGood, NetInt DEF Good
<1>2. ASSUME NEW k \in Key
      PROVE  /\ bal[Main(k)] = GenesisBalance[k] - GenesisBond[k]
             /\ bal[EscrowAccount(k)] = GenesisBond[k]
             /\ GenesisBalance[k] \in Int /\ GenesisBond[k] \in Int
             /\ Main(k) \in Account /\ EscrowAccount(k) \in Account
             /\ Main(k) # EscrowAccount(k)
  <2>1. Main(k) \in Account /\ EscrowAccount(k) \in Account /\ Main(k) # EscrowAccount(k)
    BY Zenon, Accounts
  <2>2. /\ Main(k)[1] = "main" /\ Main(k)[2] = k
        /\ EscrowAccount(k)[1] = "escrow" /\ EscrowAccount(k)[2] = k
    BY Zenon DEF Main, EscrowAccount
  <2>3. GenesisBalance[k] \in Int /\ GenesisBond[k] \in Int
    BY GenesisValid, ParametersNat
  <2> QED  BY Zenon, <2>1, <2>2, <2>3 DEF Genesis
<1>3. ASSUME NEW a \in Account \ Of(Key)
      PROVE  bal[a] = 0
  <2>1. a[1] \notin {"main", "escrow"}
    BY DEF Account, Main, EscrowAccount
  <2> QED  BY Zenon, <2>1 DEF Genesis
<1> HIDE DEF bal
<1>4. Of(Key) \in SUBSET Account
  BY Zenon, <1>2
<1>5. IsFiniteSet(Of(Key)) /\ \A K \in SUBSET Key : Of(K) \in SUBSET Of(Key)
  BY Zenon, <1>4, AccountsFinite, FS_Subset
<1>6. {} \in T
  <2>1. Of({}) = {}
    OBVIOUS
  <2> QED  BY Zenon, <2>1, SumNone
<1>7. ASSUME NEW K \in SUBSET Key, NEW k \in K, K \ {k} \in T
      PROVE  K \in T
  <2> DEFINE m == Main(k)
             e == EscrowAccount(k)
             A == Of(K)
  <2>1. /\ m \in A /\ e \in A \ {m} /\ (A \ {m}) \ {e} = Of(K \ {k})
    BY Accounts DEF Main, EscrowAccount
  <2>2. /\ IsFiniteSet(A) /\ IsFiniteSet(A \ {m}) /\ IsFiniteSet(Of(K \ {k}))
        /\ A \in SUBSET Account /\ IsFiniteSet(K)
    <3>1. A \in SUBSET Account /\ A \ {m} \in SUBSET Account /\ Of(K \ {k}) \in SUBSET Account
      BY Zenon, <1>2
    <3> HIDE DEF A, Of
    <3> QED  BY Zenon, <3>1, KeysOrdered, AccountsFinite, FS_Subset
  <2>3. \A a \in A : bal[a] \in Int
    BY Zenon, <1>1, <2>2
  <2> HIDE DEF A, Of
  <2>4. SumFunctionOnSet(bal, A) = bal[m] + SumFunctionOnSet(bal, A \ {m})
    BY <2>1, <2>2, <2>3, SumOut
  <2>5. SumFunctionOnSet(bal, A \ {m}) = bal[e] + SumFunctionOnSet(bal, (A \ {m}) \ {e})
    BY <2>1, <2>2, <2>3, SumOut
  <2>6. SumFunctionOnSet(GenesisBalance, K)
          = GenesisBalance[k] + SumFunctionOnSet(GenesisBalance, K \ {k})
    <3>1. \A j \in K : GenesisBalance[j] \in Int
      BY Zenon, <1>2
    <3> QED  BY <2>2, <3>1, SumOut
  <2>7. SumFunctionOnSet(bal, Of(K \ {k})) = SumFunctionOnSet(GenesisBalance, K \ {k})
    BY Zenon, <1>7
  <2>8. SumFunctionOnSet(GenesisBalance, K \ {k}) \in Int
    <3>1. IsFiniteSet(K \ {k}) /\ \A j \in K \ {k} : GenesisBalance[j] \in Int
      BY Zenon, <1>2, <2>2, FS_Subset
    <3> QED  BY Zenon, <3>1, SumInt
  <2>9. /\ bal[m] = GenesisBalance[k] - GenesisBond[k] /\ bal[e] = GenesisBond[k]
        /\ GenesisBalance[k] \in Int /\ GenesisBond[k] \in Int
    BY Zenon, <1>2
  <2> DEFINE rest == SumFunctionOnSet(GenesisBalance, K \ {k})
  <2> HIDE DEF m, e, rest
  <2>10. SumFunctionOnSet(bal, A) = SumFunctionOnSet(GenesisBalance, K)
    <3>1. SumFunctionOnSet(bal, A \ {m}) = bal[e] + rest
      BY Zenon, <2>1, <2>5, <2>7 DEF rest
    <3>2. SumFunctionOnSet(GenesisBalance, K) = GenesisBalance[k] + rest /\ rest \in Int
      BY Zenon, <2>6, <2>8 DEF rest
    <3> QED  BY <2>4, <2>9, <3>1, <3>2
  <2> QED  BY Zenon, <2>10 DEF A
<1>8. Key \in T
  <2> HIDE DEF T
  <2>1. SUBSET Key \subseteq T
    BY Zenon, <1>6, <1>7, KeysOrdered, SetInduction
  <2> QED  BY <2>1
<1>9. SumFunctionOnSet(bal, Account) = SumFunctionOnSet(bal, Of(Key))
  <2> HIDE DEF Of
  <2> QED  BY Zenon, <1>1, <1>3, <1>4, AccountsFinite, SumSupport
<1>10. SumFunction(bal) = SumFunction(GenesisBalance)
  <2>1. DOMAIN bal = Account /\ DOMAIN GenesisBalance = Key
    BY Zenon, <1>1, GenesisValid
  <2> QED  BY Zenon, <1>8, <1>9, <2>1 DEF SumFunction
<1>11. /\ Genesis.supply = SumFunction(GenesisBalance) /\ Genesis.paidToSelf = 0
       /\ SumFunction(bal) \in Int
  BY Zenon, GenesisGood, NetInt DEF Genesis, Good, bal
<1> QED  BY <1>10, <1>11 DEF Net, bal

\* What the loop over the validators has credited so far.
Minted ==
  IF step = "mint" THEN SharesPaid(MintAmount(db), Len(Validators(db)), i - 1) ELSE 0

\* The database's books balance, and those of the write transaction but for
\* what it has burnt and minted since.
Balanced ==
  /\ Net(db) = db.supply
  /\ totalSlashed \in Int
  /\ Net(w) = db.supply - db.baseFee * totalGas - totalSlashed + Minted
  /\ step = "mint" => i <= Len(Validators(db)) + 1

LEMMA InitBalanced == Init => Balanced
<1> SUFFICES ASSUME Init PROVE Balanced
  BY Zenon
<1>1. db.supply \in Nat /\ db.baseFee \in Nat
  BY Zenon, GenesisGood DEF Init, Good, State
<1>2. Net(db) = db.supply /\ Net(w) = db.supply
  BY Zenon, GenesisNet DEF Init
<1> QED  BY <1>1, <1>2 DEF Init, Balanced, Minted

\* The numbers that the invariant speaks of.
LEMMA BalancedInt ==
  ASSUME IInv, Balanced
  PROVE  /\ db.supply \in Nat /\ db.baseFee \in Nat /\ totalGas \in Nat
         /\ db.baseFee * totalGas \in Nat /\ totalSlashed \in Int
         /\ MintAmount(db) \in Nat /\ Len(Validators(db)) \in Nat
         /\ w \in State /\ Good(w) /\ Net(w) \in Int
<1>1. db.supply \in Nat /\ db.baseFee \in Nat /\ totalGas \in Nat /\ totalSlashed \in Int
  BY DEF IInv, Good, State, Locals, Balanced
<1>2. db.baseFee * totalGas \in Nat
  BY <1>1
<1>3. MintAmount(db) \in Nat /\ Len(Validators(db)) \in Nat
  BY MintNat, ValidatorsAreKeys DEF IInv
<1>4. w \in State /\ Good(w) /\ Net(w) \in Int
  BY Zenon, NetInt DEF IInv, Good
<1> QED  BY Zenon, <1>1, <1>2, <1>3, <1>4

\* The end of a write transaction.
LEMMA FinishBalanced ==
  ASSUME Good(db'), Net(db') = db'.supply, Finish
  PROVE  Balanced'
<1>1. db'.supply \in Nat /\ db'.baseFee \in Nat
  BY Zenon DEF Good, State
<1> QED  BY <1>1 DEF Finish, Balanced, Minted, Net

LEMMA NextBalanced == IInv /\ Balanced /\ [Next]_vars => Balanced'
<1> SUFFICES ASSUME IInv, Balanced, [Next]_vars PROVE Balanced'
  BY Zenon
<1> DEFINE n == Len(Validators(db))
           reward == MintAmount(db)
           burnt == db.baseFee * totalGas
<1>1. /\ db.supply \in Nat /\ db.baseFee \in Nat /\ totalGas \in Nat
      /\ burnt \in Nat /\ totalSlashed \in Int
      /\ reward \in Nat /\ n \in Nat
      /\ w \in State /\ Good(w) /\ Net(w) \in Int
  BY Zenon, BalancedInt
<1>2. /\ Net(db) = db.supply
      /\ Net(w) = db.supply - burnt - totalSlashed + Minted
      /\ step = "mint" => i <= n + 1
  BY Zenon DEF Balanced
<1>3. CASE Begin
  <2>1. /\ w' = db /\ db' = db /\ step' = "txs" /\ totalGas' = 0 /\ totalSlashed' = 0
    BY Zenon, <1>3 DEF Begin
  <2> QED  BY <1>1, <1>2, <2>1 DEF Balanced, Minted
<1>4. CASE ApplyTx
  <2> DEFINE t == txs[i]
  <2>1. t \in Tx
    BY <1>4, TransactionsKnown DEF ApplyTx, IInv, Locals
  <2>2. w' \in Apply(w, t)
    BY Zenon, <1>4 DEF ApplyTx
  <2>3. Net(w') = Net(w) - Slashed(w, t) /\ Slashed(w, t) \in Nat
    BY Zenon, <1>1, <2>1, <2>2, ApplyNet
  <2>4. /\ step = "txs" /\ totalSlashed' = totalSlashed + Slashed(w, t)
        /\ UNCHANGED <<db, step, totalGas>>
    BY Zenon, <1>4 DEF ApplyTx
  <2> HIDE DEF t, burnt
  <2>5. Net(w') = db.supply - burnt - totalSlashed' + Minted /\ totalSlashed' \in Int
    <3>1. Minted = 0
      BY Zenon, <2>4 DEF Minted
    <3>2. burnt \in Nat /\ db.supply \in Nat /\ totalSlashed \in Int
      BY Zenon, <1>1
    <3>3. Net(w) = db.supply - burnt - totalSlashed + Minted
      BY Zenon, <1>2
    <3> QED  BY ONLY <2>3, <2>4, <3>1, <3>2, <3>3
  <2>6. Minted' = Minted
    BY Zenon, <2>4 DEF Minted
  <2> QED  BY Zenon, <1>2, <2>4, <2>5, <2>6 DEF Balanced, burnt
<1>5. CASE ChargeGas
  <2> DEFINE gas == 1 + fuels[i]
             fee == db.baseFee * gas
  <2>1. i \in 1 .. Len(txs) /\ txs[i] \in TxSet /\ fuels[i] \in Nat
    BY <1>5 DEF ChargeGas, IInv, Locals
  <2>2. Main(txs[i].sender) \in Account
    <3>1. txs[i].sender \in Key
      BY Zenon, <2>1, TransactionsKnown DEF Tx
    <3> QED  BY Zenon, <3>1, Accounts
  <2>3. gas \in Nat /\ fee \in Nat
    <3>1. gas \in Nat
      BY <2>1
    <3> QED  BY <1>1, <3>1
  <2>4. w' \in BurnTx(w, Main(txs[i].sender), fee)
    BY Zenon, <1>5 DEF ChargeGas
  <2>5. Net(w') = Net(w) - fee
    BY <1>1, <2>2, <2>3, <2>4, BurnNet
  <2>6. step = "gas" /\ totalGas' = totalGas + gas /\ UNCHANGED <<db, step, totalSlashed>>
    BY Zenon, <1>5 DEF ChargeGas
  <2>7. db.baseFee * (totalGas + gas) = burnt + fee
    <3> HIDE DEF gas
    <3> QED  BY <1>1, <2>3
  <2> HIDE DEF gas, fee, burnt
  <2>8. Net(w') = db.supply - (burnt + fee) - totalSlashed + Minted
    BY <1>1, <1>2, <2>3, <2>5, <2>6 DEF Minted
  <2>9. Minted' = Minted
    BY Zenon, <2>6 DEF Minted
  <2> QED  BY Zenon, <1>1, <1>2, <2>6, <2>7, <2>8, <2>9 DEF Balanced
<1>6. CASE RecordMiss
  <2> DEFINE k == txs[i].target
  <2>1. k \in Key
    BY <1>6, TransactionsKnown DEF RecordMiss, IInv, Locals, Tx
  <2>2. step = "misses" /\ UNCHANGED <<db, step, totalGas>>
    BY Zenon, <1>6 DEF RecordMiss
  <2>3. CASE txs[i].type = "miss"
    <3>1. w' \in RecordMissTx(w, k) /\ totalSlashed' = totalSlashed + BondOf(w, k) - BondOf(w', k)
      BY Zenon, <1>6, <2>3 DEF RecordMiss
    <3>2. /\ Net(w') = Net(w) - (BondOf(w, k) - BondOf(w', k))
          /\ BondOf(w, k) \in Int /\ BondOf(w', k) \in Int
      BY Zenon, <1>1, <2>1, <3>1, MissNet
    <3> HIDE DEF k, burnt
    <3>3. Net(w') = db.supply - burnt - totalSlashed' + Minted /\ totalSlashed' \in Int
      <4>1. Minted = 0
        BY Zenon, <2>2 DEF Minted
      <4> DEFINE lost == BondOf(w, k) - BondOf(w', k)
      <4>2. lost \in Int /\ totalSlashed' = totalSlashed + lost /\ Net(w') = Net(w) - lost
        BY ONLY <1>1, <3>1, <3>2
      <4> HIDE DEF lost
      <4>3. burnt \in Nat /\ db.supply \in Nat /\ totalSlashed \in Int
        BY Zenon, <1>1
      <4>4. Net(w) = db.supply - burnt - totalSlashed + Minted
        BY Zenon, <1>2
      <4> QED  BY ONLY <4>1, <4>2, <4>3, <4>4
    <3>4. Minted' = Minted
      BY Zenon, <2>2 DEF Minted
    <3> QED  BY Zenon, <1>2, <2>2, <3>3, <3>4 DEF Balanced, burnt
  <2>4. CASE txs[i].type # "miss"
    <3>1. UNCHANGED <<w, totalSlashed>>
      BY Zenon, <1>6, <2>4 DEF RecordMiss
    <3> QED  BY Zenon, <1>1, <1>2, <2>2, <3>1 DEF Balanced, Minted
  <2> QED  BY Zenon, <2>3, <2>4
<1>7. CASE MintShare
  <2> DEFINE k == Validators(db)[i]
             share == SplitReward(reward, n, i)
  <2>1. /\ step = "mint" /\ i <= n /\ w' \in CreditTx(w, FeeAccount(k), share)
        /\ i' = i + 1 /\ UNCHANGED <<db, step, totalGas, totalSlashed>>
    BY Zenon, <1>7 DEF MintShare
  <2>2. i \in Nat \ {0} /\ n \in Nat \ {0} /\ i - 1 \in Nat
    BY <1>1, <2>1 DEF IInv, Locals
  <2>3. FeeAccount(k) \in Account
    <3>1. k \in Key
      BY <2>1, <2>2, ValidatorsAreKeys
    <3> QED  BY Zenon, <3>1, Accounts
  <2> HIDE DEF k, n, reward
  <2>4. /\ share \in Nat /\ SharesPaid(reward, n, i) = SharesPaid(reward, n, i - 1) + share
        /\ SharesPaid(reward, n, i - 1) \in Nat
    BY Zenon, <1>1, <2>2, ShareIs
  <2> HIDE DEF share
  <2>5. Net(w') = Net(w) + share
    BY <1>1, <2>1, <2>3, <2>4, CreditNet
  <2>6. Minted = SharesPaid(reward, n, i - 1)
    BY Zenon, <2>1 DEF Minted, reward, n
  <2>7. Minted' = SharesPaid(reward, n, i)
    <3>1. i' - 1 = i
      BY <2>1, <2>2
    <3> QED  BY Zenon, <2>1, <3>1 DEF Minted, reward, n
  <2>8. Net(w') = db.supply - burnt - totalSlashed + Minted'
    <3> HIDE DEF burnt
    <3> QED  BY <1>1, <1>2, <2>4, <2>5, <2>6, <2>7
  <2>9. i' <= n + 1
    BY <1>1, <2>1, <2>2
  <2> QED  BY Zenon, <1>1, <1>2, <2>1, <2>8, <2>9 DEF Balanced, n
<1>8. CASE NextLoop
  <2>1. /\ step # "mint" /\ i' = 1 /\ UNCHANGED <<db, w, totalGas, totalSlashed>>
    BY Zenon, <1>8 DEF NextLoop
  <2>2. Minted = 0 /\ Minted' = 0
    BY <2>1 DEF Minted, SharesPaid
  <2>3. i' <= n + 1
    BY <1>1, <2>1
  <2> QED  BY Zenon, <1>1, <1>2, <2>1, <2>2, <2>3 DEF Balanced
<1>9. CASE Commit
  <2> DEFINE supply == db.supply - burnt - totalSlashed + reward
             fee == BaseFee(db.baseFee, totalGas)
  <2>1. /\ step = "mint" /\ i > n /\ Finish
        /\ db' = [w EXCEPT !.height = @ + 1, !.supply = supply, !.baseFee = fee]
    BY Zenon, <1>9 DEF Commit
  <2>2. Good(db')
    BY Zenon, <1>9, CommitGood
  <2> HIDE DEF fee
  <2>3. db'.bal = w.bal /\ db'.paidToSelf = w.paidToSelf /\ db'.supply = supply
    <3> HIDE DEF supply
    <3> QED  BY Zenon, <1>1, <2>1 DEF State
  <2>4. i - 1 = n
    <3>1. i \in Nat
      BY DEF IInv, Locals
    <3>2. n \in Nat /\ i > n /\ i <= n + 1
      BY Zenon, <1>1, <1>2, <2>1
    <3> HIDE DEF n
    <3> QED  BY ONLY <3>1, <3>2
  <2>5. Minted = SharesPaid(reward, n, n)
    BY <2>1, <2>4 DEF Minted
  <2>6. SharesPaid(reward, n, n) = reward
    <3>1. CASE n = 0
      <4>1. reward = 0
        <5>1. Validators(db) = <<>>
          BY <3>1, ValidatorsAreKeys
        <5> QED  BY <5>1 DEF MintAmount
      <4> QED  BY Zenon, <3>1, <4>1 DEF SharesPaid
    <3>2. CASE n # 0
      <4> HIDE DEF n, reward
      <4> QED  BY Zenon, <1>1, <3>2, ShareIs
    <3> QED  BY Zenon, <3>1, <3>2
  <2>7. Net(db') = supply
    BY Zenon, <1>2, <2>3, <2>5, <2>6 DEF Net
  <2> QED  BY Zenon, <2>1, <2>2, <2>3, <2>7, FinishBalanced
<1>10. CASE Rollback
  <2>1. Good(db') /\ Net(db') = db'.supply /\ Finish
    BY Zenon, <1>2, <1>10 DEF Rollback, IInv
  <2> QED  BY Zenon, <2>1, FinishBalanced
<1>11. CASE UNCHANGED vars
  <2>1. UNCHANGED <<db, w, step, i, totalGas, totalSlashed>>
    BY <1>11 DEF vars
  <2> QED  BY Zenon, <1>2, <1>1, <2>1 DEF Balanced, Minted
<1> QED  BY Zenon, <1>3, <1>4, <1>5, <1>6, <1>7, <1>8, <1>9, <1>10, <1>11 DEF Next

-----------------------------------------------------------------------------

\* No escrow ever holds less than the bond recorded for its key, and database
\* and write transaction are well formed, at every point of every block: for
\* every set of keys, transactions and parameters (core/staking, core/ledger).
THEOREM EscrowsBacked == Spec => []EscrowBacked
<1>1. IInv => EscrowBacked
  <2> SUFFICES ASSUME IInv PROVE EscrowBacked
    OBVIOUS
  <2>1. ASSUME NEW S \in {db, w}
        PROVE  Good(S)
    BY <2>1 DEF IInv
  <2> QED  BY <2>1 DEF EscrowBacked, Good, Backed, Covered
<1> QED  BY <1>1, Invariance, PTL

\* Every key's transactions take effect once each, in nonce order, without a
\* gap (SequenceFault and AdvanceNonceTx, over rollbacks and skips).
THEOREM NoncesInOrder == Spec => []NoncesSequential
<1>1. IInv => NoncesSequential
  BY DEF IInv, Good, InOrder, NoncesSequential
<1> QED  BY <1>1, Invariance, PTL

\* A committed block removes a validator's record only on equivocation evidence
\* in that block or when the lockup has elapsed, however bond, unbond, finalize
\* and slashing follow each other inside it.
THEOREM LockupHolds == Spec => BondLockedUp
<1> DEFINE Removal ==
      \A k \in Key : \A r \in db.rec[k] : db'.rec[k] = {} =>
        \/ \E j \in DOMAIN txs : txs[j].type = "equivocation" /\ txs[j].target = k
        \/ r.state = "unbonding" /\ db'.height >= r.unbondingAt + UnbondingBlocks
<1>1. IInv /\ [Next]_vars => [Removal]_vars
  <2> SUFFICES ASSUME IInv, Next PROVE Removal
    BY Zenon
  <2>1. CASE Commit
    <3> SUFFICES ASSUME NEW k \in Key, NEW r \in db.rec[k], db'.rec[k] = {}
                 PROVE  \/ \E j \in DOMAIN txs : txs[j].type = "equivocation"
                                                 /\ txs[j].target = k
                        \/ r.state = "unbonding"
                           /\ db'.height >= r.unbondingAt + UnbondingBlocks
      BY Zenon
    <3>1. w.rec[k] = {} /\ db'.height = db.height + 1
      BY Zenon, <2>1, CommitGood
    <3>2. Excused(k)
      BY Zenon, <3>1 DEF IInv, Traced, Kept
    <3>3. \A x \in db.rec[k] : x = r
      BY DEF IInv, Good, Backed, Covered
    <3> QED  BY Zenon, <3>1, <3>2, <3>3 DEF Excused
  <2>2. CASE db' = db
    BY Zenon, <2>2
  <2>3. ~Commit => db' = db
    BY DEF Next, Begin, ApplyTx, ChargeGas, RecordMiss, MintShare, NextLoop, Rollback
  <2> QED  BY Zenon, <2>1, <2>2, <2>3
<1> QED  BY <1>1, Invariance, PTL DEF Spec, BondLockedUp

\* The recorded total supply is the sum of the balances less what accounts paid
\* to themselves, after any blocks of any transactions.
THEOREM SupplyIsTracked == Spec => []SupplyTracked
<1>1. IInv /\ Balanced => SupplyTracked
  <2> SUFFICES ASSUME IInv, Balanced PROVE SupplyTracked
    BY Zenon
  <2>1. SumFunction(db.bal) \in Int /\ db.paidToSelf \in Int /\ db.supply \in Int
    <3>1. db \in State
      BY DEF IInv, Good
    <3>2. db.paidToSelf \in Int /\ db.supply \in Int
      BY <3>1 DEF State
    <3> QED  BY Zenon, <3>1, <3>2, NetInt
  <2> QED  BY <2>1 DEF Balanced, Net, SupplyTracked
<1> QED  BY <1>1, Invariance, InitBalanced, NextBalanced, PTL DEF Spec
=============================================================================

---------------------------- MODULE StateMachine ----------------------------
(***************************************************************************)
(* One node's state machine: ApplyBlockForChain of core/statemachine over   *)
(* the ledger, the staking store, gas and mint, starting from genesis.      *)
(*                                                                          *)
(* A block is applied inside one bbolt write transaction.  db is what the   *)
(* database holds, w the uncommitted copy the transaction works on.  The    *)
(* transaction goes through its loops one element at a time; an error or a  *)
(* crash drops w, and the last step makes it the database.                  *)
(*                                                                          *)
(* An operation that may fail yields a set: empty on an error, else the one *)
(* state it leaves.  Keys sign transactions; a ledger account is a key's    *)
(* own account, its escrow, its fee account, or a contract it deployed.     *)
(***************************************************************************)
EXTENDS Filters, FiniteSets, Functions

CONSTANTS
  Key,               \* public keys
  KeyOrder,          \* the keys in the byte order of the validators bucket
  MaxNonce,          \* bound on nonces
  TxSet,             \* the transactions proposers choose from
  MaxTxs,            \* bound on the length of a block
  MaxHeight,         \* bound on the number of blocks
  GenesisBalance,    \* [Key -> quanta], the balances of genesis.json
  GenesisBond,       \* [Key -> quanta], 0 for a key that is no validator
  Seed(_),           \* the leader hash at a height
  MaxUint256,
  MinBond, UnbondingBlocks, MissThreshold, SlashPercent,      \* staking
  TargetGasPerBlock, MaxAdjustmentDenominator, MinBaseFee,    \* gas
  TargetStakingRatioPct, MaxAnnualRatePct, BlocksPerYear      \* mint

ASSUME ParametersNat ==
  /\ {MaxNonce, MaxTxs, MaxHeight, MaxUint256, MinBond, SlashPercent,
      TargetStakingRatioPct, MaxAnnualRatePct} \subseteq Nat
  /\ {UnbondingBlocks, MissThreshold, TargetGasPerBlock,
      MaxAdjustmentDenominator, MinBaseFee, BlocksPerYear} \subseteq Nat \ {0}
  /\ SlashPercent <= 100
  /\ \A h \in 1 .. MaxHeight : Seed(h) \in Nat

ASSUME KeysOrdered == IsFiniteSet(Key) /\ KeyOrder \in Seq(Key)

Main(k) == <<"main", k, 0>>

EscrowAccount(k) == <<"escrow", k, 0>>

FeeAccount(k) == <<"fee", k, 0>>

\* A hash of the deployer and its nonce: one address per deployment.
ContractAddr(k, n) == <<"contract", k, n>>

Account == ({"main", "escrow", "fee"} \X Key \X {0})
             \cup ({"contract"} \X Key \X (1 .. MaxNonce))

TxType == {"transfer", "miss", "deploy", "call", "bond", "unbond",
           "finalize", "claim", "equivocation"}

\* One record for every type.  to is the receiver, target the validator that
\* evidence is against.  wellFormed is the outcome of the checks on fields a
\* type must leave empty and on evidence votes.  What a contract does is part
\* of the transaction that runs it: how it ends, the gas its fuel comes to,
\* and what it transfers to whom.
Tx == [type : TxType, sender : Key, nonce : 1 .. MaxNonce, to : Account,
       value : 0 .. MaxUint256, target : Key, skip : Nat, wellFormed : BOOLEAN,
       outcome : {"ok", "trap", "nofunc"}, fuelGas : Nat,
       pays : Account, amount : 0 .. MaxUint256]

ASSUME TransactionsKnown == TxSet \subseteq Tx

\* genesis.Apply succeeds: each bond is in the validator's balance, and
\* SetTotalSupplyTx takes the sum of the balances.
ASSUME GenesisValid ==
  /\ GenesisBalance \in [Key -> 0 .. MaxUint256]
  /\ \A k \in Key : GenesisBond[k] \in {0} \cup (MinBond .. GenesisBalance[k])

\* A validator record; the set of records of a key is empty or one record.
Record == [state : {"bonded", "unbonding"}, amount : 0 .. MaxUint256,
           unbondingAt : Nat, missCount : 0 .. MissThreshold - 1]

\* paidToSelf and executed are history: the value of all payments of an
\* account to itself, and the nonces of the executed transactions of a key.
State == [bal : [Account -> 0 .. MaxUint256], nonce : [Key -> 0 .. MaxNonce],
          rec : [Key -> SUBSET Record], contracts : SUBSET Account,
          height : Nat, baseFee : Nat, supply : Nat,
          paidToSelf : Nat, executed : [Key -> Seq(1 .. MaxNonce)]]

VARIABLES
  db,       \* the database
  w,        \* the database as the open write transaction sees it
  txs,      \* the block being applied
  step,     \* the loop the transaction is in, or "idle"
  i,        \* the next element of that loop
  fuels,    \* the contract gas of the transactions executed so far
  totalGas, totalSlashed

vars == <<db, w, txs, step, i, fuels, totalGas, totalSlashed>>

-----------------------------------------------------------------------------
(* core/ledger.                                                             *)

WriteBalance(S, a, x) ==
  IF x \in 0 .. MaxUint256 THEN {[S EXCEPT !.bal[a] = x]} ELSE {}

\* Both balances are read before either is written.
MoveTx(S, from, to, v) ==
  IF S.bal[from] < v THEN {}
  ELSE LET debited == S.bal[from] - v
           credited == S.bal[to] + v
       IN  UNION {WriteBalance([s EXCEPT !.paidToSelf =
                                  IF from = to THEN @ + v ELSE @],
                               to, credited) :
                    s \in WriteBalance(S, from, debited)}

BurnTx(S, a, v) ==
  IF S.bal[a] < v THEN {} ELSE WriteBalance(S, a, S.bal[a] - v)

CreditTx(S, a, v) == WriteBalance(S, a, S.bal[a] + v)

\* Mutant of SequenceFault: a later nonce is accepted.
StaleNonce(S, t) == t.nonce <= S.nonce[t.sender]

SequenceFault(S, t) == t.nonce # S.nonce[t.sender] + 1

AdvanceNonceTx(S, t) ==
  [S EXCEPT !.nonce[t.sender] = t.nonce,
            !.executed[t.sender] = Append(@, t.nonce)]

-----------------------------------------------------------------------------
(* core/staking.                                                            *)

BondTx(S, k, v) ==
  IF v < MinBond \/ S.rec[k] # {} THEN {}
  ELSE {[s EXCEPT !.rec[k] = {[state |-> "bonded", amount |-> v,
                               unbondingAt |-> 0, missCount |-> 0]}] :
          s \in MoveTx(S, Main(k), EscrowAccount(k), v)}

UnbondTx(S, k, h) ==
  {[S EXCEPT !.rec[k] = {[r EXCEPT !.state = "unbonding", !.unbondingAt = h]}] :
     r \in {q \in S.rec[k] : q.state = "bonded"}}

\* Mutant of FinalizeTx: the lockup is not awaited.
FinalizeAtOnce(S, k, h) ==
  LET due == {r \in S.rec[k] : r.state = "unbonding"}
  IN  IF due = {} THEN {S}
      ELSE {[s EXCEPT !.rec[k] = {}] :
              s \in UNION {MoveTx(S, EscrowAccount(k), Main(k), r.amount) : r \in due}}

\* A no-op, not an error, before the lockup has elapsed.
FinalizeTx(S, k, h) ==
  LET due == {r \in S.rec[k] : /\ r.state = "unbonding"
                               /\ h >= r.unbondingAt + UnbondingBlocks}
  IN  IF due = {} THEN {S}
      ELSE {[s EXCEPT !.rec[k] = {}] :
              s \in UNION {MoveTx(S, EscrowAccount(k), Main(k), r.amount) : r \in due}}

\* Burns the bond of k and removes its record.
SlashTx(S, k) ==
  {[s EXCEPT !.rec[k] = {}] :
     s \in UNION {BurnTx(S, EscrowAccount(k), r.amount) : r \in S.rec[k]}}

SlashAmount(r) ==
  IF r.missCount + 1 >= MissThreshold THEN (r.amount * SlashPercent) \div 100 ELSE 0

\* Mutants of RecordMissTx: the burnt part stays in the record; the counter
\* is not reset.
MissKeepsAmount(S, k) ==
  UNION {LET n == r.missCount + 1
         IN  BurnTx([S EXCEPT !.rec[k] =
                       {[r EXCEPT !.missCount = IF n >= MissThreshold THEN 0 ELSE n]}],
                    EscrowAccount(k), SlashAmount(r)) : r \in S.rec[k]}

\* RecordMissTx, and the burn from escrow its caller adds.
RecordMissTx(S, k) ==
  UNION {LET cut == SlashAmount(r)
             counted == IF r.missCount + 1 >= MissThreshold
                        THEN [r EXCEPT !.missCount = 0, !.amount = @ - cut]
                        ELSE [r EXCEPT !.missCount = @ + 1]
         IN  BurnTx([S EXCEPT !.rec[k] = {counted}], EscrowAccount(k), cut) :
           r \in S.rec[k]}

IsBonded(S, k) == \E r \in S.rec[k] : r.state = "bonded"

\* The amount a key has bonded or unbonding.
BondOf(S, k) ==
  IF S.rec[k] = {} THEN 0 ELSE (CHOOSE r \in S.rec[k] : TRUE).amount

\* The validators of BondedAmounts, in key order.
Validators(S) == Filter(KeyOrder, {k \in Key : IsBonded(S, k)})

TotalStaked(S) ==
  SumFunctionOnSet([k \in Key |-> BondOf(S, k)], {k \in Key : IsBonded(S, k)})

-----------------------------------------------------------------------------
(* core/gas and core/mint.                                                  *)

BaseFee(prev, gasUsed) ==
  LET delta(diff) == ((prev * diff) \div TargetGasPerBlock) \div MaxAdjustmentDenominator
      next == IF gasUsed > TargetGasPerBlock
              THEN prev + delta(gasUsed - TargetGasPerBlock)
              ELSE prev - delta(TargetGasPerBlock - gasUsed)
  IN  IF next < MinBaseFee THEN MinBaseFee ELSE next

ClaimTx(S, k) == MoveTx(S, FeeAccount(k), Main(k), S.bal[FeeAccount(k)])

MintPerBlock(supply, staked) ==
  LET target == (supply * TargetStakingRatioPct) \div 100
      maxPerBlock == ((supply * MaxAnnualRatePct) \div 100) \div BlocksPerYear
  IN  IF supply <= 0 \/ target = 0 \/ staked >= target THEN 0
      ELSE (maxPerBlock * (target - staked)) \div target

\* The share of the j-th of n validators: the first takes the remainder.
SplitReward(reward, n, j) ==
  (reward \div n) + (IF j = 1 THEN reward % n ELSE 0)

MintAmount(S) ==
  IF Validators(S) = <<>> THEN 0 ELSE MintPerBlock(S.supply, TotalStaked(S))

-----------------------------------------------------------------------------
(* core/contract: what Deploy and Call do to the ledger.                    *)

\* The gas a sender can afford beyond the base gas; a contract needs some.
ContractGasLimit(S, k) == (S.bal[Main(k)] \div S.baseFee) - 1

\* Mutant of HostTransfer: the contract's balance is not debited.
HostCredit(S, c, t) == CreditTx(S, t.pays, t.amount)

\* The host function transfer: a refused transfer is no error.
HostTransfer(S, c, t) ==
  IF t.amount = 0 \/ MoveTx(S, c, t.pays, t.amount) = {} THEN {S}
  ELSE MoveTx(S, c, t.pays, t.amount)

\* Value first, then the code of contract c.
RunContract(S, c, t) ==
  IF t.outcome # "ok" THEN {}
  ELSE UNION {HostTransfer(s, c, t) : s \in MoveTx(S, Main(t.sender), c, t.value)}

Deploy(S, t) ==
  LET c == ContractAddr(t.sender, t.nonce)
  IN  IF c \in S.contracts THEN {}
      ELSE {[s EXCEPT !.contracts = @ \cup {c}] : s \in RunContract(S, c, t)}

\* An unknown selector is found before the value moves, and is no error.
Call(S, t) ==
  IF t.to \notin S.contracts THEN {}
  ELSE IF t.outcome = "nofunc" THEN {S} ELSE RunContract(S, t.to, t)

-----------------------------------------------------------------------------
(* core/statemachine: one transaction.                                      *)

SkipProposer(vs, h, r) == vs[((Seed(h) + r) % Len(vs)) + 1]

MissEvidenceOK(S, t) ==
  LET vs == Validators(S)
      h == S.height + 1
  IN  /\ t.value = 0 /\ t.wellFormed
      /\ vs # <<>>
      /\ t.target = SkipProposer(vs, h, t.skip)
      /\ t.sender = SkipProposer(vs, h, t.skip + 1)

\* The checks ApplyBlockForChain makes of all the miss evidence of a block
\* before it opens the write transaction.
MissesOK(S, b) ==
  /\ \A j \in DOMAIN b : b[j].type = "miss" => MissEvidenceOK(S, b[j])
  /\ \A j, k \in DOMAIN b :
       (/\ b[j].type = "miss" /\ b[k].type = "miss"
        /\ b[j].skip = b[k].skip /\ b[j].target = b[k].target) => j = k

Precheck(t) ==
  CASE t.type = "bond" -> t.value > 0 /\ t.wellFormed
    [] t.type \in {"unbond", "finalize", "claim", "equivocation"}
         -> t.value = 0 /\ t.wellFormed
    [] OTHER -> TRUE

\* A transaction whose nonce is the sender's next one; S has it consumed.
Execute(S, t) ==
  LET k == t.sender
      h == S.height + 1
  IN  CASE t.type = "transfer"     -> MoveTx(S, Main(k), t.to, t.value)
        [] t.type = "miss"         -> {S}
        [] t.type = "deploy"       -> IF ContractGasLimit(S, k) < 1 THEN {} ELSE Deploy(S, t)
        [] t.type = "call"         -> IF ContractGasLimit(S, k) < 1 THEN {} ELSE Call(S, t)
        [] t.type = "bond"         -> BondTx(S, k, t.value)
        [] t.type = "unbond"       -> UnbondTx(S, k, h)
        [] t.type = "finalize"     -> FinalizeTx(S, k, h)
        [] t.type = "claim"        -> ClaimTx(S, k)
        [] t.type = "equivocation" -> SlashTx(S, t.target)

\* A sequence fault skips the transaction; any other error fails the block.
Apply(S, t) ==
  IF ~Precheck(t) THEN {}
  ELSE IF SequenceFault(S, t) THEN {S}
  ELSE Execute(AdvanceNonceTx(S, t), t)

\* The entry of txFuels: a skipped transaction and an unknown selector have none.
FuelGas(S, t) ==
  IF t.type \in {"deploy", "call"} /\ ~SequenceFault(S, t) /\ t.outcome = "ok"
  THEN t.fuelGas ELSE 0

\* What equivocation evidence burns.
Slashed(S, t) ==
  IF t.type = "equivocation" /\ ~SequenceFault(S, t)
  THEN BondOf(S, t.target) ELSE 0

-----------------------------------------------------------------------------
(* core/statemachine: one block.                                            *)

\* ApplyBlockForChain up to the opening of the write transaction.
Begin ==
  /\ step = "idle"
  /\ db.height < MaxHeight
  /\ \E n \in 0 .. MaxTxs : \E b \in [1 .. n -> TxSet] :
       MissesOK(db, b) /\ txs' = b
  /\ w' = db
  /\ step' = "txs"
  /\ i' = 1
  /\ fuels' = <<>>
  /\ totalGas' = 0
  /\ totalSlashed' = 0
  /\ UNCHANGED db

\* The loop over the transactions.  The code of a contract stops at the gas
\* limit, so more fuel than that is a trap.
ApplyTx ==
  LET t == txs[i]
  IN  /\ step = "txs"
      /\ i <= Len(txs)
      /\ FuelGas(w, t) > 0 => t.fuelGas <= ContractGasLimit(w, t.sender)
      /\ \E s \in Apply(w, t) : w' = s
      /\ fuels' = Append(fuels, FuelGas(w, t))
      /\ totalSlashed' = totalSlashed + Slashed(w, t)
      /\ i' = i + 1
      /\ UNCHANGED <<db, txs, step, totalGas>>

\* The loop that burns the fees; skipped transactions pay the base gas too.
ChargeGas ==
  LET gas == 1 + fuels[i]
  IN  /\ step = "gas"
      /\ i <= Len(txs)
      /\ \E s \in BurnTx(w, Main(txs[i].sender), db.baseFee * gas) : w' = s
      /\ totalGas' = totalGas + gas
      /\ i' = i + 1
      /\ UNCHANGED <<db, txs, step, fuels, totalSlashed>>

\* The loop over the miss evidence, whether or not its nonce was accepted.
RecordMiss ==
  LET t == txs[i]
  IN  /\ step = "misses"
      /\ i <= Len(txs)
      /\ IF t.type = "miss"
         THEN /\ \E s \in RecordMissTx(w, t.target) : w' = s
              /\ totalSlashed' = totalSlashed + BondOf(w, t.target) - BondOf(w', t.target)
         ELSE UNCHANGED <<w, totalSlashed>>
      /\ i' = i + 1
      /\ UNCHANGED <<db, txs, step, fuels, totalGas>>

\* The loop that credits the validators of the parent state.
MintShare ==
  LET vs == Validators(db)
  IN  /\ step = "mint"
      /\ i <= Len(vs)
      /\ \E s \in CreditTx(w, FeeAccount(vs[i]),
                           SplitReward(MintAmount(db), Len(vs), i)) : w' = s
      /\ i' = i + 1
      /\ UNCHANGED <<db, txs, step, fuels, totalGas, totalSlashed>>

NextLoop ==
  /\ \/ step = "txs" /\ i > Len(txs) /\ step' = "gas"
     \/ step = "gas" /\ i > Len(txs) /\ step' = "misses"
     \/ step = "misses" /\ i > Len(txs) /\ step' = "mint"
  /\ i' = 1
  /\ UNCHANGED <<db, w, txs, fuels, totalGas, totalSlashed>>

\* The end of the write transaction: its local variables are gone.
Finish ==
  /\ w' = db'
  /\ step' = "idle"
  /\ txs' = <<>>
  /\ i' = 1
  /\ fuels' = <<>>
  /\ totalGas' = 0
  /\ totalSlashed' = 0

\* The meta keys, and the commit of the write transaction.
Commit ==
  LET supply == db.supply - db.baseFee * totalGas - totalSlashed + MintAmount(db)
  IN  /\ step = "mint"
      /\ i > Len(Validators(db))
      /\ supply \in Nat
      /\ db' = [w EXCEPT !.height = @ + 1, !.supply = supply,
                         !.baseFee = BaseFee(db.baseFee, totalGas)]
      /\ Finish

\* An error, or the end of the process: the write transaction leaves no trace.
Rollback ==
  /\ step # "idle"
  /\ UNCHANGED db
  /\ Finish

\* genesis.Apply on an empty database.
Genesis ==
  [bal |-> [a \in Account |->
              CASE a[1] = "main"   -> GenesisBalance[a[2]] - GenesisBond[a[2]]
                [] a[1] = "escrow" -> GenesisBond[a[2]]
                [] OTHER           -> 0],
   nonce |-> [k \in Key |-> 0],
   rec |-> [k \in Key |->
              IF GenesisBond[k] = 0 THEN {}
              ELSE {[state |-> "bonded", amount |-> GenesisBond[k],
                     unbondingAt |-> 0, missCount |-> 0]}],
   contracts |-> {},
   height |-> 0,
   baseFee |-> MinBaseFee,
   supply |-> SumFunction(GenesisBalance),
   paidToSelf |-> 0,
   executed |-> [k \in Key |-> <<>>]]

Init ==
  /\ db = Genesis
  /\ w = Genesis
  /\ txs = <<>>
  /\ step = "idle"
  /\ i = 1
  /\ fuels = <<>>
  /\ totalGas = 0
  /\ totalSlashed = 0

Next == Begin \/ ApplyTx \/ ChargeGas \/ RecordMiss \/ MintShare
          \/ NextLoop \/ Commit \/ Rollback

Spec == Init /\ [][Next]_vars

-----------------------------------------------------------------------------
(* Properties.                                                              *)

\* At every point of a block, the escrow of every key holds at least what its
\* record says is bonded or unbonding, whatever was slashed, released, bonded
\* again or sent to the escrow in between: no release or slash of a bond can
\* fail the block for lack of funds.  A key has at most one record, and the
\* database and the open write transaction are well formed: balances and bonds
\* within uint256, miss counters below the threshold (RecordMissTx,
\* FinalizeUnbondTx, SlashTx).
EscrowBacked ==
  /\ {db, w} \subseteq State
  /\ \A k \in Key : \A S \in {db, w} : \A r \in S.rec[k] :
       /\ S.rec[k] = {r}
       /\ S.bal[EscrowAccount(k)] >= r.amount

\* The recorded total supply is the sum of all balances, less what accounts
\* paid to themselves: fees, slashes, minted shares and their remainders,
\* bonds and contract transfers all balance.
SupplyTracked == SumFunction(db.bal) = db.supply + db.paidToSelf

\* The transactions of a key take effect in nonce order, without a gap, each
\* once, over all blocks, rollbacks and skipped transactions.
NoncesSequential ==
  \A k \in Key : db.executed[k] = [n \in 1 .. db.nonce[k] |-> n]

\* A record disappears only in a block with equivocation evidence against its
\* key, or when the key began to unbond at least UnbondingBlocks blocks ago.
BondLockedUp ==
  [][\A k \in Key : \A r \in db.rec[k] : db'.rec[k] = {} =>
       \/ \E j \in DOMAIN txs : txs[j].type = "equivocation" /\ txs[j].target = k
       \/ r.state = "unbonding" /\ db'.height >= r.unbondingAt + UnbondingBlocks]_vars
=============================================================================

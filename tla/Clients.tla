------------------------------- MODULE Clients -------------------------------
(***************************************************************************)
(* What the clients of a node make of a user's request: amounts in FRG or  *)
(* in quanta (core/denom), the operations of the wallet library            *)
(* (wallet/wallet.go), the handlers of the web wallet (cmd/frg-wallet),    *)
(* the commands of frg-cli and the tools of the MCP server (cmd/frg-mcp)   *)
(* with its spending policy.                                               *)
(*                                                                         *)
(* A request is a record [via, op, key, to, frg, quanta, wasm, data, func, *)
(* height, ...]; a field that is not given is {}.  What a client makes of  *)
(* it is a draft, a transaction without its nonce; none when the client    *)
(* refuses the request by itself.                                          *)
(***************************************************************************)
EXTENDS Decimal

CONSTANTS Decimals,          \* 18
          PubKeys,           \* the texts that are keys of 32 bytes
          Policy             \* the MCP server's policy file

ASSUME DecimalsPositive == Decimals \in Nat \ {0}

\* parsePolicyAmount: a negative amount is refused with the policy file.
ASSUME PolicyAmounts == Policy.max \in Nat /\ Policy.daily \in Nat

-----------------------------------------------------------------------------
(* core/denom.  The text of an amount has a sign, digits before and after  *)
(* the point, and a number of points; NotDigit is any other character.     *)

NotDigit == 10

Text(whole, dots, frac) == [sign |-> "", whole |-> whole, dots |-> dots, frac |-> frac]

DigitsOnly(s) == \A i \in DOMAIN s : s[i] \in 0 .. 9

QuantaPerFRG == Tens[Decimals]

\* Mutant of ParseFRG: the fraction is not padded.
ParseFRGUnpadded(x) ==
  IF \/ x.sign = "-" \/ x.dots > 1 \/ Len(x.frac) > Decimals
     \/ x.whole \o x.frac = <<>>
     \/ ~DigitsOnly(x.whole \o x.frac)
  THEN {} ELSE {Number(x.whole) * QuantaPerFRG + Number(x.frac)}

\* The fraction is padded to its full length.
ParseFRG(x) ==
  IF \/ x.sign = "-" \/ x.dots > 1 \/ Len(x.frac) > Decimals
     \/ x.whole \o x.frac = <<>>
     \/ ~DigitsOnly(x.whole \o x.frac)
  THEN {} ELSE {Number(x.whole) * QuantaPerFRG + Number(x.frac \o Zeros(Decimals - Len(x.frac)))}

ParseQuanta(x) ==
  IF x.dots > 0 \/ x.whole = <<>> \/ ~DigitsOnly(x.whole) THEN {}
  ELSE {n \in {IF x.sign = "-" THEN -Number(x.whole) ELSE Number(x.whole)} : n >= 0}

\* The fraction has its leading zeros and no trailing ones.
FormatFRG(n) ==
  LET whole == DigitsOf[n \div QuantaPerFRG]
      frac == DigitsOf[n % QuantaPerFRG]
  IN  IF n % QuantaPerFRG = 0 THEN Text(whole, 0, <<>>)
      ELSE Text(whole, 1, TrimRight(Zeros(Decimals - Len(frac)) \o frac))

\* One of the two fields; none is 0 where an amount is optional.
ParseAmountFields(q, positive) ==
  IF q.frg # {} /\ q.quanta # {} THEN {}
  ELSE IF q.frg = {} /\ q.quanta = {} THEN {0} \ (IF positive THEN {0} ELSE {})
  ELSE {a \in UNION ({ParseQuanta(x) : x \in q.quanta} \cup {ParseFRG(x) : x \in q.frg}) :
          positive => a > 0}

-----------------------------------------------------------------------------
(* The operations of the wallet library.  A bond and the like go to the    *)
(* sender itself, a deployment to nobody; only some carry a value.         *)

Draft(op, key, to, value) == [op |-> op, key |-> key, to |-> to, value |-> value]

Transfer(key, to, a) == IF a <= 0 THEN {} ELSE {Draft("transfer", key, to, a)}

Bond(key, a) == IF a <= 0 THEN {} ELSE {Draft("bond", key, key, a)}

Unbond(key) == {Draft("unbond", key, key, 0)}

FinalizeUnbond(key) == {Draft("finalize", key, key, 0)}

ClaimRewards(key) == {Draft("claim", key, key, 0)}

SubmitMissedDeadlineReport(key, missed) == {Draft("miss", key, missed, 0)}

DeployContract(key, wasm, a) ==
  IF wasm = {} \/ a < 0 THEN {} ELSE {Draft("deploy", key, "nobody", a)}

CallContract(key, c, data, a) ==
  IF a < 0 THEN {} ELSE {Draft("call", key, c, a) : d \in data}

-----------------------------------------------------------------------------
(* The handlers of the web wallet, whose key is q.key.                     *)

DecodePubKey(text) == {text} \cap PubKeys

\* Function name or call data, "call" if neither; func is four characters, or
\* bad.
ContractCallData(q) ==
  IF q.data # {} /\ q.func # {} THEN {}
  ELSE IF q.data # {} THEN q.data \ {"bad"}
  ELSE IF q.func = {} THEN {"call"} ELSE q.func \ {"bad"}

HandleTransfer(q) ==
  IF DecodePubKey(q.to) = {} THEN {}
  ELSE UNION {Transfer(q.key, q.to, a) : a \in ParseAmountFields(q, TRUE)}

HandleBond(q) == UNION {Bond(q.key, a) : a \in ParseAmountFields(q, TRUE)}

HandleUnbond(q) == Unbond(q.key)

HandleFinalizeUnbond(q) == FinalizeUnbond(q.key)

HandleClaimRewards(q) == ClaimRewards(q.key)

HandleMissedDeadlineReport(q) ==
  IF q.height = 0 THEN {}
  ELSE UNION {SubmitMissedDeadlineReport(q.key, p) : p \in DecodePubKey(q.to)}

HandleContractDeploy(q) ==
  UNION {DeployContract(q.key, q.wasm \ {"bad"}, a) : a \in ParseAmountFields(q, FALSE)}

HandleContractCall(q) ==
  IF DecodePubKey(q.to) = {} THEN {}
  ELSE UNION {CallContract(q.key, q.to, ContractCallData(q), a) : a \in ParseAmountFields(q, FALSE)}

WalletOps == {"transfer", "bond", "unbond", "finalize", "claim", "miss", "deploy", "call"}

WalletDraft(q) ==
  CASE q.op = "transfer" -> HandleTransfer(q)
    [] q.op = "bond"     -> HandleBond(q)
    [] q.op = "unbond"   -> HandleUnbond(q)
    [] q.op = "finalize" -> HandleFinalizeUnbond(q)
    [] q.op = "claim"    -> HandleClaimRewards(q)
    [] q.op = "miss"     -> HandleMissedDeadlineReport(q)
    [] q.op = "deploy"   -> HandleContractDeploy(q)
    [] q.op = "call"     -> HandleContractCall(q)

-----------------------------------------------------------------------------
(* frg-cli does by itself what the library does.  prepare signs with nonce *)
(* 0, for the receiver to countersign and for anyone to submit.            *)

ParseCLIAmount(q) ==
  IF (q.frg = {}) = (q.quanta = {}) THEN {}
  ELSE {a \in UNION ({ParseQuanta(x) : x \in q.quanta} \cup {ParseFRG(x) : x \in q.frg}) : a > 0}

SendCmd(q) ==
  {Draft("transfer", q.key, to, a) : to \in DecodePubKey(q.to), a \in ParseCLIAmount(q)}

BondCmd(q) == {Draft("bond", q.key, q.key, a) : a \in ParseCLIAmount(q)}

ProtocolZeroValueCmd(q) == {Draft(q.op, q.key, q.key, 0)}

PrepareCmd(q) ==
  {Draft("transfer", q.key, to, a) : to \in DecodePubKey(q.to), a \in ParseCLIAmount(q)}

CliDraft(q) ==
  CASE q.op = "send"    -> SendCmd(q)
    [] q.op = "bond"    -> BondCmd(q)
    [] q.op = "prepare" -> PrepareCmd(q)
    [] OTHER            -> ProtocolZeroValueCmd(q)

\* The receiver's signature is not part of what the model keeps of a
\* transaction: nothing verifies it.
CountersignCmd(t, key) == IF t.to # key THEN {} ELSE {t}

-----------------------------------------------------------------------------
(* The tools of the MCP server.  The policy is [submit, bond, deploy, max, *)
(* daily, recipients, contracts], where 0 is an amount not set and {} a    *)
(* list not set; spent is what the server has recorded since it started.   *)

\* Mutant of AllowSpend: each spend on its own is within the limit.
AllowSpendEach(spent, action, target, amount, bond, deploy) ==
  /\ Policy.submit
  /\ bond => Policy.bond
  /\ deploy => Policy.deploy
  /\ amount > 0 => Policy.max > 0 /\ Policy.daily > 0
  /\ Policy.max > 0 => amount <= Policy.max
  /\ Policy.daily > 0 => amount <= Policy.daily
  /\ action = "transfer" /\ Policy.recipients # {} => target \in Policy.recipients
  /\ action = "contract_call" /\ Policy.contracts # {} => target \in Policy.contracts

AllowSpend(spent, action, target, amount, bond, deploy) ==
  /\ Policy.submit
  /\ bond => Policy.bond
  /\ deploy => Policy.deploy
  /\ amount > 0 => Policy.max > 0 /\ Policy.daily > 0
  /\ Policy.max > 0 => amount <= Policy.max
  /\ Policy.daily > 0 => spent + amount <= Policy.daily
  /\ action = "transfer" /\ Policy.recipients # {} => target \in Policy.recipients
  /\ action = "contract_call" /\ Policy.contracts # {} => target \in Policy.contracts

McpTransfer(q, spent) ==
  IF DecodePubKey(q.to) = {} THEN {}
  ELSE UNION {Transfer(q.key, q.to, a) :
                a \in {x \in ParseAmountFields(q, TRUE) :
                         AllowSpend(spent, "transfer", q.to, x, FALSE, FALSE)}}

McpBond(q, spent) ==
  UNION {Bond(q.key, a) : a \in {x \in ParseAmountFields(q, TRUE) :
                                   AllowSpend(spent, "bond", "", x, TRUE, FALSE)}}

McpUnbond(q, spent) ==
  IF AllowSpend(spent, "unbond", "", 0, TRUE, FALSE) THEN Unbond(q.key) ELSE {}

McpFinalizeUnbond(q, spent) ==
  IF AllowSpend(spent, "finalize_unbond", "", 0, TRUE, FALSE) THEN FinalizeUnbond(q.key) ELSE {}

McpClaimRewards(q, spent) ==
  IF AllowSpend(spent, "claim_rewards", "", 0, FALSE, FALSE) THEN ClaimRewards(q.key) ELSE {}

McpContractDeploy(q, spent) ==
  UNION {DeployContract(q.key, q.wasm \ {"bad"}, a) :
           a \in {x \in ParseAmountFields(q, FALSE) :
                    AllowSpend(spent, "contract_deploy", "", x, FALSE, TRUE)}}

McpContractCall(q, spent) ==
  IF DecodePubKey(q.to) = {} THEN {}
  ELSE UNION {CallContract(q.key, q.to, ContractCallData(q), a) :
                a \in {x \in ParseAmountFields(q, FALSE) :
                         AllowSpend(spent, "contract_call", q.to, x, FALSE, FALSE)}}

WorkActionSelector(action) ==
  LET selectors == [post |-> "post", accept |-> "acpt", submit |-> "subm", approve |-> "aprv",
                    reject |-> "rejc", claim |-> "clai", cancel |-> "cncl"]
  IN  {selectors[a] : a \in {action} \cap DOMAIN selectors}

\* The payload is hexadecimal, or bad, or none.
WorkActionCalldata(q) ==
  IF "bad" \in q.data THEN {}
  ELSE LET selectors == UNION {WorkActionSelector(a) : a \in q.func}
       IN  IF q.data = {} THEN {<<f>> : f \in selectors} ELSE {<<f, d>> : f \in selectors, d \in q.data}

McpWorkAction(q, spent) ==
  IF DecodePubKey(q.to) = {} THEN {}
  ELSE UNION {CallContract(q.key, q.to, WorkActionCalldata(q), a) :
                a \in {x \in ParseAmountFields(q, FALSE) :
                         AllowSpend(spent, "contract_call", q.to, x, FALSE, FALSE)}}

McpOps == {"transfer", "bond", "unbond", "finalize", "claim", "deploy", "call", "work"}

\* What takes an amount, by client.
AmountOps(via) ==
  CASE via = "wallet" -> {"transfer", "bond", "deploy", "call"}
    [] via = "cli"    -> {"send", "bond", "prepare"}
    [] via = "mcp"    -> {"transfer", "bond", "deploy", "call", "work"}
    [] OTHER          -> {}

CallTool(q, spent) ==
  CASE q.op = "transfer" -> McpTransfer(q, spent)
    [] q.op = "bond"     -> McpBond(q, spent)
    [] q.op = "unbond"   -> McpUnbond(q, spent)
    [] q.op = "finalize" -> McpFinalizeUnbond(q, spent)
    [] q.op = "claim"    -> McpClaimRewards(q, spent)
    [] q.op = "deploy"   -> McpContractDeploy(q, spent)
    [] q.op = "call"     -> McpContractCall(q, spent)
    [] q.op = "work"     -> McpWorkAction(q, spent)
=============================================================================

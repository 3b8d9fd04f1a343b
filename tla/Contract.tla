------------------------------ MODULE Contract ------------------------------
(***************************************************************************)
(* Contract execution: core/contract's host functions, fuel, state store    *)
(* and its stored form, and Deploy and Call over the ledger.                *)
(*                                                                          *)
(* A module (WASM bytes) is a function from the names it exports to         *)
(* programs.  A program is a sequence of host calls and stretches of plain  *)
(* instructions, so it does the same on every node.  Bytes are small        *)
(* numbers.  As in RGTree, an operation that may fail yields a set.         *)
(***************************************************************************)
EXTENDS Integers, Sequences, SequencesExt, FiniteSetsExt, Functions

CONSTANTS
  FieldBits,        \* width of the length fields of stored state: 16
  WordBits,         \* width of the two words of a host transfer: 64
  MaxKeyLen,        \* maxStateKeyLen
  FuelUnitsPerGas,
  MaxFuel,          \* the fuel of a run without a gas limit
  MaxUint64,
  SelectorLen,      \* bytes of call data that name a function: 4
  Exports,          \* Exports[m]: the programs a module exports, by name
  HostFuel          \* the cost of each kind of host call, and of a byte

HostKind == {"read", "write", "balance", "context", "log", "transfer",
             "pairing", "pair", "byte"}

ASSUME ContractParameters ==
  /\ {FieldBits, WordBits, MaxKeyLen, FuelUnitsPerGas, MaxUint64, SelectorLen} \subseteq Nat \ {0}
  /\ MaxFuel \in 0 .. MaxUint64
  /\ HostFuel \in [HostKind -> Nat]

-----------------------------------------------------------------------------
(* The state store: a function from keys to values, both byte strings.      *)

NewStateStore == [k \in {} |-> <<>>]

KeyOK(k) == Len(k) \in 1 .. MaxKeyLen

\* An empty value removes the key.
StateSet(st, k, v) ==
  IF ~KeyOK(k) \/ Len(v) > 2^FieldBits THEN {}
  ELSE IF v = <<>> THEN {Restrict(st, DOMAIN st \ {k})}
  ELSE {[j \in DOMAIN st \cup {k} |-> IF j = k THEN v ELSE st[j]]}

\* The order of sort.Strings.
LexLess(x, y) ==
  \E n \in 0 .. Len(x) :
    /\ n <= Len(y) /\ SubSeq(x, 1, n) = SubSeq(y, 1, n)
    /\ \/ n = Len(x) /\ n < Len(y)
       \/ n < Len(x) /\ n < Len(y) /\ x[n + 1] < y[n + 1]

SortedKeys(st) == SetToSortSeq(DOMAIN st, LexLess)

\* What StateRoot hashes: keys and values one after the other.
StateRoot(st) ==
  LET keys == SortedKeys(st)
  IN  <<"CONTRACT_STATE">> \o FlattenSeq([o \in DOMAIN keys |-> keys[o] \o st[keys[o]]])

\* The count and the value lengths are cut to the width of their fields.
SerializeState(st) ==
  <<Cardinality(DOMAIN st) % 2^FieldBits>> \o
  FlattenSeq([o \in DOMAIN SortedKeys(st) |->
    LET k == SortedKeys(st)[o]
    IN  <<Len(k)>> \o k \o <<Len(st[k]) % 2^FieldBits>> \o st[k]])

\* The entry that begins at position p of the bytes, if there is a whole one.
EntryAt(raw, p) ==
  LET kl == raw[p]
      vl == raw[p + kl + 1]
  IN  IF p <= Len(raw) /\ kl \in 1 .. MaxKeyLen /\ p + kl + 1 <= Len(raw)
         /\ p + kl + 1 + vl <= Len(raw)
      THEN {[key |-> SubSeq(raw, p + 1, p + kl),
             val |-> SubSeq(raw, p + kl + 2, p + kl + 1 + vl),
             next |-> p + kl + 2 + vl]}
      ELSE {}

\* Reads as many entries as the count says, and stops at the first that is
\* not whole; a later entry for a key replaces an earlier one.
DeserializeState(raw) ==
  LET read[n \in 0 .. raw[1]] ==
        IF n = 0 THEN [st |-> NewStateStore, at |-> {2}]
        ELSE LET before == read[n - 1]
                 es == UNION {EntryAt(raw, p) : p \in before.at}
             IN  IF es = {} THEN [before EXCEPT !.at = {}]
                 ELSE LET e == CHOOSE x \in es : TRUE
                      IN  [st |-> [j \in DOMAIN before.st \cup {e.key} |->
                                     IF j = e.key THEN e.val ELSE before.st[j]],
                           at |-> {e.next}]
  IN  IF raw = <<>> THEN NewStateStore ELSE read[raw[1]].st

-----------------------------------------------------------------------------
(* core/ledger, as the host functions use it.                               *)

Main(k) == <<"main", k, 0>>

ContractAddr(k, n) == <<"contract", k, n>>

\* Both balances are read before either is written.
Move(bal, from, to, v) ==
  IF bal[from] < v THEN {}
  ELSE LET credited == bal[to] + v
       IN  {[[bal EXCEPT ![from] = @ - v] EXCEPT ![to] = credited]}

-----------------------------------------------------------------------------
(* The runtime.  A run R has the fuel left, whether a host function has     *)
(* failed, whether the code has trapped, the state store and the balances.  *)

FuelCap(gasLimit) ==
  IF gasLimit = 0 THEN MaxFuel ELSE Min({gasLimit * FuelUnitsPerGas, MaxUint64})

\* Mutant of ChargeFuel: the call goes on with what is left.
ChargeWhatIsLeft(R, cost) == [R EXCEPT !.fuel = Max({0, @ - cost})]

\* Too little fuel takes what is left and leaves an error behind; the code
\* goes on running.
ChargeFuel(R, cost) ==
  IF R.fuel < cost THEN [R EXCEPT !.fuel = 0, !.hostErr = TRUE]
  ELSE [R EXCEPT !.fuel = @ - cost]

\* What the two signed words of an amount stand for once joined with Or: a
\* word with its top bit set makes the whole negative.
TransferAmount(a) ==
  IF \/ a % 2^WordBits >= 2^(WordBits - 1)
     \/ a \div 2^WordBits >= 2^(WordBits - 1)
  THEN -1 ELSE a

CallCost(op) ==
  CASE op.op = "get"      -> HostFuel["read"] + Len(op.key) * HostFuel["byte"]
    [] op.op = "set"      -> HostFuel["write"] + (Len(op.key) + Len(op.val)) * HostFuel["byte"]
    [] op.op = "pairing"  -> HostFuel["pairing"] + op.pairs * HostFuel["pair"]
    [] op.op \in {"transfer", "balance", "context", "log"} ->
         HostFuel[op.op] + op.len * HostFuel["byte"]

\* The bytes state_get copies out are paid for after the value is found.
StateGet(R, op) ==
  IF op.key \notin DOMAIN R.st THEN R
  ELSE ChargeFuel(R, Min({Len(R.st[op.key]), op.outLen}) * HostFuel["byte"])

\* What a host function does once it is paid for.  A bad key or value is an
\* error of the run; a refused transfer is only a return value.
HostAct(R, op, self) ==
  CASE op.op = "get" -> StateGet(R, op)
    [] op.op = "set" ->
         IF StateSet(R.st, op.key, op.val) = {} THEN [R EXCEPT !.hostErr = TRUE]
         ELSE [R EXCEPT !.st = CHOOSE s \in StateSet(R.st, op.key, op.val) : TRUE]
    [] op.op = "transfer" ->
         LET a == TransferAmount(op.amount)
         IN  IF a <= 0 \/ Move(R.bal, self, op.to, a) = {} THEN R
             ELSE [R EXCEPT !.bal = CHOOSE b \in Move(R.bal, self, op.to, a) : TRUE]
    [] OTHER -> R

\* Plain instructions trap when the fuel does not last.
RunStep(R, op, self) ==
  IF R.trapped THEN R
  ELSE IF op.op = "compute"
       THEN IF R.fuel < op.cost THEN [R EXCEPT !.fuel = 0, !.trapped = TRUE]
            ELSE [R EXCEPT !.fuel = @ - op.cost]
  ELSE IF R.fuel < CallCost(op) THEN ChargeFuel(R, CallCost(op))
  ELSE HostAct(ChargeFuel(R, CallCost(op)), op, self)

\* Runtime.Call and FuelConsumed: a trap or an error of a host function fails
\* the call.
RunProgram(program, st, bal, self, gasLimit) ==
  LET start == [fuel |-> FuelCap(gasLimit), hostErr |-> FALSE, trapped |-> FALSE,
                st |-> st, bal |-> bal]
      R == FoldLeft(LAMBDA r, op : RunStep(r, op, self), start, program)
  IN  IF R.trapped \/ R.hostErr THEN {}
      ELSE {[st |-> R.st, bal |-> R.bal, fuel |-> start.fuel - R.fuel]}

-----------------------------------------------------------------------------
(* Deploy and Call on S, which has the balances, the code and the stored    *)
(* state of every address.  live is the state store the run ends with.      *)

LoadState(S, c) == IF c \in DOMAIN S.state THEN DeserializeState(S.state[c]) ELSE NewStateStore

\* The state after a run is stored, and with it nothing of what went before.
SaveRun(S, c, run) ==
  [S EXCEPT !.bal = run.bal,
            !.state = [a \in DOMAIN @ \cup {c} |->
                         IF a = c THEN SerializeState(run.st) ELSE @[a]]]

Fund(bal, t, c) == IF t.value = 0 THEN {bal} ELSE Move(bal, Main(t.from), c, t.value)

InitFunc == <<"init">>

\* The function a call is for: the first bytes of its data.
FuncName(t) ==
  IF Len(t.call) >= SelectorLen THEN SubSeq(t.call, 1, SelectorLen) ELSE <<"call">>

DeployContract(S, t, c, gasLimit) ==
  IF c \in DOMAIN S.code \/ InitFunc \notin DOMAIN Exports[t.code] THEN {}
  ELSE UNION {{[S |-> [SaveRun(S, c, run) EXCEPT
                         !.code = [a \in DOMAIN @ \cup {c} |->
                                     IF a = c THEN t.code ELSE @[a]]],
                fuel |-> run.fuel, live |-> run.st] :
                 run \in RunProgram(Exports[t.code][InitFunc], LoadState(S, c), bal, c, gasLimit)} :
                bal \in Fund(S.bal, t, c)}

\* An unknown selector is no error: nothing moves, and no fuel is counted.
CallContract(S, t, gasLimit) ==
  IF t.to \notin DOMAIN S.code THEN {}
  ELSE IF FuncName(t) \notin DOMAIN Exports[S.code[t.to]]
       THEN {[S |-> S, fuel |-> -1, live |-> NewStateStore]}
  ELSE UNION {{[S |-> SaveRun(S, t.to, run), fuel |-> run.fuel, live |-> run.st] :
                 run \in RunProgram(Exports[S.code[t.to]][FuncName(t)], LoadState(S, t.to),
                                    bal, t.to, gasLimit)} :
                bal \in Fund(S.bal, t, t.to)}
=============================================================================

----------------------------- MODULE Submission ------------------------------
(***************************************************************************)
(* How a transaction gets from a client to the chain.  The clients are the *)
(* web wallet and frg-cli, the MCP server with its spending policy, the    *)
(* faucet with its rate limit (cmd/frg-faucet), and clients that submit    *)
(* ready-made transactions, of which frg-web is one.  What each makes of a *)
(* request is in Clients.  All of them call the node's gRPC server         *)
(* (cmd/frg-node/grpc_server.go), which authorizes, limits, verifies and   *)
(* gossips.                                                                *)
(*                                                                         *)
(* A call to the node is one step, and may be lost before or after the     *)
(* node acts on it; the chain and the other clients move between two calls *)
(* of one client.  ask[q] is the request q.  Besides what Clients reads,   *)
(* it has peer, the client's address at the node; role, the RPC role of    *)
(* its certificate ("none" without one); txs, what is ready-made; and      *)
(* fate, what the node will find: "ok", or a payload too "huge",           *)
(* "unsigned" for this chain, or "unpublished" because gossip fails        *)
(* (grpc-only mode).                                                       *)
(***************************************************************************)
EXTENDS SubmitLimiter, Clients

CONSTANTS Scenarios,                   \* what clients ask: requests by name
          Keys,
          RequireIdentity,             \* the node's listener demands a certificate
          MaxBatch,                    \* 1024 items of SubmitBatch
          MaxWebItems,                 \* maxWebBatchItems
          FaucetWindow,                \* 60 seconds, in ticks
          FaucetAmount,                \* defaultFaucetAmount
          MaxNow, MaxRestarts          \* bounds on the clock and on restarts

\* The text of an amount, or none.
GivenText(field) ==
  /\ \A x, y \in field : x = y
  /\ \A x \in field : x.whole \in Seq(0 .. NotDigit) /\ x.frac \in Seq(0 .. NotDigit)

\* Requests come from known addresses and keys, through the handlers, tools and
\* commands there are; an amount is given where there is a field for it.
ASSUME RequestsWellFormed ==
  \A s \in Scenarios :
    /\ IsFiniteSet(DOMAIN s)
    /\ \A q \in DOMAIN s :
         /\ s[q].peer \in Peers /\ s[q].key \in Keys
         /\ s[q].via = "wallet" => s[q].op \in WalletOps
         /\ s[q].via = "mcp" => s[q].op \in McpOps
         /\ s[q].frg # {} => s[q].op \in AmountOps(s[q].via)
         /\ GivenText(s[q].frg) /\ GivenText(s[q].quanta)
         /\ s[q].txs \in Seq([op : STRING, key : Keys, to : STRING, value : Nat, nonce : Nat])

ASSUME FaucetWindowNat == FaucetWindow \in Nat

ASSUME FaucetAmountNat == FaucetAmount \in Nat

VARIABLES nonce,                       \* committed nonce of each key
          flying,                      \* accepted by the node, not yet in a block
          executed, skipped, lost,     \* where accepted transactions ended up
          ask,                         \* the requests, by name; never changes
          req,                         \* per request: pc, draft, nonce read, answer
          lock,                        \* holder of the faucet's mutex, or {}
          last,                        \* the faucet's database: pubkey -> time
          spent,                       \* the MCP server's spentToday
          restarts                     \* history: restarts of each process

chainVars == <<nonce, flying, executed, skipped, lost>>
faucetVars == <<lock, last>>
vars == <<limiterVars, chainVars, ask, req, faucetVars, spent, restarts>>
mcpVars == <<spent, restarts>>

Requests == DOMAIN req

Via(v) == {q \in Requests : ask[q].via = v}

-----------------------------------------------------------------------------
\* What the node does with a call.

RoleAllows(actual, required) ==
  \/ actual \in {"admin", required}
  \/ required # "admin" /\ actual = "validator"

Authorize(role, required) ==
  IF role = "none" THEN ~RequireIdentity ELSE RoleAllows(role, required)

Refusal(n) == [ok |-> FALSE, count |-> n, txs |-> {}]

Acceptance(txs) == [ok |-> TRUE, count |-> Len(txs), txs |-> {txs[i] : i \in DOMAIN txs}]

\* What the handlers make of a call if the limiter lets it pass, and how many
\* transactions they ask it for, 0 when they refuse before asking.
\* SubmitTx: too large a payload is refused before the limiter counts it.
SubmitTx(q, txs) ==
  IF ~Authorize(ask[q].role, "submitter") \/ ask[q].fate = "huge" THEN Refusal(0)
  ELSE IF ask[q].fate = "ok" THEN Acceptance(txs) ELSE Refusal(1)

\* SubmitBatch: all or none; a bad item is found after the limiter counted.
SubmitBatchEach(q, txs) ==
  IF ~Authorize(ask[q].role, "submitter") \/ Len(txs) \notin 1 .. MaxBatch THEN Refusal(0)
  ELSE IF ask[q].fate = "ok" THEN Acceptance(txs)
       ELSE [Refusal(Len(txs)) EXCEPT !.txs = {Head(txs)}]

SubmitBatch(q, txs) ==
  IF ~Authorize(ask[q].role, "submitter") \/ Len(txs) \notin 1 .. MaxBatch THEN Refusal(0)
  ELSE IF ask[q].fate = "ok" THEN Acceptance(txs) ELSE Refusal(Len(txs))

Handle(q, txs) == IF ask[q].op = "batch" THEN SubmitBatch(q, txs) ELSE SubmitTx(q, txs)

\* A call that reaches the node; answer is what the node replies.
Served(q, txs, answer) ==
  LET h == Handle(q, txs)
  IN  /\ answer = (h.ok /\ Allowed(ask[q].peer, h.count))
      /\ IF h.count = 0 THEN UNCHANGED <<windows, granted>> ELSE Allow(ask[q].peer, h.count)
      /\ flying' = IF Allowed(ask[q].peer, h.count) THEN flying \cup h.txs ELSE flying

\* The client's view of a call: it is served and answered, served with the
\* answer lost, or never delivered.  A lost call is an error to the client.
SubmitCall(q, txs, answer) ==
  \/ Served(q, txs, answer)
  \/ ~answer /\ Served(q, txs, TRUE)
  \/ ~answer /\ UNCHANGED <<windows, granted, flying>>

-----------------------------------------------------------------------------
\* What the clients do.

Restart(process) ==
  /\ restarts["mcp"] + restarts["faucet"] + restarts["node"] < MaxRestarts
  /\ restarts' = [restarts EXCEPT ![process] = @ + 1]

Step(q, pc) == req' = [req EXCEPT ![q].pc = pc]

\* The signed transaction, with the nonce the client read; a ready-made one
\* has its own.
WithNonce(d, n) == [op |-> d.op, key |-> d.key, to |-> d.to, value |-> d.value, nonce |-> n]

Txs(q) ==
  IF req[q].draft = {} THEN ask[q].txs
  ELSE <<WithNonce(CHOOSE d \in req[q].draft : TRUE, req[q].nonce)>>

\* The client's call ends with an answer; sent is a history of what it sent.
Answered(q, pc) == req' = [req EXCEPT ![q].pc = pc, ![q].sent = Range(Txs(q))]

\* OwnAccount: the nonce is the committed one plus one, whatever is pending.
NonceAfterPending(k) == nonce[k] + 1 + Cardinality({t \in flying : t.key = k})

NextNonce(k) == nonce[k] + 1

\* GetAccount for the draft D; it fails, or the call is lost.
ReadNonce(q, D) ==
  \/ /\ Authorize(ask[q].role, "observer")
     /\ req' = [req EXCEPT ![q].pc = "read", ![q].draft = D,
                           ![q].nonce = NextNonce(ask[q].key)]
  \/ Step(q, "error")

\* A request to the web wallet, or a command of frg-cli: what is refused is
\* refused before the account is read.
WalletRead(q) ==
  /\ ask[q].via \in {"wallet", "cli"} /\ ask[q].op # "prepare" /\ req[q].pc = "idle"
  /\ LET D == IF ask[q].via = "wallet" THEN WalletDraft(ask[q]) ELSE CliDraft(ask[q])
     IN  IF D = {} THEN Step(q, "error") ELSE ReadNonce(q, D)
  /\ UNCHANGED <<limiterVars, chainVars, faucetVars, mcpVars, ask>>

\* signAndSubmit, and the last steps of a command.
SignAndSubmit(q) ==
  /\ ask[q].via \in {"wallet", "cli"} /\ req[q].pc = "read"
  /\ \E ok \in BOOLEAN : /\ SubmitCall(q, Txs(q), ok)
                         /\ Answered(q, IF ok THEN "ok" ELSE "error")
  /\ UNCHANGED <<now, nonce, executed, skipped, lost, faucetVars, mcpVars, ask>>

\* frg-cli prepare: no account is read, the nonce is 0.
CliPrepare(q) ==
  /\ ask[q].via = "cli" /\ ask[q].op = "prepare" /\ req[q].pc = "idle"
  /\ req' = IF CliDraft(ask[q]) = {} THEN [req EXCEPT ![q].pc = "error"]
            ELSE [req EXCEPT ![q].pc = "prepared", ![q].draft = CliDraft(ask[q])]
  /\ UNCHANGED <<limiterVars, chainVars, faucetVars, mcpVars, ask>>

\* frg-cli countersign, by whoever got the transaction.
CliCountersign(q, key) ==
  /\ req[q].pc = "prepared"
  /\ \A d \in req[q].draft : CountersignCmd(d, key) # {}
  /\ Step(q, "countersigned")
  /\ UNCHANGED <<limiterVars, chainVars, faucetVars, mcpVars, ask>>

\* frg-cli submit sends what it is given.
CliSubmit(q) ==
  /\ req[q].pc \in {"prepared", "countersigned"}
  /\ \E ok \in BOOLEAN : /\ SubmitCall(q, Txs(q), ok)
                         /\ Answered(q, IF ok THEN "ok" ELSE "error")
  /\ UNCHANGED <<now, nonce, executed, skipped, lost, faucetVars, mcpVars, ask>>

\* A ready-made transaction or batch; frg-web refuses what is not hexadecimal
\* and a batch that is too long by itself.
WebRefuses(q) ==
  ask[q].via = "web" /\ (Len(ask[q].txs) > MaxWebItems \/ ask[q].fate = "nohex")

RawSubmit(q) ==
  /\ ask[q].via \in {"raw", "web"} /\ req[q].pc = "idle"
  /\ IF WebRefuses(q) THEN Step(q, "error") /\ UNCHANGED <<windows, granted, flying>>
     ELSE \E ok \in BOOLEAN : /\ SubmitCall(q, Txs(q), ok)
                              /\ Answered(q, IF ok THEN "ok" ELSE "error")
  /\ UNCHANGED <<now, nonce, executed, skipped, lost, faucetVars, mcpVars, ask>>

\* The values of some transactions or drafts together.
Total(txs) == SumFunctionOnSet([t \in txs |-> t.value], txs)

\* The MCP server reads one message at a time and answers it before the next.
McpCall(q) ==
  /\ ask[q].via = "mcp" /\ req[q].pc = "idle"
  /\ \A r \in Via("mcp") : req[r].pc # "read"
  /\ LET D == CallTool(ask[q], spent)
     IN  IF D = {} THEN Step(q, "error") ELSE ReadNonce(q, D)
  /\ UNCHANGED <<limiterVars, chainVars, faucetVars, mcpVars, ask>>

\* The spend is recorded in memory, once the node has answered Ok.
RecordSpend(q) == spent' = spent + Total(req[q].draft)

McpSubmit(q) ==
  /\ ask[q].via = "mcp" /\ req[q].pc = "read"
  /\ \E ok \in BOOLEAN :
       /\ SubmitCall(q, Txs(q), ok)
       /\ Answered(q, IF ok THEN "ok" ELSE "error")
       /\ IF ok THEN RecordSpend(q) ELSE UNCHANGED spent
  /\ UNCHANGED <<now, nonce, executed, skipped, lost, faucetVars, restarts, ask>>

McpRestart ==
  /\ Restart("mcp") /\ spent' = 0
  /\ req' = [q \in Requests |-> IF ask[q].via = "mcp" /\ req[q].pc = "read"
                                THEN [req[q] EXCEPT !.pc = "error"] ELSE req[q]]
  /\ UNCHANGED <<limiterVars, chainVars, faucetVars, ask>>

-----------------------------------------------------------------------------
\* The faucet's handler.  The rate limit is read before the mutex is taken.
IsRateLimited(pubkey) == now - last[pubkey] < FaucetWindow

FaucetCheck(q) ==
  /\ ask[q].via = "faucet" /\ req[q].pc = "idle"
  /\ IF DecodePubKey(ask[q].to) = {} \/ IsRateLimited(ask[q].to) THEN Step(q, "error")
     ELSE req' = [req EXCEPT ![q].pc = "waiting", ![q].checked = now,
                             ![q].after = {r \in Via("faucet") : req[r].pc = "ok"}]
  /\ UNCHANGED <<limiterVars, chainVars, faucetVars, mcpVars, ask>>

\* mu.Lock and getNonce; an error releases the mutex on return.
FaucetNonce(q) ==
  /\ ask[q].via = "faucet" /\ req[q].pc = "waiting" /\ lock = {}
  /\ ReadNonce(q, {Draft("transfer", ask[q].key, ask[q].to, FaucetAmount)})
  /\ lock' = IF req'[q].pc = "read" THEN {q} ELSE {}
  /\ UNCHANGED <<limiterVars, chainVars, last, mcpVars, ask>>

FaucetSubmitLocked(q) ==
  /\ ask[q].via = "faucet" /\ req[q].pc = "read"
  /\ \E ok \in BOOLEAN : /\ SubmitCall(q, Txs(q), ok)
                         /\ Answered(q, IF ok THEN "sent" ELSE "error")
  /\ UNCHANGED <<now, nonce, executed, skipped, lost, lock, last, mcpVars, ask>>

FaucetSubmit(q) ==
  /\ ask[q].via = "faucet" /\ req[q].pc = "read"
  /\ \E ok \in BOOLEAN : /\ SubmitCall(q, Txs(q), ok)
                         /\ Answered(q, IF ok THEN "sent" ELSE "error")
                         /\ lock' = IF ok THEN lock ELSE {}
  /\ UNCHANGED <<now, nonce, executed, skipped, lost, last, mcpVars, ask>>

FaucetForgets(q) ==
  /\ ask[q].via = "faucet" /\ req[q].pc = "sent"
  /\ req' = [req EXCEPT ![q].pc = "ok", ![q].recorded = now]
  /\ lock' = {}
  /\ UNCHANGED <<limiterVars, chainVars, last, mcpVars, ask>>

\* recordRequest, the reply, and the mutex released on return.
FaucetRecord(q) ==
  /\ ask[q].via = "faucet" /\ req[q].pc = "sent"
  /\ last' = [last EXCEPT ![ask[q].to] = now]
  /\ req' = [req EXCEPT ![q].pc = "ok", ![q].recorded = now]
  /\ lock' = {}
  /\ UNCHANGED <<limiterVars, chainVars, mcpVars, ask>>

\* The process dies with its requests; its database stays.
FaucetCrash ==
  /\ Restart("faucet")
  /\ \E q \in Via("faucet") : req[q].pc \in {"waiting", "read", "sent"}
  /\ req' = [q \in Requests |->
               IF ask[q].via = "faucet" /\ req[q].pc \in {"waiting", "read", "sent"}
               THEN [req[q] EXCEPT !.pc = "error"] ELSE req[q]]
  /\ lock' = {}
  /\ UNCHANGED <<limiterVars, chainVars, last, spent, ask>>

-----------------------------------------------------------------------------
\* The node and the network.

\* A block executes the transaction with the next nonce of its sender, and
\* passes over one with any other; both leave the pool.
Execute(t) ==
  /\ t.nonce = nonce[t.key] + 1
  /\ nonce' = [nonce EXCEPT ![t.key] = t.nonce]
  /\ executed' = executed \cup {t} /\ flying' = flying \ {t}
  /\ UNCHANGED <<limiterVars, skipped, lost, req, faucetVars, mcpVars, ask>>

Skip(t) ==
  /\ t.nonce # nonce[t.key] + 1
  /\ skipped' = skipped \cup {t} /\ flying' = flying \ {t}
  /\ UNCHANGED <<limiterVars, nonce, executed, lost, req, faucetVars, mcpVars, ask>>

\* A full channel, an eviction from the pool, a restart of those that hold it.
Lose(t) ==
  /\ lost' = lost \cup {t} /\ flying' = flying \ {t}
  /\ UNCHANGED <<limiterVars, nonce, executed, skipped, req, faucetVars, mcpVars, ask>>

NodeRestart ==
  /\ Restart("node") /\ DOMAIN windows # {} /\ Forget
  /\ UNCHANGED <<chainVars, req, faucetVars, spent, ask>>

Tick == now < MaxNow /\ Advance /\ UNCHANGED <<chainVars, ask, req, faucetVars, mcpVars>>

Init ==
  /\ now = FaucetWindow /\ windows = [p \in {} |-> NewWindow] /\ granted = {}
  /\ nonce = [k \in Keys |-> 0]
  /\ flying = {} /\ executed = {} /\ skipped = {} /\ lost = {}
  /\ \E s \in Scenarios :
       /\ ask = s
       /\ req = [q \in DOMAIN s |-> [pc |-> "idle", draft |-> {}, nonce |-> 0, sent |-> {},
                                     after |-> {}, checked |-> 0, recorded |-> 0]]
       /\ last = [p \in {s[q].to : q \in DOMAIN s} |-> 0]
  /\ lock = {}
  /\ spent = 0 /\ restarts = [p \in {"mcp", "faucet", "node"} |-> 0]

ClientStep(q) ==
  \/ WalletRead(q) \/ SignAndSubmit(q) \/ RawSubmit(q) \/ McpCall(q) \/ McpSubmit(q)
  \/ FaucetCheck(q) \/ FaucetNonce(q) \/ FaucetSubmit(q) \/ FaucetRecord(q)

Next ==
  \/ \E q \in Requests : ClientStep(q) \/ CliPrepare(q) \/ CliSubmit(q)
  \/ \E q \in Requests, k \in Keys : CliCountersign(q, k)
  \/ \E t \in flying : Execute(t) \/ Skip(t) \/ Lose(t)
  \/ McpRestart \/ FaucetCrash \/ NodeRestart \/ Tick

\* While handlers are in progress and not all of them blocked, one of them makes
\* a step: goroutines are scheduled, and every call returns, with an answer or
\* with an error.
InProgress == {q \in Requests : req[q].pc \in {"read", "waiting", "sent"}}

Fairness == WF_vars(\E q \in InProgress : ClientStep(q))

Spec == Init /\ [][Next]_vars /\ Fairness

-----------------------------------------------------------------------------
ReadsNonce(q) == ask[q].via \notin {"raw", "web"} /\ ask[q].op # "prepare"

\* A client that reads its nonce never leaves a gap: a transaction the node
\* acknowledged is in flight, lost by the network, executed, or was passed over
\* because another transaction of the same account used up its nonce, which is
\* how two calls between two blocks, or two payments of the faucet, end
\* (OwnAccount and signAndSubmit, wallet.go:139 and 339; getNonce,
\* frg-faucet/main.go:184).  It is never passed over for waiting.
NoGap ==
  \A q \in Requests : ReadsNonce(q) /\ req[q].pc \in {"ok", "sent"} =>
    \A t \in req[q].sent :
      \/ t \in flying \cup lost \cup executed
      \/ \E u \in executed : u.key = t.key /\ u.nonce = t.nonce

\* A batch is gossiped whole or not at all, whichever of its items is bad
\* (SubmitBatch, grpc_server.go:152-199).
BatchWhole ==
  \A q \in Requests : ask[q].op = "batch" =>
    LET taken == flying \cup executed \cup skipped \cup lost
    IN  req[q].sent \subseteq taken \/ req[q].sent \cap taken = {}

\* "1 request per 60s per pubkey" (frg-faucet/main.go:135): of two requests the
\* faucet granted for one key, the later was checked a full window after the
\* earlier was recorded, or before it was recorded at all; a crash between
\* submission and record is the only other way to be paid twice.
FaucetSpaced ==
  \A q, r \in Via("faucet") :
    q # r /\ ask[q].to = ask[r].to /\ req[q].pc = "ok" /\ req[r].pc = "ok" /\ r \in req[q].after
      => req[q].checked - req[r].recorded >= FaucetWindow

\* What the MCP server's key really spent on the chain stays within daily_limit
\* for each life of the server, but for submissions whose answer was lost:
\* those were never recorded, and may execute all the same (allowSpend and
\* recordSpend, frg-mcp/main.go:1136-1181).
McpBudget ==
  LET sent == UNION {req[q].sent : q \in Via("mcp")}
      unanswered == UNION {req[q].sent : q \in {r \in Via("mcp") : req[r].pc = "error"}}
  IN  Total(executed \cap sent) <= (restarts["mcp"] + 1) * Policy.daily + Total(unanswered)

\* What a client sends carries the amount the user wrote, to the last decimal,
\* and shown to the user it reads back as that amount (ParseFRG and FormatFRG,
\* denom.go:14-117, parseAmountFields and parseCLIAmount).
AmountAsWritten ==
  \A q \in Requests : \A t \in req[q].sent :
    /\ \A x \in ask[q].frg :
         t.value * Tens[Len(x.frac)] = Number(x.whole \o x.frac) * QuantaPerFRG
    /\ ParseFRG(FormatFRG(t.value)) = {t.value}

\* Every handler that started ends (the clients make finitely many requests, so
\* again and again none is in progress): the faucet's mutex is always released,
\* nobody waits for it for ever (handleFaucet, frg-faucet/main.go:114-182).
EveryRequestEnds == []<>(InProgress = {})
=============================================================================

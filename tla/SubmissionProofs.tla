-------------------------- MODULE SubmissionProofs ---------------------------
(***************************************************************************)
(* Proofs about submission, for any clients, requests, limits and clock:   *)
(* submission as a whole implements the specification of the limiter, the  *)
(* faucet spaces its payments, and clients that read their nonce leave no  *)
(* gap.  What the limiter promises is in AdmissionProofs.                  *)
(***************************************************************************)
EXTENDS Submission, TLAPS

-----------------------------------------------------------------------------
(* The requests: what a step changes of a request.                         *)

RequestShape(r) ==
  r = [pc |-> r.pc, draft |-> r.draft, nonce |-> r.nonce, sent |-> r.sent,
       after |-> r.after, checked |-> r.checked, recorded |-> r.recorded]

\* The requests stay the ones that were asked.
AskInv ==
  /\ ask \in Scenarios
  /\ DOMAIN req = DOMAIN ask
  /\ \A q \in DOMAIN ask : RequestShape(req[q])

\* The step leaves all requests but q alone.
OthersKept(q) ==
  /\ DOMAIN req' = DOMAIN req
  /\ \A r \in DOMAIN req \ {q} : req'[r] = req[r]

\* The history of request q for the faucet.
FaucetKept(q) ==
  /\ req'[q].after = req[q].after
  /\ req'[q].checked = req[q].checked /\ req'[q].recorded = req[q].recorded

\* A step of one request leaves the others as they are.
LEMMA StepOK ==
  ASSUME AskInv, NEW q \in Requests, NEW pc, Step(q, pc)
  PROVE  /\ OthersKept(q) /\ RequestShape(req'[q])
         /\ req'[q].pc = pc /\ FaucetKept(q)
         /\ req'[q].draft = req[q].draft /\ req'[q].nonce = req[q].nonce
         /\ req'[q].sent = req[q].sent
BY DEF AskInv, Requests, Step, OthersKept, FaucetKept, RequestShape

\* The same for a step that ends a request.
LEMMA AnsweredOK ==
  ASSUME AskInv, NEW q \in Requests, NEW pc, Answered(q, pc)
  PROVE  /\ OthersKept(q) /\ RequestShape(req'[q])
         /\ req'[q].pc = pc /\ req'[q].sent = Range(Txs(q)) /\ FaucetKept(q)
         /\ req'[q].draft = req[q].draft
<1>1. PICK S : S = Range(Txs(q))
  OBVIOUS
<1>2. req' = [req EXCEPT ![q].pc = pc, ![q].sent = S]
  BY <1>1 DEF Answered
<1>3. OthersKept(q) /\ req'[q] = [req[q] EXCEPT !.pc = pc, !.sent = S]
  BY <1>2 DEF OthersKept, Requests
<1>4. RequestShape(req[q])
  BY DEF AskInv, Requests
<1> QED
  BY Zenon, <1>1, <1>3, <1>4 DEF FaucetKept, RequestShape

\* Reading the account writes the request alone.
LEMMA ReadNonceOK ==
  ASSUME AskInv, NEW q \in Requests, NEW D, ReadNonce(q, D)
  PROVE  /\ OthersKept(q) /\ RequestShape(req'[q]) /\ FaucetKept(q)
         /\ req'[q].sent = req[q].sent
         /\ \/ req'[q].pc = "error" /\ req'[q].draft = req[q].draft
            \/ /\ req'[q].pc = "read" /\ req'[q].draft = D
               /\ req'[q].nonce = NextNonce(ask[q].key)
<1>1. CASE Step(q, "error")
  BY <1>1, StepOK
<1>2. CASE req' = [req EXCEPT ![q].pc = "read", ![q].draft = D,
                              ![q].nonce = NextNonce(ask[q].key)]
  <2>1. PICK n : n = NextNonce(ask[q].key)
    OBVIOUS
  <2>2. req' = [req EXCEPT ![q].pc = "read", ![q].draft = D, ![q].nonce = n]
    BY <1>2, <2>1
  <2>3. OthersKept(q) /\ req'[q] = [req[q] EXCEPT !.pc = "read", !.draft = D, !.nonce = n]
    BY <2>2 DEF OthersKept, Requests
  <2>4. RequestShape(req[q])
    BY DEF AskInv, Requests
  <2>5. /\ RequestShape(req'[q]) /\ FaucetKept(q) /\ req'[q].sent = req[q].sent
        /\ req'[q].pc = "read" /\ req'[q].draft = D /\ req'[q].nonce = n
    BY Zenon, <2>3, <2>4 DEF FaucetKept, RequestShape
  <2> QED
    BY <2>1, <2>3, <2>5
<1> QED
  BY <1>1, <1>2 DEF ReadNonce

\* Each action of a client changes one request, and ask not at all.
LEMMA ClientStepOK ==
  ASSUME AskInv, NEW q \in Requests, ClientStep(q) \/ CliPrepare(q) \/ CliSubmit(q)
  PROVE  ask' = ask /\ OthersKept(q) /\ RequestShape(req'[q])
<1>1. CASE WalletRead(q)
  BY <1>1, StepOK, ReadNonceOK DEF WalletRead
<1>2. CASE SignAndSubmit(q)
  BY <1>2, AnsweredOK DEF SignAndSubmit
<1>3. CASE RawSubmit(q)
  BY <1>3, StepOK, AnsweredOK DEF RawSubmit
<1>4. CASE McpCall(q)
  BY <1>4, StepOK, ReadNonceOK DEF McpCall
<1>5. CASE McpSubmit(q)
  BY <1>5, AnsweredOK DEF McpSubmit
<1>6. CASE FaucetCheck(q)
  <2>1. CASE Step(q, "error")
    BY <1>6, <2>1, StepOK DEF FaucetCheck
  <2>2. CASE req' = [req EXCEPT ![q].pc = "waiting", ![q].checked = now,
                                ![q].after = {r \in Via("faucet") : req[r].pc = "ok"}]
    BY Zenon, <1>6, <2>2 DEF FaucetCheck, AskInv, Requests, OthersKept, RequestShape
  <2> QED
    BY <1>6, <2>1, <2>2 DEF FaucetCheck
<1>7. CASE FaucetNonce(q)
  BY <1>7, ReadNonceOK DEF FaucetNonce
<1>8. CASE FaucetSubmit(q)
  BY <1>8, AnsweredOK DEF FaucetSubmit
<1>9. CASE FaucetRecord(q)
  BY Zenon, <1>9 DEF FaucetRecord, AskInv, Requests, OthersKept, RequestShape
<1>10. CASE CliPrepare(q)
  <2>1. CASE CliDraft(ask[q]) = {}
    BY <1>10, <2>1 DEF CliPrepare, AskInv, Requests, OthersKept, RequestShape
  <2>2. CASE CliDraft(ask[q]) # {}
    BY Zenon, <1>10, <2>2 DEF CliPrepare, AskInv, Requests, OthersKept, RequestShape
  <2> QED
    BY <2>1, <2>2
<1>11. CASE CliSubmit(q)
  BY <1>11, AnsweredOK DEF CliSubmit
<1> QED
  BY <1>1, <1>2, <1>3, <1>4, <1>5, <1>6, <1>7, <1>8, <1>9, <1>10, <1>11 DEF ClientStep

\* A process that dies ends its requests with an error and keeps the others.
LEMMA DeathOK ==
  ASSUME AskInv, McpRestart \/ FaucetCrash
  PROVE  /\ ask' = ask /\ DOMAIN req' = DOMAIN req
         /\ \A q \in Requests :
              \/ req'[q] = req[q]
              \/ /\ req[q].pc \in {"waiting", "read", "sent"} /\ req'[q].pc = "error"
                 /\ FaucetKept(q) /\ RequestShape(req'[q])
                 /\ req'[q].draft = req[q].draft /\ req'[q].sent = req[q].sent
<1>1. ASSUME NEW q \in Requests, NEW r, r = [req[q] EXCEPT !.pc = "error"]
      PROVE  /\ RequestShape(r) /\ r.pc = "error" /\ r.after = req[q].after
             /\ r.checked = req[q].checked /\ r.recorded = req[q].recorded
             /\ r.draft = req[q].draft /\ r.sent = req[q].sent
  BY <1>1 DEF AskInv, Requests, RequestShape
<1>2. CASE McpRestart
  BY <1>1, <1>2 DEF McpRestart, Requests, FaucetKept
<1>3. CASE FaucetCrash
  BY <1>1, <1>3 DEF FaucetCrash, Requests, FaucetKept
<1> QED
  BY <1>2, <1>3

\* No request has been made at first.
LEMMA AskInvInit == Init => AskInv
BY DEF Init, AskInv, RequestShape

\* Every step keeps each request of the shape its entry point gave it.
LEMMA AskInvNext == AskInv /\ [Next]_vars => AskInv'
<1> SUFFICES ASSUME AskInv, [Next]_vars PROVE AskInv'
  OBVIOUS
<1>1. ASSUME UNCHANGED <<ask, req>> PROVE AskInv'
  BY <1>1 DEF AskInv, RequestShape
<1>2. ASSUME NEW q \in Requests, ask' = ask, OthersKept(q), RequestShape(req'[q]) PROVE AskInv'
  BY <1>2 DEF AskInv, OthersKept, Requests, RequestShape
<1>3. CASE \E q \in Requests, k \in Keys : CliCountersign(q, k)
  BY <1>2, <1>3, StepOK DEF CliCountersign
<1>4. CASE McpRestart \/ FaucetCrash
  BY <1>4, DeathOK DEF AskInv, Requests, RequestShape
<1> QED
  BY <1>1, <1>2, <1>3, <1>4, ClientStepOK
     DEF Next, vars, Execute, Skip, Lose, NodeRestart, Tick

-----------------------------------------------------------------------------
(* The whole implements the limiter.                                       *)

\* A call to the node is a call of the limiter, or nothing to it.
LEMMA SubmitCallLimits ==
  ASSUME AskInv, NEW q \in Requests, NEW txs, NEW answer, SubmitCall(q, txs, answer),
         UNCHANGED now
  PROVE  [LimiterNext]_limiterVars
<1>1. ask[q].peer \in Peers
  BY RequestsWellFormed DEF AskInv, Requests
<1>2. ASSUME NEW n, Allow(ask[q].peer, n) PROVE [LimiterNext]_limiterVars
  <2>1. CASE n \in 1 .. MaxTxs
    BY <1>1, <1>2, <2>1, LimiterParameters DEF LimiterNext, Call
  <2>2. CASE n \notin 1 .. MaxTxs
    BY <1>2, <2>2 DEF Allow, After, Allowed, limiterVars
  <2> QED
    BY <2>1, <2>2
<1> QED
  BY <1>2 DEF SubmitCall, Served, limiterVars

\* Every step of the whole is a step of the limiter or leaves it alone.
LEMMA ImplementsLimiter == AskInv /\ [Next]_vars => [LimiterNext]_limiterVars
<1> SUFFICES ASSUME AskInv, [Next]_vars PROVE [LimiterNext]_limiterVars
  OBVIOUS
<1>1. CASE UNCHANGED vars
  BY <1>1 DEF vars
<1>2. ASSUME NEW q \in Requests, ClientStep(q) \/ CliPrepare(q) \/ CliSubmit(q)
      PROVE  [LimiterNext]_limiterVars
  <2>1. CASE SignAndSubmit(q) \/ McpSubmit(q) \/ FaucetSubmit(q) \/ CliSubmit(q)
    BY <2>1, SubmitCallLimits DEF SignAndSubmit, McpSubmit, FaucetSubmit, CliSubmit
  <2>2. CASE RawSubmit(q)
    BY <2>2, SubmitCallLimits DEF RawSubmit, limiterVars
  <2> QED
    BY <1>2, <2>1, <2>2
       DEF ClientStep, WalletRead, McpCall, FaucetCheck, FaucetNonce, FaucetRecord, CliPrepare
<1> QED
  BY <1>1, <1>2
     DEF Next, CliCountersign, Execute, Skip, Lose, McpRestart, FaucetCrash, NodeRestart, Tick,
         LimiterNext

\* Whatever the clients do, the node's limiter behaves as specified by itself.
THEOREM SubmissionImplementsLimiter == Spec => LimiterSpec
<1>1. Init => LimiterInit
  BY FaucetWindowNat DEF Init, LimiterInit
<1> QED
  BY <1>1, AskInvInit, AskInvNext, ImplementsLimiter, PTL DEF Spec, LimiterSpec


-----------------------------------------------------------------------------
(* The faucet.                                                             *)

FaucetPcs == {"idle", "waiting", "read", "sent", "ok", "error"}

\* A granted request is recorded no later than the database says.
GrantRecorded(q) ==
  req[q].pc = "ok" =>
    req[q].recorded \in Nat /\ req[q].recorded <= last[ask[q].to]

\* What had been granted when a request was checked is granted still, and was
\* recorded a full window before if it went to the same key.
CheckedAgainst(q) ==
  \A r \in req[q].after :
    /\ r \in Via("faucet") /\ req[r].pc = "ok"
    /\ ask[r].to = ask[q].to => req[q].checked - req[r].recorded >= FaucetWindow

FaucetInv ==
  /\ now \in Nat
  /\ \A q \in Requests : ask[q].to \in DOMAIN last
  /\ \A p \in DOMAIN last : last[p] \in Nat /\ last[p] <= now
  /\ \A q \in Via("faucet") :
       req[q].pc \in FaucetPcs /\ GrantRecorded(q) /\ CheckedAgainst(q)

\* The faucet has paid nobody at first.
LEMMA FaucetInvInit == Init => FaucetInv
BY FaucetWindowNat
   DEF Init, FaucetInv, FaucetPcs, GrantRecorded, CheckedAgainst, Via, Requests

\* A step that checks and records nothing.
LEMMA FaucetIdle ==
  ASSUME AskInv, FaucetInv, now' \in Nat, now' >= now, last' = last, ask' = ask,
         DOMAIN req' = DOMAIN req,
         \A q \in Via("faucet") : /\ (req'[q].pc = "ok") = (req[q].pc = "ok")
                                  /\ req'[q].pc \in FaucetPcs /\ FaucetKept(q)
  PROVE  FaucetInv'
<1>1. Requests' = Requests /\ Via("faucet")' = Via("faucet")
  BY DEF Requests, Via
<1>2. ASSUME NEW q \in Via("faucet") PROVE GrantRecorded(q)' /\ CheckedAgainst(q)'
  BY <1>1 DEF FaucetInv, FaucetKept, GrantRecorded, CheckedAgainst
<1>3. \A p \in DOMAIN last : last[p] \in Nat /\ last[p] <= now'
  BY DEF FaucetInv
<1> QED
  BY <1>1, <1>2, <1>3 DEF FaucetInv

\* The same, when one request makes the step.
LEMMA FaucetOneIdle ==
  ASSUME AskInv, FaucetInv, now' = now, last' = last, ask' = ask,
         NEW q \in Requests, OthersKept(q),
         ask[q].via = "faucet" =>
           /\ req[q].pc # "ok" /\ req'[q].pc \in FaucetPcs \ {"ok"} /\ FaucetKept(q)
  PROVE  FaucetInv'
<1>1. ASSUME NEW r \in Via("faucet")
      PROVE  /\ (req'[r].pc = "ok") = (req[r].pc = "ok")
             /\ req'[r].pc \in FaucetPcs /\ FaucetKept(r)
  <2>1. CASE r = q
    BY <2>1 DEF Via
  <2>2. CASE r # q
    BY <2>2 DEF Via, Requests, OthersKept, FaucetKept, FaucetInv
  <2> QED
    BY <2>1, <2>2
<1>2. now' \in Nat /\ now' >= now /\ DOMAIN req' = DOMAIN req
  BY DEF FaucetInv, OthersKept
<1> QED
  BY Zenon, <1>1, <1>2, FaucetIdle

\* The check reads the database: what it finds is older than the window.
LEMMA FaucetCheckOK ==
  ASSUME AskInv, FaucetInv, NEW q \in Requests, FaucetCheck(q)
  PROVE  FaucetInv'
<1>1. ask[q].via = "faucet" /\ req[q].pc = "idle" /\ now' = now /\ last' = last /\ ask' = ask
  BY DEF FaucetCheck, limiterVars, faucetVars
<1>2. CASE Step(q, "error")
  BY <1>1, <1>2, StepOK, FaucetOneIdle DEF FaucetPcs
<1>3. CASE /\ ~IsRateLimited(ask[q].to)
           /\ req' = [req EXCEPT ![q].pc = "waiting", ![q].checked = now,
                                 ![q].after = {r \in Via("faucet") : req[r].pc = "ok"}]
  <2>1. PICK A : A = {r \in Via("faucet") : req[r].pc = "ok"}
    BY Zenon
  <2>2. OthersKept(q) /\ req'[q] = [req[q] EXCEPT !.pc = "waiting", !.checked = now, !.after = A]
    BY <1>3, <2>1 DEF OthersKept, Requests
  <2>3. RequestShape(req[q])
    BY DEF AskInv, Requests
  <2>4. req'[q].pc = "waiting" /\ req'[q].checked = now /\ req'[q].after = A
    BY <2>2, <2>3 DEF RequestShape
  <2>5. Requests' = Requests /\ Via("faucet")' = Via("faucet")
    BY <1>1, <2>2 DEF Requests, Via, OthersKept
  <2>6. q \notin A /\ \A r \in A : r \in Requests /\ req'[r] = req[r]
    BY <1>1, <2>1, <2>2 DEF OthersKept, Via, Requests
  <2>7. CheckedAgainst(q)' /\ GrantRecorded(q)'
    <3>1. ASSUME NEW r \in A, ask[r].to = ask[q].to
          PROVE  now - req[r].recorded >= FaucetWindow
      <4>1. /\ req[r].recorded \in Nat /\ req[r].recorded <= last[ask[q].to]
            /\ last[ask[q].to] \in Nat /\ now \in Nat
        BY <2>1, <3>1 DEF FaucetInv, GrantRecorded
      <4>2. now - last[ask[q].to] >= FaucetWindow
        BY <1>3, <4>1, FaucetWindowNat DEF IsRateLimited
      <4> QED
        BY <4>1, <4>2, FaucetWindowNat
    <3> QED
      BY <1>1, <2>1, <2>4, <2>5, <2>6, <3>1 DEF CheckedAgainst, GrantRecorded
  <2>8. ASSUME NEW r \in Via("faucet"), r # q
        PROVE  req'[r].pc \in FaucetPcs /\ GrantRecorded(r)' /\ CheckedAgainst(r)'
    <3>1. req'[r] = req[r]
      BY <2>2, <2>8 DEF OthersKept, Via, Requests
    <3>2. req[r].pc \in FaucetPcs /\ GrantRecorded(r) /\ CheckedAgainst(r)
      BY DEF FaucetInv
    <3>3. \A x \in req[r].after : x # q /\ x \in Requests /\ req'[x] = req[x]
      BY <1>1, <2>2, <3>2 DEF CheckedAgainst, OthersKept, Via, Requests
    <3> QED
      BY <1>1, <2>5, <3>1, <3>2, <3>3 DEF GrantRecorded, CheckedAgainst
  <2> QED
    BY <1>1, <2>4, <2>5, <2>7, <2>8 DEF FaucetInv, FaucetPcs
<1> QED
  BY <1>2, <1>3 DEF FaucetCheck

\* The record is the latest of its key.
LEMMA FaucetRecordOK ==
  ASSUME AskInv, FaucetInv, NEW q \in Requests, FaucetRecord(q)
  PROVE  FaucetInv'
<1>1. /\ ask[q].via = "faucet" /\ req[q].pc = "sent" /\ now' = now /\ ask' = ask
      /\ last' = [last EXCEPT ![ask[q].to] = now]
      /\ req' = [req EXCEPT ![q].pc = "ok", ![q].recorded = now]
  BY DEF FaucetRecord, limiterVars
<1>2. OthersKept(q) /\ req'[q] = [req[q] EXCEPT !.pc = "ok", !.recorded = now]
  BY <1>1 DEF OthersKept, Requests
<1>3. RequestShape(req[q])
  BY DEF AskInv, Requests
<1>4. req'[q].pc = "ok" /\ req'[q].recorded = now /\ req'[q].checked = req[q].checked
      /\ req'[q].after = req[q].after
  BY <1>2, <1>3 DEF RequestShape
<1>5. Requests' = Requests /\ Via("faucet")' = Via("faucet")
  BY <1>1, <1>2 DEF Requests, Via, OthersKept
<1>6. /\ now \in Nat /\ DOMAIN last' = DOMAIN last /\ last'[ask[q].to] = now
      /\ \A p \in DOMAIN last : last'[p] \in Nat /\ last'[p] <= now /\ last[p] \in Nat
                                 /\ last[p] <= last'[p]
  BY <1>1 DEF FaucetInv
<1>7. ASSUME NEW r \in Via("faucet")
      PROVE  req'[r].pc \in FaucetPcs /\ GrantRecorded(r)'
  <2>1. CASE r = q
    BY <1>1, <1>4, <1>6, <2>1 DEF GrantRecorded, FaucetPcs
  <2>2. CASE r # q
    <3>1. req'[r] = req[r] /\ ask[r].to \in DOMAIN last
      BY <1>2, <2>2 DEF OthersKept, Via, Requests, FaucetInv
    <3>2. req[r].pc \in FaucetPcs /\ GrantRecorded(r)
      BY DEF FaucetInv
    <3>3. last[ask[r].to] \in Nat /\ last'[ask[r].to] \in Nat
          /\ last[ask[r].to] <= last'[ask[r].to]
      BY <1>6, <3>1
    <3>4. ASSUME req[r].pc = "ok"
          PROVE  req[r].recorded \in Nat /\ req[r].recorded <= last'[ask[r].to]
      BY <3>2, <3>3, <3>4 DEF GrantRecorded
    <3>5. GrantRecorded(r)'
      BY Zenon, <1>1, <3>1, <3>4 DEF GrantRecorded
    <3> QED
      BY <3>1, <3>2, <3>5
  <2> QED
    BY <2>1, <2>2
<1>8. ASSUME NEW r \in Via("faucet") PROVE CheckedAgainst(r)'
  <2>1. req'[r].after = req[r].after /\ req'[r].checked = req[r].checked
    BY Zenon, <1>2, <1>4 DEF OthersKept, Via, Requests
  <2>2. CheckedAgainst(r)
    BY DEF FaucetInv
  <2>3. \A x \in req[r].after : x # q /\ x \in Requests /\ req'[x] = req[x]
    BY <1>1, <1>2, <2>2 DEF CheckedAgainst, OthersKept, Via, Requests
  <2> QED
    BY Zenon, <1>1, <1>5, <2>1, <2>2, <2>3 DEF CheckedAgainst
<1>9. \A r \in Requests : ask'[r].to \in DOMAIN last'
  BY <1>1, <1>6 DEF FaucetInv
<1> QED
  BY Zenon, <1>1, <1>5, <1>6, <1>7, <1>8, <1>9 DEF FaucetInv

\* Every step keeps a grant recorded before the next one is checked.
LEMMA FaucetInvNext == AskInv /\ FaucetInv /\ [Next]_vars => FaucetInv'
<1> SUFFICES ASSUME AskInv, FaucetInv, [Next]_vars PROVE FaucetInv'
  OBVIOUS
<1>1. ASSUME now' \in Nat, now' >= now, UNCHANGED <<last, ask, req>> PROVE FaucetInv'
  BY Zenon, <1>1, FaucetIdle DEF FaucetInv, FaucetKept
<1>2. CASE UNCHANGED vars
  BY <1>1, <1>2 DEF vars, limiterVars, faucetVars, FaucetInv
<1>3. CASE Tick
  BY <1>1, <1>3 DEF Tick, Advance, faucetVars, FaucetInv
<1>4. CASE NodeRestart \/ \E t \in flying : Execute(t) \/ Skip(t) \/ Lose(t)
  BY <1>1, <1>4 DEF NodeRestart, Forget, Execute, Skip, Lose, limiterVars, faucetVars, FaucetInv
<1>5. CASE McpRestart \/ FaucetCrash
  <2>1. now' = now /\ last' = last
    BY Zenon, <1>5 DEF McpRestart, FaucetCrash, limiterVars, faucetVars
  <2>2. ask' = ask /\ DOMAIN req' = DOMAIN req
    BY <1>5, DeathOK
  <2>3. ASSUME NEW q \in Via("faucet")
        PROVE  /\ (req'[q].pc = "ok") = (req[q].pc = "ok")
               /\ req'[q].pc \in FaucetPcs /\ FaucetKept(q)
    <3>1. q \in Requests /\ req[q].pc \in FaucetPcs
      BY Zenon DEF Via, FaucetInv
    <3> QED
      BY <1>5, <3>1, DeathOK DEF FaucetPcs, FaucetKept
  <2> QED
    BY <2>1, <2>2, <2>3, FaucetIdle DEF FaucetInv
<1>6. CASE \E q \in Requests, k \in Keys : CliCountersign(q, k)
  <2>1. PICK q \in Requests : /\ req[q].pc = "prepared" /\ Step(q, "countersigned")
                              /\ now' = now /\ last' = last /\ ask' = ask
    BY Zenon, <1>6 DEF CliCountersign, limiterVars, faucetVars
  <2>2. ask[q].via # "faucet"
    BY Zenon, <2>1 DEF FaucetInv, FaucetPcs, Via
  <2> QED
    BY Zenon, <2>1, <2>2, StepOK, FaucetOneIdle
<1>7. ASSUME NEW q \in Requests, ClientStep(q) \/ CliPrepare(q) \/ CliSubmit(q) PROVE FaucetInv'
  <2>1. ask' = ask /\ OthersKept(q)
    BY <1>7, ClientStepOK
  <2>2. ASSUME WalletRead(q) \/ SignAndSubmit(q) \/ RawSubmit(q) \/ McpCall(q) \/ McpSubmit(q)
                 \/ CliPrepare(q) \/ CliSubmit(q)
        PROVE  ask[q].via # "faucet" /\ now' = now /\ last' = last
    <3>1. CASE CliSubmit(q)
      BY Zenon, <3>1 DEF CliSubmit, FaucetInv, FaucetPcs, Via, faucetVars
    <3> QED
      BY <2>2, <3>1
         DEF WalletRead, SignAndSubmit, RawSubmit, McpCall, McpSubmit, CliPrepare, faucetVars,
             limiterVars
  <2>3. CASE FaucetNonce(q)
    BY Zenon, <2>1, <2>3, ReadNonceOK, FaucetOneIdle DEF FaucetNonce, FaucetPcs, limiterVars
  <2>4. CASE FaucetSubmit(q)
    <3>1. PICK pc \in {"sent", "error"} : Answered(q, pc)
      BY <2>4 DEF FaucetSubmit
    <3> QED
      BY Zenon, <2>1, <2>4, <3>1, AnsweredOK, FaucetOneIdle DEF FaucetSubmit, FaucetPcs
  <2> QED
    BY <1>7, <2>1, <2>2, <2>3, <2>4, FaucetOneIdle, FaucetCheckOK, FaucetRecordOK DEF ClientStep
<1> QED
  BY <1>2, <1>3, <1>4, <1>5, <1>6, <1>7 DEF Next

\* "1 request per 60s per pubkey": the check and the record of the faucet
\* (handleFaucet) space what it grants, whatever crashes and interleaves.
THEOREM FaucetIsSpaced == Spec => []FaucetSpaced
<1>1. FaucetInv => FaucetSpaced
  BY Zenon DEF FaucetInv, CheckedAgainst, FaucetSpaced
<1> QED
  BY <1>1, AskInvInit, AskInvNext, FaucetInvInit, FaucetInvNext, PTL DEF Spec

-----------------------------------------------------------------------------
(* Nonces.  Every nonce up to the committed one was executed, so only what *)
(* is ahead of the next one could leave a gap; and no client that reads    *)
(* its nonce gets ahead.                                                   *)

Executed(k, n) == \E u \in executed : u.key = k /\ u.nonce = n

\* A nonce of key k that is not ahead.
NotAhead(k, n) == k \in Keys /\ n \in 1 .. nonce[k] + 1

\* A transaction that is on its way, or whose nonce was used up.
Settled(t) == t \in flying \cup lost \cup executed \/ Executed(t.key, t.nonce)

RequestGapless(q) ==
  ReadsNonce(q) =>
    /\ req[q].pc \notin {"prepared", "countersigned"}
    /\ req[q].pc = "read" =>
         /\ req[q].draft # {} /\ \A d \in req[q].draft : d.key = ask[q].key
         /\ NotAhead(ask[q].key, req[q].nonce)
    /\ req[q].pc \in {"ok", "sent"} =>
         \A t \in req[q].sent : NotAhead(t.key, t.nonce) /\ Settled(t)

GapInv ==
  /\ nonce \in [Keys -> Nat]
  /\ \A k \in Keys : \A n \in 1 .. nonce[k] : Executed(k, n)
  /\ \A q \in Requests : RequestGapless(q)

\* The drafts of the wallet library and of its callers are of their own key.
LEMMA LibraryKey ==
  ASSUME NEW k, NEW d
  PROVE  /\ \A to, a : d \in Transfer(k, to, a) => d.key = k
         /\ \A a : d \in Bond(k, a) => d.key = k
         /\ d \in Unbond(k) => d.key = k
         /\ d \in FinalizeUnbond(k) => d.key = k
         /\ d \in ClaimRewards(k) => d.key = k
         /\ \A p : d \in SubmitMissedDeadlineReport(k, p) => d.key = k
         /\ \A w, a : d \in DeployContract(k, w, a) => d.key = k
         /\ \A c, x, a : d \in CallContract(k, c, x, a) => d.key = k
BY DEF Transfer, Bond, Unbond, FinalizeUnbond, ClaimRewards, SubmitMissedDeadlineReport,
       DeployContract, CallContract, Draft

\* A transaction the wallet drafts is of the key of its request.
LEMMA WalletDraftKey ==
  ASSUME NEW q, q.op \in WalletOps, NEW d \in WalletDraft(q)
  PROVE  d.key = q.key
<1>1. /\ q.op = "transfer" => WalletDraft(q) = HandleTransfer(q)
      /\ q.op = "bond" => WalletDraft(q) = HandleBond(q)
      /\ q.op = "unbond" => WalletDraft(q) = HandleUnbond(q)
      /\ q.op = "finalize" => WalletDraft(q) = HandleFinalizeUnbond(q)
      /\ q.op = "claim" => WalletDraft(q) = HandleClaimRewards(q)
      /\ q.op = "miss" => WalletDraft(q) = HandleMissedDeadlineReport(q)
      /\ q.op = "deploy" => WalletDraft(q) = HandleContractDeploy(q)
      /\ q.op = "call" => WalletDraft(q) = HandleContractCall(q)
  BY Zenon DEF WalletDraft
<1>2. ASSUME d \in HandleTransfer(q) PROVE d.key = q.key
  <2>1. PICK a : d \in Transfer(q.key, q.to, a)
    BY Zenon, <1>2 DEF HandleTransfer
  <2> QED
    BY <2>1, LibraryKey
<1>3. ASSUME d \in HandleBond(q) PROVE d.key = q.key
  <2>1. PICK a : d \in Bond(q.key, a)
    BY Zenon, <1>3 DEF HandleBond
  <2> QED
    BY Zenon, <2>1, LibraryKey
<1>4. d \in HandleUnbond(q) \cup HandleFinalizeUnbond(q) \cup HandleClaimRewards(q)
        => d.key = q.key
  BY LibraryKey DEF HandleUnbond, HandleFinalizeUnbond, HandleClaimRewards
<1>5. ASSUME d \in HandleMissedDeadlineReport(q) PROVE d.key = q.key
  <2>1. PICK p : d \in SubmitMissedDeadlineReport(q.key, p)
    BY <1>5 DEF HandleMissedDeadlineReport
  <2> QED
    BY Zenon, <2>1, LibraryKey
<1>6. ASSUME d \in HandleContractDeploy(q) PROVE d.key = q.key
  <2>1. PICK w, a : d \in DeployContract(q.key, w, a)
    BY Zenon, <1>6 DEF HandleContractDeploy
  <2> QED
    BY Zenon, <2>1, LibraryKey
<1>7. ASSUME d \in HandleContractCall(q) PROVE d.key = q.key
  <2>1. PICK x, a : d \in CallContract(q.key, q.to, x, a)
    BY Zenon, <1>7 DEF HandleContractCall
  <2> QED
    BY Zenon, <2>1, LibraryKey
<1> QED
  BY Zenon, <1>1, <1>2, <1>3, <1>4, <1>5, <1>6, <1>7 DEF WalletOps

\* So is one frg-cli drafts.
LEMMA CliDraftKey ==
  ASSUME NEW q, NEW d \in CliDraft(q)
  PROVE  d.key = q.key
BY DEF CliDraft, SendCmd, BondCmd, PrepareCmd, ProtocolZeroValueCmd, Draft

\* So is one an MCP tool drafts.
LEMMA CallToolKey ==
  ASSUME NEW q, q.op \in McpOps, NEW s, NEW d \in CallTool(q, s)
  PROVE  d.key = q.key
<1>1. /\ q.op = "transfer" => CallTool(q, s) = McpTransfer(q, s)
      /\ q.op = "bond" => CallTool(q, s) = McpBond(q, s)
      /\ q.op = "unbond" => CallTool(q, s) = McpUnbond(q, s)
      /\ q.op = "finalize" => CallTool(q, s) = McpFinalizeUnbond(q, s)
      /\ q.op = "claim" => CallTool(q, s) = McpClaimRewards(q, s)
      /\ q.op = "deploy" => CallTool(q, s) = McpContractDeploy(q, s)
      /\ q.op = "call" => CallTool(q, s) = McpContractCall(q, s)
      /\ q.op = "work" => CallTool(q, s) = McpWorkAction(q, s)
  BY Zenon DEF CallTool
<1>2. ASSUME d \in McpTransfer(q, s) PROVE d.key = q.key
  <2>1. PICK a : d \in Transfer(q.key, q.to, a)
    BY Zenon, <1>2 DEF McpTransfer
  <2> QED
    BY Zenon, <2>1, LibraryKey
<1>3. ASSUME d \in McpBond(q, s) PROVE d.key = q.key
  <2>1. PICK a : d \in Bond(q.key, a)
    BY <1>3 DEF McpBond
  <2> QED
    BY Zenon, <2>1, LibraryKey
<1>4. d \in McpUnbond(q, s) \cup McpFinalizeUnbond(q, s) \cup McpClaimRewards(q, s)
        => d.key = q.key
  BY LibraryKey DEF McpUnbond, McpFinalizeUnbond, McpClaimRewards
<1>5. ASSUME d \in McpContractDeploy(q, s) PROVE d.key = q.key
  <2>1. PICK w, a : d \in DeployContract(q.key, w, a)
    BY <1>5 DEF McpContractDeploy
  <2> QED
    BY Zenon, <2>1, LibraryKey
<1>6. ASSUME d \in McpContractCall(q, s) PROVE d.key = q.key
  <2>1. PICK x, a : d \in CallContract(q.key, q.to, x, a)
    BY Zenon, <1>6 DEF McpContractCall
  <2> QED
    BY <2>1, LibraryKey
<1>7. ASSUME d \in McpWorkAction(q, s) PROVE d.key = q.key
  <2>1. PICK x, a : d \in CallContract(q.key, q.to, x, a)
    BY Zenon, <1>7 DEF McpWorkAction
  <2> QED
    BY <2>1, LibraryKey
<1> QED
  BY Zenon, <1>1, <1>2, <1>3, <1>4, <1>5, <1>6, <1>7 DEF McpOps

\* An acknowledged submission is in flight.
LEMMA AcknowledgedFlies ==
  ASSUME NEW q, NEW txs, SubmitCall(q, txs, TRUE)
  PROVE  Range(txs) \subseteq flying'
<1>1. Served(q, txs, TRUE)
  BY Zenon DEF SubmitCall
<1>2. Handle(q, txs).ok /\ Allowed(ask[q].peer, Handle(q, txs).count)
  BY Zenon, <1>1 DEF Served
<1>3. Handle(q, txs) = Acceptance(txs)
  BY Zenon, <1>2 DEF Handle, SubmitBatch, SubmitTx, Refusal
<1>4. Handle(q, txs).txs = Range(txs)
  BY <1>3 DEF Acceptance, Range
<1> QED
  BY <1>1, <1>2, <1>4 DEF Served

\* A call of the node loses no transaction in flight.
LEMMA CallKeepsFlying ==
  ASSUME NEW q, NEW txs, NEW answer, SubmitCall(q, txs, answer)
  PROVE  flying \subseteq flying'
BY DEF SubmitCall, Served

\* Submissions only add to what flies.
LEMMA StepFlying ==
  ASSUME NEW q, ClientStep(q) \/ CliPrepare(q) \/ CliSubmit(q)
  PROVE  flying \subseteq flying' /\ UNCHANGED <<nonce, executed, lost>>
<1>1. flying \subseteq flying'
  BY CallKeepsFlying
     DEF ClientStep, WalletRead, SignAndSubmit, RawSubmit, McpCall, McpSubmit, FaucetCheck,
         FaucetNonce, FaucetSubmit, FaucetRecord, CliPrepare, CliSubmit, chainVars
<1>2. UNCHANGED <<nonce, executed, lost>>
  BY DEF ClientStep, WalletRead, SignAndSubmit, RawSubmit, McpCall, McpSubmit, FaucetCheck,
         FaucetNonce, FaucetSubmit, FaucetRecord, CliPrepare, CliSubmit, chainVars
<1> QED
  BY Zenon, <1>1, <1>2

\* A request that has read its nonce sends one transaction that is not ahead.
LEMMA SentNotAhead ==
  ASSUME GapInv, NEW q \in Requests, ReadsNonce(q), req[q].pc = "read", NEW t \in Range(Txs(q))
  PROVE  NotAhead(t.key, t.nonce)
<1>1. /\ req[q].draft # {} /\ \A d \in req[q].draft : d.key = ask[q].key
      /\ NotAhead(ask[q].key, req[q].nonce)
  BY DEF GapInv, RequestGapless
<1>2. PICK d \in req[q].draft : d = CHOOSE x \in req[q].draft : TRUE
  BY Zenon, <1>1
<1>3. Txs(q) = <<WithNonce(d, req[q].nonce)>>
  BY <1>1, <1>2 DEF Txs
<1>4. t = WithNonce(d, req[q].nonce)
  BY <1>3 DEF Range
<1>5. t.key = ask[q].key /\ t.nonce = req[q].nonce
  BY Zenon, <1>1, <1>4 DEF WithNonce
<1> QED
  BY Zenon, <1>1, <1>5

\* What is settled, or not ahead, stays so while the chain grows.
LEMMA GaplessKept ==
  ASSUME GapInv, NEW q \in Requests, UNCHANGED <<nonce, executed, lost, ask>>,
         flying \subseteq flying', req'[q] = req[q]
  PROVE  RequestGapless(q)'
<1>1. RequestGapless(q) /\ (ReadsNonce(q)' = ReadsNonce(q))
  BY Zenon DEF GapInv, ReadsNonce
<1>2. ASSUME NEW k, NEW n, NotAhead(k, n) PROVE NotAhead(k, n)'
  BY <1>2 DEF NotAhead
<1>3. ASSUME NEW t, Settled(t) PROVE Settled(t)'
  BY <1>3 DEF Settled, Executed
<1> QED
  BY Zenon, <1>1, <1>2, <1>3 DEF RequestGapless

\* A step of one request that adds to what flies.
LEMMA GapOne ==
  ASSUME AskInv, GapInv, UNCHANGED <<nonce, executed, lost, ask>>, flying \subseteq flying',
         NEW q \in Requests, OthersKept(q), RequestGapless(q)'
  PROVE  GapInv'
<1>1. ASSUME NEW r \in Requests PROVE RequestGapless(r)'
  <2>1. CASE r = q
    BY <2>1
  <2>2. CASE r # q
    <3>1. req'[r] = req[r]
      BY <2>2 DEF OthersKept, Requests
    <3> QED
      BY <3>1, GaplessKept
  <2> QED
    BY <2>1, <2>2
<1>2. Requests' = Requests
  BY DEF OthersKept, Requests
<1>3. nonce' \in [Keys -> Nat] /\ \A k \in Keys : \A n \in 1 .. nonce'[k] : Executed(k, n)'
  BY DEF GapInv, Executed
<1> QED
  BY <1>1, <1>2, <1>3 DEF GapInv

\* The next nonce is not ahead.
LEMMA ReadGapless ==
  ASSUME AskInv, GapInv, NEW q \in Requests, NEW D, D # {}, \A d \in D : d.key = ask[q].key,
         ReadNonce(q, D), UNCHANGED <<nonce, ask>>
  PROVE  RequestGapless(q)'
<1>1. ask[q].key \in Keys
  BY Zenon, RequestsWellFormed DEF AskInv, Requests
<1>2. NotAhead(ask[q].key, NextNonce(ask[q].key))'
  BY <1>1 DEF NotAhead, NextNonce, GapInv
<1>3. \/ req'[q].pc = "error"
      \/ /\ req'[q].pc = "read" /\ req'[q].draft = D
         /\ req'[q].nonce = NextNonce(ask[q].key)
  BY ReadNonceOK
<1>4. NextNonce(ask[q].key)' = NextNonce(ask[q].key)
  BY Zenon DEF NextNonce
<1> QED
  BY Zenon, <1>2, <1>3, <1>4 DEF RequestGapless

\* What is acknowledged was not ahead, and flies.
LEMMA AnswerGapless ==
  ASSUME AskInv, GapInv, NEW q \in Requests, req[q].pc = "read", NEW ok \in BOOLEAN, NEW pc,
         pc = (IF ok THEN "ok" ELSE "error") \/ pc = (IF ok THEN "sent" ELSE "error"),
         SubmitCall(q, Txs(q), ok), Answered(q, pc), UNCHANGED <<nonce, ask>>
  PROVE  RequestGapless(q)'
<1>1. req'[q].pc = pc /\ req'[q].sent = Range(Txs(q)) /\ (ReadsNonce(q)' = ReadsNonce(q))
  BY Zenon, AnsweredOK DEF ReadsNonce
<1>2. CASE ~ok
  BY Zenon, <1>1, <1>2 DEF RequestGapless
<1>3. CASE ok /\ ReadsNonce(q)
  <2>1. ASSUME NEW t \in Range(Txs(q)) PROVE NotAhead(t.key, t.nonce)' /\ Settled(t)'
    <3>1. NotAhead(t.key, t.nonce)
      BY <1>3, SentNotAhead
    <3>2. t \in flying'
      BY Zenon, <1>3, AcknowledgedFlies
    <3> QED
      BY Zenon, <3>1, <3>2 DEF NotAhead, Settled
  <2>2. pc \in {"ok", "sent"}
    BY <1>3
  <2> QED
    BY Zenon, <1>1, <2>1, <2>2 DEF RequestGapless
<1> QED
  BY Zenon, <1>1, <1>2, <1>3 DEF RequestGapless

\* Each action of a client.
LEMMA ClientGapless ==
  ASSUME AskInv, GapInv, NEW q \in Requests, ClientStep(q) \/ CliPrepare(q) \/ CliSubmit(q)
  PROVE  RequestGapless(q)'
<1>1. /\ ask' = ask /\ UNCHANGED <<nonce, executed, lost>> /\ flying \subseteq flying'
      /\ ReadsNonce(q)' = ReadsNonce(q)
  BY Zenon, ClientStepOK, StepFlying DEF ReadsNonce
<1>2. ASSUME Step(q, "error") PROVE RequestGapless(q)'
  BY <1>2, StepOK DEF RequestGapless
<1>3. ASSUME ~ReadsNonce(q) PROVE RequestGapless(q)'
  BY Zenon, <1>1, <1>3 DEF RequestGapless
<1>4. q \in DOMAIN ask /\ ask \in Scenarios
  BY Zenon DEF AskInv, Requests
<1>5. CASE WalletRead(q)
  <2>1. PICK D : D = IF ask[q].via = "wallet" THEN WalletDraft(ask[q]) ELSE CliDraft(ask[q])
    OBVIOUS
  <2>2. Step(q, "error") \/ (D # {} /\ ReadNonce(q, D))
    BY Zenon, <1>5, <2>1 DEF WalletRead, ReadNonce, Step
  <2>3. \A d \in D : d.key = ask[q].key
    BY Zenon, <1>4, <2>1, RequestsWellFormed, WalletDraftKey, CliDraftKey
  <2> QED
    BY Zenon, <1>1, <1>2, <2>2, <2>3, ReadGapless
<1>6. CASE McpCall(q)
  <2>1. \/ Step(q, "error")
        \/ CallTool(ask[q], spent) # {} /\ ReadNonce(q, CallTool(ask[q], spent))
    BY Zenon, <1>6 DEF McpCall
  <2>2. \A d \in CallTool(ask[q], spent) : d.key = ask[q].key
    BY Zenon, <1>4, <1>6, RequestsWellFormed, CallToolKey DEF McpCall
  <2> QED
    BY Zenon, <1>1, <1>2, <2>1, <2>2, ReadGapless
<1>7. CASE FaucetNonce(q)
  <2>1. PICK d : d = Draft("transfer", ask[q].key, ask[q].to, FaucetAmount)
    BY Zenon
  <2>2. d.key = ask[q].key /\ ReadNonce(q, {d})
    BY Zenon, <1>7, <2>1 DEF FaucetNonce, Draft
  <2> QED
    BY <1>1, <2>2, ReadGapless
<1>8. CASE SignAndSubmit(q) \/ McpSubmit(q) \/ FaucetSubmit(q)
  <2>1. req[q].pc = "read"
    BY Zenon, <1>8 DEF SignAndSubmit, McpSubmit, FaucetSubmit
  <2>2. PICK ok \in BOOLEAN : /\ SubmitCall(q, Txs(q), ok)
                              /\ \/ Answered(q, IF ok THEN "ok" ELSE "error")
                                 \/ Answered(q, IF ok THEN "sent" ELSE "error")
    BY Zenon, <1>8 DEF SignAndSubmit, McpSubmit, FaucetSubmit
  <2> QED
    BY Zenon, <1>1, <2>1, <2>2, AnswerGapless
<1>9. CASE RawSubmit(q) \/ CliPrepare(q)
  BY Zenon, <1>3, <1>9 DEF RawSubmit, CliPrepare, ReadsNonce
<1>10. CASE CliSubmit(q)
  BY Zenon, <1>3, <1>10 DEF CliSubmit, GapInv, RequestGapless
<1>11. CASE FaucetCheck(q)
  <2>1. req'[q].pc \in {"waiting", "error"}
    <3>1. CASE Step(q, "error")
      BY Zenon, <3>1, StepOK
    <3>2. CASE req' = [req EXCEPT ![q].pc = "waiting", ![q].checked = now,
                                  ![q].after = {r \in Via("faucet") : req[r].pc = "ok"}]
      BY <3>2 DEF AskInv, Requests, RequestShape
    <3> QED
      BY Zenon, <1>11, <3>1, <3>2 DEF FaucetCheck
  <2> QED
    BY Zenon, <2>1 DEF RequestGapless
<1>12. CASE FaucetRecord(q)
  <2>1. req[q].pc = "sent" /\ req'[q].pc = "ok" /\ req'[q].sent = req[q].sent
    BY <1>12 DEF FaucetRecord, AskInv, Requests, RequestShape
  <2>2. RequestGapless(q)
    BY Zenon DEF GapInv
  <2>3. ASSUME NEW t, NotAhead(t.key, t.nonce), Settled(t)
        PROVE  NotAhead(t.key, t.nonce)' /\ Settled(t)'
    BY Zenon, <1>1, <2>3 DEF NotAhead, Settled, Executed
  <2> QED
    BY <1>1, <2>1, <2>2, <2>3 DEF RequestGapless
<1> QED
  BY Zenon, <1>5, <1>6, <1>7, <1>8, <1>9, <1>10, <1>11, <1>12 DEF ClientStep

\* A block or the network disposes of a transaction: executed, it uses up its
\* nonce; passed over, its nonce was used up or it was ahead.
LEMMA DisposeGapless ==
  ASSUME AskInv, GapInv, NEW t \in flying, Execute(t) \/ Skip(t) \/ Lose(t)
  PROVE  GapInv'
<1>1. UNCHANGED <<ask, req>> /\ executed \subseteq executed' /\ lost \subseteq lost'
      /\ flying' = flying \ {t}
  BY DEF Execute, Skip, Lose
<1>2. /\ nonce' \in [Keys -> Nat] /\ \A k \in Keys : nonce[k] \in Nat /\ nonce[k] <= nonce'[k]
      /\ \A k \in Keys : \A n \in 1 .. nonce'[k] : Executed(k, n)'
  <2>1. CASE Execute(t)
    <3>1. nonce' = [nonce EXCEPT ![t.key] = t.nonce] /\ t.nonce = nonce[t.key] + 1
          /\ t \in executed'
      BY Zenon, <2>1 DEF Execute
    <3>2. /\ nonce' \in [Keys -> Nat]
          /\ \A k \in Keys : nonce[k] \in Nat /\ nonce[k] <= nonce'[k]
      <4>1. CASE t.key \in Keys
        BY <3>1, <4>1 DEF GapInv
      <4>2. CASE t.key \notin Keys
        <5>1. nonce' = nonce
          BY Zenon, <3>1, <4>2 DEF GapInv
        <5> QED
          BY <5>1 DEF GapInv
      <4> QED
        BY <4>1, <4>2
    <3>3. ASSUME NEW k \in Keys, NEW n \in 1 .. nonce'[k] PROVE Executed(k, n)'
      <4>1. CASE k = t.key /\ n = t.nonce
        BY <3>1, <4>1 DEF Executed
      <4>2. CASE ~(k = t.key /\ n = t.nonce)
        <5>1. n \in 1 .. nonce[k]
          BY <3>1, <3>2, <4>2 DEF GapInv
        <5> QED
          BY <1>1, <5>1 DEF GapInv, Executed
      <4> QED
        BY <4>1, <4>2
    <3> QED
      BY Zenon, <3>2, <3>3
  <2>2. CASE Skip(t) \/ Lose(t)
    BY <2>2 DEF Skip, Lose, GapInv, Executed
  <2> QED
    BY <2>1, <2>2
<1>3. ASSUME NEW k, NEW n, NotAhead(k, n) PROVE NotAhead(k, n)'
  BY <1>2, <1>3 DEF NotAhead
<1>4. ASSUME NEW x, NotAhead(x.key, x.nonce), Settled(x) PROVE Settled(x)'
  <2>1. CASE x = t /\ Skip(t)
    <3>1. nonce[x.key] \in Nat /\ x.nonce \in 1 .. nonce[x.key]
      BY <1>2, <1>4, <2>1 DEF NotAhead, Skip
    <3> QED
      BY Zenon, <1>1, <1>4, <3>1 DEF GapInv, Executed, Settled, NotAhead
  <2>2. CASE x = t /\ (Execute(t) \/ Lose(t))
    BY <2>2 DEF Execute, Lose, Settled
  <2>3. CASE x # t
    BY Zenon, <1>1, <1>4, <2>3 DEF Settled, Executed
  <2> QED
    BY Zenon, <2>1, <2>2, <2>3
<1>5. ASSUME NEW q \in Requests PROVE RequestGapless(q)'
  <2>1. RequestGapless(q) /\ (ReadsNonce(q)' = ReadsNonce(q))
    BY <1>1 DEF GapInv, ReadsNonce
  <2> QED
    BY Zenon, <1>1, <1>3, <1>4, <2>1 DEF RequestGapless
<1>6. Requests' = Requests
  BY Zenon, <1>1 DEF Requests
<1> QED
  BY Zenon, <1>2, <1>5, <1>6 DEF GapInv

\* No nonce is used at first.
LEMMA GapInvInit == Init => GapInv
BY DEF Init, GapInv, RequestGapless, Requests

\* No step gets a client that reads its nonce ahead of the chain.
LEMMA GapInvNext == AskInv /\ GapInv /\ [Next]_vars => GapInv'
<1> SUFFICES ASSUME AskInv, GapInv, [Next]_vars PROVE GapInv'
  BY Zenon
<1>1. ASSUME UNCHANGED <<nonce, executed, lost, flying, ask>>, DOMAIN req' = DOMAIN req,
             \A q \in Requests : req'[q] = req[q] \/ req'[q].pc = "error"
      PROVE  GapInv'
  <2>1. ASSUME NEW q \in Requests PROVE RequestGapless(q)'
    <3>1. CASE req'[q] = req[q]
      BY Zenon, <1>1, <3>1, GaplessKept
    <3>2. CASE req'[q].pc = "error"
      BY Zenon, <3>2 DEF RequestGapless
    <3> QED
      BY Zenon, <1>1, <3>1, <3>2
  <2>2. Requests' = Requests
    BY Zenon, <1>1 DEF Requests
  <2> QED
    BY <1>1, <2>1, <2>2 DEF GapInv, Executed
<1>2. CASE UNCHANGED vars \/ NodeRestart \/ Tick
  BY <1>1, <1>2 DEF vars, chainVars, NodeRestart, Tick, Requests
<1>3. CASE McpRestart \/ FaucetCrash
  BY Zenon, <1>1, <1>3, DeathOK DEF McpRestart, FaucetCrash, chainVars
<1>4. CASE \E q \in Requests, k \in Keys : CliCountersign(q, k)
  <2>1. PICK q \in Requests : /\ req[q].pc = "prepared" /\ Step(q, "countersigned")
                              /\ UNCHANGED <<nonce, flying, executed, lost, ask>>
    BY Zenon, <1>4 DEF CliCountersign, chainVars
  <2>2. ~ReadsNonce(q)
    BY Zenon, <2>1 DEF GapInv, RequestGapless
  <2>3. RequestGapless(q)'
    BY Zenon, <2>1, <2>2 DEF RequestGapless, ReadsNonce
  <2> QED
    BY Zenon, <2>1, <2>3, StepOK, GapOne
<1>5. ASSUME NEW q \in Requests, ClientStep(q) \/ CliPrepare(q) \/ CliSubmit(q) PROVE GapInv'
  BY <1>5, ClientStepOK, StepFlying, ClientGapless, GapOne
<1> QED
  BY <1>2, <1>3, <1>4, <1>5, DisposeGapless DEF Next

\* A client that reads its nonce leaves no gap, whichever clients share its key
\* (OwnAccount and signAndSubmit, getNonce).
THEOREM NoGapIsLeft == Spec => []NoGap
<1>1. GapInv => NoGap
  BY DEF GapInv, RequestGapless, Settled, Executed, NoGap
<1> QED
  BY <1>1, AskInvInit, AskInvNext, GapInvInit, GapInvNext, PTL DEF Spec
=============================================================================

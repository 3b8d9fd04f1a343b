---------------------------- MODULE SubmitLimiter ----------------------------
(***************************************************************************)
(* The submission limiter of the node's gRPC server, submitLimiter in      *)
(* cmd/frg-node/grpc_server.go: per client address a fixed window that     *)
(* counts requests and transactions, in a map of bounded size whose stale  *)
(* entries are pruned only when a new address finds it full.  Time is a    *)
(* count of ticks; the mutex of the limiter makes a call one step.         *)
(***************************************************************************)
EXTENDS Integers, FiniteSets, Functions

CONSTANTS Peers,             \* client addresses
          SubmitWindow,      \* submitWindow, in ticks
          MaxTxs,            \* maxSubmitTxPerPeer
          MaxReqs,           \* maxSubmitReqsPerPeer
          MaxTracked         \* maxTrackedSubmitPeers

ASSUME LimiterParameters ==
  /\ SubmitWindow \in Nat \ {0}
  /\ MaxTxs \in Nat \ {0}
  /\ MaxReqs \in Nat \ {0}
  /\ MaxTracked \in Nat \ {0}

VARIABLES now,               \* the clock
          windows,           \* submitLimiter.peers: address -> window
          granted            \* history: the submissions allowed since start-up

limiterVars == <<now, windows, granted>>

Window == [started : Nat, txs : Nat, requests : Nat]

-----------------------------------------------------------------------------
NewWindow == [started |-> now, txs |-> 0, requests |-> 0]

ExpiredLate(w) == now - w.started > SubmitWindow

Expired(w) == now - w.started >= SubmitWindow

\* Windows that are over are deleted when the map is full, and only for an
\* address that is not in it.
Prune(p) ==
  IF p \in DOMAIN windows \/ Cardinality(DOMAIN windows) < MaxTracked THEN windows
  ELSE [q \in {x \in DOMAIN windows : ~Expired(windows[x])} |-> windows[q]]

Room(p) == p \in DOMAIN windows \/ Cardinality(DOMAIN Prune(p)) < MaxTracked

Current(p) ==
  IF p \in DOMAIN windows /\ ~Expired(windows[p]) THEN windows[p] ELSE NewWindow

Fits(w, n) == w.requests < MaxReqs /\ w.txs + n <= MaxTxs

CountRequests(w, n) ==
  IF Fits(w, n) THEN [w EXCEPT !.requests = @ + 1] ELSE w

Count(w, n) ==
  IF Fits(w, n) THEN [w EXCEPT !.requests = @ + 1, !.txs = @ + n] ELSE w

\* allow: the verdict on a submission of n transactions, and the map after it.
Allowed(p, n) == n \in 1 .. MaxTxs /\ Room(p) /\ Fits(Current(p), n)

After(p, n) ==
  IF n \notin 1 .. MaxTxs THEN windows
  ELSE IF ~Room(p) THEN Prune(p)
  ELSE [q \in DOMAIN Prune(p) \cup {p} |->
          IF q = p THEN Count(Current(p), n) ELSE Prune(p)[q]]

Allow(p, n) ==
  /\ windows' = After(p, n)
  /\ granted' = IF Allowed(p, n)
                THEN granted \cup {[peer |-> p, at |-> now, txs |-> n,
                                    window |-> Current(p).started,
                                    seq |-> Cardinality(granted)]}
                ELSE granted

-----------------------------------------------------------------------------
LimiterInit == now \in Nat /\ windows = [p \in {} |-> NewWindow] /\ granted = {}

Advance == now' = now + 1 /\ UNCHANGED <<windows, granted>>

Call(p, n) == Allow(p, n) /\ UNCHANGED now

\* A restart: the map is in memory only.
Forget == windows' = [p \in {} |-> NewWindow] /\ granted' = {} /\ UNCHANGED now

LimiterNext == Advance \/ Forget \/ \E p \in Peers, n \in Nat : Call(p, n)

LimiterSpec == LimiterInit /\ [][LimiterNext]_limiterVars

-----------------------------------------------------------------------------
\* The transactions of some grants together.
Tally(grants) == SumFunctionOnSet([x \in grants |-> x.txs], grants)

GrantedTo(p, from, to) ==
  Tally({x \in granted : x.peer = p /\ from <= x.at /\ x.at <= to})

\* Whatever the clients do, the map never holds more than maxTrackedSubmitPeers
\* addresses, and no window counts more than its limits or starts in the
\* future (allow, grpc_server.go:40-79).
WindowsBounded ==
  /\ Cardinality(DOMAIN windows) <= MaxTracked
  /\ \A p \in DOMAIN windows :
       /\ windows[p].txs <= MaxTxs
       /\ windows[p].requests <= MaxReqs
       /\ windows[p].started <= now

\* The windows are fixed, not sliding: an address can be allowed a full window
\* at the end of one and another at the start of the next, but never more than
\* twice maxSubmitTxPerPeer within the length of one, although a pruned window
\* starts afresh.
SlidingBound ==
  \A p \in Peers :
    \A g \in {x \in granted : x.peer = p} :
      GrantedTo(p, g.at, g.at + SubmitWindow - 1) <= 2 * MaxTxs

\* Nobody is starved: an address that was allowed nothing for the length of a
\* window is allowed any submission of legal size, unless the map is full of
\* the running windows of others.
QuietAdmitted ==
  \A p \in Peers, n \in 1 .. MaxTxs :
    \/ Allowed(p, n)
    \/ \E g \in granted : g.peer = p /\ now - g.at < SubmitWindow
    \/ Cardinality({q \in DOMAIN windows \ {p} : now - windows[q].started < SubmitWindow})
         >= MaxTracked
=============================================================================

------------------------------- MODULE Monitor -------------------------------
(***************************************************************************)
(* What a client sees of a node's chain through GetStatus, and the block   *)
(* history that the web client builds from it (nodeRuntime.Status in       *)
(* cmd/frg-node/main.go; captureBlocks and recordBlock in                  *)
(* cmd/frg-web/main.go), composed with the life of the node in DataDir.    *)
(* Status reads the height, the state root and the engine's height one     *)
(* after the other, and blocks are committed in between.  A state root is  *)
(* represented by the height it belongs to.                                *)
(***************************************************************************)
EXTENDS DataDir

CONSTANTS MaxBlockHistory, TrimSize,   \* 1000 and 500 records
          MaxWebStarts                 \* bound

ASSUME HistorySizes == MaxBlockHistory \in Nat /\ TrimSize \in Nat \ {0}

VARIABLES web,        \* the web client: pc, what it read, lastHeight, blockCount
          history     \* its database: height -> state root

webVars == <<web, history>>
vars == <<dirVars, webVars>>

NewWeb(starts) == [pc |-> "wait", height |-> 0, root |-> 0, last |-> 0, count |-> 0,
                   starts |-> starts]

-----------------------------------------------------------------------------
\* One tick of captureBlocks.  Status reads the height,
PollHeight ==
  /\ web.pc = "wait" /\ web.starts > 0 /\ node.pc = "running"
  /\ web' = [web EXCEPT !.pc = "root", !.height = db.height]
  /\ UNCHANGED <<dirVars, history>>

\* then the state root,
PollRootFirst ==
  /\ web.pc = "root" /\ node.pc = "running"
  /\ web' = [web EXCEPT !.pc = "engine", !.root = web.height, !.height = db.height]
  /\ UNCHANGED <<dirVars, history>>

PollRoot ==
  /\ web.pc = "root" /\ node.pc = "running"
  /\ web' = [web EXCEPT !.pc = "engine", !.root = db.height]
  /\ UNCHANGED <<dirVars, history>>

\* and reports the engine's height less one in place of a height of 0.
Reported == IF web.height = 0 THEN db.height ELSE web.height

\* recordBlock: the record is put under its height; when the client has counted
\* too many since it started, the lowest records are deleted.
Put(h) == [x \in DOMAIN history \cup {h} |-> IF x = h THEN web.root ELSE history[x]]

Trim(f) ==
  LET gone == {x \in DOMAIN f : Cardinality({y \in DOMAIN f : y < x}) < TrimSize}
  IN  [x \in DOMAIN f \ gone |-> f[x]]

NewHeightNext(h) == h = web.last + 1

NewHeight(h) == h > web.last

PollRecord ==
  /\ web.pc = "engine" /\ node.pc = "running"
  /\ IF ~NewHeight(Reported)
     THEN web' = [web EXCEPT !.pc = "wait", !.height = 0, !.root = 0] /\ UNCHANGED history
     ELSE LET f == Put(Reported)
              full == web.count + 1 > MaxBlockHistory + TrimSize
          IN  /\ history' = IF full THEN Trim(f) ELSE f
              /\ web' = [web EXCEPT !.pc = "wait", !.height = 0, !.root = 0, !.last = Reported,
                                    !.count = @ + 1 - Cardinality(DOMAIN f)
                                                    + Cardinality(DOMAIN history')]
  /\ UNCHANGED dirVars

\* The call fails when the node is not there; the tick is skipped.
PollFails ==
  /\ web.pc \in {"root", "engine"} /\ node.pc # "running"
  /\ web' = [web EXCEPT !.pc = "wait", !.height = 0, !.root = 0]
  /\ UNCHANGED <<dirVars, history>>

\* The web client restarts: its counters are in memory, its history is not.
RestartWeb ==
  /\ web.starts \in 1 .. MaxWebStarts - 1
  /\ web' = NewWeb(web.starts + 1)
  /\ UNCHANGED <<dirVars, history>>

-----------------------------------------------------------------------------
\* The data directory of a node that runs, and has no tools run on it.
RunningDir ==
  LET own == OwnGenesis(DefaultChain, KeyFile(1)) IN
  /\ disk = [key |-> KeyFile(1), genesis |-> own, config |-> None]
  /\ db = [NoDB EXCEPT !.exists = TRUE, !.buckets = TRUE, !.seed = own, !.applied = 1]
  /\ node = [pc |-> "running", chain |-> DefaultChain, key |-> KeyFile(1)]
  /\ tool = Idle /\ backups = {} /\ spare = NoDB
  /\ made = 1 /\ runs = [tools |-> MaxTools, backups |-> 0, forced |-> FALSE]

\* Either an empty data directory and no web client, or a web client that
\* starts to watch a node that runs.
Init ==
  /\ history = [h \in {} |-> 0]
  /\ \/ FreshDir /\ web = NewWeb(0)
     \/ RunningDir /\ web = NewWeb(1)

Poll == PollHeight \/ PollRoot \/ PollRecord \/ PollFails

Next ==
  \/ DirNext /\ UNCHANGED webVars
  \/ Poll \/ RestartWeb

\* The ticker fires every two seconds and a call returns or fails.
Fairness == WF_vars(Poll)

Spec == Init /\ [][Next]_vars /\ Fairness

-----------------------------------------------------------------------------
\* The height and the root of a status are read in two transactions, and blocks
\* are committed in between, but the root is never older than the height.  The
\* exception is the one status that finds no block yet and then reports the
\* height the engine has reached meanwhile (Status, main.go:1069-1122).
RootNotOlder == Cardinality({h \in DOMAIN history : history[h] < h}) <= 1

\* The history never loses its newest record to trimming, and it is bounded for
\* each life of the client: a restart forgets the count of what is stored
\* (recordBlock, frg-web/main.go:874-903).
HistoryBounded ==
  /\ web.last > 0 => web.last \in DOMAIN history
  /\ Cardinality(DOMAIN history) <= web.starts * (MaxBlockHistory + TrimSize)

\* What the web client recorded is what the chain was, kept within its bounds
\* (captureBlocks, recordBlock, Status).
HistoryFaithful == RootNotOlder /\ HistoryBounded

\* The client skips heights that come and go between two polls, and still never
\* stops following the chain: once a height is committed the client records
\* that one or a later one, unless the node goes down (captureBlocks,
\* frg-web/main.go:845-872).
FollowsChain ==
  \A h \in 1 .. MaxHeight :
    (web.starts > 0 /\ db.height = h) ~> (web.last >= h \/ node.pc # "running")
=============================================================================

------------------------------ MODULE CatchUp ------------------------------
(***************************************************************************)
(* A node that starts (cmd/frg-node): before its engine runs it asks its    *)
(* peers for the committed blocks it lacks, compares the answers, and       *)
(* applies the range they agree on, pass after pass.  Every failure ends    *)
(* the process, and what was applied stays on disk.                         *)
(*                                                                          *)
(* The peers are correct nodes: they serve the chain they committed, and go *)
(* on committing meanwhile.  A block's identity stands for its state root,  *)
(* and validators have equal stakes.                                        *)
(***************************************************************************)
EXTENDS Integers, Sequences, FiniteSets

CONSTANTS
  Peer,         \* the other nodes
  Branch,       \* [Peer -> the sequence of blocks it commits, in the end]
  Validator,    \* all validators there ever are
  Bonded(_),    \* the validators bonded after a sequence of blocks
  Genesis,      \* the state root before the first block
  MaxRange,     \* the most blocks of one request
  MaxFaults     \* bound on the crashes, failed requests, missing connections and
                \* expired contexts, after which the network is a good one

\* A block: its state root, its parent's, whether it has transactions, its
\* proposer, and the validators whose precommits attest the block before it.
Block == [root : STRING, parent : STRING, empty : BOOLEAN, proposer : Validator,
          votes : SUBSET Validator]

ASSUME BranchesAreChains ==
  \A p \in Peer :
    /\ Branch[p] \in Seq(Block)
    /\ \A i \in 1 .. Len(Branch[p]) :
         Branch[p][i].parent = IF i = 1 THEN Genesis ELSE Branch[p][i - 1].root

\* A state root names one block of its height, whoever committed it.
ASSUME RootsNameBlocks ==
  \A p, q \in Peer : \A i \in 1 .. Len(Branch[p]) :
    i <= Len(Branch[q]) /\ Branch[p][i].root = Branch[q][i].root => Branch[p][i] = Branch[q][i]

ASSUME BoundsPositive == MaxRange \in Nat \ {0} /\ MaxFaults \in Nat

Attempts == 3

VARIABLES
  height,     \* [Peer -> the height it has committed]
  chain,      \* the blocks this node committed, durable
  at,         \* "down", "pass", "ask", "apply" or "run"
  vals,       \* the validators, read once when the process starts
  peers,      \* the peers connected when the pass began
  waiting,    \* those not asked yet in this attempt
  replies,    \* the valid answers of this attempt: a set of <<peer, blocks>>
  attempt,    \* 0, 1 or 2
  todo,       \* the selected blocks still to be applied
  faults      \* how many faults happened

pass == <<vals, peers, waiting, replies, attempt, todo>>
syncVars == <<height, chain, at, pass, faults>>

-----------------------------------------------------------------------------
\* handleBlockSync: the blocks from..from+MaxRange-1 as far as the peer has
\* them.
Served(p) ==
  LET from == Len(chain) + 1
      last == IF from + MaxRange - 1 > height[p] THEN height[p] ELSE from + MaxRange - 1
  IN  SubSeq(Branch[p], from, last)

\* VerifyAttestationForChain, against the validators of the process.
AttestationValid(votes) == votes \subseteq vals /\ 3 * Cardinality(votes) > 2 * Cardinality(vals)

\* A check that asks for an attestation where there is none to have.
BlockAttested(b) == b.proposer \in vals /\ ~b.empty /\ AttestationValid(b.votes)

\* validateSyncedBlocks for one block.  SerializeBatch fails on an empty list,
\* so a block without transactions is never valid.
BlockValid(b) ==
  /\ b.proposer \in vals
  /\ ~b.empty
  /\ b.votes # {} => AttestationValid(b.votes)

\* validateSyncedBlocks: the answer counts whole or not at all.
validateSyncedBlocks(blocks) == \A i \in DOMAIN blocks : BlockValid(blocks[i])

Root(blocks) == IF blocks = <<>> THEN Genesis ELSE blocks[Len(blocks)].root

-----------------------------------------------------------------------------
Fault == faults < MaxFaults /\ faults' = faults + 1

\* The process dies, by log.Fatalf or otherwise, and forgets the pass.
Die ==
  /\ at' = "down"
  /\ vals' = {} /\ peers' = {} /\ waiting' = {} /\ replies' = {} /\ attempt' = 0
  /\ todo' = <<>>

\* The process starts and reads the bonded validators.
Start ==
  /\ at = "down"
  /\ at' = "pass"
  /\ vals' = Bonded(chain)
  /\ UNCHANGED <<height, chain, peers, waiting, replies, attempt, todo, faults>>

\* A pass begins with the peers connected now; without any, the node runs.
BeginPass(conn) ==
  /\ at = "pass"
  /\ at' = IF conn = {} THEN "run" ELSE "ask"
  /\ peers' = conn /\ waiting' = conn /\ replies' = {} /\ attempt' = 0
  /\ IF conn = Peer THEN UNCHANGED faults ELSE Fault
  /\ UNCHANGED <<height, chain, vals, todo>>

\* A peer answers; an answer that is empty or not valid is ignored.
Answer(p) ==
  /\ at = "ask" /\ p \in waiting
  /\ waiting' = waiting \ {p}
  /\ replies' = IF Served(p) # <<>> /\ validateSyncedBlocks(Served(p))
                THEN replies \cup {<<p, Served(p)>>} ELSE replies
  /\ UNCHANGED <<height, chain, at, vals, peers, attempt, todo, faults>>

\* The request fails or takes more than two seconds.
NoAnswer(p) ==
  /\ at = "ask" /\ p \in waiting
  /\ waiting' = waiting \ {p}
  /\ Fault
  /\ UNCHANGED <<height, chain, at, vals, peers, replies, attempt, todo>>

\* How many peers gave this very answer.
Count(blocks) == Cardinality({r \in replies : r[2] = blocks})

\* The answers the loop over the candidates, a map, may end with: one that no
\* other beats, accepted if it was the only one or two peers gave it.
Selectable == {r[2] : r \in {s \in replies :
                /\ \A o \in replies : Count(o[2]) <= Count(s[2])
                /\ Cardinality(replies) = 1 \/ Count(s[2]) >= 2}}

Select ==
  /\ at = "ask" /\ waiting = {}
  /\ \E blocks \in Selectable : todo' = blocks
  /\ at' = "apply"
  /\ UNCHANGED <<height, chain, vals, peers, waiting, replies, attempt, faults>>

\* No agreement: after a pause the same peers are asked again.
Retry ==
  /\ at = "ask" /\ waiting = {}
  /\ Selectable = {} /\ attempt < Attempts - 1
  /\ attempt' = attempt + 1
  /\ waiting' = peers /\ replies' = {}
  /\ UNCHANGED <<height, chain, at, vals, peers, todo, faults>>

\* After the last attempt the node runs if nobody had a valid answer, and
\* exits if the answers differ.
GiveUp ==
  /\ at = "ask" /\ waiting = {}
  /\ Selectable = {} /\ attempt = Attempts - 1
  /\ IF replies = {} THEN at' = "run" /\ UNCHANGED pass ELSE Die
  /\ UNCHANGED <<height, chain, faults>>

\* An ApplyBlockForChain that does not compare the parent state root.
AppliesAtHeight(b) == TRUE

\* ApplyBlockForChain's check of the parent state root.
Applies(b) == b.parent = Root(chain)

\* One block of the selected range is applied; a failure ends the process.
ApplySynced ==
  /\ at = "apply" /\ todo # <<>>
  /\ IF Applies(Head(todo))
     THEN /\ chain' = Append(chain, Head(todo))
          /\ todo' = Tail(todo)
          /\ UNCHANGED <<at, vals, peers, waiting, replies, attempt>>
     ELSE Die /\ UNCHANGED chain
  /\ UNCHANGED <<height, faults>>

\* The range is applied: the next pass.
NextPass ==
  /\ at = "apply" /\ todo = <<>>
  /\ at' = "pass"
  /\ peers' = {} /\ waiting' = {} /\ replies' = {} /\ attempt' = 0
  /\ UNCHANGED <<height, chain, vals, todo, faults>>

\* The five seconds are over in a pause or after a range: log.Fatalf.
ContextExpires ==
  /\ \/ at = "ask" /\ waiting = {} /\ Selectable = {} /\ attempt < Attempts - 1
     \/ at = "apply" /\ todo = <<>>
  /\ Fault
  /\ Die
  /\ UNCHANGED <<height, chain>>

\* A crash between any two steps.
SyncCrash ==
  /\ at \in {"pass", "ask", "apply"}
  /\ Fault
  /\ Die
  /\ UNCHANGED <<height, chain>>

\* A running node is stopped, to be started again.
Stop ==
  /\ at = "run"
  /\ Die
  /\ UNCHANGED <<height, chain, faults>>

\* A peer commits its next block.
PeerCommits(p) ==
  /\ height[p] < Len(Branch[p])
  /\ height' = [height EXCEPT ![p] = @ + 1]
  /\ UNCHANGED <<chain, at, pass, faults>>

-----------------------------------------------------------------------------
SyncInit ==
  /\ height = [p \in Peer |-> 0]
  /\ chain = <<>>
  /\ at = "down"
  /\ vals = {} /\ peers = {} /\ waiting = {} /\ replies = {} /\ attempt = 0
  /\ todo = <<>>
  /\ faults = 0

\* What the process does by itself.
Proceed ==
  \/ Start \/ Select \/ Retry \/ GiveUp \/ ApplySynced \/ NextPass \/ ContextExpires
  \/ \E conn \in SUBSET Peer : BeginPass(conn)
  \/ \E p \in Peer : Answer(p) \/ NoAnswer(p)

SyncNext ==
  \/ Proceed
  \/ SyncCrash \/ Stop
  \/ \E p \in Peer : PeerCommits(p)

SyncSpec == SyncInit /\ [][SyncNext]_syncVars

\* The process goes on, and the peers commit their chains.
SyncFairness == WF_syncVars(Proceed) /\ \A p \in Peer : WF_syncVars(PeerCommits(p))

FairSyncSpec == SyncSpec /\ SyncFairness

-----------------------------------------------------------------------------
\* The node's chain is always the chain some one peer committed, as far as it
\* goes: passes with different peers, answers applied after the peers went on
\* and faults within a range never splice two histories together.
NeverMixed ==
  chain # <<>> => \E p \in Peer : \E n \in 0 .. height[p] : chain = SubSeq(Branch[p], 1, n)

\* A node that is started again and again gets every block its peers have,
\* once the faults are over.
CatchesUp ==
  []<>(at = "down") => <>(\E p \in Peer : chain = Branch[p])
=============================================================================

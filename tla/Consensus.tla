----------------------------- MODULE Consensus -----------------------------
(***************************************************************************)
(* The BFT engine of core/consensus: every node runs one goroutine that     *)
(* takes one event at a time (a vote, a proposal, a timer, a delayed        *)
(* self-proposal) and runs its handler to the end.  A handler works on the  *)
(* in-memory RoundState, on the phase timers, and on three durable things:  *)
(* the vote slots, the round snapshot and the chain of applied blocks.      *)
(*                                                                          *)
(* The network is gossip over bounded channels that drop on overflow: a     *)
(* message once sent may reach any node at any time, any number of times,   *)
(* in any order, or never.  A node may crash between any two durable or     *)
(* visible effects of a handler, and restarts from its disk.  A validator   *)
(* that is not in Node is faulty: it signs any votes and proposals.         *)
(***************************************************************************)
EXTENDS Integers, Sequences, Functions

CONSTANTS
  Node,            \* processes running the engine
  Validator,       \* the bonded keys (the set is fixed in this module)
  Stake,           \* [Validator -> stake]
  Order,           \* the validators as leader.sortedValidators orders them
  Seed(_, _),      \* the leader hash of (state root, height)
  Payload,         \* what a mempool may offer for a block
  Invalid,         \* payloads ApplyBlockForChain rejects, on every node alike
  Oversized,       \* payloads SerializeProposal rejects
  GenesisRoot,     \* the state root before the first block
  Nil,             \* the zero block hash
  MaxHeight, MaxRound, MaxCrashes    \* bounds of the explored instance

\* The sets of validators with more than 2/3 of the stake.  (The outer set is
\* an image, which TLC enumerates once.)
Quorums ==
  {Q : Q \in {S \in SUBSET Validator :
                3 * SumFunctionOnSet(Stake, S) > 2 * SumFunction(Stake)}}

ASSUME PayloadsKnown == /\ Invalid \subseteq Payload
                        /\ Oversized \subseteq Payload
                        /\ GenesisRoot \notin Payload
ASSUME BoundsNat == MaxHeight \in Nat /\ MaxRound \in Nat /\ MaxCrashes \in Nat

\* The faulty validators hold less than 1/3 of the stake: two sets of more
\* than 2/3 share a validator that runs this engine.
ASSUME QuorumsMeet == \A P, Q \in Quorums : P \cap Q \cap Node # {}

\* No validator is a quorum alone (a devnet of one is not modelled): a vote
\* that is the first of its round decides nothing.
ASSUME NoSoleQuorum == \A n \in Node : {n} \notin Quorums

Member == Node \cup Validator

Roots == Payload \cup {GenesisRoot}

\* A proposal; it stands for its own hash, which covers every field.
\* attest is the set of signers of PrevAttestations.
Block == [height : Nat, round : Nat, proposer : Member, parent : Roots,
          txs : Payload, attest : SUBSET Member]

ASSUME NilIsNoBlock == Nil \notin Block

Hash == Block \cup {Nil}

Vote == [type : {"prevote", "precommit"}, height : Nat, round : Nat,
         hash : Hash, from : Member]

Phase == {"propose", "prevote", "precommit", "commit"}

\* Optional values are sets of at most one element.
Maybe(S) == {X \in SUBSET S : \A x, y \in X : x = y}

RoundState == [height : Nat, round : Nat, phase : Phase,
               proposal : Maybe(Block), prevotes : SUBSET Vote,
               precommits : SUBSET Vote, locked : Maybe(Hash),
               lastAttest : SUBSET Member]

VARIABLES
  rs,        \* [Node -> RoundState], lost in a crash
  timers,    \* [Node -> the armed timers], lost in a crash
  up,        \* [Node -> is the process running]
  slots,     \* [Node -> the votes recorded by RecordConsensusVote], durable
  snap,      \* [Node -> the saved round state, if any], durable
  chain,     \* [Node -> the applied blocks], durable
  proposals, \* every proposal ever broadcast
  votes,     \* every vote ever broadcast
  crashes    \* how many crashes happened

vars == <<rs, timers, up, slots, snap, chain, proposals, votes, crashes>>

-----------------------------------------------------------------------------
(* Quorums, leaders and roots.                                              *)

Voters(vs) == {v.from : v \in vs}

VotersFor(vs, h) == {v.from : v \in {w \in vs : w.hash = h}}

QuorumReached(vs) == Voters(vs) \in Quorums

\* Mutant of QuorumBlocks: the 2/3 are counted over all hashes together.
MixedQuorumBlocks(vs) ==
  IF Voters(vs) \in Quorums THEN {v.hash : v \in vs} ELSE {}

\* The hashes with more than 2/3 of the stake: quorumBlock's result, if any.
QuorumBlocks(vs) ==
  {h \in {v.hash : v \in vs} : VotersFor(vs, h) \in Quorums}

\* The root of the RG tree is built from the block's transactions alone
\* (and from the contracts they touch), so equal payloads give equal roots.
StateRoot(ch) == IF ch = <<>> THEN GenesisRoot ELSE ch[Len(ch)].txs

SkipProposer(root, h, r) == Order[((Seed(root, h) + r) % Len(Order)) + 1]

NewRoundState(h) ==
  [height |-> h, round |-> 0, phase |-> "propose", proposal |-> {},
   prevotes |-> {}, precommits |-> {}, locked |-> {}, lastAttest |-> {}]

-----------------------------------------------------------------------------
(* A handler is a function on the local state L of the node that runs it.   *)
(* L.cuts collects what is durable or visible just before each such effect: *)
(* the states a crash inside the handler can leave behind.                  *)

Effects(L) == [slots |-> L.slots, snap |-> L.snap, chain |-> L.chain,
               proposals |-> L.proposals, votes |-> L.votes]

Cut(L) == [L EXCEPT !.cuts = @ \cup {Effects(L)}]

PersistRoundState(L) == [Cut(L) EXCEPT !.snap = {L.rs}]

ClearConsensusState(L) == [Cut(L) EXCEPT !.snap = {}]

BroadcastBlock(L, b) == [Cut(L) EXCEPT !.proposals = @ \cup {b}]

SendVote(L, v) == [Cut(L) EXCEPT !.votes = @ \cup {v}]

RecordVote(L, v) == [Cut(L) EXCEPT !.slots = @ \cup {v}]

Arm(L, t) == [L EXCEPT !.timers = @ \cup {t}]

Disarm(L, t) == [L EXCEPT !.timers = @ \ {t}]

EnterPhase(L, p) == [L EXCEPT !.rs.phase = p]

Lock(L, h) == [L EXCEPT !.rs.locked = {h}]

Unlock(L) == [L EXCEPT !.rs.locked = {}]

IncrementRound(L) ==
  [L EXCEPT !.rs.round = @ + 1, !.rs.phase = "propose", !.rs.proposal = {},
            !.rs.prevotes = {}, !.rs.precommits = {}]

IsProposer(L) ==
  SkipProposer(StateRoot(L.chain), L.rs.height, L.rs.round) = L.self

OwnVote(L, type, h) == [type |-> type, height |-> L.rs.height,
                        round |-> L.rs.round, hash |-> h, from |-> L.self]

\* Mutant of SlotTaken: the votes counted so far are consulted, not the slots.
SlotTakenInMemory(L, type) ==
  L.self \in Voters(IF type = "prevote" THEN L.rs.prevotes ELSE L.rs.precommits)

\* RecordConsensusVote refuses a second vote for (height, round, type), even
\* an equal one.
SlotTaken(L, type) ==
  \E w \in L.slots : /\ w.type = type
                     /\ w.height = L.rs.height
                     /\ w.round = L.rs.round

\* The slot is recorded before the vote is signed and sent.
BroadcastVote(L, v) == SendVote(RecordVote(L, v), v)

\* The checks handleVote makes before it looks at the phase.
Counts(r, v) ==
  /\ v.height = r.height
  /\ v.round = r.round
  /\ v.from \in Validator
  /\ v.from \notin Voters(IF v.type = "prevote" THEN r.prevotes
                                                ELSE r.precommits)

AddPrevote(L, v) == PersistRoundState([L EXCEPT !.rs.prevotes = @ \cup {v}])

AddPrecommit(L, v) == PersistRoundState([L EXCEPT !.rs.precommits = @ \cup {v}])

-----------------------------------------------------------------------------
(* Proposing and moving between rounds.                                     *)

NewBlock(L) ==
  [height |-> L.rs.height, round |-> L.rs.round, proposer |-> L.self,
   parent |-> StateRoot(L.chain), txs |-> L.pay, attest |-> L.rs.lastAttest]

\* broadcastProposal gives up, the phase untouched, when the proposal cannot
\* be serialized.
CanPropose(L) == L.rs.phase = "propose" /\ L.pay \notin Oversized

\* Mutant of Propose: the proposal is sent before the phase is saved.
SendThenSave(L) ==
  LET b == NewBlock(L)
  IN  PersistRoundState([BroadcastBlock(L, b) EXCEPT !.rs.proposal = {b},
                                                     !.rs.phase = "prevote"])

\* broadcastProposal up to its own prevote.  No timer is touched.
Propose(L) ==
  LET b == NewBlock(L)
  IN  BroadcastBlock(PersistRoundState([L EXCEPT !.rs.proposal = {b},
                                                 !.rs.phase = "prevote"]), b)

\* broadcastProposal in a round whose votes have just been cleared: the own
\* prevote is the first one and decides nothing (NoSoleQuorum).
ProposeAfresh(L) ==
  LET P == Propose(L)
      v == OwnVote(P, "prevote", NewBlock(L))
  IN  IF ~CanPropose(L) THEN L
      ELSE IF SlotTaken(P, "prevote") THEN P
      ELSE AddPrevote(BroadcastVote(P, v), v)

\* Mutant of RetryHeight: the propose timer is not reset.
RetryWithoutTimer(L) ==
  LET I == IncrementRound(L)
  IN  PersistRoundState(IF IsProposer(I) THEN ProposeAfresh(I) ELSE I)

\* The tail shared by restartRound and the precommit timeout: the same height
\* again, one round later.  The precommit timer is left as it is.
RetryHeight(L) ==
  LET I == Arm(IncrementRound(L), "propose")
  IN  PersistRoundState(IF IsProposer(I) THEN ProposeAfresh(I) ELSE I)

\* Mutant of StartNextRound: LockedBlock is not reset.
NextHeightLocked(L) ==
  LET I == Arm([L EXCEPT !.rs = [NewRoundState(@.height + 1)
                                   EXCEPT !.lastAttest = L.rs.lastAttest,
                                          !.locked = L.rs.locked]],
               "propose")
  IN  PersistRoundState(IF IsProposer(I) THEN Arm(I, "ready") ELSE I)

\* "ready" is the delayed self-proposal: the AfterFunc still pending, or its
\* token in the proposeReady channel.
StartNextRound(L) ==
  LET I == Arm([L EXCEPT !.rs = [NewRoundState(@.height + 1)
                                   EXCEPT !.lastAttest = L.rs.lastAttest]],
               "propose")
  IN  PersistRoundState(IF IsProposer(I) THEN Arm(I, "ready") ELSE I)

\* Mutant of RestartRound: a failed commit moves on to the next height.
RestartAtNextHeight(L) == StartNextRound(Unlock(L))

RestartRound(L) == RetryHeight(Unlock(L))

-----------------------------------------------------------------------------
(* Votes.                                                                   *)

\* ApplyBlockForChain accepts the proposal this node holds for hash h.
Applies(L, h) ==
  \E b \in L.rs.proposal : /\ b = h
                           /\ b.height = Len(L.chain) + 1
                           /\ b.parent = StateRoot(L.chain)
                           /\ b.txs \notin Invalid

\* The block is applied in one database transaction, then the snapshot goes.
Commit(L, h) == ClearConsensusState([Cut(L) EXCEPT !.chain = Append(@, h)])

\* Mutant of Decide: any quorum of precommits commits the proposal at hand.
DecideProposal(L) ==
  LET decided == L.rs.proposal
      h == CHOOSE x \in decided : TRUE
      C == EnterPhase(Disarm(L, "precommit"), "commit")
  IN  IF decided = {} THEN RestartRound(L)
      ELSE IF Applies(C, h)
      THEN StartNextRound([Commit(C, h) EXCEPT
                             !.rs.lastAttest = VotersFor(L.rs.precommits, h)])
      ELSE RestartRound(C)

\* Mutant of Decide: the Commit phase is saved before the block is applied.
DecideSaved(L) ==
  LET decided == QuorumBlocks(L.rs.precommits) \ {Nil}
      h == CHOOSE x \in decided : TRUE
      C == PersistRoundState(EnterPhase(Disarm(L, "precommit"), "commit"))
  IN  IF decided = {} THEN RestartRound(L)
      ELSE IF Applies(C, h)
      THEN StartNextRound([Commit(C, h) EXCEPT
                             !.rs.lastAttest = VotersFor(L.rs.precommits, h)])
      ELSE RestartRound(C)

\* handleVote once the precommits reach a quorum: commit, or start over.
Decide(L) ==
  LET decided == QuorumBlocks(L.rs.precommits) \ {Nil}
      h == CHOOSE x \in decided : TRUE
      C == EnterPhase(Disarm(L, "precommit"), "commit")
  IN  IF decided = {} THEN RestartRound(L)
      ELSE IF Applies(C, h)
      THEN StartNextRound([Commit(C, h) EXCEPT
                             !.rs.lastAttest = VotersFor(L.rs.precommits, h)])
      ELSE RestartRound(C)

HandlePrecommit(L, v) ==
  LET A == AddPrecommit(L, v)
  IN  IF ~Counts(L.rs, v) THEN L
      ELSE IF QuorumReached(A.rs.precommits) /\ A.rs.phase = "precommit"
      THEN Decide(A) ELSE A

CastPrecommit(L, h) ==
  LET v == OwnVote(L, "precommit", h)
  IN  IF SlotTaken(L, "precommit") THEN L
      ELSE HandlePrecommit(BroadcastVote(L, v), v)

\* handleVote once the prevotes reach a quorum: lock what has 2/3 (the zero
\* hash included) and precommit it, or precommit the zero hash.
EnterPrecommit(L) ==
  LET P == Arm(Disarm(EnterPhase(L, "precommit"), "prevote"), "precommit")
      polka == QuorumBlocks(L.rs.prevotes)
      h == CHOOSE x \in polka : TRUE
  IN  IF polka = {} THEN CastPrecommit(P, Nil)
      ELSE CastPrecommit(Lock(P, h), h)

HandlePrevote(L, v) ==
  LET A == AddPrevote(L, v)
  IN  IF ~Counts(L.rs, v) THEN L
      ELSE IF QuorumReached(A.rs.prevotes) /\ A.rs.phase = "prevote"
      THEN EnterPrecommit(A) ELSE A

CastPrevote(L, h) ==
  LET v == OwnVote(L, "prevote", h)
  IN  IF SlotTaken(L, "prevote") THEN L
      ELSE HandlePrevote(BroadcastVote(L, v), v)

HandleVote(L, v) ==
  IF v.type = "prevote" THEN HandlePrevote(L, v) ELSE HandlePrecommit(L, v)

-----------------------------------------------------------------------------
(* Proposals and timers.                                                    *)

\* The early returns of handleProposal.
AcceptsProposal(L, b) ==
  /\ b.height = L.rs.height
  /\ b.round = L.rs.round
  /\ b.parent = StateRoot(L.chain)
  /\ L.rs.phase = "propose"
  /\ L.rs.proposal = {}
  /\ b.proposer = SkipProposer(StateRoot(L.chain), L.rs.height, L.rs.round)
  /\ b.attest = {} \/ b.attest \in Quorums

HandleProposal(L, b) ==
  LET P == Arm(Disarm([L EXCEPT !.rs.proposal = {b}, !.rs.phase = "prevote"],
                      "propose"), "prevote")
  IN  PersistRoundState(
        CastPrevote(P, IF L.rs.locked \subseteq {b} THEN b ELSE Nil))

\* proposeReady: broadcastProposal with the prevotes received so far.
OnProposeReady(L) ==
  IF IsProposer(L) /\ CanPropose(L)
  THEN CastPrevote(Propose(L), NewBlock(L)) ELSE L

OnProposeTimeout(L) ==
  IF L.rs.phase # "propose" THEN L
  ELSE PersistRoundState(
         CastPrevote(Arm(EnterPhase(L, "prevote"), "prevote"), Nil))

OnPrevoteTimeout(L) ==
  IF L.rs.phase # "prevote" THEN L
  ELSE PersistRoundState(
         CastPrecommit(Arm(EnterPhase(L, "precommit"), "precommit"), Nil))

\* The precommit timer has no phase guard.
OnPrecommitTimeout(L) == RetryHeight(L)

OnTimer(L, t) ==
  CASE t = "ready"     -> OnProposeReady(L)
    [] t = "propose"   -> OnProposeTimeout(L)
    [] t = "prevote"   -> OnPrevoteTimeout(L)
    [] t = "precommit" -> OnPrecommitTimeout(L)

-----------------------------------------------------------------------------
(* The process: its events, crashes and restarts.                           *)

Timer == {"ready", "propose", "prevote", "precommit"}

\* Mutant of StartEngine: the phase timers of the resumed round stay stopped.
StartWithoutTimers(L) ==
  LET resumable == {s \in L.snap : s.height = Len(L.chain) + 1}
      r == IF resumable = {} THEN NewRoundState(Len(L.chain) + 1)
                             ELSE CHOOSE s \in resumable : TRUE
      B == [L EXCEPT !.rs = r, !.timers = {r.phase} \cap {"propose"}]
  IN  IF r.phase = "propose" /\ IsProposer(B) THEN Arm(B, "ready") ELSE B

\* Engine.Start: resume the saved round if it is for the next height.
StartEngine(L) ==
  LET resumable == {s \in L.snap : s.height = Len(L.chain) + 1}
      r == IF resumable = {} THEN NewRoundState(Len(L.chain) + 1)
                             ELSE CHOOSE s \in resumable : TRUE
      B == [L EXCEPT !.rs = r,
                     !.timers = IF r.phase = "commit" THEN {} ELSE {r.phase}]
  IN  CASE r.phase = "propose" -> IF IsProposer(B) THEN Arm(B, "ready") ELSE B
        [] r.phase = "commit"  -> IF QuorumBlocks(r.precommits) \subseteq {Nil}
                                  THEN B ELSE Decide(B)
        [] OTHER               -> B

Load(n, pay) ==
  [self |-> n, pay |-> pay, rs |-> rs[n], timers |-> timers[n],
   slots |-> slots[n], snap |-> snap[n], chain |-> chain[n],
   proposals |-> proposals, votes |-> votes, cuts |-> {}]

\* What a handler left on disk and on the wire.
Store(n, E) ==
  /\ slots' = [slots EXCEPT ![n] = E.slots]
  /\ snap' = [snap EXCEPT ![n] = E.snap]
  /\ chain' = [chain EXCEPT ![n] = E.chain]
  /\ proposals' = E.proposals
  /\ votes' = E.votes

\* Memory is lost: rs and timers of a stopped node mean nothing.
Halt(n) ==
  /\ crashes < MaxCrashes
  /\ crashes' = crashes + 1
  /\ up' = [up EXCEPT ![n] = FALSE]
  /\ rs' = [rs EXCEPT ![n] = NewRoundState(0)]
  /\ timers' = [timers EXCEPT ![n] = {}]

Complete(n, L) ==
  /\ L.rs.round <= MaxRound
  /\ Store(n, L)
  /\ rs' = [rs EXCEPT ![n] = L.rs]
  /\ timers' = [timers EXCEPT ![n] = L.timers]
  /\ up' = [up EXCEPT ![n] = TRUE]
  /\ UNCHANGED crashes

\* A handler runs to its end, or the process dies between two of its effects.
Run(n, L) ==
  \/ Complete(n, L)
  \/ Halt(n) /\ \E E \in L.cuts : Store(n, E)

Running(n) == up[n] /\ rs[n].height <= MaxHeight

ReceiveVote(n) ==
  /\ Running(n)
  /\ \E v \in votes, pay \in Payload :
        /\ Counts(rs[n], v)
        /\ Run(n, HandleVote(Load(n, pay), v))

ReceiveProposal(n) ==
  /\ Running(n)
  /\ \E b \in proposals, pay \in Payload :
        /\ AcceptsProposal(Load(n, pay), b)
        /\ Run(n, HandleProposal(Load(n, pay), b))

TimerFires(n, t) ==
  /\ Running(n)
  /\ t \in timers[n]
  /\ \E pay \in Payload : Run(n, OnTimer(Disarm(Load(n, pay), t), t))

\* The process stops between two handlers.
Crash(n) ==
  /\ up[n]
  /\ Halt(n)
  /\ UNCHANGED <<slots, snap, chain, proposals, votes>>

Restart(n) ==
  /\ ~up[n]
  /\ \E pay \in Payload : Run(n, StartEngine(Load(n, pay)))

\* A faulty validator signs a vote for anything on the wire, or for nothing.
FaultyVote(f) ==
  /\ \E v \in [type : {"prevote", "precommit"}, height : 1 .. MaxHeight,
               round : 0 .. MaxRound, hash : proposals \cup {Nil}, from : {f}] :
       votes' = votes \cup {v}
  /\ UNCHANGED <<rs, timers, up, slots, snap, chain, proposals, crashes>>

\* It proposes on top of some node's chain where it is the leader (any other
\* proposal is dropped by every node), as often as it likes; PrevAttestations
\* may be left empty.
FaultyPropose(f) ==
  /\ \E n \in Node, r \in 0 .. MaxRound, pay \in Payload :
       LET h == Len(chain[n]) + 1
           root == StateRoot(chain[n])
       IN  /\ h <= MaxHeight
           /\ SkipProposer(root, h, r) = f
           /\ proposals' = proposals \cup
                {[height |-> h, round |-> r, proposer |-> f, parent |-> root,
                  txs |-> pay, attest |-> {}]}
  /\ UNCHANGED <<rs, timers, up, slots, snap, chain, votes, crashes>>

Init ==
  /\ rs = [n \in Node |-> NewRoundState(0)]
  /\ timers = [n \in Node |-> {}]
  /\ up = [n \in Node |-> FALSE]
  /\ slots = [n \in Node |-> {}]
  /\ snap = [n \in Node |-> {}]
  /\ chain = [n \in Node |-> <<>>]
  /\ proposals = {}
  /\ votes = {}
  /\ crashes = 0

Next ==
  \/ \E n \in Node : \/ ReceiveVote(n)
                     \/ ReceiveProposal(n)
                     \/ \E t \in Timer : TimerFires(n, t)
                     \/ Crash(n)
                     \/ Restart(n)
  \/ \E f \in Validator \ Node : FaultyVote(f) \/ FaultyPropose(f)

Spec == Init /\ [][Next]_vars

\* The Go runtime fires every armed timer, and a supervisor restarts a stopped
\* process; nothing is assumed of the network.  For the timers this is weak
\* fairness of TimerFires with its enabling condition spelled out.
Pending(n, t) == Running(n) /\ t \in timers[n] /\ rs[n].round < MaxRound

Fairness ==
  \A n \in Node :
    /\ \A t \in Timer : []<>~Pending(n, t) \/ []<><<TimerFires(n, t)>>_vars
    /\ WF_vars(Restart(n))

FairSpec == Spec /\ Fairness

-----------------------------------------------------------------------------
(* Properties.                                                              *)

\* Every piece of state of the engine has its type: in particular a node is
\* locked on at most one hash and holds at most one proposal and one snapshot.
TypeOK ==
  /\ rs \in [Node -> RoundState]
  /\ timers \in [Node -> SUBSET Timer]
  /\ up \in [Node -> BOOLEAN]
  /\ slots \in [Node -> SUBSET Vote]
  /\ snap \in [Node -> Maybe(RoundState)]
  /\ chain \in [Node -> Seq(Block)]
  /\ proposals \subseteq Block
  /\ votes \subseteq Vote
  /\ crashes \in Nat

SameSlot(v, w) == /\ v.from = w.from
                  /\ v.type = w.type
                  /\ v.height = w.height
                  /\ v.round = w.round

\* No node ever sends two different votes of one type for one height and
\* round, however often it crashes between recording, sending and counting its
\* vote (RecordConsensusVote is the guard).
NoEquivocation ==
  \A v, w \in votes : (v.from \in Node /\ SameSlot(v, w)) => v = w

\* A proposer sends at most one proposal for a height and round, although a
\* crash may resume it in the very round it proposed in (broadcastProposal
\* saves the phase before it sends).
OneProposalPerRound ==
  \A a, b \in proposals :
    (/\ a.proposer \in Node
     /\ a.proposer = b.proposer
     /\ a.height = b.height
     /\ a.round = b.round) => a = b

VotesFor(vs, type, h, r, b) ==
  {v.from : v \in {w \in vs : /\ w.type = type /\ w.height = h
                              /\ w.round = r /\ w.hash = b}}

HasQuorum(vs, type, h, r, b) ==
  \E Q \in Quorums : Q \subseteq VotesFor(vs, type, h, r, b)

\* A precommit for a block was sent only after more than 2/3 of the stake sent
\* prevotes for that block in that very round (handleVote, quorumBlock).
PrecommitHasPolka ==
  \A v \in votes : (v.from \in Node /\ v.type = "precommit" /\ v.hash # Nil)
                     => HasQuorum(votes, "prevote", v.height, v.round, v.hash)

\* A block is on a node's chain only at its own height and only if more than
\* 2/3 of the stake precommitted it in its round: the attestation that the
\* next proposal carries exists (commit, attestationFromPrecommits).
CommitHasCertificate ==
  \A n \in Node : \A i \in DOMAIN chain[n] :
    LET b == chain[n][i]
    IN  b.height = i /\ HasQuorum(votes, "precommit", i, b.round, b)

\* Two nodes that commit a height in the same round commit the same block,
\* whatever the timers, losses, crashes and faulty validators.
RoundAgreement ==
  \A m, n \in Node : \A i \in DOMAIN chain[m] \cap DOMAIN chain[n] :
    chain[m][i].round = chain[n][i].round => chain[m][i] = chain[n][i]

\* The engine always works on the height after the last applied block; a
\* failed commit retries the same height (restartRound), and a crash between
\* applying the block and saving the next round is repaired by Start.
HeightInSync == \A n \in Node : up[n] => rs[n].height = Len(chain[n]) + 1

\* A lock stands on more than 2/3 of prevotes for the locked hash, in a round
\* of this height that is not in the future, restarts included.
LockHasPolka ==
  \A n \in Node : up[n] =>
    \A h \in rs[n].locked :
      \E r \in 0 .. rs[n].round : HasQuorum(votes, "prevote", rs[n].height, r, h)

\* A saved round never runs ahead of the chain, is never in the Commit phase,
\* and counts no own vote that the slots do not hold: what Start resumes is a
\* round this node really was in.
SnapshotSound ==
  \A n \in Node : \A s \in snap[n] :
    /\ s.phase # "commit"
    /\ s.height <= Len(chain[n]) + 1
    /\ \A v \in s.prevotes \cup s.precommits : v.from = n => v \in slots[n]

\* The phases Propose and Precommit always have their timer armed, and Prevote
\* has it unless the node entered it with its own proposal: no lost message
\* can hold a node in one of them for ever.
PhaseHasTimer ==
  \A n \in Node : up[n] =>
    \/ rs[n].phase \in timers[n]
    \/ rs[n].phase = "prevote" /\ \E b \in rs[n].proposal : b.proposer = n

InRound(n, h, r) == up[n] /\ rs[n].height = h /\ rs[n].round = r

\* A round that its node did not propose in always ends (in a commit or in the
\* next round), by the node's own timers if no message ever arrives, and after
\* a restart in any phase.
FollowerRoundEnds ==
  \A n \in Node, h \in 1 .. MaxHeight, r \in 0 .. MaxRound - 1 :
    (InRound(n, h, r) /\ \A b \in proposals : <<b.proposer, b.height, b.round>> # <<n, h, r>>)
      ~> (~InRound(n, h, r) \/ \E b \in proposals : <<b.proposer, b.height, b.round>> = <<n, h, r>>)

-----------------------------------------------------------------------------
(* What the documentation and the comments say of the engine, and the code  *)
(* does not keep.                                                           *)

\* README: "BFT voting / finality with attestations".  Two nodes never apply
\* different transactions at one height.
Finality ==
  \A m, n \in Node : \A i \in DOMAIN chain[m] \cap DOMAIN chain[n] :
    chain[m][i].txs = chain[n][i].txs
=============================================================================

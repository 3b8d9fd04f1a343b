-------------------------- MODULE ConsensusProofs --------------------------
(***************************************************************************)
(* Proofs about Consensus, for any set of nodes, any stakes and any bounds. *)
(*                                                                          *)
(* A handler is a composition of operators on the local state L of a node.  *)
(* LocalOK(n, V, L) is what each of them preserves when node n runs it over *)
(* a network that held the votes V when the handler began; it speaks of     *)
(* every state a crash inside the handler can leave behind (L.cuts) too.    *)
(***************************************************************************)
EXTENDS Consensus, TLAPS

\* A round state counts only votes that were sent, for its own height and
\* round, and holds only a proposal of its own height and round.
RoundOK(r, V) ==
  /\ \A v \in r.prevotes : v \in V /\ v.type = "prevote"
                           /\ v.height = r.height /\ v.round = r.round
  /\ \A v \in r.precommits : v \in V /\ v.type = "precommit"
                             /\ v.height = r.height /\ v.round = r.round
  /\ \A b \in r.proposal : b.height = r.height /\ b.round = r.round

\* The slots of n are its own votes, one per height, round and type, and hold
\* every vote it sent.
SlotsOK(n, S, V) ==
  /\ \A v \in S : v.from = n
  /\ \A v, w \in S : SameSlot(v, w) => v = w
  /\ \A v \in V : v.from = n => v \in S

PolkasOK(V) ==
  \A v \in V : (v.from \in Node /\ v.type = "precommit" /\ v.hash # Nil)
               => HasQuorum(V, "prevote", v.height, v.round, v.hash)

ChainOK(ch, V) ==
  \A i \in DOMAIN ch :
    ch[i].height = i /\ HasQuorum(V, "precommit", i, ch[i].round, ch[i])

\* What holds of the disk of n and of the network at any moment of a handler
\* of n; E is a local state or one of its cuts.
DurableOK(n, V, E) ==
  /\ V \subseteq E.votes
  /\ \A v \in E.votes \ V : v.from = n
  /\ SlotsOK(n, E.slots, E.votes)
  /\ PolkasOK(E.votes)
  /\ ChainOK(E.chain, E.votes)
  /\ \A s \in E.snap : RoundOK(s, E.votes)

Effect == [slots : SUBSET Vote, snap : Maybe(RoundState), chain : Seq(Block),
           proposals : SUBSET Block, votes : SUBSET Vote]

Local == [self : Node, pay : Payload, rs : RoundState, timers : SUBSET Timer,
          slots : SUBSET Vote, snap : Maybe(RoundState), chain : Seq(Block),
          proposals : SUBSET Block, votes : SUBSET Vote, cuts : SUBSET Effect]

LocalOK(n, V, L) ==
  /\ L \in Local
  /\ L.self = n
  /\ RoundOK(L.rs, L.votes)
  /\ DurableOK(n, V, L)
  /\ \A E \in L.cuts : DurableOK(n, V, E)

\* The inductive invariant.
Inv ==
  /\ TypeOK
  /\ \A n \in Node : /\ RoundOK(rs[n], votes)
                     /\ SlotsOK(n, slots[n], votes)
                     /\ ChainOK(chain[n], votes)
                     /\ \A s \in snap[n] : RoundOK(s, votes)
  /\ PolkasOK(votes)

-----------------------------------------------------------------------------
(* Quorums of votes.                                                        *)

\* More votes keep a quorum a quorum.
LEMMA QuorumGrows ==
  ASSUME NEW V, NEW W, V \subseteq W,
         NEW type, NEW h, NEW r, NEW b, HasQuorum(V, type, h, r, b)
  PROVE  HasQuorum(W, type, h, r, b)
BY DEF HasQuorum, VotesFor

\* A hash that quorumBlock returns for counted prevotes has a quorum of sent
\* prevotes.
LEMMA PolkaSent ==
  ASSUME NEW r, NEW V, RoundOK(r, V), NEW h \in QuorumBlocks(r.prevotes)
  PROVE  HasQuorum(V, "prevote", r.height, r.round, h)
BY DEF RoundOK, QuorumBlocks, VotersFor, HasQuorum, VotesFor

\* The same for precommits.
LEMMA CertificateSent ==
  ASSUME NEW r, NEW V, RoundOK(r, V), NEW h \in QuorumBlocks(r.precommits)
  PROVE  HasQuorum(V, "precommit", r.height, r.round, h)
BY DEF RoundOK, QuorumBlocks, VotersFor, HasQuorum, VotesFor

\* A round state that is sound for the votes sent so far stays so as more
\* are sent.
LEMMA RoundGrows ==
  ASSUME NEW r, NEW V, NEW W, V \subseteq W, RoundOK(r, V)
  PROVE  RoundOK(r, W)
BY DEF RoundOK

\* Certificates of applied blocks survive as more votes are sent.
LEMMA ChainGrows ==
  ASSUME NEW ch, NEW V, NEW W, V \subseteq W, ChainOK(ch, V)
  PROVE  ChainOK(ch, W)
BY QuorumGrows DEF ChainOK

\* The root of a chain of blocks is a payload or the genesis root.
LEMMA StateRootType ==
  ASSUME NEW ch \in Seq(Block)
  PROVE  StateRoot(ch) \in Roots
<1>1. CASE ch = <<>>
  BY <1>1 DEF StateRoot, Roots
<1>2. CASE ch # <<>>
  <2>1. ch[Len(ch)] \in Block
    BY <1>2
  <2>2. ch[Len(ch)].txs \in Payload
    BY <2>1 DEF Block
  <2> QED
    BY <1>2, <2>2 DEF StateRoot, Roots
<1> QED
  BY <1>1, <1>2

-----------------------------------------------------------------------------
(* The elementary steps of a handler.                                       *)

\* What a crash would leave at this point of a handler is sound.
LEMMA EffectsOK ==
  ASSUME NEW n, NEW V, NEW L, LocalOK(n, V, L)
  PROVE  Effects(L) \in Effect /\ DurableOK(n, V, Effects(L))
BY DEF LocalOK, Local, Effect, Effects, DurableOK

\* A step in memory: the round state and the timers change, nothing else.
LEMMA MemoryStep ==
  ASSUME NEW n, NEW V, NEW L, LocalOK(n, V, L), NEW M \in Local,
         M.self = L.self, M.slots = L.slots, M.snap = L.snap,
         M.chain = L.chain, M.votes = L.votes, M.cuts = L.cuts,
         RoundOK(M.rs, L.votes)
  PROVE  LocalOK(n, V, M)
BY DEF LocalOK, DurableOK

\* A step with one durable or visible effect, before which a crash may come.
LEMMA DurableStep ==
  ASSUME NEW n, NEW V, NEW L, LocalOK(n, V, L), NEW M \in Local,
         M.self = L.self, M.cuts = L.cuts \cup {Effects(L)},
         RoundOK(M.rs, M.votes), DurableOK(n, V, M)
  PROVE  LocalOK(n, V, M)
BY EffectsOK DEF LocalOK

\* persistRoundState saves a sound round state and changes no other.
LEMMA PersistOK ==
  ASSUME NEW n, NEW V, NEW L, LocalOK(n, V, L)
  PROVE  LocalOK(n, V, PersistRoundState(L)) /\ PersistRoundState(L).rs = L.rs
<1> DEFINE M == PersistRoundState(L)
<1>1. L \in Local /\ Effects(L) \in Effect
  BY EffectsOK DEF LocalOK
<1>2. {L.rs} \in Maybe(RoundState)
  BY <1>1 DEF Local, Maybe
<1>3. /\ M \in Local
      /\ M.self = L.self /\ M.rs = L.rs /\ M.slots = L.slots
      /\ M.snap = {L.rs} /\ M.chain = L.chain /\ M.votes = L.votes
      /\ M.cuts = L.cuts \cup {Effects(L)}
  BY Zenon, <1>1, <1>2 DEF Local, Cut, PersistRoundState
<1> HIDE DEF M
<1>4. RoundOK(M.rs, M.votes) /\ DurableOK(n, V, M)
  BY <1>3 DEF LocalOK, DurableOK
<1>5. LocalOK(n, V, M)
  BY <1>3, <1>4, DurableStep
<1> QED
  BY <1>3, <1>5 DEF M

\* ClearConsensusState leaves a sound disk.
LEMMA ClearOK ==
  ASSUME NEW n, NEW V, NEW L, LocalOK(n, V, L)
  PROVE  LocalOK(n, V, ClearConsensusState(L)) /\ ClearConsensusState(L).rs = L.rs
<1> DEFINE M == ClearConsensusState(L)
<1>1. L \in Local /\ Effects(L) \in Effect
  BY EffectsOK DEF LocalOK
<1>3. /\ M \in Local
      /\ M.self = L.self /\ M.rs = L.rs /\ M.slots = L.slots
      /\ M.snap = {} /\ M.chain = L.chain /\ M.votes = L.votes
      /\ M.cuts = L.cuts \cup {Effects(L)}
  BY Zenon, <1>1 DEF Local, Cut, ClearConsensusState, Maybe
<1> HIDE DEF M
<1>4. RoundOK(M.rs, M.votes) /\ DurableOK(n, V, M)
  BY <1>3 DEF LocalOK, DurableOK
<1>5. LocalOK(n, V, M)
  BY <1>3, <1>4, DurableStep
<1> QED
  BY <1>3, <1>5 DEF M

\* Sending a proposal disturbs no vote, slot or chain.
LEMMA BroadcastBlockOK ==
  ASSUME NEW n, NEW V, NEW L, LocalOK(n, V, L), NEW b \in Block
  PROVE  LocalOK(n, V, BroadcastBlock(L, b)) /\ BroadcastBlock(L, b).rs = L.rs
<1> DEFINE M == BroadcastBlock(L, b)
<1>1. L \in Local /\ Effects(L) \in Effect
  BY EffectsOK DEF LocalOK
<1>3. /\ M \in Local
      /\ M.self = L.self /\ M.rs = L.rs /\ M.slots = L.slots
      /\ M.snap = L.snap /\ M.chain = L.chain /\ M.votes = L.votes
      /\ M.cuts = L.cuts \cup {Effects(L)}
  BY Zenon, <1>1 DEF Local, Cut, BroadcastBlock
<1> HIDE DEF M
<1>4. RoundOK(M.rs, M.votes) /\ DurableOK(n, V, M)
  BY <1>3 DEF LocalOK, DurableOK
<1>5. LocalOK(n, V, M)
  BY <1>3, <1>4, DurableStep
<1> QED
  BY <1>3, <1>5 DEF M

\* The vote broadcastPrevote and broadcastPrecommit build is the node's own,
\* for the current height and round.
LEMMA OwnVoteType ==
  ASSUME NEW n, NEW V, NEW L, LocalOK(n, V, L),
         NEW type \in {"prevote", "precommit"}, NEW h \in Hash
  PROVE  /\ OwnVote(L, type, h) \in Vote
         /\ OwnVote(L, type, h).from = n /\ n \in Node
         /\ OwnVote(L, type, h).type = type
         /\ OwnVote(L, type, h).height = L.rs.height
         /\ OwnVote(L, type, h).round = L.rs.round
         /\ OwnVote(L, type, h).hash = h
BY DEF LocalOK, Local, RoundState, OwnVote, Vote, Member

\* RecordConsensusVote keeps one vote per slot when the slot was free.
LEMMA RecordVoteOK ==
  ASSUME NEW n, NEW V, NEW L, LocalOK(n, V, L), NEW v \in Vote, v.from = n,
         \A w \in L.slots : ~SameSlot(v, w)
  PROVE  /\ LocalOK(n, V, RecordVote(L, v))
         /\ RecordVote(L, v).rs = L.rs
         /\ RecordVote(L, v).votes = L.votes
         /\ v \in RecordVote(L, v).slots
<1> DEFINE M == RecordVote(L, v)
<1>1. L \in Local /\ Effects(L) \in Effect
  BY EffectsOK DEF LocalOK
<1>2. /\ M \in Local
      /\ M.self = L.self /\ M.rs = L.rs /\ M.slots = L.slots \cup {v}
      /\ M.snap = L.snap /\ M.chain = L.chain /\ M.votes = L.votes
      /\ M.cuts = L.cuts \cup {Effects(L)}
  BY Zenon, <1>1 DEF Local, Cut, RecordVote
<1> HIDE DEF M
<1>3. SlotsOK(n, L.slots \cup {v}, L.votes)
  <2>1. SlotsOK(n, L.slots, L.votes)
    BY DEF LocalOK, DurableOK
  <2> QED
    BY <2>1 DEF SlotsOK, SameSlot
<1>4. RoundOK(M.rs, M.votes) /\ DurableOK(n, V, M)
  BY <1>2, <1>3 DEF LocalOK, DurableOK
<1>5. LocalOK(n, V, M)
  BY <1>2, <1>4, DurableStep
<1> QED
  BY <1>2, <1>5 DEF M

\* Sending a recorded vote; a precommit for a block needs its polka.
LEMMA SendVoteOK ==
  ASSUME NEW n, NEW V, NEW L, LocalOK(n, V, L), NEW v \in L.slots,
         (v.type = "precommit" /\ v.hash # Nil)
           => HasQuorum(L.votes, "prevote", v.height, v.round, v.hash)
  PROVE  /\ LocalOK(n, V, SendVote(L, v))
         /\ SendVote(L, v).rs = L.rs
         /\ v \in SendVote(L, v).votes
<1> DEFINE M == SendVote(L, v)
<1>1. L \in Local /\ Effects(L) \in Effect
  BY EffectsOK DEF LocalOK
<1>2. v \in Vote /\ v.from = n
  BY <1>1 DEF Local, LocalOK, DurableOK, SlotsOK
<1>3. /\ M \in Local
      /\ M.self = L.self /\ M.rs = L.rs /\ M.slots = L.slots
      /\ M.snap = L.snap /\ M.chain = L.chain
      /\ M.votes = L.votes \cup {v}
      /\ M.cuts = L.cuts \cup {Effects(L)}
  BY Zenon, <1>1, <1>2 DEF Local, Cut, SendVote
<1> HIDE DEF M
<1>4. /\ RoundOK(L.rs, M.votes)
      /\ \A s \in L.snap : RoundOK(s, M.votes)
  BY <1>3, RoundGrows DEF LocalOK, DurableOK
<1>5. ChainOK(L.chain, M.votes)
  BY Zenon, <1>3, ChainGrows DEF LocalOK, DurableOK
<1>6. PolkasOK(M.votes)
  BY Zenon, <1>3, QuorumGrows DEF LocalOK, DurableOK, PolkasOK
<1>7. SlotsOK(n, L.slots, M.votes)
  BY <1>3 DEF LocalOK, DurableOK, SlotsOK
<1>8. V \subseteq M.votes /\ \A w \in M.votes \ V : w.from = n
  BY Zenon, <1>2, <1>3 DEF LocalOK, DurableOK
<1>9. DurableOK(n, V, M)
  BY <1>3, <1>4, <1>5, <1>6, <1>7, <1>8 DEF DurableOK
<1>10. LocalOK(n, V, M)
  BY Zenon, <1>3, <1>4, <1>9, DurableStep
<1> QED
  BY <1>3, <1>10 DEF M

\* broadcastPrevote and broadcastPrecommit: a free slot is recorded, then the
\* vote is sent; a precommit of a block needs its polka.
LEMMA BroadcastVoteOK ==
  ASSUME NEW n, NEW V, NEW L, LocalOK(n, V, L),
         NEW type \in {"prevote", "precommit"}, NEW h \in Hash,
         ~SlotTaken(L, type),
         (type = "precommit" /\ h # Nil)
           => HasQuorum(L.votes, "prevote", L.rs.height, L.rs.round, h)
  PROVE  LET v == OwnVote(L, type, h)
             M == BroadcastVote(L, v)
         IN  LocalOK(n, V, M) /\ M.rs = L.rs /\ v \in M.votes
<1> DEFINE v == OwnVote(L, type, h)
           R == RecordVote(L, v)
           M == BroadcastVote(L, v)
<1>1. /\ v \in Vote /\ v.from = n /\ v.type = type /\ v.hash = h
      /\ v.height = L.rs.height /\ v.round = L.rs.round
  BY OwnVoteType
<1> HIDE DEF v
<1>2. \A w \in L.slots : ~SameSlot(v, w)
  BY Zenon, <1>1 DEF SlotTaken, SameSlot
<1>3. LocalOK(n, V, R) /\ R.rs = L.rs /\ R.votes = L.votes /\ v \in R.slots
  BY <1>1, <1>2, RecordVoteOK
<1>4. M = SendVote(R, v)
  BY DEF BroadcastVote
<1> HIDE DEF R, M
<1>5. (v.type = "precommit" /\ v.hash # Nil)
        => HasQuorum(R.votes, "prevote", v.height, v.round, v.hash)
  BY <1>1, <1>3
<1>6. LocalOK(n, V, M) /\ M.rs = R.rs /\ v \in M.votes
  BY <1>3, <1>4, <1>5, SendVoteOK
<1> QED
  BY <1>3, <1>6 DEF v, M

\* M is L up to the phase, the lock, the timers and the saved snapshot.
Alike(L, M) ==
  /\ M.votes = L.votes /\ M.chain = L.chain
  /\ M.rs.height = L.rs.height /\ M.rs.round = L.rs.round
  /\ M.rs.proposal = L.rs.proposal
  /\ M.rs.prevotes = L.rs.prevotes /\ M.rs.precommits = L.rs.precommits

\* Resetting a timer changes nothing else.
LEMMA ArmOK ==
  ASSUME NEW n, NEW V, NEW L, LocalOK(n, V, L), NEW t \in Timer
  PROVE  LocalOK(n, V, Arm(L, t)) /\ Alike(L, Arm(L, t))
<1> DEFINE M == Arm(L, t)
<1>1. /\ M \in Local /\ Alike(L, M) /\ M.rs = L.rs
      /\ M.self = L.self /\ M.slots = L.slots /\ M.snap = L.snap
      /\ M.chain = L.chain /\ M.votes = L.votes /\ M.cuts = L.cuts
  BY DEF LocalOK, Local, Arm, Alike
<1> HIDE DEF M
<1>2. RoundOK(M.rs, L.votes)
  BY <1>1 DEF LocalOK
<1>3. LocalOK(n, V, M)
  BY <1>1, <1>2, MemoryStep
<1> QED
  BY <1>1, <1>3 DEF M

\* Stopping a timer changes nothing else.
LEMMA DisarmOK ==
  ASSUME NEW n, NEW V, NEW L, LocalOK(n, V, L), NEW t
  PROVE  LocalOK(n, V, Disarm(L, t)) /\ Alike(L, Disarm(L, t))
<1> DEFINE M == Disarm(L, t)
<1>1. /\ M \in Local /\ Alike(L, M) /\ M.rs = L.rs
      /\ M.self = L.self /\ M.slots = L.slots /\ M.snap = L.snap
      /\ M.chain = L.chain /\ M.votes = L.votes /\ M.cuts = L.cuts
  BY DEF LocalOK, Local, Disarm, Alike
<1> HIDE DEF M
<1>2. RoundOK(M.rs, L.votes)
  BY <1>1 DEF LocalOK
<1>3. LocalOK(n, V, M)
  BY <1>1, <1>2, MemoryStep
<1> QED
  BY <1>1, <1>3 DEF M

\* A change of phase changes nothing else.
LEMMA EnterPhaseOK ==
  ASSUME NEW n, NEW V, NEW L, LocalOK(n, V, L), NEW p \in Phase
  PROVE  LocalOK(n, V, EnterPhase(L, p)) /\ Alike(L, EnterPhase(L, p))
<1> DEFINE M == EnterPhase(L, p)
<1>1. /\ M \in Local /\ Alike(L, M)
      /\ M.self = L.self /\ M.slots = L.slots /\ M.snap = L.snap
      /\ M.chain = L.chain /\ M.votes = L.votes /\ M.cuts = L.cuts
  BY Zenon DEF LocalOK, Local, EnterPhase, Alike, RoundState
<1> HIDE DEF M
<1>2. RoundOK(M.rs, L.votes)
  BY <1>1 DEF LocalOK, RoundOK, Alike
<1>3. LocalOK(n, V, M)
  BY <1>1, <1>2, MemoryStep
<1> QED
  BY <1>1, <1>3 DEF M

\* RoundState.Lock changes nothing else.
LEMMA LockOK ==
  ASSUME NEW n, NEW V, NEW L, LocalOK(n, V, L), NEW h \in Hash
  PROVE  LocalOK(n, V, Lock(L, h)) /\ Alike(L, Lock(L, h))
<1> DEFINE M == Lock(L, h)
<1>0. {h} \in Maybe(Hash)
  BY DEF Maybe
<1>1. /\ M \in Local /\ Alike(L, M)
      /\ M.self = L.self /\ M.slots = L.slots /\ M.snap = L.snap
      /\ M.chain = L.chain /\ M.votes = L.votes /\ M.cuts = L.cuts
  BY Zenon, <1>0 DEF LocalOK, Local, Lock, Alike, RoundState
<1> HIDE DEF M
<1>2. RoundOK(M.rs, L.votes)
  BY <1>1 DEF LocalOK, RoundOK, Alike
<1>3. LocalOK(n, V, M)
  BY <1>1, <1>2, MemoryStep
<1> QED
  BY <1>1, <1>3 DEF M

\* RoundState.Unlock changes nothing else.
LEMMA UnlockOK ==
  ASSUME NEW n, NEW V, NEW L, LocalOK(n, V, L)
  PROVE  LocalOK(n, V, Unlock(L))
<1> DEFINE M == Unlock(L)
<1>0. {} \in Maybe(Hash)
  BY DEF Maybe
<1>1. /\ M \in Local /\ Alike(L, M)
      /\ M.self = L.self /\ M.slots = L.slots /\ M.snap = L.snap
      /\ M.chain = L.chain /\ M.votes = L.votes /\ M.cuts = L.cuts
  BY Zenon, <1>0 DEF LocalOK, Local, Unlock, Alike, RoundState
<1> HIDE DEF M
<1>2. RoundOK(M.rs, L.votes)
  BY <1>1 DEF LocalOK, RoundOK, Alike
<1>3. LocalOK(n, V, M)
  BY <1>1, <1>2, MemoryStep
<1> QED
  BY <1>3 DEF M

\* RoundState.IncrementRound drops the votes and the proposal of the old
\* round, so none is carried into the new one.
LEMMA IncrementRoundOK ==
  ASSUME NEW n, NEW V, NEW L, LocalOK(n, V, L)
  PROVE  LocalOK(n, V, IncrementRound(L))
<1> DEFINE M == IncrementRound(L)
           k == L.rs.round + 1
<1>0. {} \in Maybe(Block) /\ L \in Local
  BY DEF Maybe, LocalOK
<1>a. k \in Nat
  BY <1>0 DEF Local, RoundState
<1>b. M = [L EXCEPT !.rs.round = k, !.rs.phase = "propose", !.rs.proposal = {},
                    !.rs.prevotes = {}, !.rs.precommits = {}]
  BY DEF IncrementRound
<1> HIDE DEF k, M
<1>1. /\ M \in Local
      /\ M.rs.proposal = {} /\ M.rs.prevotes = {} /\ M.rs.precommits = {}
      /\ M.self = L.self /\ M.slots = L.slots /\ M.snap = L.snap
      /\ M.chain = L.chain /\ M.votes = L.votes /\ M.cuts = L.cuts
  BY Zenon, <1>0, <1>a, <1>b DEF Local, RoundState, Phase
<1>2. RoundOK(M.rs, L.votes)
  BY <1>1 DEF RoundOK
<1>3. LocalOK(n, V, M)
  BY <1>1, <1>2, MemoryStep
<1> QED
  BY <1>3 DEF M

\* Counting a sent prevote of this height and round keeps the round sound.
LEMMA AddPrevoteOK ==
  ASSUME NEW n, NEW V, NEW L, LocalOK(n, V, L),
         NEW v \in L.votes, v.type = "prevote",
         v.height = L.rs.height, v.round = L.rs.round
  PROVE  LocalOK(n, V, AddPrevote(L, v))
<1> DEFINE M == [L EXCEPT !.rs.prevotes = @ \cup {v}]
<1>1. /\ M \in Local
      /\ M.rs.height = L.rs.height /\ M.rs.round = L.rs.round
      /\ M.rs.proposal = L.rs.proposal
      /\ M.rs.prevotes = L.rs.prevotes \cup {v}
      /\ M.rs.precommits = L.rs.precommits
      /\ M.self = L.self /\ M.slots = L.slots /\ M.snap = L.snap
      /\ M.chain = L.chain /\ M.votes = L.votes /\ M.cuts = L.cuts
  BY Zenon DEF LocalOK, Local, RoundState
<1>2. AddPrevote(L, v) = PersistRoundState(M)
  BY DEF AddPrevote
<1> HIDE DEF M
<1>3. RoundOK(M.rs, L.votes)
  BY <1>1 DEF RoundOK, LocalOK
<1>4. LocalOK(n, V, M)
  BY <1>1, <1>3, MemoryStep
<1> QED
  BY <1>2, <1>4, PersistOK

\* Counting a sent precommit of this height and round keeps the round sound.
LEMMA AddPrecommitOK ==
  ASSUME NEW n, NEW V, NEW L, LocalOK(n, V, L),
         NEW v \in L.votes, v.type = "precommit",
         v.height = L.rs.height, v.round = L.rs.round
  PROVE  LocalOK(n, V, AddPrecommit(L, v))
<1> DEFINE M == [L EXCEPT !.rs.precommits = @ \cup {v}]
<1>1. /\ M \in Local
      /\ M.rs.height = L.rs.height /\ M.rs.round = L.rs.round
      /\ M.rs.proposal = L.rs.proposal
      /\ M.rs.prevotes = L.rs.prevotes
      /\ M.rs.precommits = L.rs.precommits \cup {v}
      /\ M.self = L.self /\ M.slots = L.slots /\ M.snap = L.snap
      /\ M.chain = L.chain /\ M.votes = L.votes /\ M.cuts = L.cuts
  BY Zenon DEF LocalOK, Local, RoundState
<1>2. AddPrecommit(L, v) = PersistRoundState(M)
  BY DEF AddPrecommit
<1> HIDE DEF M
<1>3. RoundOK(M.rs, L.votes)
  BY <1>1 DEF RoundOK, LocalOK
<1>4. LocalOK(n, V, M)
  BY Zenon, <1>1, <1>3, MemoryStep
<1> QED
  BY <1>2, <1>4, PersistOK

-----------------------------------------------------------------------------
(* Proposing and moving between rounds.                                     *)

\* The proposal a node builds is a block of its current height and round.
LEMMA NewBlockType ==
  ASSUME NEW n, NEW V, NEW L, LocalOK(n, V, L)
  PROVE  /\ NewBlock(L) \in Block
         /\ NewBlock(L).height = L.rs.height
         /\ NewBlock(L).round = L.rs.round
<1>1. /\ L.rs.height \in Nat /\ L.rs.round \in Nat /\ L.self \in Member
      /\ L.pay \in Payload /\ L.rs.lastAttest \in SUBSET Member
      /\ L.chain \in Seq(Block)
  BY DEF LocalOK, Local, RoundState, Member
<1>2. StateRoot(L.chain) \in Roots
  BY <1>1, StateRootType
<1> QED
  BY Zenon, <1>1, <1>2 DEF NewBlock, Block

\* Holding a proposal of the current height and round, in the Prevote phase.
LEMMA HoldProposalOK ==
  ASSUME NEW n, NEW V, NEW L, LocalOK(n, V, L),
         NEW b \in Block, b.height = L.rs.height, b.round = L.rs.round
  PROVE  LET M == [L EXCEPT !.rs.proposal = {b}, !.rs.phase = "prevote"]
         IN  LocalOK(n, V, M) /\ M.rs.height = L.rs.height
             /\ M.rs.round = L.rs.round
<1> DEFINE M == [L EXCEPT !.rs.proposal = {b}, !.rs.phase = "prevote"]
<1>0. {b} \in Maybe(Block)
  BY DEF Maybe
<1>1. /\ M \in Local
      /\ M.rs.height = L.rs.height /\ M.rs.round = L.rs.round
      /\ M.rs.proposal = {b}
      /\ M.rs.prevotes = L.rs.prevotes
      /\ M.rs.precommits = L.rs.precommits
      /\ M.self = L.self /\ M.slots = L.slots /\ M.snap = L.snap
      /\ M.chain = L.chain /\ M.votes = L.votes /\ M.cuts = L.cuts
  BY Zenon, <1>0 DEF LocalOK, Local, RoundState, Phase
<1> HIDE DEF M
<1>2. RoundOK(M.rs, L.votes)
  BY Zenon, <1>1 DEF RoundOK, LocalOK
<1>3. LocalOK(n, V, M)
  BY <1>1, <1>2, MemoryStep
<1> QED
  BY <1>1, <1>3 DEF M

\* broadcastProposal up to the own prevote.
LEMMA ProposeOK ==
  ASSUME NEW n, NEW V, NEW L, LocalOK(n, V, L)
  PROVE  LocalOK(n, V, Propose(L))
<1> DEFINE b == NewBlock(L)
           H == [L EXCEPT !.rs.proposal = {b}, !.rs.phase = "prevote"]
<1>1. b \in Block /\ b.height = L.rs.height /\ b.round = L.rs.round
  BY NewBlockType
<1>2. Propose(L) = BroadcastBlock(PersistRoundState(H), b)
  BY DEF Propose
<1> HIDE DEF b
<1>3. LocalOK(n, V, H)
  BY Zenon, <1>1, HoldProposalOK
<1> HIDE DEF H
<1>4. LocalOK(n, V, PersistRoundState(H))
  BY Zenon, <1>3, PersistOK
<1> QED
  BY <1>1, <1>2, <1>4, BroadcastBlockOK

\* Casting and counting an own vote.
LEMMA OwnPrevoteOK ==
  ASSUME NEW n, NEW V, NEW L, LocalOK(n, V, L), NEW h \in Hash,
         ~SlotTaken(L, "prevote")
  PROVE  LET v == OwnVote(L, "prevote", h)
             M == BroadcastVote(L, v)
         IN  /\ LocalOK(n, V, M) /\ v \in M.votes /\ v.type = "prevote"
             /\ v.height = M.rs.height /\ v.round = M.rs.round
<1> DEFINE v == OwnVote(L, "prevote", h)
           M == BroadcastVote(L, v)
<1>1. v.type = "prevote" /\ v.height = L.rs.height /\ v.round = L.rs.round
  BY OwnVoteType
<1>2. LocalOK(n, V, M) /\ M.rs = L.rs /\ v \in M.votes
  BY Zenon, BroadcastVoteOK
<1> QED
  BY Zenon, <1>1, <1>2

\* Casting an own precommit; for a block, on a polka.
LEMMA OwnPrecommitOK ==
  ASSUME NEW n, NEW V, NEW L, LocalOK(n, V, L), NEW h \in Hash,
         ~SlotTaken(L, "precommit"),
         h # Nil => HasQuorum(L.votes, "prevote", L.rs.height, L.rs.round, h)
  PROVE  LET v == OwnVote(L, "precommit", h)
             M == BroadcastVote(L, v)
         IN  /\ LocalOK(n, V, M) /\ v \in M.votes /\ v.type = "precommit"
             /\ v.height = M.rs.height /\ v.round = M.rs.round
<1> DEFINE v == OwnVote(L, "precommit", h)
           M == BroadcastVote(L, v)
<1>1. v.type = "precommit" /\ v.height = L.rs.height /\ v.round = L.rs.round
  BY OwnVoteType
<1>2. LocalOK(n, V, M) /\ M.rs = L.rs /\ v \in M.votes
  BY Zenon, BroadcastVoteOK
<1> QED
  BY Zenon, <1>1, <1>2

\* broadcastProposal in a round without votes.
LEMMA ProposeAfreshOK ==
  ASSUME NEW n, NEW V, NEW L, LocalOK(n, V, L)
  PROVE  LocalOK(n, V, ProposeAfresh(L))
<1> DEFINE b == NewBlock(L)
           P == Propose(L)
           v == OwnVote(P, "prevote", b)
           M == BroadcastVote(P, v)
<1>1. b \in Hash
  BY NewBlockType DEF Hash
<1>2. LocalOK(n, V, P)
  BY ProposeOK
<1>3. ProposeAfresh(L) = IF ~CanPropose(L) THEN L
                         ELSE IF SlotTaken(P, "prevote") THEN P
                         ELSE AddPrevote(M, v)
  BY DEF ProposeAfresh
<1> HIDE DEF b, P
<1>4. ASSUME ~SlotTaken(P, "prevote")
      PROVE  LocalOK(n, V, AddPrevote(M, v))
  <2>1. /\ LocalOK(n, V, M) /\ v \in M.votes /\ v.type = "prevote"
        /\ v.height = M.rs.height /\ v.round = M.rs.round
    BY <1>1, <1>2, <1>4, OwnPrevoteOK
  <2> HIDE DEF v, M
  <2> QED
    BY Zenon, <2>1, AddPrevoteOK
<1> QED
  BY <1>2, <1>3, <1>4

\* The next round of the same height (restartRound, precommit timeout).
LEMMA RetryHeightOK ==
  ASSUME NEW n, NEW V, NEW L, LocalOK(n, V, L)
  PROVE  LocalOK(n, V, RetryHeight(L))
<1> DEFINE I == Arm(IncrementRound(L), "propose")
<1>1. LocalOK(n, V, I)
  BY IncrementRoundOK, ArmOK DEF Timer
<1>2. RetryHeight(L)
        = PersistRoundState(IF IsProposer(I) THEN ProposeAfresh(I) ELSE I)
  BY DEF RetryHeight
<1> HIDE DEF I
<1> QED
  BY <1>1, <1>2, ProposeAfreshOK, PersistOK

\* restartRound.
LEMMA RestartRoundOK ==
  ASSUME NEW n, NEW V, NEW L, LocalOK(n, V, L)
  PROVE  LocalOK(n, V, RestartRound(L))
BY UnlockOK, RetryHeightOK DEF RestartRound

\* A fresh round state counts no vote, so it is sound over any network.
LEMMA NewRoundStateOK ==
  ASSUME NEW h \in Nat, NEW A \in SUBSET Member, NEW V
  PROVE  LET r == [NewRoundState(h) EXCEPT !.lastAttest = A]
         IN  r \in RoundState /\ RoundOK(r, V)
BY DEF NewRoundState, RoundState, RoundOK, Maybe, Phase

\* startNextRound.
LEMMA StartNextRoundOK ==
  ASSUME NEW n, NEW V, NEW L, LocalOK(n, V, L)
  PROVE  LocalOK(n, V, StartNextRound(L))
<1> DEFINE r == [NewRoundState(L.rs.height + 1) EXCEPT !.lastAttest = L.rs.lastAttest]
           M == [L EXCEPT !.rs = r]
           I == Arm(M, "propose")
<1>1. L \in Local /\ L.rs.height + 1 \in Nat /\ L.rs.lastAttest \in SUBSET Member
  BY DEF LocalOK, Local, RoundState
<1>2. r \in RoundState /\ RoundOK(r, L.votes)
  BY Zenon, <1>1, NewRoundStateOK
<1>3. StartNextRound(L) = PersistRoundState(IF IsProposer(I) THEN Arm(I, "ready") ELSE I)
  BY DEF StartNextRound
<1> HIDE DEF r
<1>4. /\ M \in Local /\ M.rs = r
      /\ M.self = L.self /\ M.slots = L.slots /\ M.snap = L.snap
      /\ M.chain = L.chain /\ M.votes = L.votes /\ M.cuts = L.cuts
  BY Zenon, <1>1, <1>2 DEF Local
<1> HIDE DEF M
<1>5. LocalOK(n, V, M)
  BY <1>2, <1>4, MemoryStep
<1>6. LocalOK(n, V, I)
  BY <1>5, ArmOK DEF Timer
<1> HIDE DEF I
<1>7. LocalOK(n, V, Arm(I, "ready"))
  BY <1>6, ArmOK DEF Timer
<1> QED
  BY Zenon, <1>3, <1>6, <1>7, PersistOK

-----------------------------------------------------------------------------
(* Votes, proposals and timers.                                             *)

\* commit: the block appended has a quorum of precommits and its height is
\* the next one, so the chain stays certified, at every crash point too.
LEMMA CommitOK ==
  ASSUME NEW n, NEW V, NEW L, LocalOK(n, V, L), NEW h,
         h \in QuorumBlocks(L.rs.precommits), Applies(L, h)
  PROVE  LocalOK(n, V, Commit(L, h))
<1> DEFINE M == [Cut(L) EXCEPT !.chain = Append(@, h)]
<1>1. L \in Local /\ Effects(L) \in Effect
  BY Zenon, EffectsOK DEF LocalOK
<1>2. /\ h \in Block /\ h.height = Len(L.chain) + 1
      /\ h.height = L.rs.height /\ h.round = L.rs.round
  BY <1>1 DEF Applies, LocalOK, RoundOK, Local, RoundState, Maybe
<1>3. L.chain \in Seq(Block) /\ Append(L.chain, h) \in Seq(Block)
  BY <1>1, <1>2 DEF Local
<1>4. /\ M \in Local /\ M.rs = L.rs /\ M.chain = Append(L.chain, h)
      /\ M.self = L.self /\ M.slots = L.slots /\ M.snap = L.snap
      /\ M.votes = L.votes /\ M.cuts = L.cuts \cup {Effects(L)}
  BY Zenon, <1>1, <1>3 DEF Local, Cut
<1>5. Commit(L, h) = ClearConsensusState(M)
  BY Zenon DEF Commit
<1> HIDE DEF M
<1>6. ChainOK(M.chain, M.votes)
  <2>1. HasQuorum(L.votes, "precommit", h.height, h.round, h)
    BY Zenon, <1>2, CertificateSent DEF LocalOK
  <2> SUFFICES ASSUME NEW i \in DOMAIN M.chain
               PROVE  /\ M.chain[i].height = i
                      /\ HasQuorum(M.votes, "precommit", i, M.chain[i].round, M.chain[i])
    BY Zenon DEF ChainOK
  <2>2. CASE i = Len(L.chain) + 1
    BY <1>2, <1>3, <1>4, <2>1, <2>2
  <2>3. CASE i # Len(L.chain) + 1
    <3>1. i \in DOMAIN L.chain /\ M.chain[i] = L.chain[i]
      BY <1>2, <1>3, <1>4, <2>3
    <3> QED
      BY Zenon, <1>4, <3>1 DEF LocalOK, DurableOK, ChainOK
  <2> QED
    BY <2>2, <2>3
<1>7. RoundOK(M.rs, M.votes) /\ DurableOK(n, V, M)
  BY Zenon, <1>4, <1>6 DEF LocalOK, DurableOK
<1>8. LocalOK(n, V, M)
  BY Zenon, <1>4, <1>7, DurableStep
<1> QED
  BY Zenon, <1>5, <1>8, ClearOK

\* handleVote on a quorum of precommits: commit, or start over.
LEMMA DecideOK ==
  ASSUME NEW n, NEW V, NEW L, LocalOK(n, V, L)
  PROVE  LocalOK(n, V, Decide(L))
<1> DEFINE decided == QuorumBlocks(L.rs.precommits) \ {Nil}
           h == CHOOSE x \in decided : TRUE
           C == EnterPhase(Disarm(L, "precommit"), "commit")
           K == Commit(C, h)
           A == VotersFor(L.rs.precommits, h)
           M == [K EXCEPT !.rs.lastAttest = A]
<1>1. Decide(L) = IF decided = {} THEN RestartRound(L)
                  ELSE IF Applies(C, h) THEN StartNextRound(M)
                  ELSE RestartRound(C)
  BY Zenon DEF Decide
<1>2. LocalOK(n, V, C) /\ C.rs.precommits = L.rs.precommits
  <2>1. LocalOK(n, V, Disarm(L, "precommit")) /\ Alike(L, Disarm(L, "precommit"))
    BY Zenon, DisarmOK
  <2> QED
    BY <2>1, EnterPhaseOK DEF Alike, Phase
<1>3. A \in SUBSET Member
  BY DEF LocalOK, Local, RoundState, VotersFor, Vote
<1>4. decided # {} => h \in QuorumBlocks(L.rs.precommits)
  BY Zenon
<1> HIDE DEF decided, h, C, A
<1>5. ASSUME decided # {}, Applies(C, h)
      PROVE  LocalOK(n, V, M)
  <2>1. LocalOK(n, V, K)
    BY <1>2, <1>4, <1>5, CommitOK
  <2> HIDE DEF K
  <2>2. /\ M \in Local
        /\ M.rs.height = K.rs.height /\ M.rs.round = K.rs.round
        /\ M.rs.proposal = K.rs.proposal
        /\ M.rs.prevotes = K.rs.prevotes
        /\ M.rs.precommits = K.rs.precommits
        /\ M.self = K.self /\ M.slots = K.slots /\ M.snap = K.snap
        /\ M.chain = K.chain /\ M.votes = K.votes /\ M.cuts = K.cuts
    BY Zenon, <1>3, <2>1 DEF LocalOK, Local, RoundState
  <2> HIDE DEF M
  <2>3. RoundOK(M.rs, K.votes)
    BY Zenon, <2>1, <2>2 DEF RoundOK, LocalOK
  <2> QED
    BY <2>1, <2>2, <2>3, MemoryStep
<1> HIDE DEF M
<1> QED
  BY <1>1, <1>2, <1>5, RestartRoundOK, StartNextRoundOK

\* handleVote on a precommit that was sent.
LEMMA HandlePrecommitOK ==
  ASSUME NEW n, NEW V, NEW L, LocalOK(n, V, L),
         NEW v \in L.votes, v.type = "precommit"
  PROVE  LocalOK(n, V, HandlePrecommit(L, v))
<1> DEFINE A == AddPrecommit(L, v)
<1>1. HandlePrecommit(L, v) =
        IF ~Counts(L.rs, v) THEN L
        ELSE IF QuorumReached(A.rs.precommits) /\ A.rs.phase = "precommit"
        THEN Decide(A) ELSE A
  BY DEF HandlePrecommit
<1>2. Counts(L.rs, v) => LocalOK(n, V, A)
  BY Zenon, AddPrecommitOK DEF Counts
<1> HIDE DEF A
<1> QED
  BY Zenon, <1>1, <1>2, DecideOK

\* broadcastPrecommit, counting the own vote.
LEMMA CastPrecommitOK ==
  ASSUME NEW n, NEW V, NEW L, LocalOK(n, V, L), NEW h \in Hash,
         h # Nil => HasQuorum(L.votes, "prevote", L.rs.height, L.rs.round, h)
  PROVE  LocalOK(n, V, CastPrecommit(L, h))
<1> DEFINE v == OwnVote(L, "precommit", h)
           M == BroadcastVote(L, v)
<1>1. CastPrecommit(L, h) = IF SlotTaken(L, "precommit") THEN L
                            ELSE HandlePrecommit(M, v)
  BY Zenon DEF CastPrecommit
<1>2. ~SlotTaken(L, "precommit") =>
        LocalOK(n, V, M) /\ v \in M.votes /\ v.type = "precommit"
  BY OwnPrecommitOK
<1> HIDE DEF v, M
<1> QED
  BY <1>1, <1>2, HandlePrecommitOK

\* handleVote on a quorum of prevotes: what quorumBlock returns has its polka
\* when the precommit is cast.
LEMMA EnterPrecommitOK ==
  ASSUME NEW n, NEW V, NEW L, LocalOK(n, V, L)
  PROVE  LocalOK(n, V, EnterPrecommit(L))
<1> DEFINE E == EnterPhase(L, "precommit")
           D == Disarm(E, "prevote")
           P == Arm(D, "precommit")
           polka == QuorumBlocks(L.rs.prevotes)
           h == CHOOSE x \in polka : TRUE
<1>1. EnterPrecommit(L) = IF polka = {} THEN CastPrecommit(P, Nil)
                          ELSE CastPrecommit(Lock(P, h), h)
  BY DEF EnterPrecommit
<1>2. LocalOK(n, V, E) /\ Alike(L, E)
  BY EnterPhaseOK DEF Phase
<1> HIDE DEF E
<1>3. LocalOK(n, V, D) /\ Alike(E, D)
  BY <1>2, DisarmOK
<1> HIDE DEF D
<1>4. LocalOK(n, V, P) /\ Alike(D, P)
  BY Zenon, <1>3, ArmOK DEF Timer
<1> HIDE DEF P
<1>5. Alike(L, P)
  BY <1>2, <1>3, <1>4 DEF Alike
<1>6. LocalOK(n, V, CastPrecommit(P, Nil))
  BY <1>4, CastPrecommitOK DEF Hash
<1>7. ASSUME polka # {}
      PROVE  LocalOK(n, V, CastPrecommit(Lock(P, h), h))
  <2>1. h \in polka
    BY Zenon, <1>7
  <2> HIDE DEF h
  <2>2. h \in Hash
    BY <2>1 DEF QuorumBlocks, LocalOK, Local, RoundState, Vote
  <2>3. HasQuorum(L.votes, "prevote", L.rs.height, L.rs.round, h)
    BY <2>1, PolkaSent DEF LocalOK
  <2> DEFINE K == Lock(P, h)
  <2>4. LocalOK(n, V, K) /\ Alike(P, K)
    BY Zenon, <1>4, <2>2, LockOK
  <2> HIDE DEF K
  <2>5. HasQuorum(K.votes, "prevote", K.rs.height, K.rs.round, h)
    BY Zenon, <1>5, <2>3, <2>4 DEF Alike
  <2>6. LocalOK(n, V, CastPrecommit(K, h))
    BY Zenon, <2>2, <2>4, <2>5, CastPrecommitOK
  <2> QED
    BY <2>6 DEF K
<1> HIDE DEF polka, h
<1> QED
  BY Zenon, <1>1, <1>6, <1>7

\* handleVote on a prevote that was sent.
LEMMA HandlePrevoteOK ==
  ASSUME NEW n, NEW V, NEW L, LocalOK(n, V, L),
         NEW v \in L.votes, v.type = "prevote"
  PROVE  LocalOK(n, V, HandlePrevote(L, v))
<1> DEFINE A == AddPrevote(L, v)
<1>1. HandlePrevote(L, v) =
        IF ~Counts(L.rs, v) THEN L
        ELSE IF QuorumReached(A.rs.prevotes) /\ A.rs.phase = "prevote"
        THEN EnterPrecommit(A) ELSE A
  BY Zenon DEF HandlePrevote
<1>2. Counts(L.rs, v) => LocalOK(n, V, A)
  BY AddPrevoteOK DEF Counts
<1> HIDE DEF A
<1> QED
  BY Zenon, <1>1, <1>2, EnterPrecommitOK

\* broadcastPrevote, counting the own vote.
LEMMA CastPrevoteOK ==
  ASSUME NEW n, NEW V, NEW L, LocalOK(n, V, L), NEW h \in Hash
  PROVE  LocalOK(n, V, CastPrevote(L, h))
<1> DEFINE v == OwnVote(L, "prevote", h)
           M == BroadcastVote(L, v)
<1>1. CastPrevote(L, h) = IF SlotTaken(L, "prevote") THEN L
                          ELSE HandlePrevote(M, v)
  BY Zenon DEF CastPrevote
<1>2. ~SlotTaken(L, "prevote") =>
        LocalOK(n, V, M) /\ v \in M.votes /\ v.type = "prevote"
  BY OwnPrevoteOK
<1> HIDE DEF v, M
<1> QED
  BY <1>1, <1>2, HandlePrevoteOK

\* handleVote.
LEMMA HandleVoteOK ==
  ASSUME NEW n, NEW V, NEW L, LocalOK(n, V, L), NEW v \in L.votes
  PROVE  LocalOK(n, V, HandleVote(L, v))
<1>1. v.type = "prevote" \/ v.type = "precommit"
  BY DEF LocalOK, Local, Vote
<1> QED
  BY Zenon, <1>1, HandlePrevoteOK, HandlePrecommitOK DEF HandleVote

\* handleProposal.
LEMMA HandleProposalOK ==
  ASSUME NEW n, NEW V, NEW L, LocalOK(n, V, L),
         NEW b \in Block, AcceptsProposal(L, b)
  PROVE  LocalOK(n, V, HandleProposal(L, b))
<1> DEFINE H == [L EXCEPT !.rs.proposal = {b}, !.rs.phase = "prevote"]
           D == Disarm(H, "propose")
           P == Arm(D, "prevote")
           x == IF L.rs.locked \subseteq {b} THEN b ELSE Nil
<1>1. HandleProposal(L, b) = PersistRoundState(CastPrevote(P, x))
  BY DEF HandleProposal
<1>2. LocalOK(n, V, H)
  BY Zenon, HoldProposalOK DEF AcceptsProposal
<1> HIDE DEF H
<1>3. LocalOK(n, V, D)
  BY <1>2, DisarmOK
<1> HIDE DEF D
<1>4. LocalOK(n, V, P)
  BY <1>3, ArmOK DEF Timer
<1>5. x \in Hash
  BY DEF Hash
<1> HIDE DEF P, x
<1>6. LocalOK(n, V, CastPrevote(P, x))
  BY <1>4, <1>5, CastPrevoteOK
<1> QED
  BY <1>1, <1>6, PersistOK

\* The timer cases of the event loop.
LEMMA OnTimerOK ==
  ASSUME NEW n, NEW V, NEW L, LocalOK(n, V, L), NEW t \in Timer
  PROVE  LocalOK(n, V, OnTimer(L, t))
<1>1. LocalOK(n, V, OnProposeReady(L))
  <2>1. LocalOK(n, V, Propose(L)) /\ NewBlock(L) \in Hash
    BY ProposeOK, NewBlockType DEF Hash
  <2>2. LocalOK(n, V, CastPrevote(Propose(L), NewBlock(L)))
    BY <2>1, CastPrevoteOK
  <2> QED
    BY <2>2 DEF OnProposeReady
<1>2. LocalOK(n, V, OnProposeTimeout(L))
  <2> DEFINE A == Arm(EnterPhase(L, "prevote"), "prevote")
  <2>1. LocalOK(n, V, A)
    BY Zenon, EnterPhaseOK, ArmOK DEF Phase, Timer
  <2>2. OnProposeTimeout(L) = IF L.rs.phase # "propose" THEN L
                              ELSE PersistRoundState(CastPrevote(A, Nil))
    BY DEF OnProposeTimeout
  <2> HIDE DEF A
  <2>3. LocalOK(n, V, CastPrevote(A, Nil))
    BY Zenon, <2>1, CastPrevoteOK DEF Hash
  <2> QED
    BY <2>2, <2>3, PersistOK
<1>3. LocalOK(n, V, OnPrevoteTimeout(L))
  <2> DEFINE A == Arm(EnterPhase(L, "precommit"), "precommit")
  <2>1. LocalOK(n, V, A)
    BY EnterPhaseOK, ArmOK DEF Phase, Timer
  <2>2. OnPrevoteTimeout(L) = IF L.rs.phase # "prevote" THEN L
                              ELSE PersistRoundState(CastPrecommit(A, Nil))
    BY DEF OnPrevoteTimeout
  <2> HIDE DEF A
  <2>3. LocalOK(n, V, CastPrecommit(A, Nil))
    BY <2>1, CastPrecommitOK DEF Hash
  <2> QED
    BY <2>2, <2>3, PersistOK
<1>4. LocalOK(n, V, OnPrecommitTimeout(L))
  BY RetryHeightOK DEF OnPrecommitTimeout
<1> QED
  BY <1>1, <1>2, <1>3, <1>4 DEF OnTimer, Timer

\* Start, with or without a saved round to resume.
LEMMA StartEngineOK ==
  ASSUME NEW n, NEW V, NEW L, LocalOK(n, V, L)
  PROVE  LocalOK(n, V, StartEngine(L))
<1> DEFINE resumable == {s \in L.snap : s.height = Len(L.chain) + 1}
           r == IF resumable = {} THEN NewRoundState(Len(L.chain) + 1)
                                  ELSE CHOOSE s \in resumable : TRUE
           T == IF r.phase = "commit" THEN {} ELSE {r.phase}
           B == [L EXCEPT !.rs = r, !.timers = T]
<1>1. StartEngine(L) =
        CASE r.phase = "propose" -> IF IsProposer(B) THEN Arm(B, "ready") ELSE B
          [] r.phase = "commit"  -> IF QuorumBlocks(r.precommits) \subseteq {Nil}
                                    THEN B ELSE Decide(B)
          [] OTHER               -> B
  BY Zenon DEF StartEngine
<1>2. L \in Local /\ Len(L.chain) + 1 \in Nat
  BY DEF LocalOK, Local
<1>3. r \in RoundState /\ RoundOK(r, L.votes)
  <2>1. CASE resumable = {}
    <3>1. NewRoundState(Len(L.chain) + 1) \in RoundState
      BY Zenon, <1>2 DEF NewRoundState, RoundState, Maybe, Phase
    <3>2. RoundOK(NewRoundState(Len(L.chain) + 1), L.votes)
      BY Zenon DEF NewRoundState, RoundOK
    <3> QED
      BY Zenon, <2>1, <3>1, <3>2
  <2>2. CASE resumable # {}
    <3>1. r \in L.snap
      BY Zenon, <2>2
    <3> QED
      BY <1>2, <3>1 DEF LocalOK, DurableOK, Local, Maybe
  <2> QED
    BY <2>1, <2>2
<1>4. T \in SUBSET Timer
  BY <1>3 DEF RoundState, Phase, Timer
<1> HIDE DEF r, T
<1>5. /\ B \in Local /\ B.rs = r
      /\ B.self = L.self /\ B.slots = L.slots /\ B.snap = L.snap
      /\ B.chain = L.chain /\ B.votes = L.votes /\ B.cuts = L.cuts
  BY Zenon, <1>2, <1>3, <1>4 DEF Local
<1> HIDE DEF B
<1>6. LocalOK(n, V, B)
  BY <1>3, <1>5, MemoryStep
<1>7. LocalOK(n, V, Arm(B, "ready")) /\ LocalOK(n, V, Decide(B))
  BY <1>6, ArmOK, DecideOK DEF Timer
<1> QED
  BY <1>1, <1>6, <1>7

-----------------------------------------------------------------------------
(* The steps of the system.                                                 *)

\* A handler begins in a sound local state.
LEMMA LoadOK ==
  ASSUME Inv, NEW n \in Node, NEW pay \in Payload
  PROVE  LocalOK(n, votes, Load(n, pay))
<1> DEFINE L == Load(n, pay)
<1>1. /\ L.self = n /\ L.pay = pay /\ L.rs = rs[n] /\ L.timers = timers[n]
      /\ L.slots = slots[n] /\ L.snap = snap[n] /\ L.chain = chain[n]
      /\ L.proposals = proposals /\ L.votes = votes /\ L.cuts = {}
  BY Zenon DEF Load
<1>2. L \in Local
  BY Zenon DEF Load, Local, Inv, TypeOK
<1> HIDE DEF L
<1>3. RoundOK(L.rs, L.votes) /\ DurableOK(n, votes, L)
  BY <1>1 DEF Inv, DurableOK
<1>4. LocalOK(n, votes, L)
  BY Zenon, <1>1, <1>2, <1>3 DEF LocalOK
<1> QED
  BY <1>4 DEF L

\* What a handler of n stores keeps the durable part of the invariant, for n
\* and for the others: their slots hold all their votes because every new
\* vote is from n.
LEMMA StoreOK ==
  ASSUME Inv, NEW n \in Node, NEW E, DurableOK(n, votes, E),
         E.slots \in SUBSET Vote, E.snap \in Maybe(RoundState),
         E.chain \in Seq(Block), E.proposals \in SUBSET Block,
         E.votes \in SUBSET Vote, Store(n, E)
  PROVE  /\ slots' \in [Node -> SUBSET Vote]
         /\ snap' \in [Node -> Maybe(RoundState)]
         /\ chain' \in [Node -> Seq(Block)]
         /\ proposals' \in SUBSET Block
         /\ votes' \in SUBSET Vote
         /\ votes \subseteq votes'
         /\ votes' = E.votes
         /\ PolkasOK(votes')
         /\ \A m \in Node : /\ SlotsOK(m, slots'[m], votes')
                            /\ ChainOK(chain'[m], votes')
                            /\ \A s \in snap'[m] : RoundOK(s, votes')
<1>1. /\ slots' = [slots EXCEPT ![n] = E.slots]
      /\ snap' = [snap EXCEPT ![n] = E.snap]
      /\ chain' = [chain EXCEPT ![n] = E.chain]
      /\ proposals' = E.proposals
      /\ votes' = E.votes
  BY Zenon DEF Store
<1>2. /\ slots' \in [Node -> SUBSET Vote]
      /\ snap' \in [Node -> Maybe(RoundState)]
      /\ chain' \in [Node -> Seq(Block)]
  BY Zenon, <1>1 DEF Inv, TypeOK
<1>3. votes \subseteq votes' /\ PolkasOK(votes') /\ \A v \in votes' \ votes : v.from = n
  BY Zenon, <1>1 DEF DurableOK
<1>4. ASSUME NEW m \in Node
      PROVE  /\ SlotsOK(m, slots'[m], votes')
             /\ ChainOK(chain'[m], votes')
             /\ \A s \in snap'[m] : RoundOK(s, votes')
  <2>1. CASE m = n
    <3>1. slots'[m] = E.slots /\ chain'[m] = E.chain /\ snap'[m] = E.snap
      BY Zenon, <1>1, <2>1 DEF Inv, TypeOK
    <3> QED
      BY Zenon, <1>1, <2>1, <3>1 DEF DurableOK
  <2>2. CASE m # n
    <3>1. slots'[m] = slots[m] /\ chain'[m] = chain[m] /\ snap'[m] = snap[m]
      BY Zenon, <1>1, <2>2 DEF Inv, TypeOK
    <3>2. SlotsOK(m, slots[m], votes')
      BY Zenon, <1>3, <2>2 DEF Inv, SlotsOK
    <3>3. ChainOK(chain[m], votes')
      BY Zenon, <1>3, ChainGrows DEF Inv
    <3>4. \A s \in snap[m] : RoundOK(s, votes')
      BY <1>3, RoundGrows DEF Inv
    <3> QED
      BY Zenon, <3>1, <3>2, <3>3, <3>4
  <2> QED
    BY Zenon, <2>1, <2>2
<1> QED
  BY Zenon, <1>1, <1>2, <1>3, <1>4

\* A crash loses the memory of one node; what replaces it is sound.
LEMMA HaltOK ==
  ASSUME TypeOK, NEW n \in Node, Halt(n)
  PROVE  /\ rs' \in [Node -> RoundState] /\ timers' \in [Node -> SUBSET Timer]
         /\ up' \in [Node -> BOOLEAN] /\ crashes' \in Nat
         /\ \A W : (\A m \in Node : RoundOK(rs[m], W)) => \A m \in Node : RoundOK(rs'[m], W)
<1>1. NewRoundState(0) \in RoundState
  BY Zenon DEF NewRoundState, RoundState, Maybe, Phase
<1>2. \A W : RoundOK(NewRoundState(0), W)
  BY DEF NewRoundState, RoundOK
<1>3. /\ rs' = [rs EXCEPT ![n] = NewRoundState(0)]
      /\ timers' = [timers EXCEPT ![n] = {}]
      /\ up' = [up EXCEPT ![n] = FALSE]
      /\ crashes' = crashes + 1
  BY DEF Halt
<1>4. rs' \in [Node -> RoundState] /\ timers' \in [Node -> SUBSET Timer]
  BY <1>1, <1>3 DEF TypeOK
<1>5. up' \in [Node -> BOOLEAN]
  BY <1>3 DEF TypeOK
<1>6. crashes' \in Nat
  BY <1>3 DEF TypeOK
<1>7. \A m \in Node : rs'[m] = rs[m] \/ rs'[m] = NewRoundState(0)
  BY <1>3 DEF TypeOK
<1> QED
  BY Zenon, <1>2, <1>4, <1>5, <1>6, <1>7

\* A handler that ends, or dies between two effects, preserves the invariant.
LEMMA RunOK ==
  ASSUME Inv, NEW n \in Node, NEW L, LocalOK(n, votes, L), Run(n, L)
  PROVE  Inv'
<1>0. L \in Local
  BY Zenon DEF LocalOK
<1>1. CASE Complete(n, L)
  <2>1. /\ L.slots \in SUBSET Vote /\ L.snap \in Maybe(RoundState)
        /\ L.chain \in Seq(Block) /\ L.proposals \in SUBSET Block
        /\ L.votes \in SUBSET Vote /\ L.rs \in RoundState
        /\ L.timers \in SUBSET Timer
    BY Zenon, <1>0 DEF Local
  <2>2. Store(n, L) /\ DurableOK(n, votes, L) /\ RoundOK(L.rs, L.votes)
    BY Zenon, <1>1 DEF Complete, LocalOK
  <2>3. /\ slots' \in [Node -> SUBSET Vote]
        /\ snap' \in [Node -> Maybe(RoundState)]
        /\ chain' \in [Node -> Seq(Block)]
        /\ proposals' \in SUBSET Block
        /\ votes' \in SUBSET Vote
        /\ votes \subseteq votes'
        /\ votes' = L.votes
        /\ PolkasOK(votes')
        /\ \A m \in Node : /\ SlotsOK(m, slots'[m], votes')
                           /\ ChainOK(chain'[m], votes')
                           /\ \A s \in snap'[m] : RoundOK(s, votes')
    BY Zenon, <2>1, <2>2, StoreOK
  <2>4. /\ rs' = [rs EXCEPT ![n] = L.rs]
        /\ timers' = [timers EXCEPT ![n] = L.timers]
        /\ up' = [up EXCEPT ![n] = TRUE]
        /\ crashes' = crashes
    BY Zenon, <1>1 DEF Complete
  <2>5. rs' \in [Node -> RoundState] /\ timers' \in [Node -> SUBSET Timer]
    BY Zenon, <2>1, <2>4 DEF Inv, TypeOK
  <2>6. up' \in [Node -> BOOLEAN] /\ crashes' \in Nat
    BY Zenon, <2>4 DEF Inv, TypeOK
  <2>7. ASSUME NEW m \in Node
        PROVE  RoundOK(rs'[m], votes')
    <3>1. m = n => RoundOK(rs'[m], votes')
      BY Zenon, <2>2, <2>3, <2>4 DEF Inv, TypeOK
    <3>2. m # n => rs'[m] = rs[m]
      BY <2>4 DEF Inv, TypeOK
    <3>3. RoundOK(rs[m], votes')
      <4>1. votes \subseteq votes' /\ RoundOK(rs[m], votes)
        BY Zenon, <2>3 DEF Inv
      <4> QED
        BY ONLY Zenon, <4>1, RoundGrows
    <3> QED
      BY Zenon, <3>1, <3>2, <3>3
  <2>8. TypeOK'
    BY Zenon, <2>3, <2>5, <2>6 DEF TypeOK
  <2> QED
    BY Zenon, <2>3, <2>7, <2>8 DEF Inv
<1>2. CASE Halt(n) /\ \E E \in L.cuts : Store(n, E)
  <2>1. PICK E \in L.cuts : Store(n, E)
    BY Zenon, <1>2
  <2>2. /\ E.slots \in SUBSET Vote /\ E.snap \in Maybe(RoundState)
        /\ E.chain \in Seq(Block) /\ E.proposals \in SUBSET Block
        /\ E.votes \in SUBSET Vote /\ DurableOK(n, votes, E)
    BY Zenon, <1>0 DEF Local, Effect, LocalOK
  <2>3. /\ slots' \in [Node -> SUBSET Vote]
        /\ snap' \in [Node -> Maybe(RoundState)]
        /\ chain' \in [Node -> Seq(Block)]
        /\ proposals' \in SUBSET Block
        /\ votes' \in SUBSET Vote
        /\ votes \subseteq votes'
        /\ PolkasOK(votes')
        /\ \A m \in Node : /\ SlotsOK(m, slots'[m], votes')
                           /\ ChainOK(chain'[m], votes')
                           /\ \A s \in snap'[m] : RoundOK(s, votes')
    BY Zenon, <2>1, <2>2, StoreOK
  <2>4. /\ rs' \in [Node -> RoundState] /\ timers' \in [Node -> SUBSET Timer]
        /\ up' \in [Node -> BOOLEAN] /\ crashes' \in Nat
        /\ \A W : (\A m \in Node : RoundOK(rs[m], W)) => \A m \in Node : RoundOK(rs'[m], W)
    BY Zenon, <1>2, HaltOK DEF Inv
  <2>5. ASSUME NEW m \in Node PROVE RoundOK(rs[m], votes')
    <3>1. votes \subseteq votes' /\ RoundOK(rs[m], votes)
      BY Zenon, <2>3 DEF Inv
    <3> QED
      BY ONLY Zenon, <3>1, RoundGrows
  <2>6. \A m \in Node : RoundOK(rs'[m], votes')
    BY ONLY Zenon, <2>4, <2>5
  <2>7. TypeOK'
    BY Zenon, <2>3, <2>4 DEF TypeOK
  <2> QED
    BY Zenon, <2>3, <2>6, <2>7 DEF Inv
<1> QED
  BY <1>1, <1>2 DEF Run

\* The invariant holds before any node has started.
LEMMA InvInit == Init => Inv
<1> SUFFICES ASSUME Init PROVE Inv
  BY Zenon
<1>1. NewRoundState(0) \in RoundState
  BY Zenon DEF NewRoundState, RoundState, Maybe, Phase
<1>2. RoundOK(NewRoundState(0), votes)
  BY DEF NewRoundState, RoundOK
<1>3. {} \in Maybe(RoundState) /\ <<>> \in Seq(Block)
  BY DEF Maybe
<1>4. TypeOK
  BY Zenon, <1>1, <1>3 DEF Init, TypeOK
<1>5. ASSUME NEW n \in Node
      PROVE  /\ RoundOK(rs[n], votes)
             /\ SlotsOK(n, slots[n], votes)
             /\ ChainOK(chain[n], votes)
             /\ \A s \in snap[n] : RoundOK(s, votes)
  BY <1>2 DEF Init, SlotsOK, ChainOK
<1>6. PolkasOK(votes)
  BY DEF Init, PolkasOK
<1> QED
  BY <1>4, <1>5, <1>6 DEF Inv

\* A step of a faulty validator only adds messages that are not a node's.
LEMMA FaultyOK ==
  ASSUME Inv, NEW f \in Validator \ Node, FaultyVote(f) \/ FaultyPropose(f)
  PROVE  Inv'
<1>1. CASE FaultyVote(f)
  <2>1. PICK v \in [type : {"prevote", "precommit"}, height : 1 .. MaxHeight,
                    round : 0 .. MaxRound, hash : proposals \cup {Nil},
                    from : {f}] :
               votes' = votes \cup {v}
    BY Zenon, <1>1 DEF FaultyVote
  <2>2. UNCHANGED <<rs, timers, up, slots, snap, chain, proposals, crashes>>
    BY Zenon, <1>1 DEF FaultyVote
  <2>3. v \in Vote /\ v.from = f
    BY <2>1, BoundsNat DEF Inv, TypeOK, Vote, Hash, Member
  <2>4. TypeOK'
    BY Zenon, <2>1, <2>2, <2>3 DEF Inv, TypeOK
  <2>5. PolkasOK(votes')
    BY Zenon, <2>1, <2>3, QuorumGrows DEF Inv, PolkasOK
  <2>6. ASSUME NEW n \in Node
        PROVE  /\ RoundOK(rs[n], votes')
               /\ SlotsOK(n, slots[n], votes')
               /\ ChainOK(chain[n], votes')
               /\ \A s \in snap[n] : RoundOK(s, votes')
    <3>1. SlotsOK(n, slots[n], votes')
      BY <2>1, <2>3 DEF Inv, SlotsOK
    <3>2. votes \subseteq votes' /\ RoundOK(rs[n], votes) /\ ChainOK(chain[n], votes)
      BY Zenon, <2>1 DEF Inv
    <3>3. ChainOK(chain[n], votes') /\ RoundOK(rs[n], votes')
      BY ONLY Zenon, <3>2, ChainGrows, RoundGrows
    <3>4. ASSUME NEW s \in snap[n] PROVE RoundOK(s, votes')
      <4>1. RoundOK(s, votes)
        BY Zenon DEF Inv
      <4> QED
        BY ONLY Zenon, <3>2, <4>1, RoundGrows
    <3> QED
      BY ONLY Zenon, <3>1, <3>3, <3>4
  <2> QED
    BY ONLY Zenon, <2>2, <2>4, <2>5, <2>6 DEF Inv
<1>2. CASE FaultyPropose(f)
  <2>1. PICK n \in Node, r \in 0 .. MaxRound, pay \in Payload :
          proposals' = proposals \cup
            {[height |-> Len(chain[n]) + 1, round |-> r, proposer |-> f,
              parent |-> StateRoot(chain[n]), txs |-> pay, attest |-> {}]}
    BY Zenon, <1>2 DEF FaultyPropose
  <2>2. UNCHANGED <<rs, timers, up, slots, snap, chain, votes, crashes>>
    BY Zenon, <1>2 DEF FaultyPropose
  <2>3. chain[n] \in Seq(Block) /\ StateRoot(chain[n]) \in Roots
    BY StateRootType DEF Inv, TypeOK
  <2>4. Len(chain[n]) + 1 \in Nat /\ r \in Nat
    BY <2>3, BoundsNat
  <2> DEFINE h == Len(chain[n]) + 1
             root == StateRoot(chain[n])
             b == [height |-> h, round |-> r, proposer |-> f, parent |-> root,
                   txs |-> pay, attest |-> {}]
  <2>5. proposals' \subseteq Block
    <3>1. h \in Nat /\ r \in Nat /\ root \in Roots
      BY Zenon, <2>3, <2>4
    <3> HIDE DEF h, root
    <3>2. b \in Block
      BY Zenon, <3>1 DEF Block, Member
    <3>3. proposals \subseteq Block
      BY Zenon DEF Inv, TypeOK
    <3>4. proposals' = proposals \cup {b}
      BY Zenon, <2>1 DEF h, root
    <3> HIDE DEF b
    <3> QED
      BY Zenon, <3>2, <3>3, <3>4
  <2>6. TypeOK'
    BY Zenon, <2>2, <2>5 DEF Inv, TypeOK
  <2> QED
    BY <2>2, <2>6 DEF Inv
<1> QED
  BY Zenon, <1>1, <1>2

\* Every step of a node, a crash, a restart or a faulty validator preserves the
\* invariant.
LEMMA InvNext == Inv /\ [Next]_vars => Inv'
<1> SUFFICES ASSUME Inv, [Next]_vars PROVE Inv'
  BY Zenon
<1>1. CASE UNCHANGED vars
  BY <1>1 DEF vars, Inv, TypeOK
<1>2. ASSUME NEW n \in Node, ReceiveVote(n) PROVE Inv'
  <2>1. PICK v \in votes, pay \in Payload : Run(n, HandleVote(Load(n, pay), v))
    BY Zenon, <1>2 DEF ReceiveVote
  <2>2. LocalOK(n, votes, Load(n, pay)) /\ v \in Load(n, pay).votes
    <3>1. LocalOK(n, votes, Load(n, pay))
      BY LoadOK
    <3>2. Load(n, pay).votes = votes
      BY Zenon DEF Load
    <3> QED
      BY <3>1, <3>2
  <2>3. LocalOK(n, votes, HandleVote(Load(n, pay), v))
    BY Zenon, <2>2, HandleVoteOK
  <2> QED
    BY <2>1, <2>3, RunOK
<1>3. ASSUME NEW n \in Node, ReceiveProposal(n) PROVE Inv'
  <2>1. PICK b \in proposals, pay \in Payload :
          AcceptsProposal(Load(n, pay), b) /\ Run(n, HandleProposal(Load(n, pay), b))
    BY Zenon, <1>3 DEF ReceiveProposal
  <2>2. LocalOK(n, votes, Load(n, pay)) /\ b \in Block
    BY Zenon, LoadOK DEF Inv, TypeOK
  <2>3. LocalOK(n, votes, HandleProposal(Load(n, pay), b))
    BY Zenon, <2>1, <2>2, HandleProposalOK
  <2> QED
    BY Zenon, <2>1, <2>3, RunOK
<1>4. ASSUME NEW n \in Node, NEW t \in Timer, TimerFires(n, t) PROVE Inv'
  <2>1. PICK pay \in Payload : Run(n, OnTimer(Disarm(Load(n, pay), t), t))
    BY Zenon, <1>4 DEF TimerFires
  <2>2. LocalOK(n, votes, Disarm(Load(n, pay), t))
    BY Zenon, LoadOK, DisarmOK
  <2>3. LocalOK(n, votes, OnTimer(Disarm(Load(n, pay), t), t))
    BY Zenon, <2>2, OnTimerOK
  <2> QED
    BY Zenon, <2>1, <2>3, RunOK
<1>5. ASSUME NEW n \in Node, Crash(n) PROVE Inv'
  <2>1. UNCHANGED <<slots, snap, chain, proposals, votes>> /\ Halt(n)
    BY Zenon, <1>5 DEF Crash
  <2>2. /\ rs' \in [Node -> RoundState] /\ timers' \in [Node -> SUBSET Timer]
        /\ up' \in [Node -> BOOLEAN] /\ crashes' \in Nat
        /\ \A W : (\A m \in Node : RoundOK(rs[m], W)) => \A m \in Node : RoundOK(rs'[m], W)
    BY Zenon, <2>1, HaltOK DEF Inv
  <2>3. \A m \in Node : RoundOK(rs'[m], votes)
    BY Zenon, <2>2 DEF Inv
  <2>4. TypeOK'
    BY <2>1, <2>2 DEF Inv, TypeOK
  <2> QED
    BY <2>1, <2>3, <2>4 DEF Inv
<1>6. ASSUME NEW n \in Node, Restart(n) PROVE Inv'
  <2>1. PICK pay \in Payload : Run(n, StartEngine(Load(n, pay)))
    BY <1>6 DEF Restart
  <2>2. LocalOK(n, votes, StartEngine(Load(n, pay)))
    BY LoadOK, StartEngineOK
  <2> QED
    BY <2>1, <2>2, RunOK
<1> QED
  BY <1>1, <1>2, <1>3, <1>4, <1>5, <1>6, FaultyOK DEF Next

-----------------------------------------------------------------------------
(* The theorems.                                                            *)

\* The inductive invariant holds in every reachable state of the engine.
THEOREM InvAlways == Spec => []Inv
BY InvInit, InvNext, PTL DEF Spec

\* The engine's state is always well formed.
THEOREM TypeCorrect == Spec => []TypeOK
<1>1. Inv => TypeOK
  BY DEF Inv
<1> QED
  BY <1>1, InvAlways, PTL

\* RecordConsensusVote keeps a node from ever sending two different votes for
\* one height, round and type, across any number of crashes and restarts.
THEOREM NeverEquivocates == Spec => []NoEquivocation
<1>1. Inv => NoEquivocation
  BY DEF Inv, NoEquivocation, SlotsOK, SameSlot
<1> QED
  BY <1>1, InvAlways, PTL

\* handleVote lets a node precommit a block only on a quorum of prevotes for it
\* in that round.
THEOREM PrecommitsJustified == Spec => []PrecommitHasPolka
<1>1. Inv => PrecommitHasPolka
  BY DEF Inv, PrecommitHasPolka, PolkasOK
<1> QED
  BY <1>1, InvAlways, PTL

\* Every applied block has a quorum of precommits of its height and round.
THEOREM CommitsCertified == Spec => []CommitHasCertificate
<1>1. Inv => CommitHasCertificate
  BY DEF Inv, CommitHasCertificate, ChainOK
<1> QED
  BY <1>1, InvAlways, PTL

\* With less than 1/3 of the stake faulty, no two nodes commit different blocks
\* of one height in one round.
THEOREM RoundsAgree == Spec => []RoundAgreement
<1>1. Inv => RoundAgreement
  <2> SUFFICES ASSUME Inv, NEW m \in Node, NEW n \in Node,
                      NEW i \in DOMAIN chain[m] \cap DOMAIN chain[n],
                      chain[m][i].round = chain[n][i].round
               PROVE  chain[m][i] = chain[n][i]
    BY Zenon DEF RoundAgreement
  <2> DEFINE r == chain[m][i].round
  <2>1. PICK P \in Quorums : P \subseteq VotesFor(votes, "precommit", i, r, chain[m][i])
    BY Zenon DEF Inv, ChainOK, HasQuorum
  <2>2. PICK Q \in Quorums : Q \subseteq VotesFor(votes, "precommit", i, r, chain[n][i])
    BY Zenon DEF Inv, ChainOK, HasQuorum
  <2>3. PICK x \in Node : x \in P /\ x \in Q
    BY QuorumsMeet
  <2>4. PICK v \in votes : /\ v.from = x /\ v.type = "precommit"
                           /\ v.height = i /\ v.round = r /\ v.hash = chain[m][i]
    BY Zenon, <2>1, <2>3 DEF VotesFor
  <2>5. PICK w \in votes : /\ w.from = x /\ w.type = "precommit"
                           /\ w.height = i /\ w.round = r /\ w.hash = chain[n][i]
    BY Zenon, <2>2, <2>3 DEF VotesFor
  <2> HIDE DEF r
  <2>6. v = w
    <3>1. SlotsOK(x, slots[x], votes)
      BY Zenon DEF Inv
    <3>2. v \in slots[x] /\ w \in slots[x]
      BY ONLY Zenon, <2>4, <2>5, <3>1 DEF SlotsOK
    <3>3. SameSlot(v, w)
      BY ONLY <2>4, <2>5 DEF SameSlot
    <3> QED
      BY ONLY Zenon, <3>1, <3>2, <3>3 DEF SlotsOK
  <2> QED
    BY Zenon, <2>4, <2>5, <2>6
<1> QED
  BY <1>1, InvAlways, PTL

=============================================================================

---------------------------- MODULE EngineProofs ----------------------------
(***************************************************************************)
(* Proofs about one engine of Consensus and its disk: the height it works   *)
(* on, the lock, the saved round, its own proposals and its timers, through *)
(* every handler, every crash inside one and every restart.                 *)
(*                                                                          *)
(* The first part is about the operators that handlers are composed of.     *)
(* As in ConsensusProofs, an invariant of the local state L is carried      *)
(* through them: EngineOK(n, V, Q, L), where V and Q are the votes and the  *)
(* proposals on the network when the handler of n began.                    *)
(***************************************************************************)
EXTENDS ConsensusProofs


\* What a round state is locked on had a quorum of prevotes, in a round of its
\* height that is not in the future.
Justified(r, V) ==
  \A h \in r.locked : \E k \in 0 .. r.round : HasQuorum(V, "prevote", r.height, k, h)

\* A node in round state r will not propose again in the turn of block b.
Ahead(r, b) ==
  /\ r.height = b.height
  /\ b.round < r.round \/ (b.round = r.round /\ r.phase # "propose")

SnapshotOK(s, E) ==
  /\ s.phase # "commit"
  /\ s.height <= Len(E.chain) + 1
  /\ Justified(s, E.votes)

SameTurn(a, b) == a.height = b.height /\ a.round = b.round

\* What holds of the disk of n and of the network at any moment of a handler
\* of n: in particular the disk remembers every turn in which n proposed.
DiskOK(n, Q, E) ==
  /\ Q \subseteq E.proposals
  /\ \A b \in E.proposals \ Q : b.proposer = n
  /\ \A a, b \in E.proposals :
       (a.proposer = n /\ b.proposer = n /\ SameTurn(a, b)) => a = b
  /\ \A s \in E.snap : SnapshotOK(s, E)
  /\ \A b \in E.proposals :
       b.proposer = n => b.height <= Len(E.chain) \/ \E s \in E.snap : Ahead(s, b)

\* What holds of the memory of n between the operators of a handler.
MemoryOK(n, L) ==
  /\ L.rs.height = Len(L.chain) + 1
  /\ Justified(L.rs, L.votes)
  /\ \A b \in L.proposals :
       b.proposer = n => b.height <= Len(L.chain) \/ Ahead(L.rs, b)

EngineOK(n, V, Q, L) ==
  /\ LocalOK(n, V, L)
  /\ MemoryOK(n, L)
  /\ DiskOK(n, Q, L)
  /\ \A E \in L.cuts : DiskOK(n, Q, E)

\* A timer will end the phase, or n entered it with its own proposal.
Timed(n, L) ==
  \/ L.rs.phase \in L.timers
  \/ L.rs.phase = "prevote" /\ \E b \in L.rs.proposal : b.proposer = n

-----------------------------------------------------------------------------
(* The elementary steps of a handler.                                       *)

\* A lock stays justified as more votes are sent.
LEMMA JustifiedGrows ==
  ASSUME NEW r, NEW V, NEW W, V \subseteq W, Justified(r, V)
  PROVE  Justified(r, W)
BY QuorumGrows DEF Justified

\* A step that leaves the disk and the network alone.
LEMMA InMemory ==
  ASSUME NEW n, NEW V, NEW Q, NEW L, EngineOK(n, V, Q, L),
         NEW M, LocalOK(n, V, M), MemoryOK(n, M),
         M.snap = L.snap, M.chain = L.chain, M.votes = L.votes,
         M.proposals = L.proposals, M.cuts = L.cuts
  PROVE  EngineOK(n, V, Q, M)
BY DEF EngineOK, DiskOK, SnapshotOK

\* A step with one effect on the disk or the network, before which a crash may
\* come.
LEMMA OnDisk ==
  ASSUME NEW n, NEW V, NEW Q, NEW L, EngineOK(n, V, Q, L),
         NEW M, LocalOK(n, V, M), MemoryOK(n, M), DiskOK(n, Q, M),
         M.cuts = L.cuts \cup {Effects(L)}
  PROVE  EngineOK(n, V, Q, M)
<1>1. DiskOK(n, Q, Effects(L))
  BY DEF EngineOK, DiskOK, SnapshotOK, Effects
<1> QED
  BY <1>1 DEF EngineOK

\* persistRoundState: a round that is not in the Commit phase may be saved.
LEMMA PersistEngine ==
  ASSUME NEW n, NEW V, NEW Q, NEW L, EngineOK(n, V, Q, L),
         L.rs.phase # "commit"
  PROVE  LET M == PersistRoundState(L)
         IN  EngineOK(n, V, Q, M) /\ M.rs = L.rs /\ M.timers = L.timers
             /\ M.snap = {L.rs} /\ M.proposals = L.proposals
             /\ M.votes = L.votes
<1> DEFINE M == PersistRoundState(L)
<1>1. /\ M.rs = L.rs /\ M.timers = L.timers /\ M.proposals = L.proposals
      /\ M.snap = {L.rs} /\ M.chain = L.chain /\ M.votes = L.votes
      /\ M.cuts = L.cuts \cup {Effects(L)}
  BY Zenon DEF EngineOK, LocalOK, Local, Cut, PersistRoundState
<1>2. LocalOK(n, V, M)
  BY PersistOK DEF EngineOK
<1> HIDE DEF M
<1>3. MemoryOK(n, M)
  BY <1>1 DEF EngineOK, MemoryOK
<1>4. Len(L.chain) \in Nat /\ L.rs.height \in Nat
  BY DEF EngineOK, LocalOK, Local, RoundState
<1>5. DiskOK(n, Q, M)
  <2>1. \A s \in M.snap : SnapshotOK(s, M)
    BY <1>1, <1>4 DEF EngineOK, MemoryOK, SnapshotOK
  <2>2. \A b \in M.proposals :
          b.proposer = n => b.height <= Len(M.chain) \/ \E s \in M.snap : Ahead(s, b)
    BY <1>1 DEF EngineOK, MemoryOK
  <2> QED
    BY <1>1, <2>1, <2>2 DEF EngineOK, DiskOK
<1>6. EngineOK(n, V, Q, M)
  BY <1>1, <1>2, <1>3, <1>5, OnDisk
<1> QED
  BY <1>1, <1>6 DEF M

\* SendVote and RecordVote touch neither the round nor a proposal.
LEMMA BroadcastVoteEngine ==
  ASSUME NEW n, NEW V, NEW Q, NEW L, EngineOK(n, V, Q, L),
         NEW type \in {"prevote", "precommit"}, NEW h \in Hash,
         ~SlotTaken(L, type),
         (type = "precommit" /\ h # Nil)
           => HasQuorum(L.votes, "prevote", L.rs.height, L.rs.round, h)
  PROVE  LET v == OwnVote(L, type, h)
             M == BroadcastVote(L, v)
         IN  /\ EngineOK(n, V, Q, M) /\ M.rs = L.rs /\ M.timers = L.timers
             /\ v \in M.votes /\ v.type = type
<1> DEFINE v == OwnVote(L, type, h)
           R == RecordVote(L, v)
           M == BroadcastVote(L, v)
<1>0. LocalOK(n, V, L) /\ L \in Local
  BY DEF EngineOK, LocalOK
<1>1. v \in Vote /\ v.from = n /\ v.type = type /\ v.hash = h
      /\ v.height = L.rs.height /\ v.round = L.rs.round
  BY <1>0, OwnVoteType
<1> HIDE DEF v
<1>2. \A w \in L.slots : ~SameSlot(v, w)
  BY <1>1 DEF SlotTaken, SameSlot
<1>3. LocalOK(n, V, R) /\ R.votes = L.votes /\ v \in R.slots
  BY <1>0, <1>1, <1>2, RecordVoteOK
<1>4. /\ R.rs = L.rs /\ R.timers = L.timers /\ R.proposals = L.proposals
      /\ R.snap = L.snap /\ R.chain = L.chain
      /\ R.cuts = L.cuts \cup {Effects(L)}
  BY Zenon, <1>0 DEF Local, Cut, RecordVote
<1>5. M = SendVote(R, v)
  BY DEF BroadcastVote
<1> HIDE DEF R, M
<1>6. MemoryOK(n, R) /\ DiskOK(n, Q, R)
  BY <1>3, <1>4 DEF EngineOK, MemoryOK, DiskOK, SnapshotOK
<1>7. EngineOK(n, V, Q, R)
  BY <1>3, <1>4, <1>6, OnDisk
<1>8. LocalOK(n, V, M) /\ v \in M.votes
  BY <1>1, <1>3, <1>4, <1>5, SendVoteOK
<1>9. /\ M.rs = R.rs /\ M.timers = R.timers /\ M.proposals = R.proposals
      /\ M.snap = R.snap /\ M.chain = R.chain /\ M.votes = R.votes \cup {v}
      /\ M.cuts = R.cuts \cup {Effects(R)}
  BY Zenon, <1>3, <1>5 DEF LocalOK, Local, Cut, SendVote
<1>10. R.votes \subseteq M.votes
  BY <1>9
<1>11. MemoryOK(n, M)
  BY <1>7, <1>9, <1>10, JustifiedGrows DEF EngineOK, MemoryOK
<1>12. \A s \in M.snap : SnapshotOK(s, M)
  BY Zenon, <1>7, <1>9, <1>10, JustifiedGrows DEF EngineOK, DiskOK, SnapshotOK
<1>13. DiskOK(n, Q, M)
  BY <1>7, <1>9, <1>12 DEF EngineOK, DiskOK
<1>14. EngineOK(n, V, Q, M)
  BY <1>7, <1>8, <1>9, <1>11, <1>13, OnDisk
<1> QED
  BY <1>1, <1>4, <1>8, <1>9, <1>14 DEF v, M

\* Resetting a timer.
LEMMA ArmEngine ==
  ASSUME NEW n, NEW V, NEW Q, NEW L, EngineOK(n, V, Q, L), NEW t \in Timer
  PROVE  /\ EngineOK(n, V, Q, Arm(L, t)) /\ Arm(L, t).rs = L.rs
         /\ Arm(L, t).timers = L.timers \cup {t}
         /\ Arm(L, t).self = L.self
<1> DEFINE M == Arm(L, t)
<1>1. /\ M.rs = L.rs /\ M.timers = L.timers \cup {t} /\ M.self = L.self
      /\ M.proposals = L.proposals /\ M.snap = L.snap /\ M.chain = L.chain
      /\ M.votes = L.votes /\ M.cuts = L.cuts
  BY DEF EngineOK, LocalOK, Local, Arm
<1>2. LocalOK(n, V, M)
  BY ArmOK DEF EngineOK
<1> HIDE DEF M
<1>3. MemoryOK(n, M)
  BY <1>1 DEF EngineOK, MemoryOK
<1>4. EngineOK(n, V, Q, M)
  BY <1>1, <1>2, <1>3, InMemory
<1> QED
  BY <1>1, <1>4 DEF M

\* Stopping a timer.
LEMMA DisarmEngine ==
  ASSUME NEW n, NEW V, NEW Q, NEW L, EngineOK(n, V, Q, L), NEW t
  PROVE  /\ EngineOK(n, V, Q, Disarm(L, t)) /\ Disarm(L, t).rs = L.rs
         /\ Disarm(L, t).timers = L.timers \ {t}
         /\ Disarm(L, t).self = L.self
<1> DEFINE M == Disarm(L, t)
<1>1. /\ M.rs = L.rs /\ M.timers = L.timers \ {t} /\ M.self = L.self
      /\ M.proposals = L.proposals /\ M.snap = L.snap /\ M.chain = L.chain
      /\ M.votes = L.votes /\ M.cuts = L.cuts
  BY DEF EngineOK, LocalOK, Local, Disarm
<1>2. LocalOK(n, V, M)
  BY DisarmOK DEF EngineOK
<1> HIDE DEF M
<1>3. MemoryOK(n, M)
  BY <1>1 DEF EngineOK, MemoryOK
<1>4. EngineOK(n, V, Q, M)
  BY <1>1, <1>2, <1>3, InMemory
<1> QED
  BY <1>1, <1>4 DEF M

\* Leaving the Propose phase forgets no turn.
LEMMA EnterPhaseEngine ==
  ASSUME NEW n, NEW V, NEW Q, NEW L, EngineOK(n, V, Q, L),
         NEW p \in Phase, p # "propose"
  PROVE  LET M == EnterPhase(L, p)
         IN  /\ EngineOK(n, V, Q, M) /\ M.rs.phase = p /\ M.timers = L.timers
             /\ M.rs.proposal = L.rs.proposal /\ M.rs.prevotes = L.rs.prevotes
             /\ M.rs.precommits = L.rs.precommits
<1> DEFINE M == EnterPhase(L, p)
<1>1. /\ M.rs.height = L.rs.height /\ M.rs.round = L.rs.round
      /\ M.rs.locked = L.rs.locked /\ M.rs.phase = p
      /\ M.rs.proposal = L.rs.proposal /\ M.rs.prevotes = L.rs.prevotes
      /\ M.rs.precommits = L.rs.precommits
      /\ M.timers = L.timers
      /\ M.proposals = L.proposals /\ M.snap = L.snap /\ M.chain = L.chain
      /\ M.votes = L.votes /\ M.cuts = L.cuts
  BY Zenon DEF EngineOK, LocalOK, Local, RoundState, EnterPhase
<1>2. LocalOK(n, V, M)
  BY EnterPhaseOK DEF EngineOK
<1> HIDE DEF M
<1>3. MemoryOK(n, M)
  BY <1>1 DEF EngineOK, MemoryOK, Justified, Ahead
<1>4. EngineOK(n, V, Q, M)
  BY <1>1, <1>2, <1>3, InMemory
<1> QED
  BY <1>1, <1>4 DEF M

\* RoundState.Lock on a hash with a quorum of prevotes in this very round.
LEMMA LockEngine ==
  ASSUME NEW n, NEW V, NEW Q, NEW L, EngineOK(n, V, Q, L), NEW h \in Hash,
         HasQuorum(L.votes, "prevote", L.rs.height, L.rs.round, h)
  PROVE  LET M == Lock(L, h)
         IN  /\ EngineOK(n, V, Q, M) /\ M.timers = L.timers
             /\ M.rs.phase = L.rs.phase /\ M.rs.proposal = L.rs.proposal
             /\ M.rs.height = L.rs.height /\ M.rs.round = L.rs.round
             /\ M.votes = L.votes
<1> DEFINE M == Lock(L, h)
<1>1. /\ M.rs.height = L.rs.height /\ M.rs.round = L.rs.round
      /\ M.rs.locked = {h} /\ M.rs.phase = L.rs.phase
      /\ M.rs.proposal = L.rs.proposal
      /\ M.timers = L.timers
      /\ M.proposals = L.proposals /\ M.snap = L.snap /\ M.chain = L.chain
      /\ M.votes = L.votes /\ M.cuts = L.cuts
  BY Zenon DEF EngineOK, LocalOK, Local, RoundState, Lock
<1>2. LocalOK(n, V, M)
  BY LockOK DEF EngineOK
<1> HIDE DEF M
<1>3. L.rs.round \in 0 .. L.rs.round
  BY DEF EngineOK, LocalOK, Local, RoundState
<1>4. Justified(M.rs, M.votes)
  BY Zenon, <1>1, <1>3 DEF Justified
<1>5. MemoryOK(n, M)
  BY <1>1, <1>4 DEF EngineOK, MemoryOK, Ahead
<1>6. EngineOK(n, V, Q, M)
  BY <1>1, <1>2, <1>5, InMemory
<1> QED
  BY <1>1, <1>6 DEF M

\* RoundState.Unlock.
LEMMA UnlockEngine ==
  ASSUME NEW n, NEW V, NEW Q, NEW L, EngineOK(n, V, Q, L)
  PROVE  EngineOK(n, V, Q, Unlock(L))
<1> DEFINE M == Unlock(L)
<1>1. /\ M.rs.height = L.rs.height /\ M.rs.round = L.rs.round
      /\ M.rs.locked = {} /\ M.rs.phase = L.rs.phase
      /\ M.proposals = L.proposals /\ M.snap = L.snap /\ M.chain = L.chain
      /\ M.votes = L.votes /\ M.cuts = L.cuts
  BY Zenon DEF EngineOK, LocalOK, Local, RoundState, Unlock
<1>2. LocalOK(n, V, M)
  BY UnlockOK DEF EngineOK
<1> HIDE DEF M
<1>3. MemoryOK(n, M)
  BY <1>1 DEF EngineOK, MemoryOK, Justified, Ahead
<1>4. EngineOK(n, V, Q, M)
  BY <1>1, <1>2, <1>3, InMemory
<1> QED
  BY <1>4 DEF M

\* RoundState.IncrementRound: every turn of the height so far is behind.
LEMMA IncrementRoundEngine ==
  ASSUME NEW n, NEW V, NEW Q, NEW L, EngineOK(n, V, Q, L)
  PROVE  LET M == IncrementRound(L)
         IN  EngineOK(n, V, Q, M) /\ M.rs.phase = "propose"
<1> DEFINE M == IncrementRound(L)
           k == L.rs.round + 1
<1>0. L \in Local /\ L.rs.round \in Nat /\ L.proposals \subseteq Block
  BY DEF EngineOK, LocalOK, Local, RoundState
<1>1. M = [L EXCEPT !.rs.round = k, !.rs.phase = "propose", !.rs.proposal = {},
                    !.rs.prevotes = {}, !.rs.precommits = {}]
  BY DEF IncrementRound
<1>2. LocalOK(n, V, M)
  BY IncrementRoundOK DEF EngineOK
<1>3. k \in Nat /\ \A j \in 0 .. L.rs.round : j \in 0 .. k /\ j < k
  BY <1>0
<1>a. k = L.rs.round + 1
  OBVIOUS
<1> HIDE DEF k, M
<1>4. /\ M.rs.height = L.rs.height /\ M.rs.round = k
      /\ M.rs.locked = L.rs.locked /\ M.rs.phase = "propose"
      /\ M.proposals = L.proposals /\ M.snap = L.snap /\ M.chain = L.chain
      /\ M.votes = L.votes /\ M.cuts = L.cuts
  BY Zenon, <1>0, <1>1 DEF Local, RoundState
<1>5. Justified(M.rs, M.votes)
  BY <1>3, <1>4 DEF EngineOK, MemoryOK, Justified
<1>6. ASSUME NEW b \in M.proposals, b.proposer = n
      PROVE  b.height <= Len(M.chain) \/ Ahead(M.rs, b)
  <2>1. b.height <= Len(L.chain) \/ Ahead(L.rs, b)
    BY <1>4, <1>6 DEF EngineOK, MemoryOK
  <2>2. b.round \in Nat
    BY <1>0, <1>4 DEF Block
  <2>3. Ahead(L.rs, b) => Ahead(M.rs, b)
    BY <1>0, <1>a, <1>4, <2>2 DEF Ahead
  <2> QED
    BY <1>4, <2>1, <2>3
<1>7. MemoryOK(n, M)
  BY Zenon, <1>4, <1>5, <1>6 DEF EngineOK, MemoryOK
<1>8. EngineOK(n, V, Q, M)
  BY <1>2, <1>4, <1>7, InMemory
<1> QED
  BY Zenon, <1>4, <1>8 DEF M

\* Counting a vote and saving the round: phase, lock and proposal are kept.
LEMMA CountEngine ==
  ASSUME NEW n, NEW V, NEW Q, NEW L, EngineOK(n, V, Q, L),
         L.rs.phase # "commit", Timed(n, L), NEW v \in L.votes,
         v.height = L.rs.height, v.round = L.rs.round
  PROVE  /\ v.type = "prevote" =>
              EngineOK(n, V, Q, AddPrevote(L, v)) /\ Timed(n, AddPrevote(L, v))
         /\ v.type = "precommit" =>
              EngineOK(n, V, Q, AddPrecommit(L, v)) /\ Timed(n, AddPrecommit(L, v))
<1>0. LocalOK(n, V, L) /\ L \in Local
  BY DEF EngineOK, LocalOK
<1>1. ASSUME v.type = "prevote"
      PROVE  EngineOK(n, V, Q, AddPrevote(L, v)) /\ Timed(n, AddPrevote(L, v))
  <2> DEFINE K == [L EXCEPT !.rs.prevotes = @ \cup {v}]
             M == AddPrevote(L, v)
  <2>1. /\ K.rs.height = L.rs.height /\ K.rs.round = L.rs.round
        /\ K.rs.locked = L.rs.locked /\ K.rs.phase = L.rs.phase
        /\ K.rs.proposal = L.rs.proposal /\ K.timers = L.timers
        /\ K.rs.prevotes = L.rs.prevotes \cup {v}
        /\ K.rs.precommits = L.rs.precommits
        /\ K.self = L.self /\ K.slots = L.slots
        /\ K.proposals = L.proposals /\ K.snap = L.snap /\ K.chain = L.chain
        /\ K.votes = L.votes /\ K.cuts = L.cuts
    BY Zenon, <1>0 DEF Local, RoundState
  <2>2. K \in Local
    BY Zenon, <1>0 DEF Local, RoundState
  <2>3. M = PersistRoundState(K)
    BY DEF AddPrevote
  <2> HIDE DEF K, M
  <2>4. RoundOK(K.rs, L.votes)
    BY Zenon, <1>0, <1>1, <2>1 DEF RoundOK, LocalOK
  <2>5. LocalOK(n, V, K)
    BY Zenon, <1>0, <2>1, <2>2, <2>4, MemoryStep
  <2>6. MemoryOK(n, K)
    BY <2>1 DEF EngineOK, MemoryOK, Justified, Ahead
  <2>7. EngineOK(n, V, Q, K)
    BY Zenon, <2>1, <2>5, <2>6, InMemory
  <2>8. EngineOK(n, V, Q, M) /\ M.rs = K.rs /\ M.timers = K.timers
    BY <2>1, <2>3, <2>7, PersistEngine
  <2>9. Timed(n, M)
    BY Zenon, <2>1, <2>8 DEF Timed
  <2> QED
    BY <2>8, <2>9 DEF M
<1>2. ASSUME v.type = "precommit"
      PROVE  EngineOK(n, V, Q, AddPrecommit(L, v)) /\ Timed(n, AddPrecommit(L, v))
  <2> DEFINE K == [L EXCEPT !.rs.precommits = @ \cup {v}]
             M == AddPrecommit(L, v)
  <2>1. /\ K.rs.height = L.rs.height /\ K.rs.round = L.rs.round
        /\ K.rs.locked = L.rs.locked /\ K.rs.phase = L.rs.phase
        /\ K.rs.proposal = L.rs.proposal /\ K.timers = L.timers
        /\ K.rs.prevotes = L.rs.prevotes
        /\ K.rs.precommits = L.rs.precommits \cup {v}
        /\ K.self = L.self /\ K.slots = L.slots
        /\ K.proposals = L.proposals /\ K.snap = L.snap /\ K.chain = L.chain
        /\ K.votes = L.votes /\ K.cuts = L.cuts
    BY Zenon, <1>0 DEF Local, RoundState
  <2>2. K \in Local
    BY Zenon, <1>0 DEF Local, RoundState
  <2>3. M = PersistRoundState(K)
    BY DEF AddPrecommit
  <2> HIDE DEF K, M
  <2>4. RoundOK(K.rs, L.votes)
    BY Zenon, <1>0, <1>2, <2>1 DEF RoundOK, LocalOK
  <2>5. LocalOK(n, V, K)
    BY Zenon, <1>0, <2>1, <2>2, <2>4, MemoryStep
  <2>6. MemoryOK(n, K)
    BY Zenon, <2>1 DEF EngineOK, MemoryOK, Justified, Ahead
  <2>7. EngineOK(n, V, Q, K)
    BY Zenon, <2>1, <2>5, <2>6, InMemory
  <2>8. EngineOK(n, V, Q, M) /\ M.rs = K.rs /\ M.timers = K.timers
    BY <2>1, <2>3, <2>7, PersistEngine
  <2>9. Timed(n, M)
    BY Zenon, <2>1, <2>8 DEF Timed
  <2> QED
    BY <2>8, <2>9 DEF M
<1> QED
  BY <1>1, <1>2

-----------------------------------------------------------------------------
(* Proposing and moving between rounds.                                     *)

\* A handler may end here: the engine is sound and its phase has its timer.
Ready(n, V, Q, L) == EngineOK(n, V, Q, L) /\ Timed(n, L)

\* A phase with a timer is not the Commit phase.
LEMMA ReadyPhase ==
  ASSUME NEW n, NEW V, NEW Q, NEW L, Ready(n, V, Q, L)
  PROVE  L.rs.phase # "commit"
BY DEF Ready, Timed, EngineOK, LocalOK, Local, Timer

\* persistRoundState at the end of a handler.
LEMMA PersistReady ==
  ASSUME NEW n, NEW V, NEW Q, NEW L, Ready(n, V, Q, L)
  PROVE  Ready(n, V, Q, PersistRoundState(L))
<1> DEFINE M == PersistRoundState(L)
<1>1. EngineOK(n, V, Q, M) /\ M.rs = L.rs /\ M.timers = L.timers
  BY ReadyPhase, PersistEngine DEF Ready
<1> HIDE DEF M
<1>2. Ready(n, V, Q, M)
  BY <1>1 DEF Ready, Timed
<1> QED
  BY <1>2 DEF M

\* Another timer at the end of a handler.
LEMMA ArmReady ==
  ASSUME NEW n, NEW V, NEW Q, NEW L, Ready(n, V, Q, L), NEW t \in Timer
  PROVE  Ready(n, V, Q, Arm(L, t))
<1> DEFINE M == Arm(L, t)
<1>1. EngineOK(n, V, Q, M) /\ M.rs = L.rs /\ M.timers = L.timers \cup {t}
  BY ArmEngine DEF Ready
<1> HIDE DEF M
<1>2. Timed(n, M)
  BY <1>1 DEF Ready, Timed
<1> QED
  BY <1>1, <1>2 DEF Ready, M

\* broadcastProposal up to the own prevote: in the Propose phase the turn is
\* free, and it is taken on disk before the proposal is sent.
LEMMA ProposeEngine ==
  ASSUME NEW n, NEW V, NEW Q, NEW L, EngineOK(n, V, Q, L),
         L.rs.phase = "propose"
  PROVE  Ready(n, V, Q, Propose(L))
<1> DEFINE b == NewBlock(L)
           H == [L EXCEPT !.rs.proposal = {b}, !.rs.phase = "prevote"]
           S == PersistRoundState(H)
           M == Propose(L)
<1>0. LocalOK(n, V, L) /\ L \in Local /\ L.self = n
  BY DEF EngineOK, LocalOK
<1>1. b \in Block /\ b.height = L.rs.height /\ b.round = L.rs.round
  BY <1>0, NewBlockType
<1>2. b.proposer = n
  BY <1>0 DEF NewBlock
<1>3. M = BroadcastBlock(S, b)
  BY DEF Propose
<1> HIDE DEF b
<1>4. /\ H.rs.height = L.rs.height /\ H.rs.round = L.rs.round
      /\ H.rs.locked = L.rs.locked /\ H.rs.phase = "prevote"
      /\ H.rs.proposal = {b} /\ H.timers = L.timers
      /\ H.proposals = L.proposals /\ H.snap = L.snap /\ H.chain = L.chain
      /\ H.votes = L.votes /\ H.cuts = L.cuts
  BY Zenon, <1>0 DEF Local, RoundState
<1>5. LocalOK(n, V, H)
  BY Zenon, <1>0, <1>1, HoldProposalOK
<1> HIDE DEF H
<1>6. MemoryOK(n, H)
  BY <1>4 DEF EngineOK, MemoryOK, Justified, Ahead
<1>7. EngineOK(n, V, Q, H)
  BY Zenon, <1>4, <1>5, <1>6, InMemory
<1>8. /\ EngineOK(n, V, Q, S) /\ S.rs = H.rs /\ S.timers = H.timers
      /\ S.snap = {H.rs} /\ S.proposals = H.proposals
  BY <1>4, <1>7, PersistEngine
<1> HIDE DEF S, M
<1>9. LocalOK(n, V, M)
  BY <1>1, <1>3, <1>8, BroadcastBlockOK DEF EngineOK
<1>10. /\ M.rs = S.rs /\ M.timers = S.timers /\ M.snap = S.snap
       /\ M.chain = S.chain /\ M.votes = S.votes
       /\ M.proposals = S.proposals \cup {b}
       /\ M.cuts = S.cuts \cup {Effects(S)}
  BY Zenon, <1>3, <1>8 DEF EngineOK, LocalOK, Local, Cut, BroadcastBlock
<1>11. Ahead(M.rs, b)
  BY Zenon, <1>1, <1>4, <1>8, <1>10 DEF Ahead
<1>12. MemoryOK(n, M)
  BY Zenon, <1>8, <1>10, <1>11 DEF EngineOK, MemoryOK
<1>13. ASSUME NEW a \in S.proposals, a.proposer = n, SameTurn(a, b)
       PROVE  FALSE
  <2>1. a.height <= Len(L.chain) \/ Ahead(L.rs, a)
    BY Zenon, <1>4, <1>8, <1>13 DEF EngineOK, MemoryOK
  <2>2. L.rs.height = Len(L.chain) + 1 /\ Len(L.chain) \in Nat /\ L.rs.round \in Nat
    BY <1>0 DEF EngineOK, MemoryOK, Local, RoundState
  <2> QED
    BY <1>1, <1>13, <2>1, <2>2 DEF Ahead, SameTurn
<1>14. DiskOK(n, Q, M)
  <2>1. \A s \in M.snap : SnapshotOK(s, M)
    BY Zenon, <1>8, <1>10 DEF EngineOK, DiskOK, SnapshotOK
  <2>2. \A c \in M.proposals :
          c.proposer = n => c.height <= Len(M.chain) \/ \E s \in M.snap : Ahead(s, c)
    BY <1>8, <1>10, <1>11 DEF EngineOK, DiskOK
  <2>3. \A a, c \in M.proposals :
          (a.proposer = n /\ c.proposer = n /\ SameTurn(a, c)) => a = c
    BY <1>8, <1>10, <1>13 DEF EngineOK, DiskOK, SameTurn
  <2>4. Q \subseteq M.proposals /\ \A c \in M.proposals \ Q : c.proposer = n
    BY Zenon, <1>2, <1>8, <1>10 DEF EngineOK, DiskOK
  <2> QED
    BY Zenon, <2>1, <2>2, <2>3, <2>4 DEF DiskOK
<1>15. EngineOK(n, V, Q, M)
  BY Zenon, <1>8, <1>9, <1>10, <1>12, <1>14, OnDisk
<1>16. Timed(n, M)
  BY <1>2, <1>4, <1>8, <1>10 DEF Timed
<1> QED
  BY <1>15, <1>16 DEF Ready, M

\* broadcastProposal in a round without votes.
LEMMA ProposeAfreshEngine ==
  ASSUME NEW n, NEW V, NEW Q, NEW L, Ready(n, V, Q, L)
  PROVE  Ready(n, V, Q, ProposeAfresh(L))
<1> DEFINE b == NewBlock(L)
           P == Propose(L)
           v == OwnVote(P, "prevote", b)
           M == BroadcastVote(P, v)
<1>1. b \in Hash
  BY NewBlockType DEF Ready, EngineOK, Hash
<1>2. CanPropose(L) => Ready(n, V, Q, P)
  BY ProposeEngine DEF Ready, CanPropose
<1>3. ProposeAfresh(L) = IF ~CanPropose(L) THEN L
                         ELSE IF SlotTaken(P, "prevote") THEN P
                         ELSE AddPrevote(M, v)
  BY Zenon DEF ProposeAfresh
<1> HIDE DEF b, P
<1>4. ASSUME CanPropose(L), ~SlotTaken(P, "prevote")
      PROVE  Ready(n, V, Q, AddPrevote(M, v))
  <2>1. EngineOK(n, V, Q, P) /\ LocalOK(n, V, P) /\ Timed(n, P)
    BY <1>2, <1>4 DEF Ready, EngineOK
  <2>2. P.rs.phase # "commit"
    BY Zenon, <1>2, <1>4, ReadyPhase
  <2>3. v.height = P.rs.height /\ v.round = P.rs.round
    BY <1>1, <2>1, OwnVoteType
  <2>4. /\ EngineOK(n, V, Q, M) /\ M.rs = P.rs /\ M.timers = P.timers
        /\ v \in M.votes /\ v.type = "prevote"
    BY <1>1, <1>4, <2>1, BroadcastVoteEngine
  <2> HIDE DEF v, M
  <2>5. Timed(n, M)
    BY <2>1, <2>4 DEF Timed
  <2> QED
    BY Zenon, <2>2, <2>3, <2>4, <2>5, CountEngine DEF Ready
<1> HIDE DEF M
<1> QED
  BY <1>2, <1>3, <1>4

\* The next round of the same height, from any phase and any timers.
LEMMA RetryHeightEngine ==
  ASSUME NEW n, NEW V, NEW Q, NEW L, EngineOK(n, V, Q, L)
  PROVE  Ready(n, V, Q, RetryHeight(L))
<1> DEFINE J == IncrementRound(L)
           I == Arm(J, "propose")
<1>1. EngineOK(n, V, Q, J) /\ J.rs.phase = "propose"
  BY IncrementRoundEngine
<1>2. RetryHeight(L)
        = PersistRoundState(IF IsProposer(I) THEN ProposeAfresh(I) ELSE I)
  BY DEF RetryHeight
<1> HIDE DEF J
<1>3. Ready(n, V, Q, I)
  BY <1>1, ArmEngine DEF Ready, Timed, Timer
<1> HIDE DEF I
<1> QED
  BY <1>2, <1>3, ProposeAfreshEngine, PersistReady

\* restartRound.
LEMMA RestartRoundEngine ==
  ASSUME NEW n, NEW V, NEW Q, NEW L, EngineOK(n, V, Q, L)
  PROVE  Ready(n, V, Q, RestartRound(L))
BY UnlockEngine, RetryHeightEngine DEF RestartRound

\* commit, then startNextRound: the block applied ends every turn of its
\* height, the snapshot goes, and the next height is saved.
LEMMA AdvanceEngine ==
  ASSUME NEW n, NEW V, NEW Q, NEW L, EngineOK(n, V, Q, L), NEW h,
         h \in QuorumBlocks(L.rs.precommits), Applies(L, h),
         NEW A \in SUBSET Member
  PROVE  Ready(n, V, Q, StartNextRound([Commit(L, h) EXCEPT !.rs.lastAttest = A]))
<1> DEFINE B == [Cut(L) EXCEPT !.chain = Append(@, h)]
           K == Commit(L, h)
           M == [K EXCEPT !.rs.lastAttest = A]
           r == [NewRoundState(M.rs.height + 1) EXCEPT !.lastAttest = M.rs.lastAttest]
           N == [M EXCEPT !.rs = r]
           I == Arm(N, "propose")
<1>0. LocalOK(n, V, L) /\ L \in Local /\ L.chain \in Seq(Block)
  BY DEF EngineOK, LocalOK, Local
<1>1. LocalOK(n, V, K)
  BY <1>0, CommitOK
<1>2. h \in Block
  BY <1>0 DEF Applies, Local, RoundState, Maybe
<1>3. Append(L.chain, h) \in Seq(Block) /\ Len(Append(L.chain, h)) = Len(L.chain) + 1
  BY <1>0, <1>2
<1>4. K = ClearConsensusState(B)
  BY DEF Commit
<1>5. StartNextRound(M) = PersistRoundState(IF IsProposer(I) THEN Arm(I, "ready") ELSE I)
  BY DEF StartNextRound
<1>6. /\ B.rs = L.rs /\ B.timers = L.timers /\ B.proposals = L.proposals
      /\ B.snap = L.snap /\ B.chain = Append(L.chain, h) /\ B.votes = L.votes
      /\ B.slots = L.slots
      /\ B.cuts = L.cuts \cup {Effects(L)}
  BY Zenon, <1>0, <1>3 DEF Local, Cut
<1> HIDE DEF B
<1>7. DiskOK(n, Q, B) /\ DiskOK(n, Q, Effects(L)) /\ DiskOK(n, Q, Effects(B))
  <2>1. Len(L.chain) \in Nat /\ Len(B.chain) = Len(L.chain) + 1
        /\ L.proposals \subseteq Block /\ L.snap \subseteq RoundState
    BY <1>0, <1>3, <1>6 DEF Local, Maybe
  <2>2. \A s \in B.snap : SnapshotOK(s, B)
    BY <1>6, <2>1 DEF EngineOK, DiskOK, SnapshotOK, RoundState
  <2>3. \A b \in B.proposals :
          b.proposer = n => b.height <= Len(B.chain) \/ \E s \in B.snap : Ahead(s, b)
    BY <1>6, <2>1 DEF EngineOK, DiskOK, Block
  <2>4. DiskOK(n, Q, B)
    BY Zenon, <1>6, <2>2, <2>3 DEF EngineOK, DiskOK
  <2>5. DiskOK(n, Q, Effects(L))
    BY Zenon DEF EngineOK, DiskOK, SnapshotOK, Effects
  <2>6. DiskOK(n, Q, Effects(B))
    BY <2>4 DEF DiskOK, SnapshotOK, Effects
  <2> QED
    BY Zenon, <2>4, <2>5, <2>6
<1>8. /\ K.rs = L.rs /\ K.proposals = L.proposals
      /\ K.snap = {} /\ K.chain = B.chain /\ K.votes = L.votes
      /\ K.cuts = B.cuts \cup {Effects(B)}
  <2>1. DOMAIN B = DOMAIN L
    BY Zenon DEF B, Cut
  <2> QED
    BY Zenon, <1>0, <1>4, <1>6, <2>1 DEF Local, Cut, ClearConsensusState
<1> HIDE DEF K
<1>9. \A b \in K.proposals : b.proposer = n => b.height <= Len(K.chain)
  <2>1. Len(L.chain) \in Nat /\ Len(K.chain) = Len(L.chain) + 1
        /\ L.proposals \subseteq Block
    BY <1>0, <1>3, <1>6, <1>8 DEF Local
  <2> QED
    BY <1>8, <2>1 DEF EngineOK, MemoryOK, Ahead, Block
<1>10. DiskOK(n, Q, K) /\ \A E \in K.cuts : DiskOK(n, Q, E)
  <2>1. DiskOK(n, Q, L) /\ \A E \in L.cuts : DiskOK(n, Q, E)
    BY Zenon DEF EngineOK
  <2>2. \A E \in K.cuts : DiskOK(n, Q, E)
    BY ONLY Zenon, <1>6, <1>7, <1>8, <2>1
  <2>3. DiskOK(n, Q, K)
    BY ONLY <1>8, <1>9, <2>1 DEF DiskOK
  <2> QED
    BY ONLY Zenon, <2>2, <2>3
<1>11. /\ M.rs.height = K.rs.height /\ M.rs.lastAttest = A
       /\ M.rs.round = K.rs.round /\ M.rs.proposal = K.rs.proposal
       /\ M.rs.prevotes = K.rs.prevotes /\ M.rs.precommits = K.rs.precommits
       /\ M.self = K.self /\ M.slots = K.slots
       /\ M.proposals = K.proposals /\ M.snap = K.snap /\ M.chain = K.chain
       /\ M.votes = K.votes /\ M.cuts = K.cuts /\ M \in Local
  BY Zenon, <1>1 DEF LocalOK, Local, RoundState
<1> HIDE DEF M
<1>12. M.rs.height + 1 \in Nat /\ M.rs.height = Len(M.chain)
  <2>1. L.rs.height = Len(L.chain) + 1 /\ Len(L.chain) \in Nat
    BY <1>0 DEF EngineOK, MemoryOK
  <2>2. M.rs.height = L.rs.height /\ M.chain = Append(L.chain, h)
    BY <1>6, <1>8, <1>11
  <2> QED
    BY <1>3, <2>1, <2>2
<1>13. r \in RoundState /\ RoundOK(r, M.votes)
  BY Zenon, <1>11, <1>12, NewRoundStateOK
<1>14. r.height = M.rs.height + 1 /\ r.phase = "propose" /\ r.locked = {}
  BY DEF NewRoundState
<1> HIDE DEF r
<1>15. /\ N \in Local /\ N.rs = r
       /\ N.self = K.self /\ N.slots = K.slots
       /\ N.proposals = K.proposals /\ N.snap = K.snap /\ N.chain = K.chain
       /\ N.votes = K.votes /\ N.cuts = K.cuts
  BY Zenon, <1>11, <1>13 DEF Local
<1> HIDE DEF N
<1>16. LocalOK(n, V, N)
  BY Zenon, <1>1, <1>11, <1>13, <1>15, MemoryStep
<1>17. MemoryOK(n, N)
  BY Zenon, <1>9, <1>11, <1>12, <1>14, <1>15 DEF MemoryOK, Justified
<1>18. EngineOK(n, V, Q, N)
  BY Zenon, <1>10, <1>15, <1>16, <1>17 DEF EngineOK, DiskOK, SnapshotOK
<1>19. Ready(n, V, Q, I)
  BY <1>14, <1>15, <1>18, ArmEngine DEF Ready, Timed, Timer
<1> HIDE DEF I
<1>20. Ready(n, V, Q, Arm(I, "ready"))
  BY Zenon, <1>19, ArmReady DEF Timer
<1> QED
  BY Zenon, <1>5, <1>19, <1>20, PersistReady DEF M, K

-----------------------------------------------------------------------------
(* The engine and its disk.                                                 *)


\* The same of a node with snapshot S, chain C, round state r and timers T,
\* over a network of proposals P and votes W.
SavedOK(n, S, C, P, W) ==
  /\ \A a, b \in P : (a.proposer = n /\ b.proposer = n /\ SameTurn(a, b)) => a = b
  /\ \A s \in S : /\ s.phase # "commit"
                  /\ s.height <= Len(C) + 1
                  /\ Justified(s, W)
  /\ \A b \in P :
       b.proposer = n => b.height <= Len(C) \/ \E s \in S : Ahead(s, b)

LiveOK(n, r, T, C, P, W) ==
  /\ r.height = Len(C) + 1
  /\ Justified(r, W)
  /\ \A b \in P : b.proposer = n => b.height <= Len(C) \/ Ahead(r, b)
  /\ r.phase \in T \/ (r.phase = "prevote" /\ \E b \in r.proposal : b.proposer = n)

\* The inductive invariant of this module, beside Inv.
EngineInv ==
  \A n \in Node :
    /\ SavedOK(n, snap[n], chain[n], proposals, votes)
    /\ up[n] => LiveOK(n, rs[n], timers[n], chain[n], proposals, votes)

-----------------------------------------------------------------------------
(* Votes, proposals and timers.                                             *)

\* handleVote on a quorum of precommits, whatever the timers.
LEMMA DecideEngine ==
  ASSUME NEW n, NEW V, NEW Q, NEW L, EngineOK(n, V, Q, L)
  PROVE  Ready(n, V, Q, Decide(L))
<1> DEFINE decided == QuorumBlocks(L.rs.precommits) \ {Nil}
           h == CHOOSE x \in decided : TRUE
           D == Disarm(L, "precommit")
           C == EnterPhase(D, "commit")
           A == VotersFor(L.rs.precommits, h)
           M == [Commit(C, h) EXCEPT !.rs.lastAttest = A]
<1>1. Decide(L) = IF decided = {} THEN RestartRound(L)
                  ELSE IF Applies(C, h) THEN StartNextRound(M)
                  ELSE RestartRound(C)
  BY Zenon DEF Decide
<1>2. EngineOK(n, V, Q, D) /\ D.rs = L.rs
  BY DisarmEngine
<1> HIDE DEF D
<1>3. EngineOK(n, V, Q, C) /\ C.rs.precommits = L.rs.precommits
  BY <1>2, EnterPhaseEngine DEF Phase
<1>4. A \in SUBSET Member
  BY DEF EngineOK, LocalOK, Local, RoundState, VotersFor, Vote
<1>5. decided # {} => h \in QuorumBlocks(L.rs.precommits)
  OBVIOUS
<1> HIDE DEF decided, h, C, A
<1>6. ASSUME decided # {}, Applies(C, h)
      PROVE  Ready(n, V, Q, StartNextRound(M))
  BY Zenon, <1>3, <1>4, <1>5, <1>6, AdvanceEngine
<1> HIDE DEF M
<1> QED
  BY <1>1, <1>3, <1>6, RestartRoundEngine

\* handleVote on a precommit that was sent.
LEMMA HandlePrecommitEngine ==
  ASSUME NEW n, NEW V, NEW Q, NEW L, Ready(n, V, Q, L),
         NEW v \in L.votes, v.type = "precommit"
  PROVE  Ready(n, V, Q, HandlePrecommit(L, v))
<1> DEFINE A == AddPrecommit(L, v)
<1>1. HandlePrecommit(L, v) =
        IF ~Counts(L.rs, v) THEN L
        ELSE IF QuorumReached(A.rs.precommits) /\ A.rs.phase = "precommit"
        THEN Decide(A) ELSE A
  BY Zenon DEF HandlePrecommit
<1>2. Counts(L.rs, v) => Ready(n, V, Q, A)
  BY Zenon, ReadyPhase, CountEngine DEF Counts, Ready
<1> HIDE DEF A
<1> QED
  BY Zenon, <1>1, <1>2, DecideEngine DEF Ready

\* broadcastPrecommit, counting the own vote.
LEMMA CastPrecommitEngine ==
  ASSUME NEW n, NEW V, NEW Q, NEW L, Ready(n, V, Q, L), NEW h \in Hash,
         h # Nil => HasQuorum(L.votes, "prevote", L.rs.height, L.rs.round, h)
  PROVE  Ready(n, V, Q, CastPrecommit(L, h))
<1> DEFINE v == OwnVote(L, "precommit", h)
           M == BroadcastVote(L, v)
<1>1. CastPrecommit(L, h) = IF SlotTaken(L, "precommit") THEN L
                            ELSE HandlePrecommit(M, v)
  BY Zenon DEF CastPrecommit
<1>2. ASSUME ~SlotTaken(L, "precommit")
      PROVE  Ready(n, V, Q, M) /\ v \in M.votes /\ v.type = "precommit"
  <2>1. /\ EngineOK(n, V, Q, M) /\ M.rs = L.rs /\ M.timers = L.timers
        /\ v \in M.votes /\ v.type = "precommit"
    BY <1>2, BroadcastVoteEngine DEF Ready
  <2> HIDE DEF v, M
  <2> QED
    BY Zenon, <2>1 DEF Ready, Timed
<1> HIDE DEF v, M
<1> QED
  BY Zenon, <1>1, <1>2, HandlePrecommitEngine

\* handleVote on a quorum of prevotes: the lock taken has its polka.
LEMMA EnterPrecommitEngine ==
  ASSUME NEW n, NEW V, NEW Q, NEW L, EngineOK(n, V, Q, L)
  PROVE  Ready(n, V, Q, EnterPrecommit(L))
<1> DEFINE E == EnterPhase(L, "precommit")
           D == Disarm(E, "prevote")
           P == Arm(D, "precommit")
           polka == QuorumBlocks(L.rs.prevotes)
           h == CHOOSE x \in polka : TRUE
<1>1. EnterPrecommit(L) = IF polka = {} THEN CastPrecommit(P, Nil)
                          ELSE CastPrecommit(Lock(P, h), h)
  BY DEF EnterPrecommit
<1>0. LocalOK(n, V, L)
  BY Zenon DEF EngineOK
<1>2. EngineOK(n, V, Q, E) /\ E.rs.phase = "precommit" /\ Alike(L, E)
  BY <1>0, EnterPhaseEngine, EnterPhaseOK DEF Phase
<1> HIDE DEF E
<1>3. EngineOK(n, V, Q, D) /\ D.rs = E.rs /\ Alike(E, D)
  BY <1>2, DisarmEngine, DisarmOK DEF EngineOK
<1> HIDE DEF D
<1>4. /\ EngineOK(n, V, Q, P) /\ P.rs = D.rs /\ Alike(D, P)
      /\ P.timers = D.timers \cup {"precommit"}
  BY <1>3, ArmEngine, ArmOK DEF EngineOK, Timer
<1> HIDE DEF P
<1>5. Alike(L, P)
  BY Zenon, <1>2, <1>3, <1>4 DEF Alike
<1>6. P.rs.phase = "precommit" /\ P.rs.phase \in P.timers
  BY Zenon, <1>2, <1>3, <1>4
<1>7. Ready(n, V, Q, CastPrecommit(P, Nil))
  BY <1>4, <1>6, CastPrecommitEngine DEF Hash, Ready, Timed
<1>8. ASSUME polka # {}
      PROVE  Ready(n, V, Q, CastPrecommit(Lock(P, h), h))
  <2>1. h \in polka
    BY <1>8
  <2> HIDE DEF h
  <2>2. h \in Hash
    BY <1>0, <2>1 DEF QuorumBlocks, LocalOK, Local, RoundState, Vote
  <2>3. HasQuorum(L.votes, "prevote", L.rs.height, L.rs.round, h)
    BY Zenon, <1>0, <2>1, PolkaSent DEF LocalOK
  <2>4. HasQuorum(P.votes, "prevote", P.rs.height, P.rs.round, h)
    BY Zenon, <1>5, <2>3 DEF Alike
  <2> DEFINE K == Lock(P, h)
  <2>5. /\ EngineOK(n, V, Q, K) /\ K.timers = P.timers /\ K.rs.phase = P.rs.phase
        /\ K.rs.height = P.rs.height /\ K.rs.round = P.rs.round
        /\ K.votes = P.votes
    BY <1>4, <2>2, <2>4, LockEngine
  <2> HIDE DEF K
  <2>6. Ready(n, V, Q, K)
    BY Zenon, <1>6, <2>5 DEF Ready, Timed
  <2>7. Ready(n, V, Q, CastPrecommit(K, h))
    BY Zenon, <2>2, <2>4, <2>5, <2>6, CastPrecommitEngine
  <2> QED
    BY <2>7 DEF K
<1> HIDE DEF polka, h
<1> QED
  BY Zenon, <1>1, <1>7, <1>8

\* handleVote on a prevote that was sent.
LEMMA HandlePrevoteEngine ==
  ASSUME NEW n, NEW V, NEW Q, NEW L, Ready(n, V, Q, L),
         NEW v \in L.votes, v.type = "prevote"
  PROVE  Ready(n, V, Q, HandlePrevote(L, v))
<1> DEFINE A == AddPrevote(L, v)
<1>1. HandlePrevote(L, v) =
        IF ~Counts(L.rs, v) THEN L
        ELSE IF QuorumReached(A.rs.prevotes) /\ A.rs.phase = "prevote"
        THEN EnterPrecommit(A) ELSE A
  BY Zenon DEF HandlePrevote
<1>2. Counts(L.rs, v) => Ready(n, V, Q, A)
  BY ReadyPhase, CountEngine DEF Counts, Ready
<1> HIDE DEF A
<1> QED
  BY Zenon, <1>1, <1>2, EnterPrecommitEngine DEF Ready

\* broadcastPrevote, counting the own vote.
LEMMA CastPrevoteEngine ==
  ASSUME NEW n, NEW V, NEW Q, NEW L, Ready(n, V, Q, L), NEW h \in Hash
  PROVE  Ready(n, V, Q, CastPrevote(L, h))
<1> DEFINE v == OwnVote(L, "prevote", h)
           M == BroadcastVote(L, v)
<1>1. CastPrevote(L, h) = IF SlotTaken(L, "prevote") THEN L
                          ELSE HandlePrevote(M, v)
  BY DEF CastPrevote
<1>2. ASSUME ~SlotTaken(L, "prevote")
      PROVE  Ready(n, V, Q, M) /\ v \in M.votes /\ v.type = "prevote"
  <2>1. /\ EngineOK(n, V, Q, M) /\ M.rs = L.rs /\ M.timers = L.timers
        /\ v \in M.votes /\ v.type = "prevote"
    BY <1>2, BroadcastVoteEngine DEF Ready
  <2> HIDE DEF v, M
  <2> QED
    BY Zenon, <2>1 DEF Ready, Timed
<1> HIDE DEF v, M
<1> QED
  BY <1>1, <1>2, HandlePrevoteEngine

\* handleVote.
LEMMA HandleVoteEngine ==
  ASSUME NEW n, NEW V, NEW Q, NEW L, Ready(n, V, Q, L), NEW v \in L.votes
  PROVE  Ready(n, V, Q, HandleVote(L, v))
<1>1. v.type = "prevote" \/ v.type = "precommit"
  BY DEF Ready, EngineOK, LocalOK, Local, Vote
<1> QED
  BY Zenon, <1>1, HandlePrevoteEngine, HandlePrecommitEngine DEF HandleVote

\* handleProposal.
LEMMA HandleProposalEngine ==
  ASSUME NEW n, NEW V, NEW Q, NEW L, EngineOK(n, V, Q, L),
         NEW b \in Block, AcceptsProposal(L, b)
  PROVE  Ready(n, V, Q, HandleProposal(L, b))
<1> DEFINE H == [L EXCEPT !.rs.proposal = {b}, !.rs.phase = "prevote"]
           D == Disarm(H, "propose")
           P == Arm(D, "prevote")
           x == IF L.rs.locked \subseteq {b} THEN b ELSE Nil
<1>0. LocalOK(n, V, L) /\ L \in Local
  BY DEF EngineOK, LocalOK
<1>1. HandleProposal(L, b) = PersistRoundState(CastPrevote(P, x))
  BY DEF HandleProposal
<1>2. LocalOK(n, V, H)
  BY Zenon, <1>0, HoldProposalOK DEF AcceptsProposal
<1>3. /\ H.rs.height = L.rs.height /\ H.rs.round = L.rs.round
      /\ H.rs.locked = L.rs.locked /\ H.rs.phase = "prevote"
      /\ H.proposals = L.proposals /\ H.snap = L.snap /\ H.chain = L.chain
      /\ H.votes = L.votes /\ H.cuts = L.cuts
  BY Zenon, <1>0 DEF Local, RoundState
<1> HIDE DEF H
<1>4. MemoryOK(n, H)
  BY Zenon, <1>3 DEF EngineOK, MemoryOK, Justified, Ahead
<1>5. EngineOK(n, V, Q, H)
  BY Zenon, <1>2, <1>3, <1>4, InMemory
<1>6. EngineOK(n, V, Q, D) /\ D.rs = H.rs
  BY <1>5, DisarmEngine
<1> HIDE DEF D
<1>7. EngineOK(n, V, Q, P) /\ P.rs = D.rs /\ P.timers = D.timers \cup {"prevote"}
  BY <1>6, ArmEngine DEF Timer
<1>8. x \in Hash
  BY Zenon DEF Hash
<1> HIDE DEF P, x
<1>9. Ready(n, V, Q, P)
  BY Zenon, <1>3, <1>6, <1>7 DEF Ready, Timed
<1>10. Ready(n, V, Q, CastPrevote(P, x))
  BY <1>8, <1>9, CastPrevoteEngine
<1> QED
  BY Zenon, <1>1, <1>10, PersistReady

\* The timer cases of the event loop.  The timer that fires is no longer
\* armed, so the phase has its timer unless it is the phase of this one.
LEMMA OnTimerEngine ==
  ASSUME NEW n, NEW V, NEW Q, NEW L, EngineOK(n, V, Q, L), NEW t \in Timer,
         Timed(n, L) \/ L.rs.phase = t
  PROVE  Ready(n, V, Q, OnTimer(L, t))
<1>0. LocalOK(n, V, L) /\ L.rs.phase \in Phase
  BY DEF EngineOK, LocalOK, Local, RoundState
<1>1. ASSUME t = "ready" PROVE Ready(n, V, Q, OnProposeReady(L))
  <2>0. Timed(n, L)
    BY Zenon, <1>0, <1>1 DEF Phase
  <2>1. CanPropose(L) => Ready(n, V, Q, Propose(L))
    BY Zenon, ProposeEngine DEF CanPropose
  <2>2. NewBlock(L) \in Hash
    BY <1>0, NewBlockType DEF Hash
  <2>3. CanPropose(L) => Ready(n, V, Q, CastPrevote(Propose(L), NewBlock(L)))
    BY Zenon, <2>1, <2>2, CastPrevoteEngine
  <2> QED
    BY Zenon, <2>0, <2>3 DEF OnProposeReady, Ready
<1>2. ASSUME t = "propose" PROVE Ready(n, V, Q, OnProposeTimeout(L))
  <2> DEFINE E == EnterPhase(L, "prevote")
             A == Arm(E, "prevote")
  <2>1. EngineOK(n, V, Q, E) /\ E.rs.phase = "prevote"
    BY EnterPhaseEngine DEF Phase
  <2>2. OnProposeTimeout(L) = IF L.rs.phase # "propose" THEN L
                              ELSE PersistRoundState(CastPrevote(A, Nil))
    BY Zenon DEF OnProposeTimeout
  <2> HIDE DEF E
  <2>3. Ready(n, V, Q, A)
    BY <2>1, ArmEngine DEF Ready, Timed, Timer
  <2> HIDE DEF A
  <2>4. Ready(n, V, Q, CastPrevote(A, Nil))
    BY Zenon, <2>3, CastPrevoteEngine DEF Hash
  <2> QED
    BY Zenon, <1>2, <2>2, <2>4, PersistReady DEF Ready
<1>3. ASSUME t = "prevote" PROVE Ready(n, V, Q, OnPrevoteTimeout(L))
  <2> DEFINE E == EnterPhase(L, "precommit")
             A == Arm(E, "precommit")
  <2>1. EngineOK(n, V, Q, E) /\ E.rs.phase = "precommit"
    BY EnterPhaseEngine DEF Phase
  <2>2. OnPrevoteTimeout(L) = IF L.rs.phase # "prevote" THEN L
                              ELSE PersistRoundState(CastPrecommit(A, Nil))
    BY Zenon DEF OnPrevoteTimeout
  <2> HIDE DEF E
  <2>3. Ready(n, V, Q, A)
    BY <2>1, ArmEngine DEF Ready, Timed, Timer
  <2> HIDE DEF A
  <2>4. Ready(n, V, Q, CastPrecommit(A, Nil))
    BY <2>3, CastPrecommitEngine DEF Hash
  <2> QED
    BY Zenon, <1>3, <2>2, <2>4, PersistReady DEF Ready
<1>4. Ready(n, V, Q, OnPrecommitTimeout(L))
  BY RetryHeightEngine DEF OnPrecommitTimeout
<1> QED
  BY Zenon, <1>1, <1>2, <1>3, <1>4 DEF OnTimer, Timer

\* Start, once it has chosen the round r to work on.
LEMMA ResumeReady ==
  ASSUME NEW n, NEW V, NEW Q, NEW L, LocalOK(n, V, L), DiskOK(n, Q, L),
         L.cuts = {}, NEW r \in RoundState, r.phase # "commit",
         r.height = Len(L.chain) + 1,
         RoundOK(r, L.votes), Justified(r, L.votes),
         \A b \in L.proposals :
           b.proposer = n => b.height <= Len(L.chain) \/ Ahead(r, b)
  PROVE  LET B == [L EXCEPT !.rs = r,
                            !.timers = IF r.phase = "commit" THEN {} ELSE {r.phase}]
         IN  Ready(n, V, Q, B) /\ Ready(n, V, Q, Arm(B, "ready"))
<1> DEFINE T == IF r.phase = "commit" THEN {} ELSE {r.phase}
           B == [L EXCEPT !.rs = r, !.timers = T]
<1>1. T \in SUBSET Timer /\ r.phase \in T
  BY DEF RoundState, Phase, Timer
<1> HIDE DEF T
<1>2. /\ B \in Local /\ B.rs = r /\ B.timers = T
      /\ B.self = L.self /\ B.slots = L.slots /\ B.snap = L.snap
      /\ B.chain = L.chain /\ B.votes = L.votes /\ B.cuts = L.cuts
      /\ B.proposals = L.proposals
  BY Zenon, <1>1 DEF LocalOK, Local
<1> HIDE DEF B
<1>3. LocalOK(n, V, B)
  BY Zenon, <1>2, MemoryStep
<1>4. MemoryOK(n, B) /\ DiskOK(n, Q, B)
  BY Zenon, <1>2 DEF MemoryOK, DiskOK, SnapshotOK
<1>5. Ready(n, V, Q, B)
  BY Zenon, <1>1, <1>2, <1>3, <1>4 DEF Ready, EngineOK, Timed
<1>6. Ready(n, V, Q, Arm(B, "ready"))
  BY <1>5, ArmReady DEF Timer
<1> QED
  BY <1>5, <1>6 DEF B, T

\* Start: the disk alone determines a sound engine, because a snapshot of the
\* next height is the round the node was in and a missing one means that it
\* never proposed at that height.
LEMMA StartEngineReady ==
  ASSUME NEW n, NEW V, NEW Q, NEW L, LocalOK(n, V, L), DiskOK(n, Q, L),
         L.cuts = {}
  PROVE  Ready(n, V, Q, StartEngine(L))
<1> DEFINE resumable == {s \in L.snap : s.height = Len(L.chain) + 1}
           r == IF resumable = {} THEN NewRoundState(Len(L.chain) + 1)
                                  ELSE CHOOSE s \in resumable : TRUE
           T == IF r.phase = "commit" THEN {} ELSE {r.phase}
           B == [L EXCEPT !.rs = r, !.timers = T]
<1>1. StartEngine(L) =
        CASE r.phase = "propose" -> IF IsProposer(B) THEN Arm(B, "ready") ELSE B
          [] r.phase = "commit"  -> IF QuorumBlocks(r.precommits) \subseteq {Nil}
                                    THEN B ELSE Decide(B)
          [] OTHER               -> B
  BY Zenon DEF StartEngine
<1>2. /\ L \in Local /\ Len(L.chain) \in Nat /\ L.proposals \subseteq Block
      /\ L.snap \in Maybe(RoundState)
  BY DEF LocalOK, Local
<1>3. /\ r \in RoundState /\ r.height = Len(L.chain) + 1
      /\ r.phase # "commit" /\ RoundOK(r, L.votes) /\ Justified(r, L.votes)
      /\ \A b \in L.proposals :
           b.proposer = n => b.height <= Len(L.chain) \/ Ahead(r, b)
  <2>1. CASE resumable = {}
    <3>1. /\ r \in RoundState /\ r.height = Len(L.chain) + 1
          /\ r.phase = "propose" /\ r.locked = {}
      BY <1>2, <2>1 DEF NewRoundState, RoundState, Maybe, Phase
    <3>2. RoundOK(r, L.votes)
      BY Zenon, <2>1 DEF NewRoundState, RoundOK
    <3>3. ASSUME NEW b \in L.proposals, b.proposer = n
          PROVE  b.height <= Len(L.chain)
      <4>1. b.height \in Nat
        BY <1>2 DEF Block
      <4>2. ASSUME NEW s \in L.snap, Ahead(s, b), ~(b.height <= Len(L.chain))
            PROVE  FALSE
        <5>1. s.height <= Len(L.chain) + 1 /\ s.height = b.height
          BY Zenon, <4>2 DEF DiskOK, SnapshotOK, Ahead
        <5>2. s \in resumable
          BY <1>2, <4>1, <4>2, <5>1
        <5> QED
          BY Zenon, <2>1, <5>2
      <4> QED
        BY Zenon, <3>3, <4>2 DEF DiskOK
    <3>4. Justified(r, L.votes)
      BY Zenon, <3>1 DEF Justified
    <3> HIDE DEF r
    <3> QED
      BY Zenon, <3>1, <3>2, <3>3, <3>4
  <2>2. CASE resumable # {}
    <3>1. r \in resumable
      BY Zenon, <2>2
    <3>2. /\ r \in L.snap /\ r.height = Len(L.chain) + 1 /\ r \in RoundState
          /\ SnapshotOK(r, L) /\ RoundOK(r, L.votes)
      BY Zenon, <1>2, <3>1 DEF DiskOK, LocalOK, DurableOK, Maybe
    <3>3. \A s \in L.snap : s = r
      BY Zenon, <1>2, <3>2 DEF Maybe
    <3> HIDE DEF r
    <3>4. \A b \in L.proposals :
            b.proposer = n => b.height <= Len(L.chain) \/ Ahead(r, b)
      BY <3>3 DEF DiskOK
    <3> QED
      BY Zenon, <3>2, <3>4 DEF SnapshotOK
  <2> QED
    BY Zenon, <2>1, <2>2
<1> HIDE DEF r
<1>4. Ready(n, V, Q, B) /\ Ready(n, V, Q, Arm(B, "ready"))
  BY Zenon, <1>3, ResumeReady
<1> HIDE DEF B
<1> QED
  BY <1>1, <1>3, <1>4

-----------------------------------------------------------------------------
(* The steps of the system.                                                 *)

\* More votes, and proposals of others, disturb nothing of n.
LEMMA OthersKeepOK ==
  ASSUME NEW n, NEW S, NEW C, NEW P, NEW W, NEW P2, NEW W2, NEW r, NEW T,
         W \subseteq W2, P \subseteq P2, \A b \in P2 \ P : b.proposer # n
  PROVE  /\ SavedOK(n, S, C, P, W) => SavedOK(n, S, C, P2, W2)
         /\ LiveOK(n, r, T, C, P, W) => LiveOK(n, r, T, C, P2, W2)
<1>1. SavedOK(n, S, C, P, W) => SavedOK(n, S, C, P2, W2)
  BY Zenon, JustifiedGrows DEF SavedOK
<1>2. LiveOK(n, r, T, C, P, W) => LiveOK(n, r, T, C, P2, W2)
  BY Zenon, JustifiedGrows DEF LiveOK
<1> QED
  BY Zenon, <1>1, <1>2

\* A handler begins with a sound disk, and a running engine with a sound
\* memory too.
LEMMA LoadEngine ==
  ASSUME Inv, EngineInv, NEW n \in Node, NEW pay \in Payload
  PROVE  LET L == Load(n, pay)
         IN  /\ LocalOK(n, votes, L) /\ DiskOK(n, proposals, L) /\ L.cuts = {}
             /\ L.rs = rs[n] /\ L.votes = votes
             /\ up[n] => Ready(n, votes, proposals, L)
<1> DEFINE L == Load(n, pay)
<1>1. /\ L.rs = rs[n] /\ L.timers = timers[n] /\ L.snap = snap[n]
      /\ L.chain = chain[n] /\ L.proposals = proposals /\ L.votes = votes
      /\ L.cuts = {}
  BY Zenon DEF Load
<1>2. LocalOK(n, votes, L)
  BY Zenon, LoadOK
<1> HIDE DEF L
<1>3. /\ SavedOK(n, snap[n], chain[n], proposals, votes)
      /\ up[n] => LiveOK(n, rs[n], timers[n], chain[n], proposals, votes)
  BY Zenon DEF EngineInv
<1>4. DiskOK(n, proposals, L)
  BY Zenon, <1>1, <1>3 DEF SavedOK, DiskOK, SnapshotOK
<1>5. up[n] => MemoryOK(n, L) /\ Timed(n, L)
  BY Zenon, <1>1, <1>3 DEF LiveOK, MemoryOK, Timed
<1>6. up[n] => Ready(n, votes, proposals, L)
  BY <1>1, <1>2, <1>4, <1>5 DEF Ready, EngineOK
<1> QED
  BY <1>1, <1>2, <1>4, <1>6 DEF L

\* What a handler of n stores is sound for n and for the others.
LEMMA StoreEngine ==
  ASSUME Inv, EngineInv, NEW n \in Node, NEW E, DiskOK(n, proposals, E),
         DurableOK(n, votes, E), Store(n, E)
  PROVE  \A m \in Node :
           /\ SavedOK(m, snap'[m], chain'[m], proposals', votes')
           /\ m # n => /\ chain'[m] = chain[m]
                       /\ \A r, T : LiveOK(m, r, T, chain[m], proposals, votes)
                            => LiveOK(m, r, T, chain[m], proposals', votes')
           /\ m = n => chain'[m] = E.chain
<1>1. /\ snap' = [snap EXCEPT ![n] = E.snap]
      /\ chain' = [chain EXCEPT ![n] = E.chain]
      /\ proposals' = E.proposals
      /\ votes' = E.votes
  BY Zenon DEF Store
<1>2. snap \in [Node -> Maybe(RoundState)] /\ chain \in [Node -> Seq(Block)]
  BY Zenon DEF Inv, TypeOK
<1>3. /\ votes \subseteq votes' /\ proposals \subseteq proposals'
      /\ \A b \in proposals' \ proposals : b.proposer = n
  <2>1. votes \subseteq E.votes
    BY Zenon DEF DurableOK
  <2>2. proposals \subseteq E.proposals /\ \A b \in E.proposals \ proposals : b.proposer = n
    BY Zenon DEF DiskOK
  <2> QED
    BY ONLY Zenon, <1>1, <2>1, <2>2
<1>4. SavedOK(n, E.snap, E.chain, proposals', votes')
  BY Zenon, <1>1 DEF DiskOK, SavedOK, SnapshotOK
<1> SUFFICES ASSUME NEW m \in Node
             PROVE  /\ SavedOK(m, snap'[m], chain'[m], proposals', votes')
                    /\ m # n => /\ chain'[m] = chain[m]
                                /\ \A r, T : LiveOK(m, r, T, chain[m], proposals, votes)
                                     => LiveOK(m, r, T, chain[m], proposals', votes')
                    /\ m = n => chain'[m] = E.chain
  BY Zenon
<1>5. CASE m = n
  <2>1. snap'[m] = E.snap /\ chain'[m] = E.chain
    BY Zenon, <1>1, <1>2, <1>5
  <2> QED
    BY Zenon, <1>4, <1>5, <2>1
<1>6. CASE m # n
  <2>1. snap'[m] = snap[m] /\ chain'[m] = chain[m]
    BY Zenon, <1>1, <1>2, <1>6
  <2>2. SavedOK(m, snap[m], chain[m], proposals, votes)
    BY Zenon DEF EngineInv
  <2>3. \A b \in proposals' \ proposals : b.proposer # m
    BY Zenon, <1>3, <1>6
  <2>4. SavedOK(m, snap[m], chain[m], proposals', votes')
    BY Zenon, <1>3, <2>2, <2>3, OthersKeepOK
  <2>5. \A r, T : LiveOK(m, r, T, chain[m], proposals, votes)
                    => LiveOK(m, r, T, chain[m], proposals', votes')
    BY Zenon, <1>3, <2>3, OthersKeepOK
  <2> QED
    BY Zenon, <1>6, <2>1, <2>4, <2>5
<1> QED
  BY Zenon, <1>5, <1>6

\* A handler that ends, or dies between two effects, preserves the invariant.
LEMMA RunEngine ==
  ASSUME Inv, EngineInv, NEW n \in Node, NEW L,
         Ready(n, votes, proposals, L), Run(n, L)
  PROVE  EngineInv'
<1>0. /\ rs \in [Node -> RoundState] /\ timers \in [Node -> SUBSET Timer]
      /\ up \in [Node -> BOOLEAN]
  BY Zenon DEF Inv, TypeOK
<1>1. CASE Complete(n, L)
  <2>1. Store(n, L) /\ DurableOK(n, votes, L) /\ DiskOK(n, proposals, L)
    BY Zenon, <1>1 DEF Complete, Ready, EngineOK, LocalOK
  <2>2. /\ rs' = [rs EXCEPT ![n] = L.rs]
        /\ timers' = [timers EXCEPT ![n] = L.timers]
        /\ up' = [up EXCEPT ![n] = TRUE]
        /\ proposals' = L.proposals /\ votes' = L.votes
    BY <1>1 DEF Complete, Store
  <2>3. \A m \in Node :
           /\ SavedOK(m, snap'[m], chain'[m], proposals', votes')
           /\ m # n => /\ chain'[m] = chain[m]
                       /\ \A r, T : LiveOK(m, r, T, chain[m], proposals, votes)
                            => LiveOK(m, r, T, chain[m], proposals', votes')
           /\ m = n => chain'[m] = L.chain
    BY Zenon, <2>1, StoreEngine
  <2>4. LiveOK(n, L.rs, L.timers, L.chain, proposals', votes')
    BY Zenon, <2>2 DEF Ready, EngineOK, MemoryOK, Timed, LiveOK
  <2>5. ASSUME NEW m \in Node, up'[m]
        PROVE  LiveOK(m, rs'[m], timers'[m], chain'[m], proposals', votes')
    <3>1. CASE m = n
      <4>1. rs'[m] = L.rs /\ timers'[m] = L.timers /\ chain'[m] = L.chain
        BY Zenon, <1>0, <2>2, <2>3, <3>1
      <4> QED
        BY Zenon, <2>4, <3>1, <4>1
    <3>2. CASE m # n
      <4>1. rs'[m] = rs[m] /\ timers'[m] = timers[m] /\ up[m]
        BY Zenon, <1>0, <2>2, <2>5, <3>2
      <4>2. LiveOK(m, rs[m], timers[m], chain[m], proposals, votes)
        BY Zenon, <4>1 DEF EngineInv
      <4> QED
        BY Zenon, <2>3, <3>2, <4>1, <4>2
    <3> QED
      BY Zenon, <3>1, <3>2
  <2> QED
    BY Zenon, <2>3, <2>5 DEF EngineInv
<1>2. CASE Halt(n) /\ \E E \in L.cuts : Store(n, E)
  <2>1. PICK E \in L.cuts : Store(n, E)
    BY Zenon, <1>2
  <2>2. DurableOK(n, votes, E) /\ DiskOK(n, proposals, E)
    BY Zenon DEF Ready, EngineOK, LocalOK
  <2>3. \A m \in Node :
           /\ SavedOK(m, snap'[m], chain'[m], proposals', votes')
           /\ m # n => /\ chain'[m] = chain[m]
                       /\ \A r, T : LiveOK(m, r, T, chain[m], proposals, votes)
                            => LiveOK(m, r, T, chain[m], proposals', votes')
           /\ m = n => chain'[m] = E.chain
    BY Zenon, <2>1, <2>2, StoreEngine
  <2>4. ASSUME NEW m \in Node, up'[m]
        PROVE  LiveOK(m, rs'[m], timers'[m], chain'[m], proposals', votes')
    <3>1. m # n /\ rs'[m] = rs[m] /\ timers'[m] = timers[m] /\ up[m]
      BY Zenon, <1>0, <1>2, <2>4 DEF Halt
    <3>2. LiveOK(m, rs[m], timers[m], chain[m], proposals, votes)
      BY Zenon, <3>1 DEF EngineInv
    <3> QED
      BY Zenon, <2>3, <3>1, <3>2
  <2> QED
    BY Zenon, <2>3, <2>4 DEF EngineInv
<1> QED
  BY Zenon, <1>1, <1>2 DEF Run

\* A faulty validator is not a node: its messages disturb no node's invariant.
LEMMA FaultyEngine ==
  ASSUME EngineInv, NEW f \in Validator \ Node, FaultyVote(f) \/ FaultyPropose(f)
  PROVE  EngineInv'
<1>1. UNCHANGED <<rs, timers, up, snap, chain>>
  BY Zenon DEF FaultyVote, FaultyPropose
<1>2. votes \subseteq votes'
  BY Zenon DEF FaultyVote, FaultyPropose
<1>3. /\ proposals \subseteq proposals'
      /\ \A b \in proposals' \ proposals : b.proposer = f
  <2>1. CASE FaultyVote(f)
    BY Zenon, <2>1 DEF FaultyVote
  <2>2. CASE FaultyPropose(f)
    BY <2>2 DEF FaultyPropose
  <2> QED
    BY Zenon, <2>1, <2>2
<1>4. ASSUME NEW m \in Node
      PROVE  /\ SavedOK(m, snap[m], chain[m], proposals', votes')
             /\ up[m] => LiveOK(m, rs[m], timers[m], chain[m], proposals', votes')
  <2>1. \A b \in proposals' \ proposals : b.proposer # m
    BY <1>3
  <2>2. /\ SavedOK(m, snap[m], chain[m], proposals, votes)
        /\ up[m] => LiveOK(m, rs[m], timers[m], chain[m], proposals, votes)
    BY Zenon DEF EngineInv
  <2> QED
    BY Zenon, <1>2, <1>3, <2>1, <2>2, OthersKeepOK
<1> QED
  BY Zenon, <1>1, <1>4 DEF EngineInv

\* No node runs at first, and no disk holds anything.
LEMMA EngineInvInit == Init => EngineInv
BY DEF Init, EngineInv, SavedOK

\* Every step preserves the invariant.
LEMMA EngineInvNext == Inv /\ EngineInv /\ [Next]_vars => EngineInv'
<1> SUFFICES ASSUME Inv, EngineInv, [Next]_vars PROVE EngineInv'
  BY Zenon
<1>1. CASE UNCHANGED vars
  BY Zenon, <1>1 DEF vars, EngineInv
<1>2. ASSUME NEW n \in Node, ReceiveVote(n) PROVE EngineInv'
  <2>1. PICK v \in votes, pay \in Payload : Run(n, HandleVote(Load(n, pay), v))
    BY Zenon, <1>2 DEF ReceiveVote
  <2>2. up[n]
    BY Zenon, <1>2 DEF ReceiveVote, Running
  <2>3. Ready(n, votes, proposals, Load(n, pay)) /\ v \in Load(n, pay).votes
    BY Zenon, <2>2, LoadEngine
  <2>4. Ready(n, votes, proposals, HandleVote(Load(n, pay), v))
    BY Zenon, <2>3, HandleVoteEngine
  <2> QED
    BY Zenon, <2>1, <2>4, RunEngine
<1>3. ASSUME NEW n \in Node, ReceiveProposal(n) PROVE EngineInv'
  <2>1. PICK b \in proposals, pay \in Payload :
          AcceptsProposal(Load(n, pay), b) /\ Run(n, HandleProposal(Load(n, pay), b))
    BY Zenon, <1>3 DEF ReceiveProposal
  <2>2. up[n] /\ b \in Block
    BY Zenon, <1>3 DEF ReceiveProposal, Running, Inv, TypeOK
  <2>3. EngineOK(n, votes, proposals, Load(n, pay))
    BY Zenon, <2>2, LoadEngine DEF Ready
  <2>4. Ready(n, votes, proposals, HandleProposal(Load(n, pay), b))
    BY Zenon, <2>1, <2>2, <2>3, HandleProposalEngine
  <2> QED
    BY Zenon, <2>1, <2>4, RunEngine
<1>4. ASSUME NEW n \in Node, NEW t \in Timer, TimerFires(n, t) PROVE EngineInv'
  <2>1. PICK pay \in Payload : Run(n, OnTimer(Disarm(Load(n, pay), t), t))
    BY Zenon, <1>4 DEF TimerFires
  <2>2. up[n]
    BY Zenon, <1>4 DEF TimerFires, Running
  <2> DEFINE L == Load(n, pay)
             D == Disarm(L, t)
  <2>3. Ready(n, votes, proposals, L)
    BY Zenon, <2>2, LoadEngine
  <2> HIDE DEF L
  <2>4. /\ EngineOK(n, votes, proposals, D) /\ D.rs = L.rs
        /\ D.timers = L.timers \ {t}
    BY <2>3, DisarmEngine DEF Ready
  <2> HIDE DEF D
  <2>5. Timed(n, D) \/ D.rs.phase = t
    BY Zenon, <2>3, <2>4 DEF Ready, Timed
  <2>6. Ready(n, votes, proposals, OnTimer(D, t))
    BY Zenon, <2>4, <2>5, OnTimerEngine
  <2> QED
    BY Zenon, <2>1, <2>6, RunEngine DEF D, L
<1>5. ASSUME NEW n \in Node, Crash(n) PROVE EngineInv'
  <2>1. UNCHANGED <<snap, chain, proposals, votes>>
    BY Zenon, <1>5 DEF Crash
  <2>2. ASSUME NEW m \in Node, up'[m]
        PROVE  rs'[m] = rs[m] /\ timers'[m] = timers[m] /\ up[m]
    BY Zenon, <1>5, <2>2 DEF Crash, Halt, Inv, TypeOK
  <2> QED
    BY Zenon, <2>1, <2>2 DEF EngineInv
<1>6. ASSUME NEW n \in Node, Restart(n) PROVE EngineInv'
  <2>1. PICK pay \in Payload : Run(n, StartEngine(Load(n, pay)))
    BY Zenon, <1>6 DEF Restart
  <2>2. /\ LocalOK(n, votes, Load(n, pay)) /\ DiskOK(n, proposals, Load(n, pay))
        /\ Load(n, pay).cuts = {}
    BY Zenon, LoadEngine
  <2>3. Ready(n, votes, proposals, StartEngine(Load(n, pay)))
    BY <2>2, StartEngineReady
  <2> QED
    BY Zenon, <2>1, <2>3, RunEngine
<1> QED
  BY Zenon, <1>1, <1>2, <1>3, <1>4, <1>5, <1>6, FaultyEngine DEF Next

-----------------------------------------------------------------------------
(* The theorems.                                                            *)

\* The inductive invariant of the engine and its disk holds in every reachable
\* state.
THEOREM EngineInvAlways == Spec => []EngineInv
<1>1. Init => Inv /\ EngineInv
  BY InvInit, EngineInvInit
<1>2. Inv /\ EngineInv /\ [Next]_vars => (Inv /\ EngineInv)'
  BY InvNext, EngineInvNext
<1> QED
  BY <1>1, <1>2, PTL DEF Spec

\* A running engine always works on the height after its last applied block:
\* restartRound, startNextRound and Start never leave it behind or ahead.
THEOREM HeightsInSync == Spec => []HeightInSync
<1>1. EngineInv => HeightInSync
  BY DEF EngineInv, LiveOK, HeightInSync
<1> QED
  BY <1>1, EngineInvAlways, PTL

\* A lock always stands on a quorum of prevotes of its height, after a restart
\* from a snapshot too.
THEOREM LocksJustified == Spec => []LockHasPolka
<1>1. EngineInv => LockHasPolka
  BY DEF EngineInv, LiveOK, Justified, LockHasPolka
<1> QED
  BY <1>1, EngineInvAlways, PTL

\* What Start may resume is a round the node was in: never the Commit phase,
\* never ahead of the chain, and with no own vote its slots do not hold.
THEOREM SnapshotsSound == Spec => []SnapshotSound
<1>1. Inv /\ EngineInv => SnapshotSound
  <2> SUFFICES ASSUME Inv, EngineInv, NEW n \in Node, NEW s \in snap[n]
               PROVE  /\ s.phase # "commit"
                      /\ s.height <= Len(chain[n]) + 1
                      /\ \A v \in s.prevotes \cup s.precommits :
                           v.from = n => v \in slots[n]
    BY Zenon DEF SnapshotSound
  <2>1. s.phase # "commit" /\ s.height <= Len(chain[n]) + 1
    BY Zenon DEF EngineInv, SavedOK
  <2>2. RoundOK(s, votes) /\ SlotsOK(n, slots[n], votes)
    BY DEF Inv
  <2> QED
    BY Zenon, <2>1, <2>2 DEF RoundOK, SlotsOK
<1> QED
  BY <1>1, InvAlways, EngineInvAlways, PTL

\* A node broadcasts at most one proposal for a height and round, although a
\* crash may resume it in the round it proposed in.
THEOREM OneProposalEach == Spec => []OneProposalPerRound
<1>1. EngineInv => OneProposalPerRound
  BY DEF EngineInv, SavedOK, SameTurn, OneProposalPerRound
<1> QED
  BY <1>1, EngineInvAlways, PTL

\* A running engine always has the timer of its phase armed, but for a Prevote
\* phase it entered with its own proposal.
THEOREM PhasesTimed == Spec => []PhaseHasTimer
<1>1. EngineInv => PhaseHasTimer
  BY DEF EngineInv, LiveOK, PhaseHasTimer
<1> QED
  BY <1>1, EngineInvAlways, PTL
=============================================================================

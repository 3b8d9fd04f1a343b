---------------------------- MODULE ProcessProofs ----------------------------
(***************************************************************************)
(* Proofs about the processes around consensus and what each keeps when it  *)
(* stops: the data directory of a node and the web client that watches the  *)
(* node, the client library and its durable queue, and a node that catches  *)
(* up when it starts.  The three parts share nothing but general lemmas.    *)
(*                                                                          *)
(* Monitor, for any commands, any number of tool runs and any retention:    *)
(* every copy of the database, be it in use, being copied, in a backup or   *)
(* restored, satisfies CopyOK; that is what makes the claims about the one  *)
(* in use inductive.  The claims about the history are inductive with what  *)
(* the client has read so far and what its count is a count of (WatchInv).  *)
(*                                                                          *)
(* ClientQueue, for any callers, transactions and crashes: QueueInv adds    *)
(* that a key means one entry for ever.                                     *)
(*                                                                          *)
(* CatchUp, for any peers and chains: SyncInv says of the answers and of    *)
(* the range being applied whose chain they are a piece of.                 *)
(***************************************************************************)
EXTENDS Monitor, ClientQueue, CatchUp, DataLemmas, FiniteSetTheorems, TLAPS

NodeShape == node = [pc |-> node.pc, chain |-> node.chain, key |-> node.key]

ToolShape == tool = [pc |-> tool.pc, cmd |-> tool.cmd, copy |-> tool.copy]

RunsShape == runs = [tools |-> runs.tools, backups |-> runs.backups, forced |-> runs.forced]

\* A database, of this directory's genesis unless that was replaced by force.
CopyOK(d, genesis, forced) ==
  /\ d = [exists |-> d.exists, buckets |-> d.buckets, whole |-> d.whole, seed |-> d.seed,
          applied |-> d.applied, height |-> d.height]
  /\ d.whole = TRUE
  /\ d.applied \in {0, 1} /\ d.height \in Nat
  /\ d.applied = 0 => d.seed = None /\ d.height = 0
  /\ d.applied = 1 => d.seed # None /\ (forced \/ d.seed = genesis)

CopiesOK(genesis, forced) ==
  /\ CopyOK(db, genesis, forced)
  /\ CopyOK(spare, genesis, forced)
  /\ CopyOK(tool.copy, genesis, forced)
  /\ \A b \in backups : CopyOK(b.db, genesis, forced)

\* The backups are numbered below the next number, each number once, and the
\* last one is there.
BackupsOK(B, n) ==
  /\ IsFiniteSet(B) /\ n \in Nat
  /\ \A b \in B : b.at \in Nat /\ b.at < n
  /\ \A b, c \in B : b.at = c.at => b = c
  /\ n > 0 => \E b \in B : b.at = n - 1

\* The inductive invariant.
DirInv ==
  /\ DOMAIN disk = {"key", "genesis", "config"}
  /\ NodeShape /\ ToolShape /\ RunsShape
  /\ runs.forced \in BOOLEAN
  /\ BackupsOK(backups, runs.backups)
  /\ CopiesOK(disk.genesis, runs.forced)
  /\ node.pc # "down" => tool.pc \notin {"genesis", "config"}
  /\ node.pc \in {"apply", "running"} => disk.genesis # None /\ disk.genesis[2] = node.chain
  /\ node.pc = "running" => db.applied = 1

-----------------------------------------------------------------------------
\* A genesis file that was written, or torn, is a file.
LEMMA FilesExist ==
  /\ \A c, k : OwnGenesis(c, k) # None
  /\ NetGenesis # None /\ Torn # None
BY DEF OwnGenesis, NetGenesis, None, Torn

\* An empty database is a database.
LEMMA NoDBOK == \A g, f : CopyOK(NoDB, g, f)
BY DEF CopyOK, NoDB

\* The invariant holds of an empty directory and of a node that runs.
LEMMA DirInvInit == Init => DirInv
<1>1. BackupsOK({}, 0)
  BY FS_EmptySet DEF BackupsOK
<1>2. ASSUME FreshDir PROVE DirInv
  BY Zenon, <1>1, <1>2, NoDBOK DEF FreshDir, DirInv, NodeShape, ToolShape, RunsShape, CopiesOK, Down, Idle
<1>3. ASSUME RunningDir PROVE DirInv
  <2> DEFINE own == OwnGenesis(DefaultChain, KeyFile(1))
  <2>1. own # None /\ own[2] = DefaultChain
    BY FilesExist DEF OwnGenesis
  <2>2. /\ disk = [key |-> KeyFile(1), genesis |-> own, config |-> None]
        /\ db = [NoDB EXCEPT !.exists = TRUE, !.buckets = TRUE, !.seed = own, !.applied = 1]
        /\ node = [pc |-> "running", chain |-> DefaultChain, key |-> KeyFile(1)]
        /\ tool = Idle /\ backups = {} /\ spare = NoDB
        /\ runs = [tools |-> MaxTools, backups |-> 0, forced |-> FALSE]
    BY <1>3 DEF RunningDir
  <2> HIDE DEF own
  <2>3. CopyOK(db, own, FALSE) /\ db.applied = 1
    <3>1. db = [exists |-> TRUE, buckets |-> TRUE, whole |-> TRUE, seed |-> own,
                applied |-> 1, height |-> 0]
      BY Zenon, <2>2 DEF NoDB
    <3> QED
      BY <2>1, <3>1 DEF CopyOK
  <2>4. CopiesOK(disk.genesis, runs.forced)
    BY Zenon, <2>2, <2>3, NoDBOK DEF CopiesOK, Idle
  <2> QED
    BY Zenon, <1>1, <2>1, <2>2, <2>3, <2>4 DEF DirInv, NodeShape, ToolShape, RunsShape, Idle
<1> QED
  BY <1>2, <1>3 DEF Init

\* Writing or generating the key leaves the other files alone.
LEMMA KeyStep ==
  ASSUME DirInv, LoadOrGenerateKeypair
  PROVE  DOMAIN disk' = DOMAIN disk /\ disk'.genesis = disk.genesis
BY DEF DirInv, LoadOrGenerateKeypair, GenerateKeypair, Write

\* An init command begins.
LEMMA InitStartOK ==
  ASSUME DirInv, NEW c, InitStart(c)
  PROVE  DirInv'
<1>1. /\ node.pc = "down" /\ UNCHANGED <<db, node, backups, spare>>
      /\ LoadOrGenerateKeypair
      /\ runs' = [runs EXCEPT !.tools = @ + 1]
  BY DEF InitStart, RunTool
<1>2. \/ tool' = Idle
      \/ tool' = [Idle EXCEPT !.pc = "genesis", !.cmd = c]
  BY DEF InitStart
<1>3. DOMAIN disk' = DOMAIN disk /\ disk'.genesis = disk.genesis
  BY <1>1, KeyStep
<1>4. ToolShape' /\ tool'.copy = NoDB
  <2>1. CASE tool' = Idle
    BY <2>1 DEF ToolShape, Idle
  <2>2. CASE tool' = [Idle EXCEPT !.pc = "genesis", !.cmd = c]
    <3>1. tool' = [pc |-> "genesis", cmd |-> c, copy |-> NoDB]
      BY Zenon, <2>2 DEF Idle
    <3> QED
      BY <3>1 DEF ToolShape
  <2> QED
    BY Zenon, <1>2, <2>1, <2>2
<1>5. RunsShape' /\ runs'.forced = runs.forced /\ runs'.backups = runs.backups
  BY <1>1 DEF DirInv, RunsShape
<1>6. CopiesOK(disk.genesis, runs.forced)'
  BY <1>1, <1>3, <1>4, <1>5, NoDBOK DEF DirInv, CopiesOK
<1> QED
  BY Zenon, <1>1, <1>3, <1>4, <1>5, <1>6 DEF DirInv, NodeShape, BackupsOK

\* Replacing the genesis file: there was none, so no database is seeded yet, or
\* the replacement is recorded as forced.
LEMMA NewGenesisOK ==
  ASSUME NEW d, NEW g, NEW h, NEW f, NEW e, CopyOK(d, g, f),
         f => e, g = h \/ g = None \/ e
  PROVE  CopyOK(d, h, e)
BY DEF CopyOK

\* copyGenesisFile and ensureGenesis.
LEMMA InitGenesisOK ==
  ASSUME DirInv, InitGenesis
  PROVE  DirInv'
<1> DEFINE c == tool.cmd
           copies == c.source /\ (disk.genesis = None \/ c.force)
           refused == copies /\ c.chain # Network
<1>1. /\ tool.pc = "genesis" /\ UNCHANGED <<db, node, backups, spare, made>>
      /\ runs' = [runs EXCEPT !.forced = @ \/ (copies /\ ~refused /\ disk.genesis # None)]
      /\ IF refused THEN UNCHANGED disk
         ELSE IF copies THEN Write("genesis", NetGenesis)
         ELSE IF c.mode = "first" THEN EnsureGenesis(c.chain, disk.key)
         ELSE UNCHANGED disk
  BY DEF InitGenesis
<1>2. tool' = Idle \/ tool' = [tool EXCEPT !.pc = "config"]
  BY DEF InitGenesis
<1>3. node.pc = "down"
  BY <1>1 DEF DirInv
<1>4. /\ RunsShape' /\ runs'.backups = runs.backups /\ runs'.forced \in BOOLEAN
      /\ runs.forced => runs'.forced
      /\ (copies /\ ~refused /\ disk.genesis # None) => runs'.forced
  BY Zenon, <1>1 DEF DirInv, RunsShape
<1>5. DOMAIN disk' = DOMAIN disk
      /\ (disk'.genesis = disk.genesis \/ disk.genesis = None \/ runs'.forced)
  BY <1>1, <1>4 DEF DirInv, EnsureGenesis, WriteUnlessThere, Write
<1>6. ToolShape' /\ tool'.copy \in {tool.copy, NoDB}
  BY <1>2 DEF DirInv, ToolShape, Idle
<1> HIDE DEF c, copies, refused
<1>7. CopiesOK(disk.genesis, runs.forced)'
  <2>1. CopyOK(db', disk'.genesis, runs'.forced) /\ CopyOK(spare', disk'.genesis, runs'.forced)
    BY <1>1, <1>4, <1>5, NewGenesisOK DEF DirInv, CopiesOK
  <2>2. CopyOK(tool'.copy, disk'.genesis, runs'.forced)
    BY <1>4, <1>5, <1>6, NewGenesisOK, NoDBOK DEF DirInv, CopiesOK
  <2>3. \A b \in backups : CopyOK(b.db, disk'.genesis, runs'.forced)
    BY <1>4, <1>5, NewGenesisOK DEF DirInv, CopiesOK
  <2> QED
    BY Zenon, <1>1, <2>1, <2>2, <2>3 DEF CopiesOK
<1> QED
  BY Zenon, <1>1, <1>3, <1>4, <1>5, <1>6, <1>7 DEF DirInv, NodeShape

\* The start-up of the node: its key.
LEMMA StartKeyOK ==
  ASSUME DirInv, StartKey
  PROVE  DirInv'
<1>1. /\ node.pc = "key" /\ LoadOrGenerateKeypair
      /\ UNCHANGED <<db, tool, backups, spare, runs>>
  BY DEF StartKey
<1>2. node' = Down \/ node' = [node EXCEPT !.pc = "genesis", !.key = disk'.key]
  BY DEF StartKey, Fatal
<1>3. DOMAIN disk' = DOMAIN disk /\ disk'.genesis = disk.genesis
  BY <1>1, KeyStep
<1>4. NodeShape' /\ node'.pc \in {"down", "genesis"}
  <2>1. CASE node' = Down
    BY <2>1 DEF NodeShape, Down
  <2>2. CASE node' = [node EXCEPT !.pc = "genesis", !.key = disk'.key]
    BY Zenon, <2>2 DEF DirInv, NodeShape
  <2> QED
    BY Zenon, <1>2, <2>1, <2>2
<1> QED
  BY <1>1, <1>3, <1>4 DEF DirInv, ToolShape, RunsShape, BackupsOK, CopiesOK

\* ensureGenesis at the start-up writes only where there is no file.
LEMMA StartGenesisOK ==
  ASSUME DirInv, StartGenesis
  PROVE  DirInv'
<1>1. /\ node.pc = "genesis" /\ EnsureGenesis(node.chain, node.key)
      /\ UNCHANGED <<db, tool, backups, spare, runs>>
  BY DEF StartGenesis
<1>2. node' = Down \/ node' = [node EXCEPT !.pc = "open"]
  BY DEF StartGenesis, Fatal
<1>3. DOMAIN disk' = DOMAIN disk /\ (disk'.genesis = disk.genesis \/ disk.genesis = None)
  BY <1>1 DEF DirInv, EnsureGenesis, WriteUnlessThere, Write
<1>4. NodeShape' /\ node'.pc \in {"down", "open"}
  BY <1>2 DEF DirInv, NodeShape, Down
<1>5. CopiesOK(disk.genesis, runs.forced)'
  BY <1>1, <1>3, NewGenesisOK DEF DirInv, CopiesOK
<1> QED
  BY <1>1, <1>3, <1>4, <1>5 DEF DirInv, ToolShape, RunsShape

\* Seeding a database from the genesis file.
LEMMA SeededOK ==
  ASSUME NEW d, NEW g, NEW f, CopyOK(d, g, f), g # None, d.applied = 0, NEW e,
         e = [d EXCEPT !.seed = g, !.applied = d.applied + 1]
  PROVE  CopyOK(e, g, f) /\ e.applied = 1
<1>1. e = [exists |-> e.exists, buckets |-> e.buckets, whole |-> e.whole, seed |-> e.seed,
           applied |-> e.applied, height |-> e.height]
  BY Zenon DEF CopyOK
<1>2. e.whole = d.whole /\ e.seed = g /\ e.applied = 1 /\ e.height = d.height
  BY DEF CopyOK
<1> QED
  BY <1>1, <1>2 DEF CopyOK

\* genesis.Apply seeds an unseeded database from the genesis file.
LEMMA ApplyGenesisOK ==
  ASSUME DirInv, ApplyGenesis
  PROVE  DirInv'
<1>1. /\ node.pc = "apply" /\ UNCHANGED <<disk, tool, backups, spare, runs>>
      /\ db' = IF db.applied > 0 \/ db.height > 0 THEN db
               ELSE [db EXCEPT !.seed = disk.genesis, !.applied = @ + 1]
      /\ node' = [node EXCEPT !.pc = "running"]
  BY DEF ApplyGenesis
<1>2. NodeShape' /\ node'.pc = "running" /\ node'.chain = node.chain
  BY <1>1 DEF DirInv, NodeShape
<1>3. CopyOK(db, disk.genesis, runs.forced) /\ disk.genesis # None
  BY <1>1 DEF DirInv, CopiesOK
<1>4. CopyOK(db', disk.genesis, runs.forced) /\ db'.applied = 1
  <2>1. db.applied \in {0, 1} /\ (db.applied = 0 => db.height = 0)
    BY <1>3 DEF CopyOK
  <2>2. CASE db.applied = 0
    <3>1. db' = [db EXCEPT !.seed = disk.genesis, !.applied = db.applied + 1]
      BY <1>1, <2>1, <2>2
    <3> QED
      BY Zenon, <1>3, <2>2, <3>1, SeededOK
  <2>3. CASE db.applied = 1
    BY <1>1, <1>3, <2>3
  <2> QED
    BY <2>1, <2>2, <2>3
<1> QED
  BY <1>1, <1>2, <1>4 DEF DirInv, ToolShape, RunsShape, CopiesOK, BackupsOK

\* A step that changes the database in use only, and not what it was seeded
\* with.
LEMMA TouchOK ==
  ASSUME DirInv, NEW d, CopyOK(d, disk.genesis, runs.forced), d.applied = db.applied,
         db' = d, UNCHANGED <<disk, backups, spare>>,
         NodeShape', ToolShape', RunsShape',
         runs'.forced = runs.forced, runs'.backups = runs.backups,
         tool'.copy \in {tool.copy, NoDB},
         node'.chain = node.chain,
         node'.pc = node.pc \/ node'.pc \in {"down", "key", "load"},
         node'.pc # "down" => tool'.pc \notin {"genesis", "config"}
  PROVE  DirInv'
<1>1. CopyOK(tool'.copy, disk.genesis, runs.forced)
  BY NoDBOK DEF DirInv, CopiesOK
<1>2. CopiesOK(disk.genesis, runs.forced)'
  BY <1>1 DEF DirInv, CopiesOK
<1> QED
  BY <1>2 DEF DirInv, BackupsOK

\* Opening a database leaves it as good as it was.
LEMMA OpenedOK ==
  ASSUME NEW d, NEW g, NEW f, CopyOK(d, g, f), NEW e,
         e = [d EXCEPT !.exists = TRUE] \/ e = [d EXCEPT !.exists = TRUE, !.buckets = TRUE]
  PROVE  CopyOK(e, g, f) /\ e.applied = d.applied
BY Zenon DEF CopyOK

\* bolt.Open creates the file, and the node its buckets.
LEMMA OpenOK ==
  ASSUME DirInv, OpenDB \/ BackupStart
  PROVE  DirInv'
<1>1. CASE OpenDB
  <2> DEFINE d == [db EXCEPT !.exists = TRUE, !.buckets = TRUE]
  <2>1. CopyOK(d, disk.genesis, runs.forced) /\ d.applied = db.applied
    BY Zenon, OpenedOK DEF DirInv, CopiesOK
  <2>2. /\ db' = d /\ UNCHANGED <<disk, tool, backups, spare, runs>>
        /\ node.pc = "open" /\ node' = [node EXCEPT !.pc = "load"]
    BY <1>1 DEF OpenDB
  <2>3. NodeShape' /\ node'.pc = "load" /\ node'.chain = node.chain
    BY <2>2 DEF DirInv, NodeShape
  <2> HIDE DEF d
  <2>4. ToolShape' /\ RunsShape' /\ tool.pc \notin {"genesis", "config"}
    BY <2>2 DEF DirInv, ToolShape, RunsShape
  <2> QED
    BY Zenon, <2>1, <2>2, <2>3, <2>4, TouchOK
<1>2. CASE BackupStart
  <2> DEFINE d == [db EXCEPT !.exists = TRUE]
  <2>1. CopyOK(d, disk.genesis, runs.forced) /\ d.applied = db.applied
    BY Zenon, OpenedOK DEF DirInv, CopiesOK
  <2>2. /\ db' = d /\ UNCHANGED <<disk, node, backups, spare>>
        /\ tool' = [Idle EXCEPT !.pc = "copy"]
        /\ runs' = [runs EXCEPT !.tools = @ + 1]
    BY <1>2 DEF BackupStart, RunTool
  <2>3. ToolShape' /\ tool'.pc = "copy" /\ tool'.copy = NoDB
    BY <2>2 DEF ToolShape, Idle
  <2>4. /\ RunsShape' /\ runs'.forced = runs.forced /\ runs'.backups = runs.backups
        /\ NodeShape'
    BY <2>2 DEF DirInv, RunsShape, NodeShape
  <2> HIDE DEF d
  <2> QED
    BY Zenon, <2>1, <2>2, <2>3, <2>4, TouchOK
<1> QED
  BY <1>1, <1>2

\* The copy gets its name: its number is new.
LEMMA BackupInstallOK ==
  ASSUME DirInv, BackupInstall
  PROVE  DirInv'
<1> DEFINE n == runs.backups
           new == [at |-> n, db |-> tool.copy]
<1>1. /\ tool.pc = "install" /\ UNCHANGED <<disk, db, node, spare>>
      /\ backups' = {b \in backups : b.at # n} \cup {new}
      /\ runs' = [runs EXCEPT !.backups = @ + 1]
      /\ tool' = [tool EXCEPT !.pc = "prune"]
  BY DEF BackupInstall
<1>2. /\ RunsShape' /\ runs'.backups = n + 1 /\ runs'.forced = runs.forced
      /\ ToolShape' /\ tool'.pc = "prune" /\ tool'.copy = tool.copy
  BY <1>1 DEF DirInv, RunsShape, ToolShape
<1>3. new.at = n /\ new.db = tool.copy
  OBVIOUS
<1> HIDE DEF n, new
<1>4. BackupsOK(backups, n)
  BY DEF DirInv, n
<1>5. backups' = backups \cup {new}
  BY <1>1, <1>4 DEF BackupsOK
<1>6. BackupsOK(backups', n + 1)
  <2>1. IsFiniteSet(backups')
    BY Zenon, <1>4, <1>5, FS_AddElement DEF BackupsOK
  <2> QED
    BY <1>3, <1>4, <1>5, <2>1 DEF BackupsOK
<1>7. \A b \in backups' : CopyOK(b.db, disk.genesis, runs.forced)
  BY Zenon, <1>3, <1>5 DEF DirInv, CopiesOK
<1> QED
  BY Zenon, <1>1, <1>2, <1>6, <1>7 DEF DirInv, CopiesOK, NodeShape

\* Pruning removes the oldest of at least two backups, never the newest.
LEMMA BackupPruneOK ==
  ASSUME DirInv, BackupPrune
  PROVE  DirInv'
<1> DEFINE n == runs.backups
<1>1. /\ tool.pc = "prune" /\ UNCHANGED <<disk, db, node, spare, runs>>
      /\ \/ tool' = Idle /\ backups' = backups
         \/ /\ Cardinality(backups) > Retain
            /\ backups' = {x \in backups : \E y \in backups : y.at < x.at}
            /\ tool' = tool
  <2>1. Cardinality(backups) \in Nat /\ Retain \in Nat
    BY Zenon, RetainPositive, FS_CardinalityType DEF DirInv, BackupsOK
  <2> QED
    BY <2>1 DEF BackupPrune
<1>2. /\ ToolShape' /\ tool'.copy \in {tool.copy, NoDB} /\ tool'.pc \in {"prune", "idle"}
  BY <1>1 DEF DirInv, ToolShape, Idle
<1>3. BackupsOK(backups, n)
  BY DEF DirInv
<1>4. BackupsOK(backups', n) /\ backups' \subseteq backups
  <2>1. CASE backups' = backups
    BY Zenon, <1>3, <2>1
  <2>2. CASE Cardinality(backups) > Retain /\ backups' = {x \in backups : \E y \in backups : y.at < x.at}
    <3>1. PICK b \in backups : b.at = n - 1
      <4>1. backups # {}
        BY <2>2, RetainPositive, FS_EmptySet
      <4> QED
        BY <1>3, <4>1 DEF BackupsOK
    <3>2. PICK c \in backups : c # b
      <4>1. backups # {b}
        <5>1. Cardinality({b}) = 1
          BY Zenon, FS_Singleton
        <5> QED
          BY <2>2, <5>1, RetainPositive
      <4> QED
        BY <3>1, <4>1
    <3>3. c.at < n - 1
      BY <1>3, <3>1, <3>2 DEF BackupsOK
    <3>4. IsFiniteSet(backups')
      BY Zenon, <1>3, <2>2, FS_Subset DEF BackupsOK
    <3> HIDE DEF n
    <3> QED
      BY Zenon, <1>3, <2>2, <3>1, <3>2, <3>3, <3>4 DEF BackupsOK
  <2> QED
    BY <1>1, <2>1, <2>2
<1> HIDE DEF n
<1>5. CopyOK(tool'.copy, disk.genesis, runs.forced)
  BY <1>2, NoDBOK DEF DirInv, CopiesOK
<1>6. CopiesOK(disk.genesis, runs.forced)'
  BY Zenon, <1>1, <1>4, <1>5 DEF DirInv, CopiesOK
<1> QED
  BY Zenon, <1>1, <1>2, <1>4, <1>6 DEF DirInv, NodeShape, RunsShape, n

\* RestoreDatabase reads one backup.
LEMMA RestoreStartOK ==
  ASSUME DirInv, NEW b \in backups, RestoreStart(b)
  PROVE  DirInv'
<1>1. /\ UNCHANGED <<disk, db, node, backups, spare>>
      /\ tool' = [Idle EXCEPT !.pc = "restore", !.copy = b.db]
      /\ runs' = [runs EXCEPT !.tools = @ + 1]
  BY DEF RestoreStart, RunTool
<1>2. ToolShape' /\ tool'.pc = "restore" /\ tool'.copy = b.db
  <2>1. tool' = [pc |-> "restore", cmd |-> [mode |-> "none"], copy |-> b.db]
    BY Zenon, <1>1 DEF Idle
  <2> QED
    BY <2>1 DEF ToolShape
<1>3. RunsShape' /\ runs'.forced = runs.forced /\ runs'.backups = runs.backups
  BY <1>1 DEF DirInv, RunsShape
<1>4. CopiesOK(disk.genesis, runs.forced)'
  BY <1>1, <1>2, <1>3 DEF DirInv, CopiesOK
<1> QED
  BY Zenon, <1>1, <1>2, <1>3, <1>4 DEF DirInv, NodeShape, BackupsOK

\* The other steps of the node.
LEMMA NodeStepOK ==
  ASSUME DirInv, NodeStep
  PROVE  DirInv'
<1> USE DEF DirInv, NodeShape, ToolShape, RunsShape, CopiesOK, BackupsOK
<1>1. CASE StartNode
  BY <1>1 DEF StartNode
<1>2. CASE LoadGenesis
  BY <1>2 DEF LoadGenesis, Fatal, Down
<1>3. CASE CommitBlock
  BY <1>3 DEF CommitBlock, CopyOK
<1>4. CASE StopNode
  BY <1>4 DEF StopNode, Fatal, Down
<1> QED
  BY Zenon, <1>1, <1>2, <1>3, <1>4, StartKeyOK, StartGenesisOK, OpenOK, ApplyGenesisOK DEF NodeStep

\* The other steps of the tools.
LEMMA ToolStepOK ==
  ASSUME DirInv, ToolStep
  PROVE  DirInv'
<1> USE DEF DirInv, NodeShape, ToolShape, RunsShape, CopiesOK, BackupsOK
<1>1. CASE InitConfig
  BY <1>1, NoDBOK DEF InitConfig, WriteUnlessThere, Write, Idle
<1>2. CASE BackupCopy
  BY Zenon, <1>2 DEF BackupCopy
<1>3. CASE RestoreInstall
  BY Zenon, <1>3, NoDBOK DEF RestoreInstall, Idle
<1>4. CASE SwitchDB
  BY Zenon, <1>4, NoDBOK DEF SwitchDB
<1>5. CASE KillTool
  BY <1>5, NoDBOK DEF KillTool, Idle
<1> QED
  BY Zenon, <1>1, <1>2, <1>3, <1>4, <1>5, InitStartOK, InitGenesisOK, OpenOK, BackupInstallOK,
     BackupPruneOK, RestoreStartOK DEF ToolStep

\* Every step of a node, a tool or a web client preserves the invariant.
LEMMA DirInvNext == DirInv /\ [Next]_vars => DirInv'
<1> SUFFICES ASSUME DirInv, [Next]_vars PROVE DirInv'
  BY Zenon
<1>1. ASSUME UNCHANGED dirVars PROVE DirInv'
  BY <1>1 DEF dirVars, DirInv, NodeShape, ToolShape, RunsShape, CopiesOK, BackupsOK
<1>2. UNCHANGED dirVars \/ DirNext
  BY DEF Next, vars, Poll, PollHeight, PollRoot, PollRecord, PollFails, RestartWeb
<1> QED
  BY Zenon, <1>1, <1>2, NodeStepOK, ToolStepOK DEF DirNext

-----------------------------------------------------------------------------
\* The invariant holds in every reachable state.
THEOREM DirInvAlways == Spec => []DirInv
<1> QED
  BY DirInvInit, DirInvNext, PTL DEF Spec

\* A running node has the database of its genesis file and chain, seeded once
\* (genesis.Load and genesis.Apply).
THEOREM SeededFromGenesis == Spec => []SeedIsGenesis
<1>1. DirInv => SeedIsGenesis
  BY DEF DirInv, CopiesOK, CopyOK, SeedIsGenesis, SeededOnce
<1> QED
  BY <1>1, DirInvAlways, PTL

\* Backups and restored databases are whole and the newest backup is kept, for
\* any retention and however the tools and the node die (BackupDatabase,
\* CreateBackup and RestoreDatabase).
THEOREM CopiesStayWhole == Spec => []CopiesWhole
<1>1. DirInv => CopiesWhole
  BY Zenon DEF DirInv, CopiesOK, CopyOK, BackupsOK, CopiesWhole, BackupsKept, RestoreWhole
<1> QED
  BY <1>1, DirInvAlways, PTL

\* A complete key file is never replaced (loadOrGenerateKeypair).
THEOREM KeyNeverReplaced == Spec => KeyKept
<1>1. DirInv /\ [Next]_vars => [IsKey(disk.key) => disk'.key = disk.key]_dirVars
  <2> SUFFICES ASSUME DirInv, [Next]_vars, IsKey(disk.key) PROVE disk'.key = disk.key
    BY DEF dirVars
  <2>1. disk.key # None /\ DOMAIN disk = {"key", "genesis", "config"}
    BY DEF IsKey, None, DirInv
  <2>2. ASSUME UNCHANGED disk PROVE disk'.key = disk.key
    BY <2>2
  <2>3. ASSUME LoadOrGenerateKeypair PROVE disk'.key = disk.key
    BY <2>1, <2>3 DEF LoadOrGenerateKeypair
  <2>4. ASSUME NEW f, NEW x, f # "key", Write(f, x) PROVE disk'.key = disk.key
    BY Zenon, <2>1, <2>4 DEF Write
  <2>5. ASSUME NodeStep PROVE disk'.key = disk.key
    BY Zenon, <2>2, <2>3, <2>4, <2>5
       DEF NodeStep, StartNode, StartKey, StartGenesis, OpenDB, LoadGenesis, ApplyGenesis,
           CommitBlock, StopNode, EnsureGenesis, WriteUnlessThere
  <2>6. ASSUME ToolStep PROVE disk'.key = disk.key
    <3>1. CASE InitGenesis
      BY Zenon, <2>2, <2>4, <3>1 DEF InitGenesis, EnsureGenesis, WriteUnlessThere
    <3>2. CASE InitConfig
      BY <2>2, <2>4, <3>2 DEF InitConfig, WriteUnlessThere
    <3>3. CASE \E c \in Commands : InitStart(c)
      BY <2>3, <3>3 DEF InitStart
    <3> QED
      BY Zenon, <2>2, <2>6, <3>1, <3>2, <3>3
         DEF ToolStep, BackupStart, BackupCopy, BackupInstall, BackupPrune, RestoreStart,
             RestoreInstall, SwitchDB, KillTool
  <2> QED
    BY Zenon, <2>2, <2>5, <2>6
       DEF Next, DirNext, vars, dirVars, Poll, PollHeight, PollRoot, PollRecord, PollFails,
           RestartWeb
<1> QED
  BY <1>1, DirInvAlways, PTL DEF Spec, KeyKept
-----------------------------------------------------------------------------
\* No tool runs, and none will: the chain that the web client watches only grows.
Quiet == tool.pc = "idle" /\ ~spare.exists /\ runs.tools = MaxTools

WebShape == web = [pc |-> web.pc, height |-> web.height, root |-> web.root, last |-> web.last,
                   count |-> web.count, starts |-> web.starts]

\* What the web client has read, and stored, is not ahead of the chain, and only
\* a client with no history is told that there is no block.
ReadOK ==
  /\ WebShape /\ web.pc \in {"wait", "root", "engine"} /\ web.starts \in Nat
  /\ web.starts > 0 => Quiet
  /\ web.starts = 0 => web.pc = "wait" /\ web.last = 0 /\ web.count = 0 /\ DOMAIN history = {}
  /\ web.pc # "wait" => /\ web.height \in Nat /\ web.height <= db.height
                        /\ DOMAIN history # {} => web.height > 0
  /\ web.pc = "engine" => /\ web.root \in Nat
                          /\ web.height <= web.root /\ web.root <= db.height
  /\ \A h \in DOMAIN history : /\ h \in Nat /\ 1 <= h /\ h <= db.height
                               /\ history[h] \in Nat

HistorySize == MaxBlockHistory + TrimSize

\* The count is of records that are there, at or below the last height; what
\* earlier lives of the client left is bounded by their number.
CountOK ==
  /\ IsFiniteSet(DOMAIN history)
  /\ web.last \in Nat /\ web.count \in Int
  /\ web.last > 0 => web.last \in DOMAIN history
  /\ web.count <= HistorySize
  /\ web.count <= Cardinality({y \in DOMAIN history : y <= web.last})
  /\ web.starts > 0 =>
       Cardinality(DOMAIN history) <= (web.starts - 1) * HistorySize + web.count

\* The inductive invariant of the history, next to DirInv.
WatchInv == ReadOK /\ CountOK /\ RootNotOlder

-----------------------------------------------------------------------------
\* A part of a finite set, and what is left of the set without it.
LEMMA PartCard ==
  ASSUME NEW A, IsFiniteSet(A), NEW B, B \subseteq A
  PROVE  /\ IsFiniteSet(B) /\ IsFiniteSet(A \ B)
         /\ Cardinality(A) \in Nat /\ Cardinality(B) \in Nat /\ Cardinality(B) <= Cardinality(A)
         /\ Cardinality(A \ B) = Cardinality(A) - Cardinality(B)
<1>1. A \cap B = B
  OBVIOUS
<1>2. IsFiniteSet(B) /\ Cardinality(B) <= Cardinality(A)
  BY FS_Subset
<1>3. Cardinality(A) \in Nat /\ Cardinality(B) \in Nat
  BY <1>2, FS_CardinalityType
<1>4. IsFiniteSet(A \ B) /\ Cardinality(A \ B) = Cardinality(A) - Cardinality(A \cap B)
  BY FS_Difference
<1> QED
  BY Zenon, <1>1, <1>2, <1>3, <1>4

\* A set of natural numbers has a least element.
LEMMA LeastElement ==
  ASSUME NEW A, A \subseteq Nat, A # {}
  PROVE  \E x \in A : \A y \in A : ~(y < x)
<1> SUFFICES ASSUME \A x \in A : \E y \in A : y < x PROVE FALSE
  OBVIOUS
<1> DEFINE T == Nat \ A
<1>1. \A n \in Nat : (\A m \in Nat : m < n => m \in T) => n \in T
  OBVIOUS
<1>2. T \subseteq Nat
  OBVIOUS
<1> HIDE DEF T
<1>3. T = Nat
  BY Zenon, <1>1, <1>2, StrongInduction
<1> QED
  BY Zenon, <1>3 DEF T

-----------------------------------------------------------------------------
Below(f, x) == {y \in DOMAIN f : y < x}

UpTo(f, x) == {y \in DOMAIN f : y <= x}

Older(f) == {h \in DOMAIN f : f[h] < h}

\* Trimming removes at least the lowest record, and no record that has TrimSize
\* records below it.
LEMMA TrimOK ==
  ASSUME NEW f, IsFiniteSet(DOMAIN f), DOMAIN f \subseteq Nat, DOMAIN f # {}
  PROVE  /\ DOMAIN Trim(f) \subseteq DOMAIN f
         /\ \A x \in DOMAIN Trim(f) : Trim(f)[x] = f[x]
         /\ Cardinality(DOMAIN Trim(f)) < Cardinality(DOMAIN f)
         /\ \A x \in DOMAIN f : TrimSize <= Cardinality(Below(f, x)) => x \in DOMAIN Trim(f)
<1> DEFINE gone == {x \in DOMAIN f : Cardinality(Below(f, x)) < TrimSize}
<1>1. Trim(f) = [x \in DOMAIN f \ gone |-> f[x]]
  BY DEF Trim, Below
<1>2. PICK x \in DOMAIN f : \A y \in DOMAIN f : ~(y < x)
  BY LeastElement
<1>3. Below(f, x) = {}
  BY <1>2 DEF Below
<1>4. x \in gone
  BY <1>3, FS_EmptySet, HistorySizes
<1>5. ASSUME NEW z \in DOMAIN f, TrimSize <= Cardinality(Below(f, z)) PROVE z \notin gone
  <2>1. Cardinality(Below(f, z)) \in Nat
    BY Zenon, PartCard DEF Below
  <2> QED
    BY <1>5, <2>1, HistorySizes
<1>6. gone \subseteq DOMAIN f
  OBVIOUS
<1> HIDE DEF gone
<1>7. DOMAIN Trim(f) = DOMAIN f \ gone /\ \A z \in DOMAIN Trim(f) : Trim(f)[z] = f[z]
  BY <1>1
<1>8. Cardinality(DOMAIN Trim(f)) < Cardinality(DOMAIN f)
  <2>1. Cardinality(DOMAIN Trim(f)) <= Cardinality(DOMAIN f \ {x})
    <3>1. DOMAIN Trim(f) \subseteq DOMAIN f \ {x}
      BY Zenon, <1>4, <1>7
    <3>2. IsFiniteSet(DOMAIN f \ {x})
      BY FS_RemoveElement
    <3> QED
      BY Zenon, <3>1, <3>2, PartCard
  <2>2. Cardinality(DOMAIN f \ {x}) = Cardinality(DOMAIN f) - 1
    BY <1>2, FS_RemoveElement
  <2>3. Cardinality(DOMAIN f) \in Nat /\ Cardinality(DOMAIN Trim(f)) \in Nat
    BY Zenon, <1>7, PartCard
  <2> QED
    BY <2>1, <2>2, <2>3
<1> QED
  BY Zenon, <1>5, <1>7, <1>8

\* What is counted at or below a height shrinks by no more than what is removed.
LEMMA UpToTrimmed ==
  ASSUME NEW f, NEW g, NEW h, IsFiniteSet(DOMAIN f), DOMAIN g \subseteq DOMAIN f
  PROVE  Cardinality(UpTo(f, h)) - Cardinality(UpTo(g, h))
           <= Cardinality(DOMAIN f) - Cardinality(DOMAIN g)
<1>1. UpTo(f, h) \subseteq DOMAIN f /\ UpTo(g, h) \subseteq UpTo(f, h)
      /\ UpTo(f, h) \ UpTo(g, h) \subseteq DOMAIN f \ DOMAIN g
  BY DEF UpTo
<1>2. IsFiniteSet(UpTo(f, h))
  BY Zenon, <1>1, PartCard
<1>3. /\ Cardinality(UpTo(f, h) \ UpTo(g, h)) = Cardinality(UpTo(f, h)) - Cardinality(UpTo(g, h))
      /\ Cardinality(UpTo(f, h)) \in Nat /\ Cardinality(UpTo(g, h)) \in Nat
  BY Zenon, <1>1, <1>2, PartCard
<1>4. /\ IsFiniteSet(DOMAIN f \ DOMAIN g)
      /\ Cardinality(DOMAIN f \ DOMAIN g) = Cardinality(DOMAIN f) - Cardinality(DOMAIN g)
  BY PartCard
<1>5. Cardinality(UpTo(f, h) \ UpTo(g, h)) <= Cardinality(DOMAIN f \ DOMAIN g)
  BY Zenon, <1>1, <1>4, PartCard
<1> QED
  BY Zenon, <1>3, <1>4, <1>5

-----------------------------------------------------------------------------
\* While no tool runs the chain only grows, and none starts.
LEMMA ChainGrows ==
  ASSUME DirInv, Quiet, DirNext
  PROVE  Quiet' /\ db.height \in Nat /\ db'.height \in Nat /\ db.height <= db'.height
<1>1. /\ db = [exists |-> db.exists, buckets |-> db.buckets, whole |-> db.whole,
               seed |-> db.seed, applied |-> db.applied, height |-> db.height]
      /\ db.height \in Nat
  BY DEF DirInv, CopiesOK, CopyOK
<1>2. ~ToolStep
  <2>1. ~RunTool
    BY MaxToolsNat DEF Quiet, RunTool
  <2>2. ~(\E c \in Commands : InitStart(c)) /\ ~BackupStart /\ ~(\E b \in backups : RestoreStart(b))
    BY Zenon, <2>1 DEF InitStart, BackupStart, RestoreStart
  <2>3. ~InitGenesis /\ ~InitConfig /\ ~BackupCopy /\ ~BackupInstall /\ ~BackupPrune
    <3>1. tool.pc \notin {"genesis", "config", "copy", "install", "prune"}
      BY DEF Quiet
    <3> QED
      BY Zenon, <3>1 DEF InitGenesis, InitConfig, BackupCopy, BackupInstall, BackupPrune
  <2>4. ~RestoreInstall /\ ~SwitchDB /\ ~KillTool
    BY DEF Quiet, RestoreInstall, SwitchDB, KillTool
  <2> QED
    BY Zenon, <2>2, <2>3, <2>4 DEF ToolStep
<1>3. NodeStep
  BY Zenon, <1>2 DEF DirNext
<1>4. UNCHANGED <<tool, spare, runs>>
  BY <1>3 DEF NodeStep, StartNode, StartKey, StartGenesis, OpenDB, LoadGenesis, ApplyGenesis,
     CommitBlock, StopNode
<1>5. \/ db' = db
      \/ db' = [db EXCEPT !.exists = TRUE, !.buckets = TRUE]
      \/ db' = [db EXCEPT !.seed = disk.genesis, !.applied = @ + 1]
      \/ db' = [db EXCEPT !.height = @ + 1]
  BY <1>3 DEF NodeStep, StartNode, StartKey, StartGenesis, OpenDB, LoadGenesis, ApplyGenesis,
     CommitBlock, StopNode
<1>6. db'.height = db.height \/ db'.height = db.height + 1
  BY Zenon, <1>1, <1>5
<1> QED
  BY <1>1, <1>4, <1>6 DEF Quiet

\* A step of the node or of a tool leaves the web client's state alone.
LEMMA DirStepWatch ==
  ASSUME DirInv, WatchInv, DirNext, UNCHANGED webVars
  PROVE  WatchInv'
<1>1. web' = web /\ history' = history
  BY DEF webVars
<1>2. CountOK' /\ RootNotOlder'
  BY Zenon, <1>1 DEF WatchInv, CountOK, RootNotOlder
<1>3. ReadOK'
  <2>1. CASE web.starts = 0
    BY <1>1, <2>1 DEF WatchInv, ReadOK, WebShape
  <2>2. CASE web.starts > 0
    <3>1. Quiet' /\ db.height \in Nat /\ db'.height \in Nat /\ db.height <= db'.height
      BY <2>2, ChainGrows DEF WatchInv, ReadOK
    <3> QED
      BY <1>1, <2>2, <3>1 DEF WatchInv, ReadOK, WebShape
  <2> QED
    BY <2>1, <2>2 DEF WatchInv, ReadOK
<1> QED
  BY <1>2, <1>3 DEF WatchInv

\* A status is read: its height, then a root that is not older.
LEMMA PollReads ==
  ASSUME DirInv, WatchInv, PollHeight \/ PollRoot \/ PollFails
  PROVE  WatchInv'
<1>1. db.height \in Nat /\ UNCHANGED dirVars /\ history' = history
  BY DEF DirInv, CopiesOK, CopyOK, PollHeight, PollRoot, PollFails
<1>2. WebShape /\ web.starts \in Nat
  BY Zenon DEF WatchInv, ReadOK
<1>3. /\ WebShape' /\ web'.last = web.last /\ web'.count = web.count /\ web'.starts = web.starts
      /\ \/ web'.pc = "root" /\ web'.height = db.height
         \/ /\ web.pc = "root" /\ web'.pc = "engine"
            /\ web'.height = web.height /\ web'.root = db.height
         \/ web'.pc = "wait"
      /\ web.starts = 0 => web'.pc = "wait"
  <2>1. web.starts = 0 => web.pc = "wait"
    BY DEF WatchInv, ReadOK
  <2>2. CASE PollHeight
    <3>1. web' = [web EXCEPT !.pc = "root", !.height = db.height] /\ web.starts > 0
      BY <2>2 DEF PollHeight
    <3>2. web' = [pc |-> "root", height |-> db.height, root |-> web.root, last |-> web.last,
                  count |-> web.count, starts |-> web.starts]
      BY Zenon, <1>2, <3>1 DEF WebShape
    <3>3. WebShape'
      BY <3>2 DEF WebShape
    <3>4. web.starts # 0
      BY <1>2, <3>1
    <3>5. /\ web'.last = web.last /\ web'.count = web.count /\ web'.starts = web.starts
          /\ web'.pc = "root" /\ web'.height = db.height
      BY Zenon, <3>2
    <3> QED
      BY Zenon, <3>3, <3>4, <3>5
  <2>3. CASE PollRoot
    BY Zenon, <1>2, <2>1, <2>3 DEF PollRoot, WebShape
  <2>4. CASE PollFails
    BY Zenon, <1>2, <2>4 DEF PollFails, WebShape
  <2> QED
    BY Zenon, <2>2, <2>3, <2>4
<1>4. CountOK' /\ RootNotOlder'
  BY Zenon, <1>1, <1>3 DEF WatchInv, CountOK, RootNotOlder
<1>5. db' = db /\ Quiet' = Quiet
  BY Zenon, <1>1 DEF dirVars, Quiet
<1>6. ReadOK'
  BY <1>1, <1>2, <1>3, <1>5 DEF WatchInv, ReadOK
<1> QED
  BY Zenon, <1>4, <1>6 DEF WatchInv

\* The web client restarts: what it stored becomes that of an earlier life.
LEMMA RestartWatch ==
  ASSUME DirInv, WatchInv, RestartWeb
  PROVE  WatchInv'
<1>1. /\ UNCHANGED dirVars /\ history' = history /\ web.starts \in Nat /\ web.starts > 0
      /\ web' = NewWeb(web.starts + 1)
  BY DEF RestartWeb, WatchInv, ReadOK
<1>2. /\ WebShape' /\ web'.pc = "wait" /\ web'.last = 0 /\ web'.count = 0
      /\ web'.starts = web.starts + 1
  BY <1>1 DEF NewWeb, WebShape
<1>3. db' = db /\ Quiet' = Quiet
  BY Zenon, <1>1 DEF dirVars, Quiet
<1>4. ReadOK' /\ RootNotOlder'
  BY <1>1, <1>2, <1>3 DEF WatchInv, ReadOK, RootNotOlder
<1>5. CountOK'
  <2>1. HistorySize \in Nat
    BY HistorySizes DEF HistorySize
  <2>2. IsFiniteSet(DOMAIN history) /\ IsFiniteSet({y \in DOMAIN history : y <= 0})
    BY FS_Subset DEF WatchInv, CountOK
  <2>3. Cardinality(DOMAIN history) \in Nat /\ Cardinality({y \in DOMAIN history : y <= 0}) \in Nat
    BY Zenon, <2>2, FS_CardinalityType
  <2>4. \A s \in Nat, w \in Nat : (s - 1) * w + w = ((s + 1) - 1) * w
    OBVIOUS
  <2>5. (web.starts - 1) * HistorySize \in Int /\ ((web.starts + 1) - 1) * HistorySize \in Int
    BY <1>1, <2>1
  <2>6. Cardinality(DOMAIN history) <= ((web.starts + 1) - 1) * HistorySize + 0
    BY <1>1, <2>1, <2>3, <2>4, <2>5 DEF WatchInv, CountOK
  <2>7. {y \in DOMAIN history' : y <= web'.last} = {y \in DOMAIN history : y <= 0}
    BY Zenon, <1>1, <1>2
  <2>8. /\ IsFiniteSet(DOMAIN history') /\ web'.last \in Nat /\ ~(web'.last > 0)
        /\ Cardinality(DOMAIN history') <= (web'.starts - 1) * HistorySize + web'.count
    BY <1>1, <1>2, <2>2, <2>6
  <2>9. /\ web'.count \in Int /\ web'.count <= HistorySize
        /\ web'.count <= Cardinality({y \in DOMAIN history' : y <= web'.last})
    BY <1>2, <2>1, <2>3, <2>7
  <2> QED
    BY Zenon, <2>8, <2>9 DEF CountOK, HistorySize
<1> QED
  BY Zenon, <1>4, <1>5 DEF WatchInv

-----------------------------------------------------------------------------
\* What a record stored under height h does to the domain and to what is older.
LEMMA PutOK ==
  ASSUME WatchInv, NEW h \in Nat, h > web.last
  PROVE  /\ DOMAIN Put(h) = DOMAIN history \cup {h} /\ Put(h)[h] = web.root
         /\ \A x \in DOMAIN history : x # h => Put(h)[x] = history[x]
         /\ IsFiniteSet(DOMAIN Put(h))
         /\ Cardinality(DOMAIN Put(h)) <= Cardinality(DOMAIN history) + 1
         /\ web.count + 1 <= Cardinality(UpTo(Put(h), h))
         /\ web.count <= Cardinality(Below(Put(h), h))
<1>1. /\ DOMAIN Put(h) = DOMAIN history \cup {h} /\ Put(h)[h] = web.root
      /\ \A x \in DOMAIN history : x # h => Put(h)[x] = history[x]
  BY Zenon DEF Put
<1>2. IsFiniteSet(DOMAIN history) /\ web.last \in Nat /\ web.count \in Int
      /\ web.count <= Cardinality(UpTo(history, web.last))
      /\ \A y \in DOMAIN history : y \in Nat
  BY Zenon DEF WatchInv, CountOK, ReadOK, UpTo
<1>3. /\ IsFiniteSet(DOMAIN Put(h)) /\ Cardinality(DOMAIN history) \in Nat
      /\ Cardinality(DOMAIN Put(h)) <= Cardinality(DOMAIN history) + 1
  <2>1. /\ IsFiniteSet(DOMAIN history \cup {h})
        /\ Cardinality(DOMAIN history \cup {h})
             = IF h \in DOMAIN history THEN Cardinality(DOMAIN history) ELSE Cardinality(DOMAIN history) + 1
    BY Zenon, <1>2, FS_AddElement
  <2>2. Cardinality(DOMAIN history) \in Nat
    BY Zenon, <1>2, FS_CardinalityType
  <2> QED
    BY <1>1, <2>1, <2>2
<1> DEFINE A == UpTo(history, web.last)
<1>4. /\ A \subseteq Below(Put(h), h) /\ A \cup {h} \subseteq UpTo(Put(h), h) /\ h \notin A
      /\ Below(Put(h), h) \subseteq DOMAIN Put(h) /\ UpTo(Put(h), h) \subseteq DOMAIN Put(h)
      /\ A \subseteq DOMAIN history
  BY <1>1, <1>2 DEF UpTo, Below
<1> HIDE DEF A
<1>5. IsFiniteSet(A) /\ Cardinality(A) \in Nat /\ Cardinality(A \cup {h}) = Cardinality(A) + 1
  BY Zenon, <1>2, <1>4, FS_Subset, FS_AddElement, FS_CardinalityType
<1>6. IsFiniteSet(Below(Put(h), h)) /\ IsFiniteSet(UpTo(Put(h), h))
  BY Zenon, <1>3, <1>4, FS_Subset
<1>7. Cardinality(A) <= Cardinality(Below(Put(h), h)) /\ Cardinality(Below(Put(h), h)) \in Nat
  BY Zenon, <1>4, <1>6, PartCard
<1>8. Cardinality(A \cup {h}) <= Cardinality(UpTo(Put(h), h)) /\ Cardinality(UpTo(Put(h), h)) \in Nat
  BY Zenon, <1>4, <1>6, PartCard
<1>9. web.count <= Cardinality(A)
  BY Zenon, <1>2 DEF A
<1> QED
  BY <1>1, <1>2, <1>3, <1>5, <1>7, <1>8, <1>9

\* A height is recorded: the root is not older than the height unless this is the
\* first record of all, and the record is there after the trimming.
LEMMA PollRecords ==
  ASSUME DirInv, WatchInv, PollRecord, NewHeight(Reported)
  PROVE  WatchInv'
<1> DEFINE h == Reported
           f == Put(h)
           g == history'
<1>1. /\ web.pc = "engine" /\ UNCHANGED dirVars
      /\ g = IF web.count + 1 > HistorySize THEN Trim(f) ELSE f
      /\ web' = [web EXCEPT !.pc = "wait", !.height = 0, !.root = 0, !.last = h,
                            !.count = @ + 1 - Cardinality(DOMAIN f) + Cardinality(DOMAIN g)]
  BY DEF PollRecord, HistorySize
<1>2. /\ WebShape /\ web.starts \in Nat /\ web.starts > 0 /\ Quiet
      /\ web.last \in Nat /\ web.count \in Int /\ web.count <= HistorySize
      /\ web.height \in Nat /\ web.height <= db.height /\ web.root \in Nat
      /\ web.height <= web.root /\ web.root <= db.height
      /\ DOMAIN history # {} => web.height > 0
      /\ \A x \in DOMAIN history : x \in Nat /\ 1 <= x /\ x <= db.height /\ history[x] \in Nat
  BY <1>1 DEF WatchInv, ReadOK, CountOK
<1>3. db.height \in Nat
  BY Zenon DEF DirInv, CopiesOK, CopyOK
<1>4. h \in Nat /\ h > web.last /\ 1 <= h /\ h <= db.height
  BY <1>2, <1>3 DEF NewHeight, Reported
<1>5. DOMAIN history # {} => h = web.height
  BY <1>2 DEF Reported
<1>6. /\ WebShape' /\ web'.pc = "wait" /\ web'.last = h /\ web'.starts = web.starts
      /\ web'.count = web.count + 1 - Cardinality(DOMAIN f) + Cardinality(DOMAIN g)
  <2>1. web' = [pc |-> "wait", height |-> 0, root |-> 0, last |-> h,
                count |-> web.count + 1 - Cardinality(DOMAIN f) + Cardinality(DOMAIN g),
                starts |-> web.starts]
    BY Zenon, <1>1, <1>2 DEF WebShape
  <2> HIDE DEF h, f, g
  <2> QED
    BY Zenon, <2>1 DEF WebShape
<1> HIDE DEF h
<1>7. /\ DOMAIN f = DOMAIN history \cup {h} /\ f[h] = web.root
      /\ \A x \in DOMAIN history : x # h => f[x] = history[x]
      /\ IsFiniteSet(DOMAIN f)
      /\ Cardinality(DOMAIN f) <= Cardinality(DOMAIN history) + 1
      /\ web.count + 1 <= Cardinality(UpTo(f, h))
      /\ web.count <= Cardinality(Below(f, h))
  BY Zenon, <1>4, PutOK
<1> HIDE DEF f
<1>8. HistorySize \in Nat /\ TrimSize \in Nat /\ TrimSize <= HistorySize
  BY HistorySizes DEF HistorySize
<1>9. DOMAIN f \subseteq Nat /\ DOMAIN f # {}
  BY Zenon, <1>2, <1>4, <1>7
<1>10. IsFiniteSet(Below(f, h)) /\ Cardinality(Below(f, h)) \in Nat
       /\ IsFiniteSet(UpTo(f, h)) /\ Cardinality(UpTo(f, h)) \in Nat
       /\ Cardinality(DOMAIN f) \in Nat
  <2>1. Below(f, h) \subseteq DOMAIN f /\ UpTo(f, h) \subseteq DOMAIN f
    BY Zenon DEF Below, UpTo
  <2> QED
    BY Zenon, <1>7, <2>1, PartCard
<1>11. /\ DOMAIN g \subseteq DOMAIN f /\ h \in DOMAIN g /\ \A x \in DOMAIN g : g[x] = f[x]
       /\ \/ web.count + 1 <= HistorySize /\ g = f
          \/ Cardinality(DOMAIN g) < Cardinality(DOMAIN f)
  <2>1. CASE web.count + 1 > HistorySize
    <3>1. g = Trim(f)
      BY Zenon, <1>1, <2>1
    <3>2. /\ DOMAIN Trim(f) \subseteq DOMAIN f
          /\ \A x \in DOMAIN Trim(f) : Trim(f)[x] = f[x]
          /\ Cardinality(DOMAIN Trim(f)) < Cardinality(DOMAIN f)
          /\ \A x \in DOMAIN f : TrimSize <= Cardinality(Below(f, x)) => x \in DOMAIN Trim(f)
      BY Zenon, <1>7, <1>9, TrimOK
    <3>3. TrimSize <= Cardinality(Below(f, h))
      BY <1>2, <1>7, <1>8, <1>10, <2>1
    <3> HIDE DEF g
    <3> QED
      BY Zenon, <1>7, <3>1, <3>2, <3>3
  <2>2. CASE ~(web.count + 1 > HistorySize)
    <3>1. g = f
      BY Zenon, <1>1, <2>2
    <3> HIDE DEF g
    <3> QED
      BY <1>2, <1>7, <1>8, <2>2, <3>1
  <2> QED
    BY Zenon, <2>1, <2>2
<1>12. IsFiniteSet(DOMAIN g) /\ Cardinality(DOMAIN g) \in Nat
       /\ Cardinality(DOMAIN g) <= Cardinality(DOMAIN f)
  BY Zenon, <1>7, <1>11, PartCard
<1>13. RootNotOlder'
  <2>1. Older(g) \subseteq {h} \/ Older(g) \subseteq Older(history)
    <3>1. CASE DOMAIN history = {}
      <4>1. DOMAIN g \subseteq {h}
        BY Zenon, <1>7, <1>11, <3>1
      <4> QED
        BY Zenon, <4>1 DEF Older
    <3>2. CASE DOMAIN history # {}
      <4>1. h <= web.root
        BY Zenon, <1>2, <1>5, <3>2
      <4>2. ASSUME NEW x \in Older(g) PROVE x \in Older(history)
        <5>1. x \in DOMAIN f /\ f[x] < x
          BY Zenon, <1>11, <4>2 DEF Older
        <5>2. x # h
          BY <1>2, <1>4, <1>7, <4>1, <5>1
        <5> QED
          BY Zenon, <1>7, <5>1, <5>2 DEF Older
      <4> QED
        BY Zenon, <4>2
    <3> QED
      BY Zenon, <3>1, <3>2
  <2>2. IsFiniteSet({h}) /\ Cardinality({h}) = 1
    BY Zenon, FS_Singleton
  <2>3. IsFiniteSet(Older(history)) /\ Cardinality(Older(history)) \in Nat /\ Cardinality(Older(history)) <= 1
    <3>1. IsFiniteSet(DOMAIN history) /\ Older(history) \subseteq DOMAIN history
      BY DEF WatchInv, CountOK, Older
    <3>2. IsFiniteSet(Older(history)) /\ Cardinality(Older(history)) \in Nat
      BY Zenon, <3>1, PartCard
    <3> QED
      BY <3>2 DEF WatchInv, RootNotOlder, Older
  <2>4. Cardinality(Older(g)) \in Nat /\ Cardinality(Older(g)) <= 1
    <3>1. CASE Older(g) \subseteq {h}
      BY Zenon, <2>2, <3>1, PartCard
    <3>2. CASE Older(g) \subseteq Older(history)
      <4>1. Cardinality(Older(g)) \in Nat /\ Cardinality(Older(g)) <= Cardinality(Older(history))
        BY Zenon, <2>3, <3>2, PartCard
      <4> QED
        BY <2>3, <4>1
    <3> QED
      BY Zenon, <2>1, <3>1, <3>2
  <2> QED
    BY <2>4 DEF RootNotOlder, Older
<1>14. ReadOK'
  <2>1. db' = db /\ Quiet' = Quiet
    BY Zenon, <1>1 DEF dirVars, Quiet
  <2>2. \A x \in DOMAIN g : x \in Nat /\ 1 <= x /\ x <= db.height /\ g[x] \in Nat
    <3> SUFFICES ASSUME NEW x \in DOMAIN g PROVE x \in Nat /\ 1 <= x /\ x <= db.height /\ g[x] \in Nat
      OBVIOUS
    <3>1. x \in DOMAIN f /\ g[x] = f[x]
      BY Zenon, <1>11
    <3> HIDE DEF g
    <3> QED
      BY Zenon, <1>2, <1>4, <1>7, <3>1
  <2> QED
    BY <1>2, <1>6, <2>1, <2>2 DEF ReadOK
<1>15. CountOK'
  <2>1. Cardinality(UpTo(f, h)) - Cardinality(UpTo(g, h)) <= Cardinality(DOMAIN f) - Cardinality(DOMAIN g)
    BY Zenon, <1>7, <1>11, UpToTrimmed
  <2>2. Cardinality(UpTo(g, h)) \in Nat
    <3>1. UpTo(g, h) \subseteq DOMAIN g
      BY Zenon DEF UpTo
    <3> QED
      BY Zenon, <1>12, <3>1, PartCard
  <2>3. web'.count \in Int /\ web'.count <= Cardinality(UpTo(g, h))
    BY <1>2, <1>6, <1>7, <1>10, <1>12, <2>1, <2>2
  <2>4. web'.count <= HistorySize
    <3>1. CASE web.count + 1 <= HistorySize /\ g = f
      BY <1>2, <1>6, <1>10, <1>12, <3>1
    <3>2. CASE Cardinality(DOMAIN g) < Cardinality(DOMAIN f)
      BY <1>2, <1>6, <1>8, <1>10, <1>12, <3>2
    <3> QED
      BY Zenon, <1>11, <3>1, <3>2
  <2>5. Cardinality(DOMAIN g) <= (web'.starts - 1) * HistorySize + web'.count
    <3> DEFINE e == (web.starts - 1) * HistorySize
    <3>1. e \in Int
      BY <1>2, <1>8
    <3>2. Cardinality(DOMAIN history) <= e + web.count /\ Cardinality(DOMAIN history) \in Nat
      BY Zenon, <1>2, FS_CardinalityType DEF WatchInv, CountOK
    <3>3. (web'.starts - 1) * HistorySize = e
      BY Zenon, <1>6
    <3> HIDE DEF e, g
    <3> QED
      BY <1>2, <1>6, <1>7, <1>10, <1>12, <3>1, <3>2, <3>3
  <2> QED
    BY Zenon, <1>4, <1>6, <1>11, <1>12, <2>3, <2>4, <2>5 DEF CountOK, UpTo, HistorySize
<1> QED
  BY Zenon, <1>13, <1>14, <1>15 DEF WatchInv

\* A height that the client has already is not recorded again.
LEMMA PollSkips ==
  ASSUME DirInv, WatchInv, PollRecord, ~NewHeight(Reported)
  PROVE  WatchInv'
<1>1. /\ UNCHANGED dirVars /\ history' = history /\ WebShape /\ web.starts \in Nat
      /\ web' = [web EXCEPT !.pc = "wait", !.height = 0, !.root = 0]
      /\ web.pc = "engine"
  BY DEF PollRecord, WatchInv, ReadOK
<1>2. /\ WebShape' /\ web'.pc = "wait" /\ web'.last = web.last /\ web'.count = web.count
      /\ web'.starts = web.starts
  BY Zenon, <1>1 DEF WebShape
<1>3. db' = db /\ Quiet' = Quiet
  BY <1>1 DEF dirVars, Quiet
<1>4. CountOK' /\ RootNotOlder'
  BY <1>1, <1>2 DEF WatchInv, CountOK, RootNotOlder
<1>5. ReadOK'
  BY Zenon, <1>1, <1>2, <1>3 DEF WatchInv, ReadOK
<1> QED
  BY <1>4, <1>5 DEF WatchInv

-----------------------------------------------------------------------------
\* A client that has not started, or has just started, has no history.
LEMMA WatchInvInit == Init => WatchInv
<1> SUFFICES ASSUME Init PROVE WatchInv
  OBVIOUS
<1>1. DOMAIN history = {}
  BY DEF Init
<1>2. \/ web = NewWeb(0)
      \/ web = NewWeb(1) /\ Quiet
  BY DEF Init, RunningDir, Quiet, Idle, NoDB
<1>3. /\ WebShape /\ web.pc = "wait" /\ web.last = 0 /\ web.count = 0
      /\ web.starts = 0 \/ (web.starts = 1 /\ Quiet)
  BY <1>2 DEF NewWeb, WebShape
<1>4. IsFiniteSet({}) /\ Cardinality({}) = 0
  BY FS_EmptySet
<1>5. ReadOK
  BY <1>1, <1>3 DEF ReadOK
<1>6. {y \in DOMAIN history : y <= web.last} = {} /\ {x \in DOMAIN history : history[x] < x} = {}
  BY <1>1
<1>7. RootNotOlder
  BY <1>4, <1>6 DEF RootNotOlder
<1>8. HistorySize \in Nat
  BY HistorySizes DEF HistorySize
<1>9. CountOK
  <2>1. web.starts > 0 => (web.starts - 1) * HistorySize = 0
    BY <1>3, <1>8
  <2> QED
    BY <1>1, <1>3, <1>4, <1>6, <1>8, <2>1 DEF CountOK
<1> QED
  BY Zenon, <1>5, <1>7, <1>9 DEF WatchInv

\* Every step preserves the invariant of the history.
LEMMA WatchInvNext == DirInv /\ WatchInv /\ [Next]_vars => WatchInv'
<1> SUFFICES ASSUME DirInv, WatchInv, [Next]_vars PROVE WatchInv'
  BY Zenon
<1>1. CASE UNCHANGED vars
  BY <1>1 DEF vars, dirVars, webVars, WatchInv, ReadOK, CountOK, RootNotOlder, WebShape, Quiet
<1> QED
  BY Zenon, <1>1, DirStepWatch, PollReads, PollRecords, PollSkips, RestartWatch DEF Next, Poll

\* The web client's history is what the chain was: a root is not older than its
\* height but for the first record, the newest record is never trimmed, and the
\* history is bounded for each life of the client, for any sizes, any number of
\* restarts and any chain (captureBlocks, recordBlock and Status).
THEOREM HistoryIsFaithful == Spec => []HistoryFaithful
<1>1. WatchInv => HistoryFaithful
  <2> SUFFICES ASSUME WatchInv PROVE HistoryFaithful
    OBVIOUS
  <2>1. HistorySize \in Nat /\ web.starts \in Nat
    BY HistorySizes DEF HistorySize, WatchInv, ReadOK
  <2>2. Cardinality(DOMAIN history) <= web.starts * HistorySize
    <3>1. CASE web.starts = 0
      <4>1. Cardinality(DOMAIN history) = 0
        BY Zenon, <3>1, FS_EmptySet DEF WatchInv, ReadOK
      <4> QED
        BY <2>1, <3>1, <4>1
    <3>2. CASE web.starts > 0
      <4>1. \A s \in Nat, w \in Nat : (s - 1) * w + w = s * w
        OBVIOUS
      <4>2. (web.starts - 1) * HistorySize \in Int /\ web.starts * HistorySize \in Int
        BY <2>1
      <4>3. Cardinality(DOMAIN history) \in Nat
        BY FS_CardinalityType DEF WatchInv, CountOK
      <4> QED
        BY <2>1, <3>2, <4>1, <4>2, <4>3 DEF WatchInv, CountOK
    <3> QED
      BY <2>1, <3>1, <3>2
  <2> QED
    BY <2>2 DEF WatchInv, CountOK, HistoryFaithful, HistoryBounded, HistorySize
<1> QED
  BY <1>1, WatchInvInit, WatchInvNext, DirInvInit, DirInvNext, PTL DEF Spec

-----------------------------------------------------------------------------
(* The client library.                                                    *)

\* A key means one entry for ever: what a flusher drained under a key is what
\* the bucket holds under it, if it holds anything.
DrainedSound ==
  \A f \in Flusher : \A d \in flush[f].txs :
    /\ \A e \in pending : d.key = e.key => d = e
    /\ flush[f].at = "delete" => d.tx \in accepted

\* A SubmitTx in progress carries one transaction.
CallSound ==
  \A c \in Caller : call[c].at \in {"send", "enqueue"} => \E t \in Tx : call[c].txs = {t}

QueueInv == ClientTypeOK /\ NothingLost /\ HashesExact /\ DrainedSound /\ CallSound

\* A freshly opened client with an empty queue satisfies the invariant.
LEMMA QueueInvInit == ClientInit => QueueInv
<1> SUFFICES ASSUME ClientInit PROVE QueueInv OBVIOUS
<1>1. ClientTypeOK
  BY Zenon DEF ClientInit, ClientTypeOK, Resting
<1>2. NothingLost /\ HashesExact
  BY DEF ClientInit, NothingLost, HashesExact, Queued
<1>3. DrainedSound /\ CallSound
  BY DEF ClientInit, DrainedSound, CallSound, Resting
<1> QED BY <1>1, <1>2, <1>3 DEF QueueInv

\* Steps of the callers that leave the queue alone.
LEMMA SendStep ==
  ASSUME QueueInv, NEW c \in Caller,
         (\E t \in Tx : SubmitTx(c, t)) \/ Sent(c) \/ Rejected(c) \/ SendFails(c)
  PROVE  QueueInv'
<1> USE DEF QueueInv, queue
<1>0. UNCHANGED <<pending, seq, hashes, life, ready, seen, flush, stops>>
  BY DEF SubmitTx, Sent, Rejected, SendFails
<1>1. call' \in [Caller -> [at : {"idle", "send", "enqueue"}, txs : SUBSET Tx]] /\ CallSound'
  <2>1. ASSUME NEW t \in Tx, SubmitTx(c, t) PROVE <1>1!1 /\ CallSound'
    BY Zenon, <2>1 DEF SubmitTx, ClientTypeOK, CallSound, Resting
  <2>2. CASE Sent(c) \/ Rejected(c)
    <3>1. call' = [call EXCEPT ![c] = Resting]
      BY Zenon, <2>2 DEF Sent, Rejected
    <3>2. call \in [Caller -> [at : {"idle", "send", "enqueue"}, txs : SUBSET Tx]]
      BY Zenon DEF ClientTypeOK
    <3>3. Resting \in [at : {"idle", "send", "enqueue"}, txs : SUBSET Tx] /\ Resting.at = "idle"
      BY DEF Resting
    <3>4. call'[c] = Resting /\ \A d \in Caller \ {c} : call'[d] = call[d]
      BY Zenon, <3>1, <3>2
    <3>5. call' \in [Caller -> [at : {"idle", "send", "enqueue"}, txs : SUBSET Tx]]
      BY Zenon, <3>1, <3>2, <3>3
    <3>6. CallSound'
      BY ONLY CallSound, <3>3, <3>4 DEF CallSound
    <3> QED  BY <3>5, <3>6
  <2>3. CASE SendFails(c)
    BY Zenon, <2>3 DEF SendFails, ClientTypeOK, CallSound, Resting
  <2> QED BY <2>1, <2>2, <2>3
<1>2. /\ accepted \subseteq accepted' /\ accepted' \in SUBSET Tx
      /\ acked' \in SUBSET Tx /\ acked' \subseteq accepted' \cup Queued
  BY Zenon DEF SubmitTx, Sent, Rejected, SendFails, ClientTypeOK, NothingLost
<1>3. ClientTypeOK'
  BY Zenon, <1>0, <1>1, <1>2 DEF ClientTypeOK
<1>4. NothingLost' /\ HashesExact' /\ DrainedSound'
  BY <1>0, <1>2 DEF NothingLost, HashesExact, DrainedSound, Queued
<1> QED BY Zenon, <1>1, <1>3, <1>4

\* Enqueue: the new key is above every key in use, drained or pending.
LEMMA EnqueueStep ==
  ASSUME QueueInv, NEW c \in Caller, Enqueue(c)
  PROVE  QueueInv'
<1> USE DEF QueueInv, queue
<1>0. UNCHANGED <<life, ready, seen, flush, accepted, stops>>
  BY Zenon DEF Enqueue
<1>1. PICK t \in Tx : call[c].txs = {t}
  BY Zenon DEF Enqueue, CallSound
<1>2. /\ call' \in [Caller -> [at : {"idle", "send", "enqueue"}, txs : SUBSET Tx]]
      /\ CallSound'
      /\ acked' = acked \cup {t}
  BY Zenon, <1>1 DEF Enqueue, ClientTypeOK, CallSound, Resting
<1>3. CASE call[c].txs \subseteq hashes
  <2>1. UNCHANGED <<pending, seq, hashes>> /\ t \in Queued
    BY Zenon, <1>1, <1>3 DEF Enqueue, HashesExact
  <2>2. ClientTypeOK'
    BY Zenon, <1>0, <1>2, <2>1 DEF ClientTypeOK
  <2>3. NothingLost' /\ HashesExact' /\ DrainedSound'
    BY Zenon, <1>0, <1>2, <2>1 DEF NothingLost, HashesExact, DrainedSound, Queued
  <2> QED BY Zenon, <1>2, <2>2, <2>3
<1>4. CASE ~(call[c].txs \subseteq hashes)
  <2> DEFINE n == [key |-> seq + 1, tx |-> t]
  <2>1. /\ seq' = seq + 1 /\ pending' = pending \cup {n}
        /\ hashes' = hashes \cup {t} /\ t \notin hashes
    BY Zenon, <1>1, <1>4 DEF Enqueue, NextKey
  <2>2. n.key = seq + 1 /\ n.tx = t
    BY Zenon
  <2>3. seq \in Nat /\ 1..seq \subseteq 1..seq' /\ seq + 1 \in 1..seq' /\ seq' \in Nat
    BY <2>1 DEF ClientTypeOK
  <2>4. \A e \in pending : e.key # seq + 1 /\ e.tx # t
    BY <2>1, <2>3 DEF ClientTypeOK, HashesExact, Queued
  <2>5. \A f \in Flusher : \A d \in flush[f].txs : d.key # seq + 1
    BY <2>3 DEF ClientTypeOK
  <2>6. pending' \in SUBSET [key : 1..seq', tx : Tx]
    <3>1. n \in [key : 1..seq', tx : Tx]
      BY <2>3
    <3>2. [key : 1..seq, tx : Tx] \subseteq [key : 1..seq', tx : Tx]
      BY Zenon, <2>3
    <3> QED BY Zenon, <2>1, <3>1, <3>2 DEF ClientTypeOK
  <2>7. flush' \in [Flusher -> [at : {"idle", "wait", "drain", "batch", "delete"},
                               txs : SUBSET [key : 1..seq', tx : Tx]]]
    <3>1. SUBSET [key : 1..seq, tx : Tx] \subseteq SUBSET [key : 1..seq', tx : Tx]
      BY Zenon, <2>3
    <3> DEFINE A == SUBSET [key : 1..seq, tx : Tx]
               B == SUBSET [key : 1..seq', tx : Tx]
    <3>2. flush \in [Flusher -> [at : {"idle", "wait", "drain", "batch", "delete"}, txs : A]] /\ A \subseteq B
      BY Zenon, <3>1 DEF ClientTypeOK
    <3> HIDE DEF A, B
    <3>3. flush \in [Flusher -> [at : {"idle", "wait", "drain", "batch", "delete"}, txs : B]]
      BY Zenon, <3>2
    <3> QED BY Zenon, <1>0, <3>3 DEF B
  <2>8. ClientTypeOK'
    <3>1. hashes' \in SUBSET Tx /\ acked' \in SUBSET Tx
      BY Zenon, <1>2, <2>1 DEF ClientTypeOK
    <3> QED BY Zenon, <1>0, <1>2, <2>3, <2>6, <2>7, <3>1 DEF ClientTypeOK
  <2> HIDE DEF n
  <2>9. Queued' = Queued \cup {t}
    BY Zenon, <2>1, <2>2 DEF Queued
  <2>10. NothingLost'
    BY Zenon, <1>0, <1>2, <2>9 DEF NothingLost
  <2>11. HashesExact'
    BY Zenon, <2>1, <2>2, <2>4, <2>9 DEF HashesExact
  <2>12. DrainedSound'
    BY <1>0, <2>1, <2>2, <2>5 DEF DrainedSound
  <2> QED BY Zenon, <1>2, <2>8, <2>10, <2>11, <2>12
<1> QED BY Zenon, <1>3, <1>4

\* Steps of a flusher before it deletes, and of the connection, Close and New:
\* what a flusher holds is what it held or all that is pending now.
LEMMA QuietStep ==
  ASSUME QueueInv,
         \/ LoopLooks \/ ConnChange \/ Close \/ Closed \/ ClientCrash \/ New
         \/ \E f \in Flusher : Drain(f) \/ BatchSent(f) \/ BatchFails(f)
  PROVE  QueueInv'
<1> USE DEF QueueInv, queue
<1>0. UNCHANGED <<pending, seq, hashes, acked>>
  BY DEF LoopLooks, ConnChange, Close, Closed, ClientCrash, New, Drain, BatchSent, BatchFails
<1>1. /\ life' \in {"open", "closing", "closed"} /\ ready' \in BOOLEAN /\ seen' \in BOOLEAN
      /\ stops' \in Nat
  <2>1. stops' = stops \/ stops' = stops + 1
    BY DEF LoopLooks, ConnChange, Close, Closed, ClientCrash, New, Drain, BatchSent, BatchFails
  <2>2. life' \in {life, "open", "closing", "closed"} /\ ready' \in {ready, ~ready, FALSE} /\ seen' \in {seen, ready}
    BY Zenon DEF LoopLooks, ConnChange, Close, Closed, ClientCrash, New, Drain, BatchSent, BatchFails
  <2>3. life \in {"open", "closing", "closed"} /\ ready \in BOOLEAN /\ seen \in BOOLEAN /\ stops \in Nat
    BY Zenon DEF ClientTypeOK
  <2>4. life' \in {"open", "closing", "closed"} /\ stops' \in Nat
    BY <2>1, <2>2, <2>3
  <2>5. ready' \in BOOLEAN /\ seen' \in BOOLEAN
    <3>1. ready' = ready \/ ready' = ~ready \/ ready' = FALSE
      BY Zenon, <2>2
    <3>2. ready' \in BOOLEAN
      BY ONLY <2>3, <3>1, Zenon
    <3>3. seen' = seen \/ seen' = ready
      BY Zenon, <2>2
    <3> QED BY ONLY <2>3, <3>2, <3>3, Zenon
  <2> QED BY Zenon, <2>4, <2>5
<1>2. /\ call' \in [Caller -> [at : {"idle", "send", "enqueue"}, txs : SUBSET Tx]]
      /\ CallSound'
  <2>1. call' = call \/ call' = [c \in Caller |-> Resting]
    BY Zenon DEF LoopLooks, ConnChange, Close, Closed, ClientCrash, New, Drain, BatchSent, BatchFails
  <2>2. CASE call' = call
    BY Zenon, <2>2 DEF ClientTypeOK, CallSound
  <2>3. CASE call' = [c \in Caller |-> Resting]
    BY Zenon, <2>3 DEF Resting, CallSound
  <2> QED BY Zenon, <2>1, <2>2, <2>3
<1>3. accepted \subseteq accepted' /\ accepted' \in SUBSET Tx
  <2>1. CASE LoopLooks \/ ConnChange \/ Close \/ Closed \/ ClientCrash \/ New \/ \E f \in Flusher : Drain(f)
    BY Zenon, <2>1 DEF LoopLooks, ConnChange, Close, Closed, ClientCrash, New, Drain, ClientTypeOK
  <2>2. ASSUME NEW f \in Flusher, BatchSent(f) \/ BatchFails(f) PROVE <1>3!1 /\ <1>3!2
    <3>1. accepted' \in {accepted, accepted \cup {e.tx : e \in flush[f].txs}}
      BY Zenon, <2>2 DEF BatchSent, BatchFails
    <3>2. {e.tx : e \in flush[f].txs} \subseteq Tx
      BY DEF ClientTypeOK
    <3> QED BY Zenon, <3>1, <3>2 DEF ClientTypeOK
  <2> QED BY Zenon, <2>1, <2>2
<1> DEFINE Held == SUBSET [key : 1..seq, tx : Tx]
           Place == {"idle", "wait", "drain", "batch", "delete"}
<1>4. flush \in [Flusher -> [at : Place, txs : Held]] /\ pending \in Held /\ {} \in Held
  BY Zenon DEF ClientTypeOK
<1> HIDE DEF Held
<1> DEFINE Moved(g) ==
      /\ flush'[g].txs = flush[g].txs \/ flush'[g].txs = pending \/ flush'[g].txs = {}
      /\ flush'[g].at = "delete" =>
           flush'[g] = flush[g] \/ \A d \in flush'[g].txs : d.tx \in accepted'
<1>5. flush' \in [Flusher -> [at : Place, txs : Held]] /\ \A g \in Flusher : Moved(g)
  <2>1. CASE LoopLooks \/ ConnChange \/ Close
    BY <1>4, <2>1 DEF LoopLooks, ConnChange, Close, Resting, Flusher
  <2>2. CASE Closed \/ ClientCrash \/ New
    <3>1. flush' = [g \in Flusher |-> Resting] \/ flush' = flush
      BY Zenon, <2>2 DEF Closed, ClientCrash, New
    <3>2. CASE flush' = [g \in Flusher |-> Resting]
      BY Zenon, <1>4, <3>2 DEF Resting
    <3>3. CASE flush' = flush
      BY Zenon, <1>4, <3>3
    <3> QED BY Zenon, <3>1, <3>2, <3>3
  <2>3. ASSUME NEW f \in Flusher, Drain(f) PROVE <1>5!1 /\ <1>5!2
    BY Zenon, <1>4, <2>3 DEF Drain, Over, Resting
  <2>4. ASSUME NEW f \in Flusher, BatchSent(f) PROVE <1>5!1 /\ <1>5!2
    BY Zenon, <1>4, <2>4 DEF BatchSent
  <2>5. ASSUME NEW f \in Flusher, BatchFails(f) PROVE <1>5!1 /\ <1>5!2
    BY Zenon, <1>4, <2>5 DEF BatchFails, Over, Resting
  <2> QED BY Zenon, <2>1, <2>2, <2>3, <2>4, <2>5
<1>6. ClientTypeOK'
  BY Zenon, <1>0, <1>1, <1>2, <1>3, <1>5 DEF ClientTypeOK, Held
<1>7. NothingLost' /\ HashesExact'
  BY Zenon, <1>0, <1>3 DEF NothingLost, HashesExact, Queued
<1>8. DrainedSound'
  <2> SUFFICES ASSUME NEW g \in Flusher, NEW d \in flush'[g].txs
               PROVE  /\ \A e \in pending : d.key = e.key => d = e
                      /\ flush'[g].at = "delete" => d.tx \in accepted'
    BY Zenon, <1>0 DEF DrainedSound
  <2>1. Moved(g)
    BY Zenon, <1>5
  <2>2. \A e \in pending : d.key = e.key => d = e
    BY Zenon, <2>1 DEF DrainedSound, HashesExact
  <2>3. ASSUME flush'[g].at = "delete" PROVE d.tx \in accepted'
    BY Zenon, <1>3, <2>1, <2>3 DEF DrainedSound
  <2> QED BY Zenon, <2>2, <2>3
<1> QED BY Zenon, <1>2, <1>6, <1>7, <1>8

\* DeleteKeys: what it removes the node has accepted, and an entry that stays
\* keeps its hash because no other entry had the same transaction.
LEMMA DeleteStep ==
  ASSUME QueueInv, NEW f \in Flusher, DeleteKeys(f)
  PROVE  QueueInv'
<1> USE DEF QueueInv
<1>0. UNCHANGED <<seq, life, ready, seen, call, accepted, acked, stops>>
  BY Zenon DEF DeleteKeys
<1> DEFINE Gone == Drained(flush[f].txs)
<1>1. /\ pending' = pending \ Gone /\ Gone \subseteq pending
      /\ hashes' = hashes \ {e.tx : e \in Gone}
      /\ \A e \in Gone : e.tx \in accepted
  BY Zenon DEF DeleteKeys, Drained, HashesFound, DrainedSound
<1>2. /\ flush' \in [Flusher -> [at : {"idle", "wait", "drain", "batch", "delete"},
                               txs : SUBSET [key : 1..seq, tx : Tx]]]
      /\ \A g \in Flusher : flush'[g] = flush[g] \/ flush'[g].txs = {}
  BY Zenon DEF DeleteKeys, Over, Resting, ClientTypeOK
<1> HIDE DEF Gone
<1>3. ClientTypeOK' /\ CallSound'
  BY Zenon, <1>0, <1>1, <1>2 DEF ClientTypeOK, CallSound
<1>4. Queued' = Queued \ {e.tx : e \in Gone}
  BY Zenon, <1>1 DEF Queued, HashesExact
<1>5. NothingLost'
  BY Zenon, <1>0, <1>1, <1>4 DEF NothingLost
<1>6. HashesExact'
  BY Zenon, <1>1, <1>4 DEF HashesExact
<1>7. DrainedSound'
  BY Zenon, <1>0, <1>1, <1>2 DEF DrainedSound
<1> QED BY Zenon, <1>3, <1>5, <1>6, <1>7

\* The invariant holds in every reachable state: every handler of the client
\* library preserves it.
THEOREM QueueInvAlways == ClientSpec => []QueueInv
<1>1. QueueInv /\ UNCHANGED clientVars => QueueInv'
  BY Zenon DEF QueueInv, ClientTypeOK, NothingLost, HashesExact, DrainedSound, CallSound, Queued, clientVars
<1>2. QueueInv /\ ClientNext => QueueInv'
  BY Zenon, SendStep, EnqueueStep, QuietStep, DeleteStep DEF ClientNext, Submission, Flush
<1> QED BY QueueInvInit, <1>1, <1>2, PTL DEF ClientSpec

\* A transaction SubmitTx returned nil for is with the node or in the durable
\* queue, whatever flushes, closes and crashes happen.
THEOREM AcknowledgedKept == ClientSpec => []NothingLost
  BY QueueInvAlways, PTL DEF QueueInv

\* The hashes bucket names exactly the queued transactions, each queued once,
\* so Enqueue neither drops nor repeats one.
THEOREM DeduplicationExact == ClientSpec => []HashesExact
  BY QueueInvAlways, PTL DEF QueueInv

\* Every state of the client library is well typed, and no key in use is above
\* the stored sequence number.
THEOREM QueueTyped == ClientSpec => []ClientTypeOK
  BY QueueInvAlways, PTL DEF QueueInv

-----------------------------------------------------------------------------
(* Catching up.                                                            *)

\* The blocks s follow the i-th of peer p, which has committed them.
Piece(s, p, i) ==
  /\ s \in Seq(Block) /\ i + Len(s) <= height[p]
  /\ \A j \in 1 .. Len(s) : s[j] = Branch[p][i + j]

HeightsOK == height \in [Peer -> Nat] /\ \A p \in Peer : height[p] <= Len(Branch[p])

ChainOK == chain \in Seq(Block) /\ (chain # <<>> => \E p \in Peer : Piece(chain, p, 0))

\* What was answered and what is to be applied continue the node's chain as
\* the chain of some peer goes on; not, so far, of the peer it came from.
RepliesOK == at = "ask" => \A r \in replies : \E q \in Peer : Piece(r[2], q, Len(chain))

TodoOK == at = "apply" => todo = <<>> \/ \E q \in Peer : Piece(todo, q, Len(chain))

SyncInv == HeightsOK /\ ChainOK /\ RepliesOK /\ TodoOK

\* Chains that have the same block at a height have the same blocks below it:
\* a block names its parent's root.
LEMMA SameBelow ==
  ASSUME NEW p \in Peer, NEW q \in Peer, NEW n \in Nat,
         n <= Len(Branch[p]), n <= Len(Branch[q]),
         n > 0 => Branch[p][n].root = Branch[q][n].root
  PROVE  \A i \in 1 .. n : Branch[p][i] = Branch[q][i]
<1> DEFINE P(k) == k < n => Branch[p][n - k] = Branch[q][n - k]
           S == {k \in Nat : P(k)}
<1>1. Len(Branch[p]) \in Nat /\ Len(Branch[q]) \in Nat
  BY BranchesAreChains
<1>2. ASSUME NEW i \in 1 .. n, Branch[p][i].root = Branch[q][i].root
      PROVE  Branch[p][i] = Branch[q][i]
  <2>1. i \in 1 .. Len(Branch[p]) /\ i <= Len(Branch[q])
    BY <1>1
  <2> QED  BY Zenon, <1>2, <2>1, RootsNameBlocks
<1>3. 0 \in S
  <2>1. CASE n = 0
    BY <2>1
  <2>2. CASE n > 0
    BY <1>2, <2>2
  <2> QED  BY Zenon, <2>1, <2>2
<1>4. ASSUME NEW k \in S PROVE k + 1 \in S
  <2> SUFFICES ASSUME k + 1 < n PROVE Branch[p][n - (k + 1)] = Branch[q][n - (k + 1)]
    OBVIOUS
  <2> DEFINE i == n - k
  <2>1. i \in 2 .. n /\ n - (k + 1) = i - 1 /\ i - 1 \in 1 .. n /\ i # 1
    OBVIOUS
  <2>2. Branch[p][i] = Branch[q][i]
    OBVIOUS
  <2> HIDE DEF i
  <2>3. i \in 1 .. Len(Branch[p]) /\ i \in 1 .. Len(Branch[q])
    BY <1>1, <2>1
  <2>4. Branch[p][i].parent = Branch[p][i - 1].root /\ Branch[q][i].parent = Branch[q][i - 1].root
    BY Zenon, <2>1, <2>3, BranchesAreChains
  <2>5. Branch[p][i - 1] = Branch[q][i - 1]
    BY Zenon, <1>2, <2>1, <2>2, <2>4
  <2> QED  BY Zenon, <2>1, <2>5
<1>5. S = Nat
  <2> HIDE DEF S
  <2> QED  BY Zenon, <1>3, <1>4, Induction DEF S
<1> SUFFICES ASSUME NEW i \in 1 .. n PROVE Branch[p][i] = Branch[q][i]
  OBVIOUS
<1>6. n - i \in Nat /\ n - (n - i) = i /\ n - i < n
  <2>1. n \in Nat /\ i \in Nat /\ 1 <= i /\ i <= n
    OBVIOUS
  <2> QED  BY ONLY <2>1
<1>7. P(n - i)
  BY Zenon, <1>5, <1>6
<1> QED  BY Zenon, <1>6, <1>7

\* What a peer serves continues the node's chain as the peer's own goes on.
LEMMA ServedOK ==
  ASSUME SyncInv, NEW p \in Peer, Served(p) # <<>>
  PROVE  Piece(Served(p), p, Len(chain))
<1> DEFINE from == Len(chain) + 1
           last == IF from + MaxRange - 1 > height[p] THEN height[p] ELSE from + MaxRange - 1
<1>1. from \in Nat \ {0} /\ height[p] \in Nat /\ height[p] <= Len(Branch[p])
  BY DEF SyncInv, ChainOK, HeightsOK
<1>2. last \in Nat /\ last <= height[p]
  BY <1>1, BoundsPositive
<1>3. Served(p) = SubSeq(Branch[p], from, last) /\ Branch[p] \in Seq(Block)
  BY Zenon, BranchesAreChains DEF Served
<1>4. from = Len(chain) + 1 /\ Len(chain) \in Nat
  BY DEF SyncInv, ChainOK
<1> HIDE DEF from, last
<1> DEFINE B == Block
<1>5. Branch[p] \in Seq(B)
  BY Zenon, <1>3
<1> HIDE DEF B
<1>6. from <= last
  BY <1>1, <1>2, <1>3, <1>5
<1>7. /\ SubSeq(Branch[p], from, last) \in Seq(B)
      /\ Len(SubSeq(Branch[p], from, last)) = last - from + 1
      /\ \A j \in 1 .. last - from + 1 : SubSeq(Branch[p], from, last)[j] = Branch[p][from + j - 1]
  BY <1>1, <1>2, <1>5, <1>6
<1>8. \A j \in 1 .. last - from + 1 : from + j - 1 = Len(chain) + j
  BY <1>1, <1>2, <1>4
<1>9. Len(chain) + (last - from + 1) <= height[p]
  BY <1>1, <1>2, <1>4
<1> QED  BY Zenon, <1>3, <1>7, <1>8, <1>9 DEF Piece, B

\* A chain that is the first blocks of a peer's is a prefix of it.
LEMMA PieceIsPrefix ==
  ASSUME HeightsOK, NEW p \in Peer, Piece(chain, p, 0)
  PROVE  Len(chain) \in 0 .. height[p] /\ chain = SubSeq(Branch[p], 1, Len(chain))
<1> DEFINE B == Block
<1>1. /\ chain \in Seq(B) /\ Branch[p] \in Seq(B) /\ height[p] \in Nat
      /\ Len(chain) <= height[p] /\ height[p] <= Len(Branch[p])
      /\ \A j \in 1 .. Len(chain) : chain[j] = Branch[p][j]
  BY BranchesAreChains DEF Piece, HeightsOK
<1> HIDE DEF B
<1>2. Len(chain) \in Nat /\ Len(chain) <= Len(Branch[p])
  BY <1>1
<1>3. /\ SubSeq(Branch[p], 1, Len(chain)) \in Seq(B)
      /\ Len(SubSeq(Branch[p], 1, Len(chain))) = Len(chain)
      /\ \A j \in 1 .. Len(chain) : SubSeq(Branch[p], 1, Len(chain))[j] = Branch[p][j]
  BY <1>1, <1>2
<1> QED  BY <1>1, <1>2, <1>3

\* A peer's chain only grows.
LEMMA PieceKept ==
  ASSUME HeightsOK, HeightsOK', \A p \in Peer : height[p] <= height'[p],
         NEW s, NEW p \in Peer, NEW i \in Nat, Piece(s, p, i)
  PROVE  Piece(s, p, i)'
<1>1. height[p] \in Nat /\ height'[p] \in Nat /\ height[p] <= height'[p] /\ Len(s) \in Nat
  BY DEF HeightsOK, Piece
<1> QED  BY <1>1 DEF Piece

\* The block that is applied continues the chain of the peer it came from: by
\* its parent's root, that chain is the node's so far.
LEMMA ApplyOK ==
  ASSUME SyncInv, ApplySynced
  PROVE  SyncInv'
<1>1. UNCHANGED height /\ at = "apply" /\ todo # <<>>
  BY DEF ApplySynced
<1>2. PICK q \in Peer : Piece(todo, q, Len(chain))
  BY Zenon, <1>1 DEF SyncInv, TodoOK
<1>3. CASE ~Applies(Head(todo))
  BY <1>1, <1>3 DEF ApplySynced, Die, SyncInv, HeightsOK, ChainOK, RepliesOK, TodoOK, Piece
<1>4. CASE Applies(Head(todo))
  <2> DEFINE n == Len(chain)
             b == Head(todo)
             B == Block
  <2>1. chain' = Append(chain, b) /\ todo' = Tail(todo) /\ at' = at
    BY Zenon, <1>4 DEF ApplySynced
  <2>2. /\ chain \in Seq(B) /\ todo \in Seq(B) /\ n + Len(todo) <= height[q]
        /\ \A j \in 1 .. Len(todo) : todo[j] = Branch[q][n + j]
        /\ height[q] \in Nat /\ height[q] <= Len(Branch[q]) /\ Branch[q] \in Seq(B)
    BY Zenon, <1>2, BranchesAreChains DEF SyncInv, ChainOK, HeightsOK, Piece
  <2> HIDE DEF B
  <2>3. n \in Nat /\ Len(todo) \in Nat \ {0} /\ b = todo[1] /\ b \in B
    BY <1>1, <2>2
  <2>4. b = Branch[q][n + 1] /\ n + 1 <= Len(Branch[q]) /\ n + 1 \in 1 .. Len(Branch[q])
    BY <2>2, <2>3
  <2>5. \A i \in 1 .. n : chain[i] = Branch[q][i]
    <3>1. CASE n = 0
      BY <3>1
    <3>2. CASE n > 0
      <4>1. chain # <<>>
        BY <2>2, <3>2
      <4>2. PICK p \in Peer : Piece(chain, p, 0)
        BY Zenon, <4>1 DEF SyncInv, ChainOK
      <4>3. /\ \A i \in 1 .. n : chain[i] = Branch[p][i]
            /\ n <= height[p] /\ height[p] <= Len(Branch[p]) /\ height[p] \in Nat
        BY <2>3, <4>2 DEF Piece, SyncInv, HeightsOK
      <4>4. Len(Branch[p]) \in Nat /\ n <= Len(Branch[p]) /\ n <= Len(Branch[q])
        BY <2>3, <2>4, <4>3, BranchesAreChains
      <4>5. b.parent = Branch[q][n].root
        <5>1. n + 1 # 1 /\ n + 1 - 1 = n
          BY <2>3, <3>2
        <5>2. Branch[q][n + 1].parent = Branch[q][n + 1 - 1].root
          BY <2>4, <5>1, BranchesAreChains
        <5> QED  BY Zenon, <2>4, <5>1, <5>2
      <4>6. b.parent = chain[n].root
        BY Zenon, <1>4, <4>1 DEF Applies, Root
      <4>7. Branch[p][n].root = Branch[q][n].root
        BY <2>3, <3>2, <4>3, <4>5, <4>6
      <4> QED  BY Zenon, <2>3, <4>3, <4>4, <4>7, SameBelow
    <3> QED  BY <2>3, <3>1, <3>2
  <2>6. Piece(chain, q, 0)' /\ chain' \in Seq(B)
    <3>1. chain' \in Seq(B) /\ Len(chain') = n + 1
          /\ \A j \in 1 .. n + 1 : chain'[j] = IF j <= n THEN chain[j] ELSE b
      BY <2>1, <2>2, <2>3
    <3>2. \A j \in 1 .. n + 1 : chain'[j] = Branch[q][j] /\ 0 + j = j
      BY <2>3, <2>4, <2>5, <3>1
    <3>3. 0 + (n + 1) <= height'[q]
      BY <1>1, <2>2, <2>3
    <3> QED  BY Zenon, <3>1, <3>2, <3>3 DEF Piece, B
  <2>7. Piece(todo, q, Len(chain))'
    <3>1. todo' \in Seq(B) /\ Len(todo') = Len(todo) - 1
          /\ \A j \in 1 .. Len(todo) - 1 : todo'[j] = todo[j + 1]
      BY <1>1, <2>1, <2>2, <2>3
    <3>2. Len(chain') = n + 1
      BY <2>1, <2>2, <2>3
    <3>3. \A j \in 1 .. Len(todo) - 1 : todo'[j] = Branch[q][n + 1 + j]
      <4> TAKE j \in 1 .. Len(todo) - 1
      <4>1. j + 1 \in 1 .. Len(todo) /\ n + (j + 1) = n + 1 + j
        BY <2>3
      <4> QED  BY Zenon, <2>2, <3>1, <4>1
    <3>4. (n + 1) + (Len(todo) - 1) <= height'[q]
      BY <1>1, <2>2, <2>3
    <3> HIDE DEF n
    <3> QED  BY Zenon, <3>1, <3>2, <3>3, <3>4 DEF Piece, B
  <2>8. HeightsOK'
    BY Zenon, <1>1 DEF SyncInv, HeightsOK
  <2> QED  BY Zenon, <1>1, <2>1, <2>6, <2>7, <2>8 DEF SyncInv, ChainOK, RepliesOK, TodoOK, B
<1> QED  BY Zenon, <1>3, <1>4

LEMMA SyncInvInit == SyncInit => SyncInv
<1> SUFFICES ASSUME SyncInit PROVE SyncInv
  BY Zenon
<1>1. \A p \in Peer : Len(Branch[p]) \in Nat
  BY BranchesAreChains
<1>2. HeightsOK
  BY <1>1 DEF SyncInit, HeightsOK
<1> QED  BY <1>2 DEF SyncInit, SyncInv, ChainOK, RepliesOK, TodoOK

\* A step that leaves the chain alone.
LEMMA PassOK ==
  ASSUME SyncInv, UNCHANGED <<height, chain>>,
         at' = "ask" =>
           \A r \in replies' : (r \in replies /\ at = "ask") \/ \E q \in Peer : Piece(r[2], q, Len(chain)),
         at' = "apply" =>
           \/ todo' = <<>> \/ (at = "apply" /\ todo' = todo)
           \/ \E q \in Peer : Piece(todo', q, Len(chain))
  PROVE  SyncInv'
<1>1. HeightsOK' /\ ChainOK'
  BY Zenon DEF SyncInv, HeightsOK, ChainOK, Piece
<1>2. RepliesOK'
  BY Zenon DEF SyncInv, RepliesOK, Piece
<1>3. TodoOK'
  BY DEF SyncInv, TodoOK, Piece
<1> QED  BY Zenon, <1>1, <1>2, <1>3 DEF SyncInv

LEMMA SyncInvNext == SyncInv /\ [SyncNext]_syncVars => SyncInv'
<1> SUFFICES ASSUME SyncInv, [SyncNext]_syncVars PROVE SyncInv'
  BY Zenon
<1>1. CASE UNCHANGED syncVars
  BY Zenon, <1>1, PassOK DEF syncVars, pass
<1>2. CASE \/ Start \/ NextPass \/ ContextExpires \/ SyncCrash \/ Stop \/ GiveUp \/ Retry
           \/ \E conn \in SUBSET Peer : BeginPass(conn)
  <2>1. /\ UNCHANGED <<height, chain>> /\ at' # "apply"
        /\ at' = "ask" => replies' = {}
    BY Zenon, <1>2 DEF Start, NextPass, ContextExpires, SyncCrash, Stop, GiveUp, Retry, BeginPass, Die, pass
  <2> QED  BY Zenon, <2>1, PassOK
<1>3. ASSUME NEW p \in Peer, Answer(p) \/ NoAnswer(p) PROVE SyncInv'
  <2>1. UNCHANGED <<height, chain, at>> /\ at = "ask"
    BY Zenon, <1>3 DEF Answer, NoAnswer
  <2>2. replies' = replies \/ (Served(p) # <<>> /\ replies' = replies \cup {<<p, Served(p)>>})
    BY Zenon, <1>3 DEF Answer, NoAnswer
  <2>3. Served(p) # <<>> => Piece(Served(p), p, Len(chain))
    BY Zenon, ServedOK
  <2>4. \A r \in replies' : r \in replies \/ \E q \in Peer : Piece(r[2], q, Len(chain))
    BY <2>2, <2>3
  <2> QED  BY Zenon, <2>1, <2>4, PassOK
<1>4. CASE Select
  <2>1. PICK r \in replies : todo' = r[2]
    BY Zenon, <1>4 DEF Select, Selectable
  <2>2. \E q \in Peer : Piece(todo', q, Len(chain))
    BY Zenon, <1>4, <2>1 DEF Select, SyncInv, RepliesOK
  <2>3. UNCHANGED <<height, chain>> /\ at' = "apply"
    BY Zenon, <1>4 DEF Select
  <2> QED  BY Zenon, <2>2, <2>3, PassOK
<1>5. CASE ApplySynced
  BY Zenon, <1>5, ApplyOK
<1>6. ASSUME NEW p \in Peer, PeerCommits(p) PROVE SyncInv'
  <2>1. UNCHANGED <<chain, at, replies, todo>>
    BY Zenon, <1>6 DEF PeerCommits, pass
  <2>2. HeightsOK' /\ \A q \in Peer : height[q] <= height'[q]
    <3>1. height \in [Peer -> Nat] /\ \A q \in Peer : Len(Branch[q]) \in Nat
      BY BranchesAreChains DEF SyncInv, HeightsOK
    <3> QED  BY <1>6, <3>1 DEF PeerCommits, SyncInv, HeightsOK
  <2>3. Len(chain) \in Nat
    BY DEF SyncInv, ChainOK
  <2>4. \A q \in Peer : \A s : \A i \in Nat : Piece(s, q, i) => Piece(s, q, i)'
    BY Zenon, <2>2, PieceKept DEF SyncInv
  <2>5. ChainOK'
    BY Zenon, <2>1, <2>4 DEF SyncInv, ChainOK, Piece
  <2>6. RepliesOK'
    BY Zenon, <2>1, <2>3, <2>4 DEF SyncInv, RepliesOK, Piece
  <2>7. TodoOK'
    BY Zenon, <2>1, <2>3, <2>4 DEF SyncInv, TodoOK, Piece
  <2> QED  BY Zenon, <2>2, <2>5, <2>6, <2>7 DEF SyncInv
<1> QED
  BY Zenon, <1>1, <1>2, <1>3, <1>4, <1>5, <1>6 DEF SyncNext, Proceed

\* Whatever peers a starting node asks, however they differ and whenever it
\* dies, what it has applied is the beginning of one peer's chain.
THEOREM ChainsAreNeverMixed == SyncSpec => []NeverMixed
<1>1. SyncInv => NeverMixed
  <2> SUFFICES ASSUME SyncInv, chain # <<>>
               PROVE  \E p \in Peer : \E n \in 0 .. height[p] : chain = SubSeq(Branch[p], 1, n)
    BY DEF NeverMixed
  <2>1. PICK p \in Peer : Piece(chain, p, 0)
    BY DEF SyncInv, ChainOK
  <2> QED  BY Zenon, <2>1, PieceIsPrefix DEF SyncInv
<1> QED
  BY <1>1, SyncInvInit, SyncInvNext, PTL DEF SyncSpec
=============================================================================

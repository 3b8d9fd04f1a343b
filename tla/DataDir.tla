------------------------------- MODULE DataDir -------------------------------
(***************************************************************************)
(* The data directory of a node over its life: the files that frg-node     *)
(* init writes, the start-up of frg-node that generates what is missing    *)
(* and seeds the database from genesis.json, and frg-backup, which copies  *)
(* the database, prunes old copies and restores one (cmd/frg-node/main.go, *)
(* cmd/frg-backup/main.go, core/statemachine/backup.go,                    *)
(* core/genesis/genesis.go).                                               *)
(*                                                                         *)
(* The operator runs one tool at a time, and does not run init while the   *)
(* node is up; backup and restore may meet a node that is starting or      *)
(* running.  Every process may die between two steps and in the middle of  *)
(* writing a file, which leaves the file torn.  bbolt locks the database   *)
(* file, so opening it waits for whoever has it open.                      *)
(***************************************************************************)
EXTENDS Integers, FiniteSets

CONSTANTS Commands,          \* init commands: [mode, source, chain, force, valid]
          Network,           \* the chain id of the network's genesis
          DefaultChain,      \* of built-in defaults, without a config file
          Retain,            \* -retain
          MaxTools,          \* bound on tool runs
          MaxHeight          \* bound on committed blocks

\* CreateBackup refuses a retention below one.
ASSUME RetainPositive == Retain \in Nat \ {0}

ASSUME MaxToolsNat == MaxTools \in Nat

VARIABLES disk,              \* the files key, genesis and config
          db,                \* the database at the configured path
          node,              \* the node process: pc, chain of its config, key
          tool,              \* the tool that runs, if any
          backups,           \* frg-*.db in the backup directory
          spare,             \* the path that restore writes to
          made,              \* history: keys generated
          runs               \* history: tools run, backups installed, forced genesis

dirVars == <<disk, db, node, tool, backups, spare, made, runs>>

None == <<"none">>
Torn == <<"torn">>
KeyFile(n) == <<"key", n>>
OwnGenesis(chain, key) == <<"own", chain, key>>
NetGenesis == <<"net", Network>>
ConfigFile(chain) == <<"config", chain>>

NoDB == [exists |-> FALSE, buckets |-> FALSE, whole |-> TRUE, seed |-> None, applied |-> 0,
         height |-> 0]

Down == [pc |-> "down", chain |-> DefaultChain, key |-> None]
Idle == [pc |-> "idle", cmd |-> [mode |-> "none"], copy |-> NoDB]

IsKey(f) == f # None /\ f # Torn
NodeHasDB == node.pc \in {"load", "apply", "running"}
ToolHasDB == tool.pc \in {"copy", "install", "prune"}

-----------------------------------------------------------------------------
\* Writing a file succeeds, or the process dies half-way.
Write(f, content) == disk' \in {[disk EXCEPT ![f] = content], [disk EXCEPT ![f] = Torn]}

\* writeConfigFile and copyGenesisFile: what exists is kept, unless forced.
WriteUnlessThere(f, content, force) ==
  IF disk[f] # None /\ ~force THEN UNCHANGED disk ELSE Write(f, content)

\* loadOrGenerateKeypair: generates only if there is no file; a file of the
\* wrong length is an error.
GenerateKeypair == Write("key", KeyFile(made + 1)) /\ made' = made + 1

LoadOrGenerateKeypair ==
  IF disk.key = None THEN GenerateKeypair ELSE UNCHANGED <<disk, made>>

\* ensureGenesis: a private genesis of this key alone, if there is no file.
EnsureGenesis(chain, key) == WriteUnlessThere("genesis", OwnGenesis(chain, key), FALSE)

-----------------------------------------------------------------------------
RunTool ==
  /\ tool.pc = "idle" /\ runs.tools < MaxTools
  /\ runs' = [runs EXCEPT !.tools = @ + 1]

\* frg-node init, init-first-network and init-join-network.
InitStart(c) ==
  /\ node.pc = "down" /\ RunTool
  /\ LoadOrGenerateKeypair
  /\ tool' = IF IsKey(disk'.key) /\ c.valid THEN [Idle EXCEPT !.pc = "genesis", !.cmd = c] ELSE Idle
  /\ UNCHANGED <<db, node, backups, spare>>

\* copyGenesisFile if a source is given, checked against the chain id of the
\* command line; then ensureGenesis for a first node.
InitGenesis ==
  /\ tool.pc = "genesis"
  /\ LET c == tool.cmd
         copies == c.source /\ (disk.genesis = None \/ c.force)
         refused == copies /\ c.chain # Network
     IN  /\ IF refused THEN UNCHANGED disk
            ELSE IF copies THEN Write("genesis", NetGenesis)
            ELSE IF c.mode = "first" THEN EnsureGenesis(c.chain, disk.key)
            ELSE UNCHANGED disk
         /\ tool' = IF refused \/ (disk' # disk /\ disk'.genesis = Torn) THEN Idle
                    ELSE [tool EXCEPT !.pc = "config"]
         /\ runs' = [runs EXCEPT !.forced = @ \/ (copies /\ ~refused /\ disk.genesis # None)]
  /\ UNCHANGED <<db, node, backups, spare, made>>

\* writeConfigFile; .env and the run script follow the same rule and nothing
\* reads them back.
InitConfig ==
  /\ tool.pc = "config"
  /\ WriteUnlessThere("config", ConfigFile(tool.cmd.chain), tool.cmd.force)
  /\ tool' = Idle
  /\ UNCHANGED <<db, node, backups, spare, made, runs>>

-----------------------------------------------------------------------------
\* The start-up of frg-node: configuration, key, genesis file, database,
\* genesis loaded and checked, genesis applied.
Fatal == node' = Down

\* Without a config file, and with one that a crash left empty, the defaults
\* hold; a config file cut off after its first line has the chain id, and one
\* that does not parse stops the process before it does anything.
StartNode ==
  /\ node.pc = "down" /\ tool.pc \notin {"genesis", "config"}
  /\ node' = [pc |-> "key", key |-> None,
              chain |-> IF disk.config \in {None, Torn} THEN DefaultChain ELSE disk.config[2]]
  /\ UNCHANGED <<disk, db, tool, backups, spare, made, runs>>

StartKey ==
  /\ node.pc = "key"
  /\ LoadOrGenerateKeypair
  /\ IF IsKey(disk'.key) THEN node' = [node EXCEPT !.pc = "genesis", !.key = disk'.key] ELSE Fatal
  /\ UNCHANGED <<db, tool, backups, spare, runs>>

StartGenesis ==
  /\ node.pc = "genesis"
  /\ EnsureGenesis(node.chain, node.key)
  /\ IF disk' # disk /\ disk'.genesis = Torn THEN Fatal ELSE node' = [node EXCEPT !.pc = "open"]
  /\ UNCHANGED <<db, tool, backups, spare, made, runs>>

\* bolt.Open waits for the lock; New of the ledger, the staking store and the
\* state machine create their buckets.
OpenDB ==
  /\ node.pc = "open" /\ ~ToolHasDB
  /\ db' = [db EXCEPT !.exists = TRUE, !.buckets = TRUE]
  /\ node' = [node EXCEPT !.pc = "load"]
  /\ UNCHANGED <<disk, tool, backups, spare, made, runs>>

LoadGenesisOnly ==
  /\ node.pc = "load"
  /\ IF disk.genesis \in {None, Torn} THEN Fatal ELSE node' = [node EXCEPT !.pc = "apply"]
  /\ UNCHANGED <<disk, db, tool, backups, spare, made, runs>>

LoadGenesis ==
  /\ node.pc = "load"
  /\ IF disk.genesis \in {None, Torn} THEN Fatal
     ELSE IF disk.genesis[2] # node.chain THEN Fatal
     ELSE node' = [node EXCEPT !.pc = "apply"]
  /\ UNCHANGED <<disk, db, tool, backups, spare, made, runs>>

\* genesis.Apply seeds the database and marks it in one transaction.
ApplyGenesis ==
  /\ node.pc = "apply"
  /\ db' = IF db.applied > 0 \/ db.height > 0 THEN db
           ELSE [db EXCEPT !.seed = disk.genesis, !.applied = @ + 1]
  /\ node' = [node EXCEPT !.pc = "running"]
  /\ UNCHANGED <<disk, tool, backups, spare, made, runs>>

CommitBlock ==
  /\ node.pc = "running" /\ db.height < MaxHeight
  /\ db' = [db EXCEPT !.height = @ + 1]
  /\ UNCHANGED <<disk, node, tool, backups, spare, made, runs>>

\* A signal, log.Fatalf, a crash.
StopNode ==
  /\ node.pc # "down" /\ Fatal
  /\ UNCHANGED <<disk, db, tool, backups, spare, made, runs>>

-----------------------------------------------------------------------------
\* frg-backup.  CreateBackup: open the database, copy it to a temporary file,
\* rename that to its final name, remove the oldest copies one by one.
BackupStart ==
  /\ ~NodeHasDB /\ RunTool
  /\ db' = [db EXCEPT !.exists = TRUE]
  /\ tool' = [Idle EXCEPT !.pc = "copy"]
  /\ UNCHANGED <<disk, node, backups, spare, made>>

BackupCopyInPlace ==
  /\ tool.pc = "copy"
  /\ tool' = [tool EXCEPT !.pc = "install", !.copy = db]
  /\ backups' = backups \cup {[at |-> runs.backups, db |-> [db EXCEPT !.whole = FALSE]]}
  /\ UNCHANGED <<disk, db, node, spare, made, runs>>

BackupCopy ==
  /\ tool.pc = "copy"
  /\ tool' = [tool EXCEPT !.pc = "install", !.copy = db]
  /\ UNCHANGED <<disk, db, node, backups, spare, made, runs>>

BackupInstall ==
  /\ tool.pc = "install"
  /\ backups' = {b \in backups : b.at # runs.backups} \cup {[at |-> runs.backups, db |-> tool.copy]}
  /\ runs' = [runs EXCEPT !.backups = @ + 1]
  /\ tool' = [tool EXCEPT !.pc = "prune"]
  /\ UNCHANGED <<disk, db, node, spare, made>>

\* The copies are ordered by modification time.  The slice backups[retain:]
\* panics when there are fewer than retain; the new copy is installed by then.
BackupPrune ==
  /\ tool.pc = "prune"
  /\ IF Cardinality(backups) <= Retain THEN tool' = Idle /\ UNCHANGED backups
     ELSE /\ backups' = {b \in backups : \E c \in backups : c.at < b.at}
          /\ UNCHANGED tool
  /\ UNCHANGED <<disk, db, node, spare, made, runs>>

\* RestoreDatabase: the destination must not exist and the source must have
\* the buckets of a node; the copy gets its name once it is complete.
RestoreStart(b) ==
  /\ RunTool /\ ~spare.exists /\ b.db.buckets
  /\ tool' = [Idle EXCEPT !.pc = "restore", !.copy = b.db]
  /\ UNCHANGED <<disk, db, node, backups, spare, made>>

RestoreInstall ==
  /\ tool.pc = "restore"
  /\ spare' = tool.copy /\ tool' = Idle
  /\ UNCHANGED <<disk, db, node, backups, made, runs>>

\* The operator stops the node and points the configuration at the restored
\* database.
SwitchDB ==
  /\ spare.exists /\ node.pc = "down" /\ tool.pc = "idle"
  /\ db' = spare /\ spare' = NoDB
  /\ UNCHANGED <<disk, node, tool, backups, made, runs>>

\* A tool dies between two steps; its temporary files are never read.
KillTool ==
  /\ tool.pc # "idle" /\ tool' = Idle
  /\ UNCHANGED <<disk, db, node, backups, spare, made, runs>>

-----------------------------------------------------------------------------
FreshDir ==
  /\ disk = [f \in {"key", "genesis", "config"} |-> None]
  /\ db = NoDB /\ node = Down /\ tool = Idle /\ backups = {} /\ spare = NoDB
  /\ made = 0 /\ runs = [tools |-> 0, backups |-> 0, forced |-> FALSE]

DirInit == FreshDir

NodeStep ==
  \/ StartNode \/ StartKey \/ StartGenesis \/ OpenDB \/ LoadGenesis \/ ApplyGenesis
  \/ CommitBlock \/ StopNode

ToolStep ==
  \/ \E c \in Commands : InitStart(c)
  \/ InitGenesis \/ InitConfig
  \/ BackupStart \/ BackupCopy \/ BackupInstall \/ BackupPrune
  \/ \E b \in backups : RestoreStart(b)
  \/ RestoreInstall \/ SwitchDB \/ KillTool

DirNext == NodeStep \/ ToolStep

DirSpec == DirInit /\ [][DirNext]_dirVars

-----------------------------------------------------------------------------
\* A node keeps its identity: a complete key file is never replaced, not by
\* init with --force, not by a start after any crash (loadOrGenerateKeypair,
\* main.go:514-556).
KeyKept == [][IsKey(disk.key) => disk'.key = disk.key]_dirVars

\* A database is seeded exactly once, whatever crashes and restarts come
\* between, and a running node has a seeded one (genesis.Apply,
\* genesis.go:46-92).
SeededOnce ==
  /\ db.applied <= 1
  /\ (db.applied = 1) = (db.seed # None)
  /\ node.pc = "running" => db.applied = 1

\* "Do not reuse a database across different chain IDs or genesis files"
\* (docs/production.md:45): the database was seeded once, and a running node has
\* the database of the genesis file on disk, of its configured chain, unless
\* init --force replaced that file (genesis.Load, genesis.Apply).
SeedIsGenesis ==
  /\ SeededOnce
  /\ node.pc = "running" =>
       \/ runs.forced
       \/ db.seed = disk.genesis /\ db.seed[2] = node.chain

\* Whatever way frg-backup ends, every file that has a backup's name is a
\* complete copy, and the newest copy ever made is still there (BackupDatabase
\* and CreateBackup, backup.go:24-108).
BackupsKept ==
  /\ \A b \in backups : b.db.whole
  /\ runs.backups > 0 => \E b \in backups : b.at = runs.backups - 1

\* A restored database is a complete copy of one backup, or is not there
\* (RestoreDatabase, backup.go:112-171).
RestoreWhole == db.whole /\ spare.whole

\* Backups and restored databases are whole whatever dies when, and pruning
\* keeps the newest (BackupDatabase, CreateBackup, RestoreDatabase).
CopiesWhole == BackupsKept /\ RestoreWhole
=============================================================================

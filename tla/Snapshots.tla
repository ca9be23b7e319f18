----------------------------- MODULE Snapshots -----------------------------
(***************************************************************************)
(* The file system across reloads of the page.  saveSnapshot() writes the  *)
(* inode table to the browser's storage, boot() restores it: the inodes get*)
(* numbers anew, in the order in which they were written, while the entries*)
(* keep the numbers they were written with.                                *)
(*                                                                         *)
(* Outside the repository: the storage, in which a file keeps its content  *)
(* until the next one is closed, and the embedder, who saves.              *)
(***************************************************************************)
EXTENDS Integers, Sequences, FiniteSets

CONSTANTS
  Dirs,        \* the standard directories of boot(), as a sequence of paths
  EntryNames,  \* the names of entries
  MaxInode     \* bound on the inode numbers handed out

ASSUME SnapshotsAssumption ==
  /\ Dirs \in Seq(Seq(EntryNames) \ {<< >>})
  /\ "noname" \notin EntryNames
  /\ MaxInode \in Nat

VARIABLES
  table,      \* the inode table
  nextInode,  \* its counter
  making,     \* the mkdir -p of boot() in progress
  boot,       \* what boot() has left to do: directories, and whether it failed
  writing,    \* the table being written, if one is
  saved,      \* the table in the storage, if there is one
  scrambled   \* whether a table was ever restored whose numbers had gaps

snapshotVars == <<table, nextInode, making, boot, writing, saved, scrambled>>

\* The standard directories and those above them.
DirPaths == UNION {{SubSeq(Dirs[k], 1, n) : n \in 1 .. Len(Dirs[k])} : k \in DOMAIN Dirs}

Fs == INSTANCE VFS WITH
  inodes <- table, counter <- nextInode,
  Names <- EntryNames, NoName <- "noname", Paths <- DirPaths,
  Targets <- {}, NoTarget <- "nowhere", MaxIno <- MaxInode, MaxSymlinkDepth <- 1

Nothing == << >>
IdsOf(t) == {i \in Fs!Ids : t[i].type # "none"} \ {Fs!Root}
FreshTable == [i \in Fs!Ids |-> IF i = Fs!Root THEN Fs!New("directory", "nowhere") ELSE Fs!NoInode]

SnapshotsInit ==
  /\ table = FreshTable
  /\ nextInode = 1
  /\ making = Fs!NotMaking
  /\ boot = [todo |-> Dirs, failed |-> FALSE]
  /\ writing = Nothing /\ saved = Nothing
  /\ scrambled = FALSE

-----------------------------------------------------------------------------
\* boot() makes the standard directories that are missing, one after the other.
Booting == boot.todo # << >> \/ ~Fs!Idle
Up == ~Booting /\ ~boot.failed

BootDirectory ==
  /\ boot.todo # << >> /\ Fs!Idle
  /\ boot' = [boot EXCEPT !.todo = Tail(@)]
  /\ making' = IF Fs!Resolve(Head(boot.todo), TRUE) >= 0 THEN making
               ELSE [path |-> Head(boot.todo), upto |-> 0]
  /\ UNCHANGED <<table, nextInode, writing, saved, scrambled>>

\* A turn of mkdir -p that throws is the end of boot().
Throws(p) ==
  LET id == Fs!Resolve(p, TRUE) IN
  ~Fs!IsDir(id) /\ ~(id = Fs!ENOENT /\ Fs!IsDir(Fs!ParentOf(p)))
BootTurn ==
  /\ nextInode <= MaxInode
  /\ Fs!MkdirTurn
  /\ boot' = IF Throws(SubSeq(making.path, 1, making.upto + 1))
             THEN [todo |-> << >>, failed |-> TRUE] ELSE boot
  /\ UNCHANGED <<writing, saved, scrambled>>

\* What programs do to the tree: a new entry, an entry less, an entry moved.
Create(d, n, type) ==
  /\ Up /\ Fs!IsDir(d) /\ Fs!Child(d, n) = Fs!None
  /\ Fs!Create(d, n, Fs!New(type, "nowhere"))
  /\ UNCHANGED <<making, boot, writing, saved, scrambled>>

RemoveEntry(d, n) ==
  LET id == Fs!Child(d, n) IN
  /\ Up /\ Fs!IsDir(d) /\ Fs!Exists(id) /\ table[id].children = Fs!Empty
  /\ Fs!RemoveInode(id, d, n)
  /\ UNCHANGED <<nextInode, making, boot, writing, saved, scrambled>>

Move(d, n, e, m) ==
  LET id == Fs!Child(d, n) IN
  /\ Up /\ Fs!IsDir(d) /\ Fs!Exists(id)
  /\ Fs!IsDir(e) /\ Fs!Child(e, m) = Fs!None /\ e \notin Fs!Subtree(id)
  /\ table' = Fs!Moved(id, d, n, e, m)
  /\ UNCHANGED <<nextInode, making, boot, writing, saved, scrambled>>

\* saveSnapshot(): the table is taken in one moment; the file has it when it has
\* been closed.
SerializeTable ==
  /\ Up /\ writing = Nothing
  /\ writing' = table
  /\ UNCHANGED <<table, nextInode, making, boot, saved, scrambled>>

CloseFile ==
  /\ writing # Nothing
  /\ saved' = writing /\ writing' = Nothing
  /\ UNCHANGED <<table, nextInode, making, boot, scrambled>>

\* deserializeTable(): the k-th inode after the root gets the number k.
Rank(i, t) == Cardinality({j \in IdsOf(t) : j <= i})
\* Mutant: the root is numbered like the others.
RestoredWithRoot(t) ==
  [k \in Fs!Ids |->
     IF k = Fs!Root THEN [FreshTable[k] EXCEPT !.children = t[k].children]
     ELSE IF k = 1 THEN FreshTable[Fs!Root]
     ELSE IF k \in 2 .. Cardinality(IdsOf(t)) THEN t[CHOOSE i \in IdsOf(t) : Rank(i, t) = k - 1]
     ELSE Fs!NoInode]
Restored(t) ==
  [k \in Fs!Ids |->
     IF k = Fs!Root THEN [FreshTable[k] EXCEPT !.children = t[k].children]
     ELSE IF k \in 1 .. Cardinality(IdsOf(t)) THEN t[CHOOSE i \in IdsOf(t) : Rank(i, t) = k]
     ELSE Fs!NoInode]

\* Numbers without gaps: nothing was ever removed but the latest inodes.
Dense(t) == IdsOf(t) = 1 .. Cardinality(IdsOf(t))

\* The page is reloaded, at any time: what was not saved is lost.
\* Mutant: the counter starts anew although there are inodes.
CounterAnew(t) == 1
CounterOf(t) == 1 + Cardinality(IdsOf(t))

Reload ==
  /\ table' = IF saved = Nothing THEN FreshTable ELSE Restored(saved)
  /\ nextInode' = IF saved = Nothing THEN 1 ELSE CounterOf(saved)
  /\ making' = Fs!NotMaking
  /\ boot' = [todo |-> Dirs, failed |-> FALSE]
  /\ writing' = Nothing
  /\ scrambled' = (scrambled \/ (saved # Nothing /\ ~Dense(saved)))
  /\ UNCHANGED saved

SnapshotsNext ==
  \/ BootDirectory \/ BootTurn \/ SerializeTable \/ CloseFile \/ Reload
  \/ \E d \in Fs!Ids, n \in EntryNames :
       \/ \E type \in {"file", "directory"} : Create(d, n, type)
       \/ RemoveEntry(d, n)
       \/ \E e \in Fs!Ids, m \in EntryNames : Move(d, n, e, m)

SnapshotsSpec == SnapshotsInit /\ [][SnapshotsNext]_snapshotVars

-----------------------------------------------------------------------------
(***************************************************************************)
(* Correctness.                                                            *)
(***************************************************************************)
\* No entry has a number that is still to be handed out.
NumbersAhead == \A i \in Fs!Ids, n \in EntryNames : Fs!Child(i, n) < nextInode

\* A reload brings the table back that was saved last, if it has no gaps.
KeepsTable == Reload /\ saved # Nothing /\ Dense(saved) => table' = saved

\* The file system survives reloads: over reloads, boots and calls the table
\* stays a tree with its counter ahead of it, as long as no table with gaps was
\* restored (deserializeTable), and what was saved is what comes back.
SnapshotsRestore ==
  /\ [](~scrambled => Fs!Sound /\ NumbersAhead)
  /\ [][KeepsTable]_snapshotVars

\* ... which ought to hold of every table: the number that is written with a
\* name is a "child inode id" (persistence.ts:63).
TreeOverAllReloads == Fs!Sound /\ NumbersAhead
=============================================================================

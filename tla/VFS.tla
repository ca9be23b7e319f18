-------------------------------- MODULE VFS --------------------------------
(***************************************************************************)
(* The in-memory file system: a table of inodes, the resolution of paths   *)
(* over it and every operation that changes the tree.  Calls run to their  *)
(* end on the main thread, one after the other; only mkdir -p is a loop of *)
(* steps here, so that what it leaves behind when it fails half-way shows. *)
(* Contents, modes and times are left out: they do not shape the tree.     *)
(***************************************************************************)
EXTENDS Integers, Sequences

CONSTANTS
  Names,           \* the names of a path
  NoName,          \* the empty name, resolveParent's basename of "/"
  Paths,           \* the normalised paths programs use
  Targets,         \* the targets of symbolic links
  NoTarget,        \* no target
  MaxIno,          \* bound on the inode numbers handed out
  MaxSymlinkDepth  \* MAX_SYMLINK_DEPTH (40 in the code)

ASSUME VFSAssumption ==
  /\ NoName \notin Names
  /\ Paths \subseteq Seq(Names)
  /\ Targets \subseteq [abs : BOOLEAN, parts : Seq(Names \cup {".."})]
  /\ NoTarget \notin Targets
  /\ MaxIno \in Nat
  /\ MaxSymlinkDepth \in Nat

VARIABLES
  inodes,  \* the table: inodes[i] is the inode with number i
  counter, \* the next inode number
  making   \* the mkdir -p in progress

vars == <<inodes, counter, making>>

(***************************************************************************)
(* Values.                                                                 *)
(***************************************************************************)
Ids == 0 .. MaxIno
Root == 0
None == -1
ENOENT == -1
ENOTDIR == -2

Entries == [Names \cup {NoName} -> Ids \cup {None}]
Empty == [n \in Names \cup {NoName} |-> None]
Types == {"none", "file", "directory", "symlink"}
Inodes == [type : Types, children : Entries, target : Targets \cup {NoTarget}]
NoInode == [type |-> "none", children |-> Empty, target |-> NoTarget]
\* Mutant: allocate forgets the default of a field.
NewBare(type, target) == [type |-> type, target |-> target]
New(type, target) == [type |-> type, children |-> Empty, target |-> target]

TypeOf(i) == IF i \in Ids THEN inodes[i].type ELSE "none"
Exists(i) == TypeOf(i) # "none"
IsDir(i) == TypeOf(i) = "directory"
Child(i, n) == inodes[i].children[n]

NotMaking == [path |-> << >>, upto |-> 0]

(***************************************************************************)
(* Paths.  A path is the sequence of its names; ".." is a name of targets. *)
(***************************************************************************)
Parent(p) == SubSeq(p, 1, Len(p) - 1)

\* normalizePath
Normal(parts) ==
  LET N[i \in 0 .. Len(parts)] ==
        IF i = 0 THEN << >>
        ELSE IF parts[i] = ".." THEN Parent(N[i - 1])
        ELSE Append(N[i - 1], parts[i])
  IN  N[Len(parts)]

\* The path a link stands for, if its relative target starts from base.
Jump(base, target) ==
  Normal(IF target.abs THEN target.parts ELSE base \o target.parts)

\* Any path may be used: with a path, so may those on the way, and those that
\* links on the way stand for.
ASSUME PathsAssumption ==
  \A p \in Paths : \A k \in 1 .. Len(p) :
     /\ SubSeq(p, 1, k) \in Paths
     /\ \A t \in Targets : Jump(SubSeq(p, 1, k - 1), t) \in Paths

\* The directory of a link at the end of a path.
\* Mutant: its own path.
LinkItself(p) == p
LinkBase(p) == Parent(p)

\* One turn of resolvePath's loop, at segment k with inode i: an inode number,
\* possibly of no inode, or an error; hops is what paths resolve to one link
\* deeper.  The base of a link in the middle is the path of the link itself, as
\* in the code; and after such a jump, or from a file, the last name is not
\* looked up.
Segment(i, k, p, follow, hops) ==
  LET hop == IF TypeOf(i) = "symlink" /\ follow
             THEN hops[Jump(SubSeq(p, 1, k - 1), inodes[i].target)] ELSE i
  IN  IF i < 0 THEN i
      ELSE IF ~Exists(i) THEN ENOENT
      ELSE IF hop < 0 THEN hop
      ELSE IF hop # i /\ ~IsDir(hop) THEN ENOTDIR
      ELSE IF ~IsDir(i) THEN IF k < Len(p) THEN ENOTDIR ELSE hop
      ELSE IF Child(i, p[k]) = None THEN ENOENT
      ELSE Child(i, p[k])

\* The whole loop, and a link at the end.
Walked(p, follow, hops) ==
  LET W[k \in 0 .. Len(p)] == IF k = 0 THEN Root ELSE Segment(W[k - 1], k, p, follow, hops)
  IN  W[Len(p)]
Ended(i, p, follow, hops) ==
  IF follow /\ TypeOf(i) = "symlink" THEN hops[Jump(LinkBase(p), inodes[i].target)] ELSE i

\* resolvePath at depth 0; R[d] is what it returns at depth d, following links.
Resolve(path, followSymlink) ==
  LET R[d \in Nat] ==
        [p \in Seq(Names) |-> IF d > MaxSymlinkDepth THEN ENOENT
                              ELSE Ended(Walked(p, TRUE, R[d + 1]), p, TRUE, R[d + 1])]
  IN  Ended(Walked(path, followSymlink, R[1]), path, followSymlink, R[1])

\* resolveParent
ParentOf(p) == IF p = << >> THEN Root ELSE Resolve(Parent(p), TRUE)
BaseOf(p) == IF p = << >> THEN NoName ELSE p[Len(p)]
EntryOf(p) == Child(ParentOf(p), BaseOf(p))

\* realpath: the path without links and the inode it ends at.  It has no bound
\* on links; a loop of links ends it by a stack overflow, as an error.
Failed == [path |-> << >>, id |-> ENOENT]

\* Going on from the real path r of a link.
\* Mutant: the link stays part of the path.
OnFromLink(path, name, r) == [path |-> Append(path, name), id |-> Resolve(r, TRUE)]
OnFrom(path, name, r) == [path |-> r, id |-> Resolve(r, TRUE)]

\* One turn of its loop, from w on.
RealSegment(w, name, hops) ==
  LET child == Child(w.id, name)
      r == hops[Jump(w.path, inodes[child].target)]
  IN  IF w.id < 0 \/ ~IsDir(w.id) THEN Failed
      ELSE IF ~Exists(child) THEN Failed
      ELSE IF TypeOf(child) # "symlink" THEN [path |-> Append(w.path, name), id |-> child]
      ELSE IF r.id < 0 THEN Failed
      ELSE OnFrom(w.path, name, r.path)

AtRoot == [path |-> << >>, id |-> Root]
RealWalked(p, hops) ==
  LET W[k \in 0 .. Len(p)] == IF k = 0 THEN AtRoot ELSE RealSegment(W[k - 1], p[k], hops)
  IN  W[Len(p)]

Realpath(path) ==
  LET R[d \in Nat] == [p \in Seq(Names) |-> IF d > MaxSymlinkDepth THEN Failed
                                            ELSE RealWalked(p, R[d + 1])]
  IN  R[0][path]

-----------------------------------------------------------------------------
Init ==
  /\ inodes = [i \in Ids |-> IF i = Root THEN New("directory", NoTarget) ELSE NoInode]
  /\ counter = 1
  /\ making = NotMaking

(***************************************************************************)
(* Operations.  One that throws before it has changed anything is not      *)
(* enabled.                                                                *)
(***************************************************************************)
\* Mutant: the lowest number that is free.
LowestFree == CHOOSE i \in Ids : /\ i # Root /\ ~Exists(i)
                                 /\ \A j \in Ids : ~Exists(j) => j = Root \/ i <= j
FreshId == counter

\* table.allocate and parent.children.set(basename, ...)
Create(parent, base, inode) ==
  /\ counter <= MaxIno
  /\ counter' = counter + 1
  /\ inodes' = [inodes EXCEPT ![FreshId] = inode,
                              ![parent].children[base] = FreshId]

Idle == making = NotMaking

\* writeFile (appendFile, copyFile) where there is no entry yet.
WriteFile(p) ==
  /\ Idle
  /\ IsDir(ParentOf(p)) /\ EntryOf(p) = None
  /\ Create(ParentOf(p), BaseOf(p), New("file", NoTarget))
  /\ UNCHANGED making

\* mkdir, mkdtemp
Mkdir(p) ==
  /\ Idle
  /\ IsDir(ParentOf(p)) /\ EntryOf(p) = None
  /\ Create(ParentOf(p), BaseOf(p), New("directory", NoTarget))
  /\ UNCHANGED making

Symlink(target, p) ==
  /\ Idle
  /\ IsDir(ParentOf(p)) /\ EntryOf(p) = None
  /\ Create(ParentOf(p), BaseOf(p), New("symlink", target))
  /\ UNCHANGED making

\* mkdir with the option recursive.
MkdirAll(p) ==
  /\ Idle
  /\ making' = [path |-> p, upto |-> 0]
  /\ UNCHANGED <<inodes, counter>>

\* One turn of its loop, for one more segment of the path.  What resolves to
\* nothing is created, even over the entry of a link that leads nowhere.
MkdirTurn ==
  LET p == SubSeq(making.path, 1, making.upto + 1)
      id == Resolve(p, TRUE)
      next == IF making.upto + 1 = Len(making.path) THEN NotMaking
              ELSE [making EXCEPT !.upto = @ + 1]
  IN  /\ ~Idle
      /\ \/ /\ IsDir(id)
            /\ making' = next
            /\ UNCHANGED <<inodes, counter>>
         \/ /\ id = ENOENT /\ IsDir(ParentOf(p))
            /\ Create(ParentOf(p), BaseOf(p), New("directory", NoTarget))
            /\ making' = next
         \/ /\ ~IsDir(id) /\ ~(id = ENOENT /\ IsDir(ParentOf(p)) /\ counter <= MaxIno)
            /\ making' = NotMaking
            /\ UNCHANGED <<inodes, counter>>

RemoveInode(id, parent, base) ==
  inodes' = [[inodes EXCEPT ![parent].children[base] = None] EXCEPT ![id] = NoInode]

\* Mutant: a directory need not be empty.
RmdirAny(p) ==
  LET id == Resolve(p, TRUE) IN
    /\ Idle
    /\ IsDir(id) /\ IsDir(ParentOf(p))
    /\ RemoveInode(id, ParentOf(p), BaseOf(p))
    /\ UNCHANGED <<counter, making>>

Rmdir(p) ==
  LET id == Resolve(p, TRUE) IN
    /\ Idle
    /\ IsDir(id) /\ inodes[id].children = Empty
    /\ IsDir(ParentOf(p))
    /\ RemoveInode(id, ParentOf(p), BaseOf(p))
    /\ UNCHANGED <<counter, making>>

\* unlink, and rm of anything but a directory.
Unlink(p) ==
  LET id == Resolve(p, FALSE) IN
    /\ Idle
    /\ Exists(id) /\ ~IsDir(id)
    /\ IsDir(ParentOf(p))
    /\ RemoveInode(id, ParentOf(p), BaseOf(p))
    /\ UNCHANGED <<counter, making>>

\* What is below an inode, itself included.
Closed(D) == \A i \in D : \A n \in Names \cup {NoName} :
                Child(i, n) # None => Child(i, n) \in D
Subtree(i) == {j \in Ids : \A D \in SUBSET Ids : i \in D /\ Closed(D) => j \in D}

\* Every entry below i is the only one of an inode that exists.
Intact(i) ==
  \A j \in Subtree(i) :
     /\ Exists(j)
     /\ \A k, l \in Subtree(i), m, n \in Names \cup {NoName} :
           Child(k, m) = j /\ Child(l, n) = j => k = l /\ m = n

\* rm of a directory with the option recursive: entries and inodes go one by
\* one, the directory last.  (Where an entry is broken it throws half-way;
\* that case is left out.)
RmAll(p) ==
  LET id == Resolve(p, FALSE) IN
    /\ Idle
    /\ IsDir(id) /\ IsDir(ParentOf(p)) /\ Intact(id)
    /\ inodes' = [i \in Ids |->
                    IF i \in Subtree(id) THEN NoInode
                    ELSE IF i = ParentOf(p)
                         THEN [inodes[i] EXCEPT !.children[BaseOf(p)] = None]
                         ELSE inodes[i]]
    /\ UNCHANGED <<counter, making>>

\* May the inode id take the place of the entry e?
Replaces(id, e) ==
  /\ Exists(e) /\ Exists(id)
  /\ IsDir(e) <=> IsDir(id)
  /\ inodes[e].children = Empty

Moved(id, from, name, to, newName) ==
  LET Detached(i) == IF i = from THEN [inodes[i].children EXCEPT ![name] = None]
                     ELSE inodes[i].children
      Attached(i) == IF i = to THEN [Detached(i) EXCEPT ![newName] = id] ELSE Detached(i)
      old == Child(to, newName)
  IN  [i \in Ids |-> IF i = old THEN NoInode
                     ELSE [inodes[i] EXCEPT !.children = Attached(i)]]

Rename(old, new) ==
  LET id == Resolve(old, FALSE) IN
    /\ Idle
    /\ id \in Ids
    /\ IsDir(ParentOf(old)) /\ IsDir(ParentOf(new))
    /\ EntryOf(new) # None => Replaces(id, EntryOf(new))
    /\ inodes' = Moved(id, ParentOf(old), BaseOf(old), ParentOf(new), BaseOf(new))
    /\ UNCHANGED <<counter, making>>

Next ==
  \/ \E p \in Paths :
       \/ WriteFile(p) \/ Mkdir(p) \/ MkdirAll(p) \/ Rmdir(p) \/ Unlink(p) \/ RmAll(p)
       \/ \E t \in Targets : Symlink(t, p)
       \/ \E q \in Paths : Rename(p, q)
  \/ MkdirTurn

Spec == Init /\ [][Next]_vars

-----------------------------------------------------------------------------
(***************************************************************************)
(* Correctness.                                                            *)
(***************************************************************************)
\* Every variable keeps its type.
TypeOK ==
  /\ inodes \in [Ids -> Inodes]
  /\ counter \in 1 .. MaxIno + 1
  /\ making \in [path : Paths \cup {<< >>}, upto : Nat]
  /\ making = NotMaking \/ making.upto < Len(making.path)

(***************************************************************************)
(* The table is a tree of names rooted in the root directory.              *)
(***************************************************************************)
AllNames == Names \cup {NoName}

EntriesExist == \A i \in Ids, n \in AllNames : Child(i, n) # None => Exists(Child(i, n))
RootUnnamed == \A i \in Ids, n \in AllNames : Child(i, n) # Root
NoEmptyName == \A i \in Ids : Child(i, NoName) = None
NamedAtMostOnce == \A i, j \in Ids, m, n \in AllNames :
                      Child(i, m) = Child(j, n) /\ Child(i, m) # None => i = j /\ m = n
Named(i) == \E j \in Ids, n \in AllNames : Child(j, n) = i
NothingLost == \A i \in Ids \ {Root} : Exists(i) => Named(i)
OnlyDirsHaveEntries == \A i \in Ids : ~IsDir(i) => inodes[i].children = Empty
NoCycle == \A D \in SUBSET Ids : D # {} =>
             \E i \in D : \A j \in D, n \in AllNames : Child(j, n) # i

Sound ==
  /\ IsDir(Root)
  /\ EntriesExist /\ RootUnnamed /\ NoEmptyName /\ NamedAtMostOnce
  /\ NothingLost /\ OnlyDirsHaveEntries /\ NoCycle

\* The calls that ought to be safe: what is removed or moved is what the path
\* names in the directory of its parent, nothing is moved onto itself or below
\* itself, and mkdir -p meets no link that leads nowhere.
Tidy(p, id) == IsDir(ParentOf(p)) /\ EntryOf(p) = id

TidyCreate(p) == p # << >> /\ (WriteFile(p) \/ Mkdir(p) \/ \E t \in Targets : Symlink(t, p))
TidyTurn ==
  /\ ~Idle
  /\ LET p == SubSeq(making.path, 1, making.upto + 1) IN
       Resolve(p, TRUE) = ENOENT /\ IsDir(ParentOf(p)) => Tidy(p, None)
  /\ MkdirTurn
TidyRename(old, new) ==
  LET id == Resolve(old, FALSE) IN
    /\ Tidy(old, id) /\ new # << >> /\ ~Tidy(new, id)
    /\ ParentOf(new) \notin Subtree(id)
    /\ Rename(old, new)

TidyNext ==
  \/ \E p \in Paths :
       \/ TidyCreate(p)
       \/ MkdirAll(p)
       \/ Tidy(p, Resolve(p, TRUE)) /\ Rmdir(p)
       \/ Tidy(p, Resolve(p, FALSE)) /\ (Unlink(p) \/ RmAll(p))
       \/ \E q \in Paths : TidyRename(p, q)
  \/ TidyTurn

\* No tidy call turns a sound tree into one with a dangling entry, a lost
\* inode, an inode of two names or a cycle (operations.ts).
TreeStaysSound == [][Sound /\ ~Sound' => ~TidyNext]_vars

\* A number is never handed out twice, so an entry left dangling never comes
\* to name another file (nextId, allocate).
NeverReused ==
  [][\A i \in Ids : i < counter /\ ~Exists(i) => ~Exists(i)']_vars

\* The inode p leads to through directories alone.
Leads(p, i) ==
  \E c \in [0 .. Len(p) -> Ids] :
     /\ c[0] = Root /\ c[Len(p)] = i
     /\ \A k \in 1 .. Len(p) : IsDir(c[k - 1]) /\ Child(c[k - 1], p[k]) = c[k]

\* What realpath returns is a path without any link, of the inode it found.
RealpathIsReal ==
  \A p \in Paths : LET r == Realpath(p) IN
     r.id >= 0 => Leads(r.path, r.id) /\ TypeOf(r.id) # "symlink"

\* As long as links lead to files only, resolvePath and realpath agree.
LinksToFiles == \A p \in Paths : TypeOf(Resolve(p, FALSE)) = "symlink"
                                    => ~IsDir(Resolve(p, TRUE))
ResolversAgree ==
  LinksToFiles => \A p \in Paths : Realpath(p).id >= 0 => Resolve(p, TRUE) = Realpath(p).id

\* The two routines that resolve paths find real inodes, and the same ones.
PathsResolve == RealpathIsReal /\ ResolversAgree
=============================================================================

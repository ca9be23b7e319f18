----------------------------- MODULE VFSProofs -----------------------------
(***************************************************************************)
(* Proofs about the file system, for any names, paths, link targets and    *)
(* number of inodes: its types and its tree first, where nothing is        *)
(* assumed about what a path resolves to (a call is tidy by what it finds  *)
(* in the table); then what paths resolve to, by induction over their      *)
(* names and over the depth of links.                                      *)
(***************************************************************************)
EXTENDS VFS, SequenceLemmas

\* Numbers that have not been handed out name no inode.
NoneBeyond == \A i \in Ids : i >= counter => ~Exists(i)

IInv == TypeOK /\ NoneBeyond

USE VFSAssumption

-----------------------------------------------------------------------------
(***************************************************************************)
(* Values.                                                                 *)
(***************************************************************************)
\* The inodes operations make are inodes.
LEMMA InodeType ==
  /\ Empty \in Entries
  /\ NoInode \in Inodes
  /\ \A ty \in Types, tg \in Targets \cup {NoTarget} : New(ty, tg) \in Inodes
  /\ Root \in Ids /\ None \notin Ids
BY DEF Empty, Entries, NoInode, Inodes, New, Types, Ids, None, Root

\* A directory has a number of the table.
LEMMA DirIsId ==
  ASSUME NEW i, IsDir(i)
  PROVE  i \in Ids /\ Exists(i)
BY DEF IsDir, Exists, TypeOf

\* The last name of a path, and of what a mkdir -p is at.
LEMMA BaseType ==
  /\ \A p \in Paths : /\ BaseOf(p) \in Names \cup {NoName}
                      /\ p # << >> => BaseOf(p) \in Names
  /\ TypeOK /\ ~Idle =>
       LET p == SubSeq(making.path, 1, making.upto + 1) IN
         /\ p # << >> /\ BaseOf(p) \in Names
         /\ making.path \in Paths /\ making.upto + 1 <= Len(making.path)
<1>1. ASSUME NEW p \in Paths
      PROVE  /\ BaseOf(p) \in Names \cup {NoName}
             /\ p # << >> => BaseOf(p) \in Names
  <2>1. p \in Seq(Names)
    OBVIOUS
  <2> QED
    BY <2>1 DEF BaseOf
<1>2. ASSUME TypeOK, ~Idle
      PROVE  LET p == SubSeq(making.path, 1, making.upto + 1) IN
               /\ p # << >> /\ BaseOf(p) \in Names
               /\ making.path \in Paths /\ making.upto + 1 <= Len(making.path)
  <2> DEFINE w == making.path
  <2> DEFINE k == making.upto
  <2>1. k \in Nat /\ k < Len(w) /\ w \in Paths \cup {<< >>}
    BY <1>2 DEF TypeOK, Idle
  <2>2. w \in Paths
    BY <2>1
  <2>3. w \in Seq(Names)
    BY <2>2
  <2> HIDE DEF w, k
  <2>4. /\ SubSeq(w, 1, k + 1) \in Seq(Names) /\ Len(SubSeq(w, 1, k + 1)) = k + 1
        /\ k + 1 <= Len(w)
    BY <2>1, <2>3
  <2>5. SubSeq(w, 1, k + 1) # << >>
    BY <2>1, <2>4
  <2> QED
    BY <2>1, <2>2, <2>4, <2>5 DEF w, k, BaseOf
<1> QED
  BY <1>1, <1>2

-----------------------------------------------------------------------------
(***************************************************************************)
(* What the changes of the table do to entries and inodes.                 *)
(***************************************************************************)
\* Create adds one inode and one entry.
LEMMA CreateChanges ==
  ASSUME TypeOK, NEW par \in Ids, NEW base \in Names \cup {NoName},
         NEW ty \in Types \ {"none"}, NEW tg \in Targets \cup {NoTarget},
         Create(par, base, New(ty, tg)), ~Exists(counter)
  PROVE  /\ counter \in Ids /\ counter' = counter + 1
         /\ inodes' \in [Ids -> Inodes]
         /\ \A i \in Ids : TypeOf(i)' = IF i = counter THEN ty ELSE TypeOf(i)
         /\ par # counter =>
              \A i \in Ids, n \in AllNames :
                 Child(i, n)' = IF i = counter THEN None
                                ELSE IF i = par /\ n = base THEN counter ELSE Child(i, n)
<1>1. counter \in Ids /\ counter' = counter + 1
  BY DEF Create, TypeOK, Ids
<1>2. /\ New(ty, tg) \in Inodes
      /\ New(ty, tg).type = ty /\ New(ty, tg).children = Empty
  BY InodeType DEF New
<1>3. inodes' = [inodes EXCEPT ![counter] = New(ty, tg), ![par].children[base] = counter]
  BY DEF Create, FreshId
<1>4. inodes' \in [Ids -> Inodes]
  BY <1>1, <1>2, <1>3 DEF TypeOK, Inodes, Entries
<1>5. \A i \in Ids : TypeOf(i)' = IF i = counter THEN ty ELSE TypeOf(i)
  BY <1>1, <1>2, <1>3 DEF TypeOK, TypeOf, Inodes
<1>6. ASSUME par # counter, NEW i \in Ids, NEW n \in AllNames
      PROVE  Child(i, n)' = IF i = counter THEN None
                            ELSE IF i = par /\ n = base THEN counter ELSE Child(i, n)
  <2>1. CASE i = counter
    BY <1>1, <1>2, <1>3, <1>6, <2>1 DEF TypeOK, Child, Empty, AllNames
  <2>2. CASE i # counter
    BY <1>1, <1>3, <1>6, <2>2 DEF TypeOK, Child, Inodes, Entries, AllNames
  <2> QED
    BY <2>1, <2>2
<1> QED
  BY <1>1, <1>4, <1>5, <1>6

\* RemoveInode takes one inode and one entry away.
LEMMA RemoveChanges ==
  ASSUME TypeOK, NEW id \in Ids, NEW par \in Ids, NEW base \in Names \cup {NoName},
         RemoveInode(id, par, base)
  PROVE  /\ inodes' \in [Ids -> Inodes]
         /\ \A i \in Ids : TypeOf(i)' = IF i = id THEN "none" ELSE TypeOf(i)
         /\ \A i \in Ids, n \in AllNames :
               Child(i, n)' = IF i = id \/ (i = par /\ n = base) THEN None ELSE Child(i, n)
<1> DEFINE mid == [inodes EXCEPT ![par].children[base] = None]
<1>1. mid \in [Ids -> Inodes]
  BY DEF TypeOK, Inodes, Entries
<1>2. /\ \A i \in Ids : mid[i].type = inodes[i].type
      /\ \A i \in Ids, n \in AllNames :
            mid[i].children[n] = IF i = par /\ n = base THEN None ELSE inodes[i].children[n]
  BY DEF TypeOK, Inodes, Entries, AllNames
<1>3. inodes' = [mid EXCEPT ![id] = NoInode]
  BY DEF RemoveInode
<1> HIDE DEF mid
<1>4. inodes' \in [Ids -> Inodes]
  BY <1>1, <1>3, InodeType
<1>5. /\ \A i \in Ids : inodes'[i] = IF i = id THEN NoInode ELSE mid[i]
      /\ NoInode.type = "none" /\ \A n \in AllNames : NoInode.children[n] = None
  BY <1>1, <1>3 DEF NoInode, Empty, AllNames
<1> QED
  BY <1>2, <1>4, <1>5 DEF TypeOf, Child

\* rm takes a subtree and one entry away.
LEMMA RmAllChanges ==
  ASSUME TypeOK, NEW p \in Paths, RmAll(p)
  PROVE  LET id == Resolve(p, FALSE) IN
         /\ id \in Ids /\ ParentOf(p) \in Ids
         /\ inodes' \in [Ids -> Inodes]
         /\ \A i \in Ids : TypeOf(i)' = IF i \in Subtree(id) THEN "none" ELSE TypeOf(i)
         /\ \A i \in Ids, n \in AllNames :
               Child(i, n)' = IF i \in Subtree(id) \/ (i = ParentOf(p) /\ n = BaseOf(p))
                              THEN None ELSE Child(i, n)
<1> DEFINE id == Resolve(p, FALSE)
<1> DEFINE S == Subtree(id)
<1> DEFINE par == ParentOf(p)
<1> DEFINE base == BaseOf(p)
<1>1. id \in Ids /\ par \in Ids /\ base \in Names \cup {NoName}
  BY DirIsId, BaseType DEF RmAll
<1>2. inodes' = [i \in Ids |-> IF i \in S THEN NoInode
                               ELSE IF i = par THEN [inodes[i] EXCEPT !.children[base] = None]
                               ELSE inodes[i]]
  BY DEF RmAll
<1> HIDE DEF id, S, par, base
<1>3. NoInode.type = "none" /\ \A n \in AllNames : NoInode.children[n] = None
  BY DEF NoInode, Empty, AllNames
<1>4. inodes' \in [Ids -> Inodes]
  <2> SUFFICES ASSUME NEW i \in Ids
               PROVE  (IF i \in S THEN NoInode
                       ELSE IF i = par THEN [inodes[i] EXCEPT !.children[base] = None]
                       ELSE inodes[i]) \in Inodes
    BY <1>2
  <2>1. [inodes[i] EXCEPT !.children[base] = None] \in Inodes
    BY <1>1 DEF TypeOK, Inodes, Entries
  <2> QED
    BY <2>1, InodeType DEF TypeOK
<1>5. \A i \in Ids : TypeOf(i)' = IF i \in S THEN "none" ELSE TypeOf(i)
  BY <1>2, <1>3 DEF TypeOf, TypeOK, Inodes
<1>6. \A i \in Ids, n \in AllNames :
         Child(i, n)' = IF i \in S \/ (i = par /\ n = base) THEN None ELSE Child(i, n)
  BY <1>1, <1>2, <1>3 DEF Child, TypeOK, Inodes, Entries, AllNames
<1> QED
  BY <1>1, <1>4, <1>5, <1>6 DEF id, S, par, base

\* rename moves an entry, over the one it finds.
LEMMA MovedChanges ==
  ASSUME TypeOK, NEW id \in Ids, NEW from \in Ids, NEW name \in AllNames,
         NEW to \in Ids, NEW newName \in AllNames,
         inodes' = Moved(id, from, name, to, newName)
  PROVE  LET e == Child(to, newName) IN
         /\ inodes' \in [Ids -> Inodes]
         /\ \A i \in Ids : TypeOf(i)' = IF i = e THEN "none" ELSE TypeOf(i)
         /\ \A i \in Ids, n \in AllNames :
               Child(i, n)' = IF i = e THEN None
                              ELSE IF i = to /\ n = newName THEN id
                              ELSE IF i = from /\ n = name THEN None
                              ELSE Child(i, n)
<1> DEFINE e == Child(to, newName)
<1>1. name \in Names \cup {NoName} /\ newName \in Names \cup {NoName}
  BY DEF AllNames
<1> DEFINE Detached(i) == IF i = from THEN [inodes[i].children EXCEPT ![name] = None]
                          ELSE inodes[i].children
<1> DEFINE Attached(i) == IF i = to THEN [Detached(i) EXCEPT ![newName] = id] ELSE Detached(i)
<1>3. inodes' = [i \in Ids |-> IF i = e THEN NoInode
                               ELSE [inodes[i] EXCEPT !.children = Attached(i)]]
  BY DEF Moved
<1>4. \A i \in Ids : Attached(i) \in Entries
  BY <1>1 DEF TypeOK, Inodes, Entries
<1>5. \A i \in Ids, n \in AllNames :
        Attached(i)[n] = IF i = to /\ n = newName THEN id
                         ELSE IF i = from /\ n = name THEN None ELSE inodes[i].children[n]
  BY <1>1 DEF TypeOK, Inodes, Entries, AllNames
<1> HIDE DEF Attached, Detached, e
<1>6. NoInode.type = "none" /\ \A n \in AllNames : NoInode.children[n] = None
  BY DEF NoInode, Empty, AllNames
<1>7. inodes' \in [Ids -> Inodes]
  <2> SUFFICES ASSUME NEW i \in Ids
               PROVE  (IF i = e THEN NoInode
                       ELSE [inodes[i] EXCEPT !.children = Attached(i)]) \in Inodes
    BY <1>3
  <2>1. [inodes[i] EXCEPT !.children = Attached(i)] \in Inodes
    BY <1>4 DEF TypeOK, Inodes
  <2> QED
    BY <2>1, InodeType
<1>8. \A i \in Ids : TypeOf(i)' = IF i = e THEN "none" ELSE TypeOf(i)
  BY <1>3, <1>6 DEF TypeOf, TypeOK, Inodes
<1>9. \A i \in Ids, n \in AllNames :
        Child(i, n)' = IF i = e THEN None ELSE Attached(i)[n]
  BY <1>3, <1>6 DEF Child, TypeOK, Inodes
<1>10. \A i \in Ids, n \in AllNames :
        Child(i, n)' = IF i = e THEN None
                       ELSE IF i = to /\ n = newName THEN id
                       ELSE IF i = from /\ n = name THEN None ELSE Child(i, n)
  BY <1>5, <1>9 DEF Child
<1> QED
  BY <1>7, <1>8, <1>10 DEF e

LEMMA RenameChanges ==
  ASSUME TypeOK, NEW old \in Paths, NEW new \in Paths, Rename(old, new)
  PROVE  LET id == Resolve(old, FALSE)
             e == EntryOf(new) IN
         /\ id \in Ids /\ ParentOf(old) \in Ids /\ ParentOf(new) \in Ids
         /\ inodes' \in [Ids -> Inodes]
         /\ \A i \in Ids : TypeOf(i)' = IF i = e THEN "none" ELSE TypeOf(i)
         /\ \A i \in Ids, n \in AllNames :
               Child(i, n)' = IF i = e THEN None
                              ELSE IF i = ParentOf(new) /\ n = BaseOf(new) THEN id
                              ELSE IF i = ParentOf(old) /\ n = BaseOf(old) THEN None
                              ELSE Child(i, n)
<1> DEFINE id == Resolve(old, FALSE)
<1> DEFINE from == ParentOf(old)
<1> DEFINE name == BaseOf(old)
<1> DEFINE to == ParentOf(new)
<1> DEFINE newName == BaseOf(new)
<1>1. /\ id \in Ids /\ from \in Ids /\ to \in Ids
      /\ name \in AllNames /\ newName \in AllNames
  BY DirIsId, BaseType DEF Rename, AllNames
<1>2. inodes' = Moved(id, from, name, to, newName) /\ Child(to, newName) = EntryOf(new)
  BY DEF Rename, EntryOf
<1> HIDE DEF id, from, name, to, newName
<1> DEFINE e == Child(to, newName)
<1>3. /\ inodes' \in [Ids -> Inodes]
      /\ \A i \in Ids : TypeOf(i)' = IF i = e THEN "none" ELSE TypeOf(i)
      /\ \A i \in Ids, n \in AllNames :
            Child(i, n)' = IF i = e THEN None
                           ELSE IF i = to /\ n = newName THEN id
                           ELSE IF i = from /\ n = name THEN None
                           ELSE Child(i, n)
  BY <1>1, <1>2, MovedChanges
<1>4. e = EntryOf(new)
  BY <1>2
<1> HIDE DEF e
<1> QED
  BY <1>1, <1>3, <1>4 DEF id, from, name, to, newName
-----------------------------------------------------------------------------
(***************************************************************************)
(* Type correctness; both conjuncts hold after any call, tidy or not.      *)
(***************************************************************************)
\* A step makes no inode exist but one of a new number.
OnlyNew == \A i \in Ids : Exists(i)' => Exists(i) \/ i >= counter

\* Every call keeps the invariant and hands out new numbers only.
LEMMA IInvStep ==
  ASSUME IInv, [Next]_vars
  PROVE  IInv' /\ OnlyNew
<1> USE DEF IInv
<1>1. CASE UNCHANGED vars
  BY <1>1 DEF OnlyNew, vars, TypeOK, NoneBeyond, Exists, TypeOf
<1>2. ASSUME NEW p \in Paths, NEW ty \in Types \ {"none"}, NEW tg \in Targets \cup {NoTarget},
             ParentOf(p) \in Ids, Create(ParentOf(p), BaseOf(p), New(ty, tg)), UNCHANGED making
      PROVE  IInv' /\ OnlyNew
  <2>1. BaseOf(p) \in Names \cup {NoName} /\ (counter \in Ids => ~Exists(counter))
    BY BaseType DEF NoneBeyond, Ids, TypeOK
  <2>2. ~Exists(counter)
    BY <2>1 DEF Exists, TypeOf
  <2>3. /\ counter \in Ids /\ counter' = counter + 1
        /\ inodes' \in [Ids -> Inodes]
        /\ \A i \in Ids : TypeOf(i)' = IF i = counter THEN ty ELSE TypeOf(i)
    BY <1>2, <2>1, <2>2, CreateChanges
  <2> QED
    BY <1>2, <2>3 DEF OnlyNew, TypeOK, NoneBeyond, Exists, Ids
<1>3. ASSUME NEW p \in Paths, WriteFile(p) PROVE IInv' /\ OnlyNew
  BY <1>2, <1>3, DirIsId DEF WriteFile, Types
<1>4. ASSUME NEW p \in Paths, Mkdir(p) PROVE IInv' /\ OnlyNew
  BY <1>2, <1>4, DirIsId DEF Mkdir, Types
<1>5. ASSUME NEW p \in Paths, NEW t \in Targets, Symlink(t, p) PROVE IInv' /\ OnlyNew
  BY <1>2, <1>5, DirIsId DEF Symlink, Types
<1>6. ASSUME NEW p \in Paths, MkdirAll(p) PROVE IInv' /\ OnlyNew
  <2>1. Len(p) \in Nat /\ (p # << >> => 0 < Len(p))
    BY VFSAssumption
  <2>2. TypeOK'
    BY <1>6, <2>1 DEF MkdirAll, TypeOK, NotMaking
  <2>3. NoneBeyond' /\ OnlyNew
    BY <1>6 DEF OnlyNew, MkdirAll, NoneBeyond, Exists, TypeOf
  <2> QED
    BY <2>2, <2>3
<1>7. CASE MkdirTurn
  <2> DEFINE p == SubSeq(making.path, 1, making.upto + 1)
  <2> DEFINE next == IF making.upto + 1 = Len(making.path) THEN NotMaking
                     ELSE [making EXCEPT !.upto = @ + 1]
  <2>1. /\ BaseOf(p) \in Names
        /\ making.path \in Paths /\ making.upto + 1 <= Len(making.path)
    BY <1>7, BaseType DEF MkdirTurn
  <2>2. /\ next \in [path : Paths \cup {<< >>}, upto : Nat]
        /\ next = NotMaking \/ next.upto < Len(next.path)
    <3>1. Len(making.path) \in Nat /\ making.upto \in Nat
      BY <2>1, VFSAssumption DEF TypeOK
    <3> QED
      BY <2>1, <3>1 DEF TypeOK, NotMaking
  <2>3. NotMaking \in [path : Paths \cup {<< >>}, upto : Nat]
    BY DEF NotMaking
  <2> HIDE DEF next
  <2>4. CASE making' \in {next, NotMaking} /\ UNCHANGED <<inodes, counter>>
    <3>1. TypeOK'
      BY <2>2, <2>3, <2>4 DEF TypeOK, NotMaking
    <3>2. NoneBeyond' /\ OnlyNew
      BY <2>4 DEF OnlyNew, NoneBeyond, Exists, TypeOf
    <3> QED
      BY <3>1, <3>2
  <2>5. CASE /\ IsDir(ParentOf(p)) /\ making' = next
             /\ Create(ParentOf(p), BaseOf(p), New("directory", NoTarget))
    <3>1. ParentOf(p) \in Ids /\ ~Exists(counter)
      BY <2>5, DirIsId DEF NoneBeyond, TypeOK, Exists, TypeOf, Ids
    <3>2. "directory" \in Types \ {"none"}
      BY DEF Types
    <3> HIDE DEF p
    <3>3. /\ counter \in Ids /\ counter' = counter + 1
          /\ inodes' \in [Ids -> Inodes]
          /\ \A i \in Ids : TypeOf(i)' = IF i = counter THEN "directory" ELSE TypeOf(i)
      BY <2>1, <2>5, <3>1, <3>2, CreateChanges
    <3>4. TypeOK'
      BY <2>2, <2>5, <3>3 DEF TypeOK, Ids, NotMaking
    <3>5. NoneBeyond'
      BY <3>3 DEF TypeOK, NoneBeyond, Exists, Ids
    <3>6. OnlyNew
      BY <3>3 DEF OnlyNew, TypeOK, Exists, Ids
    <3> QED
      BY <3>4, <3>5, <3>6
  <2> QED
    BY <1>7, <2>4, <2>5 DEF MkdirTurn, next
<1>8. ASSUME NEW p \in Paths, NEW id, id \in Ids, IsDir(ParentOf(p)),
             RemoveInode(id, ParentOf(p), BaseOf(p)), UNCHANGED <<counter, making>>
      PROVE  IInv' /\ OnlyNew
  <2>1. ParentOf(p) \in Ids /\ BaseOf(p) \in Names \cup {NoName}
    BY <1>8, DirIsId, BaseType
  <2>2. /\ inodes' \in [Ids -> Inodes]
        /\ \A i \in Ids : TypeOf(i)' = IF i = id THEN "none" ELSE TypeOf(i)
    BY <1>8, <2>1, RemoveChanges
  <2> QED
    BY <1>8, <2>2 DEF OnlyNew, TypeOK, NoneBeyond, Exists
<1>9. ASSUME NEW p \in Paths, Rmdir(p) PROVE IInv' /\ OnlyNew
  BY <1>8, <1>9, DirIsId DEF Rmdir
<1>10. ASSUME NEW p \in Paths, Unlink(p) PROVE IInv' /\ OnlyNew
  BY <1>8, <1>10 DEF Unlink, Exists, TypeOf
<1>11. ASSUME NEW p \in Paths, RmAll(p) PROVE IInv' /\ OnlyNew
  <2>1. UNCHANGED <<counter, making>>
    BY <1>11 DEF RmAll
  <2> QED
    BY <1>11, <2>1, RmAllChanges DEF OnlyNew, TypeOK, NoneBeyond, Exists
<1>12. ASSUME NEW p \in Paths, NEW q \in Paths, Rename(p, q) PROVE IInv' /\ OnlyNew
  <2>1. UNCHANGED <<counter, making>>
    BY <1>12 DEF Rename
  <2> QED
    BY <1>12, <2>1, RenameChanges DEF OnlyNew, TypeOK, NoneBeyond, Exists
<1> QED
  BY <1>1, <1>3, <1>4, <1>5, <1>6, <1>7, <1>9, <1>10, <1>11, <1>12 DEF Next

\* The invariant of every behaviour.
LEMMA IInvHolds == Spec => []IInv
<1>1. Init => IInv
  <2>1. New("directory", NoTarget) \in Inodes /\ New("directory", NoTarget).type = "directory"
        /\ NoInode \in Inodes /\ NoInode.type = "none"
    BY InodeType DEF New, Types, NoInode
  <2> QED
    BY <2>1 DEF Init, IInv, TypeOK, NoneBeyond, NotMaking, Exists, TypeOf, Ids, Root
<1>2. IInv /\ [Next]_vars => IInv'
  BY IInvStep
<1> QED
  BY <1>1, <1>2, PTL DEF Spec

\* Every variable keeps its type; a mkdir -p never runs past its path.
THEOREM TypeCorrect == Spec => []TypeOK
BY IInvHolds, PTL DEF IInv

\* A number once handed out and deleted stays unused.
THEOREM NumbersAreFresh == Spec => NeverReused
<1>1. IInv /\ [Next]_vars => [\A i \in Ids : i < counter /\ ~Exists(i) => ~Exists(i)']_vars
  <2> SUFFICES ASSUME IInv, [Next]_vars, NEW i \in Ids, i < counter, Exists(i)'
               PROVE  Exists(i)
    OBVIOUS
  <2>1. Exists(i) \/ i >= counter
    BY IInvStep DEF OnlyNew
  <2> QED
    BY <2>1 DEF IInv, TypeOK, Ids
<1> QED
  BY <1>1, IInvHolds, PTL DEF Spec, NeverReused

-----------------------------------------------------------------------------
(***************************************************************************)
(* A tidy call keeps the tree sound.  One lemma for each kind of change.   *)
(***************************************************************************)
\* The children of an inode without entries.
LEMMA EmptyIs == \A f \in Entries : f = Empty <=> \A n \in AllNames : f[n] = None
BY DEF Entries, Empty, AllNames

\* No entries, said of Child.
LEMMA NoEntries ==
  ASSUME inodes \in [Ids -> Inodes], NEW i \in Ids
  PROVE  inodes[i].children = Empty <=> \A n \in AllNames : Child(i, n) = None
<1>1. inodes[i].children \in Entries
  BY DEF Inodes
<1> QED
  BY <1>1, EmptyIs DEF Child

\* The same after a step.
LEMMA NoEntriesPrime ==
  ASSUME inodes' \in [Ids -> Inodes]
  PROVE  OnlyDirsHaveEntries' <=>
           \A i \in Ids : ~IsDir(i)' => \A n \in AllNames : Child(i, n)' = None
<1>1. \A i \in Ids : inodes'[i].children \in Entries
  BY DEF Inodes
<1>2. \A i \in Ids : inodes'[i].children = Empty <=> \A n \in AllNames : Child(i, n)' = None
  BY <1>1, EmptyIs DEF Child
<1> QED
  BY <1>2 DEF OnlyDirsHaveEntries

\* What exists lies in the table.
LEMMA InTable ==
  /\ \A i : Exists(i) => i \in Ids
  /\ \A i : IsDir(i) => Exists(i)
  /\ Root \in Ids /\ None \notin Ids /\ NoName \in AllNames /\ Names \subseteq AllNames
BY InodeType DEF Exists, IsDir, TypeOf, AllNames

\* A new inode under a new name.
LEMMA CreateSound ==
  ASSUME IInv, Sound, NEW par \in Ids, IsDir(par), NEW base \in Names,
         Child(par, base) = None,
         NEW ty \in Types \ {"none"}, NEW tg \in Targets \cup {NoTarget},
         Create(par, base, New(ty, tg))
  PROVE  Sound'
<1> DEFINE new == counter
<1>1. new \in Ids => ~Exists(new)
  BY DEF IInv, TypeOK, NoneBeyond, Ids
<1>2. ~Exists(new) /\ base \in AllNames /\ base # NoName
  BY <1>1, InTable DEF AllNames
<1>3. par # new
  BY <1>2, InTable
<1>4. /\ new \in Ids
      /\ inodes' \in [Ids -> Inodes]
      /\ \A i \in Ids : TypeOf(i)' = IF i = new THEN ty ELSE TypeOf(i)
      /\ \A i \in Ids, n \in AllNames :
            Child(i, n)' = IF i = new THEN None
                           ELSE IF i = par /\ n = base THEN new ELSE Child(i, n)
  BY <1>2, <1>3, CreateChanges DEF IInv, AllNames
<1> HIDE DEF new
<1>5. ty # "none"
  OBVIOUS
<1>6. \A i \in Ids, n \in AllNames : Child(i, n) # new
  BY <1>2, <1>4, InTable DEF Sound, EntriesExist
<1>7. \A i \in Ids : Exists(i) => Exists(i)' /\ i # new
  BY <1>2, <1>4 DEF Exists
<1>8. IsDir(Root)' /\ RootUnnamed' /\ NoEmptyName'
  BY <1>2, <1>4, <1>7, InTable DEF Sound, RootUnnamed, NoEmptyName, IsDir
<1>9. EntriesExist'
  BY <1>4, <1>5, <1>7, InTable DEF Sound, EntriesExist, Exists
<1>10. NamedAtMostOnce'
  BY <1>4, <1>6 DEF Sound, NamedAtMostOnce
<1>11. NothingLost'
  <2> SUFFICES ASSUME NEW i \in Ids \ {Root}, Exists(i)' PROVE Named(i)'
    BY DEF NothingLost
  <2>1. CASE i = new
    <3>1. Child(par, base)' = i
      BY <1>2, <1>3, <1>4, <2>1
    <3> QED
      BY <1>2, <3>1 DEF Named
  <2>2. CASE i # new
    <3>1. Exists(i)
      BY <1>4, <2>2 DEF Exists
    <3>2. PICK j \in Ids, n \in AllNames : Child(j, n) = i
      BY <3>1 DEF Sound, NothingLost, Named
    <3>3. j # new /\ ~(j = par /\ n = base)
      <4>1. IsDir(j)
        BY <3>1, <3>2, InTable, NoEntries DEF Sound, OnlyDirsHaveEntries, IInv, TypeOK
      <4> QED
        BY <1>2, <3>2, <4>1, InTable
    <3>4. Child(j, n)' = i
      BY <1>4, <3>2, <3>3
    <3> QED
      BY <3>4 DEF Named
  <2> QED
    BY <2>1, <2>2
<1>12. OnlyDirsHaveEntries'
  <2>1. \A i \in Ids : ~IsDir(i) => \A n \in AllNames : Child(i, n) = None
    BY NoEntries DEF Sound, OnlyDirsHaveEntries, IInv, TypeOK
  <2>2. \A i \in Ids : i # new => (IsDir(i)' <=> IsDir(i))
    BY <1>4 DEF IsDir
  <2> QED
    BY <1>4, <2>1, <2>2, NoEntriesPrime
<1>13. NoCycle'
  <2> SUFFICES ASSUME NEW D \in SUBSET Ids, D # {}
               PROVE  \E i \in D : \A j \in D, n \in AllNames : Child(j, n)' # i
    BY DEF NoCycle
  <2>1. CASE D = {new}
    BY <1>4, <2>1, InTable
  <2>2. CASE D # {new}
    <3> DEFINE D2 == D \ {new}
    <3>1. D2 \in SUBSET Ids /\ D2 # {}
      BY <2>2
    <3>2. PICK i \in D2 : \A j \in D2, n \in AllNames : Child(j, n) # i
      BY <3>1 DEF Sound, NoCycle
    <3>3. \A j \in D, n \in AllNames : Child(j, n)' # i
      BY <1>4, <3>2, InTable
    <3> QED
      BY <3>2, <3>3
  <2> QED
    BY <2>1, <2>2
<1> QED
  BY <1>8, <1>9, <1>10, <1>11, <1>12, <1>13 DEF Sound

\* The inode a path names goes, with its only entry.
LEMMA RemoveSound ==
  ASSUME TypeOK, Sound, NEW id \in Ids, NEW par \in Ids, NEW base \in AllNames,
         Child(par, base) = id, inodes[id].children = Empty,
         RemoveInode(id, par, base)
  PROVE  Sound'
<1>1. /\ inodes' \in [Ids -> Inodes]
      /\ \A i \in Ids : TypeOf(i)' = IF i = id THEN "none" ELSE TypeOf(i)
      /\ \A i \in Ids, n \in AllNames :
            Child(i, n)' = IF i = id \/ (i = par /\ n = base) THEN None ELSE Child(i, n)
  BY RemoveChanges DEF AllNames
<1>2. /\ \A n \in AllNames : Child(id, n) = None
      /\ \A i \in Ids : ~IsDir(i) => \A n \in AllNames : Child(i, n) = None
  BY NoEntries DEF Sound, OnlyDirsHaveEntries, TypeOK
<1>3. id # Root
  BY DEF Sound, RootUnnamed
<1>4. \A i \in Ids : i # id => (IsDir(i)' <=> IsDir(i)) /\ (Exists(i)' <=> Exists(i))
  BY <1>1 DEF IsDir, Exists
<1>5. ~Exists(id)'
  BY <1>1 DEF Exists
<1>6. IsDir(Root)' /\ RootUnnamed' /\ NoEmptyName'
  BY <1>1, <1>3, <1>4, InTable DEF Sound, RootUnnamed, NoEmptyName
<1>7. EntriesExist' /\ NamedAtMostOnce'
  BY <1>1, <1>4, InTable DEF Sound, EntriesExist, NamedAtMostOnce
<1>8. NothingLost'
  <2> SUFFICES ASSUME NEW i \in Ids \ {Root}, Exists(i)' PROVE Named(i)'
    BY DEF NothingLost
  <2>1. i # id /\ Exists(i)
    BY <1>4, <1>5
  <2>2. PICK j \in Ids, n \in AllNames : Child(j, n) = i
    BY <2>1 DEF Sound, NothingLost, Named
  <2>3. Child(j, n)' = i
    BY <1>1, <1>2, <2>1, <2>2, InTable
  <2> QED
    BY <2>3 DEF Named
<1>9. OnlyDirsHaveEntries'
  BY <1>1, <1>2, <1>4, NoEntriesPrime
<1>10. NoCycle'
  <2> SUFFICES ASSUME NEW D \in SUBSET Ids, D # {}
               PROVE  \E i \in D : \A j \in D, n \in AllNames : Child(j, n)' # i
    BY DEF NoCycle
  <2>1. PICK i \in D : \A j \in D, n \in AllNames : Child(j, n) # i
    BY DEF Sound, NoCycle
  <2>2. \A j \in D, n \in AllNames : Child(j, n)' # i
    BY <1>1, <2>1, InTable
  <2> QED
    BY <2>1, <2>2
<1> QED
  BY <1>6, <1>7, <1>8, <1>9, <1>10 DEF Sound

\* An inode is in its subtree; every other member is named from inside.
LEMMA SubtreeFacts ==
  ASSUME NEW id \in Ids, EntriesExist
  PROVE  LET S == Subtree(id) IN
         /\ S \subseteq Ids /\ id \in S /\ Closed(S)
         /\ \A j \in S \ {id} : \E k \in S, n \in AllNames : Child(k, n) = j
<1> DEFINE S == Subtree(id)
<1>1. S \subseteq Ids /\ id \in S
  BY DEF Subtree
<1>2. Closed(S)
  <2> SUFFICES ASSUME NEW i \in S, NEW n \in AllNames, Child(i, n) # None
               PROVE  Child(i, n) \in S
    BY DEF Closed, AllNames
  <2>1. Child(i, n) \in Ids
    BY <1>1, InTable DEF EntriesExist
  <2>2. ASSUME NEW D \in SUBSET Ids, id \in D, Closed(D)
        PROVE  Child(i, n) \in D
    <3>1. i \in D
      BY <2>2 DEF Subtree
    <3> QED
      BY <2>2, <3>1 DEF Closed, AllNames
  <2> QED
    BY <2>1, <2>2 DEF Subtree
<1>3. ASSUME NEW j \in S \ {id}, \A k \in S, n \in AllNames : Child(k, n) # j
      PROVE  FALSE
  <2>1. Closed(S \ {j})
    BY <1>2, <1>3 DEF Closed, AllNames
  <2>2. id \in S \ {j} /\ S \ {j} \in SUBSET Ids
    BY <1>1
  <2> QED
    BY <2>1, <2>2 DEF Subtree
<1> QED
  BY <1>1, <1>2, <1>3

\* So does a whole subtree: it holds neither the root nor the directory of the
\* entry (NoCycle), and no entry from outside leads into it but that one.
LEMMA RmAllSound ==
  ASSUME TypeOK, Sound, NEW p \in Paths, RmAll(p), Tidy(p, Resolve(p, FALSE))
  PROVE  Sound'
<1> DEFINE id == Resolve(p, FALSE)
<1> DEFINE S == Subtree(id)
<1> DEFINE par == ParentOf(p)
<1> DEFINE base == BaseOf(p)
<1>1. /\ id \in Ids /\ par \in Ids /\ base \in AllNames
      /\ inodes' \in [Ids -> Inodes]
      /\ \A i \in Ids : TypeOf(i)' = IF i \in S THEN "none" ELSE TypeOf(i)
      /\ \A i \in Ids, n \in AllNames :
            Child(i, n)' = IF i \in S \/ (i = par /\ n = base) THEN None ELSE Child(i, n)
  BY RmAllChanges, BaseType DEF AllNames
<1>2. Child(par, base) = id
  BY DEF Tidy, EntryOf
<1>3. /\ S \subseteq Ids /\ id \in S /\ Closed(S)
      /\ \A j \in S \ {id} : \E k \in S, n \in AllNames : Child(k, n) = j
  BY <1>1, SubtreeFacts DEF Sound
<1> HIDE DEF id, S, par, base
<1>4. Root \notin S
  BY <1>1, <1>2, <1>3 DEF Sound, RootUnnamed
<1>5. par \notin S
  <2> SUFFICES ASSUME par \in S PROVE FALSE
    OBVIOUS
  <2>1. PICK i \in S : \A j \in S, n \in AllNames : Child(j, n) # i
    BY <1>3 DEF Sound, NoCycle
  <2> QED
    BY <1>1, <1>2, <1>3, <2>1
<1>6. \A i \in Ids : i \notin S => (IsDir(i)' <=> IsDir(i)) /\ (Exists(i)' <=> Exists(i))
  BY <1>1 DEF IsDir, Exists
<1>7. \A i \in S : ~Exists(i)' /\ ~IsDir(i)'
  BY <1>1, <1>3 DEF IsDir, Exists
<1>8. IsDir(Root)' /\ RootUnnamed' /\ NoEmptyName'
  BY <1>1, <1>4, <1>6, InTable DEF Sound, RootUnnamed, NoEmptyName
<1>9. EntriesExist'
  <2> SUFFICES ASSUME NEW i \in Ids, NEW n \in AllNames, Child(i, n)' # None
               PROVE  Exists(Child(i, n))'
    BY DEF EntriesExist
  <2>1. Child(i, n)' = Child(i, n) /\ i \notin S /\ ~(i = par /\ n = base)
    BY <1>1
  <2>2. Exists(Child(i, n)) /\ Child(i, n) # None
    BY <2>1 DEF Sound, EntriesExist
  <2>3. Child(i, n) \notin S
    BY <1>1, <1>2, <1>3, <2>1, <2>2 DEF Sound, NamedAtMostOnce
  <2>4. TypeOf(Child(i, n)') = TypeOf(Child(i, n))
    BY <2>1
  <2>5. \A c \in Ids : c \notin S /\ Exists(c) => Exists(c)'
    BY <1>6
  <2> QED
    BY <1>1, <2>1, <2>2, <2>3, InTable DEF Exists, TypeOf
<1>10. NamedAtMostOnce'
  BY <1>1 DEF Sound, NamedAtMostOnce
<1>11. NothingLost'
  <2> SUFFICES ASSUME NEW i \in Ids \ {Root}, Exists(i)' PROVE Named(i)'
    BY DEF NothingLost
  <2>1. i \notin S /\ Exists(i)
    BY <1>6, <1>7
  <2>2. PICK j \in Ids, n \in AllNames : Child(j, n) = i
    BY <2>1 DEF Sound, NothingLost, Named
  <2>3. j \notin S /\ ~(j = par /\ n = base)
    BY <1>2, <1>3, <2>1, <2>2, InTable DEF Closed, AllNames
  <2>4. Child(j, n)' = i
    BY <1>1, <2>2, <2>3
  <2> QED
    BY <2>4 DEF Named
<1>12. OnlyDirsHaveEntries'
  <2>1. \A i \in Ids : ~IsDir(i) => \A n \in AllNames : Child(i, n) = None
    BY NoEntries DEF Sound, OnlyDirsHaveEntries, TypeOK
  <2> QED
    BY <1>1, <1>6, <2>1, NoEntriesPrime
<1>13. NoCycle'
  <2> SUFFICES ASSUME NEW D \in SUBSET Ids, D # {}
               PROVE  \E i \in D : \A j \in D, n \in AllNames : Child(j, n)' # i
    BY DEF NoCycle
  <2>1. PICK i \in D : \A j \in D, n \in AllNames : Child(j, n) # i
    BY DEF Sound, NoCycle
  <2>2. \A j \in D, n \in AllNames : Child(j, n)' # i
    BY <1>1, <2>1, InTable
  <2> QED
    BY <2>1, <2>2
<1> QED
  BY <1>8, <1>9, <1>10, <1>11, <1>12, <1>13 DEF Sound

\* A subtree is hung elsewhere: what is left over outside of it has a top as
\* before, and inside of it nothing names its root any more.
LEMMA MovedSound ==
  ASSUME TypeOK, Sound, NEW id \in Ids, NEW from \in Ids, NEW name \in AllNames,
         NEW to \in Ids, NEW newName \in Names, NEW e,
         inodes' = Moved(id, from, name, to, newName),
         Child(from, name) = id, Child(to, newName) = e,
         IsDir(from), IsDir(to), e # id, to \notin Subtree(id),
         e # None => inodes[e].children = Empty /\ Exists(e)
  PROVE  Sound'
<1> DEFINE S == Subtree(id)
<1>0. newName \in AllNames
  BY DEF AllNames
<1>1. /\ id \in Ids /\ from \in Ids /\ to \in Ids
      /\ name \in AllNames /\ newName \in Names
      /\ inodes' \in [Ids -> Inodes]
      /\ \A i \in Ids : TypeOf(i)' = IF i = e THEN "none" ELSE TypeOf(i)
      /\ \A i \in Ids, n \in AllNames :
            Child(i, n)' = IF i = e THEN None
                           ELSE IF i = to /\ n = newName THEN id
                           ELSE IF i = from /\ n = name THEN None
                           ELSE Child(i, n)
  BY <1>0, MovedChanges
<1>2. /\ Child(from, name) = id /\ Child(to, newName) = e
      /\ IsDir(from) /\ IsDir(to) /\ e # id /\ to \notin S
      /\ e # None => inodes[e].children = Empty /\ Exists(e)
  OBVIOUS
<1>3. S \subseteq Ids /\ id \in S /\ Closed(S)
  BY <1>1, SubtreeFacts DEF Sound
<1> HIDE DEF S
<1>4. newName \in AllNames /\ newName # NoName
  BY <1>1, InTable
<1>5. id # Root /\ e # Root /\ id # None /\ Exists(id)
  BY <1>1, <1>2, <1>4, InTable DEF Sound, RootUnnamed, EntriesExist
<1>6. /\ e # None => e \in Ids /\ \A n \in AllNames : Child(e, n) = None
      /\ \A i \in Ids : ~IsDir(i) => \A n \in AllNames : Child(i, n) = None
  BY <1>2, InTable, NoEntries DEF Sound, OnlyDirsHaveEntries, TypeOK
<1>7. from # e /\ to # e
  BY <1>1, <1>2, <1>4, <1>5, <1>6, InTable
<1>8. \A i \in Ids : i # e => (IsDir(i)' <=> IsDir(i)) /\ (Exists(i)' <=> Exists(i))
  BY <1>1 DEF IsDir, Exists
<1>9. \A i \in Ids : i = e => ~Exists(i)' /\ ~IsDir(i)'
  BY <1>1 DEF IsDir, Exists
<1>10. IsDir(Root)' /\ RootUnnamed' /\ NoEmptyName'
  BY <1>1, <1>4, <1>5, <1>8, InTable DEF Sound, RootUnnamed, NoEmptyName
<1>11. EntriesExist'
  <2> SUFFICES ASSUME NEW i \in Ids, NEW n \in AllNames, Child(i, n)' # None
               PROVE  Exists(Child(i, n))'
    BY DEF EntriesExist
  <2>1. PICK c \in Ids : c = Child(i, n)' /\ Exists(c) /\ c # e
    <3>1. CASE i = to /\ n = newName
      BY <1>1, <1>2, <1>5, <1>7, <3>1
    <3>2. CASE ~(i = to /\ n = newName)
      <4>1. Child(i, n)' = Child(i, n)
        BY <1>1, <3>2
      <4>2. Exists(Child(i, n)) /\ Child(i, n) \in Ids
        BY <4>1, InTable DEF Sound, EntriesExist
      <4>3. Child(i, n) # e
        BY <1>1, <1>2, <1>4, <3>2, <4>1 DEF Sound, NamedAtMostOnce
      <4> QED
        BY <4>1, <4>2, <4>3
    <3> QED
      BY <3>1, <3>2
  <2>2. TypeOf(c)' = TypeOf(c)
    BY <1>1, <2>1
  <2> QED
    BY <2>1, <2>2 DEF Exists, TypeOf
<1>12. NamedAtMostOnce'
  <2> SUFFICES ASSUME NEW i \in Ids, NEW j \in Ids, NEW m \in AllNames, NEW n \in AllNames,
                      Child(i, m)' = Child(j, n)', Child(i, m)' # None
               PROVE  i = j /\ m = n
    BY DEF NamedAtMostOnce
  <2>1. \A k \in Ids, l \in AllNames : Child(k, l) = id => k = from /\ l = name
    BY <1>1, <1>2, <1>5 DEF Sound, NamedAtMostOnce
  <2> QED
    BY <1>1, <2>1 DEF Sound, NamedAtMostOnce
<1>13. NothingLost'
  <2> SUFFICES ASSUME NEW i \in Ids \ {Root}, Exists(i)' PROVE Named(i)'
    BY DEF NothingLost
  <2>1. i # e /\ Exists(i)
    BY <1>8, <1>9
  <2>2. CASE i = id
    <3>1. PICK j \in Ids, n \in AllNames : j = to /\ n = newName
      BY <1>1, <1>4
    <3>2. Child(j, n)' = i
      BY <1>1, <1>7, <2>2, <3>1
    <3> QED
      BY <3>2 DEF Named
  <2>3. CASE i # id
    <3>1. PICK j \in Ids, n \in AllNames : Child(j, n) = i
      BY <2>1 DEF Sound, NothingLost, Named
    <3>2. j # e
      BY <1>6, <3>1, InTable
    <3>3. Child(j, n)' = i
      BY <1>1, <1>2, <2>1, <2>3, <3>1, <3>2
    <3> QED
      BY <3>3 DEF Named
  <2> QED
    BY <2>2, <2>3
<1>14. OnlyDirsHaveEntries'
  BY <1>1, <1>2, <1>6, <1>8, NoEntriesPrime
<1>15. NoCycle'
  <2> SUFFICES ASSUME NEW D \in SUBSET Ids, D # {}
               PROVE  \E i \in D : \A j \in D, n \in AllNames : Child(j, n)' # i
    BY DEF NoCycle
  <2>1. CASE D \ S # {}
    <3>1. PICK i \in D \ S : \A j \in D \ S, n \in AllNames : Child(j, n) # i
      BY <2>1 DEF Sound, NoCycle
    <3>2. \A j \in D, n \in AllNames : Child(j, n) # i
      BY <1>3, <3>1, InTable DEF Closed, AllNames
    <3>3. \A j \in D, n \in AllNames : Child(j, n)' # i
      BY <1>1, <1>3, <3>1, <3>2, InTable
    <3> QED
      BY <3>1, <3>3
  <2>2. CASE D \subseteq S
    <3>1. PICK i \in D : \A j \in D, n \in AllNames : Child(j, n) # i
      BY DEF Sound, NoCycle
    <3>2. \A j \in D, n \in AllNames : Child(j, n)' # i
      BY <1>1, <1>2, <2>2, <3>1, InTable
    <3> QED
      BY <3>1, <3>2
  <2> QED
    BY <2>1, <2>2
<1> QED
  BY <1>10, <1>11, <1>12, <1>13, <1>14, <1>15 DEF Sound

LEMMA RenameSound ==
  ASSUME TypeOK, Sound, NEW old \in Paths, NEW new \in Paths, TidyRename(old, new)
  PROVE  Sound'
<1> DEFINE id == Resolve(old, FALSE)
<1> DEFINE from == ParentOf(old)
<1> DEFINE name == BaseOf(old)
<1> DEFINE to == ParentOf(new)
<1> DEFINE newName == BaseOf(new)
<1> DEFINE e == EntryOf(new)
<1>1. /\ id \in Ids /\ from \in Ids /\ to \in Ids
      /\ name \in AllNames /\ newName \in Names
  BY RenameChanges, BaseType DEF TidyRename, AllNames
<1>2. /\ Child(from, name) = id /\ Child(to, newName) = e
      /\ IsDir(from) /\ IsDir(to) /\ e # id /\ to \notin Subtree(id)
      /\ e # None => inodes[e].children = Empty /\ Exists(e)
      /\ inodes' = Moved(id, from, name, to, newName)
  BY DEF TidyRename, Tidy, Rename, Replaces, EntryOf
<1> HIDE DEF id, from, name, to, newName, e
<1> QED
  BY <1>1, <1>2, MovedSound

\* Every tidy call.
LEMMA TreeStep ==
  ASSUME IInv, Sound, TidyNext
  PROVE  Sound'
<1> USE DEF IInv
<1>1. ASSUME UNCHANGED inodes PROVE Sound'
  <2> USE <1>1 DEF Child, IsDir, Exists, TypeOf
  <2>1. IsDir(Root)' /\ EntriesExist' /\ RootUnnamed' /\ NoEmptyName'
    BY DEF Sound, EntriesExist, RootUnnamed, NoEmptyName
  <2>2. NamedAtMostOnce' /\ NothingLost'
    BY DEF Sound, NamedAtMostOnce, NothingLost, Named
  <2>3. OnlyDirsHaveEntries'
    BY DEF Sound, OnlyDirsHaveEntries
  <2>4. NoCycle'
    <3> HIDE VFSAssumption
    <3> QED
      BY DEF Sound, NoCycle
  <2> QED
    BY <2>1, <2>2, <2>3, <2>4 DEF Sound
<1>2. ASSUME NEW p \in Paths, TidyCreate(p) PROVE Sound'
  <2>1. PICK ty \in Types \ {"none"}, tg \in Targets \cup {NoTarget} :
           /\ IsDir(ParentOf(p)) /\ EntryOf(p) = None
           /\ Create(ParentOf(p), BaseOf(p), New(ty, tg))
    BY <1>2 DEF TidyCreate, WriteFile, Mkdir, Symlink, Types
  <2>2. BaseOf(p) \in Names /\ ParentOf(p) \in Ids
    BY <1>2, <2>1, BaseType, InTable DEF TidyCreate
  <2> QED
    BY <2>1, <2>2, CreateSound DEF EntryOf
<1>3. ASSUME NEW p \in Paths, Tidy(p, Resolve(p, TRUE)), Rmdir(p) PROVE Sound'
  <2>1. ParentOf(p) \in Ids /\ BaseOf(p) \in AllNames /\ Resolve(p, TRUE) \in Ids
    BY <1>3, BaseType, InTable DEF Rmdir, AllNames
  <2> QED
    BY <1>3, <2>1, RemoveSound DEF Rmdir, Tidy, EntryOf
<1>4. ASSUME NEW p \in Paths, Tidy(p, Resolve(p, FALSE)), Unlink(p) PROVE Sound'
  <2>1. ParentOf(p) \in Ids /\ BaseOf(p) \in AllNames /\ Resolve(p, FALSE) \in Ids
    BY <1>4, BaseType, InTable DEF Unlink, AllNames
  <2>2. inodes[Resolve(p, FALSE)].children = Empty
    BY <1>4, <2>1 DEF Unlink, Sound, OnlyDirsHaveEntries
  <2> QED
    BY <1>4, <2>1, <2>2, RemoveSound DEF Unlink, Tidy, EntryOf
<1>5. ASSUME NEW p \in Paths, Tidy(p, Resolve(p, FALSE)), RmAll(p) PROVE Sound'
  BY <1>5, RmAllSound
<1>6. ASSUME NEW p \in Paths, NEW q \in Paths, TidyRename(p, q) PROVE Sound'
  BY <1>6, RenameSound
<1>7. ASSUME TidyTurn PROVE Sound'
  <2> DEFINE p == SubSeq(making.path, 1, making.upto + 1)
  <2>1. CASE UNCHANGED inodes
    BY <1>1, <2>1
  <2>2. CASE /\ Resolve(p, TRUE) = ENOENT /\ IsDir(ParentOf(p))
             /\ Create(ParentOf(p), BaseOf(p), New("directory", NoTarget))
    <3>1. BaseOf(p) \in Names
      BY <1>7, BaseType DEF TidyTurn
    <3>2. Tidy(p, None)
      BY <1>7, <2>2 DEF TidyTurn
    <3>3. "directory" \in Types \ {"none"}
      BY DEF Types
    <3> HIDE DEF p
    <3>4. ParentOf(p) \in Ids /\ IsDir(ParentOf(p)) /\ Child(ParentOf(p), BaseOf(p)) = None
      BY <3>2, InTable DEF Tidy, EntryOf
    <3> QED
      BY <2>2, <3>1, <3>3, <3>4, CreateSound
  <2> QED
    BY <1>7, <2>1, <2>2 DEF TidyTurn, MkdirTurn
<1>8. ASSUME NEW p \in Paths, MkdirAll(p) PROVE Sound'
  BY <1>1, <1>8 DEF MkdirAll
<1> QED
  BY <1>2, <1>3, <1>4, <1>5, <1>6, <1>7, <1>8 DEF TidyNext

\* No tidy call ever leaves a dangling entry, a lost inode, an inode of two
\* names or a cycle in a sound tree.
THEOREM TreeSound == Spec => TreeStaysSound
<1>1. IInv /\ [Next]_vars => [Sound /\ ~Sound' => ~TidyNext]_vars
  BY TreeStep
<1> QED
  BY <1>1, IInvHolds, PTL DEF Spec, TreeStaysSound

-----------------------------------------------------------------------------
HIDE VFSAssumption

(***************************************************************************)
(* What paths resolve to.                                                  *)
(***************************************************************************)
\* A link has a target, and the root is none.
Linked ==
  /\ inodes \in [Ids -> Inodes]
  /\ \A i \in Ids : TypeOf(i) = "symlink" => inodes[i].target \in Targets
  /\ TypeOf(Root) # "symlink"

\* The recursive functions of the operators of VFS.
NormalFrom(parts) ==
  CHOOSE N : N = [i \in 0 .. Len(parts) |->
                    IF i = 0 THEN << >>
                    ELSE IF parts[i] = ".." THEN Parent(N[i - 1])
                    ELSE Append(N[i - 1], parts[i])]
Walk(p, follow, hops) ==
  CHOOSE W : W = [k \in 0 .. Len(p) |->
                    IF k = 0 THEN Root ELSE Segment(W[k - 1], k, p, follow, hops)]
Hops ==
  CHOOSE R : R = [d \in Nat |-> [p \in Seq(Names) |->
                    IF d > MaxSymlinkDepth THEN ENOENT
                    ELSE Ended(Walked(p, TRUE, R[d + 1]), p, TRUE, R[d + 1])]]

LEMMA RecursionsAre ==
  /\ \A parts : Normal(parts) = NormalFrom(parts)[Len(parts)]
  /\ \A p, follow, hops : Walked(p, follow, hops) = Walk(p, follow, hops)[Len(p)]
  /\ \A p, follow : Resolve(p, follow) = Ended(Walked(p, follow, Hops[1]), p, follow, Hops[1])
BY DEF Normal, NormalFrom, Walked, Walk, Resolve, Hops

\* The names but the last one.
LEMMA ParentType ==
  ASSUME NEW p \in Seq(Names)
  PROVE  /\ Parent(p) \in Seq(Names)
         /\ p # << >> => /\ Len(Parent(p)) = Len(p) - 1
                         /\ \A k \in 1 .. Len(p) - 1 : Parent(p)[k] = p[k]
<1>1. CASE p = << >>
  BY <1>1 DEF Parent
<1>2. CASE p # << >>
  <2>1. Parent(p) = Front(p)
    BY DEF Parent, Front
  <2> QED
    BY <1>2, <2>1, Innermost
<1> QED
  BY <1>1, <1>2

\* normalizePath ends in names alone.
LEMMA NormalType ==
  ASSUME NEW parts \in Seq(Names \cup {".."})
  PROVE  Normal(parts) \in Seq(Names)
<1> DEFINE n == Len(parts)
<1> DEFINE Next1(q, k) == IF parts[k] = ".." THEN Parent(q) ELSE Append(q, parts[k])
<1> DEFINE h == [k \in 1 .. n |-> [q \in Seq(Names) |-> Next1(q, k)]]
<1>1. n \in Nat /\ \A k \in 1 .. n : parts[k] \in Names \cup {".."}
  OBVIOUS
<1>2. \A k \in 1 .. n : \A q \in Seq(Names) : Next1(q, k) \in Seq(Names)
  <2> SUFFICES ASSUME NEW k \in 1 .. n, NEW q \in Seq(Names) PROVE Next1(q, k) \in Seq(Names)
    OBVIOUS
  <2>1. CASE parts[k] = ".."
    BY <2>1, ParentType
  <2>2. CASE parts[k] # ".."
    BY <1>1, <2>2
  <2> QED
    BY <2>1, <2>2
<1>3. h \in [1 .. n -> [Seq(Names) -> Seq(Names)]]
  <2> HIDE DEF n, Next1
  <2> QED
    BY <1>2
<1>4. << >> \in Seq(Names)
  OBVIOUS
<1> DEFINE e == << >>
<1>5. PICK f : RunsOn(f, n, Seq(Names), e, h)
  <2>1. e \in Seq(Names)
    BY <1>4
  <2> HIDE DEF n, h, e
  <2> QED
    BY <1>1, <1>3, <2>1, RunningOn
<1>6. /\ f \in [0 .. n -> Seq(Names)] /\ f[0] = << >>
      /\ \A k \in 1 .. n : f[k] = Next1(f[k - 1], k)
  <2>1. f \in [0 .. n -> Seq(Names)] /\ f[0] = e /\ \A k \in 1 .. n : f[k] = h[k][f[k - 1]]
    BY <1>5 DEF RunsOn
  <2>2. ASSUME NEW k \in 1 .. n PROVE f[k] = Next1(f[k - 1], k)
    <3> HIDE DEF n, Next1
    <3>0. k - 1 \in 0 .. n
      BY <1>1
    <3>1. f[k - 1] \in Seq(Names)
      BY <2>1, <3>0
    <3> QED
      BY <2>1, <3>1
  <2> QED
    BY <1>4, <2>1, <2>2
<1> DEFINE N == NormalFrom(parts)
<1> DEFINE Def(g) == [i \in 0 .. n |-> IF i = 0 THEN << >> ELSE Next1(g[i - 1], i)]
<1>7. f = Def(f)
  <2> HIDE DEF n, Next1
  <2> QED
    BY <1>1, <1>6
<1>8. N = Def(N)
  <2>1. N = CHOOSE g : g = Def(g)
    BY DEF NormalFrom
  <2> HIDE DEF Def, N
  <2> QED
    BY <1>7, <2>1
<1>9. N[0] = << >> /\ \A k \in 1 .. n : N[k] = Next1(N[k - 1], k)
  <2> HIDE DEF n, Next1, N
  <2> QED
    BY <1>1, <1>8
<1> DEFINE P == {k \in 0 .. n : N[k] \in Seq(Names)}
<1>10. 0 \in P /\ \A k \in 1 .. n : k - 1 \in P => k \in P
  <2> HIDE DEF n, Next1, N
  <2>1. 0 \in P
    <3>1. 0 \in 0 .. n
      BY <1>1
    <3>2. N[0] \in Seq(Names)
      BY <1>4, <1>9
    <3> QED
      BY <3>1, <3>2
  <2>2. ASSUME NEW k \in 1 .. n, k - 1 \in P PROVE k \in P
    <3>1. N[k - 1] \in Seq(Names) /\ k \in 0 .. n
      BY <1>1, <2>2
    <3>2. N[k] \in Seq(Names)
      BY <1>2, <1>9, <3>1
    <3> QED
      BY <3>1, <3>2
  <2> QED
    BY <2>1, <2>2
<1>11. \A k \in 0 .. n : k \in P
  <2> HIDE DEF P, n
  <2> QED
    BY <1>1, <1>10, CountingUp
<1>12. N[n] \in Seq(Names)
  <2> HIDE DEF N
  <2> QED
    BY <1>1, <1>11
<1> QED
  BY <1>12, RecursionsAre

\* ... so a link stands for a path.
LEMMA JumpType ==
  ASSUME NEW base \in Seq(Names), NEW t \in Targets
  PROVE  Jump(base, t) \in Seq(Names)
<1>1. t.abs \in BOOLEAN /\ t.parts \in Seq(Names \cup {".."})
  BY VFSAssumption
<1>2. base \in Seq(Names \cup {".."})
  BY SeqMonotonic
<1>3. base \o t.parts \in Seq(Names \cup {".."})
  BY <1>1, <1>2
<1> QED
  BY <1>1, <1>3, NormalType DEF Jump

\* What resolvePath returns for every path at one depth.
Hopping == [Seq(Names) -> Int]

\* The number of a child, or none.
LEMMA ChildType ==
  ASSUME Linked, NEW i \in Ids, NEW n \in Names
  PROVE  Child(i, n) \in Int
<1>1. inodes[i].children \in [Names \cup {NoName} -> Ids \cup {None}]
  BY DEF Linked, Inodes, Entries
<1>2. Ids \cup {None} \subseteq Int
  BY DEF Ids, None
<1> QED
  BY <1>1, <1>2 DEF Child

\* A turn of the loop of resolvePath ends in a number.
LEMMA SegmentType ==
  ASSUME Linked, NEW p \in Seq(Names), NEW follow \in BOOLEAN, NEW hops \in Hopping,
         NEW k \in 1 .. Len(p), NEW i \in Int
  PROVE  Segment(i, k, p, follow, hops) \in Int
<1> DEFINE q == Jump(SubSeq(p, 1, k - 1), inodes[i].target)
<1> DEFINE hop == IF TypeOf(i) = "symlink" /\ follow THEN hops[q] ELSE i
<1>1. hop \in Int
  <2>1. CASE TypeOf(i) = "symlink" /\ follow
    <3>1. i \in Ids /\ inodes[i].target \in Targets
      BY <2>1 DEF Linked, TypeOf
    <3>2. SubSeq(p, 1, k - 1) \in Seq(Names)
      <4>1. k - 1 \in Int /\ \A j \in 1 .. k - 1 : p[j] \in Names
        OBVIOUS
      <4> QED
        BY <4>1, SubSeqProperties
    <3>3. q \in Seq(Names)
      BY <3>1, <3>2, JumpType
    <3> HIDE DEF q
    <3> QED
      BY <2>1, <3>3 DEF Hopping
  <2>2. CASE ~ (TypeOf(i) = "symlink" /\ follow)
    BY <2>2
  <2> QED
    BY <2>1, <2>2
<1>2. Segment(i, k, p, follow, hops) =
        IF i < 0 THEN i
        ELSE IF ~Exists(i) THEN ENOENT
        ELSE IF hop < 0 THEN hop
        ELSE IF hop # i /\ ~IsDir(hop) THEN ENOTDIR
        ELSE IF ~IsDir(i) THEN IF k < Len(p) THEN ENOTDIR ELSE hop
        ELSE IF Child(i, p[k]) = None THEN ENOENT
        ELSE Child(i, p[k])
  BY DEF Segment
<1>3. IsDir(i) => Child(i, p[k]) \in Int
  <2> SUFFICES ASSUME IsDir(i) PROVE Child(i, p[k]) \in Int
    OBVIOUS
  <2>1. i \in Ids /\ p[k] \in Names
    BY DEF IsDir, TypeOf
  <2> QED
    BY <2>1, ChildType
<1>4. ENOENT \in Int /\ ENOTDIR \in Int
  BY DEF ENOENT, ENOTDIR
<1> HIDE DEF hop
<1> QED
  BY <1>1, <1>2, <1>3, <1>4

\* The loop runs over the names of a path.
LEMMA Walking ==
  ASSUME Linked, NEW p \in Seq(Names), NEW follow \in BOOLEAN, NEW hops \in Hopping
  PROVE  /\ Walked(p, follow, hops) = Walk(p, follow, hops)[Len(p)]
         /\ Walk(p, follow, hops)[0] = Root
         /\ \A k \in 0 .. Len(p) : Walk(p, follow, hops)[k] \in Int
         /\ \A k \in 1 .. Len(p) :
              Walk(p, follow, hops)[k] = Segment(Walk(p, follow, hops)[k - 1], k, p, follow, hops)
<1> DEFINE n == Len(p)
<1> DEFINE W == Walk(p, follow, hops)
<1> DEFINE Seg(i, k) == Segment(i, k, p, follow, hops)
<1> DEFINE h == [k \in 1 .. n |-> [i \in Int |-> Seg(i, k)]]
<1> DEFINE Def(g) == [k \in 0 .. n |-> IF k = 0 THEN Root ELSE Seg(g[k - 1], k)]
<1>1. n \in Nat /\ Root \in Int
  BY DEF Root
<1>2. \A k \in 1 .. n : \A i \in Int : Seg(i, k) \in Int
  BY SegmentType
<1>3. W = CHOOSE g : g = Def(g)
  BY DEF Walk
<1>4. Walked(p, follow, hops) = W[n]
  BY RecursionsAre
<1> HIDE DEF n, W, Seg
<1>5. h \in [1 .. n -> [Int -> Int]]
  BY <1>2
<1>6. PICK f : RunsOn(f, n, Int, Root, h)
  <2> HIDE DEF h
  <2> QED
    BY <1>1, <1>5, RunningOn
<1>7. /\ f \in [0 .. n -> Int] /\ f[0] = Root
      /\ \A k \in 1 .. n : f[k] = Seg(f[k - 1], k)
  <2>1. f \in [0 .. n -> Int] /\ f[0] = Root /\ \A k \in 1 .. n : f[k] = h[k][f[k - 1]]
    BY <1>6 DEF RunsOn
  <2>2. ASSUME NEW k \in 1 .. n PROVE f[k] = Seg(f[k - 1], k)
    <3>1. k - 1 \in 0 .. n
      BY <1>1
    <3>2. f[k - 1] \in Int
      BY <2>1, <3>1
    <3> QED
      BY <2>1, <3>2
  <2> QED
    BY <2>1, <2>2
<1>8. f = Def(f)
  BY <1>1, <1>7
<1>9. W = Def(W)
  <2> HIDE DEF Def
  <2> QED
    BY <1>3, <1>8
<1>10. W[0] = Root /\ \A k \in 1 .. n : W[k] = Seg(W[k - 1], k)
  BY <1>1, <1>9
<1> DEFINE P == {k \in 0 .. n : W[k] \in Int}
<1>11. 0 \in P
  <2>1. 0 \in 0 .. n
    BY <1>1
  <2> QED
    BY <1>1, <1>10, <2>1
<1>12. ASSUME NEW k \in 1 .. n, k - 1 \in P PROVE k \in P
  <2>1. W[k - 1] \in Int /\ k \in 0 .. n
    BY <1>1, <1>12
  <2> QED
    BY <1>2, <1>10, <2>1
<1>13. \A k \in 0 .. n : k \in P
  <2> HIDE DEF P
  <2> QED
    BY <1>1, <1>11, <1>12, CountingUp
<1> QED
  BY <1>4, <1>10, <1>13 DEF n, W, Seg

\* What the whole loop ends in.
LEMMA EndedType ==
  ASSUME Linked, NEW p \in Seq(Names), NEW follow \in BOOLEAN, NEW hops \in Hopping
  PROVE  Ended(Walked(p, follow, hops), p, follow, hops) \in Int
<1> DEFINE i == Walked(p, follow, hops)
<1>1. i \in Int
  <2>1. Len(p) \in 0 .. Len(p)
    OBVIOUS
  <2> QED
    BY <2>1, Walking
<1> HIDE DEF i
<1>2. CASE follow /\ TypeOf(i) = "symlink"
  <2>1. inodes[i].target \in Targets
    BY <1>2 DEF Linked, TypeOf
  <2>2. LinkBase(p) \in Seq(Names)
    BY ParentType DEF LinkBase
  <2>3. Jump(LinkBase(p), inodes[i].target) \in Seq(Names)
    BY <2>1, <2>2, JumpType
  <2>4. Ended(i, p, follow, hops) = hops[Jump(LinkBase(p), inodes[i].target)]
    BY <1>2, Zenon DEF Ended
  <2> QED
    BY <2>3, <2>4 DEF Hopping, i
<1>3. CASE ~ (follow /\ TypeOf(i) = "symlink")
  <2>1. Ended(i, p, follow, hops) = i
    BY <1>3, Zenon DEF Ended
  <2> QED
    BY <1>1, <2>1 DEF i
<1> QED
  BY <1>2, <1>3

\* resolvePath, depth by depth.
LEMMA Resolving ==
  ASSUME Linked
  PROVE  /\ \A d \in Nat : Hops[d] \in Hopping
         /\ \A d \in Nat, p \in Seq(Names) :
              Hops[d][p] = IF d > MaxSymlinkDepth THEN ENOENT
                           ELSE Ended(Walked(p, TRUE, Hops[d + 1]), p, TRUE, Hops[d + 1])
<1> DEFINE Value(d, t, p) == IF d > MaxSymlinkDepth THEN ENOENT
                             ELSE Ended(Walked(p, TRUE, t), p, TRUE, t)
<1> DEFINE h == [d \in Nat |-> [t \in Hopping |-> [p \in Seq(Names) |-> Value(d, t, p)]]]
<1> DEFINE Def(R) == [d \in Nat |-> [p \in Seq(Names) |-> Value(d, R[d + 1], p)]]
<1>1. MaxSymlinkDepth \in Nat /\ ENOENT \in Int
  BY VFSAssumption DEF ENOENT
<1>2. \A d \in Nat, t \in Hopping, p \in Seq(Names) : Value(d, t, p) \in Int
  BY <1>1, EndedType
<1>3. \A d \in Nat, t \in Hopping, u \in Hopping, p \in Seq(Names) :
        d > MaxSymlinkDepth => Value(d, t, p) = ENOENT
  OBVIOUS
<1>4. Hops = CHOOSE R : R = Def(R)
  BY DEF Hops
<1> HIDE DEF Value
<1>5. [p \in Seq(Names) |-> ENOENT] \in Hopping
  BY <1>1 DEF Hopping
<1>6. h \in [Nat -> [Hopping -> Hopping]]
  <2>1. \A d \in Nat, t \in Hopping : [p \in Seq(Names) |-> Value(d, t, p)] \in Hopping
    BY <1>2 DEF Hopping
  <2> HIDE DEF Hopping
  <2> QED
    BY <2>1
<1> DEFINE none == [p \in Seq(Names) |-> ENOENT]
<1>7. \A d \in Nat : d > MaxSymlinkDepth => \A t \in Hopping : h[d][t] = h[d][none]
  <2> SUFFICES ASSUME NEW d \in Nat, d > MaxSymlinkDepth, NEW t \in Hopping
               PROVE  h[d][t] = h[d][none]
    OBVIOUS
  <2>1. h[d][t] = [p \in Seq(Names) |-> Value(d, t, p)]
    OBVIOUS
  <2>2. h[d][none] = [p \in Seq(Names) |-> Value(d, none, p)]
    BY <1>5
  <2>3. \A p \in Seq(Names) : Value(d, t, p) = ENOENT /\ Value(d, none, p) = ENOENT
    BY <1>3, <1>5
  <2> HIDE DEF h, none
  <2> QED
    BY <2>1, <2>2, <2>3
<1>8. PICK F : GoesDeeper(F, Hopping, h)
  <2>1. none \in Hopping
    BY <1>5
  <2> HIDE DEF h, none
  <2> QED
    BY <1>1, <1>6, <1>7, <2>1, GoingDeeper
<1>9. F \in [Nat -> Hopping] /\ \A d \in Nat : F[d] = h[d][F[d + 1]]
  BY <1>8 DEF GoesDeeper
<1>10. F = Def(F)
  <2>1. \A d \in Nat : F[d] = [p \in Seq(Names) |-> Value(d, F[d + 1], p)]
    <3> SUFFICES ASSUME NEW d \in Nat PROVE F[d] = [p \in Seq(Names) |-> Value(d, F[d + 1], p)]
      OBVIOUS
    <3>1. d + 1 \in Nat
      OBVIOUS
    <3>2. F[d + 1] \in Hopping
      BY <1>9, <3>1
    <3> QED
      BY <1>9, <3>2
  <2>2. F = [d \in Nat |-> F[d]]
    BY <1>9
  <2> QED
    BY <2>1, <2>2
<1>11. Hops = Def(Hops)
  <2> HIDE DEF Def
  <2> QED
    BY <1>4, <1>10
<1>12. \A d \in Nat : Hops[d] = [p \in Seq(Names) |-> Value(d, Hops[d + 1], p)]
  <2> DEFINE H == Hops
  <2> HIDE DEF H
  <2>1. H = Def(H)
    BY <1>11 DEF H
  <2>2. \A d \in Nat : H[d] = [p \in Seq(Names) |-> Value(d, H[d + 1], p)]
    BY <2>1
  <2> QED
    BY <2>2 DEF H
<1> DEFINE top == MaxSymlinkDepth + 1
<1>13. \A d \in Nat : d >= top => Hops[d] \in Hopping
  <2> SUFFICES ASSUME NEW d \in Nat, d > MaxSymlinkDepth PROVE Hops[d] \in Hopping
    BY <1>1
  <2>1. \A p \in Seq(Names) : Value(d, Hops[d + 1], p) = ENOENT
    BY DEF Value
  <2>2. Hops[d] = none
    BY <1>12, <2>1
  <2> QED
    BY <1>5, <2>2
<1> DEFINE P == {k \in 0 .. top : Hops[top - k] \in Hopping}
<1>14. 0 \in P
  <2>1. top \in Nat /\ 0 \in 0 .. top /\ top - 0 = top
    BY <1>1
  <2> HIDE DEF top
  <2> QED
    BY <1>13, <2>1
<1>15. ASSUME NEW k \in 1 .. top, k - 1 \in P PROVE k \in P
  <2>1. k \in 0 .. top /\ top - k \in Nat /\ (top - k) + 1 = top - (k - 1)
    BY <1>1
  <2>2. Hops[(top - k) + 1] \in Hopping
    BY <1>15, <2>1
  <2>3. Hops[top - k] = [p \in Seq(Names) |-> Value(top - k, Hops[(top - k) + 1], p)]
    BY <1>12, <2>1
  <2>4. \A p \in Seq(Names) : Value(top - k, Hops[(top - k) + 1], p) \in Int
    BY <1>2, <2>1, <2>2
  <2>5. Hops[top - k] \in Hopping
    BY <2>3, <2>4 DEF Hopping
  <2> QED
    BY <2>1, <2>5
<1>16. \A k \in 0 .. top : k \in P
  <2>1. top \in Nat
    BY <1>1
  <2> HIDE DEF P, top
  <2> QED
    BY <1>14, <1>15, <2>1, CountingUp
<1>17. ASSUME NEW d \in Nat PROVE Hops[d] \in Hopping
  <2>1. CASE d >= top
    BY <1>13, <2>1
  <2>2. CASE ~ (d >= top)
    <3>1. top - d \in 0 .. top /\ top - (top - d) = d
      BY <1>1, <2>2
    <3>2. top - d \in P
      BY <1>16, <3>1
    <3> QED
      BY <3>1, <3>2
  <2> QED
    BY <2>1, <2>2
<1>18. ASSUME NEW d \in Nat, NEW p \in Seq(Names)
       PROVE  Hops[d][p] = Value(d, Hops[d + 1], p)
  BY <1>12
<1> QED
  BY <1>17, <1>18 DEF Value

\* From a directory the loop goes to the entry of the next name.
LEMMA SegmentOfDir ==
  ASSUME Linked, NEW p, NEW follow \in BOOLEAN, NEW hops, NEW k, NEW i, IsDir(i),
         Child(i, p[k]) # None
  PROVE  Segment(i, k, p, follow, hops) = Child(i, p[k])
<1> DEFINE hop == IF TypeOf(i) = "symlink" /\ follow
                  THEN hops[Jump(SubSeq(p, 1, k - 1), inodes[i].target)] ELSE i
<1>1. i \in Ids /\ Exists(i) /\ TypeOf(i) # "symlink"
  BY DEF IsDir, Exists, TypeOf
<1>2. hop = i
  BY <1>1
<1>3. ~ (i < 0)
  BY <1>1, VFSAssumption DEF Ids
<1>4. Segment(i, k, p, follow, hops) =
        IF i < 0 THEN i
        ELSE IF ~Exists(i) THEN ENOENT
        ELSE IF hop < 0 THEN hop
        ELSE IF hop # i /\ ~IsDir(hop) THEN ENOTDIR
        ELSE IF ~IsDir(i) THEN IF k < Len(p) THEN ENOTDIR ELSE hop
        ELSE IF Child(i, p[k]) = None THEN ENOENT
        ELSE Child(i, p[k])
  BY DEF Segment
<1> HIDE DEF hop
<1> QED
  BY <1>1, <1>2, <1>3, <1>4

\* As far as a path leads through directories, the loop follows it.
Along(c, m, p) ==
  /\ c \in [0 .. m -> Ids] /\ c[0] = Root
  /\ \A k \in 1 .. m : IsDir(c[k - 1]) /\ Child(c[k - 1], p[k]) = c[k]

LEMMA WalksAlong ==
  ASSUME Linked, NEW p \in Seq(Names), NEW follow \in BOOLEAN, NEW hops \in Hopping,
         NEW m \in 0 .. Len(p), NEW c, Along(c, m, p)
  PROVE  \A k \in 0 .. m : Walk(p, follow, hops)[k] = c[k]
<1> DEFINE W == Walk(p, follow, hops)
<1>1. W[0] = Root /\ \A k \in 1 .. Len(p) : W[k] = Segment(W[k - 1], k, p, follow, hops)
  BY Walking
<1> HIDE DEF W
<1>2. m \in Nat /\ None \notin Ids
  BY DEF None, Ids
<1> DEFINE P == {k \in 0 .. m : W[k] = c[k]}
<1>3. 0 \in P
  BY <1>1, <1>2 DEF Along
<1>4. ASSUME NEW k \in 1 .. m, k - 1 \in P PROVE k \in P
  <2>1. W[k - 1] = c[k - 1] /\ k \in 0 .. m /\ k \in 1 .. Len(p)
    BY <1>4
  <2>2. IsDir(c[k - 1]) /\ Child(c[k - 1], p[k]) = c[k] /\ c[k] \in Ids
    BY <2>1 DEF Along
  <2>3. Segment(c[k - 1], k, p, follow, hops) = c[k]
    BY <1>2, <2>2, SegmentOfDir
  <2> QED
    BY <1>1, <2>1, <2>3
<1>5. \A k \in 0 .. m : k \in P
  <2> HIDE DEF P
  <2> QED
    BY <1>2, <1>3, <1>4, CountingUp
<1> QED
  BY <1>5 DEF W

\* A path that leads to an inode is resolved to it, links followed or not, if
\* that is no link.
LEMMA LeadsResolves ==
  ASSUME Linked, NEW p \in Seq(Names), NEW i, Leads(p, i), NEW follow \in BOOLEAN,
         ~ (follow /\ TypeOf(i) = "symlink")
  PROVE  Resolve(p, follow) = i
<1>1. PICK c \in [0 .. Len(p) -> Ids] :
         /\ c[0] = Root /\ c[Len(p)] = i
         /\ \A k \in 1 .. Len(p) : IsDir(c[k - 1]) /\ Child(c[k - 1], p[k]) = c[k]
  BY DEF Leads
<1>2. Along(c, Len(p), p)
  BY <1>1 DEF Along
<1>3. Hops[1] \in Hopping
  BY Resolving
<1>4. Len(p) \in 0 .. Len(p)
  OBVIOUS
<1>5. Walk(p, follow, Hops[1])[Len(p)] = i
  BY <1>1, <1>2, <1>3, <1>4, WalksAlong
<1>6. Walked(p, follow, Hops[1]) = i
  BY <1>5, RecursionsAre
<1>7. Ended(i, p, follow, Hops[1]) = i
  BY Zenon DEF Ended
<1> QED
  BY <1>6, <1>7, RecursionsAre

\* One name more.
LEMMA LeadsOn ==
  ASSUME NEW p \in Seq(Names), NEW i, Leads(p, i), IsDir(i), NEW n \in Names,
         Child(i, n) \in Ids
  PROVE  Leads(Append(p, n), Child(i, n))
<1> DEFINE l == Len(p)
<1> DEFINE q == Append(p, n)
<1> DEFINE j == Child(i, n)
<1>1. PICK c \in [0 .. l -> Ids] :
         /\ c[0] = Root /\ c[l] = i
         /\ \A k \in 1 .. l : IsDir(c[k - 1]) /\ Child(c[k - 1], p[k]) = c[k]
  BY DEF Leads
<1>2. /\ l \in Nat /\ Len(q) = l + 1 /\ q[l + 1] = n
      /\ \A k \in 1 .. l : q[k] = p[k]
  OBVIOUS
<1>3. j \in Ids
  OBVIOUS
<1> DEFINE e == [k \in 0 .. l + 1 |-> IF k = l + 1 THEN j ELSE c[k]]
<1> HIDE DEF l, q, j
<1>4. e \in [0 .. Len(q) -> Ids] /\ e[0] = Root /\ e[Len(q)] = j
  BY <1>1, <1>2, <1>3
<1>5. ASSUME NEW k \in 1 .. Len(q) PROVE IsDir(e[k - 1]) /\ Child(e[k - 1], q[k]) = e[k]
  <2>1. CASE k = l + 1
    <3>1. e[k - 1] = i /\ e[k] = j /\ q[k] = n
      BY <1>1, <1>2, <2>1
    <3> QED
      BY <3>1 DEF j
  <2>2. CASE k # l + 1
    <3>1. k \in 1 .. l
      BY <1>2, <2>2
    <3>2. e[k - 1] = c[k - 1] /\ e[k] = c[k] /\ q[k] = p[k]
      BY <1>2, <3>1
    <3> QED
      BY <1>1, <3>1, <3>2
  <2> QED
    BY <2>1, <2>2
<1> HIDE DEF e
<1>6. Leads(q, j)
  BY <1>4, <1>5 DEF Leads
<1> QED
  BY <1>6 DEF q, j

\* Without links, only directories lead to a directory ...
NoLinks == \A i \in Ids : TypeOf(i) # "symlink"

LEMMA DirsLead ==
  ASSUME Linked, NoLinks, NEW p \in Seq(Names), IsDir(Resolve(p, TRUE))
  PROVE  Leads(p, Resolve(p, TRUE))
<1> DEFINE n == Len(p)
<1> DEFINE t == Hops[1]
<1> DEFINE W == Walk(p, TRUE, t)
<1>1. n \in Nat /\ t \in Hopping
  BY Resolving
<1>2. /\ Walked(p, TRUE, t) = W[n] /\ W[0] = Root /\ \A k \in 0 .. n : W[k] \in Int
      /\ \A k \in 1 .. n : W[k] = Segment(W[k - 1], k, p, TRUE, t)
  BY <1>1, Walking
<1>3. Resolve(p, TRUE) = Ended(Walked(p, TRUE, t), p, TRUE, t)
  BY RecursionsAre
<1>4. \A i : TypeOf(i) # "symlink"
  BY DEF NoLinks, TypeOf
<1> HIDE DEF W, t
<1>5. Resolve(p, TRUE) = W[n]
  BY <1>2, <1>3, <1>4, Zenon DEF Ended
\* ... the turn before a directory is at one ...
<1>6. ASSUME NEW k \in 1 .. n, IsDir(W[k])
      PROVE  IsDir(W[k - 1]) /\ Child(W[k - 1], p[k]) = W[k]
  <2> DEFINE i == W[k - 1]
  <2>1. W[k] = Segment(i, k, p, TRUE, t)
    BY <1>2
  <2> HIDE DEF i
  <2>2. Segment(i, k, p, TRUE, t) =
          IF i < 0 THEN i
          ELSE IF ~Exists(i) THEN ENOENT
          ELSE IF ~IsDir(i) THEN IF k < Len(p) THEN ENOTDIR ELSE i
          ELSE IF Child(i, p[k]) = None THEN ENOENT
          ELSE Child(i, p[k])
    <3>1. (IF TypeOf(i) = "symlink" /\ TRUE
           THEN t[Jump(SubSeq(p, 1, k - 1), inodes[i].target)] ELSE i) = i
      BY <1>4
    <3> QED
      BY <3>1 DEF Segment
  <2>3. ~IsDir(ENOENT) /\ ~IsDir(ENOTDIR) /\ (i < 0 => ~IsDir(i))
    BY VFSAssumption DEF IsDir, TypeOf, ENOENT, ENOTDIR, Ids
  <2>4. IsDir(i) /\ Child(i, p[k]) = W[k]
    BY <1>6, <2>1, <2>2, <2>3
  <2> QED
    BY <2>4 DEF i
\* ... so all turns are.
<1> DEFINE P == {k \in 0 .. n : IsDir(W[n - k])}
<1>7. 0 \in P
  <2>1. 0 \in 0 .. n /\ n - 0 = n
    BY <1>1
  <2>2. IsDir(W[n])
    BY <1>5
  <2> QED
    BY <2>1, <2>2
<1>8. ASSUME NEW k \in 1 .. n, k - 1 \in P PROVE k \in P
  <2>1. n - (k - 1) \in 1 .. n /\ (n - (k - 1)) - 1 = n - k /\ k \in 0 .. n
    BY <1>1
  <2>2. IsDir(W[n - (k - 1)])
    BY <1>8
  <2>3. IsDir(W[n - k])
    BY <1>6, <2>1, <2>2
  <2> QED
    BY <2>1, <2>3
<1>9. \A k \in 0 .. n : k \in P
  <2> HIDE DEF P, n
  <2> QED
    BY <1>1, <1>7, <1>8, CountingUp
<1>10. ASSUME NEW k \in 0 .. n PROVE IsDir(W[k])
  <2>1. n - k \in 0 .. n /\ n - (n - k) = k
    BY <1>1
  <2> QED
    BY <1>9, <2>1
<1> DEFINE c == [k \in 0 .. n |-> W[k]]
<1>11. c \in [0 .. n -> Ids] /\ c[0] = Root /\ c[n] = Resolve(p, TRUE)
  <2>1. \A k \in 0 .. n : W[k] \in Ids
    BY <1>10 DEF IsDir, TypeOf
  <2>2. 0 \in 0 .. n /\ n \in 0 .. n
    BY <1>1
  <2> HIDE DEF n
  <2> QED
    BY <1>2, <1>5, <2>1, <2>2
<1>12. ASSUME NEW k \in 1 .. n PROVE IsDir(c[k - 1]) /\ Child(c[k - 1], p[k]) = c[k]
  <2>1. k - 1 \in 0 .. n /\ k \in 0 .. n
    BY <1>1
  <2> QED
    BY <1>6, <1>10, <2>1
<1> HIDE DEF c
<1> QED
  BY <1>11, <1>12 DEF Leads

\* ... and what is not found below a directory has no entry there.
LEMMA MissesEntry ==
  ASSUME Linked, NoLinks, NEW p \in Seq(Names), p # << >>,
         Resolve(p, TRUE) = ENOENT, IsDir(ParentOf(p))
  PROVE  EntryOf(p) = None
<1> DEFINE n == Len(p)
<1> DEFINE q == Parent(p)
<1> DEFINE t == Hops[1]
<1> DEFINE W == Walk(p, TRUE, t)
<1>1. n \in Nat /\ n # 0 /\ n \in 1 .. n /\ n - 1 \in 0 .. n /\ t \in Hopping
  BY Resolving
<1>2. q \in Seq(Names) /\ Len(q) = n - 1 /\ \A k \in 1 .. n - 1 : q[k] = p[k]
  BY ParentType
<1>3. ParentOf(p) = Resolve(q, TRUE) /\ BaseOf(p) = p[n] /\ p[n] \in Names
  BY <1>1 DEF ParentOf, BaseOf
<1> HIDE DEF q
<1>4. Leads(q, ParentOf(p))
  BY <1>2, <1>3, DirsLead
<1>5. PICK c \in [0 .. Len(q) -> Ids] :
         /\ c[0] = Root /\ c[Len(q)] = ParentOf(p)
         /\ \A k \in 1 .. Len(q) : IsDir(c[k - 1]) /\ Child(c[k - 1], q[k]) = c[k]
  BY <1>4 DEF Leads
<1>6. Along(c, n - 1, p)
  BY <1>2, <1>5 DEF Along
<1>7. /\ Walked(p, TRUE, t) = W[n] /\ W[n] = Segment(W[n - 1], n, p, TRUE, t)
  BY <1>1, Walking
<1>8. W[n - 1] = ParentOf(p)
  <2>1. \A k \in 0 .. n - 1 : W[k] = c[k]
    BY <1>1, <1>6, WalksAlong
  <2>2. n - 1 \in 0 .. n - 1
    BY <1>1
  <2> QED
    BY <1>2, <1>5, <2>1, <2>2
<1>9. Resolve(p, TRUE) = Ended(Walked(p, TRUE, t), p, TRUE, t)
  BY RecursionsAre
<1> HIDE DEF W, t
<1>10. \A i : TypeOf(i) # "symlink"
  BY DEF NoLinks, TypeOf
<1>11. Resolve(p, TRUE) = W[n]
  BY <1>7, <1>9, <1>10, Zenon DEF Ended
<1>12. CASE Child(ParentOf(p), p[n]) # None
  <2>1. Segment(ParentOf(p), n, p, TRUE, t) = Child(ParentOf(p), p[n])
    BY <1>12, SegmentOfDir
  <2> QED
    BY <1>7, <1>8, <1>11, <1>12, <2>1 DEF ENOENT, None
<1>13. CASE Child(ParentOf(p), p[n]) = None
  BY <1>3, <1>13 DEF EntryOf
<1> QED
  BY <1>12, <1>13

-----------------------------------------------------------------------------
(***************************************************************************)
(* realpath.                                                               *)
(***************************************************************************)
RealWalk(p, hops) ==
  CHOOSE W : W = [k \in 0 .. Len(p) |->
                    IF k = 0 THEN AtRoot ELSE RealSegment(W[k - 1], p[k], hops)]
RealHops ==
  CHOOSE R : R = [d \in Nat |-> [p \in Seq(Names) |->
                    IF d > MaxSymlinkDepth THEN Failed ELSE RealWalked(p, R[d + 1])]]

LEMMA RealRecursionsAre ==
  /\ \A p, hops : RealWalked(p, hops) = RealWalk(p, hops)[Len(p)]
  /\ \A p : Realpath(p) = RealHops[0][p]
BY DEF RealWalked, RealWalk, Realpath, RealHops

\* What realpath may return: an error, or a path without links and its inode.
Reals == {r \in [path : Seq(Names), id : Int] :
            r.id >= 0 => Leads(r.path, r.id) /\ TypeOf(r.id) # "symlink"}
RealHopping == [Seq(Names) -> Reals]

\* It starts from one and can end with an error.
LEMMA RealEnds ==
  ASSUME Linked
  PROVE  AtRoot \in Reals /\ Failed \in Reals
<1>1. Leads(<< >>, Root)
  <2> DEFINE c == [k \in 0 .. 0 |-> Root]
  <2>1. Root \in Ids
    BY VFSAssumption DEF Root, Ids
  <2>2. c \in [0 .. 0 -> Ids] /\ c[0] = Root /\ Len(<< >>) = 0
    BY <2>1
  <2>3. \A k \in 1 .. 0 : IsDir(c[k - 1]) /\ Child(c[k - 1], << >>[k]) = c[k]
    OBVIOUS
  <2> HIDE DEF c
  <2> QED
    BY <2>2, <2>3 DEF Leads
<1>2. TypeOf(Root) # "symlink"
  BY DEF Linked
<1>3. << >> \in Seq(Names) /\ Root \in Int /\ ENOENT \in Int /\ ~ (ENOENT >= 0)
  BY DEF Root, ENOENT
<1>4. /\ AtRoot \in [path : Seq(Names), id : Int] /\ AtRoot.path = << >> /\ AtRoot.id = Root
      /\ Failed \in [path : Seq(Names), id : Int] /\ Failed.id = ENOENT
  BY <1>3 DEF AtRoot, Failed
<1>5. AtRoot \in Reals
  BY <1>1, <1>2, <1>4, Zenon DEF Reals
<1>6. Failed \in Reals
  BY <1>3, <1>4 DEF Reals
<1> QED
  BY <1>5, <1>6

\* A turn of its loop keeps to directories, and goes on from where a link leads.
LEMMA RealSegmentType ==
  ASSUME Linked, NEW w \in Reals, NEW name \in Names, NEW hops \in RealHopping
  PROVE  RealSegment(w, name, hops) \in Reals
<1> DEFINE child == Child(w.id, name)
<1> DEFINE q == Jump(w.path, inodes[child].target)
<1> DEFINE r == hops[q]
<1>1. w.path \in Seq(Names) /\ w.id \in Int
      /\ (w.id >= 0 => Leads(w.path, w.id) /\ TypeOf(w.id) # "symlink")
  BY DEF Reals
<1>2. Failed \in Reals
  BY RealEnds
<1>3. CASE w.id < 0 \/ ~IsDir(w.id) \/ ~Exists(child)
  <2>1. RealSegment(w, name, hops) = Failed
    BY <1>3 DEF RealSegment
  <2> QED
    BY <1>2, <2>1
<1>4. CASE ~ (w.id < 0 \/ ~IsDir(w.id)) /\ Exists(child)
  <2>1. w.id >= 0 /\ IsDir(w.id) /\ child \in Ids
    BY <1>1, <1>4 DEF Exists, TypeOf
  <2>2. child \in Int
    BY <2>1 DEF Ids
  <2>3. CASE TypeOf(child) # "symlink"
    <3>1. RealSegment(w, name, hops) = [path |-> Append(w.path, name), id |-> child]
      BY <1>4, <2>3 DEF RealSegment
    <3>2. Leads(Append(w.path, name), child)
      BY <1>1, <2>1, LeadsOn
    <3>3. Append(w.path, name) \in Seq(Names)
      BY <1>1
    <3> DEFINE x == [path |-> Append(w.path, name), id |-> child]
    <3> HIDE DEF child
    <3>4. x \in [path : Seq(Names), id : Int] /\ x.path = Append(w.path, name) /\ x.id = child
      BY <2>2, <3>3
    <3> HIDE DEF x
    <3>5. x \in Reals
      BY <2>3, <3>2, <3>4, Zenon DEF Reals
    <3> QED
      BY <3>1, <3>5 DEF x
  <2>4. CASE TypeOf(child) = "symlink"
    <3>1. inodes[child].target \in Targets
      BY <2>1, <2>4 DEF Linked
    <3>2. q \in Seq(Names)
      BY <1>1, <3>1, JumpType
    <3>3. r \in Reals
      <4> HIDE DEF q
      <4> QED
        BY <3>2 DEF RealHopping
    <3>4. RealSegment(w, name, hops) = IF r.id < 0 THEN Failed ELSE OnFrom(w.path, name, r.path)
      BY <1>4, <2>4 DEF RealSegment
    <3> HIDE DEF r
    <3>5. r.path \in Seq(Names) /\ r.id \in Int
          /\ (r.id >= 0 => Leads(r.path, r.id) /\ TypeOf(r.id) # "symlink")
      BY <3>3 DEF Reals
    <3>6. CASE r.id < 0
      BY <1>2, <3>4, <3>6
    <3>7. CASE ~ (r.id < 0)
      <4>1. Leads(r.path, r.id) /\ TypeOf(r.id) # "symlink"
        BY <3>5, <3>7
      <4>2. Resolve(r.path, TRUE) = r.id
        BY <3>5, <4>1, LeadsResolves
      <4>3. OnFrom(w.path, name, r.path) = r
        BY <3>3, <4>2 DEF OnFrom, Reals
      <4> QED
        BY <3>3, <3>4, <3>7, <4>3
    <3> QED
      BY <3>6, <3>7
  <2> QED
    BY <2>3, <2>4
<1> QED
  BY <1>3, <1>4

\* So its loop runs over results.
LEMMA RealWalking ==
  ASSUME Linked, NEW p \in Seq(Names), NEW hops \in RealHopping
  PROVE  /\ RealWalked(p, hops) = RealWalk(p, hops)[Len(p)]
         /\ RealWalk(p, hops)[0] = AtRoot
         /\ \A k \in 0 .. Len(p) : RealWalk(p, hops)[k] \in Reals
         /\ \A k \in 1 .. Len(p) :
              RealWalk(p, hops)[k] = RealSegment(RealWalk(p, hops)[k - 1], p[k], hops)
<1> DEFINE n == Len(p)
<1> DEFINE W == RealWalk(p, hops)
<1> DEFINE Seg(w, k) == RealSegment(w, p[k], hops)
<1> DEFINE h == [k \in 1 .. n |-> [w \in Reals |-> Seg(w, k)]]
<1> DEFINE Def(g) == [k \in 0 .. n |-> IF k = 0 THEN AtRoot ELSE Seg(g[k - 1], k)]
<1>1. n \in Nat /\ AtRoot \in Reals
  BY RealEnds
<1>2. \A k \in 1 .. n : \A w \in Reals : Seg(w, k) \in Reals
  <2> SUFFICES ASSUME NEW k \in 1 .. n, NEW w \in Reals PROVE Seg(w, k) \in Reals
    OBVIOUS
  <2>1. p[k] \in Names
    OBVIOUS
  <2> QED
    BY <2>1, RealSegmentType
<1>3. W = CHOOSE g : g = Def(g)
  BY DEF RealWalk
<1>4. RealWalked(p, hops) = W[n]
  BY RealRecursionsAre
<1> HIDE DEF n, W, Seg
<1>5. h \in [1 .. n -> [Reals -> Reals]]
  BY <1>2
<1>6. PICK f : RunsOn(f, n, Reals, AtRoot, h)
  <2> HIDE DEF h
  <2> QED
    BY <1>1, <1>5, RunningOn
<1>7. /\ f \in [0 .. n -> Reals] /\ f[0] = AtRoot
      /\ \A k \in 1 .. n : f[k] = Seg(f[k - 1], k)
  <2>1. f \in [0 .. n -> Reals] /\ f[0] = AtRoot /\ \A k \in 1 .. n : f[k] = h[k][f[k - 1]]
    BY <1>6 DEF RunsOn
  <2>2. ASSUME NEW k \in 1 .. n PROVE f[k] = Seg(f[k - 1], k)
    <3>1. k - 1 \in 0 .. n
      BY <1>1
    <3>2. f[k - 1] \in Reals
      BY <2>1, <3>1
    <3> QED
      BY <2>1, <3>2
  <2> QED
    BY <2>1, <2>2
<1>8. f = Def(f)
  BY <1>1, <1>7
<1>9. W = Def(W)
  <2> HIDE DEF Def
  <2> QED
    BY <1>3, <1>8
<1>10. W[0] = AtRoot /\ \A k \in 1 .. n : W[k] = Seg(W[k - 1], k)
  BY <1>1, <1>9
<1> DEFINE P == {k \in 0 .. n : W[k] \in Reals}
<1>11. 0 \in P
  <2>1. 0 \in 0 .. n
    BY <1>1
  <2> QED
    BY <1>1, <1>10, <2>1
<1>12. ASSUME NEW k \in 1 .. n, k - 1 \in P PROVE k \in P
  <2>1. W[k - 1] \in Reals /\ k \in 0 .. n
    BY <1>1, <1>12
  <2> QED
    BY <1>2, <1>10, <2>1
<1>13. \A k \in 0 .. n : k \in P
  <2> HIDE DEF P
  <2> QED
    BY <1>1, <1>11, <1>12, CountingUp
<1> QED
  BY <1>4, <1>10, <1>13 DEF n, W, Seg

\* realpath, depth by depth.
LEMMA RealResolving ==
  ASSUME Linked
  PROVE  /\ \A d \in Nat : RealHops[d] \in RealHopping
         /\ \A d \in Nat, p \in Seq(Names) :
              RealHops[d][p] = IF d > MaxSymlinkDepth THEN Failed
                           ELSE RealWalked(p, RealHops[d + 1])
<1> DEFINE Value(d, t, p) == IF d > MaxSymlinkDepth THEN Failed
                             ELSE RealWalked(p, t)
<1> DEFINE h == [d \in Nat |-> [t \in RealHopping |-> [p \in Seq(Names) |-> Value(d, t, p)]]]
<1> DEFINE Def(R) == [d \in Nat |-> [p \in Seq(Names) |-> Value(d, R[d + 1], p)]]
<1>1. MaxSymlinkDepth \in Nat /\ Failed \in Reals
  BY VFSAssumption, RealEnds
<1>2. \A d \in Nat, t \in RealHopping, p \in Seq(Names) : Value(d, t, p) \in Reals
  <2> SUFFICES ASSUME NEW d \in Nat, NEW t \in RealHopping, NEW p \in Seq(Names)
               PROVE  Value(d, t, p) \in Reals
    OBVIOUS
  <2>1. Len(p) \in 0 .. Len(p)
    OBVIOUS
  <2>2. RealWalked(p, t) \in Reals
    BY <2>1, RealWalking
  <2> QED
    BY <1>1, <2>2
<1>3. \A d \in Nat, t \in RealHopping, u \in RealHopping, p \in Seq(Names) :
        d > MaxSymlinkDepth => Value(d, t, p) = Failed
  OBVIOUS
<1>4. RealHops = CHOOSE R : R = Def(R)
  BY DEF RealHops
<1> HIDE DEF Value
<1>5. [p \in Seq(Names) |-> Failed] \in RealHopping
  BY <1>1 DEF RealHopping
<1>6. h \in [Nat -> [RealHopping -> RealHopping]]
  <2>1. \A d \in Nat, t \in RealHopping : [p \in Seq(Names) |-> Value(d, t, p)] \in RealHopping
    BY <1>2 DEF RealHopping
  <2> HIDE DEF RealHopping
  <2> QED
    BY <2>1
<1> DEFINE none == [p \in Seq(Names) |-> Failed]
<1>7. \A d \in Nat : d > MaxSymlinkDepth => \A t \in RealHopping : h[d][t] = h[d][none]
  <2> SUFFICES ASSUME NEW d \in Nat, d > MaxSymlinkDepth, NEW t \in RealHopping
               PROVE  h[d][t] = h[d][none]
    OBVIOUS
  <2>1. h[d][t] = [p \in Seq(Names) |-> Value(d, t, p)]
    OBVIOUS
  <2>2. h[d][none] = [p \in Seq(Names) |-> Value(d, none, p)]
    BY <1>5
  <2>3. \A p \in Seq(Names) : Value(d, t, p) = Failed /\ Value(d, none, p) = Failed
    BY <1>3, <1>5
  <2> HIDE DEF h, none
  <2> QED
    BY <2>1, <2>2, <2>3
<1>8. PICK F : GoesDeeper(F, RealHopping, h)
  <2>1. none \in RealHopping
    BY <1>5
  <2> HIDE DEF h, none
  <2> QED
    BY <1>1, <1>6, <1>7, <2>1, GoingDeeper
<1>9. F \in [Nat -> RealHopping] /\ \A d \in Nat : F[d] = h[d][F[d + 1]]
  BY <1>8 DEF GoesDeeper
<1>10. F = Def(F)
  <2>1. \A d \in Nat : F[d] = [p \in Seq(Names) |-> Value(d, F[d + 1], p)]
    <3> SUFFICES ASSUME NEW d \in Nat PROVE F[d] = [p \in Seq(Names) |-> Value(d, F[d + 1], p)]
      OBVIOUS
    <3>1. d + 1 \in Nat
      OBVIOUS
    <3>2. F[d + 1] \in RealHopping
      BY <1>9, <3>1
    <3> QED
      BY <1>9, <3>2
  <2>2. F = [d \in Nat |-> F[d]]
    BY <1>9
  <2> QED
    BY <2>1, <2>2
<1>11. RealHops = Def(RealHops)
  <2> HIDE DEF Def
  <2> QED
    BY <1>4, <1>10
<1>12. \A d \in Nat : RealHops[d] = [p \in Seq(Names) |-> Value(d, RealHops[d + 1], p)]
  <2> DEFINE H == RealHops
  <2> HIDE DEF H
  <2>1. H = Def(H)
    BY <1>11 DEF H
  <2>2. \A d \in Nat : H[d] = [p \in Seq(Names) |-> Value(d, H[d + 1], p)]
    BY <2>1
  <2> QED
    BY <2>2 DEF H
<1> DEFINE top == MaxSymlinkDepth + 1
<1>13. \A d \in Nat : d >= top => RealHops[d] \in RealHopping
  <2> SUFFICES ASSUME NEW d \in Nat, d > MaxSymlinkDepth PROVE RealHops[d] \in RealHopping
    BY <1>1
  <2>1. \A p \in Seq(Names) : Value(d, RealHops[d + 1], p) = Failed
    BY DEF Value
  <2>2. RealHops[d] = none
    BY <1>12, <2>1
  <2> QED
    BY <1>5, <2>2
<1> DEFINE P == {k \in 0 .. top : RealHops[top - k] \in RealHopping}
<1>14. 0 \in P
  <2>1. top \in Nat /\ 0 \in 0 .. top /\ top - 0 = top
    BY <1>1
  <2> HIDE DEF top
  <2> QED
    BY <1>13, <2>1
<1>15. ASSUME NEW k \in 1 .. top, k - 1 \in P PROVE k \in P
  <2>1. k \in 0 .. top /\ top - k \in Nat /\ (top - k) + 1 = top - (k - 1)
    BY <1>1
  <2>2. RealHops[(top - k) + 1] \in RealHopping
    BY <1>15, <2>1
  <2>3. RealHops[top - k] = [p \in Seq(Names) |-> Value(top - k, RealHops[(top - k) + 1], p)]
    BY <1>12, <2>1
  <2>4. \A p \in Seq(Names) : Value(top - k, RealHops[(top - k) + 1], p) \in Reals
    BY <1>2, <2>1, <2>2
  <2>5. RealHops[top - k] \in RealHopping
    BY <2>3, <2>4 DEF RealHopping
  <2> QED
    BY <2>1, <2>5
<1>16. \A k \in 0 .. top : k \in P
  <2>1. top \in Nat
    BY <1>1
  <2> HIDE DEF P, top
  <2> QED
    BY <1>14, <1>15, <2>1, CountingUp
<1>17. ASSUME NEW d \in Nat PROVE RealHops[d] \in RealHopping
  <2>1. CASE d >= top
    BY <1>13, <2>1
  <2>2. CASE ~ (d >= top)
    <3>1. top - d \in 0 .. top /\ top - (top - d) = d
      BY <1>1, <2>2
    <3>2. top - d \in P
      BY <1>16, <3>1
    <3> QED
      BY <3>1, <3>2
  <2> QED
    BY <2>1, <2>2
<1>18. ASSUME NEW d \in Nat, NEW p \in Seq(Names)
       PROVE  RealHops[d][p] = Value(d, RealHops[d + 1], p)
  BY <1>12
<1> QED
  BY <1>17, <1>18 DEF Value

\* A path that leads to a link is resolved to what the link stands for.
LEMMA FollowsLink ==
  ASSUME Linked, NEW p \in Seq(Names), NEW i, Leads(p, i), TypeOf(i) = "symlink",
         NEW hops \in Hopping
  PROVE  Ended(Walked(p, TRUE, hops), p, TRUE, hops) = hops[Jump(Parent(p), inodes[i].target)]
<1>1. PICK c \in [0 .. Len(p) -> Ids] :
         /\ c[0] = Root /\ c[Len(p)] = i
         /\ \A k \in 1 .. Len(p) : IsDir(c[k - 1]) /\ Child(c[k - 1], p[k]) = c[k]
  BY DEF Leads
<1>2. Along(c, Len(p), p)
  BY <1>1 DEF Along
<1>3. Len(p) \in 0 .. Len(p) /\ TRUE \in BOOLEAN
  OBVIOUS
<1>4. Walk(p, TRUE, hops)[Len(p)] = i
  BY <1>1, <1>2, <1>3, WalksAlong
<1>5. Walked(p, TRUE, hops) = i
  BY <1>4, RecursionsAre
<1> QED
  BY <1>5, Zenon DEF Ended, LinkBase

\* A turn of the loop of realpath that does not fail.
LEMMA RealSegmentOf ==
  ASSUME Linked, NEW w \in Reals, NEW name \in Names, NEW hops \in RealHopping,
         RealSegment(w, name, hops).id >= 0
  PROVE  /\ w.id \in Ids /\ IsDir(w.id) /\ Leads(w.path, w.id) /\ w.path \in Seq(Names)
         /\ Child(w.id, name) \in Ids
         /\ TypeOf(Child(w.id, name)) # "symlink" =>
              RealSegment(w, name, hops) = [path |-> Append(w.path, name), id |-> Child(w.id, name)]
         /\ TypeOf(Child(w.id, name)) = "symlink" =>
              RealSegment(w, name, hops) = hops[Jump(w.path, inodes[Child(w.id, name)].target)]
<1> DEFINE child == Child(w.id, name)
<1> DEFINE q == Jump(w.path, inodes[child].target)
<1> DEFINE r == hops[q]
<1>1. w.path \in Seq(Names) /\ w.id \in Int
      /\ (w.id >= 0 => Leads(w.path, w.id) /\ TypeOf(w.id) # "symlink")
  BY DEF Reals
<1>2. ~ (Failed.id >= 0)
  BY DEF Failed, ENOENT
<1>3. ~ (w.id < 0 \/ ~IsDir(w.id) \/ ~Exists(child))
  <2> SUFFICES ASSUME w.id < 0 \/ ~IsDir(w.id) \/ ~Exists(child) PROVE FALSE
    OBVIOUS
  <2>1. RealSegment(w, name, hops) = Failed
    BY DEF RealSegment
  <2> QED
    BY <1>2, <2>1
<1>4. w.id >= 0 /\ IsDir(w.id) /\ w.id \in Ids /\ child \in Ids
  BY <1>1, <1>3 DEF Exists, IsDir, TypeOf
<1>5. ASSUME TypeOf(child) # "symlink"
      PROVE  RealSegment(w, name, hops) = [path |-> Append(w.path, name), id |-> child]
  BY <1>3, <1>5 DEF RealSegment
<1>6. ASSUME TypeOf(child) = "symlink"
      PROVE  RealSegment(w, name, hops) = r
  <2>1. inodes[child].target \in Targets
    BY <1>4, <1>6 DEF Linked
  <2>2. q \in Seq(Names)
    BY <1>1, <2>1, JumpType
  <2>3. r \in Reals
    <3> HIDE DEF q
    <3> QED
      BY <2>2 DEF RealHopping
  <2>4. RealSegment(w, name, hops) = IF r.id < 0 THEN Failed ELSE OnFrom(w.path, name, r.path)
    BY <1>3, <1>6 DEF RealSegment
  <2> HIDE DEF r
  <2>5. r.path \in Seq(Names) /\ r.id \in Int
        /\ (r.id >= 0 => Leads(r.path, r.id) /\ TypeOf(r.id) # "symlink")
    BY <2>3 DEF Reals
  <2>6. ~ (r.id < 0)
    BY <1>2, <2>4
  <2>7. Leads(r.path, r.id) /\ TypeOf(r.id) # "symlink"
    BY <2>5, <2>6
  <2>8. Resolve(r.path, TRUE) = r.id
    BY <2>5, <2>7, LeadsResolves
  <2>9. OnFrom(w.path, name, r.path) = r
    BY <2>3, <2>8 DEF OnFrom, Reals
  <2> QED
    BY <2>4, <2>6, <2>9
<1> QED
  BY <1>1, <1>4, <1>5, <1>6

-----------------------------------------------------------------------------
(***************************************************************************)
(* The two agree.                                                          *)
(***************************************************************************)
\* Where paths resolve to the same one link deeper, unless to an error ...
Shallower(t, u) == \A q \in Seq(Names) : u[q] >= 0 => t[q] = u[q]

\* ... a turn of the loop ends in the same ...
LEMMA ShallowSegment ==
  ASSUME Linked, NEW t \in Hopping, NEW u \in Hopping, Shallower(t, u),
         NEW p \in Seq(Names), NEW follow \in BOOLEAN, NEW k \in 1 .. Len(p), NEW i \in Int,
         Segment(i, k, p, follow, u) >= 0
  PROVE  i >= 0 /\ Segment(i, k, p, follow, t) = Segment(i, k, p, follow, u)
<1> DEFINE q == Jump(SubSeq(p, 1, k - 1), inodes[i].target)
<1> DEFINE ht == IF TypeOf(i) = "symlink" /\ follow THEN t[q] ELSE i
<1> DEFINE hu == IF TypeOf(i) = "symlink" /\ follow THEN u[q] ELSE i
<1> DEFINE Rest(hop) ==
      IF hop # i /\ ~IsDir(hop) THEN ENOTDIR
      ELSE IF ~IsDir(i) THEN IF k < Len(p) THEN ENOTDIR ELSE hop
      ELSE IF Child(i, p[k]) = None THEN ENOENT
      ELSE Child(i, p[k])
<1>1. /\ Segment(i, k, p, follow, t) =
           IF i < 0 THEN i ELSE IF ~Exists(i) THEN ENOENT ELSE IF ht < 0 THEN ht ELSE Rest(ht)
      /\ Segment(i, k, p, follow, u) =
           IF i < 0 THEN i ELSE IF ~Exists(i) THEN ENOENT ELSE IF hu < 0 THEN hu ELSE Rest(hu)
  BY DEF Segment
<1>2. ~ (ENOENT >= 0)
  BY DEF ENOENT
<1>3. TypeOf(i) = "symlink" /\ follow => q \in Seq(Names)
  <2> SUFFICES ASSUME TypeOf(i) = "symlink" PROVE q \in Seq(Names)
    OBVIOUS
  <2>1. inodes[i].target \in Targets
    BY DEF Linked, TypeOf
  <2>2. SubSeq(p, 1, k - 1) \in Seq(Names)
    <3>1. k - 1 \in Int /\ \A j \in 1 .. k - 1 : p[j] \in Names
      OBVIOUS
    <3> QED
      BY <3>1, SubSeqProperties
  <2> QED
    BY <2>1, <2>2, JumpType
<1> HIDE DEF q, Rest
<1>4. hu \in Int /\ (hu >= 0 => ht = hu)
  <2>1. CASE TypeOf(i) = "symlink" /\ follow
    <3>1. u[q] \in Int /\ (u[q] >= 0 => t[q] = u[q])
      BY <1>3, <2>1 DEF Hopping, Shallower
    <3> QED
      BY <2>1, <3>1
  <2>2. CASE ~ (TypeOf(i) = "symlink" /\ follow)
    BY <2>2
  <2> QED
    BY <2>1, <2>2
<1> HIDE DEF ht, hu
<1>5. i >= 0 /\ Exists(i) /\ hu >= 0
  BY <1>1, <1>2, <1>4
<1> QED
  BY <1>1, <1>4, <1>5

\* ... and so does the whole of it.
LEMMA ShallowEnd ==
  ASSUME Linked, NEW t \in Hopping, NEW u \in Hopping, Shallower(t, u),
         NEW p \in Seq(Names), Ended(Walked(p, TRUE, u), p, TRUE, u) >= 0
  PROVE  Ended(Walked(p, TRUE, t), p, TRUE, t) = Ended(Walked(p, TRUE, u), p, TRUE, u)
<1> DEFINE n == Len(p)
<1> DEFINE T == Walk(p, TRUE, t)
<1> DEFINE U == Walk(p, TRUE, u)
<1>1. /\ Walked(p, TRUE, t) = T[n] /\ Walked(p, TRUE, u) = U[n]
      /\ T[0] = Root /\ U[0] = Root /\ \A k \in 0 .. n : U[k] \in Int
      /\ \A k \in 1 .. n : /\ T[k] = Segment(T[k - 1], k, p, TRUE, t)
                           /\ U[k] = Segment(U[k - 1], k, p, TRUE, u)
  BY Walking
<1>2. n \in Nat
  OBVIOUS
<1> HIDE DEF T, U
<1> DEFINE P == {k \in 0 .. n : U[k] >= 0 => T[k] = U[k]}
<1>3. 0 \in P
  BY <1>1, <1>2
<1>4. ASSUME NEW k \in 1 .. n, k - 1 \in P PROVE k \in P
  <2>1. k - 1 \in 0 .. n /\ k \in 0 .. n
    OBVIOUS
  <2>2. U[k - 1] \in Int /\ (U[k - 1] >= 0 => T[k - 1] = U[k - 1])
    BY <1>1, <1>4, <2>1
  <2>3. ASSUME U[k] >= 0 PROVE T[k] = U[k]
    <3>1. /\ U[k - 1] >= 0
          /\ Segment(U[k - 1], k, p, TRUE, t) = Segment(U[k - 1], k, p, TRUE, u)
      BY <1>1, <2>2, <2>3, ShallowSegment
    <3> QED
      BY <1>1, <2>2, <3>1
  <2> QED
    BY <2>1, <2>3
<1>5. \A k \in 0 .. n : k \in P
  <2> HIDE DEF P, n
  <2> QED
    BY <1>2, <1>3, <1>4, CountingUp
<1>6. n \in P /\ U[n] \in Int
  BY <1>1, <1>2, <1>5
<1>7. CASE TypeOf(U[n]) = "symlink"
  <2>1. U[n] \in Ids /\ inodes[U[n]].target \in Targets
    BY <1>7 DEF Linked, TypeOf
  <2> DEFINE q == Jump(LinkBase(p), inodes[U[n]].target)
  <2>2. LinkBase(p) \in Seq(Names)
    BY ParentType DEF LinkBase
  <2>3. q \in Seq(Names)
    BY <2>1, <2>2, JumpType
  <2>4. T[n] = U[n]
    BY <1>6, <2>1 DEF Ids
  <2>5. Ended(U[n], p, TRUE, u) = u[q] /\ Ended(U[n], p, TRUE, t) = t[q]
    BY <1>7, Zenon DEF Ended
  <2> HIDE DEF q
  <2>6. u[q] >= 0
    BY <1>1, <2>5
  <2> QED
    BY <1>1, <2>3, <2>4, <2>5, <2>6 DEF Shallower
<1>8. CASE TypeOf(U[n]) # "symlink"
  <2>1. Ended(U[n], p, TRUE, u) = U[n] /\ Ended(U[n], p, TRUE, t) = U[n]
    BY <1>8, Zenon DEF Ended
  <2>2. T[n] = U[n]
    BY <1>1, <1>6, <2>1
  <2> QED
    BY <1>1, <2>1, <2>2
<1> QED
  BY <1>7, <1>8

\* What is found at some depth is found at any smaller one.
LEMMA Shallow ==
  ASSUME Linked
  PROVE  \A d \in Nat : Shallower(Hops[1], Hops[d + 1])
<1>1. MaxSymlinkDepth \in Nat /\ ~ (ENOENT >= 0)
  BY VFSAssumption DEF ENOENT
<1>2. ASSUME NEW d \in Nat, Shallower(Hops[d + 1], Hops[d + 1 + 1]) PROVE Shallower(Hops[d], Hops[d + 1])
  <2> SUFFICES ASSUME NEW q \in Seq(Names), Hops[d + 1][q] >= 0 PROVE Hops[d][q] = Hops[d + 1][q]
    BY DEF Shallower
  <2>1. d + 1 \in Nat /\ d + 1 + 1 \in Nat
    OBVIOUS
  <2>2. Hops[d + 1] \in Hopping /\ Hops[d + 1 + 1] \in Hopping
    BY <2>1, Resolving
  <2>3. Hops[d + 1][q] = IF d + 1 > MaxSymlinkDepth THEN ENOENT
                         ELSE Ended(Walked(q, TRUE, Hops[d + 1 + 1]), q, TRUE, Hops[d + 1 + 1])
    BY <2>1, Resolving
  <2>4. Hops[d][q] = IF d > MaxSymlinkDepth THEN ENOENT
                     ELSE Ended(Walked(q, TRUE, Hops[d + 1]), q, TRUE, Hops[d + 1])
    BY Resolving
  <2>5. ~ (d + 1 > MaxSymlinkDepth)
    BY <1>1, <2>3
  <2>6. ~ (d > MaxSymlinkDepth)
    BY <1>1, <2>5
  <2>7. Ended(Walked(q, TRUE, Hops[d + 1]), q, TRUE, Hops[d + 1])
          = Ended(Walked(q, TRUE, Hops[d + 1 + 1]), q, TRUE, Hops[d + 1 + 1])
    BY <1>2, <2>2, <2>3, <2>5, ShallowEnd
  <2> QED
    BY <2>3, <2>4, <2>5, <2>6, <2>7
<1> DEFINE top == MaxSymlinkDepth
<1> DEFINE P == {k \in 0 .. top : Shallower(Hops[top - k], Hops[(top - k) + 1])}
<1>3. \A d \in Nat : d >= top => Shallower(Hops[d], Hops[d + 1])
  <2> SUFFICES ASSUME NEW d \in Nat, d >= top, NEW q \in Seq(Names), Hops[d + 1][q] >= 0 PROVE FALSE
    BY DEF Shallower
  <2>1. d + 1 \in Nat /\ d + 1 > MaxSymlinkDepth
    BY <1>1
  <2>2. Hops[d + 1][q] = ENOENT
    BY <2>1, Resolving
  <2> QED
    BY <1>1, <2>2
<1>4. 0 \in P
  BY <1>1, <1>3
<1>5. ASSUME NEW k \in 1 .. top, k - 1 \in P PROVE k \in P
  <2>1. k \in 0 .. top /\ top - k \in Nat /\ top - (k - 1) = (top - k) + 1
    BY <1>1
  <2>2. Shallower(Hops[(top - k) + 1], Hops[(top - k) + 1 + 1])
    BY <1>5, <2>1
  <2> QED
    BY <1>2, <2>1, <2>2
<1>6. \A k \in 0 .. top : k \in P
  <2>1. top \in Nat
    BY <1>1
  <2> HIDE DEF P, top
  <2> QED
    BY <1>4, <1>5, <2>1, CountingUp
<1>7. ASSUME NEW d \in Nat PROVE Shallower(Hops[d], Hops[d + 1])
  <2>1. CASE d >= top
    BY <1>3, <2>1
  <2>2. CASE ~ (d >= top)
    <3>1. top - d \in 0 .. top /\ top - (top - d) = d
      BY <1>1, <2>2
    <3>2. top - d \in P
      BY <1>6, <3>1
    <3> QED
      BY <3>1, <3>2
  <2> QED
    BY <2>1, <2>2
<1>8. ASSUME NEW d \in Nat PROVE Shallower(Hops[1], Hops[d + 1])
  <2> DEFINE Q == {k \in 0 .. d : Shallower(Hops[1], Hops[k + 1])}
  <2>1. 0 \in Q
    BY DEF Shallower
  <2>2. ASSUME NEW k \in 1 .. d, k - 1 \in Q PROVE k \in Q
    <3>1. k \in 0 .. d /\ (k - 1) + 1 = k /\ k \in Nat
      OBVIOUS
    <3>2. Shallower(Hops[1], Hops[k]) /\ Shallower(Hops[k], Hops[k + 1])
      BY <1>7, <2>2, <3>1
    <3>3. Shallower(Hops[1], Hops[k + 1])
      BY <3>2 DEF Shallower
    <3> QED
      BY <3>1, <3>3
  <2>3. \A k \in 0 .. d : k \in Q
    <3> HIDE DEF Q
    <3> QED
      BY <2>1, <2>2, CountingUp
  <2> QED
    BY <2>3
<1> QED
  BY <1>8

\* A path that leads to an inode that is no link ends there at any depth.
LEMMA LeadsEnds ==
  ASSUME Linked, NEW p \in Seq(Names), NEW i, Leads(p, i), TypeOf(i) # "symlink",
         NEW hops \in Hopping
  PROVE  Ended(Walked(p, TRUE, hops), p, TRUE, hops) = i
<1>1. PICK c \in [0 .. Len(p) -> Ids] :
         /\ c[0] = Root /\ c[Len(p)] = i
         /\ \A k \in 1 .. Len(p) : IsDir(c[k - 1]) /\ Child(c[k - 1], p[k]) = c[k]
  BY DEF Leads
<1>2. Along(c, Len(p), p)
  BY <1>1 DEF Along
<1>3. Len(p) \in 0 .. Len(p) /\ TRUE \in BOOLEAN
  OBVIOUS
<1>4. Walk(p, TRUE, hops)[Len(p)] = i
  BY <1>1, <1>2, <1>3, WalksAlong
<1>5. Walked(p, TRUE, hops) = i
  BY <1>4, RecursionsAre
<1> QED
  BY <1>5, Zenon DEF Ended

\* The first names of a path, one by one.
LEMMA FirstNames ==
  ASSUME NEW p \in Seq(Names), NEW k \in 1 .. Len(p)
  PROVE  /\ SubSeq(p, 1, k - 1) \in Seq(Names) /\ SubSeq(p, 1, k) \in Seq(Names)
         /\ SubSeq(p, 1, k) = Append(SubSeq(p, 1, k - 1), p[k])
         /\ Parent(SubSeq(p, 1, k)) = SubSeq(p, 1, k - 1)
         /\ SubSeq(p, 1, Len(p)) = p /\ p[k] \in Names
<1> DEFINE s == SubSeq(p, 1, k)
<1> DEFINE r == SubSeq(p, 1, k - 1)
<1>1. k \in Nat /\ k <= Len(p) /\ \A j \in 1 .. Len(p) : p[j] \in Names
  OBVIOUS
<1>2. s \in Seq(Names) /\ Len(s) = k /\ \A j \in 1 .. k : s[j] = p[j]
  <2>1. k \in Int /\ \A j \in 1 .. k : p[j] \in Names
    BY <1>1
  <2> QED
    BY <2>1, SubSeqProperties
<1>3. r \in Seq(Names) /\ Len(r) = k - 1 /\ \A j \in 1 .. k - 1 : r[j] = p[j]
  <2>1. k - 1 \in Int /\ \A j \in 1 .. k - 1 : p[j] \in Names
    BY <1>1
  <2> QED
    BY <1>1, <2>1, SubSeqProperties
<1>4. SubSeq(p, 1, Len(p)) = p
  OBVIOUS
<1> HIDE DEF s, r
<1>5. s = Append(r, p[k])
  <2>1. Append(r, p[k]) \in Seq(Names)
    BY <1>1, <1>3
  <2>2. Len(Append(r, p[k])) = k
    BY <1>1, <1>3
  <2>3. \A j \in 1 .. k : Append(r, p[k])[j] = s[j]
    <3> SUFFICES ASSUME NEW j \in 1 .. k PROVE Append(r, p[k])[j] = s[j]
      OBVIOUS
    <3>1. CASE j = k
      BY <1>1, <1>2, <1>3, <3>1
    <3>2. CASE j # k
      <4>1. j \in 1 .. Len(r)
        BY <1>1, <1>3, <3>2
      <4>2. Append(r, p[k])[j] = r[j]
        BY <1>3, <4>1
      <4> QED
        BY <1>2, <1>3, <4>1, <4>2
    <3> QED
      BY <3>1, <3>2
  <2> QED
    BY <1>2, <2>1, <2>2, <2>3
<1>6. Parent(s) = r
  <2>0. s # << >>
    BY <1>1, <1>2
  <2>1. /\ Parent(s) \in Seq(Names) /\ Len(Parent(s)) = Len(s) - 1
        /\ \A j \in 1 .. Len(s) - 1 : Parent(s)[j] = s[j]
    BY <1>2, <2>0, ParentType
  <2>2. Len(Parent(s)) = Len(r)
    BY <1>2, <1>3, <2>1
  <2>3. \A j \in 1 .. Len(r) : Parent(s)[j] = r[j]
    BY <1>1, <1>2, <1>3, <2>1
  <2> QED
    BY <1>3, <2>1, <2>2, <2>3
<1> QED
  BY <1>1, <1>2, <1>3, <1>4, <1>5, <1>6 DEF s, r

\* Where the two agree one link deeper, they agree.
Agree(d) == \A q \in Paths : RealHops[d][q].id >= 0 => Hops[d][q] = RealHops[d][q].id

LEMMA AgreeStep ==
  ASSUME Linked, LinksToFiles, NEW d \in Nat, d <= MaxSymlinkDepth, Agree(d + 1),
         NEW p \in Paths, RealHops[d][p].id >= 0
  PROVE  Hops[d][p] = RealHops[d][p].id
<1> DEFINE n == Len(p)
<1> DEFINE th == RealHops[d + 1]
<1> DEFINE t == Hops[d + 1]
<1> DEFINE V == RealWalk(p, th)
<1> DEFINE child(k) == Child(V[k - 1].id, p[k])
<1>1. p \in Seq(Names) /\ n \in Nat /\ d + 1 \in Nat /\ ~ (d > MaxSymlinkDepth)
      /\ MaxSymlinkDepth \in Nat
  BY VFSAssumption
<1>2. th \in RealHopping /\ t \in Hopping /\ Hops[1] \in Hopping
  BY <1>1, Resolving, RealResolving
<1>3. RealHops[d][p] = RealWalked(p, th)
      /\ Hops[d][p] = Ended(Walked(p, TRUE, t), p, TRUE, t)
  BY <1>1, Resolving, RealResolving
<1>4. /\ RealWalked(p, th) = V[n] /\ V[0] = AtRoot /\ \A k \in 0 .. n : V[k] \in Reals
      /\ \A k \in 1 .. n : V[k] = RealSegment(V[k - 1], p[k], th)
  BY <1>1, <1>2, RealWalking
<1>5. Agree(d + 1) /\ Shallower(Hops[1], t)
  BY Shallow
<1> HIDE DEF V, th, t
<1>6. ASSUME NEW k \in 1 .. n, V[k].id >= 0
      PROVE  /\ V[k - 1].id >= 0 /\ IsDir(V[k - 1].id)
             /\ Leads(V[k - 1].path, V[k - 1].id) /\ V[k - 1].path \in Seq(Names)
             /\ child(k) \in Ids
             /\ TypeOf(child(k)) # "symlink" =>
                  V[k] = [path |-> Append(V[k - 1].path, p[k]), id |-> child(k)]
             /\ TypeOf(child(k)) = "symlink" =>
                  V[k] = th[Jump(V[k - 1].path, inodes[child(k)].target)]
  <2>1. k - 1 \in 0 .. n /\ p[k] \in Names
    BY <1>1
  <2> DEFINE w == V[k - 1]
  <2>2. w \in Reals /\ V[k] = RealSegment(w, p[k], th)
    BY <1>4, <2>1
  <2>3. RealSegment(w, p[k], th).id >= 0
    BY <1>6, <2>2
  <2> HIDE DEF w
  <2>4. /\ w.id \in Ids /\ IsDir(w.id) /\ Leads(w.path, w.id) /\ w.path \in Seq(Names)
        /\ Child(w.id, p[k]) \in Ids
        /\ TypeOf(Child(w.id, p[k])) # "symlink" =>
             RealSegment(w, p[k], th) = [path |-> Append(w.path, p[k]), id |-> Child(w.id, p[k])]
        /\ TypeOf(Child(w.id, p[k])) = "symlink" =>
             RealSegment(w, p[k], th) = th[Jump(w.path, inodes[Child(w.id, p[k])].target)]
    BY <1>2, <2>1, <2>2, <2>3, RealSegmentOf
  <2>5. w.id >= 0
    BY <2>4 DEF Ids
  <2> QED
    BY <2>2, <2>4, <2>5 DEF w
<1> HIDE DEF child
\* No turn fails.
<1>7. \A k \in 0 .. n : V[k].id >= 0
  <2> DEFINE P == {k \in 0 .. n : V[n - k].id >= 0}
  <2>1. 0 \in P
    BY <1>1, <1>3, <1>4
  <2>2. ASSUME NEW k \in 1 .. n, k - 1 \in P PROVE k \in P
    <3>1. n - (k - 1) \in 1 .. n /\ (n - (k - 1)) - 1 = n - k /\ k \in 0 .. n
      BY <1>1
    <3>2. V[n - (k - 1)].id >= 0
      BY <2>2
    <3>3. V[(n - (k - 1)) - 1].id >= 0
      BY <1>6, <3>1, <3>2
    <3> QED
      BY <3>1, <3>3
  <2>3. \A k \in 0 .. n : k \in P
    <3> HIDE DEF P, n
    <3> QED
      BY <1>1, <2>1, <2>2, CountingUp
  <2> SUFFICES ASSUME NEW k \in 0 .. n PROVE V[k].id >= 0
    OBVIOUS
  <2>4. n - k \in 0 .. n /\ n - (n - k) = k
    BY <1>1
  <2> QED
    BY <2>3, <2>4
\* A link on the way leads to the place of what is on the path.
<1>8. ASSUME NEW k \in 1 .. n, V[k - 1].path = SubSeq(p, 1, k - 1)
      PROVE  /\ Leads(SubSeq(p, 1, k), child(k)) /\ child(k) \in Ids
             /\ TypeOf(child(k)) # "symlink" => V[k].path = SubSeq(p, 1, k) /\ V[k].id = child(k)
             /\ TypeOf(child(k)) = "symlink" =>
                  LET q == Jump(SubSeq(p, 1, k - 1), inodes[child(k)].target) IN
                    q \in Paths /\ q \in Seq(Names) /\ t[q] = V[k].id /\ V[k].id >= 0
  <2>1. k \in 0 .. n
    BY <1>1
  <2>2. V[k].id >= 0
    BY <1>7, <2>1
  <2>3. /\ SubSeq(p, 1, k) = Append(SubSeq(p, 1, k - 1), p[k]) /\ p[k] \in Names
        /\ SubSeq(p, 1, k - 1) \in Seq(Names)
    BY <1>1, FirstNames
  <2>4. /\ IsDir(V[k - 1].id) /\ Leads(V[k - 1].path, V[k - 1].id) /\ child(k) \in Ids
        /\ child(k) = Child(V[k - 1].id, p[k])
    BY <1>6, <2>2 DEF child
  <2>5. Leads(SubSeq(p, 1, k), child(k))
    BY <1>8, <2>3, <2>4, LeadsOn
  <2>6. ASSUME TypeOf(child(k)) # "symlink"
        PROVE  V[k].path = SubSeq(p, 1, k) /\ V[k].id = child(k)
    <3>1. V[k] = [path |-> Append(V[k - 1].path, p[k]), id |-> child(k)]
      BY <1>6, <2>2, <2>6
    <3> QED
      BY <1>8, <2>3, <3>1
  <2>7. ASSUME TypeOf(child(k)) = "symlink"
        PROVE  LET q == Jump(SubSeq(p, 1, k - 1), inodes[child(k)].target) IN
                 q \in Paths /\ q \in Seq(Names) /\ t[q] = V[k].id /\ V[k].id >= 0
    <3> DEFINE q == Jump(SubSeq(p, 1, k - 1), inodes[child(k)].target)
    <3>1. inodes[child(k)].target \in Targets
      BY <2>4, <2>7 DEF Linked
    <3>2. q \in Paths
      BY <3>1, PathsAssumption
    <3>3. V[k] = th[q]
      BY <1>6, <1>8, <2>2, <2>7
    <3> HIDE DEF q
    <3>4. t[q] = V[k].id
      BY <1>5, <2>2, <3>2, <3>3 DEF Agree, t, th
    <3>5. q \in Seq(Names)
      BY <3>2, VFSAssumption
    <3> QED
      BY <2>2, <3>2, <3>4, <3>5 DEF q
  <2> QED
    BY <2>4, <2>5, <2>6, <2>7
\* A link in the middle would lead to a directory: there is none.
<1>9. ASSUME NEW k \in 1 .. n, k # n, V[k - 1].path = SubSeq(p, 1, k - 1)
      PROVE  TypeOf(child(k)) # "symlink"
  <2> SUFFICES ASSUME TypeOf(child(k)) = "symlink" PROVE FALSE
    OBVIOUS
  <2> DEFINE s == SubSeq(p, 1, k)
  <2> DEFINE q == Jump(SubSeq(p, 1, k - 1), inodes[child(k)].target)
  <2>1. s \in Paths
    BY PathsAssumption
  <2>2. s \in Seq(Names) /\ Parent(s) = SubSeq(p, 1, k - 1)
    BY <1>1, FirstNames
  <2>3. Leads(s, child(k)) /\ q \in Seq(Names) /\ t[q] = V[k].id /\ V[k].id >= 0
    BY <1>8, <1>9
  <2> HIDE DEF s
  <2>4. Resolve(s, FALSE) = child(k)
    BY <2>2, <2>3, LeadsResolves
  <2>5. Resolve(s, TRUE) = Ended(Walked(s, TRUE, Hops[1]), s, TRUE, Hops[1])
    BY RecursionsAre
  <2>6. Ended(Walked(s, TRUE, Hops[1]), s, TRUE, Hops[1]) = Hops[1][Jump(Parent(s), inodes[child(k)].target)]
    BY <1>2, <2>2, <2>3, FollowsLink
  <2>7. Jump(Parent(s), inodes[child(k)].target) = q
    BY <2>2
  <2> HIDE DEF q
  <2>8. Hops[1][q] = V[k].id
    BY <1>5, <2>3 DEF Shallower
  <2>9. k + 1 \in 1 .. n /\ (k + 1) - 1 = k /\ k + 1 \in 0 .. n
    BY <1>1, <1>9
  <2>10. V[k + 1].id >= 0
    BY <1>7, <2>9
  <2>11. IsDir(V[(k + 1) - 1].id)
    BY <1>6, <2>9, <2>10
  <2>12. ~IsDir(Resolve(s, TRUE))
    BY <2>1, <2>4 DEF LinksToFiles
  <2> QED
    BY <2>5, <2>6, <2>7, <2>8, <2>9, <2>11, <2>12
\* So the path is real up to its last name.
<1>10. ASSUME n # 0 PROVE V[n - 1].path = SubSeq(p, 1, n - 1)
  <2> DEFINE m == n - 1
  <2> DEFINE P == {k \in 0 .. m : V[k].path = SubSeq(p, 1, k)}
  <2>1. m \in Nat
    BY <1>1, <1>10
  <2>2. 0 \in P
    <3>1. SubSeq(p, 1, 0) = << >> /\ AtRoot.path = << >>
      BY <1>1 DEF AtRoot
    <3>2. 0 \in 0 .. m /\ V[0].path = << >>
      BY <1>4, <2>1, <3>1
    <3> HIDE DEF m
    <3> QED
      BY <3>1, <3>2
  <2>3. ASSUME NEW k \in 1 .. m, k - 1 \in P PROVE k \in P
    <3>1. k \in 0 .. m /\ k \in 1 .. n /\ k # n
      BY <1>1, <2>1
    <3>2. V[k - 1].path = SubSeq(p, 1, k - 1)
      BY <2>3
    <3>3. TypeOf(child(k)) # "symlink"
      BY <1>9, <3>1, <3>2
    <3>4. V[k].path = SubSeq(p, 1, k)
      BY <1>8, <3>1, <3>2, <3>3
    <3> QED
      BY <3>1, <3>4
  <2>4. \A k \in 0 .. m : k \in P
    <3> HIDE DEF P, m
    <3> QED
      BY <2>1, <2>2, <2>3, CountingUp
  <2>5. m \in 0 .. m
    BY <2>1
  <2> QED
    BY <2>4, <2>5
<1>11. CASE n = 0
  <2>1. p = << >> /\ V[n] = AtRoot
    BY <1>1, <1>4, <1>11
  <2>2. AtRoot \in Reals
    BY RealEnds
  <2>3. AtRoot.id >= 0 /\ AtRoot.path = << >> /\ AtRoot.id = Root
    BY DEF AtRoot, Root
  <2>4. Leads(p, Root) /\ TypeOf(Root) # "symlink"
    BY <2>1, <2>2, <2>3 DEF Reals
  <2>5. Ended(Walked(p, TRUE, t), p, TRUE, t) = Root
    BY <1>1, <1>2, <2>4, LeadsEnds
  <2> QED
    BY <1>3, <1>4, <2>1, <2>3, <2>5
<1>12. CASE n # 0
  <2>1. n \in 1 .. n
    BY <1>1, <1>12
  <2> DEFINE c == child(n)
  <2>2. V[n - 1].path = SubSeq(p, 1, n - 1)
    BY <1>10, <1>12
  <2>3. SubSeq(p, 1, n) = p /\ Parent(p) = SubSeq(p, 1, n - 1)
    BY <1>1, <2>1, FirstNames
  <2>4. Leads(p, c) /\ c \in Ids
    BY <1>8, <2>1, <2>2, <2>3
  <2>5. CASE TypeOf(c) # "symlink"
    <3>1. V[n].id = c
      BY <1>8, <2>1, <2>2, <2>5
    <3>2. Ended(Walked(p, TRUE, t), p, TRUE, t) = c
      BY <1>1, <1>2, <2>4, <2>5, LeadsEnds
    <3> QED
      BY <1>3, <1>4, <3>1, <3>2
  <2>6. CASE TypeOf(c) = "symlink"
    <3> DEFINE q == Jump(SubSeq(p, 1, n - 1), inodes[c].target)
    <3>1. t[q] = V[n].id
      BY <1>8, <2>1, <2>2, <2>6
    <3>2. Ended(Walked(p, TRUE, t), p, TRUE, t) = t[Jump(Parent(p), inodes[c].target)]
      BY <1>1, <1>2, <2>4, <2>6, FollowsLink
    <3> QED
      BY <1>3, <1>4, <2>3, <3>1, <3>2
  <2> QED
    BY <2>5, <2>6
<1> QED
  BY <1>11, <1>12

\* The two agree at every depth.
LEMMA Agreeing ==
  ASSUME Linked, LinksToFiles
  PROVE  Agree(0)
<1> DEFINE top == MaxSymlinkDepth + 1
<1> DEFINE P == {k \in 0 .. top : Agree(top - k)}
<1>1. top \in Nat /\ MaxSymlinkDepth \in Nat
  BY VFSAssumption
<1>2. Agree(top)
  <2>1. \A q \in Paths : RealHops[top][q] = Failed
    BY <1>1, RealResolving, VFSAssumption
  <2>2. ~ (Failed.id >= 0)
    BY DEF Failed, ENOENT
  <2> HIDE DEF top
  <2> QED
    BY <2>1, <2>2 DEF Agree
<1>3. 0 \in P
  BY <1>1, <1>2
<1>4. ASSUME NEW k \in 1 .. top, k - 1 \in P PROVE k \in P
  <2>1. /\ k \in 0 .. top /\ top - k \in Nat /\ (top - k) + 1 = top - (k - 1)
        /\ top - k <= MaxSymlinkDepth
    BY <1>1
  <2>2. Agree((top - k) + 1)
    BY <1>4, <2>1
  <2>3. Agree(top - k)
    <3> DEFINE d == top - k
    <3> HIDE DEF d
    <3>1. \A p \in Paths : RealHops[d][p].id >= 0 => Hops[d][p] = RealHops[d][p].id
      BY <2>1, <2>2, AgreeStep DEF d
    <3> QED
      BY <3>1 DEF Agree, d
  <2> QED
    BY <2>1, <2>3
<1>5. \A k \in 0 .. top : k \in P
  <2> HIDE DEF P, top
  <2> QED
    BY <1>1, <1>3, <1>4, CountingUp
<1>6. top \in 0 .. top /\ top - top = 0
  BY <1>1
<1> QED
  BY <1>5, <1>6

\* In every table of links with targets, what realpath returns is real, and if
\* links lead to files only, resolvePath finds the same.
LEMMA LinkedResolve ==
  ASSUME Linked
  PROVE  PathsResolve
<1>1. MaxSymlinkDepth \in Nat /\ 0 \in Nat /\ ~ (0 > MaxSymlinkDepth) /\ Paths \subseteq Seq(Names)
      /\ 0 + 1 = 1
  BY VFSAssumption
<1>2. RealHops[0] \in RealHopping
  BY <1>1, RealResolving
<1>3. RealpathIsReal
  <2> SUFFICES ASSUME NEW p \in Paths
               PROVE  LET r == Realpath(p) IN
                        r.id >= 0 => Leads(r.path, r.id) /\ TypeOf(r.id) # "symlink"
    BY DEF RealpathIsReal
  <2>1. Realpath(p) \in Reals
    BY <1>1, <1>2, RealRecursionsAre DEF RealHopping
  <2> QED
    BY <2>1 DEF Reals
<1>4. ResolversAgree
  <2> SUFFICES ASSUME LinksToFiles, NEW p \in Paths, Realpath(p).id >= 0
               PROVE  Resolve(p, TRUE) = Realpath(p).id
    BY DEF ResolversAgree
  <2>1. Realpath(p) = RealHops[0][p]
    BY RealRecursionsAre
  <2>2. Hops[0][p] = RealHops[0][p].id
    BY <2>1, Agreeing DEF Agree
  <2>3. Hops[0][p] = Ended(Walked(p, TRUE, Hops[0 + 1]), p, TRUE, Hops[0 + 1])
    BY <1>1, Resolving
  <2>4. Resolve(p, TRUE) = Ended(Walked(p, TRUE, Hops[1]), p, TRUE, Hops[1])
    BY RecursionsAre
  <2> QED
    BY <1>1, <2>1, <2>2, <2>3, <2>4
<1> QED
  BY <1>3, <1>4 DEF PathsResolve

-----------------------------------------------------------------------------
(***************************************************************************)
(* Links have targets in every behaviour.                                  *)
(***************************************************************************)
\* A step makes no link but one with a target, of a new number.
TargetsKept ==
  \A i \in Ids : TypeOf(i)' = "symlink" =>
     \/ i = counter /\ inodes'[i].target \in Targets
     \/ TypeOf(i) = "symlink" /\ inodes'[i].target = inodes[i].target

\* Create gives an inode its target ...
LEMMA CreateLinks ==
  ASSUME TypeOK, NEW par \in Ids, NEW base \in Names \cup {NoName},
         NEW ty \in Types \ {"none"}, NEW tg \in Targets \cup {NoTarget},
         Create(par, base, New(ty, tg)), ~Exists(counter), ty = "symlink" => tg \in Targets
  PROVE  TargetsKept
<1>1. counter \in Ids /\ \A i \in Ids : TypeOf(i)' = IF i = counter THEN ty ELSE TypeOf(i)
  BY CreateChanges
<1>2. inodes' = [inodes EXCEPT ![counter] = New(ty, tg), ![par].children[base] = counter]
  BY DEF Create, FreshId
<1>3. New(ty, tg).target = tg
  BY DEF New
<1>4. \A i \in Ids : inodes'[i].target = IF i = counter THEN tg ELSE inodes[i].target
  BY <1>1, <1>2, <1>3 DEF TypeOK, Inodes
<1> QED
  BY <1>1, <1>4 DEF TargetsKept

\* ... and the other calls leave those of the inodes they keep.
LEMMA RemoveLinks ==
  ASSUME TypeOK, NEW id \in Ids, NEW par \in Ids, NEW base \in Names \cup {NoName},
         RemoveInode(id, par, base)
  PROVE  TargetsKept
<1>1. \A i \in Ids : TypeOf(i)' = IF i = id THEN "none" ELSE TypeOf(i)
  BY RemoveChanges
<1>2. inodes' = [[inodes EXCEPT ![par].children[base] = None] EXCEPT ![id] = NoInode]
  BY DEF RemoveInode
<1>3. \A i \in Ids : i # id => inodes'[i].target = inodes[i].target
  BY <1>2 DEF TypeOK, Inodes
<1> QED
  BY <1>1, <1>3 DEF TargetsKept

LEMMA RmAllLinks ==
  ASSUME TypeOK, NEW p \in Paths, RmAll(p)
  PROVE  TargetsKept
<1> DEFINE S == Subtree(Resolve(p, FALSE))
<1> DEFINE par == ParentOf(p)
<1> DEFINE base == BaseOf(p)
<1>1. \A i \in Ids : TypeOf(i)' = IF i \in S THEN "none" ELSE TypeOf(i)
  BY RmAllChanges
<1>2. inodes' = [i \in Ids |-> IF i \in S THEN NoInode
                               ELSE IF i = par THEN [inodes[i] EXCEPT !.children[base] = None]
                               ELSE inodes[i]]
  BY DEF RmAll
<1> HIDE DEF S, par, base
<1>3. \A i \in Ids : i \notin S => inodes'[i].target = inodes[i].target
  BY <1>2 DEF TypeOK, Inodes
<1> QED
  BY <1>1, <1>3 DEF TargetsKept

LEMMA RenameLinks ==
  ASSUME TypeOK, NEW old \in Paths, NEW new \in Paths, Rename(old, new)
  PROVE  TargetsKept
<1> DEFINE e == EntryOf(new)
<1> DEFINE Attached(i) ==
      LET Detached == IF i = ParentOf(old) THEN [inodes[i].children EXCEPT ![BaseOf(old)] = None]
                      ELSE inodes[i].children
      IN  IF i = ParentOf(new) THEN [Detached EXCEPT ![BaseOf(new)] = Resolve(old, FALSE)]
          ELSE Detached
<1>1. \A i \in Ids : TypeOf(i)' = IF i = e THEN "none" ELSE TypeOf(i)
  BY RenameChanges
<1>2. inodes' = [i \in Ids |-> IF i = e THEN NoInode
                               ELSE [inodes[i] EXCEPT !.children = Attached(i)]]
  BY DEF Rename, Moved, EntryOf
<1> HIDE DEF e, Attached
<1>3. \A i \in Ids : i # e => inodes'[i].target = inodes[i].target
  BY <1>2 DEF TypeOK, Inodes
<1> QED
  BY <1>1, <1>3 DEF TargetsKept

\* Every call keeps the targets.
LEMMA LinkedStep ==
  ASSUME IInv, Linked, [Next]_vars
  PROVE  Linked'
<1>1. IInv' /\ TypeOK
  BY IInvStep DEF IInv
<1>2. ~Exists(counter)
  BY DEF IInv, NoneBeyond, TypeOK, Exists, TypeOf, Ids
<1>3. SUFFICES TargetsKept
  <2>1. inodes' \in [Ids -> Inodes]
    BY <1>1 DEF IInv, TypeOK
  <2>2. TypeOf(Root) # "symlink" /\ Root \in Ids /\ Root # counter
    BY InodeType DEF Linked, Root, IInv, TypeOK
  <2>3. TypeOf(Root)' # "symlink"
    BY <1>3, <2>2 DEF TargetsKept
  <2>4. ASSUME NEW i \in Ids, TypeOf(i)' = "symlink" PROVE inodes'[i].target \in Targets
    BY <1>3, <2>4 DEF TargetsKept, Linked
  <2> QED
    BY <2>1, <2>3, <2>4 DEF Linked
<1>4. UNCHANGED inodes => TargetsKept
  BY DEF TargetsKept, TypeOf
<1>5. CASE UNCHANGED vars
  BY <1>4, <1>5 DEF vars
<1>6. ASSUME NEW p \in Paths, NEW ty \in Types \ {"none"}, NEW tg \in Targets \cup {NoTarget},
             IsDir(ParentOf(p)), Create(ParentOf(p), BaseOf(p), New(ty, tg)),
             ty = "symlink" => tg \in Targets
      PROVE  TargetsKept
  BY <1>1, <1>2, <1>6, BaseType, DirIsId, CreateLinks
<1>7. ASSUME NEW p \in Paths, WriteFile(p) PROVE TargetsKept
  BY <1>6, <1>7 DEF WriteFile, Types
<1>8. ASSUME NEW p \in Paths, Mkdir(p) PROVE TargetsKept
  BY <1>6, <1>8 DEF Mkdir, Types
<1>9. ASSUME NEW p \in Paths, NEW t \in Targets, Symlink(t, p) PROVE TargetsKept
  BY <1>6, <1>9 DEF Symlink, Types
<1>10. ASSUME NEW p \in Paths, MkdirAll(p) PROVE TargetsKept
  BY <1>4, <1>10 DEF MkdirAll
<1>11. CASE MkdirTurn
  <2> DEFINE p == SubSeq(making.path, 1, making.upto + 1)
  <2>1. BaseOf(p) \in Names
    BY <1>1, <1>11, BaseType DEF MkdirTurn
  <2>2. CASE UNCHANGED inodes
    BY <1>4, <2>2
  <2>3. CASE IsDir(ParentOf(p)) /\ Create(ParentOf(p), BaseOf(p), New("directory", NoTarget))
    <3>1. ParentOf(p) \in Ids
      BY <2>3, DirIsId
    <3>2. "directory" \in Types \ {"none"} /\ "directory" # "symlink"
      BY DEF Types
    <3> HIDE DEF p
    <3> QED
      BY <1>1, <1>2, <2>1, <2>3, <3>1, <3>2, CreateLinks
  <2> QED
    BY <1>11, <2>2, <2>3 DEF MkdirTurn
<1>12. ASSUME NEW p \in Paths, NEW id, id \in Ids, IsDir(ParentOf(p)),
              RemoveInode(id, ParentOf(p), BaseOf(p))
       PROVE  TargetsKept
  BY <1>1, <1>12, BaseType, DirIsId, RemoveLinks
<1>13. ASSUME NEW p \in Paths, Rmdir(p) PROVE TargetsKept
  BY <1>12, <1>13, DirIsId DEF Rmdir
<1>14. ASSUME NEW p \in Paths, Unlink(p) PROVE TargetsKept
  BY <1>12, <1>14 DEF Unlink, Exists, TypeOf
<1>15. ASSUME NEW p \in Paths, RmAll(p) PROVE TargetsKept
  BY <1>1, <1>15, RmAllLinks
<1>16. ASSUME NEW p \in Paths, NEW q \in Paths, Rename(p, q) PROVE TargetsKept
  BY <1>1, <1>16, RenameLinks
<1> QED
  BY <1>5, <1>7, <1>8, <1>9, <1>10, <1>11, <1>13, <1>14, <1>15, <1>16 DEF Next

\* In every behaviour the path realpath returns is real, and as long as links
\* lead to files only, resolvePath finds what realpath finds (path-resolver.ts,
\* operations.ts).
THEOREM PathsResolved == Spec => []PathsResolve
<1>1. Init => Linked
  <2>1. New("directory", NoTarget) \in Inodes /\ New("directory", NoTarget).type = "directory"
        /\ NoInode \in Inodes /\ NoInode.type = "none" /\ Root \in Ids
    BY InodeType DEF New, Types, NoInode
  <2> QED
    BY <2>1 DEF Init, Linked, TypeOf
<1>2. IInv /\ Linked /\ [Next]_vars => Linked'
  BY LinkedStep
<1>3. Linked => PathsResolve
  BY LinkedResolve
<1> QED
  BY <1>1, <1>2, <1>3, IInvHolds, PTL DEF Spec
=============================================================================

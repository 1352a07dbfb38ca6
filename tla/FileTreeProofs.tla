--------------------------- MODULE FileTreeProofs ---------------------------
(* What the file operations of FileTree do to a directory, for any paths:   *)
(* each gives a directory again, with exactly the paths it should have.     *)
EXTENDS FileTree, TLAPS

LEMMA StampTree ==
  ASSUME NEW old, NEW new, IsTree(new), NEW now \in Nat
  PROVE  /\ IsTree(Stamp(old, new, now))
         /\ DOMAIN Stamp(old, new, now) = DOMAIN new
  BY DEF IsTree, Stamp, Entry

LEMMA AddDirsTree ==
  ASSUME NEW t, IsTree(t), NEW S \in SUBSET Paths, NEW now \in Nat
  PROVE  /\ IsTree(AddDirs(t, S, now))
         /\ DOMAIN AddDirs(t, S, now) = DOMAIN t \cup S
  <1> DEFINE u == [p \in DOMAIN t \cup S |->
                     IF p \in DOMAIN t THEN t[p]
                                       ELSE [body |-> NoBody, mtime |-> now]]
  <1>1. IsTree(u) /\ DOMAIN u = DOMAIN t \cup S
    BY DEF IsTree, Entry, Body
  <1>2. AddDirs(t, S, now) = Stamp(t, u, now)
    BY DEF AddDirs
  <1> HIDE DEF u
  <1> QED BY <1>1, <1>2, StampTree

LEMMA MkDirTree ==
  ASSUME NEW t, IsTree(t), NEW p \in Paths, NEW now \in Nat
  PROVE  /\ IsTree(MkDir(t, p, now))
         /\ DOMAIN MkDir(t, p, now) = DOMAIN t \cup {p} \cup Above(p)
  <1> DEFINE S == {p} \cup Above(p)
  <1>1. S \in SUBSET Paths
    BY DEF Above
  <1>2. /\ MkDir(t, p, now) = AddDirs(t, S, now)
        /\ DOMAIN t \cup {p} \cup Above(p) = DOMAIN t \cup S
    BY DEF MkDir
  <1> HIDE DEF S
  <1> QED BY <1>1, <1>2, AddDirsTree

LEMMA CreateFileTree ==
  ASSUME NEW t, IsTree(t), NEW p \in Paths, NEW body \in Body, NEW now \in Nat
  PROVE  /\ IsTree(CreateFile(t, p, body, now))
         /\ DOMAIN CreateFile(t, p, body, now) = DOMAIN t \cup {p} \cup Above(p)
  <1> DEFINE u == AddDirs(t, Above(p), now)
             v == [q \in DOMAIN u \cup {p} |->
                     IF q = p THEN [body |-> body, mtime |-> now] ELSE u[q]]
  <1>1. Above(p) \in SUBSET Paths
    BY DEF Above
  <1>2. IsTree(u) /\ DOMAIN u = DOMAIN t \cup Above(p)
    BY <1>1, AddDirsTree
  <1>3. CreateFile(t, p, body, now) = Stamp(u, v, now)
    BY DEF CreateFile
  <1> HIDE DEF u
  <1>4. IsTree(v) /\ DOMAIN v = DOMAIN u \cup {p}
    BY <1>2 DEF IsTree, Entry
  <1> HIDE DEF v
  <1> QED BY <1>2, <1>3, <1>4, StampTree

LEMMA FillFileTree ==
  ASSUME NEW t, IsTree(t), NEW p, NEW body \in Body, NEW now \in Nat
  PROVE  /\ IsTree(FillFile(t, p, body, now))
         /\ DOMAIN FillFile(t, p, body, now) = DOMAIN t
  BY DEF IsTree, FillFile, Entry

LEMMA RmTree ==
  ASSUME NEW t, IsTree(t), NEW p, NEW now \in Nat
  PROVE  /\ IsTree(Rm(t, p, now))
         /\ DOMAIN Rm(t, p, now) = DOMAIN t \ Subtree(p)
  <1> DEFINE u == [q \in DOMAIN t \ Subtree(p) |-> t[q]]
  <1>1. IsTree(u) /\ DOMAIN u = DOMAIN t \ Subtree(p)
    BY DEF IsTree
  <1>2. Rm(t, p, now) = Stamp(t, u, now)
    BY DEF Rm
  <1> HIDE DEF u
  <1> QED BY <1>1, <1>2, StampTree

\* What is not hidden is not below anything hidden.
LEMMA AboveNotExcluded ==
  ASSUME NEW p \in Paths, p \notin Excluded
  PROVE  Above(p) \cap Excluded = {}
  BY ExcludedAssumption DEF Above, Under

-----------------------------------------------------------------------------
(* What is above what, and trees in which whatever exists has a directory.  *)

LEMMA AboveAbove ==
  ASSUME NEW p \in Paths, NEW q \in Above(p)
  PROVE  Above(q) \subseteq Above(p)
  <1> SUFFICES ASSUME NEW r \in Above(q) PROVE r \in Above(p)
    OBVIOUS
  <1>1. /\ p \in Seq(STRING) /\ q \in Seq(STRING) /\ r \in Seq(STRING) /\ r \in Paths
    BY ComponentsAssumption DEF Above
  <1>2. /\ Len(r) <= Len(q) /\ Len(q) <= Len(p) /\ r # q /\ q # p
        /\ SubSeq(r, 1, Len(r)) = SubSeq(q, 1, Len(r))
        /\ SubSeq(q, 1, Len(q)) = SubSeq(p, 1, Len(q))
    BY DEF Above, IsStrictPrefix, IsPrefix
  <1>3. /\ \A i \in 1..Len(r) : r[i] = q[i]
        /\ \A i \in 1..Len(q) : q[i] = p[i]
    BY <1>1, <1>2
  <1>4. SubSeq(r, 1, Len(r)) = SubSeq(p, 1, Len(r))
    BY <1>1, <1>2, <1>3
  <1>5. r # p
    BY <1>1, <1>2, <1>3
  <1> QED BY <1>1, <1>2, <1>4, <1>5 DEF Above, IsStrictPrefix, IsPrefix

LEMMA SubtreeAbove ==
  ASSUME NEW p \in Paths, NEW q \in Paths
  PROVE  q \in Subtree(p) <=> q = p \/ p \in Above(q)
  BY DEF Subtree, Under, Above

\* What is below something in a subtree is in the subtree.
LEMMA SubtreeClosed ==
  ASSUME NEW p \in Paths, NEW q \in Subtree(p), NEW r \in Paths, q \in Above(r)
  PROVE  r \in Subtree(p)
  <1>1. q \in Paths
    BY DEF Subtree, Under
  <1> QED BY <1>1, SubtreeAbove, AboveAbove

LEMMA MkDirRooted ==
  ASSUME NEW t, IsRooted(t), NEW p \in Paths, NEW now \in Nat
  PROVE  IsRooted(MkDir(t, p, now))
  <1> DEFINE u == MkDir(t, p, now)
  <1>1. IsTree(u) /\ DOMAIN u = DOMAIN t \cup {p} \cup Above(p)
    BY MkDirTree DEF IsRooted
  <1> HIDE DEF u
  <1>2. IsRooted(u)
    BY <1>1, AboveAbove DEF IsRooted, IsTree
  <1> QED BY <1>2 DEF u

LEMMA CreateFileRooted ==
  ASSUME NEW t, IsRooted(t), NEW p \in Paths, NEW body \in Body, NEW now \in Nat
  PROVE  IsRooted(CreateFile(t, p, body, now))
  <1> DEFINE u == CreateFile(t, p, body, now)
  <1>1. IsTree(u) /\ DOMAIN u = DOMAIN t \cup {p} \cup Above(p)
    BY CreateFileTree DEF IsRooted
  <1> HIDE DEF u
  <1>2. IsRooted(u)
    BY <1>1, AboveAbove DEF IsRooted, IsTree
  <1> QED BY <1>2 DEF u

LEMMA FillFileRooted ==
  ASSUME NEW t, IsRooted(t), NEW p, NEW body \in Body, NEW now \in Nat
  PROVE  IsRooted(FillFile(t, p, body, now))
  <1> DEFINE u == FillFile(t, p, body, now)
  <1>1. IsTree(u) /\ DOMAIN u = DOMAIN t
    BY FillFileTree DEF IsRooted
  <1> HIDE DEF u
  <1>2. IsRooted(u)
    BY <1>1 DEF IsRooted
  <1> QED BY <1>2 DEF u

LEMMA RmRooted ==
  ASSUME NEW t, IsRooted(t), NEW p \in Paths, NEW now \in Nat
  PROVE  IsRooted(Rm(t, p, now))
  <1> DEFINE u == Rm(t, p, now)
  <1>1. IsTree(u) /\ DOMAIN u = DOMAIN t \ Subtree(p)
    BY RmTree DEF IsRooted
  <1> HIDE DEF u
  <1>2. ASSUME NEW q \in DOMAIN u, NEW r \in Above(q) PROVE r \in DOMAIN u
    <2>1. q \in DOMAIN t /\ q \in Paths /\ q \notin Subtree(p)
      BY <1>1 DEF IsRooted, IsTree
    <2>2. r \in DOMAIN t
      BY <2>1 DEF IsRooted
    <2>3. r \notin Subtree(p)
      BY <2>1, SubtreeClosed
    <2> QED BY <1>1, <2>2, <2>3
  <1>3. IsRooted(u)
    BY <1>1, <1>2 DEF IsRooted
  <1> QED BY <1>3 DEF u

-----------------------------------------------------------------------------
(* What an operation leaves of what is not its business: a note keeps its   *)
(* entry, a directory everything but its mtime, and what is new are          *)
(* directories on the way.                                                   *)

KeepsApartFrom(S, t, u) ==
  /\ \A q \in (DOMAIN t \cap DOMAIN u) \ S :
       u[q].body = t[q].body /\ (q \notin Dirs => u[q] = t[q])
  /\ \A q \in DOMAIN u \ (DOMAIN t \cup S) : u[q].body = NoBody

LEMMA StampKeeps ==
  ASSUME NEW old, NEW new, IsTree(new), NEW now \in Nat
  PROVE  \A q \in DOMAIN new :
           /\ Stamp(old, new, now)[q].body = new[q].body
           /\ q \notin Dirs => Stamp(old, new, now)[q] = new[q]
  BY DEF IsTree, Stamp, Entry

LEMMA AddDirsKeeps ==
  ASSUME NEW t, IsTree(t), NEW S \in SUBSET Dirs, NEW now \in Nat
  PROVE  KeepsApartFrom({}, t, AddDirs(t, S, now))
  <1> DEFINE u == [p \in DOMAIN t \cup S |->
                     IF p \in DOMAIN t THEN t[p]
                                       ELSE [body |-> NoBody, mtime |-> now]]
             v == AddDirs(t, S, now)
  <1>1. /\ IsTree(u) /\ DOMAIN u = DOMAIN t \cup S
        /\ \A q \in DOMAIN t : u[q] = t[q]
        /\ \A q \in S \ DOMAIN t : u[q].body = NoBody
    BY PathsAssumption DEF IsTree, Entry, Body
  <1>2. v = Stamp(t, u, now)
    BY DEF AddDirs
  <1> HIDE DEF u, v
  <1>3. /\ DOMAIN v = DOMAIN u
        /\ \A q \in DOMAIN u : v[q].body = u[q].body /\ (q \notin Dirs => v[q] = u[q])
    BY <1>1, <1>2, StampTree, StampKeeps
  <1>4. KeepsApartFrom({}, t, v)
    BY <1>1, <1>3 DEF KeepsApartFrom
  <1> QED BY <1>4 DEF v

LEMMA MkDirKeeps ==
  ASSUME NEW t, IsTree(t), NEW p \in Dirs, NEW now \in Nat
  PROVE  KeepsApartFrom({}, t, MkDir(t, p, now))
  <1> DEFINE S == {p} \cup Above(p)
  <1>1. S \in SUBSET Dirs
    BY PathsAssumption
  <1>2. MkDir(t, p, now) = AddDirs(t, S, now)
    BY DEF MkDir
  <1> HIDE DEF S
  <1> QED BY <1>1, <1>2, AddDirsKeeps

LEMMA CreateFileKeeps ==
  ASSUME NEW t, IsTree(t), NEW p \in Files, NEW body \in Body, NEW now \in Nat
  PROVE  /\ KeepsApartFrom({p}, t, CreateFile(t, p, body, now))
         /\ CreateFile(t, p, body, now)[p] = [body |-> body, mtime |-> now]
  <1> DEFINE S == Above(p)
             u == AddDirs(t, S, now)
             v == [q \in DOMAIN u \cup {p} |->
                     IF q = p THEN [body |-> body, mtime |-> now] ELSE u[q]]
             w == CreateFile(t, p, body, now)
  <1>1. p \in Paths /\ p \notin Dirs /\ S \in SUBSET Dirs /\ S \in SUBSET Paths
    BY PathsAssumption DEF Files
  <1>2. w = Stamp(u, v, now)
    BY DEF CreateFile
  <1> HIDE DEF S
  <1>3. IsTree(u) /\ DOMAIN u = DOMAIN t \cup S /\ KeepsApartFrom({}, t, u)
    BY <1>1, AddDirsTree, AddDirsKeeps
  <1> HIDE DEF u
  <1>4. /\ IsTree(v) /\ DOMAIN v = DOMAIN u \cup {p}
        /\ v[p] = [body |-> body, mtime |-> now]
        /\ \A q \in DOMAIN u \ {p} : v[q] = u[q]
    BY <1>1, <1>3 DEF IsTree, Entry
  <1> HIDE DEF v, w
  <1>5. /\ DOMAIN w = DOMAIN v
        /\ \A q \in DOMAIN v : w[q].body = v[q].body /\ (q \notin Dirs => w[q] = v[q])
    BY <1>2, <1>4, StampTree, StampKeeps
  <1>6. KeepsApartFrom({p}, t, w)
    BY <1>3, <1>4, <1>5 DEF KeepsApartFrom
  <1>7. w[p] = [body |-> body, mtime |-> now]
    BY <1>1, <1>4, <1>5
  <1> QED BY <1>6, <1>7 DEF w

LEMMA FillFileKeeps ==
  ASSUME NEW t, IsTree(t), NEW p \in DOMAIN t, NEW body \in Body, NEW now \in Nat
  PROVE  /\ KeepsApartFrom({p}, t, FillFile(t, p, body, now))
         /\ FillFile(t, p, body, now)[p] = [body |-> body, mtime |-> now]
  BY DEF FillFile, KeepsApartFrom, IsTree

LEMMA RmKeeps ==
  ASSUME NEW t, IsTree(t), NEW p, NEW now \in Nat
  PROVE  KeepsApartFrom({}, t, Rm(t, p, now))
  <1> DEFINE u == [q \in DOMAIN t \ Subtree(p) |-> t[q]]
             v == Rm(t, p, now)
  <1>1. IsTree(u) /\ DOMAIN u = DOMAIN t \ Subtree(p) /\ \A q \in DOMAIN u : u[q] = t[q]
    BY DEF IsTree
  <1>2. v = Stamp(t, u, now)
    BY DEF Rm
  <1> HIDE DEF u, v
  <1>3. /\ DOMAIN v = DOMAIN u
        /\ \A q \in DOMAIN u : v[q].body = u[q].body /\ (q \notin Dirs => v[q] = u[q])
    BY <1>1, <1>2, StampTree, StampKeeps
  <1>4. KeepsApartFrom({}, t, v)
    BY <1>1, <1>3 DEF KeepsApartFrom
  <1> QED BY <1>4 DEF v
=============================================================================

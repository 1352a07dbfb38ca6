------------------------------ MODULE FileTree ------------------------------
(***************************************************************************)
(* The sync directory of a machine, as internal/utils/fileop.go uses it.   *)
(*                                                                         *)
(* A path is the sequence of its components, relative to the sync          *)
(* directory (the "normalized path" of the code).  A tree maps the paths   *)
(* that exist to what a walk can see of them: their body and their         *)
(* modification time, in seconds, the resolution of the time format the    *)
(* metadata is sent in.  Bodies stand for their SHA-256: they can only be  *)
(* compared.  A user's edits are numbered, so a body that is a number is   *)
(* what that edit wrote.                                                   *)
(***************************************************************************)
EXTENDS Integers, Sequences, SequencesExt

CONSTANTS
  Paths,      \* the paths that may exist below a sync directory
  Dirs,       \* those that name directories; the others name .md files
  Excluded,   \* those below .neco, .obsidian or .trash
  Empty,      \* the body of a file that was created and not yet filled
  ErrorPage,  \* the body of the file server's answer to a GET that fails
  NoBody      \* what a directory has in place of a body

Above(p)   == {q \in Paths : IsStrictPrefix(q, p)}
Under(p)   == {q \in Paths : IsStrictPrefix(p, q)}
Subtree(p) == {p} \cup Under(p)

ASSUME ComponentsAssumption == Paths \subseteq Seq(STRING)

ASSUME PathsAssumption ==
  /\ Dirs \subseteq Paths
  /\ \A p \in Paths : Above(p) \subseteq Dirs

\* The exclusion goes by prefix: what is below a hidden directory is hidden.
ASSUME ExcludedAssumption == \A p \in Excluded : Under(p) \subseteq Excluded

Files == Paths \ Dirs

Body  == Nat \cup {Empty, ErrorPage, NoBody}
Entry == [body : Body, mtime : Nat]
IsTree(t) == DOMAIN t \subseteq Paths /\ t \in [DOMAIN t -> Entry]

\* Whatever exists has everything above it.
IsRooted(t) == IsTree(t) /\ \A p \in DOMAIN t : Above(p) \subseteq DOMAIN t

NoFiles == [p \in {} |-> NoBody]

-----------------------------------------------------------------------------
(* The file system: a directory's mtime is when a name was last added to   *)
(* or removed from it; writing into a file does not touch the directory.   *)

Names(t, d) == {p \in DOMAIN t : Front(p) = d}

Stamp(old, new, now) ==
  [p \in DOMAIN new |->
     IF p \in Dirs /\ Names(old, p) # Names(new, p)
       THEN [new[p] EXCEPT !.mtime = now]
       ELSE new[p]]

\* Mutant: the sync directory itself, which the walk skips, is among the paths.
AddDirsWithRoot(t, S, now) ==
  [p \in DOMAIN t \cup S \cup {<<>>} |->
     IF p \in DOMAIN t THEN t[p] ELSE [body |-> NoBody, mtime |-> now]]

AddDirs(t, S, now) ==
  Stamp(t, [p \in DOMAIN t \cup S |->
              IF p \in DOMAIN t THEN t[p] ELSE [body |-> NoBody, mtime |-> now]],
        now)

\* MkdirAll: the directory and whatever is missing above it.
MkDir(t, p, now) == AddDirs(t, {p} \cup Above(p), now)

\* MkdirAll of the file's directory, then os.Create, in one step: another handler's
\* RemoveAll in between makes os.Create fail, and the request ends without a message
\* (TransferFail of SnapshotSync, Fail of LiveSync).
CreateFile(t, p, body, now) ==
  LET u == AddDirs(t, Above(p), now) IN
  Stamp(u, [q \in DOMAIN u \cup {p} |->
              IF q = p THEN [body |-> body, mtime |-> now] ELSE u[q]],
        now)

\* io.Copy into a file that exists.
FillFile(t, p, body, now) ==
  [t EXCEPT ![p] = [body |-> body, mtime |-> now]]

\* Mutant: what is in a directory is not removed with it.
RmOne(t, p, now) ==
  Stamp(t, [q \in DOMAIN t \ {p} |-> t[q]], now)

\* RemoveAll: no error, and nothing to do, when the path does not exist.
Rm(t, p, now) ==
  Stamp(t, [q \in DOMAIN t \ Subtree(p) |-> t[q]], now)

\* A path of Subtree(p) after p has become q, and back.
Rebase(r, p, q) == q \o SubSeq(r, Len(p) + 1, Len(r))

\* os.Rename wants the new name's directory, takes the place of a file, and
\* takes no directory's place, not even an empty one's.
CanMove(t, p, q) ==
  /\ p \in DOMAIN t /\ Above(q) \subseteq DOMAIN t
  /\ q \in DOMAIN t => {p, q} \cap Dirs = {}
  /\ q \notin Subtree(p)

\* What is below p goes with it.
Move(t, p, q, now) ==
  LET kept  == {r \in DOMAIN t \ Subtree(p) : r # q}
      moved == {r \in Subtree(q) : Rebase(r, q, p) \in DOMAIN t \cap Subtree(p)}
  IN Stamp(t, [r \in kept \cup moved |->
                 IF r \in moved THEN t[Rebase(r, q, p)] ELSE t[r]],
           now)
=============================================================================

--------------------------- MODULE CalmSyncProofs ---------------------------
(* What a run of clientsync that nobody disturbs does, for any paths,       *)
(* clients and bounds: it respects the times it compared, and it leaves the *)
(* client and the server with the same directory.                           *)
EXTENDS SnapshotSyncProofs

-----------------------------------------------------------------------------
(* The directories: whatever exists has a directory, which has no body; the *)
(* snapshots are closed in the same way; notes are transferred, directories *)
(* created.                                                                 *)

Sound(t)  == IsRooted(t) /\ \A p \in Dirs \cap DOMAIN t : t[p].body = NoBody
Closed(f) == \A p \in DOMAIN f : Above(p) \subseteq DOMAIN f

TreesSound     == Sound(server) /\ \A c \in Clients : Sound(local[c])
SnapshotClosed ==
  \A c \in Clients :
    Closed(sync[c].final) /\ (shot[c] # NoShot => Closed(shot[c]))
Kinds(r) ==
  /\ \A e \in r.todo : e.act = "create" => e.path \in Dirs
  /\ \A a \in r.acts : IF a.act = "mkdir" THEN a.path \in Dirs ELSE a.path \in Files
  /\ r.op.step # "none" => r.op.path \in Files

TreesInv == TreesSound /\ SnapshotClosed /\ \A c \in Clients : Kinds(sync[c])

LEMMA NoFilesSound == Sound(NoFiles) /\ Closed(NoFiles)
  BY NoFilesType DEF Sound, Closed, IsRooted

LEMMA MkDirSound ==
  ASSUME NEW t, Sound(t), NEW p \in Dirs, NEW time \in Nat
  PROVE  Sound(MkDir(t, p, time))
  <1> DEFINE u == MkDir(t, p, time)
  <1>1. IsTree(t) /\ p \in Paths
    BY PathsAssumption DEF Sound, IsRooted
  <1>2. IsRooted(u) /\ KeepsApartFrom({}, t, u)
    BY <1>1, MkDirRooted, MkDirKeeps DEF Sound
  <1> HIDE DEF u
  <1>3. Sound(u)
    BY <1>2 DEF Sound, KeepsApartFrom
  <1> QED BY <1>3 DEF u

LEMMA CreateFileSound ==
  ASSUME NEW t, Sound(t), NEW p \in Files, NEW body \in Body, NEW time \in Nat
  PROVE  Sound(CreateFile(t, p, body, time))
  <1> DEFINE u == CreateFile(t, p, body, time)
  <1>1. IsTree(t) /\ p \in Paths /\ p \notin Dirs
    BY DEF Sound, IsRooted, Files
  <1>2. IsRooted(u) /\ KeepsApartFrom({p}, t, u)
    BY <1>1, CreateFileRooted, CreateFileKeeps DEF Sound
  <1> HIDE DEF u
  <1>3. Sound(u)
    BY <1>1, <1>2 DEF Sound, KeepsApartFrom
  <1> QED BY <1>3 DEF u

\* os.Create, as the handler and the client call it.
LEMMA CreateEmpty ==
  ASSUME NEW t, Sound(t), NEW p \in Files, NEW time \in Nat
  PROVE  LET u == CreateFile(t, p, Empty, time) IN
         /\ Sound(u)
         /\ DOMAIN u = DOMAIN t \cup {p} \cup Above(p)
         /\ KeepsApartFrom({p}, t, u)
         /\ u[p] = [body |-> Empty, mtime |-> time]
  <1>1. IsTree(t) /\ p \in Paths /\ Empty \in Body
    BY DEF Sound, IsRooted, Files, Body
  <1>2. Sound(CreateFile(t, p, Empty, time))
    BY <1>1, CreateFileSound
  <1>3. DOMAIN CreateFile(t, p, Empty, time) = DOMAIN t \cup {p} \cup Above(p)
    BY <1>1, CreateFileTree
  <1>4. /\ KeepsApartFrom({p}, t, CreateFile(t, p, Empty, time))
        /\ CreateFile(t, p, Empty, time)[p] = [body |-> Empty, mtime |-> time]
    BY <1>1, CreateFileKeeps
  <1> QED BY <1>2, <1>3, <1>4

LEMMA FillFileSound ==
  ASSUME NEW t, Sound(t), NEW p \in Files, NEW body \in Body, NEW time \in Nat
  PROVE  Sound(FillFile(t, p, body, time))
  <1>1. IsRooted(FillFile(t, p, body, time))
    BY FillFileRooted DEF Sound
  <1> QED BY <1>1 DEF Sound, FillFile, Files

LEMMA RmSound ==
  ASSUME NEW t, Sound(t), NEW p \in Paths, NEW time \in Nat
  PROVE  Sound(Rm(t, p, time))
  <1> DEFINE u == Rm(t, p, time)
  <1>1. IsRooted(u) /\ KeepsApartFrom({}, t, u)
    BY RmRooted, RmKeeps DEF Sound, IsRooted
  <1>2. DOMAIN u \subseteq DOMAIN t
    BY RmTree DEF Sound, IsRooted
  <1> HIDE DEF u
  <1>3. Sound(u)
    BY <1>1, <1>2 DEF Sound, KeepsApartFrom
  <1> QED BY <1>3 DEF u

LEMMA MetadataClosed ==
  ASSUME NEW t, IsRooted(t)
  PROVE  Closed(GetLocalMetadata(t))
  <1>1. DOMAIN GetLocalMetadata(t) = DOMAIN t \ Excluded
    BY MetadataSnapshot DEF IsRooted
  <1> QED BY <1>1, AboveNotExcluded DEF Closed, IsRooted, IsTree

LEMMA FinalClosed ==
  ASSUME NEW last, NEW current, IsSnapshot(last), IsSnapshot(current),
         Tombstones(current) = {}, Closed(last), Closed(current)
  PROVE  Closed(FinalSnapshot(last, current))
  BY FinalSnapshotOfTwo DEF Closed

LEMMA WorkKinds ==
  ASSUME NEW s, NEW f, IsSnapshot(s), IsSnapshot(f)
  PROVE  /\ \A e \in Effects(s, f) : e.act = "create" => e.path \in Dirs
         /\ \A a \in Actions(s, f) :
              IF a.act = "mkdir" THEN a.path \in Dirs ELSE a.path \in Files
  BY DEF Effects, Creations, Actions, Uploads, Downloads, MkDirs

LEMMA InitTrees == Init => TreesInv
  <1> SUFFICES ASSUME Init PROVE TreesInv
    OBVIOUS
  <1>1. TreesSound /\ SnapshotClosed
    BY NoFilesSound DEF Init, TreesSound, SnapshotClosed
  <1>2. \A c \in Clients : Kinds(sync[c])
    BY DEF Init, Kinds, NoOp
  <1> QED BY <1>1, <1>2 DEF TreesInv

LEMMA TreesFrame ==
  ASSUME TreesInv, TreesSound',
         \A c \in Clients :
           /\ sync'[c].final = sync[c].final \/ Closed(sync'[c].final)
           /\ shot'[c] \in {shot[c], NoShot} \/ Closed(shot'[c])
           /\ Kinds(sync'[c])
  PROVE  TreesInv'
  BY DEF TreesInv, SnapshotClosed

\* No new work, and no transfer but the one there was.
LEMMA KindsFrame ==
  ASSUME NEW r, Kinds(r), NEW q, q.todo \subseteq r.todo, q.acts \subseteq r.acts,
         \/ q.op.step = "none"
         \/ r.op.step # "none" /\ q.op.path = r.op.path
  PROVE  Kinds(q)
  BY DEF Kinds

LEMMA NextTrees == TypeOK /\ TreesInv /\ [Next]_vars => TreesInv'
  <1> SUFFICES ASSUME TypeOK, TreesInv, [Next]_vars PROVE TreesInv'
    OBVIOUS
  <1>0. /\ DOMAIN sync = Clients /\ DOMAIN shot = Clients /\ DOMAIN local = Clients
        /\ now \in Nat /\ NoOp.step = "none" /\ Empty \in Body
    BY DEF TypeOK, NoOp, Body
  <1>F. \A c \in Clients :
          sync[c] \in [pc : PCs, final : {sync[c].final}, todo : SUBSET Effect,
                      acts : SUBSET Action, op : Transfer]
    BY DEF TypeOK, IsRun
  <1>K. /\ \A c \in Clients : Kinds(sync[c])
        /\ TreesSound /\ Sound(server) /\ \A c \in Clients : Sound(local[c])
    BY DEF TreesInv, TreesSound
  <1>1. ASSUME NEW c \in Clients, SyncStart(c) PROVE TreesInv'
    <2>1. Kinds(sync'[c])
      BY <1>0, <1>F, <1>K, <1>1, KindsFrame DEF SyncStart, Kinds
    <2>2. TreesSound'
      BY <1>1, <1>K DEF SyncStart, TreesSound
    <2> QED BY <1>0, <1>F, <1>K, <1>1, <2>1, <2>2, TreesFrame, NoFilesSound DEF SyncStart
  <1>2. ASSUME NEW c \in Clients, PostSnapshot(c) PROVE TreesInv'
    <2> DEFINE current == GetLocalMetadata(local[c])
               final == IF shot[c] = NoShot THEN current
                        ELSE FinalSnapshot(shot[c], current)
    <2>1. IsSnapshot(current) /\ Closed(current) /\ Tombstones(current) = {}
      BY <1>K, MetadataClosed, MetadataSnapshot DEF Sound, IsRooted
    <2>2. Closed(final)
      BY <2>1, FinalClosed DEF TypeOK, TreesInv, SnapshotClosed
    <2>3. /\ sync' = [sync EXCEPT ![c].pc = "posted", ![c].final = final]
          /\ shot' = shot /\ local' = local /\ server' = server
      BY <1>2 DEF PostSnapshot
    <2> HIDE DEF final
    <2>4. TreesSound'
      BY <1>K, <2>3 DEF TreesSound
    <2>5. Kinds(sync'[c]) /\ sync'[c].final = final
      BY <1>0, <1>F, <1>K, <2>3 DEF Kinds
    <2> QED BY <1>0, <1>K, <2>2, <2>3, <2>4, <2>5, TreesFrame
  <1>3. ASSUME NEW c \in Clients, HandleSnapshot(c) PROVE TreesInv'
    <2> DEFINE E == Effects(GetLocalMetadata(server), sync[c].final)
               A == Actions(GetLocalMetadata(server), sync[c].final)
    <2>1. /\ \A e \in E : e.act = "create" => e.path \in Dirs
          /\ \A a \in A : IF a.act = "mkdir" THEN a.path \in Dirs ELSE a.path \in Files
      BY MetadataSnapshot, WorkKinds DEF TypeOK, IsRun
    <2>2. /\ sync' = [sync EXCEPT ![c].pc = "handling", ![c].todo = E, ![c].acts = A]
          /\ shot' = shot /\ local' = local /\ server' = server
      BY <1>3 DEF HandleSnapshot
    <2> HIDE DEF E, A
    <2>3. TreesSound'
      BY <1>K, <2>2 DEF TreesSound
    <2>4. Kinds(sync'[c]) /\ sync'[c].final = sync[c].final
      BY <1>0, <1>F, <1>K, <2>1, <2>2 DEF Kinds
    <2> QED BY <1>0, <1>F, <1>K, <2>2, <2>3, <2>4, TreesFrame
  <1>4. ASSUME NEW c \in Clients, HandleRemove(c) PROVE TreesInv'
    <2>1. PICK e \in sync[c].todo :
            /\ sync' = [Unlink("copy", Subtree(e.path)) EXCEPT ![c].todo = @ \ {e}]
            /\ server' = Rm(server, e.path, now) /\ shot' = shot /\ local' = local
      BY <1>4 DEF HandleRemove
    <2> DEFINE u == Unlink("copy", Subtree(e.path))
    <2>2. DOMAIN u = Clients /\ \A d \in Clients :
            /\ IsRun(u[d])
            /\ u[d].final = sync[d].final /\ u[d].todo = sync[d].todo
            /\ u[d].acts = sync[d].acts
            /\ u[d].op.path = sync[d].op.path /\ u[d].op.step = sync[d].op.step
      BY UnlinkRuns DEF TypeOK, Unlink
    <2>3. sync' = [u EXCEPT ![c].todo = @ \ {e}]
      BY <2>1
    <2> HIDE DEF u
    <2>4. \A d \in Clients :
            /\ sync'[d].final = sync[d].final /\ sync'[d].acts = sync[d].acts
            /\ sync'[d].todo \subseteq sync[d].todo
            /\ sync'[d].op.path = sync[d].op.path /\ sync'[d].op.step = sync[d].op.step
      BY <2>2, <2>3 DEF IsRun
    <2>5. \A d \in Clients : Kinds(sync'[d])
      BY <1>K, <2>4, KindsFrame
    <2>6. e.path \in Paths
      BY <1>F DEF Effect
    <2>7. TreesSound'
      BY <1>0, <1>K, <2>1, <2>6, RmSound DEF TreesSound
    <2> QED BY <2>1, <2>4, <2>5, <2>7, TreesFrame
  <1>5. ASSUME NEW c \in Clients, HandleDirectory(c) PROVE TreesInv'
    <2>1. PICK e \in sync[c].todo :
            /\ e.act = "create"
            /\ sync' = [sync EXCEPT ![c].todo = @ \ {e}]
            /\ server' = MkDir(server, e.path, now) /\ shot' = shot /\ local' = local
      BY <1>5 DEF HandleDirectory
    <2>2. e.path \in Dirs
      BY <1>K, <2>1 DEF Kinds
    <2>3. TreesSound'
      BY <1>0, <1>K, <2>1, <2>2, MkDirSound DEF TreesSound
    <2>4. Kinds(sync'[c]) /\ sync'[c].final = sync[c].final
      BY <1>0, <1>F, <1>K, <2>1 DEF Kinds
    <2> QED BY <1>0, <1>K, <2>1, <2>3, <2>4, TreesFrame
  <1>6. ASSUME NEW c \in Clients, Respond(c) PROVE TreesInv'
    <2>1. Kinds(sync'[c]) /\ sync'[c].final = sync[c].final
      BY <1>0, <1>F, <1>K, <1>6 DEF Respond, Kinds
    <2> QED BY <1>0, <1>K, <1>6, <2>1, TreesFrame DEF Respond, TreesSound
  <1>7. ASSUME NEW c \in Clients, UploadOpen(c) PROVE TreesInv'
    <2>1. PICK a \in sync[c].acts :
            /\ a.act = "upload"
            /\ sync' = [sync EXCEPT
                          ![c].acts = @ \ {a},
                          ![c].op = IF a.path \in DOMAIN local[c]
                                      THEN [step |-> "post", path |-> a.path,
                                            body |-> local[c][a.path].body,
                                            linked |-> TRUE]
                                      ELSE NoOp]
            /\ server' = server /\ shot' = shot /\ local' = local
      BY <1>7 DEF UploadOpen
    <2>2. a.path \in Files
      BY <1>K, <2>1 DEF Kinds
    <2>3. Kinds(sync'[c]) /\ sync'[c].final = sync[c].final
      BY <1>0, <1>F, <1>K, <2>1, <2>2 DEF Kinds
    <2>4. TreesSound'
      BY <1>K, <2>1 DEF TreesSound
    <2> QED BY <1>0, <1>K, <2>1, <2>3, <2>4, TreesFrame
  <1>8. ASSUME NEW c \in Clients, UploadCreate(c) PROVE TreesInv'
    <2>1. /\ sync[c].op.step = "post" /\ sync' = [sync EXCEPT ![c].op.step = "copy"]
          /\ server' = CreateFile(server, sync[c].op.path, Empty, now)
          /\ shot' = shot /\ local' = local
      BY <1>8 DEF UploadCreate
    <2>2. sync[c].op.path \in Files
      BY <1>K, <2>1 DEF Kinds
    <2>3. TreesSound'
      BY <1>0, <1>K, <2>1, <2>2, CreateFileSound DEF TreesSound
    <2>4. Kinds(sync'[c]) /\ sync'[c].final = sync[c].final
      BY <1>0, <1>F, <1>K, <2>1, <2>2 DEF Kinds
    <2> QED BY <1>0, <1>K, <2>1, <2>3, <2>4, TreesFrame
  <1>9. ASSUME NEW c \in Clients, UploadCopy(c) PROVE TreesInv'
    <2>1. /\ sync[c].op.step = "copy" /\ sync' = [sync EXCEPT ![c].op = NoOp]
          /\ \/ server' = FillFile(server, sync[c].op.path, sync[c].op.body, now)
             \/ server' = server
          /\ shot' = shot /\ local' = local
      BY <1>9 DEF UploadCopy
    <2>2. sync[c].op.path \in Files /\ sync[c].op.body \in Body
      BY <1>F, <1>K, <2>1, TransferWith DEF Kinds
    <2>3. TreesSound'
      BY <1>0, <1>K, <2>1, <2>2, FillFileSound DEF TreesSound
    <2>4. Kinds(sync'[c]) /\ sync'[c].final = sync[c].final
      BY <1>0, <1>F, <1>K, <2>1 DEF Kinds
    <2> QED BY <1>0, <1>K, <2>1, <2>3, <2>4, TreesFrame
  <1>10. ASSUME NEW c \in Clients, DownloadCreate(c) PROVE TreesInv'
    <2>1. PICK a \in sync[c].acts :
            /\ a.act = "download"
            /\ local' = [local EXCEPT ![c] = CreateFile(@, a.path, Empty, now)]
            /\ sync' = [sync EXCEPT
                          ![c].acts = @ \ {a},
                          ![c].op = [step |-> "fetch", path |-> a.path,
                                     body |-> Empty, linked |-> TRUE]]
            /\ server' = server /\ shot' = shot
      BY <1>10 DEF DownloadCreate
    <2>2. a.path \in Files
      BY <1>K, <2>1 DEF Kinds
    <2>3. Sound(CreateFile(local[c], a.path, Empty, now))
      BY <1>0, <1>K, <2>2, CreateFileSound
    <2>4. TreesSound'
      BY <1>0, <1>K, <2>1, <2>3 DEF TreesSound
    <2>5. Kinds(sync'[c]) /\ sync'[c].final = sync[c].final
      BY <1>0, <1>F, <1>K, <2>1, <2>2 DEF Kinds
    <2> QED BY <1>0, <1>K, <2>1, <2>4, <2>5, TreesFrame
  <1>11. ASSUME NEW c \in Clients, DownloadCopy(c) PROVE TreesInv'
    <2> DEFINE op == sync[c].op
               body == IF op.path \in DOMAIN server THEN server[op.path].body
                                                    ELSE ErrorPage
    <2>1. body \in Body
      BY DEF TypeOK, IsTree, Entry, Body
    <2>2. /\ op.step = "fetch" /\ sync' = [sync EXCEPT ![c].op = NoOp]
          /\ local' = IF op.linked
                        THEN [local EXCEPT ![c] = FillFile(@, op.path, body, now)]
                        ELSE local
          /\ server' = server /\ shot' = shot
      BY <1>11 DEF DownloadCopy
    <2> HIDE DEF body
    <2>3. op.path \in Files
      BY <1>K, <2>2 DEF Kinds
    <2>4. Sound(FillFile(local[c], op.path, body, now))
      BY <1>0, <1>K, <2>1, <2>3, FillFileSound
    <2>5. TreesSound'
      BY <1>0, <1>K, <2>2, <2>4 DEF TreesSound
    <2>6. Kinds(sync'[c]) /\ sync'[c].final = sync[c].final
      BY <1>0, <1>F, <1>K, <2>2 DEF Kinds
    <2> QED BY <1>0, <1>K, <2>2, <2>5, <2>6, TreesFrame
  <1>12. ASSUME NEW c \in Clients, ActionMkDir(c) PROVE TreesInv'
    <2>1. PICK a \in sync[c].acts :
            /\ a.act = "mkdir"
            /\ local' = [local EXCEPT ![c] = MkDir(@, a.path, now)]
            /\ sync' = [sync EXCEPT ![c].acts = @ \ {a}]
            /\ server' = server /\ shot' = shot
      BY <1>12 DEF ActionMkDir
    <2>2. a.path \in Dirs
      BY <1>K, <2>1 DEF Kinds
    <2>3. Sound(MkDir(local[c], a.path, now))
      BY <1>0, <1>K, <2>2, MkDirSound
    <2>4. TreesSound'
      BY <1>0, <1>K, <2>1, <2>3 DEF TreesSound
    <2>5. Kinds(sync'[c]) /\ sync'[c].final = sync[c].final
      BY <1>0, <1>F, <1>K, <2>1 DEF Kinds
    <2> QED BY <1>0, <1>K, <2>1, <2>4, <2>5, TreesFrame
  <1>13. ASSUME NEW c \in Clients, CreateDirectorySnapshot(c) PROVE TreesInv'
    <2>1. Closed(GetLocalMetadata(local[c]))
      BY <1>K, MetadataClosed DEF Sound
    <2>2. Kinds(sync'[c]) /\ sync'[c].final = sync[c].final
      BY <1>0, <1>F, <1>K, <1>13 DEF CreateDirectorySnapshot, Kinds
    <2>3. TreesSound'
      BY <1>K, <1>13 DEF CreateDirectorySnapshot, TreesSound
    <2> QED BY <1>0, <1>K, <1>13, <2>1, <2>2, <2>3, TreesFrame DEF CreateDirectorySnapshot
  <1>14. ASSUME Publish PROVE TreesInv'
    BY <1>14 DEF Publish, TreesInv, TreesSound, SnapshotClosed
  <1>15. ASSUME PublishFail PROVE TreesInv'
    <2>1. PICK m \in unsent :
            /\ \/ sync' = sync
               \/ /\ sync[m.client].pc \in {"handling", "orphan"}
                  /\ sync' = [sync EXCEPT ![m.client].pc = "idle",
                                          ![m.client].todo = {}, ![m.client].acts = {}]
            /\ server' = server /\ shot' = shot /\ local' = local
      BY <1>15 DEF PublishFail, HandlerEnds
    <2>2. m.client \in Clients
      BY DEF TypeOK, Message
    <2>3. Kinds(sync'[m.client]) /\ sync'[m.client].final = sync[m.client].final
      BY <1>0, <1>F, <1>K, <2>1, <2>2 DEF Kinds
    <2>4. TreesSound'
      BY <1>K, <2>1 DEF TreesSound
    <2> QED BY <1>0, <1>K, <2>1, <2>2, <2>3, <2>4, TreesFrame
  <1>16. ASSUME NEW c \in Clients, TransferFail(c) PROVE TreesInv'
    <2>1. Kinds(sync'[c]) /\ sync'[c].final = sync[c].final
      BY <1>0, <1>F, <1>K, <1>16 DEF TransferFail, Kinds
    <2>2. TreesSound'
      BY <1>K, <1>16 DEF TransferFail, TreesSound
    <2> QED BY <1>0, <1>K, <1>16, <2>1, <2>2, TreesFrame DEF TransferFail
  <1>17. ASSUME NEW c \in Clients, Kill(c) PROVE TreesInv'
    <2>1. Kinds(sync'[c]) /\ sync'[c].final = sync[c].final
      BY <1>0, <1>F, <1>K, <1>17 DEF Kill, Kinds
    <2>2. TreesSound'
      BY <1>K, <1>17 DEF Kill, TreesSound
    <2> QED BY <1>0, <1>K, <1>17, <2>1, <2>2, TreesFrame DEF Kill
  <1>18. ASSUME NEW c \in Clients, KillInSnapshot(c) PROVE TreesInv'
    <2>1. Kinds(sync'[c]) /\ sync'[c].final = sync[c].final
      BY <1>0, <1>F, <1>K, <1>18 DEF KillInSnapshot, Kinds
    <2>2. TreesSound'
      BY <1>K, <1>18 DEF KillInSnapshot, TreesSound
    <2> QED BY <1>0, <1>K, <1>18, <2>1, <2>2, TreesFrame DEF KillInSnapshot
  <1>24. ASSUME NEW c \in Clients, HandlerFail(c) PROVE TreesInv'
    <2>1. Kinds(sync'[c]) /\ sync'[c].final = sync[c].final
      BY <1>0, <1>F, <1>K, <1>24 DEF HandlerFail, HandlerEnds, Kinds
    <2>2. TreesSound'
      BY <1>K, <1>24 DEF HandlerFail, TreesSound
    <2> QED BY <1>0, <1>K, <1>24, <2>1, <2>2, TreesFrame DEF HandlerFail, HandlerEnds
  <1>19. ASSUME NEW c \in Clients, Edit(c) PROVE TreesInv'
    <2>1. PICK p \in Files :
            /\ local' = [local EXCEPT ![c] = CreateFile(@, p, edits + 1, now)]
            /\ server' = server /\ shot' = shot /\ sync' = sync
      BY <1>19 DEF Edit, UserStep
    <2>2. edits + 1 \in Body
      BY DEF TypeOK, Body
    <2>3. Sound(CreateFile(local[c], p, edits + 1, now))
      BY <1>0, <1>K, <2>2, CreateFileSound
    <2>4. TreesSound'
      BY <1>0, <1>K, <2>1, <2>3 DEF TreesSound
    <2> QED BY <1>K, <2>1, <2>4, TreesFrame
  <1>20. ASSUME NEW c \in Clients, NewDir(c) PROVE TreesInv'
    <2>1. PICK p \in Dirs :
            /\ local' = [local EXCEPT ![c] = MkDir(@, p, now)]
            /\ server' = server /\ shot' = shot /\ sync' = sync
      BY <1>20 DEF NewDir, UserStep
    <2>2. Sound(MkDir(local[c], p, now))
      BY <1>0, <1>K, MkDirSound
    <2>3. TreesSound'
      BY <1>0, <1>K, <2>1, <2>2 DEF TreesSound
    <2> QED BY <1>K, <2>1, <2>3, TreesFrame
  <1>21. ASSUME NEW c \in Clients, Delete(c) PROVE TreesInv'
    <2>1. PICK p \in DOMAIN local[c] :
            /\ local' = [local EXCEPT ![c] = Rm(@, p, now)]
            /\ sync' = [sync EXCEPT ![c] =
                          IF @.op.step = "fetch" /\ @.op.path \in Subtree(p)
                            THEN [@ EXCEPT !.op.linked = FALSE] ELSE @]
            /\ server' = server /\ shot' = shot
      BY <1>21 DEF Delete, UserStep
    <2>2. p \in Paths
      BY DEF TypeOK, IsTree
    <2>3. Sound(Rm(local[c], p, now))
      BY <1>0, <1>K, <2>2, RmSound
    <2>4. TreesSound'
      BY <1>0, <1>K, <2>1, <2>3 DEF TreesSound
    <2>5. /\ sync'[c].final = sync[c].final /\ sync'[c].todo = sync[c].todo
          /\ sync'[c].acts = sync[c].acts
          /\ sync'[c].op.path = sync[c].op.path /\ sync'[c].op.step = sync[c].op.step
      BY <1>0, <1>F, <2>1, TransferWith DEF Transfer, NoOp
    <2>6. Kinds(sync'[c])
      BY <1>K, <2>5, KindsFrame
    <2> QED BY <1>0, <1>K, <2>1, <2>4, <2>5, <2>6, TreesFrame
  <1>22. CASE Tick
    BY <1>22 DEF Tick, TreesInv, TreesSound, SnapshotClosed
  <1>23. CASE UNCHANGED vars
    BY <1>23 DEF vars, TreesInv, TreesSound, SnapshotClosed
  <1> QED
    BY <1>1, <1>2, <1>3, <1>4, <1>5, <1>6, <1>7, <1>8, <1>9, <1>10, <1>11, <1>12,
       <1>13, <1>14, <1>15, <1>16, <1>17, <1>18, <1>19, <1>20, <1>21, <1>22, <1>23,
       <1>24
    DEF Next, RunStep, HandlerStep, ActionStep, Failure, User

-----------------------------------------------------------------------------
(* A run that nobody disturbs, as a relation between the run r, the client's *)
(* directory l and the server's s.  What is not the same in both is still to *)
(* be done; what is still to be done is possible, and is as new as it was    *)
(* when the server compared: apart from the paths X, which others have been  *)
(* at work on meanwhile.  Of a calm run there are none.                      *)

\* The snapshot that was posted says what is in the client's directory.
AsWalked(r, l) ==
  /\ DOMAIN l \ Excluded = DOMAIN r.final \ Tombstones(r.final)
  /\ \A p \in DOMAIN l \ Excluded :
       r.final[p].body = l[p].body /\ r.final[p].mtime = l[p].mtime

Has(work, act, p) == [act |-> act, path |-> p] \in work
At(op, p)         == op.step # "none" /\ op.path = p
Spared(r, X)      == Doomed(r.final) \cup X
Kept(r, X)        == Paths \ (Excluded \cup Spared(r, X))

NotesInWork(r, l, s, X) ==
  \A p \in Files \cap Kept(r, X) :
    \/ Same(l, s, p) \/ At(r.op, p)
    \/ Has(r.acts, "upload", p) \/ Has(r.acts, "download", p)
DirsInWork(r, l, s, X) ==
  \A p \in Dirs \cap Kept(r, X) :
    \/ Same(l, s, p)
    \/ p \in DOMAIN l /\ Has(r.todo, "create", p)
    \/ p \in DOMAIN s /\ Has(r.acts, "mkdir", p)

RemovesOlder(r, s, X) ==
  \A e \in r.todo : e.act = "remove" =>
    /\ e.path \in Tombstones(r.final)
    /\ e.path \in (Files \cap DOMAIN s) \ X => r.final[e.path].mtime >= s[e.path].mtime
CreatesKnown(r, l, X) ==
  \A e \in r.todo : e.act = "create" =>
    ({e.path} \cup Above(e.path)) \ Spared(r, X) \subseteq DOMAIN l

UploadsNewer(r, l, s, X) ==
  \A p \in Files : Has(r.acts, "upload", p) =>
    /\ ~Has(r.acts, "download", p)
    /\ p \in Kept(r, X) => p \in DOMAIN l
    /\ p \in (DOMAIN l \cap DOMAIN s) \ X => l[p].mtime >= s[p].mtime
DownloadsKnown(r, s, X) ==
  \A a \in r.acts : a.act # "upload" =>
    ({a.path} \cup Above(a.path)) \ Spared(r, X) \subseteq DOMAIN s
DownloadsNewer(r, l, s, X) ==
  \A p \in Files : Has(r.acts, "download", p) /\ p \in DOMAIN l \ X =>
    p \notin Doomed(r.final) /\ s[p].mtime > l[p].mtime

TransferKnown(r, l, s, X) ==
  LET op == r.op
      p  == op.path
  IN op.step # "none" =>
       /\ p \in DOMAIN l /\ (op.step # "copy" => op.linked)
       /\ ~Has(r.acts, "upload", p) /\ ~Has(r.acts, "download", p)
       /\ op.step \in {"post", "copy"} => op.body = l[p].body
       /\ op.step = "post" /\ p \in DOMAIN s \ X => l[p].mtime >= s[p].mtime
       /\ op.step = "copy" /\ p \notin X => op.linked /\ p \in DOMAIN s
       /\ op.step = "fetch" =>
            ({p} \cup Above(p)) \ Spared(r, X) \subseteq DOMAIN s

Work(r, l, s, X) ==
  /\ NotesInWork(r, l, s, X) /\ DirsInWork(r, l, s, X)
  /\ RemovesOlder(r, s, X) /\ CreatesKnown(r, l, X)
  /\ UploadsNewer(r, l, s, X) /\ DownloadsKnown(r, s, X) /\ DownloadsNewer(r, l, s, X)
  /\ TransferKnown(r, l, s, X)

RunOf(r, l, s, X) ==
  /\ r.pc # "orphan"
  /\ r.pc = "posted" => AsWalked(r, l)
  /\ r.pc \in {"handling", "acting", "idle"} => Work(r, l, s, X)

CalmInv == \A c \in calm : RunOf(sync[c], local[c], server, {})

-----------------------------------------------------------------------------
LEMMA HasAfter ==
  ASSUME NEW S, S \subseteq Action \/ S \subseteq Effect, NEW a \in S
  PROVE  /\ Has(S, a.act, a.path)
         /\ \A act, p : Has(S \ {a}, act, p) <=> Has(S, act, p) /\ ~(a.act = act /\ a.path = p)
  <1>1. a = [act |-> a.act, path |-> a.path]
    BY DEF Action, Effect
  <1> QED BY <1>1 DEF Has

LEMMA SameDirs ==
  ASSUME NEW l, NEW s, NEW X, Sound(l), Sound(s), NEW p \in Dirs
  PROVE  Same(l, s, p) <=> (p \in DOMAIN l <=> p \in DOMAIN s)
  BY DEF Same, Sound

LEMMA DoomedSubtree ==
  ASSUME NEW f, NEW p \in Tombstones(f)
  PROVE  Subtree(p) \subseteq Doomed(f)
  BY DEF Doomed

\* The comparison decides on everything in which the two differ.
LEMMA WorkCompared ==
  ASSUME NEW r, NEW l, NEW s, NEW X, Sound(l), Sound(s), DOMAIN s \cap Excluded = {},
         IsSnapshot(r.final), Closed(r.final), DOMAIN r.final \cap Excluded = {},
         AsWalked(r, l), r.op.step = "none",
         r.todo = Effects(GetLocalMetadata(s), r.final),
         r.acts = Actions(GetLocalMetadata(s), r.final)
  PROVE  Work(r, l, s, X)
  <1> DEFINE f == r.final
             m == GetLocalMetadata(s)
  <1>1. /\ IsSnapshot(m) /\ DOMAIN m = DOMAIN s
        /\ \A p \in DOMAIN s : m[p].body = s[p].body /\ m[p].mtime = s[p].mtime
    BY MetadataSnapshot DEF Sound, IsRooted, GetLocalMetadata
  <1>2. /\ \A p \in DOMAIN s : m[p].mtime \in Nat
        /\ \A p \in DOMAIN f : f[p].mtime \in Nat
        /\ DOMAIN s \subseteq Paths /\ DOMAIN f \subseteq Paths
    BY <1>1 DEF IsSnapshot, Meta
  <1>3. /\ \A p \in DOMAIN f : p \in Tombstones(f) <=> f[p].status = "deleted"
        /\ \A p \in DOMAIN f : f[p].status # "deleted" <=> f[p].status = "exists"
    BY DEF Tombstones, IsSnapshot, Meta
  <1>4. /\ \A p \in DOMAIN l : p \in Paths /\ Above(p) \subseteq DOMAIN l
        /\ \A p \in DOMAIN s : Above(p) \subseteq DOMAIN s
    BY DEF Sound, IsRooted, IsTree
  <1> HIDE DEF m
  <1>5. /\ \A p : Has(r.todo, "create", p) <=> p \in Creations(m, f)
        /\ \A e \in r.todo : e.act = "create" => e.path \in Creations(m, f)
        /\ \A e \in r.todo : e.act = "remove" => e.path \in Removals(m, f)
        /\ \A p : Has(r.acts, "upload", p) <=> p \in Uploads(m, f)
        /\ \A p : Has(r.acts, "download", p) <=> p \in Downloads(m, f)
        /\ \A p : Has(r.acts, "mkdir", p) <=> p \in MkDirs(m, f)
        /\ \A a \in r.acts : a.act # "upload" => a.path \in DOMAIN m
    BY DEF Has, Effects, Actions, Downloads, MkDirs, m
  <1>6. \A p \in Tombstones(f) : p \in Doomed(f)
    BY DEF Doomed, Subtree
  <1>7. \A p \in DOMAIN l : p \notin Doomed(f) \/ p \in Excluded
    <2> SUFFICES ASSUME NEW p \in DOMAIN l, NEW t \in Tombstones(f), p \in Subtree(t)
                 PROVE  FALSE
      BY DEF Doomed
    <2>1. t \in DOMAIN f /\ t \in Paths /\ t \notin Excluded
      BY <1>2 DEF Tombstones
    <2>2. t \in DOMAIN l
      BY <1>4, <2>1, SubtreeAbove
    <2> QED BY <2>1, <2>2 DEF AsWalked
  <1>8. NotesInWork(r, l, s, X)
    <2> SUFFICES ASSUME NEW p \in Files \cap Kept(r, X), ~Same(l, s, p)
                 PROVE  p \in Uploads(m, f) \/ p \in Downloads(m, f)
      BY <1>5 DEF NotesInWork
    <2>1. p \in Files /\ p \notin Excluded /\ p \notin Tombstones(f)
      BY <1>6 DEF Kept, Spared
    <2>2. p \in DOMAIN l <=> p \in DOMAIN f
      BY <2>1 DEF AsWalked
    <2>3. CASE p \in DOMAIN l /\ p \notin DOMAIN s
      BY <1>1, <2>1, <2>2, <2>3 DEF Uploads
    <2>4. CASE p \notin DOMAIN l /\ p \in DOMAIN s
      BY <1>1, <2>1, <2>2, <2>4 DEF Downloads
    <2>5. CASE p \in DOMAIN l /\ p \in DOMAIN s
      <3>1. HashDiffers(m, f, p) /\ f[p].status = "exists"
        BY <1>1, <1>3, <2>1, <2>2, <2>5 DEF HashDiffers, Same, AsWalked
      <3> QED BY <1>1, <2>1, <2>2, <2>5, <3>1 DEF Uploads, Downloads
    <2> QED BY <2>3, <2>4, <2>5 DEF Same
  <1>9. DirsInWork(r, l, s, X)
    <2> SUFFICES ASSUME NEW p \in Dirs \cap Kept(r, X), ~Same(l, s, p)
                 PROVE  \/ p \in DOMAIN l /\ p \in Creations(m, f)
                        \/ p \in DOMAIN s /\ p \in MkDirs(m, f)
      BY <1>5 DEF DirsInWork
    <2>1. p \in Dirs /\ p \notin Excluded /\ p \notin Tombstones(f)
      BY <1>6 DEF Kept, Spared
    <2>2. p \in DOMAIN l <=> p \in DOMAIN f
      BY <2>1 DEF AsWalked
    <2> QED BY <1>1, <2>1, <2>2, SameDirs DEF Creations, MkDirs
  <1>10. RemovesOlder(r, s, X)
    BY <1>1, <1>2, <1>3, <1>5 DEF RemovesOlder, Removals, ServerWins
  <1>11. CreatesKnown(r, l, X)
    <2> SUFFICES ASSUME NEW e \in r.todo, e.act = "create",
                        NEW q \in {e.path} \cup Above(e.path), q \notin Doomed(f)
                 PROVE  q \in DOMAIN l
      BY DEF CreatesKnown, Spared
    <2>1. q \in DOMAIN f
      BY <1>5 DEF Creations, Closed
    <2> QED BY <1>6, <2>1 DEF AsWalked
  <1>12. UploadsNewer(r, l, s, X)
    <2> SUFFICES ASSUME NEW p \in Files, p \in Uploads(m, f)
                 PROVE  /\ p \notin Downloads(m, f)
                        /\ p \in Kept(r, X) => p \in DOMAIN l
                        /\ p \in DOMAIN l \cap DOMAIN s => l[p].mtime >= s[p].mtime
      BY <1>5 DEF UploadsNewer
    <2>1. p \in DOMAIN f /\ p \notin Excluded
      BY DEF Uploads
    <2>2. p \notin Downloads(m, f)
      BY <2>1 DEF Uploads, Downloads
    <2>3. p \in Kept(r, X) => p \in DOMAIN l
      BY <1>6, <2>1 DEF Kept, Spared, AsWalked
    <2>4. ASSUME p \in DOMAIN l \cap DOMAIN s PROVE l[p].mtime >= s[p].mtime
      <3>1. ~(m[p].mtime > f[p].mtime)
        BY <1>1, <2>4 DEF Uploads, ServerWins
      <3>2. m[p].mtime = s[p].mtime /\ f[p].mtime = l[p].mtime
        BY <1>1, <2>1, <2>4 DEF AsWalked
      <3> QED BY <1>2, <2>1, <2>4, <3>1, <3>2
    <2> QED BY <2>2, <2>3, <2>4
  <1>13. DownloadsKnown(r, s, X)
    BY <1>1, <1>4, <1>5 DEF DownloadsKnown, Spared
  <1>14. DownloadsNewer(r, l, s, X)
    <2> SUFFICES ASSUME NEW p \in Files, p \in Downloads(m, f), p \in DOMAIN l
                 PROVE  p \notin Doomed(f) /\ s[p].mtime > l[p].mtime
      BY <1>5 DEF DownloadsNewer
    <2>1. p \in DOMAIN s /\ p \notin Excluded
      BY <1>1 DEF Downloads
    <2>2. p \in DOMAIN f /\ f[p].mtime = l[p].mtime
      BY <2>1 DEF AsWalked
    <2> QED BY <1>1, <1>7, <2>1, <2>2 DEF Downloads, ServerWins
  <1> QED
    BY <1>8, <1>9, <1>10, <1>11, <1>12, <1>13, <1>14 DEF Work, TransferKnown, Spared

\* A removal at the server takes only what is doomed.
LEMMA WorkRemove ==
  ASSUME NEW r, NEW l, NEW s, NEW X, Work(r, l, s, X), Sound(l), Sound(s),
         r.todo \subseteq Effect, r.op.step = "none",
         NEW e \in r.todo, e.act = "remove", NEW time \in Nat,
         NEW q, q.final = r.final, q.acts = r.acts, q.op = r.op, q.todo = r.todo \ {e}
  PROVE  Work(q, l, Rm(s, e.path, time), X)
  <1> DEFINE u == Rm(s, e.path, time)
  <1>1. /\ DOMAIN u = DOMAIN s \ Subtree(e.path) /\ KeepsApartFrom({}, s, u)
        /\ Sound(u) /\ e.path \in Paths
    <2>1. e.path \in Paths /\ IsTree(s)
      BY DEF Sound, IsRooted, Effect
    <2>2. DOMAIN u = DOMAIN s \ Subtree(e.path)
      BY <2>1, RmTree
    <2>3. KeepsApartFrom({}, s, u)
      BY <2>1, RmKeeps
    <2>4. Sound(u)
      BY <2>1, RmSound
    <2> QED BY <2>1, <2>2, <2>3, <2>4
  <1> HIDE DEF u
  <1>2. /\ Subtree(e.path) \subseteq Doomed(r.final) /\ Kept(q, X) = Kept(r, X)
        /\ \A p \in DOMAIN u : p \in DOMAIN s /\ (p \in Files => u[p] = s[p])
        /\ \A p \in DOMAIN s \ Doomed(r.final) : p \in DOMAIN u
    BY <1>1, DoomedSubtree DEF Work, RemovesOlder, Kept, Spared, KeepsApartFrom, Files
  <1>3. NotesInWork(q, l, u, X)
    BY <1>2 DEF Work, NotesInWork, Same, Kept, Spared
  <1>4. DirsInWork(q, l, u, X)
    <2>1. \A p : Has(q.todo, "create", p) <=> Has(r.todo, "create", p)
      BY HasAfter
    <2> QED BY <1>1, <1>2, <2>1, SameDirs DEF Work, DirsInWork, Kept, Spared
  <1>5. RemovesOlder(q, u, X) /\ CreatesKnown(q, l, X) /\ UploadsNewer(q, l, u, X)
    BY <1>2 DEF Work, RemovesOlder, CreatesKnown, UploadsNewer, Spared
  <1>6. DownloadsKnown(q, u, X)
    BY <1>2 DEF Work, DownloadsKnown, Spared
  <1>7. DownloadsNewer(q, l, u, X)
    <2> SUFFICES ASSUME NEW p \in Files, Has(r.acts, "download", p), p \in DOMAIN l \ X
                 PROVE  p \notin Doomed(r.final) /\ u[p].mtime > l[p].mtime
      BY DEF DownloadsNewer
    <2>1. p \notin Doomed(r.final) /\ s[p].mtime > l[p].mtime
      BY DEF Work, DownloadsNewer
    <2>2. p \in DOMAIN s
      BY <2>1 DEF Work, DownloadsKnown, Has, Spared
    <2> QED BY <1>2, <2>1, <2>2
  <1>8. TransferKnown(q, l, u, X)
    BY DEF TransferKnown, Spared
  <1>9. Work(q, l, u, X)
    BY <1>3, <1>4, <1>5, <1>6, <1>7, <1>8 DEF Work
  <1> QED BY <1>9 DEF u

\* A directory is created at the server only for the client's.
LEMMA WorkCreate ==
  ASSUME NEW r, NEW l, NEW s, NEW X, Work(r, l, s, X), Sound(l), Sound(s),
         r.todo \subseteq Effect, r.op.step = "none",
         NEW e \in r.todo, e.act = "create", e.path \in Dirs, NEW time \in Nat,
         NEW q, q.final = r.final, q.acts = r.acts, q.op = r.op, q.todo = r.todo \ {e}
  PROVE  Work(q, l, MkDir(s, e.path, time), X)
  <1> DEFINE u == MkDir(s, e.path, time)
  <1>1. /\ DOMAIN u = DOMAIN s \cup {e.path} \cup Above(e.path) /\ KeepsApartFrom({}, s, u)
        /\ Sound(u) /\ e.path \in Paths
    <2>1. e.path \in Paths /\ IsTree(s)
      BY PathsAssumption DEF Sound, IsRooted
    <2>2. DOMAIN u = DOMAIN s \cup {e.path} \cup Above(e.path)
      BY <2>1, MkDirTree
    <2>3. KeepsApartFrom({}, s, u)
      BY <2>1, MkDirKeeps
    <2>4. Sound(u)
      BY MkDirSound
    <2> QED BY <2>1, <2>2, <2>3, <2>4
  <1> HIDE DEF u
  <1>2. /\ Kept(q, X) = Kept(r, X)
        /\ \A p \in DOMAIN s : p \in DOMAIN u /\ (p \in Files => u[p] = s[p])
        /\ \A p \in Files : p \in DOMAIN u => p \in DOMAIN s
        /\ \A p \in DOMAIN u : p \in DOMAIN s \/ p \in Spared(r, X) \/ p \in DOMAIN l
    BY <1>1, PathsAssumption DEF Work, CreatesKnown, Kept, Spared, KeepsApartFrom, Files
  <1>3. NotesInWork(q, l, u, X)
    BY <1>2 DEF Work, NotesInWork, Same
  <1>4. DirsInWork(q, l, u, X)
    <2> SUFFICES ASSUME NEW p \in Dirs \cap Kept(r, X), ~Same(l, u, p)
                 PROVE  \/ p \in DOMAIN l /\ Has(q.todo, "create", p)
                        \/ p \in DOMAIN u /\ Has(r.acts, "mkdir", p)
      BY <1>2 DEF DirsInWork
    <2>1. ~Same(l, s, p)
      BY <1>1, <1>2, SameDirs DEF Kept, Spared
    <2>2. CASE p \in DOMAIN l /\ Has(r.todo, "create", p)
      <3>1. p # e.path
        BY <1>1, <2>2, SameDirs
      <3> QED BY <2>2, <3>1, HasAfter
    <2> QED BY <1>2, <2>1, <2>2 DEF Work, DirsInWork
  <1>5. RemovesOlder(q, u, X) /\ CreatesKnown(q, l, X) /\ UploadsNewer(q, l, u, X)
    BY <1>2 DEF Work, RemovesOlder, CreatesKnown, UploadsNewer, Spared
  <1>6. DownloadsKnown(q, u, X)
    BY <1>2 DEF Work, DownloadsKnown, Spared
  <1>7. DownloadsNewer(q, l, u, X)
    <2> SUFFICES ASSUME NEW p \in Files, Has(r.acts, "download", p), p \in DOMAIN l \ X
                 PROVE  p \notin Doomed(r.final) /\ u[p].mtime > l[p].mtime
      BY DEF DownloadsNewer
    <2>1. p \notin Doomed(r.final) /\ s[p].mtime > l[p].mtime
      BY DEF Work, DownloadsNewer
    <2>2. p \in DOMAIN s
      BY <2>1 DEF Work, DownloadsKnown, Has, Spared
    <2> QED BY <1>2, <2>1, <2>2
  <1>8. TransferKnown(q, l, u, X)
    BY DEF TransferKnown, Spared
  <1>9. Work(q, l, u, X)
    BY <1>3, <1>4, <1>5, <1>6, <1>7, <1>8 DEF Work
  <1> QED BY <1>9 DEF u

\* An upload is taken up: what is there is on its way, what is not there was
\* deleted.
LEMMA WorkUploadOpen ==
  ASSUME NEW r, NEW l, NEW s, NEW X, Work(r, l, s, X),
         r.acts \subseteq Action, r.op.step = "none",
         NEW a \in r.acts, a.act = "upload", a.path \in Files,
         NEW q, q.final = r.final, q.todo = r.todo, q.acts = r.acts \ {a},
         IF a.path \in DOMAIN l
           THEN q.op = [step |-> "post", path |-> a.path, body |-> l[a.path].body,
                        linked |-> TRUE]
           ELSE q.op.step = "none"
  PROVE  Work(q, l, s, X)
  <1>1. /\ Has(r.acts, "upload", a.path) /\ ~Has(r.acts, "download", a.path)
        /\ a.path \in Kept(r, X) => a.path \in DOMAIN l
        /\ a.path \in (DOMAIN l \cap DOMAIN s) \ X => l[a.path].mtime >= s[a.path].mtime
        /\ Kept(q, X) = Kept(r, X)
    <2>1. Has(r.acts, "upload", a.path)
      BY HasAfter
    <2>2. Kept(q, X) = Kept(r, X)
      BY DEF Kept, Spared
    <2> QED BY <2>1, <2>2 DEF Work, UploadsNewer
  <1>2. \A act, p : Has(q.acts, act, p) <=>
                      Has(r.acts, act, p) /\ ~(act = "upload" /\ p = a.path)
    BY HasAfter
  <1>3. NotesInWork(q, l, s, X)
    <2>1. a.path \in Kept(r, X) => At(q.op, a.path)
      BY <1>1 DEF At
    <2>2. \A p : ~At(r.op, p)
      BY DEF At
    <2> QED BY <1>1, <1>2, <2>1, <2>2 DEF Work, NotesInWork
  <1>4. DirsInWork(q, l, s, X)
    BY <1>1, <1>2 DEF Work, DirsInWork
  <1>5. RemovesOlder(q, s, X) /\ CreatesKnown(q, l, X)
    BY DEF Work, RemovesOlder, CreatesKnown, Spared
  <1>6. UploadsNewer(q, l, s, X) /\ DownloadsKnown(q, s, X) /\ DownloadsNewer(q, l, s, X)
    BY <1>1, <1>2 DEF Work, UploadsNewer, DownloadsKnown, DownloadsNewer, Spared
  <1>7. TransferKnown(q, l, s, X)
    BY <1>1, <1>2 DEF TransferKnown, Spared
  <1> QED BY <1>3, <1>4, <1>5, <1>6, <1>7 DEF Work

\* The server's file is created for a file the client has.
LEMMA WorkUploadCreate ==
  ASSUME NEW r, NEW l, NEW s, NEW X, Work(r, l, s, X), Sound(l), Sound(s),
         NEW x \in Files, r.todo = {}, r.op.step = "post", r.op.path = x,
         NEW u, Sound(u), DOMAIN u = DOMAIN s \cup {x} \cup Above(x),
         KeepsApartFrom({x}, s, u),
         NEW q, q.final = r.final, q.todo = r.todo, q.acts = r.acts,
         q.op.step = "copy", q.op.path = r.op.path, q.op.body = r.op.body,
         q.op.linked = r.op.linked
  PROVE  Work(q, l, u, X)
  <1>2. /\ r.op.linked /\ x \in DOMAIN l /\ Above(x) \subseteq DOMAIN l
        /\ ~Has(r.acts, "upload", x) /\ ~Has(r.acts, "download", x)
        /\ r.op.body = l[x].body /\ Kept(q, X) = Kept(r, X)
    BY DEF Work, TransferKnown, Sound, IsRooted, Kept, Spared
  <1>3. /\ \A p \in DOMAIN s : p \in DOMAIN u /\ (p \in Files \ {x} => u[p] = s[p])
        /\ \A p \in Files \ {x} : p \in DOMAIN u => p \in DOMAIN s
        /\ \A p \in DOMAIN u : p \in DOMAIN s \/ p \in DOMAIN l
    BY <1>2, PathsAssumption DEF KeepsApartFrom, Files
  <1>4. NotesInWork(q, l, u, X)
    BY <1>2, <1>3 DEF Work, NotesInWork, Same, At
  <1>5. DirsInWork(q, l, u, X)
    <2> SUFFICES ASSUME NEW p \in Dirs \cap Kept(r, X), ~Same(l, u, p)
                 PROVE  p \in DOMAIN u /\ Has(r.acts, "mkdir", p)
      BY <1>2 DEF DirsInWork
    <2>1. ~Same(l, s, p)
      BY <1>3, SameDirs DEF Kept, Spared
    <2> QED BY <1>3, <2>1 DEF Work, DirsInWork, Has
  <1>6. RemovesOlder(q, u, X) /\ CreatesKnown(q, l, X)
    BY DEF RemovesOlder, CreatesKnown, Spared
  <1>7. UploadsNewer(q, l, u, X)
    BY <1>2, <1>3 DEF Work, UploadsNewer, Kept, Spared
  <1>8. DownloadsKnown(q, u, X)
    BY <1>3 DEF Work, DownloadsKnown, Spared
  <1>9. DownloadsNewer(q, l, u, X)
    <2> SUFFICES ASSUME NEW p \in Files, Has(r.acts, "download", p), p \in DOMAIN l \ X
                 PROVE  p \notin Doomed(r.final) /\ u[p].mtime > l[p].mtime
      BY DEF DownloadsNewer
    <2>1. p \notin Doomed(r.final) /\ s[p].mtime > l[p].mtime /\ p # x
      BY <1>2 DEF Work, DownloadsNewer
    <2>2. p \in DOMAIN s
      BY <2>1 DEF Work, DownloadsKnown, Has, Spared
    <2> QED BY <1>3, <2>1, <2>2
  <1>10. TransferKnown(q, l, u, X)
    BY <1>2 DEF TransferKnown, Spared
  <1> QED
    BY <1>4, <1>5, <1>6, <1>7, <1>8, <1>9, <1>10 DEF Work

\* The server's file is filled with what the client's has in it.
LEMMA WorkUploadCopy ==
  ASSUME NEW r, NEW l, NEW s, NEW X, Work(r, l, s, X), Sound(l), Sound(s),
         NEW x \in Files, r.todo = {}, r.op.step = "copy", r.op.path = x,
         NEW u, Sound(u), DOMAIN u = DOMAIN s, KeepsApartFrom({x}, s, u),
         x \notin X => u[x].body = r.op.body,
         NEW q, q.final = r.final, q.todo = r.todo, q.acts = r.acts, q.op.step = "none"
  PROVE  Work(q, l, u, X)
  <1>1. /\ x \in DOMAIN l /\ (x \notin X => x \in DOMAIN s)
        /\ ~Has(r.acts, "upload", x) /\ ~Has(r.acts, "download", x)
        /\ r.op.body = l[x].body /\ Kept(q, X) = Kept(r, X)
    BY DEF Work, TransferKnown, Kept, Spared
  <1>2. \A p \in DOMAIN s \cap Files : p # x => u[p] = s[p]
    BY DEF KeepsApartFrom, Files
  <1>3. NotesInWork(q, l, u, X)
    <2> SUFFICES ASSUME NEW p \in Files \cap Kept(r, X)
                 PROVE  \/ Same(l, u, p)
                        \/ Has(r.acts, "upload", p) \/ Has(r.acts, "download", p)
      BY <1>1 DEF NotesInWork
    <2>1. CASE p = x
      BY <1>1, <2>1 DEF Same, Kept, Spared
    <2>2. CASE p # x
      BY <1>2, <2>2 DEF Work, NotesInWork, At, Same
    <2> QED BY <2>1, <2>2
  <1>4. DirsInWork(q, l, u, X)
    BY <1>1, SameDirs DEF Work, DirsInWork, Kept
  <1>5. RemovesOlder(q, u, X) /\ CreatesKnown(q, l, X) /\ TransferKnown(q, l, u, X)
    BY DEF RemovesOlder, CreatesKnown, TransferKnown, Spared
  <1>6. UploadsNewer(q, l, u, X) /\ DownloadsKnown(q, u, X)
    BY <1>1, <1>2 DEF Work, UploadsNewer, DownloadsKnown, Spared
  <1>7. DownloadsNewer(q, l, u, X)
    <2> SUFFICES ASSUME NEW p \in Files, Has(r.acts, "download", p), p \in DOMAIN l \ X
                 PROVE  p \notin Doomed(r.final) /\ u[p].mtime > l[p].mtime
      BY DEF DownloadsNewer
    <2>1. p \notin Doomed(r.final) /\ s[p].mtime > l[p].mtime /\ p # x
      BY <1>1 DEF Work, DownloadsNewer
    <2>2. p \in DOMAIN s
      BY <2>1 DEF Work, DownloadsKnown, Has, Spared
    <2> QED BY <1>2, <2>1, <2>2
  <1> QED
    BY <1>3, <1>4, <1>5, <1>6, <1>7 DEF Work

\* The client's file is created for a file the server has.
LEMMA WorkDownloadCreate ==
  ASSUME NEW r, NEW l, NEW s, NEW X, Work(r, l, s, X), Sound(l), Sound(s),
         r.acts \subseteq Action, r.todo = {}, r.op.step = "none",
         NEW a \in r.acts, a.act = "download", NEW x \in Files, a.path = x,
         NEW u, Sound(u), DOMAIN u = DOMAIN l \cup {x} \cup Above(x),
         KeepsApartFrom({x}, l, u),
         NEW q, q.final = r.final, q.todo = r.todo, q.acts = r.acts \ {a},
         q.op.step = "fetch", q.op.path = x, q.op.linked
  PROVE  Work(q, u, s, X)
  <1>1. /\ Has(r.acts, "download", x)
        /\ \A act, p : Has(q.acts, act, p) <=>
                         Has(r.acts, act, p) /\ ~(act = "download" /\ p = x)
    <2>1. Has(r.acts, "download", x)
      <3>1. Has(r.acts, a.act, a.path)
        BY HasAfter
      <3> QED BY <3>1
    <2>2. \A act, p : Has(q.acts, act, p) <=>
                        Has(r.acts, act, p) /\ ~(act = "download" /\ p = x)
      BY HasAfter
    <2> QED BY <2>1, <2>2
  <1>2. /\ ~Has(r.acts, "upload", x) /\ Kept(q, X) = Kept(r, X)
        /\ ({x} \cup Above(x)) \ Spared(r, X) \subseteq DOMAIN s
    BY <1>1 DEF Work, UploadsNewer, DownloadsKnown, Kept, Spared
  <1>3. /\ \A p \in DOMAIN l : p \in DOMAIN u /\ (p \in Files \ {x} => u[p] = l[p])
        /\ \A p \in Files \ {x} : p \in DOMAIN u => p \in DOMAIN l
        /\ \A p \in DOMAIN u : p \in DOMAIN l \/ p \in Spared(r, X) \/ p \in DOMAIN s
    BY <1>2, PathsAssumption DEF KeepsApartFrom, Files
  <1>4. NotesInWork(q, u, s, X)
    <2> SUFFICES ASSUME NEW p \in Files \cap Kept(r, X), p # x
                 PROVE  \/ Same(u, s, p)
                        \/ Has(q.acts, "upload", p) \/ Has(q.acts, "download", p)
      BY <1>2 DEF NotesInWork, At
    <2>1. \/ Same(l, s, p)
          \/ Has(r.acts, "upload", p) \/ Has(r.acts, "download", p)
      BY DEF Work, NotesInWork, At
    <2> QED BY <1>1, <1>3, <2>1 DEF Same
  <1>5. DirsInWork(q, u, s, X)
    <2> SUFFICES ASSUME NEW p \in Dirs \cap Kept(r, X), ~Same(u, s, p)
                 PROVE  p \in DOMAIN s /\ Has(q.acts, "mkdir", p)
      BY <1>2 DEF DirsInWork
    <2>1. ~Same(l, s, p)
      BY <1>3, SameDirs DEF Kept, Spared
    <2> QED BY <1>1, <2>1 DEF Work, DirsInWork, Has
  <1>6. RemovesOlder(q, s, X) /\ CreatesKnown(q, u, X)
    BY DEF RemovesOlder, CreatesKnown, Spared
  <1>7. UploadsNewer(q, u, s, X)
    BY <1>1, <1>2, <1>3 DEF Work, UploadsNewer, Kept, Spared
  <1>8. DownloadsKnown(q, s, X)
    BY DEF Work, DownloadsKnown, Spared
  <1>9. DownloadsNewer(q, u, s, X)
    BY <1>1, <1>3 DEF Work, DownloadsNewer
  <1>10. TransferKnown(q, u, s, X)
    BY <1>1, <1>2 DEF TransferKnown, Spared
  <1> QED
    BY <1>4, <1>5, <1>6, <1>7, <1>8, <1>9, <1>10 DEF Work

\* The client's file is filled with what the server's has in it.
LEMMA WorkDownloadCopy ==
  ASSUME NEW r, NEW l, NEW s, NEW X, Work(r, l, s, X), Sound(l), Sound(s),
         NEW x \in Files, r.todo = {}, r.op.step = "fetch", r.op.path = x,
         NEW u, Sound(u), DOMAIN u = DOMAIN l, KeepsApartFrom({x}, l, u),
         x \in DOMAIN s => u[x].body = s[x].body,
         NEW q, q.final = r.final, q.todo = r.todo, q.acts = r.acts, q.op.step = "none"
  PROVE  Work(q, u, s, X)
  <1>1. /\ x \in DOMAIN l /\ ~Has(r.acts, "upload", x) /\ ~Has(r.acts, "download", x)
        /\ x \notin Spared(r, X) => x \in DOMAIN s
        /\ Kept(q, X) = Kept(r, X)
    BY DEF Work, TransferKnown, Kept, Spared
  <1>2. \A p \in DOMAIN l \cap Files : p # x => u[p] = l[p]
    BY DEF KeepsApartFrom, Files
  <1>3. NotesInWork(q, u, s, X)
    <2> SUFFICES ASSUME NEW p \in Files \cap Kept(r, X)
                 PROVE  \/ Same(u, s, p)
                        \/ Has(r.acts, "upload", p) \/ Has(r.acts, "download", p)
      BY <1>1 DEF NotesInWork
    <2>1. CASE p = x
      BY <1>1, <2>1 DEF Same, Kept, Spared
    <2>2. CASE p # x
      BY <1>2, <2>2 DEF Work, NotesInWork, At, Same
    <2> QED BY <2>1, <2>2
  <1>4. DirsInWork(q, u, s, X)
    <2> SUFFICES ASSUME NEW p \in Dirs \cap Kept(r, X), ~Same(u, s, p)
                 PROVE  p \in DOMAIN s /\ Has(r.acts, "mkdir", p)
      BY <1>1 DEF DirsInWork
    <2>1. ~Same(l, s, p)
      BY SameDirs DEF Kept, Spared
    <2> QED BY <2>1 DEF Work, DirsInWork, Has
  <1>5. RemovesOlder(q, s, X) /\ CreatesKnown(q, u, X) /\ TransferKnown(q, u, s, X)
    BY DEF RemovesOlder, CreatesKnown, TransferKnown, Spared
  <1>6. UploadsNewer(q, u, s, X) /\ DownloadsKnown(q, s, X) /\ DownloadsNewer(q, u, s, X)
    BY <1>1, <1>2 DEF Work, UploadsNewer, DownloadsKnown, DownloadsNewer, Spared
  <1> QED
    BY <1>3, <1>4, <1>5, <1>6 DEF Work

\* A directory is created at the client only for the server's.
LEMMA WorkMkDir ==
  ASSUME NEW r, NEW l, NEW s, NEW X, Work(r, l, s, X), Sound(l), Sound(s),
         r.acts \subseteq Action, r.todo = {}, r.op.step = "none",
         NEW a \in r.acts, a.act = "mkdir", NEW x \in Dirs, a.path = x,
         NEW u, Sound(u), DOMAIN u = DOMAIN l \cup {x} \cup Above(x),
         KeepsApartFrom({}, l, u),
         NEW q, q.final = r.final, q.todo = r.todo, q.acts = r.acts \ {a},
         q.op.step = "none"
  PROVE  Work(q, u, s, X)
  <1>1. \A act, p : Has(q.acts, act, p) <=>
                      Has(r.acts, act, p) /\ ~(act = "mkdir" /\ p = x)
    BY HasAfter
  <1>2. /\ ({x} \cup Above(x)) \ Spared(r, X) \subseteq DOMAIN s
        /\ Kept(q, X) = Kept(r, X) /\ x \in DOMAIN u
    BY DEF Work, DownloadsKnown, Kept, Spared
  <1>3. /\ \A p \in DOMAIN l : p \in DOMAIN u /\ (p \in Files => u[p] = l[p])
        /\ \A p \in Files : p \in DOMAIN u => p \in DOMAIN l
        /\ \A p \in DOMAIN u : p \in DOMAIN l \/ p \in Spared(r, X) \/ p \in DOMAIN s
    BY <1>2, PathsAssumption DEF KeepsApartFrom, Files
  <1>4. NotesInWork(q, u, s, X)
    <2> SUFFICES ASSUME NEW p \in Files \cap Kept(r, X)
                 PROVE  \/ Same(u, s, p)
                        \/ Has(q.acts, "upload", p) \/ Has(q.acts, "download", p)
      BY <1>2 DEF NotesInWork
    <2>1. \/ Same(l, s, p)
          \/ Has(r.acts, "upload", p) \/ Has(r.acts, "download", p)
      BY DEF Work, NotesInWork, At
    <2> QED BY <1>1, <1>3, <2>1 DEF Same
  <1>5. DirsInWork(q, u, s, X)
    <2> SUFFICES ASSUME NEW p \in Dirs \cap Kept(r, X), ~Same(u, s, p)
                 PROVE  p \in DOMAIN s /\ Has(q.acts, "mkdir", p)
      BY <1>2 DEF DirsInWork
    <2>1. ~Same(l, s, p)
      BY <1>3, SameDirs DEF Kept, Spared
    <2>2. p \in DOMAIN s /\ Has(r.acts, "mkdir", p)
      BY <2>1 DEF Work, DirsInWork, Has
    <2>3. p # x
      BY <1>2, <2>2, SameDirs
    <2> QED BY <1>1, <2>2, <2>3
  <1>6. RemovesOlder(q, s, X) /\ CreatesKnown(q, u, X) /\ TransferKnown(q, u, s, X)
    BY DEF RemovesOlder, CreatesKnown, TransferKnown, Spared
  <1>7. UploadsNewer(q, u, s, X) /\ DownloadsNewer(q, u, s, X)
    BY <1>1, <1>2, <1>3 DEF Work, UploadsNewer, DownloadsNewer
  <1>8. DownloadsKnown(q, s, X)
    BY <1>2 DEF Work, DownloadsKnown, Spared
  <1> QED
    BY <1>4, <1>5, <1>6, <1>7, <1>8 DEF Work

\* Nothing of the work has changed.
LEMMA WorkFrame ==
  ASSUME NEW r, NEW l, NEW s, NEW X, Work(r, l, s, X), NEW q,
         q.final = r.final, q.todo = r.todo, q.acts = r.acts, q.op = r.op
  PROVE  Work(q, l, s, X)
  BY DEF Work, NotesInWork, DirsInWork, RemovesOlder, CreatesKnown, UploadsNewer,
         DownloadsKnown, DownloadsNewer, TransferKnown, Kept, Spared

\* Somebody else has been at work at the server, on paths of Y.
SameApartFrom(Y, s, u) ==
  \A p \in Paths \ Y : /\ p \in DOMAIN s <=> p \in DOMAIN u
                       /\ p \in Files \cap DOMAIN s => u[p] = s[p]

LEMMA WorkElsewhere ==
  ASSUME NEW r, NEW l, NEW s, NEW X, Work(r, l, s, X), Sound(l), Sound(s),
         r.todo \subseteq Effect, r.acts \subseteq Action,
         r.op.step # "none" => r.op.path \in Files,
         NEW u, Sound(u), NEW Y, X \subseteq Y, SameApartFrom(Y, s, u),
         NEW q, q.final = r.final, q.todo = r.todo, q.acts = r.acts,
         q.op.step = r.op.step, q.op.path = r.op.path, q.op.body = r.op.body,
         \/ q.op.linked = r.op.linked
         \/ r.op.step = "copy" /\ r.op.path \in Y
  PROVE  Work(q, l, u, Y)
  <1>1. /\ Spared(q, Y) = Spared(r, Y) /\ Spared(r, X) \subseteq Spared(r, Y)
        /\ Kept(q, Y) = Kept(r, Y) /\ Kept(r, Y) \subseteq Kept(r, X)
        /\ Kept(r, Y) \subseteq Paths \ Y /\ Y \subseteq Spared(r, Y)
    BY DEF Spared, Kept
  <1>2. /\ \A p \in Paths \ Y : p \in DOMAIN s <=> p \in DOMAIN u
        /\ \A p \in Files \ Y : p \in DOMAIN s => u[p] = s[p]
    BY DEF SameApartFrom, Files
  <1>3. /\ \A e \in r.todo : e.path \in Paths
        /\ \A a \in r.acts : a.path \in Paths
        /\ Files \subseteq Paths /\ \A p : Above(p) \subseteq Paths
    BY DEF Effect, Action, Files, Above
  <1>4. NotesInWork(q, l, u, Y)
    <2> SUFFICES ASSUME NEW p \in Files \cap Kept(r, Y)
                 PROVE  \/ Same(l, u, p) \/ At(q.op, p)
                        \/ Has(r.acts, "upload", p) \/ Has(r.acts, "download", p)
      BY <1>1 DEF NotesInWork
    <2>1. \/ Same(l, s, p) \/ At(r.op, p)
          \/ Has(r.acts, "upload", p) \/ Has(r.acts, "download", p)
      BY <1>1 DEF Work, NotesInWork
    <2>2. Same(l, s, p) => Same(l, u, p)
      BY <1>1, <1>2 DEF Same
    <2>3. At(r.op, p) => At(q.op, p)
      BY DEF At
    <2> QED BY <2>1, <2>2, <2>3
  <1>5. DirsInWork(q, l, u, Y)
    <2> SUFFICES ASSUME NEW p \in Dirs \cap Kept(r, Y)
                 PROVE  \/ Same(l, u, p)
                        \/ p \in DOMAIN l /\ Has(r.todo, "create", p)
                        \/ p \in DOMAIN u /\ Has(r.acts, "mkdir", p)
      BY <1>1 DEF DirsInWork
    <2>1. \/ Same(l, s, p)
          \/ p \in DOMAIN l /\ Has(r.todo, "create", p)
          \/ p \in DOMAIN s /\ Has(r.acts, "mkdir", p)
      BY <1>1 DEF Work, DirsInWork
    <2>2. p \in DOMAIN s <=> p \in DOMAIN u
      BY <1>1, <1>2
    <2>3. Same(l, s, p) => Same(l, u, p)
      BY <2>2, SameDirs
    <2> QED BY <2>1, <2>2, <2>3
  <1>6. RemovesOlder(q, u, Y)
    BY <1>2, <1>3 DEF Work, RemovesOlder
  <1>7. CreatesKnown(q, l, Y)
    BY <1>1 DEF Work, CreatesKnown
  <1>8. UploadsNewer(q, l, u, Y)
    BY <1>1, <1>2, <1>3 DEF Work, UploadsNewer
  <1>9. DownloadsKnown(q, u, Y)
    BY <1>1, <1>2, <1>3 DEF Work, DownloadsKnown
  <1>10. DownloadsNewer(q, l, u, Y)
    <2> SUFFICES ASSUME NEW p \in Files, Has(r.acts, "download", p), p \in DOMAIN l \ Y
                 PROVE  p \notin Doomed(r.final) /\ u[p].mtime > l[p].mtime
      BY DEF DownloadsNewer
    <2>1. p \notin Doomed(r.final) /\ s[p].mtime > l[p].mtime
      BY DEF Work, DownloadsNewer
    <2>2. p \in DOMAIN s
      BY <2>1 DEF Work, DownloadsKnown, Has, Spared
    <2> QED BY <1>2, <2>1, <2>2
  <1>11. TransferKnown(q, l, u, Y)
    <2> SUFFICES ASSUME r.op.step # "none" PROVE TransferKnown(q, l, u, Y)
      BY DEF TransferKnown
    <2> DEFINE p == r.op.path
    <2>1. /\ p \in DOMAIN l /\ (r.op.step # "copy" => r.op.linked)
          /\ ~Has(r.acts, "upload", p) /\ ~Has(r.acts, "download", p)
          /\ r.op.step \in {"post", "copy"} => r.op.body = l[p].body
      BY DEF Work, TransferKnown
    <2>2. r.op.step = "post" /\ p \in DOMAIN u \ Y => l[p].mtime >= u[p].mtime
      BY <1>2, <1>3 DEF Work, TransferKnown
    <2>3. r.op.step = "copy" /\ p \notin Y => q.op.linked /\ p \in DOMAIN u
      BY <1>2, <1>3 DEF Work, TransferKnown
    <2>4. r.op.step = "fetch" => ({p} \cup Above(p)) \ Spared(r, Y) \subseteq DOMAIN u
      BY <1>1, <1>2, <1>3 DEF Work, TransferKnown
    <2>5. q.op.step # "copy" => q.op.linked
      BY <2>1
    <2> QED BY <1>1, <2>1, <2>2, <2>3, <2>4, <2>5 DEF TransferKnown
  <1> QED
    BY <1>4, <1>5, <1>6, <1>7, <1>8, <1>9, <1>10, <1>11 DEF Work

-----------------------------------------------------------------------------
(* A step of the run itself keeps it, whatever others have been at work on.  *)

LEMMA FinalAsWalked ==
  ASSUME NEW l, IsTree(l), NEW last, last = NoShot \/ IsSnapshot(last), NEW r,
         r.final = IF last = NoShot THEN GetLocalMetadata(l)
                   ELSE FinalSnapshot(last, GetLocalMetadata(l))
  PROVE  AsWalked(r, l)
  BY DEF AsWalked, GetLocalMetadata, FinalSnapshot, Tombstones, IsTree, Entry,
         IsSnapshot, Meta

SyncInv == TypeOK /\ HiddenInv /\ ShapeInv /\ TreesInv

LEMMA OwnStep ==
  ASSUME SyncInv, NEW c \in Clients, RunStep(c),
         NEW X, RunOf(sync[c], local[c], server, X)
  PROVE  RunOf(sync'[c], local'[c], server', X)
  <1> USE DEF SyncInv
  <1>0. /\ DOMAIN sync = Clients /\ DOMAIN local = Clients
        /\ now \in Nat /\ NoOp.step = "none"
    BY DEF TypeOK, NoOp
  <1>F. sync[c] \in [pc : PCs, final : {sync[c].final}, todo : SUBSET Effect,
                     acts : SUBSET Action, op : Transfer]
    BY DEF TypeOK, IsRun
  <1>S. Shape(sync[c]) /\ (sync[c].op = NoOp <=> sync[c].op.step = "none")
    BY <1>F, OpIsNone DEF ShapeInv
  <1>T. Sound(server) /\ Sound(local[c]) /\ Kinds(sync[c])
    BY DEF TreesInv, TreesSound
  <1>C. /\ sync[c].pc # "orphan"
        /\ sync[c].pc = "posted" => AsWalked(sync[c], local[c])
        /\ sync[c].pc \in {"handling", "acting", "idle"} =>
             Work(sync[c], local[c], server, X)
    BY DEF RunOf
  <1>1. CASE PostSnapshot(c)
    <2>1. /\ sync'[c].pc = "posted"
          /\ sync'[c].final = IF shot[c] = NoShot THEN GetLocalMetadata(local[c])
                              ELSE FinalSnapshot(shot[c], GetLocalMetadata(local[c]))
          /\ local' = local
      BY <1>0, <1>F, <1>1 DEF PostSnapshot
    <2>2. AsWalked(sync'[c], local'[c])
      BY <2>1, FinalAsWalked DEF TypeOK
    <2> QED BY <2>1, <2>2 DEF RunOf
  <1>2. CASE HandleSnapshot(c)
    <2> DEFINE E == Effects(GetLocalMetadata(server), sync[c].final)
               A == Actions(GetLocalMetadata(server), sync[c].final)
    <2>1. /\ sync' = [sync EXCEPT ![c].pc = "handling", ![c].todo = E, ![c].acts = A]
          /\ sync[c].pc = "posted" /\ local' = local /\ server' = server
      BY <1>2 DEF HandleSnapshot
    <2> HIDE DEF E, A
    <2>2. /\ sync'[c].pc = "handling" /\ sync'[c].final = sync[c].final
          /\ sync'[c].op = sync[c].op /\ sync'[c].todo = E /\ sync'[c].acts = A
      BY <1>0, <1>F, <2>1
    <2>3. sync[c].op.step = "none"
      BY <1>S, <2>1 DEF Shape
    <2>4. /\ DOMAIN server \cap Excluded = {} /\ IsSnapshot(sync[c].final)
          /\ Closed(sync[c].final) /\ DOMAIN sync[c].final \cap Excluded = {}
      BY DEF HiddenInv, HiddenStaysLocal, SnapshotsVisible, Visible, TypeOK, IsRun,
             TreesInv, SnapshotClosed
    <2>5. AsWalked(sync'[c], local[c])
      BY <1>C, <2>1, <2>2 DEF AsWalked
    <2>6. Work(sync'[c], local[c], server, X)
      BY <1>T, <2>2, <2>3, <2>4, <2>5, WorkCompared DEF E, A
    <2> QED BY <2>1, <2>2, <2>6 DEF RunOf
  <1>3. CASE HandleRemove(c)
    <2>1. PICK e \in sync[c].todo :
            /\ e.act = "remove"
            /\ sync' = [Unlink("copy", Subtree(e.path)) EXCEPT ![c].todo = @ \ {e}]
            /\ server' = Rm(server, e.path, now) /\ local' = local
      BY <1>3 DEF HandleRemove
    <2>2. sync[c].op.step = "none" /\ sync[c].pc = "handling"
      BY <1>C, <1>S, <2>1 DEF Shape
    <2>3. sync'[c] = [sync[c] EXCEPT !.todo = @ \ {e}]
      <3> DEFINE v == Unlink("copy", Subtree(e.path))
      <3>1. v[c] = sync[c] /\ DOMAIN v = Clients
        BY <2>2 DEF Unlink
      <3>2. sync' = [v EXCEPT ![c].todo = @ \ {e}]
        BY <2>1
      <3> HIDE DEF v
      <3> QED BY <3>1, <3>2
    <2>4. /\ sync'[c].pc = "handling" /\ sync'[c].final = sync[c].final
          /\ sync'[c].op = sync[c].op /\ sync'[c].acts = sync[c].acts
          /\ sync'[c].todo = sync[c].todo \ {e}
      BY <1>F, <2>2, <2>3
    <2>5. Work(sync'[c], local[c], Rm(server, e.path, now), X)
      <3>1. Work(sync[c], local[c], server, X) /\ sync[c].todo \subseteq Effect
        BY <1>C, <1>F, <2>2
      <3> QED BY <1>0, <1>T, <2>1, <2>2, <2>4, <3>1, WorkRemove
    <2> QED BY <2>1, <2>4, <2>5 DEF RunOf
  <1>4. CASE HandleDirectory(c)
    <2>1. PICK e \in sync[c].todo :
            /\ e.act = "create"
            /\ sync' = [sync EXCEPT ![c].todo = @ \ {e}]
            /\ server' = MkDir(server, e.path, now) /\ local' = local
      BY <1>4 DEF HandleDirectory
    <2>2. sync[c].op.step = "none" /\ sync[c].pc = "handling" /\ e.path \in Dirs
      BY <1>C, <1>S, <1>T, <2>1 DEF Shape, Kinds
    <2>3. /\ sync'[c].pc = "handling" /\ sync'[c].final = sync[c].final
          /\ sync'[c].op = sync[c].op /\ sync'[c].acts = sync[c].acts
          /\ sync'[c].todo = sync[c].todo \ {e}
      BY <1>0, <1>F, <2>1, <2>2
    <2>4. Work(sync'[c], local[c], MkDir(server, e.path, now), X)
      <3>1. Work(sync[c], local[c], server, X) /\ sync[c].todo \subseteq Effect
        BY <1>C, <1>F, <2>2
      <3> QED BY <1>0, <1>T, <2>1, <2>2, <2>3, <3>1, WorkCreate
    <2> QED BY <2>1, <2>3, <2>4 DEF RunOf
  <1>5. CASE Respond(c)
    <2>1. /\ sync' = [sync EXCEPT ![c].pc = IF @ = "handling" THEN "acting" ELSE "idle"]
          /\ sync[c].pc = "handling" /\ local' = local /\ server' = server
      BY <1>C, <1>5 DEF Respond, Handling
    <2>2. /\ sync'[c].pc = "acting" /\ sync'[c].final = sync[c].final
          /\ sync'[c].op = sync[c].op /\ sync'[c].todo = sync[c].todo
          /\ sync'[c].acts = sync[c].acts
      BY <1>0, <1>F, <2>1
    <2>3. Work(sync'[c], local[c], server, X)
      BY <1>C, <2>1, <2>2, WorkFrame
    <2> QED BY <2>1, <2>2, <2>3 DEF RunOf
  <1>6. CASE UploadOpen(c)
    <2>1. PICK a \in sync[c].acts :
            /\ a.act = "upload"
            /\ sync' = [sync EXCEPT
                          ![c].acts = @ \ {a},
                          ![c].op = IF a.path \in DOMAIN local[c]
                                      THEN [step |-> "post", path |-> a.path,
                                            body |-> local[c][a.path].body,
                                            linked |-> TRUE]
                                      ELSE NoOp]
            /\ sync[c].pc = "acting" /\ sync[c].op = NoOp
            /\ server' = server /\ local' = local
      BY <1>6 DEF UploadOpen, Acting
    <2>2. /\ sync'[c].pc = "acting" /\ sync'[c].final = sync[c].final
          /\ sync'[c].acts = sync[c].acts \ {a} /\ sync'[c].todo = sync[c].todo
          /\ IF a.path \in DOMAIN local[c]
               THEN sync'[c].op = [step |-> "post", path |-> a.path,
                                   body |-> local[c][a.path].body, linked |-> TRUE]
               ELSE sync'[c].op.step = "none"
      BY <1>0, <1>F, <2>1
    <2>3. Work(sync'[c], local[c], server, X)
      <3>1. sync[c].op.step = "none" /\ a.path \in Files /\ sync[c].acts \subseteq Action
        BY <1>F, <1>S, <1>T, <2>1 DEF Kinds
      <3> QED BY <1>C, <2>1, <2>2, <3>1, WorkUploadOpen
    <2> QED BY <2>1, <2>2, <2>3 DEF RunOf
  <1>7. CASE UploadCreate(c)
    <2> DEFINE x == sync[c].op.path
               u == CreateFile(server, x, Empty, now)
    <2>1. /\ sync[c].op.step = "post" /\ sync' = [sync EXCEPT ![c].op.step = "copy"]
          /\ server' = u /\ local' = local
      BY <1>7 DEF UploadCreate
    <2>2. x \in Files /\ sync[c].pc = "acting" /\ sync[c].todo = {}
      BY <1>C, <1>S, <1>T, <2>1 DEF Shape, Kinds
    <2>3. /\ Sound(u) /\ DOMAIN u = DOMAIN server \cup {x} \cup Above(x)
          /\ KeepsApartFrom({x}, server, u)
      <3>1. Sound(server) /\ now \in Nat /\ x \in Files
        BY <1>0, <1>T, <2>2
      <3> HIDE DEF x, u
      <3>2. u = CreateFile(server, x, Empty, now)
        BY DEF u
      <3> QED BY <3>1, <3>2, CreateEmpty
    <2> HIDE DEF u
    <2>4. /\ sync'[c].pc = "acting" /\ sync'[c].final = sync[c].final
          /\ sync'[c].acts = sync[c].acts /\ sync'[c].todo = sync[c].todo
          /\ sync'[c].op = [sync[c].op EXCEPT !.step = "copy"]
      BY <1>0, <1>F, <2>1, <2>2
    <2>5. /\ sync'[c].op.step = "copy" /\ sync'[c].op.path = x
          /\ sync'[c].op.body = sync[c].op.body
          /\ sync'[c].op.linked = sync[c].op.linked
      BY <1>F, <2>1, <2>4 DEF Transfer, NoOp
    <2>6. Work(sync[c], local[c], server, X)
      BY <1>C, <2>2
    <2>7. Work(sync'[c], local[c], u, X)
      BY <1>T, <2>1, <2>2, <2>3, <2>4, <2>5, <2>6, WorkUploadCreate
    <2> QED BY <2>1, <2>4, <2>7 DEF RunOf
  <1>8. CASE UploadCopy(c)
    <2>x. PICK x, body : x = sync[c].op.path /\ body = sync[c].op.body
      OBVIOUS
    <2>1. /\ sync[c].op.step = "copy" /\ sync' = [sync EXCEPT ![c].op = NoOp]
          /\ server' = IF sync[c].op.linked THEN FillFile(server, x, body, now) ELSE server
          /\ local' = local
      BY <1>8, <2>x DEF UploadCopy
    <2>2. x \in Files /\ body \in Body /\ sync[c].pc = "acting" /\ sync[c].todo = {}
      BY <1>C, <1>F, <1>S, <1>T, <2>1, <2>x, TransferWith DEF Shape, Kinds
    <2>3. Work(sync[c], local[c], server, X)
      BY <1>C, <2>2
    <2>4. x \notin X => sync[c].op.linked /\ x \in DOMAIN server
      BY <2>1, <2>3, <2>x DEF Work, TransferKnown
    <2>5. /\ sync'[c].pc = "acting" /\ sync'[c].final = sync[c].final
          /\ sync'[c].acts = sync[c].acts /\ sync'[c].todo = sync[c].todo
          /\ sync'[c].op.step = "none"
      BY <1>0, <1>F, <2>1, <2>2
    <2>6. /\ Sound(server') /\ DOMAIN server' = DOMAIN server
          /\ KeepsApartFrom({x}, server, server')
          /\ x \notin X => server'[x].body = body
      <3>1. CASE sync[c].op.linked
        <4>1. IsTree(server) /\ server' = FillFile(server, x, body, now)
          BY <2>1, <3>1 DEF TypeOK
        <4>2. Sound(server')
          BY <1>0, <1>T, <2>2, <4>1, FillFileSound
        <4>3. DOMAIN server' = DOMAIN server
          BY <1>0, <2>2, <4>1, FillFileTree
        <4>4. x \in DOMAIN server =>
                /\ KeepsApartFrom({x}, server, server')
                /\ server'[x] = [body |-> body, mtime |-> now]
          BY <1>0, <2>2, <4>1, FillFileKeeps
        <4>5. x \notin DOMAIN server => server' = server
          BY <4>1 DEF FillFile, IsTree
        <4> QED BY <2>4, <4>2, <4>3, <4>4, <4>5 DEF KeepsApartFrom
      <3>2. CASE ~sync[c].op.linked
        BY <1>T, <2>1, <2>4, <3>2 DEF KeepsApartFrom
      <3> QED BY <3>1, <3>2
    <2>7. Work(sync'[c], local[c], server', X)
      BY <1>T, <2>1, <2>2, <2>3, <2>5, <2>6, <2>x, WorkUploadCopy
    <2> QED BY <2>1, <2>5, <2>7 DEF RunOf
  <1>9. CASE DownloadCreate(c)
    <2>1. PICK a \in sync[c].acts :
            /\ a.act = "download"
            /\ local' = [local EXCEPT ![c] = CreateFile(@, a.path, Empty, now)]
            /\ sync' = [sync EXCEPT
                          ![c].acts = @ \ {a},
                          ![c].op = [step |-> "fetch", path |-> a.path,
                                     body |-> Empty, linked |-> TRUE]]
            /\ sync[c].pc = "acting" /\ sync[c].op = NoOp
            /\ server' = server
      BY <1>9 DEF DownloadCreate, Acting
    <2>2. sync[c].op.step = "none" /\ sync[c].todo = {}
      BY <1>S, <2>1 DEF Shape
    <2>x. PICK x \in Files : a.path = x
      BY <1>T, <2>1 DEF Kinds
    <2> DEFINE u == CreateFile(local[c], x, Empty, now)
    <2>3. /\ Sound(u) /\ DOMAIN u = DOMAIN local[c] \cup {x} \cup Above(x)
          /\ KeepsApartFrom({x}, local[c], u)
      <3>1. Sound(local[c]) /\ now \in Nat
        BY <1>0, <1>T
      <3> HIDE DEF u
      <3>2. u = CreateFile(local[c], x, Empty, now)
        BY DEF u
      <3> QED BY <3>1, <3>2, CreateEmpty
    <2>4. local'[c] = u
      BY <1>0, <2>1, <2>x
    <2> HIDE DEF u
    <2>5. /\ sync'[c].pc = "acting" /\ sync'[c].final = sync[c].final
          /\ sync'[c].acts = sync[c].acts \ {a} /\ sync'[c].todo = sync[c].todo
          /\ sync'[c].op.step = "fetch" /\ sync'[c].op.path = x /\ sync'[c].op.linked
      BY <1>0, <1>F, <2>1, <2>x
    <2>6. Work(sync'[c], u, server, X)
      <3>1. sync[c].acts \subseteq Action /\ a.act = "download" /\ Sound(server) /\ Sound(local[c])
        BY <1>F, <1>T, <2>1
      <3>2. Work(sync[c], local[c], server, X)
        BY <1>C, <2>1
      <3> QED BY <2>2, <2>3, <2>5, <2>x, <3>1, <3>2, WorkDownloadCreate
    <2> QED BY <2>1, <2>4, <2>5, <2>6 DEF RunOf
  <1>10. CASE DownloadCopy(c)
    <2> DEFINE x    == sync[c].op.path
               body == IF x \in DOMAIN server THEN server[x].body ELSE ErrorPage
               u    == FillFile(local[c], x, body, now)
    <2>1. /\ sync[c].op.step = "fetch" /\ sync' = [sync EXCEPT ![c].op = NoOp]
          /\ local' = IF sync[c].op.linked THEN [local EXCEPT ![c] = u] ELSE local
          /\ server' = server
      BY <1>10 DEF DownloadCopy
    <2>2. body \in Body /\ x \in Files
      BY <1>T, <2>1 DEF TypeOK, IsTree, Entry, Body, Kinds
    <2>3. /\ sync[c].pc = "acting" /\ sync[c].todo = {} /\ sync[c].op.linked
          /\ x \in DOMAIN local[c] /\ Work(sync[c], local[c], server, X)
      BY <1>C, <1>S, <2>1 DEF Shape, Work, TransferKnown
    <2>4. /\ local'[c] = u
          /\ sync'[c].final = sync[c].final /\ sync'[c].pc = sync[c].pc
          /\ sync'[c].acts = sync[c].acts /\ sync'[c].todo = sync[c].todo
          /\ sync'[c].op.step = "none"
      <3> HIDE DEF u
      <3> QED BY <1>0, <1>F, <2>1, <2>3
    <2>5. /\ Sound(u) /\ DOMAIN u = DOMAIN local[c]
          /\ KeepsApartFrom({x}, local[c], u) /\ u[x].body = body
      <3> HIDE DEF x, body
      <3>1. IsTree(local[c])
        BY DEF TypeOK
      <3>2. Sound(u)
        BY <1>0, <1>T, <2>2, FillFileSound
      <3>3. DOMAIN u = DOMAIN local[c]
        BY <1>0, <2>2, <3>1, FillFileTree
      <3>4. KeepsApartFrom({x}, local[c], u) /\ u[x] = [body |-> body, mtime |-> now]
        BY <1>0, <2>2, <2>3, <3>1, FillFileKeeps
      <3> QED BY <3>2, <3>3, <3>4
    <2>6. Work(sync'[c], u, server, X)
      <3> HIDE DEF u
      <3> QED BY <1>T, <2>1, <2>2, <2>3, <2>4, <2>5, WorkDownloadCopy
    <2> HIDE DEF u
    <2> QED BY <2>1, <2>3, <2>4, <2>6 DEF RunOf
  <1>11. CASE ActionMkDir(c)
    <2>1. PICK a \in sync[c].acts :
            /\ a.act = "mkdir"
            /\ local' = [local EXCEPT ![c] = MkDir(@, a.path, now)]
            /\ sync' = [sync EXCEPT ![c].acts = @ \ {a}]
            /\ sync[c].pc = "acting" /\ sync[c].op = NoOp
            /\ server' = server
      BY <1>11 DEF ActionMkDir, Acting
    <2>2. sync[c].op.step = "none" /\ sync[c].todo = {}
      BY <1>S, <2>1 DEF Shape
    <2>x. PICK x \in Dirs : a.path = x
      BY <1>T, <2>1 DEF Kinds
    <2> DEFINE u == MkDir(local[c], x, now)
    <2>3. /\ Sound(u) /\ DOMAIN u = DOMAIN local[c] \cup {x} \cup Above(x)
          /\ KeepsApartFrom({}, local[c], u)
      <3>1. IsTree(local[c]) /\ x \in Paths
        BY <2>2, PathsAssumption DEF TypeOK
      <3>2. DOMAIN u = DOMAIN local[c] \cup {x} \cup Above(x)
        BY <1>0, <3>1, MkDirTree
      <3>3. Sound(u) /\ KeepsApartFrom({}, local[c], u)
        BY <1>0, <1>T, <2>2, <3>1, MkDirSound, MkDirKeeps
      <3> QED BY <3>2, <3>3
    <2>4. local'[c] = u
      BY <1>0, <2>1, <2>x
    <2> HIDE DEF u
    <2>5. /\ sync'[c].pc = "acting" /\ sync'[c].final = sync[c].final
          /\ sync'[c].acts = sync[c].acts \ {a} /\ sync'[c].todo = sync[c].todo
          /\ sync'[c].op.step = "none"
      BY <1>0, <1>F, <2>1, <2>2
    <2>6. Work(sync'[c], u, server, X)
      <3>1. sync[c].acts \subseteq Action /\ a.act = "mkdir" /\ Sound(server) /\ Sound(local[c])
        BY <1>F, <1>T, <2>1
      <3>2. Work(sync[c], local[c], server, X)
        BY <1>C, <2>1
      <3> QED BY <2>2, <2>3, <2>5, <2>x, <3>1, <3>2, WorkMkDir
    <2> QED BY <2>1, <2>4, <2>5, <2>6 DEF RunOf
  <1>12. CASE CreateDirectorySnapshot(c)
    <2>1. /\ sync' = [sync EXCEPT ![c].pc = "idle"] /\ sync[c].pc = "acting"
          /\ local' = local /\ server' = server
      BY <1>12 DEF CreateDirectorySnapshot, Acting
    <2>2. /\ sync'[c].pc = "idle" /\ sync'[c].final = sync[c].final
          /\ sync'[c].op = sync[c].op /\ sync'[c].todo = sync[c].todo
          /\ sync'[c].acts = sync[c].acts
      BY <1>0, <1>F, <2>1
    <2>3. Work(sync'[c], local[c], server, X)
      BY <1>C, <2>1, <2>2, WorkFrame
    <2> QED BY <2>1, <2>2, <2>3 DEF RunOf
  <1> QED
    BY <1>1, <1>2, <1>3, <1>4, <1>5, <1>6, <1>7, <1>8, <1>9, <1>10, <1>11, <1>12
    DEF RunStep, HandlerStep, ActionStep

-----------------------------------------------------------------------------
(* A calm run.  What it is spared by being calm: nobody else changes the     *)
(* server's directory, nobody but its run its own, and no step of the run    *)
(* fails.                                                                    *)

\* A step of one run leaves the others' clients alone, and is the end of their
\* calm when it changes the server's directory.
LEMMA OthersAlone ==
  ASSUME TypeOK, NEW c \in Clients, RunStep(c)
  PROVE  /\ \A d \in Clients \ {c} : local'[d] = local[d]
         /\ \/ calm' = calm \cap {c}
            \/ /\ calm' = calm /\ server' = server
               /\ \A d \in Clients \ {c} : sync'[d] = sync[d]
  <1>0. DOMAIN sync = Clients /\ DOMAIN local = Clients
    BY DEF TypeOK
  <1>1. CASE HandleRemove(c) \/ HandleDirectory(c) \/ UploadCreate(c) \/ UploadCopy(c)
    BY <1>1 DEF HandleRemove, HandleDirectory, UploadCreate, UploadCopy
  <1>2. CASE PostSnapshot(c) \/ HandleSnapshot(c) \/ Respond(c)
    BY <1>0, <1>2 DEF PostSnapshot, HandleSnapshot, Respond
  <1>3. CASE UploadOpen(c) \/ DownloadCreate(c)
    <2>1. CASE UploadOpen(c)
      <3>1. PICK a, op : sync' = [sync EXCEPT ![c].acts = @ \ {a}, ![c].op = op]
        BY <2>1 DEF UploadOpen
      <3> QED BY <1>0, <2>1, <3>1 DEF UploadOpen
    <2>2. CASE DownloadCreate(c)
      <3>1. PICK a, op : sync' = [sync EXCEPT ![c].acts = @ \ {a}, ![c].op = op]
        BY <2>2 DEF DownloadCreate
      <3> QED BY <1>0, <2>2, <3>1 DEF DownloadCreate
    <2> QED BY <1>3, <2>1, <2>2
  <1>4. CASE DownloadCopy(c) \/ ActionMkDir(c) \/ CreateDirectorySnapshot(c)
    BY <1>0, <1>4 DEF DownloadCopy, ActionMkDir, CreateDirectorySnapshot
  <1> QED
    BY <1>1, <1>2, <1>3, <1>4 DEF RunStep, HandlerStep, ActionStep

LEMMA CalmFrame ==
  ASSUME CalmInv, NEW c \in Clients,
         \A d \in calm' \ {c} :
           /\ d \in calm /\ sync'[d] = sync[d]
           /\ local'[d] = local[d] /\ server' = server,
         c \in calm' => RunOf(sync'[c], local'[c], server', {})
  PROVE  CalmInv'
  BY DEF CalmInv, RunOf

LEMMA InitCalm == Init => CalmInv
  BY DEF Init, CalmInv

LEMMA NextCalm ==
  ASSUME SyncInv, CalmInv, [Next]_vars
  PROVE  CalmInv'
  <1>0. /\ DOMAIN sync = Clients /\ DOMAIN local = Clients /\ calm \subseteq Clients
        /\ server = server
    BY DEF SyncInv, TypeOK
  <1>F. \A c \in Clients :
          sync[c] \in [pc : PCs, final : {sync[c].final}, todo : SUBSET Effect,
                      acts : SUBSET Action, op : Transfer]
    BY DEF SyncInv, TypeOK, IsRun
  <1>1. ASSUME NEW c \in Clients, SyncStart(c) PROVE CalmInv'
    <2>1. sync'[c].pc = "started" /\ \A d \in Clients \ {c} : sync'[d] = sync[d]
      BY <1>0, <1>F, <1>1 DEF SyncStart
    <2> QED BY <1>0, <1>1, <2>1, CalmFrame DEF SyncStart, RunOf
  <1>2. ASSUME NEW c \in Clients, RunStep(c) PROVE CalmInv'
    <2>1. /\ \A d \in Clients \ {c} : local'[d] = local[d]
          /\ \/ calm' = calm \cap {c}
             \/ /\ calm' = calm /\ server' = server
                /\ \A d \in Clients \ {c} : sync'[d] = sync[d]
      BY <1>2, OthersAlone DEF SyncInv
    <2>2. c \in calm' => RunOf(sync'[c], local'[c], server', {})
      <3> SUFFICES ASSUME c \in calm PROVE RunOf(sync'[c], local'[c], server', {})
        BY <2>1
      <3>1. RunOf(sync[c], local[c], server, {})
        BY DEF CalmInv
      <3> QED BY <1>2, <3>1, OwnStep
    <2> QED BY <1>0, <2>1, <2>2, CalmFrame
  <1>3. ASSUME Publish PROVE CalmInv'
    BY <1>3 DEF Publish, CalmInv, RunOf
  <1>4. ASSUME PublishFail PROVE CalmInv'
    <2>1. PICK m \in unsent :
            /\ calm' = calm \ {m.client}
            /\ \/ sync' = sync
               \/ /\ sync[m.client].pc \in {"handling", "orphan"}
                  /\ sync' = [sync EXCEPT ![m.client].pc = "idle",
                                          ![m.client].todo = {}, ![m.client].acts = {}]
            /\ server' = server /\ local' = local
      BY <1>4 DEF PublishFail, HandlerEnds, Fault
    <2>2. m.client \in Clients
      BY DEF SyncInv, TypeOK, Message
    <2> QED BY <1>0, <2>1, <2>2, CalmFrame
  <1>5. ASSUME NEW c \in Clients, Failure(c) PROVE CalmInv'
    BY <1>0, <1>5, CalmFrame
    DEF Failure, TransferFail, HandlerFail, HandlerEnds, Kill, KillInSnapshot, Fault
  <1>6. ASSUME NEW c \in Clients, User(c) PROVE CalmInv'
    BY <1>0, <1>6, CalmFrame DEF User, Edit, NewDir, Delete, UserStep
  <1>7. CASE Tick \/ UNCHANGED vars
    BY <1>7 DEF Tick, vars, CalmInv, RunOf
  <1> QED
    BY <1>1, <1>2, <1>3, <1>4, <1>5, <1>6, <1>7 DEF Next

-----------------------------------------------------------------------------
(* What follows.                                                            *)

CalmSyncInv == SyncInv /\ CalmInv

\* When nothing is left to do, the two are the same.
LEMMA WorkDone ==
  ASSUME NEW r, NEW l, NEW s, NEW X, Work(r, l, s, X),
         r.todo = {}, r.acts = {}, r.op.step = "none",
         NEW p \in Paths \ (Excluded \cup Spared(r, X))
  PROVE  Same(l, s, p)
  <1>1. p \in Kept(r, X) /\ (p \in Files \/ p \in Dirs)
    BY DEF Kept, Files
  <1> QED BY <1>1 DEF Work, NotesInWork, DirsInWork, Has, At

LEMMA CalmSyncAlways == Spec => []CalmSyncInv
  <1>1. Init => CalmSyncInv
    BY InitType, InitHidden, InitShape, InitTrees, InitCalm DEF CalmSyncInv, SyncInv
  <1>2. CalmSyncInv /\ [Next]_vars => CalmSyncInv'
    BY NextType, NextHidden, NextShape, NextTrees, NextCalm DEF CalmSyncInv, SyncInv
  <1> QED BY <1>1, <1>2, PTL DEF Spec

\* A run that nobody disturbed leaves its client and the server with the same
\* paths and contents, for any number of clients whose runs come before,
\* between and after its own, and any faults of theirs and of its own earlier
\* runs: whatever is not the same yet is still to be done, and what is to be
\* done is done or the run is disturbed.
THEOREM CalmRunAgrees == Spec => []CalmSyncAgrees
  <1>1. CalmSyncInv => CalmSyncAgrees
    <2> SUFFICES ASSUME CalmSyncInv, NEW c \in Clients, Completed(c),
                        NEW p \in Paths \ (Excluded \cup Doomed(sync[c].final))
                 PROVE  Same(local[c], server, p)
      BY DEF CalmSyncAgrees
    <2>1. /\ Work(sync[c], local[c], server, {}) /\ c \in Clients
          /\ sync[c].todo = {} /\ sync[c].acts = {} /\ sync[c].op.step = "none"
      BY DEF CalmSyncInv, SyncInv, Completed, CalmInv, RunOf, ShapeInv, Shape
    <2> QED BY <2>1, WorkDone DEF Spared
  <1> QED BY <1>1, CalmSyncAlways, PTL

\* A client asks for a file only when it takes up a download.
LEMMA FetchStarts ==
  ASSUME TypeOK, [Next]_vars, NEW c \in Clients,
         sync[c].op.step = "none", sync'[c].op.step = "fetch"
  PROVE  DownloadCreate(c)
  <1>0. DOMAIN sync = Clients /\ NoOp.step = "none"
    BY DEF TypeOK, NoOp
  <1>F. \A d \in Clients :
          sync[d] \in [pc : PCs, final : {sync[d].final}, todo : SUBSET Effect,
                      acts : SUBSET Action, op : Transfer]
    BY DEF TypeOK, IsRun
  <1>1. ASSUME NEW d \in Clients, HandleRemove(d) PROVE FALSE
    <2>1. PICK e \in sync[d].todo :
            sync' = [Unlink("copy", Subtree(e.path)) EXCEPT ![d].todo = @ \ {e}]
      BY <1>1 DEF HandleRemove
    <2> DEFINE u == Unlink("copy", Subtree(e.path))
    <2>2. DOMAIN u = Clients /\ u[c] = sync[c] /\ IsRun(u[c])
      BY DEF Unlink, TypeOK
    <2>3. sync' = [u EXCEPT ![d].todo = @ \ {e}]
      BY <2>1
    <2> HIDE DEF u
    <2> QED BY <2>2, <2>3 DEF IsRun
  <1>2. ASSUME NEW d \in Clients, d # c, DownloadCreate(d) PROVE FALSE
    BY <1>0, <1>F, <1>2 DEF DownloadCreate
  <1>3. ASSUME NEW d \in Clients, SyncStart(d) \/ PostSnapshot(d) \/ HandleSnapshot(d)
                                    \/ HandleDirectory(d) \/ Respond(d)
        PROVE  FALSE
    BY <1>0, <1>F, <1>3
    DEF SyncStart, PostSnapshot, HandleSnapshot, HandleDirectory, Respond
  <1>4. ASSUME NEW d \in Clients, UploadOpen(d) \/ UploadCreate(d) \/ UploadCopy(d)
                                    \/ DownloadCopy(d) \/ ActionMkDir(d)
                                    \/ CreateDirectorySnapshot(d)
        PROVE  FALSE
    <2>1. CASE UploadOpen(d)
      <3>1. PICK a \in sync[d].acts, o \in Transfer :
              /\ o.step # "fetch"
              /\ sync' = [sync EXCEPT ![d].acts = @ \ {a}, ![d].op = o]
        <4>1. PICK a \in sync[d].acts :
                sync' = [sync EXCEPT
                           ![d].acts = @ \ {a},
                           ![d].op = IF a.path \in DOMAIN local[d]
                                       THEN [step |-> "post", path |-> a.path,
                                             body |-> local[d][a.path].body,
                                             linked |-> TRUE]
                                       ELSE NoOp]
          BY <2>1 DEF UploadOpen
        <4>2. a.path \in Paths
          BY DEF TypeOK, IsRun, Action
        <4>3. a.path \in DOMAIN local[d] => local[d][a.path].body \in Body
          BY DEF TypeOK, IsTree, Entry
        <4> QED BY <1>0, <4>1, <4>2, <4>3 DEF Transfer
      <3> QED BY <1>0, <1>F, <3>1
    <2>2. CASE UploadCreate(d)
      BY <1>0, <1>F, <2>2 DEF UploadCreate
    <2>3. CASE UploadCopy(d)
      BY <1>0, <1>F, <2>3 DEF UploadCopy
    <2>4. CASE DownloadCopy(d)
      BY <1>0, <1>F, <2>4 DEF DownloadCopy
    <2>5. CASE ActionMkDir(d)
      BY <1>0, <1>F, <2>5 DEF ActionMkDir
    <2>6. CASE CreateDirectorySnapshot(d)
      BY <1>0, <1>F, <2>6 DEF CreateDirectorySnapshot
    <2> QED BY <1>4, <2>1, <2>2, <2>3, <2>4, <2>5, <2>6
  <1>5. ASSUME NEW d \in Clients, Failure(d) PROVE FALSE
    BY <1>0, <1>F, <1>5
    DEF Failure, TransferFail, HandlerFail, HandlerEnds, Kill, KillInSnapshot
  <1>6. ASSUME NEW d \in Clients, User(d) PROVE FALSE
    <2>1. CASE Edit(d) \/ NewDir(d)
      BY <2>1 DEF Edit, NewDir
    <2>2. CASE Delete(d)
      BY <1>0, <1>F, <2>2 DEF Delete
    <2> QED BY <1>6, <2>1, <2>2 DEF User
  <1>7. ASSUME PublishFail PROVE FALSE
    <2>1. PICK m \in unsent :
            \/ sync' = sync
            \/ sync' = [sync EXCEPT ![m.client].pc = "idle",
                                    ![m.client].todo = {}, ![m.client].acts = {}]
      BY <1>7 DEF PublishFail, HandlerEnds
    <2>2. m.client \in Clients
      BY DEF TypeOK, Message
    <2> QED BY <1>0, <1>F, <2>1, <2>2
  <1>8. ASSUME Publish \/ Tick \/ UNCHANGED vars PROVE FALSE
    BY <1>8 DEF Publish, Tick, vars
  <1> QED
    BY <1>1, <1>2, <1>3, <1>4, <1>5, <1>6, <1>7, <1>8
    DEF Next, RunStep, HandlerStep, ActionStep

\* What a run nobody disturbs overwrites or removes is not newer than what it
\* goes by, for any number of clients and whatever time goes by between the
\* server's comparison and the last of its consequences.
THEOREM CalmRunRespectsMtimes == Spec => CalmSyncRespectsMtimes
  <1> DEFINE Respects ==
        \A c \in calm \cap calm' : \A p \in Files :
          LET before == sync[c].op
              after  == sync'[c].op
              final  == sync[c].final
          IN /\ before.step = "post" /\ after.step = "copy"
                  /\ before.path = p /\ p \in DOMAIN server
                  => local[c][p].mtime >= server[p].mtime
             /\ before.step = "none" /\ after.step = "fetch"
                  /\ after.path = p /\ p \in DOMAIN local[c]
                  => server[p].mtime > local[c][p].mtime
             /\ p \in DOMAIN server \ DOMAIN server'
                  /\ (Tombstones(final) \ DOMAIN server') \cap Above(p) = {}
                  => p \in Tombstones(final) /\ final[p].mtime >= server[p].mtime
  <1>1. CalmSyncInv /\ [Next]_vars => [Respects]_vars
    <2> SUFFICES ASSUME CalmSyncInv, [Next]_vars, NEW c \in calm \cap calm', NEW p \in Files
                 PROVE  /\ sync[c].op.step = "post" /\ sync'[c].op.step = "copy"
                             /\ sync[c].op.path = p /\ p \in DOMAIN server
                             => local[c][p].mtime >= server[p].mtime
                        /\ sync[c].op.step = "none" /\ sync'[c].op.step = "fetch"
                             /\ sync'[c].op.path = p /\ p \in DOMAIN local[c]
                             => server[p].mtime > local[c][p].mtime
                        /\ p \in DOMAIN server \ DOMAIN server'
                             /\ (Tombstones(sync[c].final) \ DOMAIN server') \cap Above(p) = {}
                             => /\ p \in Tombstones(sync[c].final)
                                /\ sync[c].final[p].mtime >= server[p].mtime
      OBVIOUS
    <2> USE DEF CalmSyncInv, SyncInv
    <2>0. /\ c \in Clients /\ c \in calm /\ DOMAIN sync = Clients /\ Shape(sync[c])
          /\ sync[c].pc # "orphan"
          /\ sync[c].pc \in {"handling", "acting", "idle"} =>
               Work(sync[c], local[c], server, {})
      BY DEF TypeOK, ShapeInv, CalmInv, RunOf
    <2>1. ASSUME sync[c].op.step = "post", sync[c].op.path = p, p \in DOMAIN server
          PROVE  local[c][p].mtime >= server[p].mtime
      BY <2>0, <2>1 DEF Shape, Work, TransferKnown
    <2>2. ASSUME sync[c].op.step = "none", sync'[c].op.step = "fetch",
                 sync'[c].op.path = p, p \in DOMAIN local[c]
          PROVE  server[p].mtime > local[c][p].mtime
      <3>1. DownloadCreate(c)
        BY <2>0, <2>2, FetchStarts
      <3>2. PICK a \in sync[c].acts :
              /\ a.act = "download" /\ sync[c].pc = "acting"
              /\ sync' = [sync EXCEPT
                            ![c].acts = @ \ {a},
                            ![c].op = [step |-> "fetch", path |-> a.path,
                                       body |-> Empty, linked |-> TRUE]]
        BY <3>1 DEF DownloadCreate, Acting
      <3>3. a.path = p /\ sync[c].acts \subseteq Action
        BY <2>0, <2>2, <3>2 DEF TypeOK, IsRun
      <3>4. Has(sync[c].acts, "download", p)
        <4>1. Has(sync[c].acts, a.act, a.path)
          BY <3>3, HasAfter
        <4> QED BY <3>2, <3>3, <4>1
      <3> QED BY <2>0, <2>2, <3>2, <3>4 DEF Work, DownloadsNewer
    <2>3. ASSUME p \in DOMAIN server \ DOMAIN server',
                 (Tombstones(sync[c].final) \ DOMAIN server') \cap Above(p) = {}
          PROVE  p \in Tombstones(sync[c].final) /\ sync[c].final[p].mtime >= server[p].mtime
      <3>1. HandleRemove(c)
        <4>1. PICK d \in Clients : HandleRemove(d)
          BY <2>3, ServerKeeps
        <4> QED BY <4>1 DEF HandleRemove
      <3>2. PICK e \in sync[c].todo :
              /\ e.act = "remove" /\ server' = Rm(server, e.path, now)
              /\ sync[c].pc \in {"handling", "orphan"}
        BY <3>1 DEF HandleRemove, Handling
      <3>3. /\ e.path \in Tombstones(sync[c].final)
            /\ e.path \in Files \cap DOMAIN server =>
                 sync[c].final[e.path].mtime >= server[e.path].mtime
        BY <2>0, <3>2 DEF Work, RemovesOlder
      <3>4. e.path \in Paths /\ IsTree(server) /\ now \in Nat
        BY <2>0 DEF TypeOK, IsRun, Effect
      <3>5. DOMAIN server' = DOMAIN server \ Subtree(e.path)
        BY <3>2, <3>4, RmTree
      <3>6. p \in Subtree(e.path) /\ e.path \in Subtree(e.path)
        BY <2>3, <3>5 DEF Subtree
      <3>7. e.path = p
        BY <2>3, <3>3, <3>4, <3>5, <3>6, SubtreeAbove DEF Files
      <3> QED BY <2>3, <3>3, <3>7
    <2> QED BY <2>1, <2>2, <2>3
  <1> QED BY <1>1, CalmSyncAlways, PTL DEF Spec, CalmSyncRespectsMtimes
=============================================================================

------------------------- MODULE SnapshotSyncProofs -------------------------
(* Proofs about SnapshotSync, for any paths, clients and bounds.            *)
EXTENDS SnapshotSync, FileTreeProofs, ReplayingProofs

-----------------------------------------------------------------------------
(* The snapshots and what the comparisons make of them.                     *)

LEMMA MetadataSnapshot ==
  ASSUME NEW t, IsTree(t)
  PROVE  /\ IsSnapshot(GetLocalMetadata(t))
         /\ DOMAIN GetLocalMetadata(t) = DOMAIN t \ Excluded
         /\ Tombstones(GetLocalMetadata(t)) = {}
  BY DEF IsTree, Entry, IsSnapshot, Meta, GetLocalMetadata, Tombstones

LEMMA FinalSnapshotOfTwo ==
  ASSUME NEW last, NEW current, IsSnapshot(last), IsSnapshot(current),
         Tombstones(current) = {}
  PROVE  /\ IsSnapshot(FinalSnapshot(last, current))
         /\ DOMAIN FinalSnapshot(last, current) = DOMAIN last \cup DOMAIN current
         /\ Tombstones(FinalSnapshot(last, current)) \subseteq DOMAIN last
  BY DEF IsSnapshot, Meta, FinalSnapshot, Tombstones

LEMMA EffectsOfTwo ==
  ASSUME NEW s, NEW f, IsSnapshot(s), IsSnapshot(f)
  PROVE  /\ Effects(s, f) \subseteq Effect
         /\ \A e \in Effects(s, f) :
              /\ e.path \in DOMAIN f
              /\ e.act = "remove" => e.path \in Tombstones(f)
  BY PathsAssumption
  DEF Effects, Effect, Removals, Creations, IsSnapshot, Tombstones

LEMMA ActionsOfTwo ==
  ASSUME NEW s, NEW f, IsSnapshot(s), IsSnapshot(f)
  PROVE  /\ Actions(s, f) \subseteq Action
         /\ \A a \in Actions(s, f) : a.act = "upload" => a.path \in DOMAIN f
  BY PathsAssumption
  DEF Actions, Action, Uploads, Downloads, MkDirs, Files, IsSnapshot

LEMMA TransferWith ==
  ASSUME NEW op \in Transfer, op.step # "none"
  PROVE  /\ op.path \in Paths
         /\ op.body \in Body
         /\ [op EXCEPT !.step = "copy"] \in Transfer
         /\ [op EXCEPT !.linked = FALSE] \in Transfer
  <1>1. op \in [step : {"post", "copy", "fetch"}, path : Paths, body : Body,
               linked : BOOLEAN]
    BY DEF Transfer, NoOp
  <1> QED BY <1>1 DEF Transfer

LEMMA RunWithOp ==
  ASSUME NEW r, IsRun(r), NEW op \in Transfer
  PROVE  IsRun([r EXCEPT !.op = op])
  BY DEF IsRun

LEMMA UnlinkRuns ==
  ASSUME NEW step, step # "none", NEW removed, NEW c \in Clients, IsRun(sync[c])
  PROVE  LET q == Unlink(step, removed)[c] IN
         /\ IsRun(q)
         /\ q.pc = sync[c].pc /\ q.final = sync[c].final /\ q.todo = sync[c].todo
         /\ q.acts = sync[c].acts
         /\ q.op.path = sync[c].op.path /\ q.op.step = sync[c].op.step
  <1> DEFINE q == Unlink(step, removed)[c]
             op == [sync[c].op EXCEPT !.linked = FALSE]
  <1>1. sync[c].op \in Transfer
    BY DEF IsRun
  <1>2. CASE q = sync[c]
    BY <1>2
  <1>3. CASE q # sync[c]
    <2>1. sync[c].op.step = step /\ q = [sync[c] EXCEPT !.op = op]
      BY <1>3 DEF Unlink
    <2>2. op \in Transfer /\ op.path = sync[c].op.path /\ op.step = sync[c].op.step
      BY <1>1, <2>1, TransferWith DEF Transfer, NoOp
    <2> HIDE DEF op
    <2>3. IsRun(q)
      BY <2>1, <2>2, RunWithOp
    <2> QED BY <2>1, <2>2, <2>3 DEF IsRun
  <1> QED BY <1>2, <1>3

-----------------------------------------------------------------------------
(* Type correctness.                                                        *)

LEMMA NoFilesType == IsTree(NoFiles) /\ IsSnapshot(NoFiles) /\ DOMAIN NoFiles = {}
  BY DEF NoFiles, IsTree, IsSnapshot

LEMMA NoOpType == NoOp \in Transfer
  BY DEF NoOp, Transfer, Body

LEMMA RunWithFinal ==
  ASSUME NEW r, IsRun(r), NEW pc \in PCs, NEW f, IsSnapshot(f)
  PROVE  IsRun([r EXCEPT !.pc = pc, !.final = f])
  <1> DEFINE q == [r EXCEPT !.pc = pc, !.final = f]
  <1>1. q \in [pc : PCs, final : {f}, todo : SUBSET Effect,
              acts : SUBSET Action, op : Transfer]
    BY DEF IsRun
  <1>2. q.final = f
    BY <1>1
  <1> HIDE DEF q
  <1> QED BY <1>1, <1>2 DEF IsRun

LEMMA InitType == Init => TypeOK
  <1> SUFFICES ASSUME Init PROVE TypeOK
    OBVIOUS
  <1>1. \A c \in Clients : IsRun(sync[c])
    <2> DEFINE r == [pc |-> "idle", final |-> NoFiles, todo |-> {}, acts |-> {},
                     op |-> NoOp]
    <2>1. IsRun(r)
      BY NoOpType, NoFilesType DEF IsRun, PCs
    <2> QED BY <2>1 DEF Init
  <1>2. queue \in [Clients \cup Listeners -> Seq(Message)]
    BY DEF Init
  <1> QED BY <1>1, <1>2, NoFilesType DEF Init, TypeOK

LEMMA NextType == TypeOK /\ [Next]_vars => TypeOK'
  <1> SUFFICES ASSUME TypeOK, [Next]_vars PROVE TypeOK'
    OBVIOUS
  <1> USE DEF TypeOK
  <1>1. ASSUME NEW c \in Clients, SyncStart(c) PROVE TypeOK'
    <2>1. \A d \in Clients : IsRun(sync'[d])
      BY <1>1, NoFilesType, RunWithFinal DEF SyncStart, PCs
    <2>2. queue' \in [Clients \cup Listeners -> Seq(Message)]
      BY <1>1 DEF SyncStart
    <2> QED BY <1>1, <2>1, <2>2 DEF SyncStart
  <1>2. ASSUME NEW c \in Clients, PostSnapshot(c) PROVE TypeOK'
    <2> DEFINE current == GetLocalMetadata(local[c])
               final == IF shot[c] = NoShot THEN current
                        ELSE FinalSnapshot(shot[c], current)
    <2>1. IsSnapshot(final)
      BY MetadataSnapshot, FinalSnapshotOfTwo
    <2>2. sync' = [sync EXCEPT ![c].pc = "posted", ![c].final = final]
      BY <1>2 DEF PostSnapshot
    <2> HIDE DEF final
    <2>3. \A d \in Clients : IsRun(sync'[d])
      BY <2>1, <2>2, RunWithFinal DEF PCs
    <2> QED BY <1>2, <2>2, <2>3 DEF PostSnapshot
  <1>3. ASSUME NEW c \in Clients, HandleSnapshot(c) PROVE TypeOK'
    <2> DEFINE E == Effects(GetLocalMetadata(server), sync[c].final)
               A == Actions(GetLocalMetadata(server), sync[c].final)
    <2>1. E \subseteq Effect /\ A \subseteq Action
      BY MetadataSnapshot, EffectsOfTwo, ActionsOfTwo DEF IsRun
    <2>2. sync' = [sync EXCEPT ![c].pc = "handling", ![c].todo = E, ![c].acts = A]
      BY <1>3 DEF HandleSnapshot
    <2> HIDE DEF E, A
    <2>3. IsRun([sync[c] EXCEPT !.pc = "handling", !.todo = E, !.acts = A])
      BY <2>1 DEF IsRun, PCs
    <2>4. \A d \in Clients : IsRun(sync'[d])
      BY <2>2, <2>3
    <2> QED BY <1>3, <2>2, <2>4 DEF HandleSnapshot
  <1>4. ASSUME NEW c \in Clients, HandleRemove(c) PROVE TypeOK'
    <2>1. PICK e \in sync[c].todo :
             /\ server' = Rm(server, e.path, now)
             /\ sync' = [Unlink("copy", Subtree(e.path)) EXCEPT ![c].todo = @ \ {e}]
             /\ Announce(c, "REMOVE", e.path)
      BY <1>4 DEF HandleRemove
    <2>2. e.path \in Paths
      BY DEF IsRun, Effect
    <2>3. IsTree(server')
      BY <2>1, RmTree
    <2>4. DOMAIN sync' = Clients /\ \A d \in Clients : IsRun(sync'[d])
      <3> DEFINE u == Unlink("copy", Subtree(e.path))
      <3>1. DOMAIN u = Clients /\ \A d \in Clients : IsRun(u[d])
        BY UnlinkRuns DEF Unlink
      <3>2. sync' = [u EXCEPT ![c].todo = @ \ {e}]
        BY <2>1
      <3> HIDE DEF u
      <3> QED BY <3>1, <3>2 DEF IsRun
    <2>5. unsent' \subseteq Message
      BY <2>1, <2>2 DEF Announce, Message
    <2> QED BY <1>4, <2>3, <2>4, <2>5 DEF HandleRemove
  <1>5. ASSUME NEW c \in Clients, HandleDirectory(c) PROVE TypeOK'
    <2>1. PICK e \in sync[c].todo :
             /\ server' = MkDir(server, e.path, now)
             /\ sync' = [sync EXCEPT ![c].todo = @ \ {e}]
             /\ Announce(c, "CREATE", e.path)
      BY <1>5 DEF HandleDirectory
    <2>2. e.path \in Paths
      BY DEF IsRun, Effect
    <2>3. IsTree(server')
      BY <2>1, <2>2, MkDirTree
    <2>4. \A d \in Clients : IsRun(sync'[d])
      BY <2>1 DEF IsRun
    <2>5. unsent' \subseteq Message
      BY <2>1, <2>2 DEF Announce, Message
    <2> QED BY <1>5, <2>1, <2>3, <2>4, <2>5 DEF HandleDirectory
  <1>6. ASSUME NEW c \in Clients, Respond(c) PROVE TypeOK'
    BY <1>6 DEF Respond, IsRun, PCs
  <1>7. ASSUME NEW c \in Clients, UploadOpen(c) PROVE TypeOK'
    <2>1. PICK a \in sync[c].acts :
             sync' = [sync EXCEPT
                        ![c].acts = @ \ {a},
                        ![c].op = IF a.path \in DOMAIN local[c]
                                    THEN [step |-> "post", path |-> a.path,
                                          body |-> local[c][a.path].body,
                                          linked |-> TRUE]
                                    ELSE NoOp]
      BY <1>7 DEF UploadOpen
    <2>2. sync'[c].op \in Transfer
      BY <2>1 DEF IsRun, IsTree, Entry, Transfer, NoOp, Body
    <2>3. \A d \in Clients : IsRun(sync'[d])
      BY <2>1, <2>2 DEF IsRun
    <2> QED BY <1>7, <2>1, <2>3 DEF UploadOpen
  <1>8. ASSUME NEW c \in Clients, UploadCreate(c) PROVE TypeOK'
    <2>1. sync[c].op \in Transfer /\ sync[c].op.step # "none"
      BY <1>8 DEF UploadCreate, IsRun
    <2>2. IsTree(server')
      BY <1>8, <2>1, TransferWith, CreateFileTree DEF UploadCreate, Body
    <2>3. \A d \in Clients : IsRun(sync'[d])
      BY <1>8, <2>1, TransferWith, RunWithOp DEF UploadCreate
    <2> QED BY <1>8, <2>2, <2>3 DEF UploadCreate
  <1>9. ASSUME NEW c \in Clients, UploadCopy(c) PROVE TypeOK'
    <2>1. sync[c].op \in Transfer /\ sync[c].op.step # "none"
      BY <1>9 DEF UploadCopy, IsRun
    <2>2. IsTree(server')
      BY <1>9, <2>1, TransferWith, FillFileTree DEF UploadCopy
    <2>3. \A d \in Clients : IsRun(sync'[d])
      BY <1>9, NoOpType, RunWithOp DEF UploadCopy
    <2>4. unsent' \subseteq Message
      <3>1. sync[c].op.path \in Paths
        BY <2>1, TransferWith
      <3> QED BY <1>9, <3>1 DEF UploadCopy, Announce, Message
    <2> QED BY <1>9, <2>2, <2>3, <2>4 DEF UploadCopy
  <1>10. ASSUME NEW c \in Clients, DownloadCreate(c) PROVE TypeOK'
    <2>1. PICK a \in sync[c].acts :
             /\ local' = [local EXCEPT ![c] = CreateFile(@, a.path, Empty, now)]
             /\ sync' = [sync EXCEPT
                           ![c].acts = @ \ {a},
                           ![c].op = [step |-> "fetch", path |-> a.path,
                                      body |-> Empty, linked |-> TRUE]]
      BY <1>10 DEF DownloadCreate
    <2>2. a.path \in Paths
      BY DEF IsRun, Action
    <2>3. \A d \in Clients : IsTree(local'[d])
      BY <2>1, <2>2, CreateFileTree DEF Body
    <2>4. \A d \in Clients : IsRun(sync'[d])
      <3> DEFINE op == [step |-> "fetch", path |-> a.path, body |-> Empty,
                        linked |-> TRUE]
      <3>1. op \in Transfer
        BY <2>2 DEF Transfer, Body
      <3>2. sync' = [sync EXCEPT ![c].acts = @ \ {a}, ![c].op = op]
        BY <2>1
      <3> HIDE DEF op
      <3> QED BY <3>1, <3>2 DEF IsRun
    <2> QED BY <1>10, <2>1, <2>3, <2>4 DEF DownloadCreate
  <1>11. ASSUME NEW c \in Clients, DownloadCopy(c) PROVE TypeOK'
    <2> DEFINE op == sync[c].op
               body == IF op.path \in DOMAIN server THEN server[op.path].body
                                                    ELSE ErrorPage
    <2>1. body \in Body
      BY DEF IsTree, Entry, Body
    <2>2. \A d \in Clients : IsTree(local'[d])
      <3>1. local' = IF op.linked
                       THEN [local EXCEPT ![c] = FillFile(@, op.path, body, now)]
                       ELSE local
        BY <1>11 DEF DownloadCopy
      <3> HIDE DEF body
      <3> QED BY <2>1, <3>1, FillFileTree
    <2>3. \A d \in Clients : IsRun(sync'[d])
      BY <1>11, NoOpType DEF DownloadCopy, IsRun
    <2> QED BY <1>11, <2>2, <2>3 DEF DownloadCopy
  <1>12. ASSUME NEW c \in Clients, ActionMkDir(c) PROVE TypeOK'
    <2>1. PICK a \in sync[c].acts :
             /\ local' = [local EXCEPT ![c] = MkDir(@, a.path, now)]
             /\ sync' = [sync EXCEPT ![c].acts = @ \ {a}]
      BY <1>12 DEF ActionMkDir
    <2>2. a.path \in Paths
      BY DEF IsRun, Action
    <2>3. \A d \in Clients : IsTree(local'[d])
      BY <2>1, <2>2, MkDirTree
    <2>4. \A d \in Clients : IsRun(sync'[d])
      BY <2>1 DEF IsRun
    <2> QED BY <1>12, <2>1, <2>3, <2>4 DEF ActionMkDir
  <1>13. ASSUME NEW c \in Clients, CreateDirectorySnapshot(c) PROVE TypeOK'
    <2>1. \A d \in Clients : shot'[d] = NoShot \/ IsSnapshot(shot'[d])
      BY <1>13, MetadataSnapshot DEF CreateDirectorySnapshot
    <2>2. \A d \in Clients : IsRun(sync'[d])
      BY <1>13 DEF CreateDirectorySnapshot, IsRun, PCs
    <2> QED BY <1>13, <2>1, <2>2 DEF CreateDirectorySnapshot
  <1>14. ASSUME Publish PROVE TypeOK'
    <2>1. PICK m \in unsent :
             /\ unsent' = unsent \ {m}
             /\ queue' = [q \in DOMAIN queue |->
                            IF q \in Listeners THEN Append(queue[q], m) ELSE queue[q]]
      BY <1>14 DEF Publish
    <2>2. queue' \in [Clients \cup Listeners -> Seq(Message)]
      BY <2>1
    <2> QED BY <1>14, <2>1, <2>2 DEF Publish
  <1>15. ASSUME PublishFail PROVE TypeOK'
    <2>1. PICK m \in unsent :
             /\ Fault(m.client)
             /\ unsent' = unsent \ {m}
             /\ \/ sync' = sync
                \/ /\ sync[m.client].pc \in {"handling", "orphan"}
                   /\ sync' = [sync EXCEPT ![m.client].pc = "idle",
                                           ![m.client].todo = {}, ![m.client].acts = {}]
      BY <1>15 DEF PublishFail, HandlerEnds
    <2>2. \A d \in Clients : IsRun(sync'[d])
      <3> DEFINE c == m.client
      <3>1. c \in Clients
        BY DEF Message
      <3>2. IsRun([sync[c] EXCEPT !.pc = "idle", !.todo = {}, !.acts = {}])
        BY <3>1 DEF IsRun, PCs
      <3> QED BY <2>1, <3>2
    <2>3. DOMAIN sync' = Clients /\ unsent' \subseteq Message
      BY <2>1
    <2>4. faults' \in Nat /\ calm' \subseteq Clients
      BY <2>1 DEF Fault
    <2> QED BY <1>15, <2>2, <2>3, <2>4 DEF PublishFail
  <1>16. ASSUME NEW c \in Clients, TransferFail(c) PROVE TypeOK'
    BY <1>16, NoOpType, RunWithOp DEF TransferFail, Fault
  <1>17. ASSUME NEW c \in Clients, Kill(c) PROVE TypeOK'
    <2>1. PICK pc \in PCs, op \in Transfer :
             sync' = [sync EXCEPT ![c].pc = pc, ![c].acts = {}, ![c].op = op]
      BY <1>17, NoOpType DEF Kill, PCs, IsRun
    <2>2. IsRun([sync[c] EXCEPT !.pc = pc, !.acts = {}, !.op = op])
      BY DEF IsRun
    <2>3. \A d \in Clients : IsRun(sync'[d])
      BY <2>1, <2>2
    <2> QED BY <1>17, <2>1, <2>3 DEF Kill, Fault
  <1>18. ASSUME NEW c \in Clients, KillInSnapshot(c) PROVE TypeOK'
    <2>1. \A d \in Clients : IsRun(sync'[d])
      BY <1>18 DEF KillInSnapshot, IsRun, PCs
    <2>2. \A d \in Clients : shot'[d] = NoShot \/ IsSnapshot(shot'[d])
      BY <1>18 DEF KillInSnapshot
    <2>3. faults' \in Nat /\ calm' \subseteq Clients
      BY <1>18 DEF KillInSnapshot, Fault
    <2> QED BY <1>18, <2>1, <2>2, <2>3 DEF KillInSnapshot
  <1>24. ASSUME NEW c \in Clients, HandlerFail(c) PROVE TypeOK'
    <2>1. \A d \in Clients : IsRun(sync'[d])
      BY <1>24 DEF HandlerFail, HandlerEnds, IsRun, PCs
    <2> QED BY <1>24, <2>1 DEF HandlerFail, HandlerEnds, Fault
  <1>19. ASSUME NEW c \in Clients, Edit(c) PROVE TypeOK'
    <2>1. PICK p \in Files : local' = [local EXCEPT ![c] = CreateFile(@, p, edits + 1, now)]
      BY <1>19 DEF Edit
    <2>2. p \in Paths /\ edits + 1 \in Body
      BY DEF Files, Body
    <2>3. \A d \in Clients : IsTree(local'[d])
      BY <2>1, <2>2, CreateFileTree
    <2> QED BY <1>19, <2>1, <2>3 DEF Edit, UserStep
  <1>20. ASSUME NEW c \in Clients, NewDir(c) PROVE TypeOK'
    <2>1. PICK p \in Dirs : local' = [local EXCEPT ![c] = MkDir(@, p, now)]
      BY <1>20 DEF NewDir
    <2>2. \A d \in Clients : IsTree(local'[d])
      BY <2>1, MkDirTree, PathsAssumption
    <2> QED BY <1>20, <2>1, <2>2 DEF NewDir, UserStep
  <1>21. ASSUME NEW c \in Clients, Delete(c) PROVE TypeOK'
    <2>1. PICK p \in DOMAIN local[c] :
             /\ local' = [local EXCEPT ![c] = Rm(@, p, now)]
             /\ sync' = [sync EXCEPT ![c] =
                           IF @.op.step = "fetch" /\ @.op.path \in Subtree(p)
                             THEN [@ EXCEPT !.op.linked = FALSE] ELSE @]
      BY <1>21 DEF Delete
    <2>2. \A d \in Clients : IsTree(local'[d])
      BY <2>1, RmTree
    <2>3. \A d \in Clients : IsRun(sync'[d])
      <3>1. sync[c].op.step = "fetch" =>
              IsRun([sync[c] EXCEPT !.op = [@ EXCEPT !.linked = FALSE]])
        BY TransferWith, RunWithOp DEF IsRun
      <3> QED BY <2>1, <3>1
    <2>4. DOMAIN sync' = Clients /\ DOMAIN local' = Clients
      BY <2>1
    <2>5. edits' \in Nat /\ calm' \subseteq Clients
      BY <1>21 DEF Delete, UserStep
    <2> QED BY <1>21, <2>2, <2>3, <2>4, <2>5 DEF Delete, UserStep
  <1>22. CASE Tick
    BY <1>22 DEF Tick
  <1>23. CASE UNCHANGED vars
    BY <1>23 DEF vars
  <1> QED
    BY <1>1, <1>2, <1>3, <1>4, <1>5, <1>6, <1>7, <1>8, <1>9, <1>10, <1>11, <1>12,
       <1>13, <1>14, <1>15, <1>16, <1>17, <1>18, <1>19, <1>20, <1>21, <1>22, <1>23,
       <1>24
    DEF Next, RunStep, HandlerStep, ActionStep, Failure, User

\* Whatever runs, edits, faults and restarts happen, every directory, snapshot,
\* queue and run has the shape the code gives it.
THEOREM TypeCorrect == Spec => []TypeOK
  BY InitType, NextType, PTL DEF Spec

-----------------------------------------------------------------------------
(* What the server removes.  The handler removes what it decided to, several *)
(* steps earlier, from a snapshot that was posted before that; the invariant *)
(* carries the reason for a removal from the necoshot.json it goes back to,  *)
(* through the posted snapshot, to the handler's list.                       *)

WorkAtServer ==
  \A c \in Clients : sync[c].todo # {} => sync[c].pc \in {"handling", "orphan"}
RemovalsAreTombstones ==
  \A c \in Clients : \A e \in sync[c].todo :
    e.act = "remove" => e.path \in Tombstones(sync[c].final)
TombstonesFromShot ==
  \A c \in Clients : sync[c].pc # "idle" =>
    \A p \in Tombstones(sync[c].final) : shot[c] # NoShot /\ p \in DOMAIN shot[c]

TombstoneInv == WorkAtServer /\ RemovalsAreTombstones /\ TombstonesFromShot

LEMMA InitTombstones == Init => TombstoneInv
  BY DEF Init, TombstoneInv, WorkAtServer, RemovalsAreTombstones, TombstonesFromShot

\* A step after which every run has the snapshot it had and no more to remove,
\* is not back from idle, and has its necoshot.json unless it is idle.
LEMMA TombstoneFrame ==
  ASSUME TombstoneInv,
         \A c \in Clients :
           /\ sync'[c].final = sync[c].final
           /\ sync'[c].todo \subseteq sync[c].todo
           /\ sync'[c].todo # {} => sync'[c].pc \in {"handling", "orphan"}
           /\ sync'[c].pc # "idle" => sync[c].pc # "idle" /\ shot'[c] = shot[c]
  PROVE  TombstoneInv'
  BY DEF TombstoneInv, WorkAtServer, RemovalsAreTombstones, TombstonesFromShot

LEMMA NextTombstones == TypeOK /\ TombstoneInv /\ [Next]_vars => TombstoneInv'
  <1> SUFFICES ASSUME TypeOK, TombstoneInv, [Next]_vars PROVE TombstoneInv'
    OBVIOUS
  <1>0. DOMAIN sync = Clients /\ DOMAIN shot = Clients /\ WorkAtServer
    BY DEF TypeOK, TombstoneInv
  <1>1. ASSUME NEW c \in Clients, SyncStart(c) PROVE TombstoneInv'
    <2>1. DOMAIN NoFiles = {}
      BY NoFilesType
    <2>2. \A d \in Clients \ {c} : sync'[d] = sync[d]
      BY <1>0, <1>1 DEF SyncStart
    <2>3. /\ sync'[c].pc = "started" /\ sync'[c].final = NoFiles
          /\ sync'[c].todo = sync[c].todo /\ sync'[c].op = sync[c].op
      BY <1>0, <1>1 DEF SyncStart, TypeOK, IsRun
    <2>4. sync[c].todo = {} /\ UNCHANGED shot
      BY <1>0, <1>1 DEF SyncStart, WorkAtServer
    <2>5. Tombstones(sync'[c].final) = {}
      BY <2>1, <2>3 DEF Tombstones
    <2>6. WorkAtServer'
      BY <1>0, <2>2, <2>3, <2>4 DEF WorkAtServer
    <2>7. RemovalsAreTombstones'
      BY <2>2, <2>3, <2>4 DEF TombstoneInv, RemovalsAreTombstones
    <2>8. TombstonesFromShot'
      BY <2>2, <2>4, <2>5 DEF TombstoneInv, TombstonesFromShot
    <2> QED BY <2>6, <2>7, <2>8 DEF TombstoneInv
  <1>F. \A c \in Clients :
          sync[c] \in [pc : PCs, final : {sync[c].final}, todo : SUBSET Effect,
                      acts : SUBSET Action, op : Transfer]
    BY DEF TypeOK, IsRun
  <1>2. ASSUME NEW c \in Clients, PostSnapshot(c) PROVE TombstoneInv'
    <2> DEFINE current == GetLocalMetadata(local[c])
               final == IF shot[c] = NoShot THEN current
                        ELSE FinalSnapshot(shot[c], current)
    <2>1. \A p \in Tombstones(final) : shot[c] # NoShot /\ p \in DOMAIN shot[c]
      BY MetadataSnapshot, FinalSnapshotOfTwo DEF TypeOK
    <2>2. /\ sync' = [sync EXCEPT ![c].pc = "posted", ![c].final = final]
          /\ shot' = shot /\ sync[c].pc = "started"
      BY <1>2 DEF PostSnapshot
    <2> HIDE DEF final
    <2>3. /\ sync'[c].final = final /\ sync'[c].todo = {}
          /\ \A d \in Clients \ {c} : sync'[d] = sync[d]
      BY <1>0, <1>F, <2>2 DEF WorkAtServer
    <2> QED BY <2>1, <2>2, <2>3
        DEF TombstoneInv, WorkAtServer, RemovalsAreTombstones, TombstonesFromShot
  <1>3. ASSUME NEW c \in Clients, HandleSnapshot(c) PROVE TombstoneInv'
    <2> DEFINE E == Effects(GetLocalMetadata(server), sync[c].final)
               A == Actions(GetLocalMetadata(server), sync[c].final)
    <2>1. \A e \in E : e.act = "remove" => e.path \in Tombstones(sync[c].final)
      BY MetadataSnapshot, EffectsOfTwo DEF TypeOK, IsRun
    <2>2. /\ sync' = [sync EXCEPT ![c].pc = "handling", ![c].todo = E, ![c].acts = A]
          /\ shot' = shot /\ sync[c].pc = "posted"
      BY <1>3 DEF HandleSnapshot
    <2> HIDE DEF E, A
    <2>3. /\ sync'[c].final = sync[c].final /\ sync'[c].todo = E
          /\ sync'[c].pc = "handling"
          /\ \A d \in Clients \ {c} : sync'[d] = sync[d]
      BY <1>0, <1>F, <2>2
    <2> QED BY <2>1, <2>2, <2>3
        DEF TombstoneInv, WorkAtServer, RemovalsAreTombstones, TombstonesFromShot
  <1>4. ASSUME NEW c \in Clients, HandleRemove(c) PROVE TombstoneInv'
    <2>1. PICK e \in sync[c].todo :
             /\ sync' = [Unlink("copy", Subtree(e.path)) EXCEPT ![c].todo = @ \ {e}]
             /\ shot' = shot
      BY <1>4 DEF HandleRemove
    <2> DEFINE u == Unlink("copy", Subtree(e.path))
    <2>2. DOMAIN u = Clients /\ \A d \in Clients :
            /\ IsRun(u[d])
            /\ u[d].pc = sync[d].pc /\ u[d].final = sync[d].final
            /\ u[d].todo = sync[d].todo
      BY UnlinkRuns DEF TypeOK, Unlink
    <2>3. sync' = [u EXCEPT ![c].todo = @ \ {e}]
      BY <2>1
    <2> HIDE DEF u
    <2>4. \A d \in Clients :
            /\ sync'[d].pc = sync[d].pc /\ sync'[d].final = sync[d].final
            /\ sync'[d].todo \subseteq sync[d].todo
      BY <2>2, <2>3 DEF IsRun
    <2> QED BY <1>0, <2>1, <2>4, TombstoneFrame DEF WorkAtServer
  <1>5. ASSUME NEW c \in Clients, HandleDirectory(c) PROVE TombstoneInv'
    BY <1>0, <1>5, <1>F, TombstoneFrame DEF HandleDirectory, WorkAtServer
  <1>6. ASSUME NEW c \in Clients, Respond(c) PROVE TombstoneInv'
    BY <1>0, <1>6, <1>F, TombstoneFrame DEF Respond, WorkAtServer
  <1>7. ASSUME NEW c \in Clients, UploadOpen(c) PROVE TombstoneInv'
    BY <1>0, <1>7, <1>F, TombstoneFrame DEF UploadOpen, WorkAtServer
  <1>8. ASSUME NEW c \in Clients, UploadCreate(c) PROVE TombstoneInv'
    BY <1>0, <1>8, <1>F, TombstoneFrame DEF UploadCreate, WorkAtServer
  <1>9. ASSUME NEW c \in Clients, UploadCopy(c) PROVE TombstoneInv'
    BY <1>0, <1>9, <1>F, TombstoneFrame DEF UploadCopy, WorkAtServer
  <1>10. ASSUME NEW c \in Clients, DownloadCreate(c) PROVE TombstoneInv'
    BY <1>0, <1>10, <1>F, TombstoneFrame DEF DownloadCreate, WorkAtServer
  <1>11. ASSUME NEW c \in Clients, DownloadCopy(c) PROVE TombstoneInv'
    BY <1>0, <1>11, <1>F, TombstoneFrame DEF DownloadCopy, WorkAtServer
  <1>12. ASSUME NEW c \in Clients, ActionMkDir(c) PROVE TombstoneInv'
    BY <1>0, <1>12, <1>F, TombstoneFrame DEF ActionMkDir, WorkAtServer
  <1>13. ASSUME NEW c \in Clients, CreateDirectorySnapshot(c) PROVE TombstoneInv'
    BY <1>0, <1>13, <1>F, TombstoneFrame DEF CreateDirectorySnapshot, Acting, WorkAtServer
  <1>14. ASSUME Publish PROVE TombstoneInv'
    BY <1>0, <1>14, <1>F, TombstoneFrame DEF Publish, WorkAtServer
  <1>15. ASSUME PublishFail PROVE TombstoneInv'
    <2>1. PICK m \in unsent :
             /\ \/ sync' = sync
                \/ /\ sync[m.client].pc \in {"handling", "orphan"}
                   /\ sync' = [sync EXCEPT ![m.client].pc = "idle",
                                           ![m.client].todo = {}, ![m.client].acts = {}]
             /\ shot' = shot
      BY <1>15 DEF PublishFail, HandlerEnds
    <2>2. m.client \in Clients
      BY DEF TypeOK, Message
    <2> QED BY <1>0, <1>F, <2>1, <2>2, TombstoneFrame DEF WorkAtServer
  <1>16. ASSUME NEW c \in Clients, TransferFail(c) PROVE TombstoneInv'
    BY <1>0, <1>16, <1>F, TombstoneFrame DEF TransferFail, WorkAtServer
  <1>17. ASSUME NEW c \in Clients, Kill(c) PROVE TombstoneInv'
    BY <1>0, <1>17, <1>F, TombstoneFrame DEF Kill, WorkAtServer
  <1>18. ASSUME NEW c \in Clients, KillInSnapshot(c) PROVE TombstoneInv'
    BY <1>0, <1>18, <1>F, TombstoneFrame DEF KillInSnapshot, Acting, WorkAtServer
  <1>24. ASSUME NEW c \in Clients, HandlerFail(c) PROVE TombstoneInv'
    BY <1>0, <1>24, <1>F, TombstoneFrame DEF HandlerFail, HandlerEnds, WorkAtServer
  <1>19. ASSUME NEW c \in Clients, Edit(c) PROVE TombstoneInv'
    BY <1>0, <1>19, <1>F, TombstoneFrame DEF Edit, UserStep, WorkAtServer
  <1>20. ASSUME NEW c \in Clients, NewDir(c) PROVE TombstoneInv'
    BY <1>0, <1>20, <1>F, TombstoneFrame DEF NewDir, UserStep, WorkAtServer
  <1>21. ASSUME NEW c \in Clients, Delete(c) PROVE TombstoneInv'
    BY <1>0, <1>21, <1>F, TombstoneFrame DEF Delete, UserStep, WorkAtServer
  <1>22. CASE Tick
    BY <1>0, <1>22, TombstoneFrame DEF Tick, WorkAtServer
  <1>23. CASE UNCHANGED vars
    BY <1>0, <1>23, TombstoneFrame DEF vars, WorkAtServer
  <1> QED
    BY <1>1, <1>2, <1>3, <1>4, <1>5, <1>6, <1>7, <1>8, <1>9, <1>10, <1>11, <1>12,
       <1>13, <1>14, <1>15, <1>16, <1>17, <1>18, <1>19, <1>20, <1>21, <1>22, <1>23,
       <1>24
    DEF Next, RunStep, HandlerStep, ActionStep, Failure, User

LEMMA TombstonesAlways == Spec => [](TypeOK /\ TombstoneInv)
  <1>1. Init => TypeOK /\ TombstoneInv
    BY InitType, InitTombstones
  <1>2. (TypeOK /\ TombstoneInv) /\ [Next]_vars => (TypeOK /\ TombstoneInv)'
    BY NextType, NextTombstones
  <1> QED BY <1>1, <1>2, PTL DEF Spec

\* Only a removal takes paths from the server.
LEMMA ServerKeeps ==
  ASSUME TypeOK, [Next]_vars, \A c \in Clients : ~HandleRemove(c)
  PROVE  DOMAIN server \subseteq DOMAIN server'
  <1> USE DEF TypeOK
  <1>1. ASSUME NEW c \in Clients, HandleDirectory(c) PROVE DOMAIN server \subseteq DOMAIN server'
    <2>1. PICK e \in sync[c].todo : server' = MkDir(server, e.path, now)
      BY <1>1 DEF HandleDirectory
    <2>2. e.path \in Paths
      BY DEF IsRun, Effect
    <2>3. DOMAIN MkDir(server, e.path, now) = DOMAIN server \cup {e.path} \cup Above(e.path)
      BY <2>2, MkDirTree
    <2> QED BY <2>1, <2>3
  <1>2. ASSUME NEW c \in Clients, UploadCreate(c) PROVE DOMAIN server \subseteq DOMAIN server'
    <2>1. sync[c].op.path \in Paths /\ Empty \in Body
      <3>1. sync[c].op \in Transfer /\ sync[c].op.step # "none"
        BY <1>2 DEF UploadCreate, IsRun
      <3> QED BY <3>1, TransferWith DEF Body
    <2>2. server' = CreateFile(server, sync[c].op.path, Empty, now)
      BY <1>2 DEF UploadCreate
    <2>3. DOMAIN CreateFile(server, sync[c].op.path, Empty, now) =
            DOMAIN server \cup {sync[c].op.path} \cup Above(sync[c].op.path)
      BY <2>1, CreateFileTree
    <2> QED BY <2>2, <2>3
  <1>3. ASSUME NEW c \in Clients, UploadCopy(c) PROVE DOMAIN server \subseteq DOMAIN server'
    <2>1. sync[c].op.body \in Body
      BY <1>3, TransferWith DEF UploadCopy, IsRun
    <2>2. \/ server' = FillFile(server, sync[c].op.path, sync[c].op.body, now)
          \/ server' = server
      BY <1>3 DEF UploadCopy
    <2>3. DOMAIN FillFile(server, sync[c].op.path, sync[c].op.body, now) = DOMAIN server
      BY <2>1, FillFileTree
    <2> QED BY <2>2, <2>3
  <1> QED
    BY <1>1, <1>2, <1>3
    DEF Next, RunStep, HandlerStep, ActionStep, Failure, User, vars,
        SyncStart, PostSnapshot, HandleSnapshot, Respond, UploadOpen, DownloadCreate,
        DownloadCopy, ActionMkDir, CreateDirectorySnapshot, Publish, PublishFail,
        TransferFail, HandlerFail, HandlerEnds, Kill, KillInSnapshot, Edit, NewDir, Delete, UserStep, Tick

RemovedWithTombstone ==
  \A p \in DOMAIN server \ DOMAIN server' :
    \E c \in Clients :
      /\ shot[c] # NoShot
      /\ \E q \in Tombstones(sync[c].final) \cap DOMAIN shot[c] : p \in Subtree(q)

LEMMA StepJustified ==
  ASSUME TypeOK, TombstoneInv, [Next]_vars
  PROVE  RemovedWithTombstone
  <1> SUFFICES ASSUME NEW p \in DOMAIN server \ DOMAIN server'
               PROVE  \E c \in Clients :
                        /\ shot[c] # NoShot
                        /\ \E q \in Tombstones(sync[c].final) \cap DOMAIN shot[c] :
                             p \in Subtree(q)
    BY DEF RemovedWithTombstone
  <1>1. PICK c \in Clients : HandleRemove(c)
    BY ServerKeeps
  <1>2. PICK e \in sync[c].todo : e.act = "remove" /\ server' = Rm(server, e.path, now)
    BY <1>1 DEF HandleRemove
  <1>3. p \in Subtree(e.path)
    <2>1. DOMAIN Rm(server, e.path, now) = DOMAIN server \ Subtree(e.path)
      BY RmTree DEF TypeOK
    <2> QED BY <1>2, <2>1
  <1>4. e.path \in Tombstones(sync[c].final)
    BY <1>2 DEF TombstoneInv, RemovalsAreTombstones
  <1>5. sync[c].pc # "idle"
    BY <1>2 DEF TombstoneInv, WorkAtServer
  <1>6. shot[c] # NoShot /\ e.path \in DOMAIN shot[c]
    BY <1>4, <1>5 DEF TombstoneInv, TombstonesFromShot
  <1> QED BY <1>3, <1>4, <1>6

\* The server removes only what a client had when it last completed a run and
\* had no longer when it posted its snapshot, or what lies below such a path:
\* for any number of clients, runs, edits, faults and restarts.
THEOREM RemovalsHaveTombstones == Spec => RemovalNeedsTombstone
  <1>1. TypeOK /\ TombstoneInv /\ [Next]_vars => [RemovedWithTombstone]_vars
    BY StepJustified
  <1>2. RemovalNeedsTombstone <=> [][RemovedWithTombstone]_vars
    BY DEF RemovalNeedsTombstone, RemovedWithTombstone
  <1> QED BY <1>1, <1>2, TombstonesAlways, PTL DEF Spec

-----------------------------------------------------------------------------
(* What is hidden never leaves its machine: no snapshot, and so no decision, *)
(* names it, and what is not hidden has nothing hidden above it.             *)

Visible(p) == p \notin Excluded

SnapshotsVisible ==
  \A c \in Clients :
    /\ \A p \in DOMAIN sync[c].final : Visible(p)
    /\ shot[c] # NoShot => \A p \in DOMAIN shot[c] : Visible(p)
WorkVisible ==
  \A c \in Clients :
    /\ \A e \in sync[c].todo : Visible(e.path)
    /\ \A a \in sync[c].acts : a.act = "upload" => Visible(a.path)
    /\ sync[c].op.step \in {"post", "copy"} => Visible(sync[c].op.path)

HiddenInv == HiddenStaysLocal /\ SnapshotsVisible /\ WorkVisible

LEMMA InitHidden == Init => HiddenInv
  <1> SUFFICES ASSUME Init PROVE HiddenInv
    OBVIOUS
  <1>1. DOMAIN NoFiles = {}
    BY NoFilesType
  <1> QED BY <1>1
      DEF Init, HiddenInv, HiddenStaysLocal, SnapshotsVisible, WorkVisible, NoOp

\* A step that brings no new path to the server, to a snapshot or to an upload.
LEMMA HiddenFrame ==
  ASSUME HiddenInv,
         DOMAIN server' \subseteq DOMAIN server,
         \A c \in Clients :
           /\ DOMAIN sync'[c].final \subseteq DOMAIN sync[c].final
           /\ shot'[c] = NoShot \/ shot'[c] = shot[c]
           /\ sync'[c].todo \subseteq sync[c].todo
           /\ sync'[c].acts \subseteq sync[c].acts
           /\ sync'[c].op.step \in {"post", "copy"} =>
                /\ sync[c].op.step \in {"post", "copy"}
                /\ sync'[c].op.path = sync[c].op.path
  PROVE  HiddenInv'
  BY DEF HiddenInv, HiddenStaysLocal, SnapshotsVisible, WorkVisible, Visible

LEMMA NextHidden == TypeOK /\ HiddenInv /\ [Next]_vars => HiddenInv'
  <1> SUFFICES ASSUME TypeOK, HiddenInv, [Next]_vars PROVE HiddenInv'
    OBVIOUS
  <1>0. DOMAIN sync = Clients /\ DOMAIN shot = Clients
    BY DEF TypeOK
  <1>F. \A c \in Clients :
          /\ sync[c] \in [pc : PCs, final : {sync[c].final}, todo : SUBSET Effect,
                         acts : SUBSET Action, op : Transfer]
          /\ sync[c].op.step # "none" =>
               sync[c].op \in [step : {"post", "copy", "fetch"}, path : Paths,
                              body : Body, linked : BOOLEAN]
    BY DEF TypeOK, IsRun, Transfer, NoOp
  <1>1. ASSUME NEW c \in Clients, SyncStart(c) PROVE HiddenInv'
    <2>1. DOMAIN NoFiles = {}
      BY NoFilesType
    <2> QED BY <1>0, <1>F, <1>1, <2>1, HiddenFrame DEF SyncStart
  <1>2. ASSUME NEW c \in Clients, PostSnapshot(c) PROVE HiddenInv'
    <2> DEFINE current == GetLocalMetadata(local[c])
               final == IF shot[c] = NoShot THEN current
                        ELSE FinalSnapshot(shot[c], current)
    <2>1. \A p \in DOMAIN final : Visible(p)
      <3>1. /\ IsSnapshot(current) /\ Tombstones(current) = {}
            /\ DOMAIN current = DOMAIN local[c] \ Excluded
        BY MetadataSnapshot DEF TypeOK
      <3> HIDE DEF current
      <3>2. CASE shot[c] = NoShot
        BY <3>1, <3>2 DEF Visible
      <3>3. CASE shot[c] # NoShot
        <4>1. IsSnapshot(shot[c]) /\ \A p \in DOMAIN shot[c] : Visible(p)
          BY <3>3 DEF TypeOK, HiddenInv, SnapshotsVisible
        <4>2. DOMAIN FinalSnapshot(shot[c], current) = DOMAIN shot[c] \cup DOMAIN current
          BY <3>1, <4>1, FinalSnapshotOfTwo
        <4> QED BY <3>1, <3>3, <4>1, <4>2 DEF Visible
      <3> QED BY <3>2, <3>3
    <2>2. /\ sync' = [sync EXCEPT ![c].pc = "posted", ![c].final = final]
          /\ shot' = shot /\ server' = server
      BY <1>2 DEF PostSnapshot
    <2> HIDE DEF final
    <2>3. /\ sync'[c] = [sync[c] EXCEPT !.pc = "posted", !.final = final]
          /\ \A d \in Clients \ {c} : sync'[d] = sync[d]
      BY <1>0, <2>2
    <2>4. /\ sync'[c].final = final /\ sync'[c].todo = sync[c].todo
          /\ sync'[c].acts = sync[c].acts /\ sync'[c].op = sync[c].op
      BY <1>F, <2>3
    <2> QED BY <2>1, <2>2, <2>3, <2>4
        DEF HiddenInv, HiddenStaysLocal, SnapshotsVisible, WorkVisible
  <1>3. ASSUME NEW c \in Clients, HandleSnapshot(c) PROVE HiddenInv'
    <2> DEFINE E == Effects(GetLocalMetadata(server), sync[c].final)
               A == Actions(GetLocalMetadata(server), sync[c].final)
    <2>1. /\ \A e \in E : e.path \in DOMAIN sync[c].final
          /\ \A a \in A : a.act = "upload" => a.path \in DOMAIN sync[c].final
      BY MetadataSnapshot, EffectsOfTwo, ActionsOfTwo DEF TypeOK, IsRun
    <2>2. /\ sync' = [sync EXCEPT ![c].pc = "handling", ![c].todo = E, ![c].acts = A]
          /\ shot' = shot /\ server' = server
      BY <1>3 DEF HandleSnapshot
    <2> HIDE DEF E, A
    <2>3. /\ sync'[c] = [sync[c] EXCEPT !.pc = "handling", !.todo = E, !.acts = A]
          /\ \A d \in Clients \ {c} : sync'[d] = sync[d]
      BY <1>0, <2>2
    <2>4. /\ sync'[c].final = sync[c].final /\ sync'[c].todo = E
          /\ sync'[c].acts = A /\ sync'[c].op = sync[c].op
      BY <1>F, <2>3
    <2> QED BY <2>1, <2>2, <2>3, <2>4
        DEF HiddenInv, HiddenStaysLocal, SnapshotsVisible, WorkVisible
  <1>4. ASSUME NEW c \in Clients, HandleRemove(c) PROVE HiddenInv'
    <2>1. PICK e \in sync[c].todo :
             /\ sync' = [Unlink("copy", Subtree(e.path)) EXCEPT ![c].todo = @ \ {e}]
             /\ shot' = shot /\ server' = Rm(server, e.path, now)
      BY <1>4 DEF HandleRemove
    <2> DEFINE u == Unlink("copy", Subtree(e.path))
    <2>2. DOMAIN u = Clients /\ \A d \in Clients :
            /\ IsRun(u[d])
            /\ u[d].final = sync[d].final /\ u[d].todo = sync[d].todo
            /\ u[d].acts = sync[d].acts
            /\ u[d].op.path = sync[d].op.path /\ u[d].op.step = sync[d].op.step
      BY UnlinkRuns DEF TypeOK, Unlink
    <2>3. sync' = [u EXCEPT ![c].todo = @ \ {e}]
      BY <2>1
    <2> HIDE DEF u
    <2>4. \A d \in Clients :
            /\ sync'[d].final = sync[d].final /\ sync'[d].todo \subseteq sync[d].todo
            /\ sync'[d].acts = sync[d].acts /\ sync'[d].op = u[d].op
      BY <2>2, <2>3 DEF IsRun
    <2>5. DOMAIN Rm(server, e.path, now) \subseteq DOMAIN server
      <3>1. DOMAIN Rm(server, e.path, now) = DOMAIN server \ Subtree(e.path)
        BY RmTree DEF TypeOK
      <3> QED BY <3>1
    <2> QED BY <2>1, <2>2, <2>4, <2>5, HiddenFrame
  <1>5. ASSUME NEW c \in Clients, HandleDirectory(c) PROVE HiddenInv'
    <2>1. PICK e \in sync[c].todo :
             /\ server' = MkDir(server, e.path, now)
             /\ sync' = [sync EXCEPT ![c].todo = @ \ {e}]
             /\ shot' = shot
      BY <1>5 DEF HandleDirectory
    <2>2. e.path \in Paths /\ Visible(e.path)
      BY <1>F DEF Effect, HiddenInv, WorkVisible
    <2>3. DOMAIN server' \cap Excluded = {}
      <3>1. DOMAIN MkDir(server, e.path, now) = DOMAIN server \cup {e.path} \cup Above(e.path)
        BY <2>2, MkDirTree DEF TypeOK
      <3> QED BY <2>1, <2>2, <3>1, AboveNotExcluded
          DEF HiddenInv, HiddenStaysLocal, Visible
    <2>4. \A d \in Clients :
            /\ sync'[d].final = sync[d].final /\ sync'[d].todo \subseteq sync[d].todo
            /\ sync'[d].acts = sync[d].acts /\ sync'[d].op = sync[d].op
      BY <1>0, <1>F, <2>1
    <2> QED BY <2>1, <2>3, <2>4
        DEF HiddenInv, HiddenStaysLocal, SnapshotsVisible, WorkVisible
  <1>6. ASSUME NEW c \in Clients, Respond(c) PROVE HiddenInv'
    BY <1>0, <1>F, <1>6, HiddenFrame DEF Respond
  <1>7. ASSUME NEW c \in Clients, UploadOpen(c) PROVE HiddenInv'
    <2>1. PICK a \in sync[c].acts :
             /\ a.act = "upload"
             /\ sync' = [sync EXCEPT
                          ![c].acts = @ \ {a},
                          ![c].op = IF a.path \in DOMAIN local[c]
                                      THEN [step |-> "post", path |-> a.path,
                                            body |-> local[c][a.path].body,
                                            linked |-> TRUE]
                                      ELSE NoOp]
             /\ shot' = shot /\ server' = server
      BY <1>7 DEF UploadOpen
    <2>2. Visible(a.path)
      BY <2>1 DEF HiddenInv, WorkVisible
    <2>3. /\ \A d \in Clients \ {c} : sync'[d] = sync[d]
          /\ sync'[c].final = sync[c].final /\ sync'[c].todo = sync[c].todo
          /\ sync'[c].acts \subseteq sync[c].acts
          /\ sync'[c].op.step = "none" \/ sync'[c].op.path = a.path
      BY <1>0, <1>F, <2>1 DEF NoOp
    <2> QED BY <2>1, <2>2, <2>3
        DEF HiddenInv, HiddenStaysLocal, SnapshotsVisible, WorkVisible
  <1>8. ASSUME NEW c \in Clients, UploadCreate(c) PROVE HiddenInv'
    <2> DEFINE p == sync[c].op.path
    <2>1. p \in Paths /\ Visible(p) /\ Empty \in Body
      BY <1>F, <1>8 DEF UploadCreate, HiddenInv, WorkVisible, Body
    <2>2. /\ server' = CreateFile(server, p, Empty, now)
          /\ sync' = [sync EXCEPT ![c].op.step = "copy"] /\ shot' = shot
          /\ sync[c].op.step = "post"
      BY <1>8 DEF UploadCreate
    <2>3. DOMAIN server' \cap Excluded = {}
      <3>1. DOMAIN CreateFile(server, p, Empty, now) = DOMAIN server \cup {p} \cup Above(p)
        BY <2>1, CreateFileTree DEF TypeOK
      <3> QED BY <2>1, <2>2, <3>1, AboveNotExcluded
          DEF HiddenInv, HiddenStaysLocal, Visible
    <2>4. /\ \A d \in Clients \ {c} : sync'[d] = sync[d]
          /\ sync'[c].final = sync[c].final /\ sync'[c].todo = sync[c].todo
          /\ sync'[c].acts = sync[c].acts /\ sync'[c].op.path = p
      BY <1>0, <1>F, <2>2
    <2> QED BY <2>1, <2>2, <2>3, <2>4
        DEF HiddenInv, HiddenStaysLocal, SnapshotsVisible, WorkVisible
  <1>9. ASSUME NEW c \in Clients, UploadCopy(c) PROVE HiddenInv'
    <2>1. \/ server' = FillFile(server, sync[c].op.path, sync[c].op.body, now)
          \/ server' = server
      BY <1>9 DEF UploadCopy
    <2>2. sync[c].op.body \in Body
      BY <1>F, <1>9 DEF UploadCopy
    <2>3. DOMAIN FillFile(server, sync[c].op.path, sync[c].op.body, now) = DOMAIN server
      BY <2>2, FillFileTree DEF TypeOK
    <2>4. /\ sync' = [sync EXCEPT ![c].op = NoOp] /\ shot' = shot
          /\ NoOp.step = "none"
      BY <1>9 DEF UploadCopy, NoOp
    <2> QED BY <1>0, <1>F, <2>1, <2>3, <2>4, HiddenFrame
  <1>10. ASSUME NEW c \in Clients, DownloadCreate(c) PROVE HiddenInv'
    BY <1>0, <1>F, <1>10, HiddenFrame DEF DownloadCreate
  <1>11. ASSUME NEW c \in Clients, DownloadCopy(c) PROVE HiddenInv'
    BY <1>0, <1>F, <1>11, HiddenFrame DEF DownloadCopy, NoOp
  <1>12. ASSUME NEW c \in Clients, ActionMkDir(c) PROVE HiddenInv'
    BY <1>0, <1>F, <1>12, HiddenFrame DEF ActionMkDir
  <1>13. ASSUME NEW c \in Clients, CreateDirectorySnapshot(c) PROVE HiddenInv'
    <2>1. /\ shot' = [shot EXCEPT ![c] = GetLocalMetadata(local[c])]
          /\ sync' = [sync EXCEPT ![c].pc = "idle"] /\ server' = server
      BY <1>13 DEF CreateDirectorySnapshot
    <2>2. DOMAIN GetLocalMetadata(local[c]) \cap Excluded = {}
      BY MetadataSnapshot DEF TypeOK
    <2>3. \A d \in Clients :
            /\ sync'[d].final = sync[d].final /\ sync'[d].todo = sync[d].todo
            /\ sync'[d].acts = sync[d].acts /\ sync'[d].op = sync[d].op
      BY <1>0, <1>F, <2>1
    <2> QED BY <1>0, <2>1, <2>2, <2>3
        DEF HiddenInv, HiddenStaysLocal, SnapshotsVisible, WorkVisible, Visible
  <1>14. ASSUME Publish PROVE HiddenInv'
    BY <1>0, <1>14, HiddenFrame DEF Publish
  <1>15. ASSUME PublishFail PROVE HiddenInv'
    <2>1. PICK m \in unsent :
             /\ \/ sync' = sync
                \/ /\ sync[m.client].pc \in {"handling", "orphan"}
                   /\ sync' = [sync EXCEPT ![m.client].pc = "idle",
                                           ![m.client].todo = {}, ![m.client].acts = {}]
             /\ shot' = shot /\ server' = server
      BY <1>15 DEF PublishFail, HandlerEnds
    <2>2. m.client \in Clients
      BY DEF TypeOK, Message
    <2> QED BY <1>0, <1>F, <2>1, <2>2, HiddenFrame
  <1>16. ASSUME NEW c \in Clients, TransferFail(c) PROVE HiddenInv'
    BY <1>0, <1>F, <1>16, HiddenFrame DEF TransferFail, NoOp
  <1>17. ASSUME NEW c \in Clients, Kill(c) PROVE HiddenInv'
    BY <1>0, <1>F, <1>17, HiddenFrame DEF Kill, NoOp
  <1>18. ASSUME NEW c \in Clients, KillInSnapshot(c) PROVE HiddenInv'
    BY <1>0, <1>F, <1>18, HiddenFrame DEF KillInSnapshot
  <1>24. ASSUME NEW c \in Clients, HandlerFail(c) PROVE HiddenInv'
    BY <1>0, <1>F, <1>24, HiddenFrame DEF HandlerFail, HandlerEnds
  <1>19. ASSUME NEW c \in Clients, Edit(c) PROVE HiddenInv'
    BY <1>0, <1>19, HiddenFrame DEF Edit, UserStep
  <1>20. ASSUME NEW c \in Clients, NewDir(c) PROVE HiddenInv'
    BY <1>0, <1>20, HiddenFrame DEF NewDir, UserStep
  <1>21. ASSUME NEW c \in Clients, Delete(c) PROVE HiddenInv'
    <2>1. /\ sync' = [sync EXCEPT ![c] = sync'[c]] /\ shot' = shot /\ server' = server
          /\ \/ sync'[c] = sync[c]
             \/ /\ sync[c].op.step = "fetch"
                /\ sync'[c] = [sync[c] EXCEPT !.op.linked = FALSE]
      BY <1>0, <1>21 DEF Delete, UserStep
    <2> QED BY <1>0, <1>F, <2>1, HiddenFrame
  <1>22. CASE Tick
    BY <1>0, <1>22, HiddenFrame DEF Tick
  <1>23. CASE UNCHANGED vars
    BY <1>0, <1>23, HiddenFrame DEF vars
  <1> QED
    BY <1>1, <1>2, <1>3, <1>4, <1>5, <1>6, <1>7, <1>8, <1>9, <1>10, <1>11, <1>12,
       <1>13, <1>14, <1>15, <1>16, <1>17, <1>18, <1>19, <1>20, <1>21, <1>22, <1>23,
       <1>24
    DEF Next, RunStep, HandlerStep, ActionStep, Failure, User

\* Nothing of .neco, .obsidian or .trash ever reaches the server: for any set of
\* hidden paths that is closed under what is below it.
THEOREM HiddenNeverUploaded == Spec => []HiddenStaysLocal
  <1>1. Init => TypeOK /\ HiddenInv
    BY InitType, InitHidden
  <1>2. (TypeOK /\ HiddenInv) /\ [Next]_vars => (TypeOK /\ HiddenInv)'
    BY NextType, NextHidden
  <1>3. HiddenInv => HiddenStaysLocal
    BY DEF HiddenInv
  <1> QED BY <1>1, <1>2, <1>3, PTL DEF Spec

-----------------------------------------------------------------------------
(* The shape of a run: who has work, and when.                              *)

Shape(r) ==
  /\ r.todo # {} => r.pc \in {"handling", "orphan"} /\ r.op.step = "none"
  /\ r.acts # {} => r.pc \in {"handling", "acting"}
  /\ r.op.step # "none" => r.pc \in {"acting", "orphan"}

ShapeInv ==
  \A c \in Clients :
    Shape(sync[c]) /\ (Publishing(c) => sync[c].op.step = "none")

\* A step of c, after which nobody else has another place in his run.
LEMMA ShapeFrame ==
  ASSUME ShapeInv, NEW c \in Clients,
         \A d \in Clients \ {c} :
           /\ sync'[d].pc = sync[d].pc /\ sync'[d].todo = sync[d].todo
           /\ sync'[d].acts = sync[d].acts /\ sync'[d].op.step = sync[d].op.step,
         \A m \in unsent' \ unsent : m.client = c,
         Shape(sync'[c]),
         sync'[c].op.step # "none" => ~Publishing(c)'
  PROVE  ShapeInv'
  BY DEF ShapeInv, Shape, Publishing

LEMMA OpIsNone ==
  ASSUME NEW op \in Transfer
  PROVE  op = NoOp <=> op.step = "none"
  BY DEF Transfer, NoOp

LEMMA InitShape == Init => ShapeInv
  BY DEF Init, ShapeInv, Shape, NoOp, Publishing

LEMMA NextShape == TypeOK /\ ShapeInv /\ [Next]_vars => ShapeInv'
  <1> SUFFICES ASSUME TypeOK, ShapeInv, [Next]_vars PROVE ShapeInv'
    OBVIOUS
  <1>0. DOMAIN sync = Clients
    BY DEF TypeOK
  <1>F. \A c \in Clients :
          sync[c] \in [pc : PCs, final : {sync[c].final}, todo : SUBSET Effect,
                      acts : SUBSET Action, op : Transfer]
    BY DEF TypeOK, IsRun
  <1>S. /\ \A c \in Clients : Shape(sync[c])
        /\ \A c \in Clients : Publishing(c) => sync[c].op.step = "none"
        /\ NoOp.step = "none"
        /\ \A c \in Clients : sync[c].op = NoOp <=> sync[c].op.step = "none"
    BY <1>F, OpIsNone DEF ShapeInv, NoOp
  <1>1. ASSUME NEW c \in Clients, SyncStart(c) PROVE ShapeInv'
    <2>1. Shape(sync'[c]) /\ (sync'[c].op.step # "none" => ~Publishing(c)')
      BY <1>0, <1>F, <1>S, <1>1 DEF SyncStart, Shape
    <2> QED BY <1>0, <1>F, <1>1, <2>1, ShapeFrame DEF SyncStart
  <1>2. ASSUME NEW c \in Clients, PostSnapshot(c) PROVE ShapeInv'
    <2>1. PICK final :
            /\ sync' = [sync EXCEPT ![c].pc = "posted", ![c].final = final]
            /\ unsent' = unsent
      BY <1>2 DEF PostSnapshot
    <2>2. Shape(sync'[c]) /\ (sync'[c].op.step # "none" => ~Publishing(c)')
      BY <1>0, <1>F, <1>S, <1>2, <2>1 DEF PostSnapshot, Shape
    <2> QED BY <1>0, <1>F, <2>1, <2>2, ShapeFrame
  <1>3. ASSUME NEW c \in Clients, HandleSnapshot(c) PROVE ShapeInv'
    <2>1. PICK E, A :
            /\ sync' = [sync EXCEPT ![c].pc = "handling", ![c].todo = E, ![c].acts = A]
            /\ unsent' = unsent
      BY <1>3 DEF HandleSnapshot
    <2>2. Shape(sync'[c]) /\ (sync'[c].op.step # "none" => ~Publishing(c)')
      BY <1>0, <1>F, <1>S, <1>3, <2>1 DEF HandleSnapshot, Shape
    <2> QED BY <1>0, <1>F, <2>1, <2>2, ShapeFrame
  <1>4. ASSUME NEW c \in Clients, HandleRemove(c) PROVE ShapeInv'
    <2>1. PICK e \in sync[c].todo :
            /\ sync' = [Unlink("copy", Subtree(e.path)) EXCEPT ![c].todo = @ \ {e}]
            /\ Announce(c, "REMOVE", e.path)
      BY <1>4 DEF HandleRemove
    <2> DEFINE u == Unlink("copy", Subtree(e.path))
    <2>2. DOMAIN u = Clients /\ \A d \in Clients :
            /\ IsRun(u[d])
            /\ u[d].pc = sync[d].pc /\ u[d].todo = sync[d].todo
            /\ u[d].acts = sync[d].acts /\ u[d].op.step = sync[d].op.step
      BY UnlinkRuns DEF TypeOK, Unlink
    <2>3. sync' = [u EXCEPT ![c].todo = @ \ {e}]
      BY <2>1
    <2> HIDE DEF u
    <2>4. /\ \A d \in Clients :
               /\ sync'[d].pc = sync[d].pc /\ sync'[d].acts = sync[d].acts
               /\ sync'[d].op.step = sync[d].op.step
          /\ \A d \in Clients \ {c} : sync'[d].todo = sync[d].todo
          /\ sync'[c].todo \subseteq sync[c].todo
      BY <2>2, <2>3 DEF IsRun
    <2>5. Shape(sync'[c]) /\ sync'[c].op.step = "none"
      BY <1>S, <2>1, <2>4 DEF Shape
    <2>6. \A m \in unsent' \ unsent : m.client = c
      BY <2>1 DEF Announce
    <2> QED BY <2>4, <2>5, <2>6, ShapeFrame
  <1>5. ASSUME NEW c \in Clients, HandleDirectory(c) PROVE ShapeInv'
    <2>1. PICK e \in sync[c].todo :
            /\ sync' = [sync EXCEPT ![c].todo = @ \ {e}]
            /\ Announce(c, "CREATE", e.path)
      BY <1>5 DEF HandleDirectory
    <2>2. Shape(sync'[c]) /\ sync'[c].op.step = "none"
      BY <1>0, <1>F, <1>S, <2>1 DEF Shape
    <2>3. \A m \in unsent' \ unsent : m.client = c
      BY <2>1 DEF Announce
    <2> QED BY <1>0, <1>F, <2>1, <2>2, <2>3, ShapeFrame
  <1>6. ASSUME NEW c \in Clients, Respond(c) PROVE ShapeInv'
    <2>1. Shape(sync'[c]) /\ sync'[c].op.step = "none" /\ unsent' = unsent
      BY <1>0, <1>F, <1>S, <1>6 DEF Respond, Shape, Handling
    <2> QED BY <1>0, <1>F, <1>6, <2>1, ShapeFrame DEF Respond
  <1>7. ASSUME NEW c \in Clients, UploadOpen(c) PROVE ShapeInv'
    <2>1. PICK a, op :
            /\ a \in sync[c].acts
            /\ sync' = [sync EXCEPT ![c].acts = @ \ {a}, ![c].op = op]
            /\ unsent' = unsent
      BY <1>7 DEF UploadOpen
    <2>2. Shape(sync'[c]) /\ ~Publishing(c)'
      BY <1>0, <1>F, <1>S, <1>7, <2>1 DEF UploadOpen, Acting, Shape, Publishing
    <2> QED BY <1>0, <1>F, <2>1, <2>2, ShapeFrame
  <1>8. ASSUME NEW c \in Clients, UploadCreate(c) PROVE ShapeInv'
    <2>1. Shape(sync'[c]) /\ ~Publishing(c)' /\ unsent' = unsent
      BY <1>0, <1>F, <1>S, <1>8 DEF UploadCreate, Shape, Publishing
    <2> QED BY <1>0, <1>F, <1>8, <2>1, ShapeFrame DEF UploadCreate
  <1>9. ASSUME NEW c \in Clients, UploadCopy(c) PROVE ShapeInv'
    <2>1. Shape(sync'[c]) /\ sync'[c].op.step = "none"
      BY <1>0, <1>F, <1>S, <1>9 DEF UploadCopy, Shape
    <2>2. \A m \in unsent' \ unsent : m.client = c
      BY <1>9 DEF UploadCopy, Announce
    <2> QED BY <1>0, <1>F, <1>9, <2>1, <2>2, ShapeFrame DEF UploadCopy
  <1>10. ASSUME NEW c \in Clients, DownloadCreate(c) PROVE ShapeInv'
    <2>1. PICK a, op :
            /\ a \in sync[c].acts
            /\ sync' = [sync EXCEPT ![c].acts = @ \ {a}, ![c].op = op]
            /\ unsent' = unsent
      BY <1>10 DEF DownloadCreate
    <2>2. Shape(sync'[c]) /\ ~Publishing(c)'
      BY <1>0, <1>F, <1>S, <1>10, <2>1 DEF DownloadCreate, Acting, Shape, Publishing
    <2> QED BY <1>0, <1>F, <2>1, <2>2, ShapeFrame
  <1>11. ASSUME NEW c \in Clients, DownloadCopy(c) PROVE ShapeInv'
    <2>1. Shape(sync'[c]) /\ sync'[c].op.step = "none" /\ unsent' = unsent
      BY <1>0, <1>F, <1>S, <1>11 DEF DownloadCopy, Shape
    <2> QED BY <1>0, <1>F, <1>11, <2>1, ShapeFrame DEF DownloadCopy
  <1>12. ASSUME NEW c \in Clients, ActionMkDir(c) PROVE ShapeInv'
    <2>1. Shape(sync'[c]) /\ sync'[c].op.step = "none" /\ unsent' = unsent
      BY <1>0, <1>F, <1>S, <1>12 DEF ActionMkDir, Acting, Shape
    <2> QED BY <1>0, <1>F, <1>12, <2>1, ShapeFrame DEF ActionMkDir
  <1>13. ASSUME NEW c \in Clients, CreateDirectorySnapshot(c) PROVE ShapeInv'
    <2>1. Shape(sync'[c]) /\ sync'[c].op.step = "none" /\ unsent' = unsent
      BY <1>0, <1>F, <1>S, <1>13 DEF CreateDirectorySnapshot, Acting, Shape
    <2> QED BY <1>0, <1>F, <1>13, <2>1, ShapeFrame DEF CreateDirectorySnapshot
  <1>14. ASSUME Publish PROVE ShapeInv'
    BY <1>14 DEF Publish, ShapeInv, Shape, Publishing
  <1>15. ASSUME PublishFail PROVE ShapeInv'
    <2>1. PICK m \in unsent :
            /\ unsent' = unsent \ {m}
            /\ \/ sync' = sync
               \/ /\ sync[m.client].pc \in {"handling", "orphan"}
                  /\ sync' = [sync EXCEPT ![m.client].pc = "idle",
                                          ![m.client].todo = {}, ![m.client].acts = {}]
      BY <1>15 DEF PublishFail, HandlerEnds
    <2>2. m.client \in Clients /\ Publishing(m.client)
      BY DEF TypeOK, Message, Publishing
    <2>3. Shape(sync'[m.client]) /\ sync'[m.client].op.step = "none"
      BY <1>0, <1>F, <1>S, <2>1, <2>2 DEF Shape
    <2> QED BY <1>0, <1>F, <2>1, <2>2, <2>3, ShapeFrame
  <1>16. ASSUME NEW c \in Clients, TransferFail(c) PROVE ShapeInv'
    <2>1. Shape(sync'[c]) /\ sync'[c].op.step = "none" /\ unsent' = unsent
      BY <1>0, <1>F, <1>S, <1>16 DEF TransferFail, Shape
    <2> QED BY <1>0, <1>F, <1>16, <2>1, ShapeFrame DEF TransferFail
  <1>17. ASSUME NEW c \in Clients, Kill(c) PROVE ShapeInv'
    <2>1. PICK pc : 
            /\ sync' = [sync EXCEPT ![c].pc = pc, ![c].acts = {},
                                    ![c].op = IF @.step = "copy" THEN @ ELSE NoOp]
            /\ pc = IF \/ sync[c].pc = "handling" \/ sync[c].op.step = "copy"
                       \/ Publishing(c)
                      THEN "orphan" ELSE "idle"
            /\ sync[c].pc # "orphan"
            /\ unsent' = unsent
      BY <1>17 DEF Kill
    <2>2. /\ sync'[c].pc = pc /\ sync'[c].acts = {} /\ sync'[c].todo = sync[c].todo
          /\ sync'[c].op = IF sync[c].op.step = "copy" THEN sync[c].op ELSE NoOp
          /\ \A d \in Clients \ {c} : sync'[d] = sync[d]
      BY <1>0, <1>F, <2>1
    <2>3. Shape(sync'[c])
      BY <1>S, <2>1, <2>2 DEF Shape
    <2>4. sync'[c].op.step # "none" => ~Publishing(c)'
      BY <1>S, <2>1, <2>2 DEF Publishing
    <2> QED BY <2>1, <2>2, <2>3, <2>4, ShapeFrame
  <1>18. ASSUME NEW c \in Clients, KillInSnapshot(c) PROVE ShapeInv'
    <2>1. Shape(sync'[c]) /\ sync'[c].op.step = "none" /\ unsent' = unsent
      BY <1>0, <1>F, <1>S, <1>18 DEF KillInSnapshot, Acting, Shape
    <2> QED BY <1>0, <1>F, <1>18, <2>1, ShapeFrame DEF KillInSnapshot
  <1>24. ASSUME NEW c \in Clients, HandlerFail(c) PROVE ShapeInv'
    <2>1. Shape(sync'[c]) /\ sync'[c].op.step = "none" /\ unsent' = unsent
      BY <1>0, <1>F, <1>S, <1>24 DEF HandlerFail, HandlerEnds, Handling, Shape
    <2> QED BY <1>0, <1>F, <1>24, <2>1, ShapeFrame DEF HandlerFail, HandlerEnds
  <1>19. ASSUME NEW c \in Clients, Edit(c) PROVE ShapeInv'
    BY <1>19 DEF Edit, UserStep, ShapeInv, Shape, Publishing
  <1>20. ASSUME NEW c \in Clients, NewDir(c) PROVE ShapeInv'
    BY <1>20 DEF NewDir, UserStep, ShapeInv, Shape, Publishing
  <1>21. ASSUME NEW c \in Clients, Delete(c) PROVE ShapeInv'
    <2>1. /\ sync' = [sync EXCEPT ![c] = sync'[c]] /\ unsent' = unsent
          /\ \/ sync'[c] = sync[c]
             \/ /\ sync[c].op.step = "fetch"
                /\ sync'[c] = [sync[c] EXCEPT !.op = [@ EXCEPT !.linked = FALSE]]
      BY <1>0, <1>21 DEF Delete, UserStep
    <2>2. /\ sync'[c].pc = sync[c].pc /\ sync'[c].todo = sync[c].todo
          /\ sync'[c].acts = sync[c].acts /\ sync'[c].op.step = sync[c].op.step
      BY <1>F, <2>1, TransferWith DEF Transfer, NoOp
    <2> QED BY <1>0, <2>1, <2>2 DEF ShapeInv, Shape, Publishing
  <1>22. CASE Tick
    BY <1>22 DEF Tick, ShapeInv, Shape, Publishing
  <1>23. CASE UNCHANGED vars
    BY <1>23 DEF vars, ShapeInv, Shape, Publishing
  <1> QED
    BY <1>1, <1>2, <1>3, <1>4, <1>5, <1>6, <1>7, <1>8, <1>9, <1>10, <1>11, <1>12,
       <1>13, <1>14, <1>15, <1>16, <1>17, <1>18, <1>19, <1>20, <1>21, <1>22, <1>23,
       <1>24
    DEF Next, RunStep, HandlerStep, ActionStep, Failure, User

-----------------------------------------------------------------------------
(* What a client that only listens hears of a client's synchronisations.    *)

\* Messages of two clients may be published in another order than their effects
\* had at the server; one client's handler waits for the broker after each.
OneClient == \A c, d \in Clients : c = d

Filling(c) == sync[c].op.step = "copy"
Filled(S, c) == S \cup {sync[c].op.path} \cup Above(sync[c].op.path)

\* A listener is behind by what is being published or filled, one effect at most.
HeardBy(q) ==
  /\ unsent = {} /\ (\A c \in Clients : ~Filling(c)) => Heard(q) = DOMAIN server
  /\ \A m \in unsent : unsent = {m} /\ Learned(Heard(q), m) = DOMAIN server
  /\ \A c \in Clients : Filling(c) => Filled(Heard(q), c) = DOMAIN server

HeardInv == faults = 0 => \A q \in Listeners \ Clients : HeardBy(q)

LEMMA InitHeard == Init => HeardInv
  <1> SUFFICES ASSUME Init, NEW q \in Listeners \ Clients PROVE HeardBy(q)
    BY DEF HeardInv
  <1>1. queue[q] = <<>> /\ DOMAIN server = {} /\ unsent = {}
    BY NoFilesType DEF Init
  <1>2. Heard(q) = {}
    BY <1>1, ReplayNothing DEF Heard
  <1>3. \A c \in Clients : ~Filling(c)
    BY DEF Init, Filling, NoOp
  <1> QED BY <1>1, <1>2, <1>3 DEF HeardBy

LEMMA LearningIs ==
  ASSUME NEW S \in SUBSET Paths, NEW m \in Message
  PROVE  learning[<<S, m>>] = Learned(S, m) /\ Learned(S, m) \in SUBSET Paths
  <1>1. <<S, m>> \in (SUBSET Paths) \X Message /\ <<S, m>>[1] = S /\ <<S, m>>[2] = m
    OBVIOUS
  <1>2. learning[<<S, m>>] = Learned(S, m)
    BY <1>1 DEF learning
  <1>3. m.path \in Paths
    BY DEF Message
  <1>4. Learned(S, m) \in SUBSET Paths
    BY <1>3 DEF Learned, Above
  <1> QED BY <1>2, <1>4

LEMMA HeardType ==
  ASSUME TypeOK, NEW q \in Listeners
  PROVE  Heard(q) \in SUBSET Paths
  <1>1. queue[q] \in Seq(Message)
    BY DEF TypeOK
  <1>2. \A S \in SUBSET Paths : \A m \in Message : learning[<<S, m>>] \in SUBSET Paths
    BY LearningIs
  <1>3. {} \in SUBSET Paths
    OBVIOUS
  <1> QED BY <1>1, <1>2, <1>3, ReplayStays DEF Heard

\* Nothing is done at the server, nothing published, no upload begun or ended.
LEMMA HeardFrame ==
  ASSUME TypeOK, HeardInv, faults' = faults, DOMAIN server' = DOMAIN server, unsent' = unsent,
         \A q \in Listeners \ Clients : queue'[q] = queue[q],
         \A c \in Clients : \/ sync'[c].op.step = sync[c].op.step
                               /\ sync'[c].op.path = sync[c].op.path
                            \/ ~Filling(c) /\ ~Filling(c)'
  PROVE  HeardInv'
  <1> SUFFICES ASSUME faults' = 0, NEW q \in Listeners \ Clients PROVE HeardBy(q)'
    BY DEF HeardInv
  <1>1. HeardBy(q) /\ Heard(q)' = Heard(q)
    BY DEF HeardInv, Heard
  <1>2. \A c \in Clients : /\ Filling(c)' <=> Filling(c)
                           /\ Filling(c) => Filled(Heard(q), c)' = Filled(Heard(q), c)
    BY <1>1 DEF Filling, Filled
  <1>3. \A c \in Clients : Filling(c)' => Filled(Heard(q), c)' = DOMAIN server'
    BY <1>1, <1>2 DEF HeardBy
  <1>4. \A m \in unsent' : unsent' = {m} /\ Learned(Heard(q)', m) = DOMAIN server'
    BY <1>1 DEF HeardBy
  <1>5. unsent' = {} /\ (\A c \in Clients : ~Filling(c)') => Heard(q)' = DOMAIN server'
    BY <1>1, <1>2 DEF HeardBy
  <1> QED BY <1>3, <1>4, <1>5 DEF HeardBy, Learned

\* An effect at the server that is about to be published: nothing else is.
LEMMA HeardEffect ==
  ASSUME TypeOK, HeardInv, faults' = faults, unsent = {}, queue' = queue,
         \A c \in Clients : ~Filling(c)', \A c \in Clients : ~Filling(c),
         NEW m, unsent' = {m}, DOMAIN server' = Learned(DOMAIN server, m)
  PROVE  HeardInv'
  <1> SUFFICES ASSUME faults' = 0, NEW q \in Listeners \ Clients PROVE HeardBy(q)'
    BY DEF HeardInv
  <1>1. Heard(q)' = Heard(q) /\ Heard(q) = DOMAIN server
    BY DEF HeardInv, HeardBy, Heard
  <1>2. Learned(Heard(q)', m) = DOMAIN server'
    BY <1>1
  <1> QED BY <1>2 DEF HeardBy, Learned

LEMMA HeardRemove ==
  ASSUME TypeOK, ShapeInv, HeardInv, OneClient, NEW c \in Clients, HandleRemove(c)
  PROVE  HeardInv'
  <1>1. PICK e \in sync[c].todo :
          /\ Handling(c)
          /\ server' = Rm(server, e.path, now)
          /\ sync' = [Unlink("copy", Subtree(e.path)) EXCEPT ![c].todo = @ \ {e}]
          /\ Announce(c, "REMOVE", e.path)
          /\ UNCHANGED <<queue, faults>>
    BY DEF HandleRemove
  <1> DEFINE u == Unlink("copy", Subtree(e.path))
             m == [client |-> c, event |-> "REMOVE", path |-> e.path]
  <1>2. DOMAIN u = Clients /\ \A d \in Clients : IsRun(u[d]) /\ u[d].op.step = sync[d].op.step
    BY UnlinkRuns DEF TypeOK, Unlink
  <1>3. sync' = [u EXCEPT ![c].todo = @ \ {e}]
    BY <1>1
  <1> HIDE DEF u
  <1>4. \A d \in Clients : sync'[d].op.step = sync[d].op.step
    BY <1>2, <1>3 DEF IsRun
  <1>5. sync[c].op.step = "none"
    BY DEF ShapeInv, Shape
  <1>6. \A d \in Clients : ~Filling(d) /\ ~Filling(d)'
    BY <1>4, <1>5 DEF OneClient, Filling
  <1>7. unsent = {}
    BY <1>1 DEF Handling, Publishing, OneClient, TypeOK, Message
  <1>8. unsent' = {m}
    BY <1>1, <1>7 DEF Announce
  <1>9. DOMAIN server' = DOMAIN server \ Subtree(e.path)
    BY <1>1, RmTree DEF TypeOK
  <1>10. m.event = "REMOVE" /\ m.path = e.path
    OBVIOUS
  <1> HIDE DEF m
  <1>11. DOMAIN server' = Learned(DOMAIN server, m)
    BY <1>9, <1>10 DEF Learned
  <1> QED BY <1>1, <1>6, <1>7, <1>8, <1>11, HeardEffect

LEMMA HeardDirectory ==
  ASSUME TypeOK, ShapeInv, HeardInv, OneClient, NEW c \in Clients, HandleDirectory(c)
  PROVE  HeardInv'
  <1>1. PICK e \in sync[c].todo :
          /\ Handling(c)
          /\ server' = MkDir(server, e.path, now)
          /\ sync' = [sync EXCEPT ![c].todo = @ \ {e}]
          /\ Announce(c, "CREATE", e.path)
          /\ UNCHANGED <<queue, faults>>
    BY DEF HandleDirectory
  <1> DEFINE m == [client |-> c, event |-> "CREATE", path |-> e.path]
  <1>2. \A d \in Clients : sync'[d].op.step = sync[d].op.step
    BY <1>1 DEF TypeOK, IsRun
  <1>3. sync[c].op.step = "none" /\ e.path \in Paths
    BY DEF ShapeInv, Shape, TypeOK, IsRun, Effect
  <1>4. \A d \in Clients : ~Filling(d) /\ ~Filling(d)'
    BY <1>2, <1>3 DEF OneClient, Filling
  <1>5. unsent = {}
    BY <1>1 DEF Handling, Publishing, OneClient, TypeOK, Message
  <1>6. unsent' = {m}
    BY <1>1, <1>5 DEF Announce
  <1>7. DOMAIN server' = DOMAIN server \cup {e.path} \cup Above(e.path)
    BY <1>1, <1>3, MkDirTree DEF TypeOK
  <1>8. m.event = "CREATE" /\ m.path = e.path
    OBVIOUS
  <1> HIDE DEF m
  <1>9. DOMAIN server' = Learned(DOMAIN server, m)
    BY <1>7, <1>8 DEF Learned
  <1> QED BY <1>1, <1>4, <1>5, <1>6, <1>9, HeardEffect

\* An upload first creates the file, and is then behind by it ...
LEMMA HeardUploadCreate ==
  ASSUME TypeOK, ShapeInv, HeardInv, OneClient, NEW c \in Clients, UploadCreate(c)
  PROVE  HeardInv'
  <1> SUFFICES ASSUME faults' = 0, NEW q \in Listeners \ Clients PROVE HeardBy(q)'
    BY DEF HeardInv
  <1>1. /\ sync[c].op.step = "post" /\ server' = CreateFile(server, sync[c].op.path, Empty, now)
        /\ UNCHANGED <<unsent, queue, faults>>
    BY DEF UploadCreate
  <1>2. sync[c].op \in Transfer /\ sync[c].op.path \in Paths /\ Empty \in Body
    BY <1>1, TransferWith DEF TypeOK, IsRun, Body
  <1>3. unsent = {}
    BY <1>1 DEF ShapeInv, Publishing, OneClient, TypeOK, Message
  <1>4. \A d \in Clients : ~Filling(d)
    BY <1>1 DEF OneClient, Filling
  <1>5. Heard(q) = DOMAIN server /\ Heard(q)' = Heard(q)
    BY <1>1, <1>3, <1>4 DEF HeardInv, HeardBy, Heard
  <1>6. sync'[c].op.step = "copy" /\ sync'[c].op.path = sync[c].op.path
    BY <1>1, <1>2 DEF UploadCreate, TypeOK, IsRun, Transfer, NoOp
  <1>7. DOMAIN server' = DOMAIN server \cup {sync[c].op.path} \cup Above(sync[c].op.path)
    <2> DEFINE p == sync[c].op.path
    <2>1. p \in Paths /\ server' = CreateFile(server, p, Empty, now) /\ Empty \in Body
      BY <1>1, <1>2
    <2>2. IsTree(server) /\ now \in Nat
      BY DEF TypeOK
    <2> HIDE DEF p
    <2>3. DOMAIN server' = DOMAIN server \cup {p} \cup Above(p)
      BY <2>1, <2>2, CreateFileTree
    <2> QED BY <2>3 DEF p
  <1>8. Filled(Heard(q), c)' = DOMAIN server'
    BY <1>5, <1>6, <1>7 DEF Filled
  <1>9. Filling(c)' /\ \A d \in Clients : d = c
    BY <1>6 DEF Filling, OneClient
  <1>10. unsent' = {}
    BY <1>1, <1>3
  <1> QED BY <1>8, <1>9, <1>10 DEF HeardBy

\* ... until it is filled and published.
LEMMA HeardUploadCopy ==
  ASSUME TypeOK, ShapeInv, HeardInv, OneClient, NEW c \in Clients, UploadCopy(c)
  PROVE  HeardInv'
  <1> SUFFICES ASSUME faults' = 0, NEW q \in Listeners \ Clients PROVE HeardBy(q)'
    BY DEF HeardInv
  <1> DEFINE m == [client |-> c, event |-> "CREATE", path |-> sync[c].op.path]
  <1>1. /\ sync[c].op.step = "copy" /\ sync' = [sync EXCEPT ![c].op = NoOp]
        /\ Announce(c, "CREATE", sync[c].op.path) /\ UNCHANGED <<queue, faults>>
    BY DEF UploadCopy
  <1>2. sync[c].op.body \in Body
    BY <1>1, TransferWith DEF TypeOK, IsRun
  <1>3. DOMAIN server' = DOMAIN server
    <2>1. \/ server' = FillFile(server, sync[c].op.path, sync[c].op.body, now)
          \/ server' = server
      BY DEF UploadCopy
    <2>2. DOMAIN FillFile(server, sync[c].op.path, sync[c].op.body, now) = DOMAIN server
      BY <1>2, FillFileTree DEF TypeOK
    <2> QED BY <2>1, <2>2
  <1>4. unsent = {}
    BY <1>1 DEF ShapeInv, Publishing, OneClient, TypeOK, Message
  <1>5. unsent' = {m}
    BY <1>1, <1>4 DEF Announce
  <1>6. Filled(Heard(q), c) = DOMAIN server /\ Heard(q)' = Heard(q)
    BY <1>1 DEF HeardInv, HeardBy, Filling, Heard
  <1>7. m.event = "CREATE" /\ m.path = sync[c].op.path
    OBVIOUS
  <1> HIDE DEF m
  <1>8. Learned(Heard(q)', m) = DOMAIN server'
    BY <1>3, <1>6, <1>7 DEF Learned, Filled
  <1>9. \A d \in Clients : ~Filling(d)'
    BY <1>1 DEF OneClient, Filling, NoOp, TypeOK
  <1> QED BY <1>5, <1>8, <1>9 DEF HeardBy, Learned

LEMMA HeardPublish ==
  ASSUME TypeOK, ShapeInv, HeardInv, OneClient, Publish
  PROVE  HeardInv'
  <1> SUFFICES ASSUME faults' = 0, NEW q \in Listeners \ Clients PROVE HeardBy(q)'
    BY DEF HeardInv
  <1>1. PICK m \in unsent :
          /\ unsent' = unsent \ {m}
          /\ queue' = [r \in DOMAIN queue |->
                         IF r \in Listeners THEN Append(queue[r], m) ELSE queue[r]]
          /\ UNCHANGED <<server, sync, faults>>
    BY DEF Publish
  <1>2. m \in Message /\ queue[q] \in Seq(Message) /\ queue'[q] = Append(queue[q], m)
    BY <1>1 DEF TypeOK
  <1>3. unsent = {m} /\ Learned(Heard(q), m) = DOMAIN server
    BY <1>1 DEF HeardInv, HeardBy
  <1>4. Heard(q)' = learning[<<Heard(q), m>>]
    BY <1>2, ReplayAppend DEF Heard
  <1>5. Heard(q) \in SUBSET Paths
    BY HeardType
  <1>6. Heard(q)' = DOMAIN server'
    BY <1>1, <1>2, <1>3, <1>4, <1>5, LearningIs
  <1>7. unsent' = {}
    BY <1>1, <1>3
  <1>8. \A d \in Clients : ~Filling(d)'
    <2>1. Publishing(m.client) /\ m.client \in Clients
      BY <1>1, <1>2 DEF Publishing, Message
    <2> QED BY <1>1, <2>1 DEF ShapeInv, OneClient, Filling
  <1> QED BY <1>6, <1>7, <1>8 DEF HeardBy

LEMMA NextHeard ==
  OneClient /\ TypeOK /\ ShapeInv /\ HeardInv /\ [Next]_vars => HeardInv'
  <1> SUFFICES ASSUME OneClient, TypeOK, ShapeInv, HeardInv, [Next]_vars PROVE HeardInv'
    OBVIOUS
  <1>0. DOMAIN sync = Clients /\ DOMAIN queue = Clients \cup Listeners
    BY DEF TypeOK
  <1>F. \A c \in Clients :
          sync[c] \in [pc : PCs, final : {sync[c].final}, todo : SUBSET Effect,
                      acts : SUBSET Action, op : Transfer]
    BY DEF TypeOK, IsRun
  <1>1. ASSUME NEW c \in Clients, SyncStart(c) PROVE HeardInv'
    <2>1. \A d \in Clients : sync'[d].op = sync[d].op
      BY <1>0, <1>F, <1>1 DEF SyncStart
    <2> QED BY <1>0, <1>1, <2>1, HeardFrame DEF SyncStart
  <1>2. ASSUME NEW c \in Clients,
               PostSnapshot(c) \/ HandleSnapshot(c) \/ Respond(c) \/ CreateDirectorySnapshot(c)
        PROVE  HeardInv'
    <2>1. \A d \in Clients : sync'[d].op = sync[d].op
      BY <1>0, <1>F, <1>2 DEF PostSnapshot, HandleSnapshot, Respond, CreateDirectorySnapshot
    <2> QED BY <1>2, <2>1, HeardFrame
        DEF PostSnapshot, HandleSnapshot, Respond, CreateDirectorySnapshot
  <1>3. ASSUME NEW c \in Clients,
               UploadOpen(c) \/ DownloadCreate(c) \/ DownloadCopy(c) \/ ActionMkDir(c)
        PROVE  HeardInv'
    <2>1. \A d \in Clients : sync'[d] = sync[d] \/ (~Filling(d) /\ ~Filling(d)')
      <3>1. PICK op :
              /\ op.step # "copy" /\ sync[c].op.step # "copy"
              /\ sync'[c].op = op /\ \A d \in Clients \ {c} : sync'[d] = sync[d]
        <4>1. ASSUME UploadOpen(c) PROVE /\ sync'[c].op.step \in {"post", "none"}
                                         /\ sync[c].op.step = "none"
                                         /\ \A d \in Clients \ {c} : sync'[d] = sync[d]
          BY <1>0, <1>F, <4>1 DEF UploadOpen, Acting, NoOp
        <4>2. ASSUME DownloadCreate(c) PROVE /\ sync'[c].op.step = "fetch"
                                             /\ sync[c].op.step = "none"
                                             /\ \A d \in Clients \ {c} : sync'[d] = sync[d]
          BY <1>0, <1>F, <4>2 DEF DownloadCreate, Acting, NoOp
        <4>3. ASSUME DownloadCopy(c) PROVE /\ sync'[c].op.step = "none"
                                           /\ sync[c].op.step = "fetch"
                                           /\ \A d \in Clients \ {c} : sync'[d] = sync[d]
          BY <1>0, <1>F, <4>3 DEF DownloadCopy, NoOp
        <4>4. ASSUME ActionMkDir(c) PROVE /\ sync'[c].op.step = "none"
                                          /\ sync[c].op.step = "none"
                                          /\ \A d \in Clients \ {c} : sync'[d] = sync[d]
          BY <1>0, <1>F, <4>4 DEF ActionMkDir, Acting, NoOp
        <4> QED BY <1>3, <4>1, <4>2, <4>3, <4>4
      <3> QED BY <3>1 DEF Filling
    <2> QED BY <1>3, <2>1, HeardFrame DEF UploadOpen, DownloadCreate, DownloadCopy, ActionMkDir
  <1>4. ASSUME NEW c \in Clients, Delete(c) PROVE HeardInv'
    <2>1. \A d \in Clients : sync'[d] = sync[d] \/ (~Filling(d) /\ ~Filling(d)')
      <3>1. \A d \in Clients \ {c} : sync'[d] = sync[d]
        BY <1>0, <1>4 DEF Delete
      <3>2. \/ sync'[c] = sync[c]
            \/ /\ sync[c].op.step = "fetch"
               /\ sync'[c] = [sync[c] EXCEPT !.op = [@ EXCEPT !.linked = FALSE]]
        BY <1>0, <1>4 DEF Delete
      <3> QED BY <1>F, <3>1, <3>2 DEF Filling, Transfer, NoOp
    <2> QED BY <1>4, <2>1, HeardFrame DEF Delete, UserStep
  <1>5. ASSUME NEW c \in Clients, Edit(c) \/ NewDir(c) PROVE HeardInv'
    BY <1>5, HeardFrame DEF Edit, NewDir, UserStep
  <1>6. CASE Tick \/ UNCHANGED vars
    BY <1>6, HeardFrame DEF Tick, vars
  <1>7. ASSUME PublishFail \/ \E c \in Clients : Failure(c) PROVE HeardInv'
    <2>1. faults \in Nat /\ faults' = faults + 1
      BY <1>7
      DEF PublishFail, Failure, TransferFail, HandlerFail, Kill, KillInSnapshot, Fault, TypeOK
    <2>2. faults' # 0
      BY <2>1
    <2> QED BY <2>2 DEF HeardInv
  <1> QED
    BY <1>1, <1>2, <1>3, <1>4, <1>5, <1>6, <1>7, HeardRemove, HeardDirectory,
       HeardUploadCreate, HeardUploadCopy, HeardPublish
    DEF Next, RunStep, HandlerStep, ActionStep, User

\* A client that only listens learns exactly the paths the server has, whatever a
\* client's synchronisations create, upload and remove, in any order the server's
\* loop and the client's take: every effect is announced, and in the order it had.
THEOREM ListenerAlwaysSees == ASSUME OneClient PROVE Spec => []ListenerSeesServer
  <1>1. Init => TypeOK /\ ShapeInv /\ HeardInv
    BY InitType, InitShape, InitHeard
  <1>2. TypeOK /\ ShapeInv /\ HeardInv /\ [Next]_vars => (TypeOK /\ ShapeInv /\ HeardInv)'
    BY NextType, NextShape, NextHeard, OneClient
  <1>3. HeardInv => ListenerSeesServer
    BY DEF HeardInv, HeardBy, ListenerSeesServer, Filling
  <1> QED BY <1>1, <1>2, <1>3, PTL DEF Spec
=============================================================================

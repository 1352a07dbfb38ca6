---------------------------- MODULE StartupProofs ----------------------------
(* Proofs about Startup: what is proved of the runs of clientsync by        *)
(* themselves holds as well while other clients listen, are stopped and are *)
(* started again; and, where the client is started after clientsync, a      *)
(* client that synchronised and listens has what the server has when        *)
(* nothing is under way.                                                    *)
EXTENDS Startup, CalmSyncProofs

-----------------------------------------------------------------------------
(* A step of Startup is a step of SnapshotSync, or one beside it that       *)
(* leaves the server and the runs alone, but for a file that is removed     *)
(* from under a download.                                                   *)

Unlinked(c) == /\ sync[c].op.step = "fetch"
               /\ sync' = [sync EXCEPT ![c].op.linked = FALSE]

Beside == /\ UNCHANGED <<now, server, shot, unsent, edits, syncs, faults, calm>>
          /\ UNCHANGED sync \/ \E c \in Clients : Unlinked(c)

LEMMA ConsumersStayBeside ==
  ASSUME NEW c \in Clients, PurgeQueue(c) \/ Bind(c) \/ Receive(c) \/ Fetch(c)
  PROVE  Beside
  BY DEF PurgeQueue, Bind, Receive, UnlinkDownload, Fetch, Beside, Unlinked

\* What a run keeps of itself when that happens.
LEMMA BesideRuns ==
  ASSUME TypeOK, Beside
  PROVE  /\ DOMAIN sync' = Clients
         /\ \A c \in Clients :
              /\ IsRun(sync'[c])
              /\ sync'[c].pc = sync[c].pc /\ sync'[c].final = sync[c].final
              /\ sync'[c].todo = sync[c].todo /\ sync'[c].acts = sync[c].acts
              /\ sync'[c].op.step = sync[c].op.step
              /\ sync'[c].op.path = sync[c].op.path
  <1>0. DOMAIN sync = Clients /\ \A c \in Clients : IsRun(sync[c])
    BY DEF TypeOK
  <1>1. ASSUME NEW d \in Clients, Unlinked(d), NEW c \in Clients
        PROVE  /\ IsRun(sync'[c])
               /\ sync'[c].pc = sync[c].pc /\ sync'[c].final = sync[c].final
               /\ sync'[c].todo = sync[c].todo /\ sync'[c].acts = sync[c].acts
               /\ sync'[c].op.step = sync[c].op.step
               /\ sync'[c].op.path = sync[c].op.path
    <2>1. CASE c # d
      BY <1>0, <1>1, <2>1 DEF Unlinked
    <2>2. CASE c = d
      <3>1. PICK op : op = [sync[c].op EXCEPT !.linked = FALSE]
        OBVIOUS
      <3>2. /\ sync[c] \in [pc : PCs, final : {sync[c].final}, todo : SUBSET Effect,
                             acts : SUBSET Action, op : Transfer]
            /\ sync[c].op.step = "fetch"
        BY <1>0, <1>1, <2>2 DEF IsRun, Unlinked
      <3>3. sync[c].op \in [step : {"post", "copy", "fetch"}, path : Paths, body : Body,
                            linked : BOOLEAN]
        BY <3>2 DEF Transfer, NoOp
      <3>4. op \in Transfer /\ op.step = sync[c].op.step /\ op.path = sync[c].op.path
        BY <3>1, <3>3 DEF Transfer
      <3>5. sync'[c] = [sync[c] EXCEPT !.op = op]
        BY <1>0, <1>1, <2>2, <3>1, <3>2 DEF Unlinked
      <3>6. IsRun(sync'[c])
        BY <1>0, <3>4, <3>5, RunWithOp
      <3> QED BY <3>2, <3>4, <3>5, <3>6
    <2> QED BY <2>1, <2>2
  <1>2. CASE UNCHANGED sync
    BY <1>0, <1>2 DEF IsRun
  <1>3. ASSUME NEW d \in Clients, Unlinked(d) PROVE DOMAIN sync' = Clients
    BY <1>0, <1>3 DEF Unlinked
  <1> QED BY <1>1, <1>2, <1>3 DEF Beside

LEMMA OthersAreSteps ==
  ASSUME StartNext,
         \A c \in Clients : ~(PurgeQueue(c) \/ Bind(c) \/ Receive(c) \/ Fetch(c))
  PROVE  [Next]_vars
  <1>1. ASSUME NEW c \in Clients, Start(c) PROVE Next
    BY <1>1 DEF Start, Next
  <1>2. ASSUME NEW c \in Clients, SyncStep(c) PROVE Next
    BY <1>2 DEF SyncStep, Next
  <1>3. ASSUME NEW c \in Clients, RunFails(c) PROVE Next
    BY <1>3 DEF RunFails, Next
  <1>4. ASSUME NEW c \in Clients, UserActs(c) PROVE Next
    BY <1>4 DEF UserActs, Next
  <1>5. ASSUME NEW c \in Clients, Stop(c) PROVE UNCHANGED vars
    BY <1>5 DEF Stop
  <1>6. Announcing \/ AnnouncingFails \/ TimePasses => Next
    BY DEF Announcing, AnnouncingFails, TimePasses, Next
  <1> QED BY <1>1, <1>2, <1>3, <1>4, <1>5, <1>6 DEF StartNext

LEMMA StartSteps ==
  [StartNext]_allVars => [Next]_vars \/ Beside
  <1>1. CASE StartNext
    BY <1>1, ConsumersStayBeside, OthersAreSteps
  <1>2. CASE UNCHANGED allVars
    BY <1>2 DEF allVars, vars
  <1> QED BY <1>1, <1>2

-----------------------------------------------------------------------------
(* Types.                                                                   *)

Phases == {"off", "syncing", "purged", "live"}

StartTypeOK ==
  /\ phase \in [Clients -> Phases]
  /\ bound \subseteq Clients
  /\ fetching \in [Clients -> Files \cup {NoPath}]
  /\ missed \in [Clients -> SUBSET Paths]
  /\ steady \subseteq Clients

LEMMA InitStartTypes == StartInit => TypeOK /\ StartTypeOK
  BY InitType DEF StartInit, StartTypeOK, Phases, NoPath

LEMMA AboutOthersPaths ==
  ASSUME NEW c, NEW messages, messages \subseteq Message
  PROVE  AboutOthers(c, messages) \subseteq Paths
  <1> SUFFICES ASSUME NEW m \in messages PROVE Told(m) \subseteq Paths
    BY DEF AboutOthers
  <1>1. m.path \in Paths
    BY DEF Message
  <1> QED BY <1>1 DEF Told, Subtree, Under, Above

LEMMA QueuedMessages ==
  ASSUME TypeOK, NEW c \in Clients
  PROVE  ToSet(queue[c]) \subseteq Message
  <1>1. queue[c] \in Seq(Message)
    BY DEF TypeOK
  <1> QED BY <1>1 DEF ToSet

LEMMA QueueEmptied ==
  ASSUME TypeOK, NEW c \in Clients, queue' = [queue EXCEPT ![c] = <<>>]
  PROVE  queue' \in [Clients \cup Listeners -> Seq(Message)]
  BY DEF TypeOK

\* Another queue and another directory of some client.
LEMMA TypeFrame ==
  ASSUME TypeOK, Beside,
         queue' \in [Clients \cup Listeners -> Seq(Message)],
         DOMAIN local' = Clients, \A d \in Clients : IsTree(local'[d])
  PROVE  TypeOK'
  BY BesideRuns DEF TypeOK, Beside

LEMMA ReceiveTrees ==
  ASSUME TypeOK, NEW c \in Clients, Receive(c)
  PROVE  DOMAIN local' = Clients /\ \A d \in Clients : IsTree(local'[d])
  <1>0. DOMAIN local = Clients /\ now \in Nat /\ \A d \in Clients : IsTree(local[d])
    BY DEF TypeOK
  <1> DEFINE m == Head(queue[c])
  <1>1. m.path \in Paths
    <2>1. queue[c] \in Seq(Message) /\ queue[c] # <<>>
      BY DEF TypeOK, Receive
    <2>2. m \in Message
      BY <2>1
    <2> QED BY <2>2 DEF Message
  <1>2. \/ local' = local
        \/ local' = [local EXCEPT ![c] = CreateFile(@, m.path, Empty, now)]
        \/ local' = [local EXCEPT ![c] = MkDir(@, m.path, now)]
        \/ local' = [local EXCEPT ![c] = Rm(@, m.path, now)]
    BY DEF Receive
  <1>3. Empty \in Body
    BY DEF Body
  <1> HIDE DEF m
  <1>4. /\ IsTree(CreateFile(local[c], m.path, Empty, now))
        /\ IsTree(MkDir(local[c], m.path, now))
        /\ IsTree(Rm(local[c], m.path, now))
    BY <1>0, <1>1, <1>3, CreateFileTree, MkDirTree, RmTree
  <1> QED BY <1>0, <1>2, <1>4

LEMMA FetchTrees ==
  ASSUME TypeOK, NEW c \in Clients, Fetch(c)
  PROVE  DOMAIN local' = Clients /\ \A d \in Clients : IsTree(local'[d])
  <1>0. DOMAIN local = Clients /\ now \in Nat /\ \A d \in Clients : IsTree(local[d])
    BY DEF TypeOK
  <1>1. PICK body :
          /\ body = IF fetching[c] \in DOMAIN server THEN server[fetching[c]].body
                                                     ELSE ErrorPage
          /\ local' = [local EXCEPT ![c] = FillFile(@, fetching[c], body, now)]
    BY DEF Fetch
  <1>2. body \in Body
    BY <1>1 DEF TypeOK, IsTree, Entry, Body
  <1>3. IsTree(FillFile(local[c], fetching[c], body, now))
    BY <1>0, <1>2, FillFileTree
  <1> QED BY <1>0, <1>1, <1>3

LEMMA NextTypes ==
  TypeOK /\ StartTypeOK /\ [StartNext]_allVars => TypeOK'
  <1> SUFFICES ASSUME TypeOK, StartTypeOK, [StartNext]_allVars PROVE TypeOK'
    OBVIOUS
  <1>0. DOMAIN local = Clients /\ \A d \in Clients : IsTree(local[d])
    BY DEF TypeOK
  <1>1. ASSUME NEW c \in Clients, PurgeQueue(c) PROVE TypeOK'
    <2>1. queue' = [queue EXCEPT ![c] = <<>>] /\ local' = local
      BY <1>1 DEF PurgeQueue
    <2>2. Beside
      BY <1>1, ConsumersStayBeside
    <2> QED BY <1>0, <2>1, <2>2, QueueEmptied, TypeFrame
  <1>2. ASSUME NEW c \in Clients, Bind(c) PROVE TypeOK'
    <2>1. (queue' = queue \/ queue' = [queue EXCEPT ![c] = <<>>]) /\ local' = local
      BY <1>2 DEF Bind
    <2>2. queue' \in [Clients \cup Listeners -> Seq(Message)]
      BY <2>1, QueueEmptied DEF TypeOK
    <2>3. Beside
      BY <1>2, ConsumersStayBeside
    <2> QED BY <1>0, <2>1, <2>2, <2>3, TypeFrame
  <1>3. ASSUME NEW c \in Clients, Receive(c) PROVE TypeOK'
    <2>1. queue[c] \in Seq(Message) /\ queue[c] # <<>>
      BY <1>3 DEF Receive, TypeOK
    <2>2. Tail(queue[c]) \in Seq(Message)
      BY <2>1
    <2>3. queue' \in [Clients \cup Listeners -> Seq(Message)]
      BY <1>3, <2>2 DEF Receive, TypeOK
    <2>4. Beside
      BY <1>3, ConsumersStayBeside
    <2> QED BY <1>3, <2>3, <2>4, ReceiveTrees, TypeFrame
  <1>4. ASSUME NEW c \in Clients, Fetch(c) PROVE TypeOK'
    <2>1. queue' \in [Clients \cup Listeners -> Seq(Message)]
      BY <1>4 DEF Fetch, TypeOK
    <2>2. Beside
      BY <1>4, ConsumersStayBeside
    <2> QED BY <1>4, <2>1, <2>2, FetchTrees, TypeFrame
  <1>5. CASE \A c \in Clients : ~(PurgeQueue(c) \/ Bind(c) \/ Receive(c) \/ Fetch(c))
    <2>1. [Next]_vars
      BY <1>5, OthersAreSteps DEF allVars, vars
    <2> QED BY <2>1, NextType
  <1> QED BY <1>1, <1>2, <1>3, <1>4, <1>5

LEMMA NextStartTypes ==
  TypeOK /\ StartTypeOK /\ [StartNext]_allVars => StartTypeOK'
  <1> SUFFICES ASSUME TypeOK, StartTypeOK, [StartNext]_allVars PROVE StartTypeOK'
    OBVIOUS
  <1> USE DEF StartTypeOK, Phases
  <1>1. ASSUME NEW c \in Clients, Start(c) PROVE StartTypeOK'
    BY <1>1 DEF Start
  <1>2. ASSUME NEW c \in Clients, PurgeQueue(c) PROVE StartTypeOK'
    <2>1. AboutOthers(c, ToSet(queue[c])) \subseteq Paths
      BY AboutOthersPaths, QueuedMessages
    <2> QED BY <1>2, <2>1 DEF PurgeQueue, Misses
  <1>3. ASSUME NEW c \in Clients, Bind(c) PROVE StartTypeOK'
    <2>1. AboutOthers(c, ToSet(queue[c])) \subseteq Paths
      BY AboutOthersPaths, QueuedMessages
    <2> QED BY <1>3, <2>1 DEF Bind, Misses
  <1>4. ASSUME NEW c \in Clients, Receive(c) PROVE StartTypeOK'
    <2>1. fetching' \in [Clients -> Files \cup {NoPath}]
      <3>1. fetching' = fetching \/ \E p \in Files : fetching' = [fetching EXCEPT ![c] = p]
        BY <1>4 DEF Receive
      <3> QED BY <3>1
    <2> QED BY <1>4, <2>1 DEF Receive
  <1>5. ASSUME NEW c \in Clients, Fetch(c) PROVE StartTypeOK'
    BY <1>5 DEF Fetch
  <1>6. ASSUME NEW c \in Clients, Stop(c) PROVE StartTypeOK'
    BY <1>6 DEF Stop
  <1>7. ASSUME NEW c \in Clients, SyncStep(c) \/ RunFails(c) \/ UserActs(c)
        PROVE  StartTypeOK'
    BY <1>7 DEF SyncStep, RunFails, UserActs, startVars
  <1>8. CASE AnnouncingFails
    <2>1. PICK m \in unsent \ unsent' :
            /\ steady' = steady \ {m.client}
            /\ missed' = [c \in Clients |-> missed[c] \cup AboutOthers(c, {m})]
      BY <1>8 DEF AnnouncingFails
    <2>2. \A c \in Clients : AboutOthers(c, {m}) \subseteq Paths
      BY AboutOthersPaths DEF TypeOK
    <2> QED BY <1>8, <2>1, <2>2 DEF AnnouncingFails
  <1>9. CASE Announcing \/ TimePasses \/ UNCHANGED allVars
    BY <1>9 DEF Announcing, TimePasses, allVars, startVars
  <1> QED BY <1>1, <1>2, <1>3, <1>4, <1>5, <1>6, <1>7, <1>8, <1>9 DEF StartNext

StartInv == TypeOK /\ StartTypeOK /\ TombstoneInv /\ HiddenInv

LEMMA BesideTombstones ==
  ASSUME TypeOK, TombstoneInv, Beside
  PROVE  TombstoneInv'
  BY BesideRuns
  DEF Beside, TombstoneInv, WorkAtServer, RemovalsAreTombstones, TombstonesFromShot

LEMMA BesideHidden ==
  ASSUME TypeOK, HiddenInv, Beside
  PROVE  HiddenInv'
  BY BesideRuns DEF Beside, HiddenInv, HiddenStaysLocal, SnapshotsVisible, WorkVisible

LEMMA StartInvAlways == StartSpec => []StartInv
  <1>1. StartInit => StartInv
    BY InitStartTypes, InitTombstones, InitHidden DEF StartInit, StartInv
  <1>2. StartInv /\ [StartNext]_allVars => StartInv'
    <2> SUFFICES ASSUME StartInv, [StartNext]_allVars PROVE StartInv'
      OBVIOUS
    <2>1. TypeOK' /\ StartTypeOK'
      BY NextTypes, NextStartTypes DEF StartInv
    <2>2. TombstoneInv' /\ HiddenInv'
      BY StartSteps, NextTombstones, NextHidden, BesideTombstones, BesideHidden
      DEF StartInv
    <2> QED BY <2>1, <2>2 DEF StartInv
  <1> QED BY <1>1, <1>2, PTL DEF StartSpec

\* However the starts, stops and consumers of other clients come in between, the
\* state of the directories, of the queues and of the runs stays well-formed: a
\* message in a queue names a path, and what a consumer downloads is a note.
THEOREM StartTyping == StartSpec => []TypeOK
  <1>1. StartInv => TypeOK
    BY DEF StartInv
  <1> QED BY <1>1, StartInvAlways, PTL

\* Consumers announce nothing and touch no snapshot, so beside any number of
\* clients that listen, stop and start again nothing hidden reaches the server.
THEOREM StartHidden == StartSpec => []HiddenStaysLocal
  <1>1. StartInv => HiddenStaysLocal
    BY DEF StartInv, HiddenInv
  <1> QED BY <1>1, StartInvAlways, PTL

\* What a consumer removes or leaves half downloaded in its client's directory
\* reaches the server only as that client's next snapshot says: beside any number
\* of them the server removes nothing without a tombstone.
THEOREM StartRemovals == StartSpec => RemovalNeedsTombstone
  <1>1. StartInv /\ [StartNext]_allVars => [RemovedWithTombstone]_vars
    BY StartSteps, StepJustified DEF StartInv, Beside, RemovedWithTombstone
  <1>2. RemovalNeedsTombstone <=> [][RemovedWithTombstone]_vars
    BY DEF RemovalNeedsTombstone, RemovedWithTombstone
  <1> QED BY <1>1, <1>2, StartInvAlways, PTL DEF StartSpec

-----------------------------------------------------------------------------
(* One program after the other.  Where the script starts the client when    *)
(* clientsync has ended, a machine that is not synchronising has no run of  *)
(* its own, at most one that was killed and that the server is still at     *)
(* work on; and what was killed has let go of the directory.                *)

Over(r) == r.pc \in {"idle", "orphan"}

LetGo  == \A c \in Clients : Over(sync[c]) => sync[c].op.step \notin {"post", "fetch"}
Phased == \A c \in Clients : /\ phase[c] # "syncing" => Over(sync[c])
                             /\ fetching[c] # NoPath => phase[c] = "live"

ProgramInv == ~AtOnce /\ ShapeInv /\ LetGo /\ Phased

\* The steps of SnapshotSync that start no run.
Going == \/ \E c \in Clients : RunStep(c) \/ Failure(c) \/ User(c)
         \/ Publish \/ PublishFail \/ Tick

LeavesOver(c) ==
  /\ Over(sync[c]) => Over(sync'[c])
  /\ Over(sync'[c]) => sync'[c].op.step \notin {"post", "fetch"}

KeepsOver == \A c \in Clients : LeavesOver(c)

LEMMA OverFrame ==
  ASSUME LetGo, NEW c \in Clients, LeavesOver(c),
         \A d \in Clients \ {c} : sync'[d] = sync[d]
  PROVE  KeepsOver
  BY DEF LetGo, LeavesOver, KeepsOver

\* A run that is over stays so until it is started again, and whatever ends one
\* closes what it had open at the client.
LEMMA GoingKeepsOver ==
  ASSUME TypeOK, ShapeInv, LetGo, Going
  PROVE  KeepsOver
  <1>0. DOMAIN sync = Clients
    BY DEF TypeOK
  <1>F. \A c \in Clients :
          sync[c] \in [pc : PCs, final : {sync[c].final}, todo : SUBSET Effect,
                      acts : SUBSET Action, op : Transfer]
    BY DEF TypeOK, IsRun
  <1>S. /\ NoOp.step = "none"
        /\ \A c \in Clients : Shape(sync[c])
        /\ \A c \in Clients : Over(sync[c]) => sync[c].op.step \notin {"post", "fetch"}
    BY DEF NoOp, ShapeInv, LetGo
  <1>1. ASSUME NEW c \in Clients, PostSnapshot(c) PROVE KeepsOver
    <2>1. PICK final :
            sync' = [sync EXCEPT ![c].pc = "posted", ![c].final = final]
      BY <1>1 DEF PostSnapshot
    <2>2. LeavesOver(c)
      BY <1>0, <1>F, <1>S, <1>1, <2>1 DEF PostSnapshot, LeavesOver, Over
    <2> QED BY <1>0, <1>F, <2>1, <2>2, OverFrame
  <1>2. ASSUME NEW c \in Clients, HandleSnapshot(c) PROVE KeepsOver
    <2>1. PICK E, A :
            sync' = [sync EXCEPT ![c].pc = "handling", ![c].todo = E, ![c].acts = A]
      BY <1>2 DEF HandleSnapshot
    <2>2. LeavesOver(c)
      BY <1>0, <1>F, <1>S, <1>2, <2>1 DEF HandleSnapshot, LeavesOver, Over
    <2> QED BY <1>0, <1>F, <2>1, <2>2, OverFrame
  <1>3. ASSUME NEW c \in Clients, HandleRemove(c) PROVE KeepsOver
    <2>1. PICK e \in sync[c].todo :
            sync' = [Unlink("copy", Subtree(e.path)) EXCEPT ![c].todo = @ \ {e}]
      BY <1>3 DEF HandleRemove
    <2> DEFINE u == Unlink("copy", Subtree(e.path))
    <2>2. DOMAIN u = Clients /\ \A d \in Clients :
            /\ IsRun(u[d])
            /\ u[d].pc = sync[d].pc /\ u[d].op.step = sync[d].op.step
      BY UnlinkRuns DEF TypeOK, Unlink
    <2>3. sync' = [u EXCEPT ![c].todo = @ \ {e}]
      BY <2>1
    <2> HIDE DEF u
    <2>4. \A d \in Clients :
            sync'[d].pc = sync[d].pc /\ sync'[d].op.step = sync[d].op.step
      BY <2>2, <2>3 DEF IsRun
    <2> QED BY <2>4 DEF KeepsOver, LeavesOver, LetGo, Over
  <1>4. ASSUME NEW c \in Clients, HandleDirectory(c) PROVE KeepsOver
    <2>1. PICK e \in sync[c].todo :
            sync' = [sync EXCEPT ![c].todo = @ \ {e}]
      BY <1>4 DEF HandleDirectory
    <2>2. LeavesOver(c)
      BY <1>0, <1>F, <1>S, <1>4, <2>1 DEF HandleDirectory, LeavesOver, Over
    <2> QED BY <1>0, <1>F, <2>1, <2>2, OverFrame
  <1>5. ASSUME NEW c \in Clients, Respond(c) PROVE KeepsOver
    <2>1. LeavesOver(c)
      BY <1>0, <1>F, <1>S, <1>5 DEF Respond, LeavesOver, Over
    <2> QED BY <1>0, <1>F, <1>5, <2>1, OverFrame DEF Respond
  <1>6. ASSUME NEW c \in Clients, UploadOpen(c) PROVE KeepsOver
    <2>1. PICK a, op :
            /\ a \in sync[c].acts
            /\ sync' = [sync EXCEPT ![c].acts = @ \ {a}, ![c].op = op]
      BY <1>6 DEF UploadOpen
    <2>2. LeavesOver(c)
      BY <1>0, <1>F, <1>S, <1>6, <2>1 DEF UploadOpen, LeavesOver, Over, Acting
    <2> QED BY <1>0, <1>F, <2>1, <2>2, OverFrame
  <1>7. ASSUME NEW c \in Clients, UploadCreate(c) PROVE KeepsOver
    <2>1. LeavesOver(c)
      BY <1>0, <1>F, <1>S, <1>7 DEF UploadCreate, LeavesOver, Over
    <2> QED BY <1>0, <1>F, <1>7, <2>1, OverFrame DEF UploadCreate
  <1>8. ASSUME NEW c \in Clients, UploadCopy(c) PROVE KeepsOver
    <2>1. LeavesOver(c)
      BY <1>0, <1>F, <1>S, <1>8 DEF UploadCopy, LeavesOver, Over
    <2> QED BY <1>0, <1>F, <1>8, <2>1, OverFrame DEF UploadCopy
  <1>9. ASSUME NEW c \in Clients, DownloadCreate(c) PROVE KeepsOver
    <2>1. PICK a, op :
            /\ a \in sync[c].acts
            /\ sync' = [sync EXCEPT ![c].acts = @ \ {a}, ![c].op = op]
      BY <1>9 DEF DownloadCreate
    <2>2. LeavesOver(c)
      BY <1>0, <1>F, <1>S, <1>9, <2>1 DEF DownloadCreate, LeavesOver, Over, Acting
    <2> QED BY <1>0, <1>F, <2>1, <2>2, OverFrame
  <1>10. ASSUME NEW c \in Clients, DownloadCopy(c) PROVE KeepsOver
    <2>1. LeavesOver(c)
      BY <1>0, <1>F, <1>S, <1>10 DEF DownloadCopy, LeavesOver, Over
    <2> QED BY <1>0, <1>F, <1>10, <2>1, OverFrame DEF DownloadCopy
  <1>11. ASSUME NEW c \in Clients, ActionMkDir(c) PROVE KeepsOver
    <2>1. LeavesOver(c)
      BY <1>0, <1>F, <1>S, <1>11 DEF ActionMkDir, LeavesOver, Over, Acting
    <2> QED BY <1>0, <1>F, <1>11, <2>1, OverFrame DEF ActionMkDir
  <1>12. ASSUME NEW c \in Clients, CreateDirectorySnapshot(c) PROVE KeepsOver
    <2>1. LeavesOver(c)
      BY <1>0, <1>F, <1>S, <1>12 DEF CreateDirectorySnapshot, LeavesOver, Over, Acting
    <2> QED BY <1>0, <1>F, <1>12, <2>1, OverFrame DEF CreateDirectorySnapshot
  <1>13. ASSUME NEW c \in Clients, TransferFail(c) PROVE KeepsOver
    <2>1. LeavesOver(c)
      BY <1>0, <1>F, <1>S, <1>13 DEF TransferFail, LeavesOver, Over
    <2> QED BY <1>0, <1>F, <1>13, <2>1, OverFrame DEF TransferFail
  <1>14. ASSUME NEW c \in Clients, Kill(c) PROVE KeepsOver
    <2>1. PICK pc \in {"orphan", "idle"} :
            sync' = [sync EXCEPT ![c].pc = pc, ![c].acts = {},
                                 ![c].op = IF @.step = "copy" THEN @ ELSE NoOp]
      BY <1>14 DEF Kill
    <2>2. /\ sync'[c].pc = pc
          /\ sync'[c].op = IF sync[c].op.step = "copy" THEN sync[c].op ELSE NoOp
          /\ \A d \in Clients \ {c} : sync'[d] = sync[d]
      BY <1>0, <1>F, <2>1
    <2>3. LeavesOver(c)
      BY <1>S, <2>1, <2>2 DEF LeavesOver, Over
    <2> QED BY <2>2, <2>3, OverFrame
  <1>15. ASSUME NEW c \in Clients, KillInSnapshot(c) PROVE KeepsOver
    <2>1. LeavesOver(c)
      BY <1>0, <1>F, <1>S, <1>15 DEF KillInSnapshot, LeavesOver, Over, Acting
    <2> QED BY <1>0, <1>F, <1>15, <2>1, OverFrame DEF KillInSnapshot
  <1>20. ASSUME NEW c \in Clients, HandlerFail(c) PROVE KeepsOver
    <2>1. LeavesOver(c)
      BY <1>0, <1>F, <1>S, <1>20 DEF HandlerFail, HandlerEnds, Handling, LeavesOver, Over
    <2> QED BY <1>0, <1>F, <1>20, <2>1, OverFrame DEF HandlerFail, HandlerEnds
  <1>16. ASSUME NEW c \in Clients, Edit(c) \/ NewDir(c) PROVE KeepsOver
    BY <1>16 DEF Edit, NewDir, UserStep, KeepsOver, LeavesOver, LetGo, Over
  <1>17. ASSUME NEW c \in Clients, Delete(c) PROVE KeepsOver
    <2>1. /\ sync' = [sync EXCEPT ![c] = sync'[c]]
          /\ \/ sync'[c] = sync[c]
             \/ /\ sync[c].op.step = "fetch"
                /\ sync'[c] = [sync[c] EXCEPT !.op = [@ EXCEPT !.linked = FALSE]]
      BY <1>0, <1>17 DEF Delete, UserStep
    <2>2. sync'[c].pc = sync[c].pc /\ sync'[c].op.step = sync[c].op.step
      BY <1>F, <2>1, TransferWith DEF Transfer, NoOp
    <2> QED BY <1>0, <2>1, <2>2 DEF KeepsOver, LeavesOver, LetGo, Over
  <1>18. CASE Publish \/ Tick
    BY <1>18 DEF Publish, Tick, KeepsOver, LeavesOver, LetGo, Over
  <1>19. CASE PublishFail
    <2>1. PICK m \in unsent :
            \/ sync' = sync
            \/ /\ sync[m.client].pc \in {"handling", "orphan"}
               /\ sync' = [sync EXCEPT ![m.client].pc = "idle",
                                       ![m.client].todo = {}, ![m.client].acts = {}]
      BY <1>19 DEF PublishFail, HandlerEnds
    <2>2. m.client \in Clients /\ Publishing(m.client)
      BY DEF TypeOK, Message, Publishing
    <2>3. sync[m.client].op.step = "none"
      BY <2>2 DEF ShapeInv
    <2>4. LeavesOver(m.client)
      BY <1>0, <1>F, <1>S, <2>1, <2>2, <2>3 DEF LeavesOver, Over
    <2> QED BY <1>0, <1>F, <2>1, <2>2, <2>4, OverFrame
  <1> QED
    BY <1>1, <1>2, <1>3, <1>4, <1>5, <1>6, <1>7, <1>8, <1>9, <1>10, <1>11, <1>12,
       <1>13, <1>14, <1>15, <1>16, <1>17, <1>18, <1>19, <1>20
    DEF Going, RunStep, HandlerStep, ActionStep, Failure, User

\* A run that is idle does nothing.
LEMMA IdleRests ==
  ASSUME TypeOK, ShapeInv, NEW c \in Clients, RunStep(c)
  PROVE  sync[c].pc # "idle"
  BY DEF ShapeInv, Shape, RunStep, HandlerStep, ActionStep, PostSnapshot, HandleSnapshot,
         HandleRemove, HandleDirectory, Respond, UploadOpen, UploadCreate, UploadCopy,
         DownloadCreate, DownloadCopy, ActionMkDir, CreateDirectorySnapshot, Handling, Acting

LEMMA InitPrograms == ~AtOnce /\ StartInit => ProgramInv
  BY InitShape DEF StartInit, Init, ProgramInv, LetGo, Phased, Over, NoOp

\* Then no clientsync is at work beside a consumer.
Apart == UNCHANGED <<now, server, shot, sync, unsent, edits, syncs, faults, calm>>

LEMMA ConsumersStayApart ==
  ASSUME ProgramInv, NEW c \in Clients,
         PurgeQueue(c) \/ Bind(c) \/ Receive(c) \/ Fetch(c)
  PROVE  Apart
  <1>1. CASE Receive(c)
    <2>1. sync[c].op.step # "fetch"
      BY <1>1 DEF ProgramInv, LetGo, Phased, Over, Receive
    <2> QED BY <1>1, <2>1 DEF Receive, UnlinkDownload, Apart
  <1>2. CASE PurgeQueue(c) \/ Bind(c) \/ Fetch(c)
    BY <1>2 DEF PurgeQueue, Bind, Fetch, Apart
  <1> QED BY <1>1, <1>2

LEMMA NextPrograms ==
  StartInv /\ ProgramInv /\ [StartNext]_allVars => ProgramInv'
  <1> SUFFICES ASSUME StartInv, ProgramInv, [StartNext]_allVars PROVE ProgramInv'
    OBVIOUS
  <1>0. /\ TypeOK /\ ~AtOnce /\ ShapeInv /\ LetGo /\ Phased
        /\ DOMAIN phase = Clients /\ DOMAIN fetching = Clients /\ DOMAIN sync = Clients
    BY DEF StartInv, ProgramInv, TypeOK, StartTypeOK
  <1>1. ShapeInv'
    <2>1. CASE [Next]_vars
      BY <1>0, <2>1, NextShape
    <2>2. CASE Beside
      BY <1>0, <2>2, BesideRuns DEF Beside, ShapeInv, Shape, Publishing
    <2> QED BY <2>1, <2>2, StartSteps
  <1>2. ASSUME NEW c \in Clients, Start(c) PROVE LetGo' /\ Phased'
    <2>1. /\ sync'[c].pc = "started"
          /\ \A d \in Clients \ {c} : sync'[d] = sync[d]
          /\ \A d \in Clients \ {c} : phase'[d] = phase[d]
          /\ phase'[c] = "syncing" /\ phase[c] = "off" /\ fetching' = fetching
      <3>1. sync[c] \in [pc : PCs, final : {sync[c].final}, todo : SUBSET Effect,
                        acts : SUBSET Action, op : Transfer]
        BY <1>0 DEF TypeOK, IsRun
      <3> QED BY <1>0, <1>2, <3>1 DEF Start, SyncStart
    <2>2. LetGo'
      BY <1>0, <2>1 DEF LetGo, Over
    <2>3. Phased'
      BY <1>0, <2>1 DEF Phased
    <2> QED BY <2>2, <2>3
  <1>3. ASSUME NEW c \in Clients, PurgeQueue(c) PROVE LetGo' /\ Phased'
    <2>1. LetGo'
      BY <1>0, <1>3 DEF PurgeQueue, LetGo, Over
    <2>2. Phased'
      BY <1>0, <1>3 DEF PurgeQueue, Phased, Over
    <2> QED BY <2>1, <2>2
  <1>4. ASSUME NEW c \in Clients, Bind(c) PROVE LetGo' /\ Phased'
    <2>1. LetGo'
      BY <1>0, <1>4 DEF Bind, LetGo, Over
    <2>2. Phased'
      BY <1>0, <1>4 DEF Bind, Phased, Over
    <2> QED BY <2>1, <2>2
  <1>5. ASSUME NEW c \in Clients, Receive(c) PROVE LetGo' /\ Phased'
    <2>0. sync' = sync
      BY <1>5, ConsumersStayApart DEF Apart
    <2>1. LetGo'
      BY <1>0, <2>0 DEF LetGo, Over
    <2>2. /\ sync' = sync /\ phase' = phase /\ phase[c] = "live"
          /\ \A d \in Clients \ {c} : fetching'[d] = fetching[d]
      BY <1>0, <1>5, <2>0 DEF Receive
    <2>3. Phased'
      BY <1>0, <2>2 DEF Phased, Over
    <2> QED BY <2>1, <2>3
  <1>6. ASSUME NEW c \in Clients, Fetch(c) PROVE LetGo' /\ Phased'
    <2>1. LetGo'
      BY <1>0, <1>6 DEF Fetch, LetGo, Over
    <2>2. Phased'
      BY <1>0, <1>6 DEF Fetch, Phased, Over
    <2> QED BY <2>1, <2>2
  <1>7. ASSUME NEW c \in Clients, Stop(c) PROVE LetGo' /\ Phased'
    <2>1. LetGo'
      BY <1>0, <1>7 DEF Stop, vars, LetGo, Over
    <2>2. Phased'
      BY <1>0, <1>7 DEF Stop, vars, Phased, Over
    <2> QED BY <2>1, <2>2
  <1>8. ASSUME Going, UNCHANGED <<phase, fetching>> PROVE LetGo' /\ Phased'
    <2>1. KeepsOver
      BY <1>0, <1>8, GoingKeepsOver
    <2> QED BY <1>0, <1>8, <2>1 DEF KeepsOver, LeavesOver, LetGo, Phased
  <1>9. ASSUME UNCHANGED allVars PROVE LetGo' /\ Phased'
    BY <1>0, <1>9 DEF allVars, vars, startVars, LetGo, Phased, Over
  <1>10. ASSUME NEW c \in Clients, SyncStep(c) \/ RunFails(c) \/ UserActs(c)
         PROVE  Going /\ UNCHANGED <<phase, fetching>>
    BY <1>10 DEF SyncStep, RunFails, UserActs, Going, startVars
  <1>11. Announcing \/ AnnouncingFails \/ TimePasses
           => Going /\ UNCHANGED <<phase, fetching>>
    BY DEF Announcing, AnnouncingFails, TimePasses, Going, startVars
  <1>12. LetGo' /\ Phased'
    <2>1. CASE \E c \in Clients :
                 Start(c) \/ PurgeQueue(c) \/ Bind(c) \/ Receive(c) \/ Fetch(c) \/ Stop(c)
      BY <1>2, <1>3, <1>4, <1>5, <1>6, <1>7, <2>1
    <2>2. CASE \E c \in Clients : SyncStep(c) \/ RunFails(c) \/ UserActs(c)
      BY <1>8, <1>10, <2>2
    <2>3. CASE Announcing \/ AnnouncingFails \/ TimePasses
      BY <1>8, <1>11, <2>3
    <2> QED BY <1>9, <2>1, <2>2, <2>3 DEF StartNext
  <1> QED BY <1>0, <1>1, <1>12 DEF ProgramInv

-----------------------------------------------------------------------------
(* What a consumer does to its directory.                                   *)

\* What a consumer creates, removes or fills leaves a directory: nothing exists
\* without the directories above it.
LEMMA NextStartTrees ==
  ASSUME TypeOK, StartTypeOK, ProgramInv, TreesInv, [StartNext]_allVars
  PROVE  TreesInv'
  <1>0. /\ DOMAIN local = Clients /\ now \in Nat /\ Empty \in Body
        /\ Sound(server) /\ \A d \in Clients : Sound(local[d])
    BY DEF TypeOK, TreesInv, TreesSound, Body
  <1>1. ASSUME Apart, \A d \in Clients : Sound(local'[d]) PROVE TreesInv'
    BY <1>0, <1>1 DEF Apart, TreesInv, TreesSound, SnapshotClosed
  <1>2. ASSUME NEW c \in Clients, PurgeQueue(c) \/ Bind(c) PROVE TreesInv'
    BY <1>0, <1>1, <1>2, ConsumersStayApart DEF PurgeQueue, Bind
  <1>3. ASSUME NEW c \in Clients, Receive(c) PROVE TreesInv'
    <2>1. PICK m : m = Head(queue[c])
      OBVIOUS
    <2>2. m.path \in Paths
      <3>1. queue[c] \in Seq(Message) /\ queue[c] # <<>>
        BY <1>3 DEF TypeOK, Receive
      <3>2. m \in Message
        BY <2>1, <3>1
      <3> QED BY <3>2 DEF Message
    <2>3. \/ local' = local
          \/ m.path \in Files
               /\ local' = [local EXCEPT ![c] = CreateFile(@, m.path, Empty, now)]
          \/ m.path \in Dirs /\ local' = [local EXCEPT ![c] = MkDir(@, m.path, now)]
          \/ local' = [local EXCEPT ![c] = Rm(@, m.path, now)]
      BY <1>3, <2>1 DEF Receive
    <2>4. /\ m.path \in Files => Sound(CreateFile(local[c], m.path, Empty, now))
          /\ m.path \in Dirs => Sound(MkDir(local[c], m.path, now))
          /\ Sound(Rm(local[c], m.path, now))
      BY <1>0, <2>2, CreateFileSound, MkDirSound, RmSound
    <2> QED BY <1>0, <1>1, <1>3, <2>3, <2>4, ConsumersStayApart
  <1>4. ASSUME NEW c \in Clients, Fetch(c) PROVE TreesInv'
    <2>1. PICK body :
            /\ body = IF fetching[c] \in DOMAIN server THEN server[fetching[c]].body
                                                       ELSE ErrorPage
            /\ local' = [local EXCEPT ![c] = FillFile(@, fetching[c], body, now)]
      BY <1>4 DEF Fetch
    <2>2. body \in Body
      BY <2>1 DEF TypeOK, IsTree, Entry, Body
    <2>3. fetching[c] \in Files
      BY <1>4 DEF Fetch, StartTypeOK
    <2>4. Sound(FillFile(local[c], fetching[c], body, now))
      BY <1>0, <2>2, <2>3, FillFileSound
    <2> QED BY <1>0, <1>1, <1>4, <2>1, <2>4, ConsumersStayApart
  <1>5. CASE \A c \in Clients : ~(PurgeQueue(c) \/ Bind(c) \/ Receive(c) \/ Fetch(c))
    <2>1. [Next]_vars
      BY <1>5, OthersAreSteps DEF allVars, vars
    <2> QED BY <2>1, NextTrees
  <1> QED BY <1>2, <1>3, <1>4, <1>5

-----------------------------------------------------------------------------
(* What is under way, and what a run's step does at the server.             *)

\* What is under way is what the runs and the publishers hold.
LEMMA UnderWayStays ==
  ASSUME unsent' = unsent,
         \A c \in Clients :
           /\ sync'[c].op.step = "copy" <=> sync[c].op.step = "copy"
           /\ sync[c].op.step = "copy" => sync'[c].op.path = sync[c].op.path
  PROVE  UnderWay' = UnderWay
  BY DEF UnderWay

\* One more effect that has not been announced.
LEMMA UnderWayGrows ==
  ASSUME NEW m, unsent' = unsent \cup {m},
         \A c \in Clients :
           /\ sync'[c].op.step = "copy" <=> sync[c].op.step = "copy"
           /\ sync[c].op.step = "copy" => sync'[c].op.path = sync[c].op.path
  PROVE  UnderWay' = UnderWay \cup {m}
  BY DEF UnderWay

\* What an effect that is announced by m has made of the server's directory: an
\* upload's file is made first and filled and announced later.
Serves(m) ==
  /\ \A p \in Paths \ Told(m) : p \in DOMAIN server <=> p \in DOMAIN server'
  /\ \A p \in Files \cap DOMAIN server \cap DOMAIN server' :
       p # m.path => server'[p] = server[p]
  /\ \/ m \in UnderWay /\ DOMAIN server' = DOMAIN server
     \/ \A p \in Told(m) : m.event = "CREATE" <=> p \in DOMAIN server'

\* What another client's run is left with.
Spares(c, S) ==
  /\ sync'[c].pc = sync[c].pc /\ sync'[c].final = sync[c].final
  /\ sync'[c].todo = sync[c].todo /\ sync'[c].acts = sync[c].acts
  /\ sync'[c].op.step = sync[c].op.step /\ sync'[c].op.path = sync[c].op.path
  /\ sync'[c].op.body = sync[c].op.body
  /\ \/ sync'[c].op.linked = sync[c].op.linked
     \/ sync[c].op.step = "copy" /\ sync[c].op.path \in S

\* A run nothing happened to is spared.
LEMMA SparesSame ==
  ASSUME NEW c, sync'[c] = sync[c], NEW S
  PROVE  Spares(c, S)
  BY DEF Spares

\* An upload whose file another client removes writes on: only the link is gone.
LEMMA UnlinkSpares ==
  ASSUME TypeOK, NEW S, NEW c \in Clients, sync'[c] = Unlink("copy", S)[c]
  PROVE  Spares(c, S)
  <1>1. sync[c] \in [pc : PCs, final : {sync[c].final}, todo : SUBSET Effect,
                     acts : SUBSET Action, op : Transfer]
    BY DEF TypeOK, IsRun
  <1>2. CASE sync[c].op.step = "copy" /\ sync[c].op.path \in S
    <2>1. sync'[c] = [sync[c] EXCEPT !.op = [sync[c].op EXCEPT !.linked = FALSE]]
      BY <1>1, <1>2 DEF Unlink
    <2>2. sync[c].op \in [step : {"post", "copy", "fetch"}, path : Paths, body : Body,
                          linked : BOOLEAN]
      BY <1>1, <1>2 DEF Transfer, NoOp
    <2>3. PICK op : op = [sync[c].op EXCEPT !.linked = FALSE]
      OBVIOUS
    <2>4. op.step = sync[c].op.step /\ op.path = sync[c].op.path /\ op.body = sync[c].op.body
      BY <2>2, <2>3
    <2>5. /\ sync'[c].op = op
          /\ sync'[c].pc = sync[c].pc /\ sync'[c].final = sync[c].final
          /\ sync'[c].todo = sync[c].todo /\ sync'[c].acts = sync[c].acts
      BY <1>1, <2>1, <2>3
    <2> QED BY <1>2, <2>4, <2>5 DEF Spares
  <1>3. CASE ~(sync[c].op.step = "copy" /\ sync[c].op.path \in S)
    <2>1. sync'[c] = sync[c]
      BY <1>3 DEF Unlink
    <2> QED BY <2>1, SparesSame
  <1> QED BY <1>2, <1>3

\* A step of a run does nothing to the server, or one effect it announces.
RunQuiet(d) == /\ UnderWay' = UnderWay /\ unsent' = unsent /\ server' = server
               /\ \A c \in Clients \ {d} : sync'[c] = sync[c]

RunTells(d, m) ==
  /\ m.client = d /\ UnderWay' = UnderWay \cup {m} /\ unsent' \subseteq unsent \cup {m}
  /\ Serves(m)
  /\ \A c \in Clients \ {d} : Spares(c, Told(m))

\* One step of a run has at most one effect at the server, and announces that one:
\* a handler when it publishes, an upload when it has been copied.
LEMMA RunEffect ==
  ASSUME TypeOK, ShapeInv, TreesInv, NEW d \in Clients, RunStep(d)
  PROVE  RunQuiet(d) \/ \E m \in Message : RunTells(d, m)
  <1>0. /\ DOMAIN sync = Clients /\ now \in Nat /\ NoOp.step = "none" /\ IsTree(server)
    BY DEF TypeOK, NoOp
  <1>F. \A c \in Clients :
          sync[c] \in [pc : PCs, final : {sync[c].final}, todo : SUBSET Effect,
                      acts : SUBSET Action, op : Transfer]
    BY DEF TypeOK, IsRun
  <1>K. Kinds(sync[d]) /\ Sound(server)
    BY DEF TreesInv, TreesSound
  <1>S. Shape(sync[d])
    BY DEF ShapeInv
  <1>1. ASSUME unsent' = unsent, server' = server, NEW q, sync' = [sync EXCEPT ![d] = q],
               q.op.step = "copy" <=> sync[d].op.step = "copy",
               q.op.step = "copy" => q.op.path = sync[d].op.path
        PROVE  RunQuiet(d)
    <2>1. sync'[d] = q /\ \A c \in Clients \ {d} : sync'[c] = sync[c]
      BY <1>0, <1>1
    <2>3. \A c \in Clients :
            /\ sync'[c].op.step = "copy" <=> sync[c].op.step = "copy"
            /\ sync[c].op.step = "copy" => sync'[c].op.path = sync[c].op.path
      BY <1>1, <2>1
    <2>4. UnderWay' = UnderWay
      BY <1>1, <2>3, UnderWayStays
    <2> QED BY <1>1, <2>1, <2>4 DEF RunQuiet
  <1>2. CASE PostSnapshot(d)
    <2>1. PICK f : /\ sync' = [sync EXCEPT ![d].pc = "posted", ![d].final = f]
                   /\ unsent' = unsent /\ server' = server
      BY <1>2 DEF PostSnapshot
    <2>2. PICK q : q = [sync[d] EXCEPT !.pc = "posted", !.final = f]
      OBVIOUS
    <2>3. sync' = [sync EXCEPT ![d] = q] /\ q.op = sync[d].op
      BY <1>0, <1>F, <2>1, <2>2
    <2> QED BY <1>1, <2>1, <2>3
  <1>3. CASE HandleSnapshot(d)
    <2>1. PICK E, A : /\ sync' = [sync EXCEPT ![d].pc = "handling", ![d].todo = E, ![d].acts = A]
                      /\ unsent' = unsent /\ server' = server
      BY <1>3 DEF HandleSnapshot
    <2>2. PICK q : q = [sync[d] EXCEPT !.pc = "handling", !.todo = E, !.acts = A]
      OBVIOUS
    <2>3. sync' = [sync EXCEPT ![d] = q] /\ q.op = sync[d].op
      BY <1>0, <1>F, <2>1, <2>2
    <2> QED BY <1>1, <2>1, <2>3
  <1>4. CASE HandleRemove(d)
    <2>1. PICK e \in sync[d].todo :
            /\ server' = Rm(server, e.path, now)
            /\ sync' = [Unlink("copy", Subtree(e.path)) EXCEPT ![d].todo = @ \ {e}]
            /\ unsent' = unsent \cup {[client |-> d, event |-> "REMOVE", path |-> e.path]}
      BY <1>4 DEF HandleRemove, Announce
    <2>2. PICK m : m = [client |-> d, event |-> "REMOVE", path |-> e.path]
      OBVIOUS
    <2>3. /\ m \in Message /\ m.client = d /\ unsent' = unsent \cup {m}
          /\ Told(m) = Subtree(e.path) /\ m.event # "CREATE" /\ e.path \in Paths
      BY <1>F, <2>1, <2>2 DEF Message, Effect, Told
    <2>4. PICK u : u = Unlink("copy", Subtree(e.path))
      OBVIOUS
    <2>5. /\ DOMAIN u = Clients /\ IsRun(u[d])
          /\ \A c \in Clients : u[c].op.step = sync[c].op.step /\ u[c].op.path = sync[c].op.path
      BY <2>4, UnlinkRuns DEF TypeOK, Unlink
    <2>6. /\ \A c \in Clients \ {d} : sync'[c] = u[c]
          /\ sync'[d].op = u[d].op
      BY <2>1, <2>4, <2>5 DEF IsRun
    <2>7. UnderWay' = UnderWay \cup {m}
      <3>1. \A c \in Clients :
              sync'[c].op.step = sync[c].op.step /\ sync'[c].op.path = sync[c].op.path
        BY <2>5, <2>6
      <3> QED BY <2>3, <3>1, UnderWayGrows
    <2>8. \A c \in Clients \ {d} : Spares(c, Told(m))
      BY <2>3, <2>4, <2>6, UnlinkSpares
    <2>9. Serves(m)
      <3>1. DOMAIN server' = DOMAIN server \ Subtree(e.path)
        BY <1>0, <2>1, RmTree
      <3>2. KeepsApartFrom({}, server, server')
        BY <1>0, <2>1, RmKeeps
      <3> QED BY <2>3, <3>1, <3>2 DEF Serves, KeepsApartFrom, Files
    <2> QED BY <2>3, <2>7, <2>8, <2>9 DEF RunTells
  <1>5. CASE HandleDirectory(d)
    <2>1. PICK e \in sync[d].todo :
            /\ e.act = "create"
            /\ server' = MkDir(server, e.path, now)
            /\ sync' = [sync EXCEPT ![d].todo = @ \ {e}]
            /\ unsent' = unsent \cup {[client |-> d, event |-> "CREATE", path |-> e.path]}
      BY <1>5 DEF HandleDirectory, Announce
    <2>2. PICK m : m = [client |-> d, event |-> "CREATE", path |-> e.path]
      OBVIOUS
    <2>3. /\ m \in Message /\ m.client = d /\ unsent' = unsent \cup {m}
          /\ Told(m) = {e.path} \cup Above(e.path) /\ m.event = "CREATE"
          /\ e.path \in Paths /\ e.path \in Dirs
      BY <1>F, <1>K, <2>1, <2>2 DEF Message, Effect, Told, Kinds
    <2>4. (\A c \in Clients \ {d} : sync'[c] = sync[c]) /\ sync'[d].op = sync[d].op
      BY <1>0, <1>F, <2>1
    <2>5. UnderWay' = UnderWay \cup {m}
      BY <2>3, <2>4, UnderWayGrows
    <2>6. Serves(m)
      <3>1. DOMAIN server' = DOMAIN server \cup {e.path} \cup Above(e.path)
        BY <1>0, <2>1, <2>3, MkDirTree
      <3>2. KeepsApartFrom({}, server, server')
        BY <1>0, <2>1, <2>3, MkDirKeeps
      <3> QED BY <2>3, <3>1, <3>2 DEF Serves, KeepsApartFrom, Files
    <2> QED BY <2>3, <2>4, <2>5, <2>6, SparesSame DEF RunTells
  <1>6. CASE Respond(d)
    <2>1. PICK pc : /\ sync' = [sync EXCEPT ![d].pc = pc]
                    /\ unsent' = unsent /\ server' = server
      BY <1>6 DEF Respond
    <2>2. PICK q : q = [sync[d] EXCEPT !.pc = pc]
      OBVIOUS
    <2>3. sync' = [sync EXCEPT ![d] = q] /\ q.op = sync[d].op
      BY <1>0, <1>F, <2>1, <2>2
    <2> QED BY <1>1, <2>1, <2>3
  <1>7. CASE UploadOpen(d) \/ DownloadCreate(d)
    <2>1. PICK a, op : /\ sync' = [sync EXCEPT ![d].acts = @ \ {a}, ![d].op = op]
                       /\ op.step # "copy" /\ sync[d].op = NoOp
                       /\ unsent' = unsent /\ server' = server
      <3>1. CASE UploadOpen(d)
        <4>1. PICK a \in sync[d].acts :
                sync' = [sync EXCEPT ![d].acts = @ \ {a},
                                     ![d].op = IF a.path \in DOMAIN local[d]
                                                 THEN [step |-> "post", path |-> a.path,
                                                       body |-> local[d][a.path].body,
                                                       linked |-> TRUE]
                                                 ELSE NoOp]
          BY <3>1 DEF UploadOpen
        <4>2. PICK op : op = IF a.path \in DOMAIN local[d]
                               THEN [step |-> "post", path |-> a.path,
                                     body |-> local[d][a.path].body, linked |-> TRUE]
                               ELSE NoOp
          OBVIOUS
        <4>3. op.step # "copy"
          BY <1>0, <4>2
        <4>4. sync' = [sync EXCEPT ![d].acts = @ \ {a}, ![d].op = op]
          BY <4>1, <4>2
        <4> QED BY <3>1, <4>3, <4>4 DEF UploadOpen, Acting
      <3>2. CASE DownloadCreate(d)
        <4>1. PICK a \in sync[d].acts :
                sync' = [sync EXCEPT ![d].acts = @ \ {a},
                                     ![d].op = [step |-> "fetch", path |-> a.path,
                                                body |-> Empty, linked |-> TRUE]]
          BY <3>2 DEF DownloadCreate
        <4>2. PICK op : op = [step |-> "fetch", path |-> a.path, body |-> Empty,
                              linked |-> TRUE]
          OBVIOUS
        <4>3. op.step # "copy" /\ sync' = [sync EXCEPT ![d].acts = @ \ {a}, ![d].op = op]
          BY <4>1, <4>2
        <4> QED BY <3>2, <4>3 DEF DownloadCreate, Acting
      <3> QED BY <1>7, <3>1, <3>2
    <2>2. PICK q : q = [sync[d] EXCEPT !.acts = @ \ {a}, !.op = op]
      OBVIOUS
    <2>3. sync' = [sync EXCEPT ![d] = q] /\ q.op = op
      BY <1>0, <1>F, <2>1, <2>2
    <2>4. q.op.step # "copy" /\ sync[d].op.step # "copy"
      BY <1>0, <2>1, <2>3
    <2> QED BY <1>1, <2>1, <2>3, <2>4
  <1>8. CASE UploadCreate(d)
    <2>1. PICK x : x = sync[d].op.path
      OBVIOUS
    <2>2. PICK m : m = [client |-> d, event |-> "CREATE", path |-> x]
      OBVIOUS
    <2>3. /\ sync[d].op.step = "post" /\ sync' = [sync EXCEPT ![d].op.step = "copy"]
          /\ server' = CreateFile(server, x, Empty, now) /\ unsent' = unsent
          /\ x \in Files /\ x \in Paths
      BY <1>8, <1>K, <2>1 DEF UploadCreate, Kinds, Files
    <2>4. /\ m \in Message /\ m.client = d /\ m.event = "CREATE" /\ m.path = x
          /\ Told(m) = {x} \cup Above(x)
      BY <2>2, <2>3 DEF Message, Told
    <2>5. /\ \A c \in Clients \ {d} : sync'[c] = sync[c]
          /\ sync'[d].op.step = "copy" /\ sync'[d].op.path = x
      BY <1>0, <1>F, <2>1, <2>3, TransferWith
    <2>6. UnderWay' = UnderWay \cup {m}
      BY <2>2, <2>3, <2>5 DEF UnderWay
    <2>7. Serves(m)
      <3>1. /\ DOMAIN server' = DOMAIN server \cup {x} \cup Above(x)
            /\ KeepsApartFrom({x}, server, server')
        BY <1>0, <1>K, <2>3, CreateEmpty
      <3> QED BY <2>4, <3>1 DEF Serves, KeepsApartFrom, Files
    <2> QED BY <2>3, <2>4, <2>5, <2>6, <2>7, SparesSame DEF RunTells
  <1>9. CASE UploadCopy(d)
    <2>1. PICK x : x = sync[d].op.path
      OBVIOUS
    <2>2. PICK m : m = [client |-> d, event |-> "CREATE", path |-> x]
      OBVIOUS
    <2>3. /\ sync[d].op.step = "copy" /\ sync' = [sync EXCEPT ![d].op = NoOp]
          /\ server' = server \/ server' = FillFile(server, x, sync[d].op.body, now)
          /\ unsent' = unsent \cup {m}
          /\ x \in Files /\ x \in Paths
      BY <1>9, <1>K, <2>1, <2>2 DEF UploadCopy, Kinds, Announce, Files
    <2>4. /\ m \in Message /\ m.client = d /\ m.path = x /\ m \in UnderWay
      BY <2>1, <2>2, <2>3 DEF Message, UnderWay
    <2>5. /\ \A c \in Clients \ {d} : sync'[c] = sync[c]
          /\ sync'[d].op = NoOp
      BY <1>0, <1>F, <2>3
    <2>6. UnderWay' = UnderWay \cup {m}
      BY <1>0, <2>1, <2>2, <2>3, <2>5 DEF UnderWay
    <2>7. Serves(m)
      <3>1. DOMAIN server' = DOMAIN server
        BY <2>3 DEF FillFile
      <3>2. \A p \in DOMAIN server : p # x => server'[p] = server[p]
        BY <2>3 DEF FillFile
      <3> QED BY <2>4, <3>1, <3>2 DEF Serves
    <2> QED BY <2>3, <2>4, <2>5, <2>6, <2>7, SparesSame DEF RunTells
  <1>10. CASE DownloadCopy(d)
    <2>1. PICK q : q = [sync[d] EXCEPT !.op = NoOp]
      OBVIOUS
    <2>2. sync' = [sync EXCEPT ![d] = q] /\ q.op = NoOp /\ sync[d].op.step = "fetch"
          /\ unsent' = unsent /\ server' = server
      BY <1>0, <1>F, <1>10, <2>1 DEF DownloadCopy
    <2>3. q.op.step # "copy" /\ sync[d].op.step # "copy"
      BY <1>0, <2>2
    <2> QED BY <1>1, <2>2, <2>3
  <1>11. CASE ActionMkDir(d)
    <2>1. PICK a : /\ sync' = [sync EXCEPT ![d].acts = @ \ {a}]
                   /\ unsent' = unsent /\ server' = server
      BY <1>11 DEF ActionMkDir
    <2>2. PICK q : q = [sync[d] EXCEPT !.acts = @ \ {a}]
      OBVIOUS
    <2>3. sync' = [sync EXCEPT ![d] = q] /\ q.op = sync[d].op
      BY <1>0, <1>F, <2>1, <2>2
    <2> QED BY <1>1, <2>1, <2>3
  <1>12. CASE CreateDirectorySnapshot(d)
    <2>1. PICK q : q = [sync[d] EXCEPT !.pc = "idle"]
      OBVIOUS
    <2>2. sync' = [sync EXCEPT ![d] = q] /\ q.op = sync[d].op
          /\ unsent' = unsent /\ server' = server
      BY <1>0, <1>F, <1>12, <2>1 DEF CreateDirectorySnapshot
    <2> QED BY <1>1, <2>2
  <1> QED
    BY <1>2, <1>3, <1>4, <1>5, <1>6, <1>7, <1>8, <1>9, <1>10, <1>11, <1>12
    DEF RunStep, HandlerStep, ActionStep

\* The start of a run, a failure and an edit leave what is under way alone.
LEMMA NoCopyStarts ==
  ASSUME TypeOK, NEW d \in Clients, SyncStart(d) \/ Failure(d) \/ User(d)
  PROVE  UnderWay' = UnderWay
  <1>0. DOMAIN sync = Clients /\ NoOp.step = "none"
    BY DEF TypeOK, NoOp
  <1>F. sync[d] \in [pc : PCs, final : {sync[d].final}, todo : SUBSET Effect,
                     acts : SUBSET Action, op : Transfer]
    BY DEF TypeOK, IsRun
  <1>1. ASSUME unsent' = unsent, NEW q, sync' = [sync EXCEPT ![d] = q],
               q.op.step = "copy" <=> sync[d].op.step = "copy",
               q.op.step = "copy" => q.op.path = sync[d].op.path
        PROVE  UnderWay' = UnderWay
    <2>1. \A c \in Clients :
            /\ sync'[c].op.step = "copy" <=> sync[c].op.step = "copy"
            /\ sync[c].op.step = "copy" => sync'[c].op.path = sync[c].op.path
      BY <1>0, <1>1
    <2> QED BY <1>1, <2>1, UnderWayStays
  <1>2. CASE SyncStart(d)
    <2>1. PICK q : q = [sync[d] EXCEPT !.pc = "started", !.final = NoFiles]
      OBVIOUS
    <2>2. sync' = [sync EXCEPT ![d] = q] /\ q.op = sync[d].op /\ unsent' = unsent
      BY <1>0, <1>F, <1>2, <2>1 DEF SyncStart
    <2> QED BY <1>1, <2>2
  <1>3. CASE TransferFail(d)
    <2>1. PICK q : q = [sync[d] EXCEPT !.op = NoOp]
      OBVIOUS
    <2>2. /\ sync' = [sync EXCEPT ![d] = q] /\ q.op = NoOp /\ unsent' = unsent
          /\ sync[d].op.step \in {"post", "fetch"}
      BY <1>0, <1>F, <1>3, <2>1 DEF TransferFail
    <2> QED BY <1>0, <1>1, <2>2
  <1>8. CASE HandlerFail(d)
    <2>1. PICK q : q = [sync[d] EXCEPT !.pc = "idle", !.todo = {}, !.acts = {}]
      OBVIOUS
    <2>2. sync' = [sync EXCEPT ![d] = q] /\ q.op = sync[d].op /\ unsent' = unsent
      BY <1>0, <1>F, <1>8, <2>1 DEF HandlerFail, HandlerEnds
    <2> QED BY <1>1, <2>2
  <1>4. CASE Kill(d)
    <2>1. PICK pc : /\ unsent' = unsent
                    /\ sync' = [sync EXCEPT ![d].pc = pc, ![d].acts = {},
                                            ![d].op = IF @.step = "copy" THEN @ ELSE NoOp]
      BY <1>4 DEF Kill
    <2>2. PICK q : q = [sync[d] EXCEPT !.pc = pc, !.acts = {},
                                       !.op = IF @.step = "copy" THEN @ ELSE NoOp]
      OBVIOUS
    <2>3. /\ sync' = [sync EXCEPT ![d] = q]
          /\ q.op = IF sync[d].op.step = "copy" THEN sync[d].op ELSE NoOp
      BY <1>0, <1>F, <2>1, <2>2
    <2> QED BY <1>0, <1>1, <2>1, <2>3
  <1>5. CASE KillInSnapshot(d)
    <2>1. PICK q : q = [sync[d] EXCEPT !.pc = "idle"]
      OBVIOUS
    <2>2. sync' = [sync EXCEPT ![d] = q] /\ q.op = sync[d].op /\ unsent' = unsent
      BY <1>0, <1>F, <1>5, <2>1 DEF KillInSnapshot
    <2> QED BY <1>1, <2>2
  <1>6. CASE Edit(d) \/ NewDir(d)
    BY <1>6, UnderWayStays DEF Edit, NewDir, UserStep
  <1>7. CASE Delete(d)
    <2>1. /\ sync' = [sync EXCEPT ![d] = sync'[d]] /\ unsent' = unsent
          /\ \/ sync'[d] = sync[d]
             \/ /\ sync[d].op.step = "fetch"
                /\ sync'[d] = [sync[d] EXCEPT !.op = [@ EXCEPT !.linked = FALSE]]
      BY <1>0, <1>7 DEF Delete, UserStep
    <2>2. sync'[d].op.step = sync[d].op.step /\ sync'[d].op.path = sync[d].op.path
      BY <1>F, <2>1, TransferWith DEF Transfer, NoOp
    <2> QED BY <1>1, <2>1, <2>2
  <1> QED
    BY <1>2, <1>3, <1>4, <1>5, <1>6, <1>7, <1>8 DEF Failure, User

-----------------------------------------------------------------------------
(* The run of a steady client, which others disturb: it is what a calm run  *)
(* is, apart from the paths it missed or others have been at work on.       *)

\* What client c does not know of, or will be told.
Excuse(c) == missed[c] \cup AboutOthers(c, ToSet(queue[c]) \cup UnderWay)

\* The run has not been killed, and what it has to do is what makes the two
\* directories agree, apart from the excused paths.
SteadyRun(c) ==
  /\ sync[c].pc # "orphan"
  /\ phase[c] = "syncing" => RunOf(sync[c], local[c], server, Excuse(c))

SteadyInv == \A c \in steady : SteadyRun(c)

\* The messages of others tell what any of them tells.
LEMMA AboutOthersHas ==
  ASSUME NEW c, NEW M, NEW p
  PROVE  p \in AboutOthers(c, M) <=> \E m \in M : m.client # c /\ p \in Told(m)
  BY DEF AboutOthers

\* What a queue holds after one more message.
LEMMA Appended ==
  ASSUME NEW M, NEW s \in Seq(M), NEW m \in M
  PROVE  ToSet(Append(s, m)) = ToSet(s) \cup {m}
  <1> DEFINE t == Append(s, m)
  <1>1. /\ DOMAIN s = 1..Len(s) /\ DOMAIN t = 1..(Len(s) + 1) /\ Len(s) \in Nat
        /\ \A i \in 1..Len(s) : t[i] = s[i]
        /\ t[Len(s) + 1] = m
    OBVIOUS
  <1> HIDE DEF t
  <1>2. \A x : x \in ToSet(t) <=> x \in ToSet(s) \/ x = m
    <2> SUFFICES ASSUME NEW x PROVE x \in ToSet(t) <=> x \in ToSet(s) \/ x = m
      OBVIOUS
    <2>1. x \in ToSet(t) <=> \E i \in 1..(Len(s) + 1) : x = t[i]
      BY <1>1 DEF ToSet
    <2>2. x \in ToSet(s) <=> \E i \in 1..Len(s) : x = s[i]
      BY <1>1 DEF ToSet
    <2> QED BY <1>1, <2>1, <2>2
  <1> QED BY <1>2 DEF t

\* What an excuse is.
LEMMA ExcuseHas ==
  ASSUME NEW c, NEW p
  PROVE  p \in Excuse(c) <=>
           \/ p \in missed[c]
           \/ \E m \in ToSet(queue[c]) \cup UnderWay : m.client # c /\ p \in Told(m)
  BY AboutOthersHas DEF Excuse

\* Messages stay excuses until they are told or missed.
LEMMA ExcuseGrows ==
  ASSUME NEW c, missed[c] \subseteq missed'[c],
         \A m \in ToSet(queue[c]) \cup UnderWay :
           \/ m \in ToSet(queue'[c]) \cup UnderWay'
           \/ m.client = c
           \/ Told(m) \subseteq missed'[c]
  PROVE  Excuse(c) \subseteq Excuse(c)'
  <1> SUFFICES ASSUME NEW p \in Excuse(c) PROVE p \in Excuse(c)'
    OBVIOUS
  <1>1. CASE p \in missed[c]
    BY <1>1 DEF Excuse
  <1>2. CASE \E m \in ToSet(queue[c]) \cup UnderWay : m.client # c /\ p \in Told(m)
    <2>1. PICK m \in ToSet(queue[c]) \cup UnderWay : m.client # c /\ p \in Told(m)
      BY <1>2
    <2>2. CASE Told(m) \subseteq missed'[c]
      BY <2>1, <2>2 DEF Excuse
    <2>3. CASE m \in ToSet(queue'[c]) \cup UnderWay'
      BY <2>1, <2>3 DEF Excuse, AboutOthers
    <2> QED BY <2>1, <2>2, <2>3
  <1> QED BY <1>1, <1>2, ExcuseHas

\* A run whose excuses grow by what others do to the server stays a run.
LEMMA RunElsewhere ==
  ASSUME SyncInv, NEW c \in Clients, NEW X, RunOf(sync[c], local[c], server, X),
         local'[c] = local[c], Sound(server'),
         NEW Y, X \subseteq Y, SameApartFrom(Y, server, server'), Spares(c, Y)
  PROVE  RunOf(sync'[c], local'[c], server', Y)
  <1>1. /\ Sound(local[c]) /\ Sound(server)
        /\ sync[c].todo \subseteq Effect /\ sync[c].acts \subseteq Action
        /\ sync[c].op.step # "none" => sync[c].op.path \in Files
    BY DEF SyncInv, TypeOK, IsRun, TreesInv, TreesSound, Kinds
  <1>2. Work(sync[c], local[c], server, X) => Work(sync'[c], local[c], server', Y)
    BY <1>1, WorkElsewhere DEF Spares
  <1>3. AsWalked(sync[c], local[c]) => AsWalked(sync'[c], local[c])
    BY DEF AsWalked, Spares
  <1> QED BY <1>2, <1>3 DEF RunOf, Spares

-----------------------------------------------------------------------------
(* Who publishes: a handler at work, or an upload of a run, one thing at a  *)
(* time.                                                                    *)

\* A client whose effects are being announced is in a handler or a transfer, or
\* was killed there; it has one of them at a time.
PublisherInv ==
  /\ \A m \in unsent : sync[m.client].pc \in {"handling", "acting", "orphan"}
  /\ \A m, n \in unsent : m.client = n.client => m = n

\* A client that publishes nothing new, or one thing from where it publishes.
LEMMA PublisherFrame ==
  ASSUME TypeOK, PublisherInv, NEW d \in Clients,
         \A c \in Clients \ {d} : sync'[c].pc = sync[c].pc,
         \/ unsent' \subseteq unsent
         \/ ~Publishing(d) /\ \E m : m.client = d /\ unsent' = unsent \cup {m},
         \/ sync'[d].pc = sync[d].pc /\ unsent' = unsent
         \/ sync'[d].pc \in {"handling", "acting", "orphan"}
         \/ \A m \in unsent' : m.client # d
  PROVE  PublisherInv'
  <1>1. \A m \in unsent : m.client \in Clients
    BY DEF TypeOK, Message
  <1>2. \A m \in unsent' : sync'[m.client].pc \in {"handling", "acting", "orphan"}
    <2> SUFFICES ASSUME NEW m \in unsent'
                 PROVE  sync'[m.client].pc \in {"handling", "acting", "orphan"}
      OBVIOUS
    <2>1. CASE m.client = d
      BY <2>1 DEF PublisherInv
    <2>2. CASE m.client # d
      BY <1>1, <2>2 DEF PublisherInv
    <2> QED BY <2>1, <2>2
  <1>3. \A m, n \in unsent' : m.client = n.client => m = n
    BY DEF PublisherInv, Publishing
  <1> QED BY <1>2, <1>3 DEF PublisherInv

\* No step lets a client publish twice at a time.
LEMMA NextPublisher ==
  ASSUME TypeOK, ShapeInv, PublisherInv, [Next]_vars
  PROVE  PublisherInv'
  <1>0. DOMAIN sync = Clients /\ NoOp.step = "none"
    BY DEF TypeOK, NoOp
  <1>F. \A c \in Clients :
          sync[c] \in [pc : PCs, final : {sync[c].final}, todo : SUBSET Effect,
                      acts : SUBSET Action, op : Transfer]
    BY DEF TypeOK, IsRun
  <1>P. \A c \in Clients :
          sync[c].pc \notin {"handling", "acting", "orphan"} => ~Publishing(c)
    BY DEF PublisherInv, Publishing
  <1>1. ASSUME NEW d \in Clients, unsent' = unsent, ~Publishing(d),
               NEW q, sync' = [sync EXCEPT ![d] = q]
        PROVE  PublisherInv'
    <2>1. \A c \in Clients \ {d} : sync'[c].pc = sync[c].pc
      BY <1>0, <1>1
    <2>2. \A m \in unsent' : m.client # d
      BY <1>1 DEF Publishing
    <2> QED BY <1>1, <2>1, <2>2, PublisherFrame
  <1>2. ASSUME unsent' = unsent, \A c \in Clients : sync'[c].pc = sync[c].pc
        PROVE  PublisherInv'
    <2>1. \A m \in unsent : m.client \in Clients
      BY DEF TypeOK, Message
    <2> QED BY <1>2, <2>1 DEF PublisherInv
  <1>3. ASSUME NEW c \in Clients, SyncStart(c) PROVE PublisherInv'
    <2>1. PICK q : q = [sync[c] EXCEPT !.pc = "started", !.final = NoFiles]
      OBVIOUS
    <2>2. sync' = [sync EXCEPT ![c] = q] /\ unsent' = unsent /\ ~Publishing(c)
      BY <1>0, <1>P, <1>3, <2>1 DEF SyncStart
    <2> QED BY <1>1, <2>2
  <1>4. ASSUME NEW c \in Clients, PostSnapshot(c) PROVE PublisherInv'
    <2>1. PICK f : /\ sync' = [sync EXCEPT ![c].pc = "posted", ![c].final = f]
                   /\ unsent' = unsent /\ ~Publishing(c)
      BY <1>P, <1>4 DEF PostSnapshot
    <2>2. PICK q : q = [sync[c] EXCEPT !.pc = "posted", !.final = f]
      OBVIOUS
    <2>3. sync' = [sync EXCEPT ![c] = q]
      BY <1>0, <2>1, <2>2
    <2> QED BY <1>1, <2>1, <2>3
  <1>5. ASSUME NEW c \in Clients, HandleSnapshot(c) PROVE PublisherInv'
    <2>1. PICK E, A : /\ sync' = [sync EXCEPT ![c].pc = "handling", ![c].todo = E,
                                              ![c].acts = A]
                      /\ unsent' = unsent /\ ~Publishing(c)
      BY <1>P, <1>5 DEF HandleSnapshot
    <2>2. PICK q : q = [sync[c] EXCEPT !.pc = "handling", !.todo = E, !.acts = A]
      OBVIOUS
    <2>3. sync' = [sync EXCEPT ![c] = q]
      BY <1>0, <2>1, <2>2
    <2> QED BY <1>1, <2>1, <2>3
  <1>6. ASSUME NEW c \in Clients, HandleRemove(c) PROVE PublisherInv'
    <2>1. PICK e \in sync[c].todo :
            /\ Handling(c)
            /\ sync' = [Unlink("copy", Subtree(e.path)) EXCEPT ![c].todo = @ \ {e}]
            /\ unsent' = unsent \cup {[client |-> c, event |-> "REMOVE", path |-> e.path]}
      BY <1>6 DEF HandleRemove, Announce
    <2>2. PICK u : u = Unlink("copy", Subtree(e.path))
      OBVIOUS
    <2>3. DOMAIN u = Clients /\ \A d \in Clients : IsRun(u[d]) /\ u[d].pc = sync[d].pc
      BY <2>2, UnlinkRuns DEF TypeOK, Unlink
    <2>4. \A d \in Clients : sync'[d].pc = sync[d].pc
      BY <2>1, <2>2, <2>3 DEF IsRun
    <2>5. PICK m : m = [client |-> c, event |-> "REMOVE", path |-> e.path]
      OBVIOUS
    <2>6. m.client = c /\ unsent' = unsent \cup {m}
      BY <2>1, <2>5
    <2> QED BY <2>1, <2>4, <2>6, PublisherFrame DEF Handling
  <1>7. ASSUME NEW c \in Clients, HandleDirectory(c) PROVE PublisherInv'
    <2>1. PICK e \in sync[c].todo :
            /\ Handling(c)
            /\ sync' = [sync EXCEPT ![c].todo = @ \ {e}]
            /\ unsent' = unsent \cup {[client |-> c, event |-> "CREATE", path |-> e.path]}
      BY <1>7 DEF HandleDirectory, Announce
    <2>2. \A d \in Clients : sync'[d].pc = sync[d].pc
      BY <1>0, <1>F, <2>1
    <2>3. PICK m : m = [client |-> c, event |-> "CREATE", path |-> e.path]
      OBVIOUS
    <2>4. m.client = c /\ unsent' = unsent \cup {m}
      BY <2>1, <2>3
    <2> QED BY <2>1, <2>2, <2>4, PublisherFrame DEF Handling
  <1>8. ASSUME NEW c \in Clients, Respond(c) PROVE PublisherInv'
    <2>1. PICK pc : sync' = [sync EXCEPT ![c].pc = pc] /\ unsent' = unsent /\ ~Publishing(c)
      BY <1>8 DEF Respond, Handling
    <2>2. PICK q : q = [sync[c] EXCEPT !.pc = pc]
      OBVIOUS
    <2>3. sync' = [sync EXCEPT ![c] = q]
      BY <1>0, <2>1, <2>2
    <2> QED BY <1>1, <2>1, <2>3
  <1>9. ASSUME NEW c \in Clients, UploadOpen(c) PROVE PublisherInv'
    <2>1. PICK a \in sync[c].acts :
            /\ unsent' = unsent
            /\ sync' = [sync EXCEPT ![c].acts = @ \ {a},
                                    ![c].op = IF a.path \in DOMAIN local[c]
                                                THEN [step |-> "post", path |-> a.path,
                                                      body |-> local[c][a.path].body,
                                                      linked |-> TRUE]
                                                ELSE NoOp]
      BY <1>9 DEF UploadOpen
    <2>2. \A d \in Clients : sync'[d].pc = sync[d].pc
      BY <1>0, <1>F, <2>1
    <2> QED BY <1>2, <2>1, <2>2
  <1>10. ASSUME NEW c \in Clients, UploadCreate(c) PROVE PublisherInv'
    <2>1. sync' = [sync EXCEPT ![c].op.step = "copy"] /\ unsent' = unsent
      BY <1>10 DEF UploadCreate
    <2>2. \A d \in Clients : sync'[d].pc = sync[d].pc
      BY <1>0, <1>F, <2>1
    <2> QED BY <1>2, <2>1, <2>2
  <1>11. ASSUME NEW c \in Clients, UploadCopy(c) PROVE PublisherInv'
    <2>1. PICK m : m = [client |-> c, event |-> "CREATE", path |-> sync[c].op.path]
      OBVIOUS
    <2>2. /\ sync' = [sync EXCEPT ![c].op = NoOp] /\ sync[c].op.step = "copy"
          /\ m.client = c /\ unsent' = unsent \cup {m}
      BY <1>11, <2>1 DEF UploadCopy, Announce
    <2>3. \A d \in Clients : sync'[d].pc = sync[d].pc
      BY <1>0, <1>F, <2>2
    <2>4. ~Publishing(c) /\ sync[c].pc \in {"acting", "orphan"}
      BY <2>2 DEF ShapeInv, Shape
    <2>5. sync'[c].pc \in {"handling", "acting", "orphan"}
      BY <2>3, <2>4
    <2>6. \E k : k.client = c /\ unsent' = unsent \cup {k}
      BY <2>2
    <2> QED BY <2>3, <2>4, <2>5, <2>6, PublisherFrame
  <1>12. ASSUME NEW c \in Clients, DownloadCreate(c) PROVE PublisherInv'
    <2>1. PICK a, op : /\ sync' = [sync EXCEPT ![c].acts = @ \ {a}, ![c].op = op]
                       /\ unsent' = unsent
      BY <1>12 DEF DownloadCreate
    <2>2. \A d \in Clients : sync'[d].pc = sync[d].pc
      BY <1>0, <1>F, <2>1
    <2> QED BY <1>2, <2>1, <2>2
  <1>13. ASSUME NEW c \in Clients, DownloadCopy(c) \/ TransferFail(c) PROVE PublisherInv'
    <2>1. sync' = [sync EXCEPT ![c].op = NoOp] /\ unsent' = unsent
      BY <1>13 DEF DownloadCopy, TransferFail
    <2>2. \A d \in Clients : sync'[d].pc = sync[d].pc
      BY <1>0, <1>F, <2>1
    <2> QED BY <1>2, <2>1, <2>2
  <1>14. ASSUME NEW c \in Clients, ActionMkDir(c) PROVE PublisherInv'
    <2>1. PICK a : sync' = [sync EXCEPT ![c].acts = @ \ {a}] /\ unsent' = unsent
      BY <1>14 DEF ActionMkDir
    <2>2. \A d \in Clients : sync'[d].pc = sync[d].pc
      BY <1>0, <1>F, <2>1
    <2> QED BY <1>2, <2>1, <2>2
  <1>15. ASSUME NEW c \in Clients, CreateDirectorySnapshot(c) \/ KillInSnapshot(c)
         PROVE  PublisherInv'
    <2>1. PICK q : q = [sync[c] EXCEPT !.pc = "idle"]
      OBVIOUS
    <2>2. sync' = [sync EXCEPT ![c] = q] /\ unsent' = unsent /\ ~Publishing(c)
      BY <1>0, <1>15, <2>1 DEF CreateDirectorySnapshot, KillInSnapshot, Acting
    <2> QED BY <1>1, <2>2
  <1>16. ASSUME NEW c \in Clients, Kill(c) PROVE PublisherInv'
    <2>1. PICK pc : /\ Publishing(c) => pc = "orphan"
                    /\ unsent' = unsent
                    /\ sync' = [sync EXCEPT ![c].pc = pc, ![c].acts = {},
                                            ![c].op = IF @.step = "copy" THEN @ ELSE NoOp]
      BY <1>16 DEF Kill
    <2>2. sync'[c].pc = pc /\ \A d \in Clients \ {c} : sync'[d].pc = sync[d].pc
      BY <1>0, <1>F, <2>1
    <2>3. ~Publishing(c) => \A m \in unsent' : m.client # c
      BY <2>1 DEF Publishing
    <2> QED BY <2>1, <2>2, <2>3, PublisherFrame
  <1>22. ASSUME NEW c \in Clients, HandlerFail(c) PROVE PublisherInv'
    <2>1. PICK q : q = [sync[c] EXCEPT !.pc = "idle", !.todo = {}, !.acts = {}]
      OBVIOUS
    <2>2. sync' = [sync EXCEPT ![c] = q] /\ unsent' = unsent /\ ~Publishing(c)
      BY <1>0, <1>F, <1>22, <2>1 DEF HandlerFail, HandlerEnds, Handling
    <2> QED BY <1>1, <2>2
  <1>17. ASSUME NEW c \in Clients, Edit(c) \/ NewDir(c) PROVE PublisherInv'
    BY <1>2, <1>17 DEF Edit, NewDir, UserStep
  <1>18. ASSUME NEW c \in Clients, Delete(c) PROVE PublisherInv'
    <2>1. /\ sync' = [sync EXCEPT ![c] = sync'[c]] /\ unsent' = unsent
          /\ \/ sync'[c] = sync[c]
             \/ sync'[c] = [sync[c] EXCEPT !.op = [@ EXCEPT !.linked = FALSE]]
      BY <1>0, <1>18 DEF Delete, UserStep
    <2>2. \A d \in Clients : sync'[d].pc = sync[d].pc
      BY <1>0, <1>F, <2>1
    <2> QED BY <1>2, <2>1, <2>2
  <1>19. CASE Publish
    <2>1. unsent' \subseteq unsent /\ sync' = sync
      BY <1>19 DEF Publish
    <2> QED BY <2>1 DEF PublisherInv
  <1>20. CASE PublishFail
    <2>1. PICK m \in unsent :
            /\ unsent' = unsent \ {m}
            /\ \/ sync' = sync
               \/ sync' = [sync EXCEPT ![m.client].pc = "idle",
                                       ![m.client].todo = {}, ![m.client].acts = {}]
      BY <1>20 DEF PublishFail, HandlerEnds
    <2>2. m.client \in Clients
      BY DEF TypeOK, Message
    <2>3. \A c \in Clients \ {m.client} : sync'[c].pc = sync[c].pc
      BY <1>0, <2>1, <2>2
    <2>4. \A n \in unsent' : n.client # m.client
      BY <2>1 DEF PublisherInv
    <2>5. unsent' \subseteq unsent
      BY <2>1
    <2> QED BY <2>2, <2>3, <2>4, <2>5, PublisherFrame
  <1>21. CASE Tick \/ UNCHANGED vars
    BY <1>21 DEF Tick, vars, PublisherInv
  <1> QED
    BY <1>3, <1>4, <1>5, <1>6, <1>7, <1>8, <1>9, <1>10, <1>11, <1>12, <1>13, <1>14,
       <1>15, <1>16, <1>17, <1>18, <1>19, <1>20, <1>21, <1>22
    DEF Next, RunStep, HandlerStep, ActionStep, Failure, User

-----------------------------------------------------------------------------
(* A steady client's run.                                                   *)

\* A step the run of c does not see.
LEMMA SteadyFrame ==
  ASSUME SyncInv, NEW c \in Clients, SteadyRun(c), sync'[c] = sync[c],
         phase'[c] = "syncing" =>
           /\ phase[c] = "syncing" /\ local'[c] = local[c] /\ server' = server
           /\ Excuse(c) \subseteq Excuse(c)'
  PROVE  SteadyRun(c)'
  <1>1. sync'[c].pc # "orphan"
    BY DEF SteadyRun
  <1>2. CASE phase'[c] # "syncing"
    BY <1>1, <1>2 DEF SteadyRun
  <1>3. CASE phase'[c] = "syncing"
    <2>1. PICK X : X = Excuse(c)
      OBVIOUS
    <2>2. PICK Y : Y = Excuse(c)'
      OBVIOUS
    <2>3. RunOf(sync[c], local[c], server, X) /\ X \subseteq Y
      BY <1>3, <2>1, <2>2 DEF SteadyRun
    <2>4. Sound(server') /\ local'[c] = local[c]
      BY <1>3 DEF SyncInv, TreesInv, TreesSound
    <2>5. SameApartFrom(Y, server, server')
      BY <1>3 DEF SameApartFrom
    <2>6. Spares(c, Y)
      BY SparesSame
    <2>7. RunOf(sync'[c], local'[c], server', Y)
      BY <2>3, <2>4, <2>5, <2>6, RunElsewhere
    <2> QED BY <1>1, <2>2, <2>7 DEF SteadyRun
  <1> QED BY <1>2, <1>3

\* What others' runs do, they are about to say.
LEMMA SteadyElsewhere ==
  ASSUME SyncInv, Sound(server'), NEW c \in Clients, NEW d \in Clients \ {c}, RunStep(d),
         SteadyRun(c), phase' = phase, missed' = missed, queue' = queue
  PROVE  SteadyRun(c)'
  <1>1. local'[c] = local[c]
    BY OthersAlone DEF SyncInv
  <1>2. CASE RunQuiet(d)
    <2>1. Excuse(c) \subseteq Excuse(c)'
      BY <1>2, ExcuseGrows DEF RunQuiet
    <2> QED BY <1>1, <1>2, <2>1, SteadyFrame DEF RunQuiet
  <1>3. ASSUME NEW m \in Message, RunTells(d, m) PROVE SteadyRun(c)'
    <2>1. Spares(c, Told(m)) /\ m \in UnderWay' /\ UnderWay \subseteq UnderWay' /\ m.client # c
      BY <1>3 DEF RunTells
    <2>2. CASE phase[c] # "syncing"
      BY <2>1, <2>2 DEF SteadyRun, Spares
    <2>3. CASE phase[c] = "syncing"
      <3>1. PICK X : X = Excuse(c)
        OBVIOUS
      <3>2. PICK Y : Y = Excuse(c)'
        OBVIOUS
      <3>3. X \subseteq Y
        BY <2>1, <3>1, <3>2, ExcuseGrows
      <3>4. Told(m) \subseteq Y
        BY <2>1, <3>2 DEF Excuse, AboutOthers
      <3>5. SameApartFrom(Y, server, server')
        <4>1. m.path \in Told(m)
          BY DEF Told, Subtree
        <4> QED BY <1>3, <3>4, <4>1 DEF RunTells, Serves, SameApartFrom
      <3>6. Spares(c, Y)
        BY <2>1, <3>4 DEF Spares
      <3>7. RunOf(sync[c], local[c], server, X)
        BY <2>3, <3>1 DEF SteadyRun
      <3>8. RunOf(sync'[c], local'[c], server', Y)
        BY <1>1, <3>3, <3>5, <3>6, <3>7, RunElsewhere
      <3> QED BY <3>2, <3>8 DEF SteadyRun, RunOf
    <2> QED BY <2>2, <2>3
  <1> QED BY <1>2, <1>3, RunEffect DEF SyncInv

\* What its own run does is no excuse: its own messages are discarded.
LEMMA SteadyItself ==
  ASSUME SyncInv, NEW c \in Clients, RunStep(c), SteadyRun(c),
         phase[c] = "syncing", phase' = phase, missed' = missed, queue' = queue
  PROVE  SteadyRun(c)'
  <1>1. PICK X : X = Excuse(c)
    OBVIOUS
  <1>2. RunOf(sync'[c], local'[c], server', X)
    BY <1>1, OwnStep DEF SteadyRun
  <1>3. X = Excuse(c)'
    <2>1. CASE RunQuiet(c)
      BY <1>1, <2>1 DEF RunQuiet, Excuse, AboutOthers
    <2>2. ASSUME NEW m \in Message, RunTells(c, m) PROVE X = Excuse(c)'
      BY <1>1, <2>2 DEF RunTells, Excuse, AboutOthers
    <2> QED BY <2>1, <2>2, RunEffect DEF SyncInv
  <1> QED BY <1>2, <1>3 DEF SteadyRun, RunOf

\* What a step of the broker leaves of the messages.
LEMMA PublishMoves ==
  ASSUME TypeOK, Publish
  PROVE  \E m \in unsent :
           /\ unsent' = unsent \ {m} /\ sync' = sync /\ local' = local /\ server' = server
           /\ \A c \in Clients : queue'[c] = Append(queue[c], m)
           /\ \A c \in Clients : ToSet(queue'[c]) = ToSet(queue[c]) \cup {m}
           /\ UnderWay' \subseteq UnderWay /\ UnderWay \subseteq UnderWay' \cup {m}
  <1>1. PICK m \in unsent :
          /\ unsent' = unsent \ {m} /\ sync' = sync /\ local' = local /\ server' = server
          /\ queue' = [q \in DOMAIN queue |->
                          IF q \in Listeners THEN Append(queue[q], m) ELSE queue[q]]
    BY DEF Publish
  <1>2. /\ DOMAIN queue = Clients \cup Listeners
        /\ m \in Message /\ \A c \in Clients : queue[c] \in Seq(Message)
    BY DEF TypeOK
  <1>3. \A c \in Clients : queue'[c] = Append(queue[c], m)
    BY <1>1, <1>2, EveryClientListens
  <1>4. ASSUME NEW c \in Clients PROVE ToSet(queue'[c]) = ToSet(queue[c]) \cup {m}
    <2>1. PICK s : s = queue[c]
      OBVIOUS
    <2>2. s \in Seq(Message) /\ queue'[c] = Append(s, m) /\ m \in Message
      BY <1>2, <1>3, <2>1
    <2>3. ToSet(Append(s, m)) = ToSet(s) \cup {m}
      BY <2>2, Appended
    <2> QED BY <2>1, <2>2, <2>3
  <1>5. UnderWay' \subseteq UnderWay /\ UnderWay \subseteq UnderWay' \cup {m}
    BY <1>1 DEF UnderWay
  <1> QED BY <1>1, <1>3, <1>4, <1>5

\* What a failed publication leaves of the messages: those not queued are missed.
LEMMA PublishFailLoses ==
  ASSUME TypeOK, ShapeInv, AnnouncingFails
  PROVE  \E m \in unsent :
           /\ m.client \in Clients
           /\ unsent' = unsent \ {m} /\ local' = local /\ server' = server /\ queue' = queue
           /\ steady' = steady \ {m.client}
           /\ \A c \in Clients \ {m.client} : sync'[c] = sync[c]
           /\ \A c \in Clients : missed'[c] = missed[c] \cup AboutOthers(c, {m})
           /\ UnderWay' \subseteq UnderWay /\ UnderWay \subseteq UnderWay' \cup {m}
  <1>0. DOMAIN sync = Clients
    BY DEF TypeOK
  <1>F. \A c \in Clients :
          sync[c] \in [pc : PCs, final : {sync[c].final}, todo : SUBSET Effect,
                      acts : SUBSET Action, op : Transfer]
    BY DEF TypeOK, IsRun
  <1>1. PICK m \in unsent :
          /\ unsent' = unsent \ {m} /\ local' = local /\ server' = server /\ queue' = queue
          /\ \/ sync' = sync
             \/ /\ sync[m.client].pc \in {"handling", "orphan"}
                /\ sync' = [sync EXCEPT ![m.client].pc = "idle",
                                        ![m.client].todo = {}, ![m.client].acts = {}]
    BY DEF AnnouncingFails, PublishFail, HandlerEnds
  <1>2. m.client \in Clients
    BY DEF TypeOK, Message
  <1>3. /\ \A c \in Clients \ {m.client} : sync'[c] = sync[c]
        /\ sync'[m.client].op = sync[m.client].op
    BY <1>0, <1>F, <1>1, <1>2
  <1>4. /\ steady' = steady \ {m.client}
        /\ missed' = [c \in Clients |-> missed[c] \cup AboutOthers(c, {m})]
    <2>1. PICK n \in unsent \ unsent' :
            /\ steady' = steady \ {n.client}
            /\ missed' = [c \in Clients |-> missed[c] \cup AboutOthers(c, {n})]
      BY DEF AnnouncingFails
    <2>2. n = m
      BY <1>1, <2>1
    <2> QED BY <2>1, <2>2
  <1>5. UnderWay' \subseteq UnderWay /\ UnderWay \subseteq UnderWay' \cup {m}
    <2>1. \A c \in Clients : sync'[c].op = sync[c].op
      BY <1>3
    <2> QED BY <1>1, <2>1 DEF UnderWay
  <1> QED BY <1>1, <1>2, <1>3, <1>4, <1>5

\* No step takes a steady client from what its run has to do.
LEMMA NextSteady ==
  ASSUME SyncInv, SyncInv', StartTypeOK, ProgramInv, SteadyInv, [StartNext]_allVars
  PROVE  SteadyInv'
  <1>0. /\ TypeOK /\ ShapeInv /\ Phased /\ Sound(server')
        /\ DOMAIN phase = Clients /\ DOMAIN fetching = Clients /\ DOMAIN missed = Clients
        /\ DOMAIN sync = Clients /\ DOMAIN local = Clients /\ steady \subseteq Clients
        /\ DOMAIN queue = Clients \cup Listeners
    BY DEF SyncInv, ProgramInv, TypeOK, StartTypeOK, TreesInv, TreesSound
  <1>R. \A c \in steady : SteadyRun(c)
    BY DEF SteadyInv
  <1>1. ASSUME NEW d \in Clients, Start(d), NEW c \in steady' PROVE SteadyRun(c)'
    <2>1. UnderWay' = UnderWay
      BY <1>0, <1>1, NoCopyStarts DEF Start
    <2>2. CASE c = d
      <3>1. sync'[d].pc = "started"
        <4>1. sync[d] \in [pc : PCs, final : {sync[d].final}, todo : SUBSET Effect,
                           acts : SUBSET Action, op : Transfer]
          BY <1>0 DEF TypeOK, IsRun
        <4> QED BY <1>0, <1>1, <4>1 DEF Start, SyncStart
      <3> QED BY <2>2, <3>1 DEF SteadyRun, RunOf
    <2>3. CASE c # d
      <3>1. /\ c \in steady /\ c \in Clients /\ sync'[c] = sync[c] /\ phase'[c] = phase[c]
            /\ local'[c] = local[c] /\ server' = server
            /\ missed'[c] = missed[c] /\ queue'[c] = queue[c]
        BY <1>0, <1>1, <2>3 DEF Start, SyncStart
      <3>2. Excuse(c) \subseteq Excuse(c)'
        BY <2>1, <3>1, ExcuseGrows
      <3> QED BY <1>R, <3>1, <3>2, SteadyFrame
    <2> QED BY <2>2, <2>3
  <1>2. ASSUME NEW d \in Clients, PurgeQueue(d) \/ Bind(d) \/ Receive(d), NEW c \in steady'
        PROVE  SteadyRun(c)'
    <2>1. /\ sync' = sync /\ server' = server /\ unsent' = unsent /\ c \in steady /\ c \in Clients
      BY <1>0, <1>2, ConsumersStayApart DEF Apart, PurgeQueue, Bind, Receive
    <2>2. UnderWay' = UnderWay
      BY <2>1, UnderWayStays
    <2>3. CASE c = d
      <3>1. phase'[c] # "syncing"
        BY <1>0, <1>2, <2>3 DEF PurgeQueue, Bind, Receive
      <3> QED BY <1>R, <2>1, <3>1, SteadyFrame
    <2>4. CASE c # d
      <3>1. CASE PurgeQueue(d)
        <4>1. /\ phase'[c] = phase[c] /\ local'[c] = local[c] /\ missed'[c] = missed[c]
              /\ queue'[c] = queue[c]
          BY <1>0, <2>4, <3>1 DEF PurgeQueue, Misses
        <4> QED BY <1>R, <2>1, <2>2, <4>1, ExcuseGrows, SteadyFrame
      <3>2. CASE Bind(d)
        <4>1. /\ phase'[c] = phase[c] /\ local'[c] = local[c] /\ missed'[c] = missed[c]
              /\ queue'[c] = queue[c]
          BY <1>0, <2>4, <3>2 DEF Bind, Misses
        <4> QED BY <1>R, <2>1, <2>2, <4>1, ExcuseGrows, SteadyFrame
      <3>3. CASE Receive(d)
        <4>1. /\ phase'[c] = phase[c] /\ local'[c] = local[c] /\ missed'[c] = missed[c]
              /\ queue'[c] = queue[c]
          BY <1>0, <2>4, <3>3 DEF Receive
        <4> QED BY <1>R, <2>1, <2>2, <4>1, ExcuseGrows, SteadyFrame
      <3> QED BY <1>2, <3>1, <3>2, <3>3
    <2> QED BY <2>3, <2>4
  <1>3. ASSUME NEW d \in Clients, Fetch(d), NEW c \in steady' PROVE SteadyRun(c)'
    <2>1. /\ sync' = sync /\ server' = server /\ unsent' = unsent /\ c \in steady /\ c \in Clients
          /\ phase' = phase /\ missed' = missed /\ queue' = queue /\ phase[d] = "live"
          /\ c # d => local'[c] = local[c]
      BY <1>0, <1>3 DEF Fetch, Phased
    <2>2. UnderWay' = UnderWay
      BY <2>1, UnderWayStays
    <2> QED BY <1>R, <2>1, <2>2, ExcuseGrows, SteadyFrame
  <1>4. ASSUME NEW d \in Clients, Stop(d), NEW c \in steady' PROVE SteadyRun(c)'
    <2>1. /\ sync' = sync /\ server' = server /\ unsent' = unsent /\ local' = local
          /\ c \in steady /\ c \in Clients /\ missed' = missed /\ queue' = queue
          /\ phase'[c] = "syncing" => phase[c] = "syncing"
      BY <1>0, <1>4 DEF Stop, vars
    <2>2. UnderWay' = UnderWay
      BY <2>1, UnderWayStays
    <2> QED BY <1>R, <2>1, <2>2, ExcuseGrows, SteadyFrame
  <1>5. ASSUME NEW d \in Clients, SyncStep(d), NEW c \in steady' PROVE SteadyRun(c)'
    <2>1. /\ RunStep(d) /\ phase' = phase /\ missed' = missed /\ queue' = queue
          /\ c \in steady /\ c \in Clients
          /\ phase[d] = "syncing" \/ sync[d].pc = "orphan"
      <3>2. sync[d].pc # "idle"
        BY <1>0, <1>5, IdleRests DEF SyncStep
      <3>3. phase[d] = "syncing" \/ sync[d].pc = "orphan"
        BY <1>0, <3>2 DEF Phased, Over
      <3>1. queue' = queue
        BY <1>5 DEF SyncStep, RunStep, HandlerStep, ActionStep, PostSnapshot, HandleSnapshot,
             HandleRemove, HandleDirectory, Respond, UploadOpen, UploadCreate, UploadCopy,
             DownloadCreate, DownloadCopy, ActionMkDir, CreateDirectorySnapshot
      <3> QED BY <1>0, <1>5, <3>1, <3>3 DEF SyncStep
    <2>2. CASE c = d
      <3>1. phase[d] = "syncing"
        BY <1>R, <2>1, <2>2 DEF SteadyRun
      <3> QED BY <1>R, <2>1, <2>2, <3>1, SteadyItself
    <2>3. CASE c # d
      BY <1>0, <1>R, <2>1, <2>3, SteadyElsewhere
    <2> QED BY <2>2, <2>3
  <1>6. ASSUME NEW d \in Clients, RunFails(d) \/ UserActs(d), NEW c \in steady'
        PROVE  SteadyRun(c)'
    <2>1. Failure(d) \/ User(d)
      BY <1>6 DEF RunFails, UserActs
    <2>2. UnderWay' = UnderWay
      BY <1>0, <2>1, NoCopyStarts
    <2>3. /\ c \in steady /\ c \in Clients /\ c # d /\ phase' = phase /\ missed' = missed
      BY <1>0, <1>6 DEF RunFails, UserActs
    <2>4. /\ sync'[c] = sync[c] /\ local'[c] = local[c] /\ server' = server /\ queue' = queue
      BY <1>0, <2>1, <2>3
      DEF Failure, User, TransferFail, HandlerFail, HandlerEnds, Kill, KillInSnapshot, Edit, NewDir, Delete, UserStep
    <2> QED BY <1>R, <2>2, <2>3, <2>4, ExcuseGrows, SteadyFrame
  <1>7. ASSUME Announcing, NEW c \in steady' PROVE SteadyRun(c)'
    <2>1. /\ c \in steady /\ c \in Clients /\ phase' = phase /\ missed' = missed
      BY <1>0, <1>7 DEF Announcing, startVars
    <2>2. PICK m \in unsent :
            /\ sync' = sync /\ local' = local /\ server' = server
            /\ ToSet(queue'[c]) = ToSet(queue[c]) \cup {m}
            /\ UnderWay \subseteq UnderWay' \cup {m}
      BY <1>0, <1>7, <2>1, PublishMoves DEF Announcing
    <2>3. Excuse(c) \subseteq Excuse(c)'
      BY <2>1, <2>2, ExcuseGrows
    <2> QED BY <1>R, <2>1, <2>2, <2>3, SteadyFrame
  <1>8. ASSUME AnnouncingFails, NEW c \in steady' PROVE SteadyRun(c)'
    <2>1. PICK m \in unsent :
            /\ local' = local /\ server' = server /\ queue' = queue
            /\ steady' = steady \ {m.client}
            /\ \A e \in Clients \ {m.client} : sync'[e] = sync[e]
            /\ \A e \in Clients : missed'[e] = missed[e] \cup AboutOthers(e, {m})
            /\ UnderWay \subseteq UnderWay' \cup {m}
      BY <1>0, <1>8, PublishFailLoses
    <2>2. /\ c \in steady /\ c \in Clients /\ c # m.client /\ phase' = phase
      BY <1>0, <1>8, <2>1 DEF AnnouncingFails
    <2>3. missed[c] \subseteq missed'[c] /\ Told(m) \subseteq missed'[c]
      BY <2>1, <2>2 DEF AboutOthers
    <2>4. Excuse(c) \subseteq Excuse(c)'
      BY <2>1, <2>3, ExcuseGrows
    <2> QED BY <1>R, <2>1, <2>2, <2>4, SteadyFrame
  <1>9. ASSUME TimePasses \/ UNCHANGED allVars, NEW c \in steady' PROVE SteadyRun(c)'
    <2>1. /\ sync' = sync /\ server' = server /\ unsent' = unsent /\ local' = local
          /\ c \in steady /\ c \in Clients /\ missed' = missed /\ queue' = queue
          /\ phase' = phase
      BY <1>0, <1>9 DEF TimePasses, Tick, allVars, vars, startVars
    <2>2. UnderWay' = UnderWay
      BY <2>1, UnderWayStays
    <2> QED BY <1>R, <2>1, <2>2, ExcuseGrows, SteadyFrame
  <1>10. \A c \in steady' : SteadyRun(c)'
    BY <1>1, <1>2, <1>3, <1>4, <1>5, <1>6, <1>7, <1>8, <1>9 DEF StartNext
  <1> QED BY <1>10 DEF SteadyInv

-----------------------------------------------------------------------------
(* What is under way and what the server has.                               *)

\* Apart from what two handlers have crossed in, the server has what is going to
\* be announced, and has not what is going to be announced as removed.
UnderWayInv ==
  \A p \in Paths \ crossed : \A m \in UnderWay :
    p \in Told(m) => (m.event = "CREATE" <=> p \in DOMAIN server)

\* What is under way is a message.
LEMMA UnderWayMessages ==
  ASSUME TypeOK
  PROVE  UnderWay \subseteq Message
  <1>1. \A c \in Clients : sync[c].op.step = "copy" => sync[c].op.path \in Paths
    BY TransferWith DEF TypeOK, IsRun
  <1> QED BY <1>1 DEF UnderWay, TypeOK, Message

\* Only runs act at the server.
LEMMA QuietSteps ==
  ASSUME TypeOK, ProgramInv, StartNext, \A d \in Clients : ~SyncStep(d)
  PROVE  UnderWay' \subseteq UnderWay /\ server' = server /\ crossed' = crossed
  <1>0. ShapeInv
    BY DEF ProgramInv
  <1>1. ASSUME NEW d \in Clients, Start(d) \/ RunFails(d) \/ UserActs(d)
        PROVE  UnderWay' \subseteq UnderWay /\ server' = server /\ crossed' = crossed
    <2>1. SyncStart(d) \/ Failure(d) \/ User(d)
      BY <1>1 DEF Start, RunFails, UserActs
    <2>2. UnderWay' = UnderWay
      BY <1>0, <2>1, NoCopyStarts
    <2>3. server' = server
      BY <2>1 DEF SyncStart, Failure, User, TransferFail, HandlerFail, HandlerEnds, Kill, KillInSnapshot, Edit, NewDir,
                  Delete, UserStep
    <2> QED BY <1>1, <2>2, <2>3 DEF Start, RunFails, UserActs
  <1>2. ASSUME sync' = sync, unsent' = unsent PROVE UnderWay' \subseteq UnderWay
    BY <1>2, UnderWayStays
  <1>3. ASSUME NEW d \in Clients, PurgeQueue(d) \/ Bind(d) \/ Receive(d) \/ Fetch(d) \/ Stop(d)
        PROVE  UnderWay' \subseteq UnderWay /\ server' = server /\ crossed' = crossed
    BY <1>2, <1>3, ConsumersStayApart
    DEF Apart, PurgeQueue, Bind, Receive, Fetch, Stop, vars
  <1>4. CASE Announcing
    BY <1>4, PublishMoves DEF Announcing, startVars
  <1>5. CASE AnnouncingFails
    BY <1>0, <1>5, PublishFailLoses DEF AnnouncingFails
  <1>6. CASE TimePasses
    BY <1>2, <1>6 DEF TimePasses, Tick, startVars
  <1> QED BY <1>1, <1>3, <1>4, <1>5, <1>6 DEF StartNext

\* An effect stays true until it is announced, where no two have crossed: a second
\* effect at the same path that says the contrary makes the two cross.
LEMMA NextUnderWay ==
  ASSUME SyncInv, ProgramInv, UnderWayInv, [StartNext]_allVars
  PROVE  UnderWayInv'
  <1>1. ASSUME UnderWay' \subseteq UnderWay, server' = server, crossed \subseteq crossed'
        PROVE  UnderWayInv'
    BY <1>1 DEF UnderWayInv
  <1>2. ASSUME NEW d \in Clients, SyncStep(d) PROVE UnderWayInv'
    <2>1. RunStep(d) /\ crossed' = crossed \cup Crossing'
      BY <1>2 DEF SyncStep
    <2>2. CASE RunQuiet(d)
      BY <1>1, <2>1, <2>2 DEF RunQuiet
    <2>3. ASSUME NEW m \in Message, RunTells(d, m) PROVE UnderWayInv'
      <3> SUFFICES ASSUME NEW p \in Paths \ crossed', NEW n \in UnderWay', p \in Told(n)
                   PROVE  n.event = "CREATE" <=> p \in DOMAIN server'
        BY DEF UnderWayInv
      <3>1. /\ UnderWay' = UnderWay \cup {m} /\ m \in UnderWay' /\ Serves(m)
            /\ p \in Paths \ crossed /\ p \notin Crossing'
        BY <2>1, <2>3 DEF RunTells
      <3>2. n.event \in {"CREATE", "REMOVE"} /\ m.event \in {"CREATE", "REMOVE"}
        <4>1. n \in Message
          BY <3>1, UnderWayMessages DEF SyncInv
        <4> QED BY <4>1 DEF Message
      <3>3. p \in Told(m) => n.event = m.event
        <4>1. ASSUME NEW k \in UnderWay', NEW j \in UnderWay',
                     k.event = "REMOVE", j.event = "CREATE", p \in Told(k), p \in Told(j)
              PROVE  FALSE
          <5>1. PICK R : R = {x \in UnderWay' : x.event = "REMOVE"}
            OBVIOUS
          <5>2. PICK C : C = {x \in UnderWay' : x.event = "CREATE"}
            OBVIOUS
          <5>3. k \in R /\ j \in C
            BY <4>1, <5>1, <5>2
          <5> DEFINE T == {Told(x) \cap Told(y) : x \in R, y \in C}
          <5>4. Told(k) \cap Told(j) \in T
            BY <5>3
          <5>5. Crossing' = UNION T
            BY <5>1, <5>2 DEF Crossing
          <5> HIDE DEF T
          <5> QED BY <3>1, <4>1, <5>4, <5>5
        <4> QED BY <3>1, <3>2, <4>1
      <3>4. \A k \in UnderWay : p \in Told(k) => (k.event = "CREATE" <=> p \in DOMAIN server)
        BY <3>1 DEF UnderWayInv
      <3>5. CASE p \in Told(m)
        <4>1. CASE m \in UnderWay /\ DOMAIN server' = DOMAIN server
          BY <3>3, <3>4, <3>5, <4>1
        <4>2. CASE \A q \in Told(m) : m.event = "CREATE" <=> q \in DOMAIN server'
          BY <3>3, <3>5, <4>2
        <4> QED BY <3>1, <4>1, <4>2 DEF Serves
      <3>6. CASE p \notin Told(m)
        <4>1. n \in UnderWay
          BY <3>1, <3>6
        <4>2. p \in DOMAIN server <=> p \in DOMAIN server'
          BY <3>1, <3>6 DEF Serves
        <4> QED BY <3>4, <4>1, <4>2
      <3> QED BY <3>5, <3>6
    <2> QED BY <2>1, <2>2, <2>3, RunEffect DEF SyncInv
  <1>3. CASE StartNext /\ \A d \in Clients : ~SyncStep(d)
    BY <1>1, <1>3, QuietSteps DEF SyncInv
  <1>4. CASE UNCHANGED allVars
    <2>1. sync' = sync /\ unsent' = unsent /\ server' = server /\ crossed' = crossed
      BY <1>4 DEF allVars, vars, startVars
    <2> QED BY <1>1, <2>1, UnderWayStays
  <1> QED BY <1>2, <1>3, <1>4

-----------------------------------------------------------------------------
(* What a listener is going to have.                                        *)

\* The paths a client has when it has received one more message: its own it
\* discards.
hearing(c) ==
  [x \in (SUBSET Paths) \X Message |->
     IF x[2].client = c THEN x[1] ELSE Learned(x[1], x[2])]

\* The paths a client has when it has received what is in its queue.
Expects(c) == Replay(hearing(c), DOMAIN local[c], queue[c])

\* What a message teaches of the paths it tells, and of the others.
LEMMA LearnedTold ==
  ASSUME NEW S \in SUBSET Paths, NEW m \in Message, NEW p
  PROVE  p \in Learned(S, m) <=> IF p \in Told(m) THEN m.event = "CREATE" ELSE p \in S
  BY DEF Learned, Told, Message

\* The value of hearing.
LEMMA HearingIs ==
  ASSUME NEW c, NEW S \in SUBSET Paths, NEW m \in Message
  PROVE  /\ hearing(c)[<<S, m>>] = IF m.client = c THEN S ELSE Learned(S, m)
         /\ hearing(c)[<<S, m>>] \in SUBSET Paths
  <1>1. <<S, m>> \in (SUBSET Paths) \X Message /\ <<S, m>>[1] = S /\ <<S, m>>[2] = m
    OBVIOUS
  <1>2. hearing(c)[<<S, m>>] = IF m.client = c THEN S ELSE Learned(S, m)
    BY <1>1 DEF hearing
  <1>3. Learned(S, m) \in SUBSET Paths
    BY LearningIs
  <1> QED BY <1>2, <1>3

\* A client expects a set of paths.
LEMMA ExpectsType ==
  ASSUME TypeOK, NEW c \in Clients
  PROVE  Expects(c) \in SUBSET Paths /\ DOMAIN local[c] \in SUBSET Paths
  <1>1. queue[c] \in Seq(Message) /\ DOMAIN local[c] \in SUBSET Paths
    BY DEF TypeOK, IsTree
  <1>2. \A S \in SUBSET Paths : \A m \in Message : hearing(c)[<<S, m>>] \in SUBSET Paths
    BY HearingIs
  <1> QED BY <1>1, <1>2, ReplayStays DEF Expects

\* A message that joins the queue of a client is done after the others.
LEMMA ExpectsAppended ==
  ASSUME TypeOK, NEW c \in Clients, NEW m \in Message, m.client # c,
         local'[c] = local[c], queue'[c] = Append(queue[c], m)
  PROVE  Expects(c)' = Learned(Expects(c), m)
  <1>1. queue[c] \in Seq(Message)
    BY DEF TypeOK
  <1>2. Expects(c)' = hearing(c)[<<Expects(c), m>>]
    BY <1>1, ReplayAppend DEF Expects
  <1> QED BY <1>2, ExpectsType, HearingIs

\* A message that is done is done first.
LEMMA ExpectsReceived ==
  ASSUME TypeOK, NEW c \in Clients, queue[c] # <<>>, queue'[c] = Tail(queue[c]),
         DOMAIN local'[c] = hearing(c)[<<DOMAIN local[c], Head(queue[c])>>]
  PROVE  Expects(c)' = Expects(c)
  <1>1. queue[c] \in Seq(Message)
    BY DEF TypeOK
  <1> QED BY <1>1, ReplayTail DEF Expects

\* With an empty queue a client expects what it has.
LEMMA ExpectsNothing ==
  ASSUME NEW c, queue[c] = <<>>
  PROVE  Expects(c) = DOMAIN local[c]
  BY ReplayNothing DEF Expects

\* What no message in the queue tells stays as it is.
LEMMA ExpectsUntold ==
  ASSUME TypeOK, NEW c \in Clients, NEW p \in Paths,
         \A m \in ToSet(queue[c]) : m.client # c => p \notin Told(m)
  PROVE  p \in Expects(c) <=> p \in DOMAIN local[c]
  <1>1. PICK t : t = DOMAIN local[c]
    OBVIOUS
  <1>2. PICK D : D = {S \in SUBSET Paths : p \in S <=> p \in t}
    OBVIOUS
  <1>3. PICK M : M = {m \in Message : m.client # c => p \notin Told(m)}
    OBVIOUS
  <1>4. PICK s : s = queue[c]
    OBVIOUS
  <1>5. t \in D
    BY <1>1, <1>2, ExpectsType
  <1>6. s \in Seq(M)
    <2>1. s \in Seq(Message)
      BY <1>4 DEF TypeOK
    <2>2. \A i \in 1..Len(s) : s[i] \in M
      BY <1>3, <1>4, <2>1 DEF ToSet
    <2> QED BY <2>1, <2>2
  <1>7. ASSUME NEW S \in D, NEW m \in M PROVE hearing(c)[<<S, m>>] \in D
    <2>1. S \in SUBSET Paths /\ m \in Message
      BY <1>2, <1>3
    <2>2. m.client # c => (p \in Learned(S, m) <=> p \in S)
      BY <1>3, <2>1, LearnedTold
    <2> QED BY <1>2, <2>1, <2>2, HearingIs
  <1>8. Replay(hearing(c), t, s) \in D
    BY <1>5, <1>6, <1>7, ReplayStays
  <1> QED BY <1>1, <1>2, <1>4, <1>8 DEF Expects

-----------------------------------------------------------------------------
(* What a client that listens has, and is going to have.                    *)

\* A client that is listening, or is about to.
Hears(c) == c \in steady /\ phase[c] \in {"purged", "live"}

\* The paths in which it is to agree with the server.
Interest(c) == Paths \ (Excluded \cup Doomed(sync[c].final) \cup missed[c] \cup crossed)

\* A path nobody is going to tell about it will have if the server has it.
DomOf(c) ==
  \A p \in Interest(c) :
    (\A m \in UnderWay : p \notin Told(m)) => (p \in Expects(c) <=> p \in DOMAIN server)

\* Client c is going to be told to fetch the note p.
Coming(c, p) == \E m \in ToSet(queue[c]) \cup UnderWay :
                  m.client # c /\ m.event = "CREATE" /\ m.path = p

\* A note it has and the server has is the same, or it is to fetch it.
BodyOf(c) ==
  \A p \in Interest(c) \cap Files \cap DOMAIN local[c] \cap DOMAIN server :
    local[c][p].body = server[p].body \/ fetching[c] = p \/ Coming(c, p)

\* What is true of each client that listens, or is about to.
HearsInv == \A c \in Clients : Hears(c) => DomOf(c) /\ BodyOf(c)

\* A client that listens has nothing of its own left to do or to announce.
LEMMA HearsIdle ==
  ASSUME TypeOK, ShapeInv, Phased, SteadyInv, PublisherInv, NEW c \in Clients, Hears(c)
  PROVE  /\ sync[c].pc = "idle" /\ sync[c].op.step = "none"
         /\ \A m \in UnderWay : m.client # c
  <1>1. sync[c].pc = "idle"
    BY DEF Hears, Phased, SteadyInv, SteadyRun, Over
  <1>2. sync[c].op.step = "none"
    BY <1>1 DEF ShapeInv, Shape
  <1>3. \A m \in unsent : m.client # c
    BY <1>1 DEF PublisherInv
  <1> QED BY <1>1, <1>2, <1>3 DEF UnderWay

\* A step that changes nothing the client depends on.
LEMMA HearsFrame ==
  ASSUME NEW c, DomOf(c), BodyOf(c), Interest(c)' \subseteq Interest(c),
         local'[c] = local[c], queue'[c] = queue[c], fetching'[c] = fetching[c],
         server' = server, UnderWay' = UnderWay
  PROVE  DomOf(c)' /\ BodyOf(c)'
  <1>1. DomOf(c)'
    BY DEF DomOf, Expects
  <1>2. BodyOf(c)'
    BY DEF BodyOf, Coming
  <1> QED BY <1>1, <1>2

\* The paths in which a client is to agree become fewer while it listens.
LEMMA InterestShrinks ==
  ASSUME NEW c, sync'[c].final = sync[c].final, missed[c] \subseteq missed'[c],
         crossed \subseteq crossed'
  PROVE  Interest(c)' \subseteq Interest(c)
  BY DEF Interest

\* Another client's run does something at the server.
LEMMA HearsRun ==
  ASSUME SyncInv, UnderWayInv, NEW c \in Clients, NEW d \in Clients \ {c},
         SyncStep(d), DomOf(c), BodyOf(c)
  PROVE  DomOf(c)' /\ BodyOf(c)'
  <1>1. /\ RunStep(d) /\ crossed \subseteq crossed' /\ missed' = missed /\ fetching' = fetching
        /\ queue' = queue
    <2>1. RunStep(d) => queue' = queue
      BY DEF RunStep, HandlerStep, ActionStep, PostSnapshot, HandleSnapshot,
             HandleRemove, HandleDirectory, Respond, UploadOpen, UploadCreate, UploadCopy,
             DownloadCreate, DownloadCopy, ActionMkDir, CreateDirectorySnapshot
    <2> QED BY <2>1 DEF SyncStep
  <1>2. local'[c] = local[c]
    BY <1>1, OthersAlone DEF SyncInv
  <1>3. CASE RunQuiet(d)
    BY <1>1, <1>2, <1>3, InterestShrinks, HearsFrame DEF RunQuiet
  <1>4. ASSUME NEW m \in Message, RunTells(d, m) PROVE DomOf(c)' /\ BodyOf(c)'
    <2>1. /\ m \in UnderWay' /\ UnderWay \subseteq UnderWay' /\ Serves(m) /\ m.client # c
          /\ Interest(c)' \subseteq Interest(c)
      BY <1>1, <1>4, InterestShrinks DEF RunTells, Spares
    <2>2. ASSUME NEW p \in Interest(c)', \A n \in UnderWay' : p \notin Told(n)
          PROVE  p \in Expects(c)' <=> p \in DOMAIN server'
      <3>1. p \in Interest(c) /\ p \in Paths /\ p \notin Told(m)
            /\ \A n \in UnderWay : p \notin Told(n)
        BY <2>1, <2>2 DEF Interest
      <3>2. p \in DOMAIN server <=> p \in DOMAIN server'
        BY <2>1, <3>1 DEF Serves
      <3>3. Expects(c)' = Expects(c)
        BY <1>1, <1>2 DEF Expects
      <3> QED BY <3>1, <3>2, <3>3 DEF DomOf
    <2>3. ASSUME NEW p \in Interest(c)' \cap Files \cap DOMAIN local'[c] \cap DOMAIN server'
          PROVE  local'[c][p].body = server'[p].body \/ fetching'[c] = p \/ Coming(c, p)'
      <3>1. p \in Interest(c) /\ p \in Paths \ crossed /\ p \in Files /\ p \notin Dirs
        BY <2>1 DEF Interest, Files
      <3>2. m.event \in {"CREATE", "REMOVE"} /\ m.path \in Paths
        BY DEF Message
      <3>3. p \in Told(m) => m.event = "CREATE"
        <4>1. p \in Told(m) /\ m \in UnderWay /\ p \in DOMAIN server => m.event = "CREATE"
          BY <3>1 DEF UnderWayInv
        <4> QED BY <2>1, <2>3, <4>1 DEF Serves
      <3>4. p \in Told(m) => p = m.path
        BY <3>1, <3>2, <3>3, PathsAssumption DEF Told
      <3>5. CASE p = m.path
        <4>1. p \in Told(m)
          BY <3>5 DEF Told, Subtree
        <4> QED BY <2>1, <3>3, <3>5, <4>1 DEF Coming
      <3>6. CASE p # m.path
        <4>1. p \in DOMAIN server
          BY <2>1, <2>3, <3>1, <3>4, <3>6 DEF Serves
        <4>2. server'[p] = server[p]
          BY <2>1, <2>3, <3>1, <3>6, <4>1 DEF Serves
        <4>3. local[c][p].body = server[p].body \/ fetching[c] = p \/ Coming(c, p)
          BY <1>2, <2>3, <3>1, <4>1 DEF BodyOf
        <4>4. Coming(c, p) => Coming(c, p)'
          BY <1>1, <2>1 DEF Coming
        <4> QED BY <1>1, <1>2, <4>2, <4>3, <4>4
      <3> QED BY <3>5, <3>6
    <2> QED BY <2>2, <2>3 DEF DomOf, BodyOf
  <1> QED BY <1>1, <1>3, <1>4, RunEffect DEF SyncInv

\* The broker gives it a message of another client.
LEMMA HearsPublished ==
  ASSUME SyncInv, UnderWayInv, NEW c \in Clients, \A m \in UnderWay : m.client # c,
         Announcing, DomOf(c), BodyOf(c)
  PROVE  DomOf(c)' /\ BodyOf(c)'
  <1>1. PICK m \in unsent :
          /\ sync' = sync /\ local' = local /\ server' = server
          /\ queue'[c] = Append(queue[c], m)
          /\ ToSet(queue'[c]) = ToSet(queue[c]) \cup {m}
          /\ UnderWay' \subseteq UnderWay /\ UnderWay \subseteq UnderWay' \cup {m}
    BY PublishMoves DEF Announcing, SyncInv
  <1>2. /\ m \in UnderWay /\ m \in Message /\ m.client # c
    <2>1. m \in UnderWay
      BY DEF UnderWay
    <2> QED BY <2>1, UnderWayMessages DEF SyncInv
  <1>3. Interest(c)' = Interest(c) /\ fetching' = fetching
    BY <1>1 DEF Interest, Announcing, startVars
  <1>4. Expects(c)' = Learned(Expects(c), m) /\ Expects(c) \in SUBSET Paths
    BY <1>1, <1>2, ExpectsAppended, ExpectsType DEF SyncInv
  <1>5. ASSUME NEW p \in Interest(c), \A n \in UnderWay' : p \notin Told(n)
        PROVE  p \in Expects(c)' <=> p \in DOMAIN server'
    <2>1. CASE p \in Told(m)
      <3>1. m.event = "CREATE" <=> p \in DOMAIN server
        BY <1>2, <2>1 DEF UnderWayInv, Interest
      <3> QED BY <1>1, <1>2, <1>4, <2>1, <3>1, LearnedTold
    <2>2. CASE p \notin Told(m)
      <3>1. p \in Expects(c) <=> p \in DOMAIN server
        BY <1>1, <1>5, <2>2 DEF DomOf
      <3> QED BY <1>1, <1>2, <1>4, <2>2, <3>1, LearnedTold
    <2> QED BY <2>1, <2>2
  <1>6. DomOf(c)'
    BY <1>3, <1>5 DEF DomOf
  <1>7. \A p : Coming(c, p) => Coming(c, p)'
    BY <1>1 DEF Coming
  <1>8. BodyOf(c)'
    BY <1>1, <1>3, <1>7 DEF BodyOf
  <1> QED BY <1>6, <1>8

\* A message is lost: nobody is told, and it has missed something.
LEMMA HearsLoss ==
  ASSUME SyncInv, NEW c \in Clients, \A m \in UnderWay : m.client # c,
         AnnouncingFails, DomOf(c), BodyOf(c)
  PROVE  DomOf(c)' /\ BodyOf(c)'
  <1>1. PICK m \in unsent :
          /\ local' = local /\ server' = server /\ queue' = queue
          /\ \A e \in Clients \ {m.client} : sync'[e] = sync[e]
          /\ \A e \in Clients : missed'[e] = missed[e] \cup AboutOthers(e, {m})
          /\ UnderWay' \subseteq UnderWay /\ UnderWay \subseteq UnderWay' \cup {m}
    BY PublishFailLoses DEF SyncInv
  <1>2. m.client # c
    BY DEF UnderWay
  <1>3. sync'[c] = sync[c] /\ fetching' = fetching /\ crossed' = crossed
    BY <1>1, <1>2 DEF AnnouncingFails
  <1>4. missed[c] \subseteq missed'[c] /\ Told(m) \subseteq missed'[c]
    BY <1>1, <1>2 DEF AboutOthers
  <1>5. \A p \in Interest(c)' : p \in Interest(c) /\ p \notin Told(m)
    BY <1>3, <1>4 DEF Interest
  <1>6. DomOf(c)'
    <2>1. Expects(c)' = Expects(c)
      BY <1>1 DEF Expects
    <2> QED BY <1>1, <1>5, <2>1 DEF DomOf
  <1>7. BodyOf(c)'
    <2> SUFFICES ASSUME NEW p \in Interest(c)' \cap Files \cap DOMAIN local'[c] \cap DOMAIN server'
                 PROVE  local'[c][p].body = server'[p].body \/ fetching'[c] = p \/ Coming(c, p)'
      BY DEF BodyOf
    <2>1. p \in Interest(c) /\ p \notin Told(m)
      BY <1>5
    <2>2. p # m.path
      BY <2>1 DEF Told, Subtree
    <2>3. local[c][p].body = server[p].body \/ fetching[c] = p \/ Coming(c, p)
      BY <1>1, <2>1 DEF BodyOf
    <2>4. Coming(c, p) => Coming(c, p)'
      BY <1>1, <2>2 DEF Coming
    <2> QED BY <1>1, <1>3, <2>3, <2>4
  <1> QED BY <1>6, <1>7

\* The purge: what its run left the same, and what others have done since then and
\* are going to tell it.
LEMMA HearsPurge ==
  ASSUME SyncInv, StartTypeOK, ProgramInv, SteadyInv, UnderWayInv,
         NEW c \in Clients, PurgeQueue(c), Hears(c)'
  PROVE  DomOf(c)' /\ BodyOf(c)'
  <1>1. /\ phase[c] = "syncing" /\ sync[c].pc \in {"idle", "orphan"}
        /\ sync' = sync /\ local' = local /\ server' = server /\ unsent' = unsent
        /\ crossed' = crossed /\ steady' = steady /\ queue'[c] = <<>>
        /\ missed'[c] = missed[c] \cup AboutOthers(c, ToSet(queue[c]))
    BY DEF ProgramInv, PurgeQueue, Misses, SyncInv, TypeOK, StartTypeOK
  <1>2. PICK X : X = Excuse(c)
    OBVIOUS
  <1>3. sync[c].pc = "idle" /\ RunOf(sync[c], local[c], server, X)
    BY <1>1, <1>2 DEF Hears, SteadyInv, SteadyRun
  <1>4. /\ Work(sync[c], local[c], server, X)
        /\ sync[c].todo = {} /\ sync[c].acts = {} /\ sync[c].op.step = "none"
    BY <1>3 DEF RunOf, SyncInv, ShapeInv, Shape
  <1>5. ASSUME NEW p \in Interest(c)', p \notin X
        PROVE  Same(local[c], server, p)
    <2>1. p \in Paths \ (Excluded \cup Spared(sync[c], X))
      BY <1>1, <1>5 DEF Interest, Spared
    <2> QED BY <1>4, <2>1, WorkDone
  <1>6. UnderWay' = UnderWay
    BY <1>1, UnderWayStays
  <1>7. ASSUME NEW p \in Interest(c)', p \in X
        PROVE  \E m \in UnderWay : m.client # c /\ p \in Told(m)
    <2>1. p \notin missed[c] /\ p \notin AboutOthers(c, ToSet(queue[c]))
      BY <1>1 DEF Interest
    <2>2. \A m \in ToSet(queue[c]) : m.client # c => p \notin Told(m)
      BY <2>1, AboutOthersHas
    <2> QED BY <1>2, <1>7, <2>1, <2>2, ExcuseHas
  <1>8. DomOf(c)'
    <2> SUFFICES ASSUME NEW p \in Interest(c)', \A m \in UnderWay' : p \notin Told(m)
                 PROVE  p \in Expects(c)' <=> p \in DOMAIN server'
      BY DEF DomOf
    <2>1. Expects(c)' = DOMAIN local[c]
      BY <1>1, ReplayNothing DEF Expects
    <2>2. p \notin X
      BY <1>6, <1>7
    <2> QED BY <1>1, <1>5, <2>1, <2>2 DEF Same
  <1>9. BodyOf(c)'
    <2> SUFFICES ASSUME NEW p \in Interest(c)' \cap Files \cap DOMAIN local'[c] \cap DOMAIN server'
                 PROVE  local'[c][p].body = server'[p].body \/ Coming(c, p)'
      BY DEF BodyOf
    <2>1. CASE p \notin X
      BY <1>1, <1>5, <2>1 DEF Same
    <2>2. CASE p \in X
      <3>1. PICK m \in UnderWay : m.client # c /\ p \in Told(m)
        BY <1>7, <2>2
      <3>2. m.event = "CREATE"
        BY <1>1, <3>1 DEF UnderWayInv, Interest
      <3>3. p = m.path
        <4>1. m.path \in Paths /\ p \notin Dirs
          BY <3>1, UnderWayMessages DEF SyncInv, Message, Files
        <4> QED BY <3>1, <3>2, <4>1, PathsAssumption DEF Told
      <3> QED BY <1>6, <3>1, <3>2, <3>3 DEF Coming
    <2> QED BY <2>1, <2>2
  <1> QED BY <1>8, <1>9

\* The queue is bound, and empty if it was bound for the first time.
LEMMA HearsBind ==
  ASSUME SyncInv, StartTypeOK, NEW c \in Clients, Bind(c), DomOf(c), BodyOf(c)
  PROVE  DomOf(c)' /\ BodyOf(c)'
  <1>1. /\ sync' = sync /\ local' = local /\ server' = server /\ unsent' = unsent
        /\ crossed' = crossed /\ fetching' = fetching
    BY DEF Bind
  <1>2. UnderWay' = UnderWay
    BY <1>1, UnderWayStays
  <1>3. CASE queue' = queue /\ missed' = missed
    BY <1>1, <1>2, <1>3, InterestShrinks, HearsFrame
  <1>4. CASE /\ queue'[c] = <<>>
             /\ missed'[c] = missed[c] \cup AboutOthers(c, ToSet(queue[c]))
    <2>1. \A p \in Interest(c)' :
            /\ p \in Interest(c) /\ p \in Paths
            /\ \A m \in ToSet(queue[c]) : m.client # c => p \notin Told(m)
      BY <1>1, <1>4, AboutOthersHas DEF Interest
    <2>2. Expects(c)' = DOMAIN local[c]
      BY <1>1, <1>4, ReplayNothing DEF Expects
    <2>3. \A p \in Interest(c)' : p \in Expects(c) <=> p \in DOMAIN local[c]
      BY <2>1, ExpectsUntold DEF SyncInv
    <2>4. DomOf(c)'
      BY <1>1, <1>2, <2>1, <2>2, <2>3 DEF DomOf
    <2>5. BodyOf(c)'
      <3> SUFFICES ASSUME NEW p \in Interest(c)' \cap Files \cap DOMAIN local'[c] \cap DOMAIN server'
                   PROVE  local'[c][p].body = server'[p].body \/ fetching'[c] = p \/ Coming(c, p)'
        BY DEF BodyOf
      <3>1. local[c][p].body = server[p].body \/ fetching[c] = p \/ Coming(c, p)
        BY <1>1, <2>1 DEF BodyOf
      <3>2. Coming(c, p) => Coming(c, p)'
        <4>1. \A m : m.path = p => p \in Told(m)
          BY DEF Told, Subtree
        <4> QED BY <1>2, <2>1, <4>1 DEF Coming
      <3> QED BY <1>1, <3>1, <3>2
    <2> QED BY <2>4, <2>5
  <1>5. \/ queue' = queue /\ missed' = missed
        \/ /\ queue'[c] = <<>>
           /\ missed'[c] = missed[c] \cup AboutOthers(c, ToSet(queue[c]))
    BY DEF Bind, Misses, SyncInv, TypeOK, StartTypeOK
  <1> QED BY <1>3, <1>4, <1>5

\* A queue is its head and its tail.
LEMMA HeadAndTail ==
  ASSUME NEW M, NEW s \in Seq(M), s # <<>>
  PROVE  Head(s) \in M /\ \A x : x \in ToSet(s) <=> x = Head(s) \/ x \in ToSet(Tail(s))
  <1>1. PICK t : t = Tail(s)
    OBVIOUS
  <1>2. /\ Head(s) \in M /\ Head(s) = s[1]
        /\ Len(s) \in Nat \ {0} /\ DOMAIN s = 1..Len(s) /\ DOMAIN t = 1..(Len(s) - 1)
        /\ \A i \in 1..(Len(s) - 1) : t[i] = s[i + 1]
    BY <1>1
  <1>3. ASSUME NEW x \in ToSet(s) PROVE x = Head(s) \/ x \in ToSet(t)
    <2>1. PICK i \in 1..Len(s) : x = s[i]
      BY <1>2, <1>3 DEF ToSet
    <2>2. CASE i # 1
      <3>1. i - 1 \in 1..(Len(s) - 1) /\ x = t[i - 1]
        BY <1>2, <2>1, <2>2
      <3> QED BY <1>2, <3>1 DEF ToSet
    <2> QED BY <1>2, <2>1, <2>2
  <1>4. Head(s) \in ToSet(s)
    BY <1>2 DEF ToSet
  <1>5. ASSUME NEW x \in ToSet(t) PROVE x \in ToSet(s)
    <2>1. PICK i \in 1..(Len(s) - 1) : x = t[i]
      BY <1>2, <1>5 DEF ToSet
    <2>2. i + 1 \in 1..Len(s) /\ x = s[i + 1]
      BY <1>2, <2>1
    <2> QED BY <1>2, <2>2 DEF ToSet
  <1> QED BY <1>1, <1>2, <1>3, <1>4, <1>5

\* What a message makes of the directory: the paths it tells of, and no body but
\* that of the note that is fetched next.
LEMMA ReceiveDoes ==
  ASSUME SyncInv, StartTypeOK, NEW c \in Clients, Receive(c),
         NEW m \in Message, m = Head(queue[c])
  PROVE  /\ DOMAIN local'[c] = IF m.client = c THEN DOMAIN local[c]
                               ELSE Learned(DOMAIN local[c], m)
         /\ \A p \in Files \cap DOMAIN local'[c] :
              \/ fetching'[c] = p
              \/ /\ p \in DOMAIN local[c] /\ local'[c][p].body = local[c][p].body
                 /\ ~(m.client # c /\ m.event = "CREATE" /\ m.path = p)
  <1>0. /\ DOMAIN local = Clients /\ DOMAIN fetching = Clients /\ now \in Nat /\ Empty \in Body
        /\ Sound(local[c]) /\ IsTree(local[c]) /\ m.path \in Paths
    BY DEF SyncInv, TypeOK, StartTypeOK, TreesInv, TreesSound, Body, Message
  <1>1. CASE m.client = c
    <2>1. local'[c] = local[c]
      BY <1>1 DEF Receive
    <2> QED BY <1>1, <2>1
  <1>2. CASE m.client # c /\ m.event = "CREATE" /\ m.path \in Files
    <2>1. /\ local'[c] = CreateFile(local[c], m.path, Empty, now)
          /\ fetching'[c] = m.path
      BY <1>0, <1>2 DEF Receive, Files
    <2>2. /\ DOMAIN local'[c] = DOMAIN local[c] \cup {m.path} \cup Above(m.path)
          /\ KeepsApartFrom({m.path}, local[c], local'[c])
      <3>1. PICK t, x, i : t = local[c] /\ x = m.path /\ i = now
        OBVIOUS
      <3>2. Sound(t) /\ x \in Files /\ i \in Nat
        BY <1>0, <1>2, <3>1
      <3>3. PICK u : u = CreateFile(t, x, Empty, i)
        OBVIOUS
      <3>4. DOMAIN u = DOMAIN t \cup {x} \cup Above(x) /\ KeepsApartFrom({x}, t, u)
        BY <3>2, <3>3, CreateEmpty
      <3>5. local'[c] = u
        BY <2>1, <3>1, <3>3
      <3> QED BY <3>1, <3>4, <3>5
    <2>3. Above(m.path) \cap Files = {}
      BY <1>0, PathsAssumption DEF Files
    <2> QED BY <1>2, <2>1, <2>2, <2>3 DEF KeepsApartFrom, Learned
  <1>3. CASE m.client # c /\ m.event = "CREATE" /\ m.path \in Dirs
    <2>1. local'[c] = MkDir(local[c], m.path, now)
      BY <1>0, <1>3 DEF Receive, Files
    <2>2. /\ DOMAIN local'[c] = DOMAIN local[c] \cup {m.path} \cup Above(m.path)
          /\ KeepsApartFrom({}, local[c], local'[c])
      <3>1. PICK t, x, i : t = local[c] /\ x = m.path /\ i = now
        OBVIOUS
      <3>2. IsTree(t) /\ x \in Dirs /\ x \in Paths /\ i \in Nat
        BY <1>0, <1>3, <3>1
      <3>3. DOMAIN MkDir(t, x, i) = DOMAIN t \cup {x} \cup Above(x)
        BY <3>2, MkDirTree
      <3>4. KeepsApartFrom({}, t, MkDir(t, x, i))
        BY <3>2, MkDirKeeps
      <3>5. local'[c] = MkDir(t, x, i)
        BY <2>1, <3>1
      <3> QED BY <3>1, <3>3, <3>4, <3>5
    <2>3. ({m.path} \cup Above(m.path)) \cap Files = {}
      BY <1>0, <1>3, PathsAssumption DEF Files
    <2> QED BY <1>3, <2>2, <2>3 DEF KeepsApartFrom, Learned
  <1>4. CASE m.client # c /\ m.event # "CREATE"
    <2>1. local'[c] = Rm(local[c], m.path, now)
      BY <1>0, <1>4 DEF Receive
    <2>2. /\ DOMAIN local'[c] = DOMAIN local[c] \ Subtree(m.path)
          /\ KeepsApartFrom({}, local[c], local'[c])
      <3>1. PICK t, x, i : t = local[c] /\ x = m.path /\ i = now
        OBVIOUS
      <3>2. IsTree(t) /\ i \in Nat
        BY <1>0, <3>1
      <3>3. DOMAIN Rm(t, x, i) = DOMAIN t \ Subtree(x)
        BY <3>2, RmTree
      <3>4. KeepsApartFrom({}, t, Rm(t, x, i))
        BY <3>2, RmKeeps
      <3>5. local'[c] = Rm(t, x, i)
        BY <2>1, <3>1
      <3> QED BY <3>1, <3>3, <3>4, <3>5
    <2> QED BY <1>4, <2>2 DEF KeepsApartFrom, Learned
  <1>5. m.path \in Files \/ m.path \in Dirs
    BY <1>0 DEF Files
  <1> QED BY <1>1, <1>2, <1>3, <1>4, <1>5

\* A message moves from what a client expects to what it has.
LEMMA HearsReceive ==
  ASSUME SyncInv, StartTypeOK, ProgramInv, NEW c \in Clients, Receive(c), DomOf(c), BodyOf(c)
  PROVE  DomOf(c)' /\ BodyOf(c)'
  <1>1. /\ sync' = sync /\ server' = server /\ unsent' = unsent /\ missed' = missed
        /\ crossed' = crossed /\ fetching[c] = NoPath /\ queue[c] # <<>>
        /\ queue'[c] = Tail(queue[c]) /\ queue[c] \in Seq(Message)
    BY ConsumersStayApart DEF Apart, Receive, SyncInv, TypeOK
  <1>2. UnderWay' = UnderWay /\ Interest(c)' = Interest(c)
    BY <1>1, UnderWayStays DEF Interest
  <1>3. PICK m : m = Head(queue[c])
    OBVIOUS
  <1>4. /\ m \in Message
        /\ \A x : x \in ToSet(queue[c]) <=> x = m \/ x \in ToSet(queue'[c])
    <2>1. PICK s : s = queue[c]
      OBVIOUS
    <2>2. s \in Seq(Message) /\ s # <<>> /\ m = Head(s) /\ queue'[c] = Tail(s)
      BY <1>1, <1>3, <2>1
    <2>3. Head(s) \in Message /\ \A x : x \in ToSet(s) <=> x = Head(s) \/ x \in ToSet(Tail(s))
      BY <2>2, HeadAndTail
    <2> QED BY <2>1, <2>2, <2>3
  <1>5. /\ DOMAIN local'[c] = IF m.client = c THEN DOMAIN local[c]
                              ELSE Learned(DOMAIN local[c], m)
        /\ \A p \in Files \cap DOMAIN local'[c] :
             \/ fetching'[c] = p
             \/ /\ p \in DOMAIN local[c] /\ local'[c][p].body = local[c][p].body
                /\ ~(m.client # c /\ m.event = "CREATE" /\ m.path = p)
    BY <1>3, <1>4, ReceiveDoes
  <1>6. Expects(c)' = Expects(c)
    <2>1. DOMAIN local[c] \in SUBSET Paths
      BY ExpectsType DEF SyncInv
    <2>2. DOMAIN local'[c] = hearing(c)[<<DOMAIN local[c], m>>]
      BY <1>4, <1>5, <2>1, HearingIs
    <2> QED BY <1>1, <1>3, <2>2, ExpectsReceived DEF SyncInv
  <1>7. DomOf(c)'
    BY <1>1, <1>2, <1>6 DEF DomOf
  <1>8. BodyOf(c)'
    <2> SUFFICES ASSUME NEW p \in Interest(c)' \cap Files \cap DOMAIN local'[c] \cap DOMAIN server',
                        fetching'[c] # p
                 PROVE  local'[c][p].body = server'[p].body \/ Coming(c, p)'
      BY DEF BodyOf
    <2>1. /\ p \in DOMAIN local[c] /\ local'[c][p].body = local[c][p].body
          /\ ~(m.client # c /\ m.event = "CREATE" /\ m.path = p)
          /\ p \in Interest(c) /\ p \in DOMAIN server /\ p \in Files
      BY <1>1, <1>2, <1>5
    <2>2. fetching[c] # p
      BY <1>1, <2>1, RootAssumption DEF Files
    <2>3. local[c][p].body = server[p].body \/ Coming(c, p)
      BY <2>1, <2>2 DEF BodyOf
    <2>4. Coming(c, p) => Coming(c, p)'
      BY <1>2, <1>4, <2>1 DEF Coming
    <2> QED BY <1>1, <2>1, <2>3, <2>4
  <1> QED BY <1>7, <1>8

\* The download fills the note with what the server has.
LEMMA HearsFetch ==
  ASSUME SyncInv, StartTypeOK, NEW c \in Clients, Fetch(c), DomOf(c), BodyOf(c)
  PROVE  DomOf(c)' /\ BodyOf(c)'
  <1>1. PICK x : x = fetching[c]
    OBVIOUS
  <1>2. PICK body : body = IF x \in DOMAIN server THEN server[x].body ELSE ErrorPage
    OBVIOUS
  <1>3. /\ sync' = sync /\ server' = server /\ unsent' = unsent /\ missed' = missed
        /\ crossed' = crossed /\ queue' = queue
        /\ local'[c] = FillFile(local[c], x, body, now)
    BY <1>1, <1>2 DEF Fetch, SyncInv, TypeOK
  <1>4. UnderWay' = UnderWay /\ Interest(c)' = Interest(c)
    BY <1>3, UnderWayStays DEF Interest
  <1>5. /\ DOMAIN local'[c] = DOMAIN local[c]
        /\ \A p \in DOMAIN local[c] : p # x => local'[c][p] = local[c][p]
        /\ x \in DOMAIN local[c] => local'[c][x].body = body
    BY <1>3 DEF FillFile
  <1>6. DomOf(c)'
    BY <1>3, <1>4, <1>5 DEF DomOf, Expects
  <1>7. BodyOf(c)'
    <2> SUFFICES ASSUME NEW p \in Interest(c)' \cap Files \cap DOMAIN local'[c] \cap DOMAIN server'
                 PROVE  local'[c][p].body = server'[p].body \/ Coming(c, p)'
      BY DEF BodyOf
    <2>1. CASE p = x
      BY <1>2, <1>3, <1>5, <2>1
    <2>2. CASE p # x
      <3>1. local[c][p].body = server[p].body \/ Coming(c, p)
        BY <1>1, <1>3, <1>4, <1>5, <2>2 DEF BodyOf
      <3>2. Coming(c, p) => Coming(c, p)'
        BY <1>3, <1>4 DEF Coming
      <3> QED BY <1>3, <1>5, <2>2, <3>1, <3>2
    <2> QED BY <2>1, <2>2
  <1> QED BY <1>6, <1>7

\* No step makes a client that listens expect anything else than what the server
\* has or is about to announce.
LEMMA NextHears ==
  ASSUME SyncInv, StartTypeOK, ProgramInv, SteadyInv, PublisherInv, UnderWayInv, HearsInv,
         [StartNext]_allVars
  PROVE  HearsInv'
  <1> SUFFICES ASSUME NEW c \in Clients, Hears(c)'
               PROVE  DomOf(c)' /\ BodyOf(c)'
    BY DEF HearsInv
  <1>0. /\ TypeOK /\ ShapeInv /\ Phased
        /\ DOMAIN phase = Clients /\ DOMAIN fetching = Clients /\ DOMAIN missed = Clients
        /\ DOMAIN sync = Clients /\ DOMAIN local = Clients /\ DOMAIN queue = Clients \cup Listeners
    BY DEF SyncInv, ProgramInv, TypeOK, StartTypeOK
  <1>H. ASSUME Hears(c)
        PROVE  /\ DomOf(c) /\ BodyOf(c) /\ sync[c].pc = "idle"
               /\ \A m \in UnderWay : m.client # c
    BY <1>0, <1>H, HearsIdle DEF HearsInv
  <1>Q. ASSUME Hears(c), UnderWay' = UnderWay, sync'[c] = sync[c], local'[c] = local[c],
               queue'[c] = queue[c], fetching'[c] = fetching[c], server' = server,
               missed'[c] = missed[c], crossed' = crossed
        PROVE  DomOf(c)' /\ BodyOf(c)'
    BY <1>H, <1>Q, InterestShrinks, HearsFrame
  <1>1. CASE PurgeQueue(c)
    BY <1>1, HearsPurge
  <1>2. CASE Bind(c)
    <2>1. Hears(c)
      BY <1>0, <1>2 DEF Bind, Hears
    <2> QED BY <1>2, <1>H, <2>1, HearsBind
  <1>3. CASE Receive(c)
    <2>1. Hears(c)
      BY <1>3 DEF Receive, Hears
    <2> QED BY <1>3, <1>H, <2>1, HearsReceive
  <1>4. CASE Fetch(c)
    <2>1. Hears(c)
      BY <1>4 DEF Fetch, Hears
    <2> QED BY <1>4, <1>H, <2>1, HearsFetch
  <1>5. CASE Start(c) \/ Stop(c)
    BY <1>0, <1>5 DEF Start, Stop, Hears
  <1>6. CASE RunFails(c) \/ UserActs(c)
    BY <1>6 DEF RunFails, UserActs, Hears
  <1>7. CASE SyncStep(c)
    <2>1. Hears(c)
      BY <1>7 DEF SyncStep, Hears
    <2> QED BY <1>0, <1>7, <1>H, <2>1, IdleRests DEF SyncStep
  <1>8. ASSUME NEW d \in Clients \ {c}, SyncStep(d) PROVE DomOf(c)' /\ BodyOf(c)'
    <2>1. Hears(c)
      BY <1>8 DEF SyncStep, Hears
    <2> QED BY <1>8, <1>H, <2>1, HearsRun
  <1>9. CASE Announcing
    <2>1. Hears(c)
      BY <1>9 DEF Announcing, startVars, Hears
    <2> QED BY <1>9, <1>H, <2>1, HearsPublished
  <1>10. CASE AnnouncingFails
    <2>1. Hears(c)
      BY <1>10 DEF AnnouncingFails, Hears
    <2> QED BY <1>10, <1>H, <2>1, HearsLoss
  <1>11. ASSUME NEW d \in Clients \ {c}, PurgeQueue(d) \/ Bind(d) \/ Receive(d) \/ Fetch(d)
         PROVE  DomOf(c)' /\ BodyOf(c)'
    <2>1. /\ sync' = sync /\ server' = server /\ unsent' = unsent /\ crossed' = crossed
          /\ steady' = steady /\ phase'[c] = phase[c]
      BY <1>0, <1>11, ConsumersStayApart DEF Apart, PurgeQueue, Bind, Receive, Fetch
    <2>2. local'[c] = local[c] /\ fetching'[c] = fetching[c]
      BY <1>0, <1>11 DEF PurgeQueue, Bind, Receive, Fetch
    <2>3. queue'[c] = queue[c] /\ missed'[c] = missed[c]
      BY <1>0, <1>11 DEF PurgeQueue, Bind, Receive, Fetch, Misses
    <2>4. Hears(c)
      BY <2>1 DEF Hears
    <2> QED BY <1>Q, <2>1, <2>2, <2>3, <2>4, UnderWayStays
  <1>12. ASSUME NEW d \in Clients \ {c}, Start(d) \/ RunFails(d) \/ UserActs(d)
         PROVE  DomOf(c)' /\ BodyOf(c)'
    <2>1. SyncStart(d) \/ Failure(d) \/ User(d)
      BY <1>12 DEF Start, RunFails, UserActs
    <2>2. UnderWay' = UnderWay
      BY <1>0, <2>1, NoCopyStarts
    <2>3. /\ sync'[c] = sync[c] /\ local'[c] = local[c] /\ server' = server
          /\ queue'[c] = queue[c]
      BY <1>0, <2>1
      DEF SyncStart, Failure, User, TransferFail, HandlerFail, HandlerEnds, Kill, KillInSnapshot, Edit, NewDir, Delete,
          UserStep
    <2>4. /\ fetching' = fetching /\ missed'[c] = missed[c] /\ crossed' = crossed /\ Hears(c)
      BY <1>0, <1>12 DEF Start, RunFails, UserActs, Hears
    <2> QED BY <1>Q, <2>2, <2>3, <2>4
  <1>13. ASSUME NEW d \in Clients \ {c}, Stop(d) PROVE DomOf(c)' /\ BodyOf(c)'
    <2>1. /\ sync' = sync /\ local' = local /\ server' = server /\ unsent' = unsent
          /\ queue' = queue /\ fetching'[c] = fetching[c] /\ missed' = missed
          /\ crossed' = crossed /\ Hears(c)
      BY <1>0, <1>13 DEF Stop, vars, Hears
    <2> QED BY <1>Q, <2>1, UnderWayStays
  <1>14. CASE TimePasses \/ UNCHANGED allVars
    <2>1. /\ sync' = sync /\ local' = local /\ server' = server /\ unsent' = unsent
          /\ queue' = queue /\ fetching' = fetching /\ missed' = missed
          /\ crossed' = crossed /\ Hears(c)
      BY <1>14 DEF TimePasses, Tick, allVars, vars, startVars, Hears
    <2> QED BY <1>Q, <2>1, UnderWayStays
  <1>15. CASE \E d \in Clients : d # c /\
                \/ Start(d) \/ SyncStep(d) \/ PurgeQueue(d) \/ Bind(d)
                \/ Receive(d) \/ Fetch(d) \/ Stop(d)
                \/ RunFails(d) \/ UserActs(d)
    BY <1>8, <1>11, <1>12, <1>13, <1>15
  <1> QED
    BY <1>1, <1>2, <1>3, <1>4, <1>5, <1>6, <1>7, <1>9, <1>10, <1>14, <1>15 DEF StartNext

-----------------------------------------------------------------------------
\* The inductive invariant behind ListenersAgree.
ListenInv == /\ SyncInv /\ StartTypeOK /\ ProgramInv
             /\ PublisherInv /\ SteadyInv /\ UnderWayInv /\ HearsInv

\* It holds at the start: no client listens.
LEMMA InitListen == ~AtOnce /\ StartInit => ListenInv
  <1> SUFFICES ASSUME ~AtOnce, StartInit PROVE ListenInv
    OBVIOUS
  <1>1. Init
    BY DEF StartInit
  <1>2. SyncInv /\ StartTypeOK /\ ProgramInv
    BY <1>1, InitStartTypes, InitHidden, InitTrees, InitPrograms DEF SyncInv, ProgramInv
  <1>3. PublisherInv /\ SteadyInv /\ UnderWayInv /\ HearsInv
    BY <1>1 DEF StartInit, Init, PublisherInv, SteadyInv, UnderWayInv, UnderWay, NoOp, HearsInv,
                Hears
  <1> QED BY <1>2, <1>3 DEF ListenInv

\* Where the client is started after clientsync, a client that listens and whose
\* user lets it has what the server has when
\* nothing is under way, for any clients that start, synchronise, listen, stop
\* and fail beside it in any order.  Of what it does not have yet, HearsInv says
\* which message in its queue or under way is going to tell it; SteadyInv says that
\* its run leaves nothing else open when the queue is purged, and UnderWayInv that
\* what is announced late is still true.
THEOREM ListenersAlwaysAgree ==
  ASSUME ~AtOnce
  PROVE  StartSpec => []ListenersAgree
  <1>1. StartInit => ListenInv
    BY InitListen
  <1>2. StartInv /\ ListenInv /\ [StartNext]_allVars => ListenInv'
    <2> SUFFICES ASSUME StartInv, ListenInv, [StartNext]_allVars PROVE ListenInv'
      OBVIOUS
    <2>1. /\ SyncInv /\ TypeOK /\ ShapeInv /\ TreesInv /\ StartTypeOK /\ ProgramInv
          /\ PublisherInv /\ SteadyInv /\ UnderWayInv /\ HearsInv
      BY DEF ListenInv, SyncInv
    <2>2. TypeOK' /\ StartTypeOK' /\ TreesInv' /\ ProgramInv'
      BY <2>1, NextTypes, NextStartTypes, NextStartTrees, NextPrograms
    <2>3. HiddenInv'
      BY <2>1, StartSteps, NextHidden, BesideHidden DEF SyncInv
    <2>4. SyncInv'
      BY <2>2, <2>3 DEF SyncInv, ProgramInv
    <2>5. PublisherInv'
      <3>1. CASE [Next]_vars
        BY <2>1, <3>1, NextPublisher
      <3>2. CASE Beside
        BY <2>1, <3>2, BesideRuns DEF Beside, PublisherInv, TypeOK, Message
      <3> QED BY <3>1, <3>2, StartSteps
    <2>6. SteadyInv' /\ UnderWayInv' /\ HearsInv'
      BY <2>1, <2>4, NextSteady, NextUnderWay, NextHears
    <2> QED BY <2>2, <2>4, <2>5, <2>6 DEF ListenInv
  <1>3. ListenInv => ListenersAgree
    <2> SUFFICES ASSUME ListenInv, unsent = {}, \A c \in Clients : sync[c].pc = "idle",
                        NEW c \in steady, Listening(c), NEW p \in Interest(c)
                 PROVE  Same(local[c], server, p)
      BY DEF ListenersAgree, Interest
    <2>1. c \in Clients /\ Hears(c) /\ DomOf(c) /\ BodyOf(c) /\ p \in Paths
      BY DEF ListenInv, StartTypeOK, HearsInv, Hears, Listening, Interest
    <2>2. UnderWay = {}
      BY DEF ListenInv, SyncInv, ShapeInv, Shape, UnderWay
    <2>3. queue[c] = <<>> /\ fetching[c] = NoPath
      BY DEF Listening
    <2>4. p \in DOMAIN local[c] <=> p \in DOMAIN server
      BY <2>1, <2>2, <2>3, ExpectsNothing DEF DomOf
    <2>5. CASE p \in Dirs
      BY <2>1, <2>4, <2>5, SameDirs DEF ListenInv, SyncInv, TreesInv, TreesSound
    <2>6. CASE p \in Files
      <3>1. ~Coming(c, p) /\ fetching[c] # p
        BY <2>1, <2>2, <2>3, RootAssumption DEF Coming, ToSet
      <3> QED BY <2>1, <2>4, <2>6, <3>1 DEF BodyOf, Same
    <2> QED BY <2>1, <2>5, <2>6 DEF Files
  <1> QED BY <1>1, <1>2, <1>3, StartInvAlways, PTL DEF StartSpec
=============================================================================

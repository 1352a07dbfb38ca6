---------------------------- MODULE SnapshotSync ----------------------------
(***************************************************************************)
(* The start-up synchronisation: clientsync.go on each client's machine    *)
(* and, at the server, the /snapshot, /upload and /files handlers it       *)
(* calls.  A client's run of clientsync compares its directory with the    *)
(* necoshot.json the previous run left, posts the result, lets the server  *)
(* decide by last-write-wins who has to do what, performs the actions the  *)
(* server answers with and leaves a new necoshot.json.                     *)
(*                                                                         *)
(* Every HTTP request has a goroutine of its own at the server, so the     *)
(* steps of several clients' handlers interleave; users edit their         *)
(* directories meanwhile; a run may be killed and a request may fail.      *)
(***************************************************************************)
EXTENDS FileTree, FiniteSets, Replaying

CONSTANTS
  Clients,    \* the machines that run clientsync
  Listeners,  \* the clients whose queue is bound to the exchange
  NoShot,     \* no necoshot.json, or one that cannot be decoded
  MaxTime, MaxEdits, MaxSyncs, MaxFaults   \* bounds, for TLC only

ASSUME BoundsAssumption ==
  /\ MaxTime \in Nat /\ MaxEdits \in Nat /\ MaxSyncs \in Nat /\ MaxFaults \in Nat

VARIABLES
  now,      \* the time, in seconds, the same on every machine
  server,   \* the server's sync directory
  local,    \* each client's sync directory
  shot,     \* each client's .neco/necoshot.json
  sync,     \* each client's run of clientsync, with the server's handler of it
  unsent,   \* messages a handler is about to publish, its file operation done
  queue,    \* each client's RabbitMQ queue
  edits, syncs, faults,   \* how much of the bounds is used
  calm      \* clients whose last run nothing has disturbed since it started

vars == <<now, server, local, shot, sync, unsent, queue,
          edits, syncs, faults, calm>>

-----------------------------------------------------------------------------
Meta     == [body : Body, mtime : Nat, status : {"exists", "deleted"}]
IsSnapshot(f) == DOMAIN f \subseteq Paths /\ f \in [DOMAIN f -> Meta]

Effect   == [act : {"remove", "create"}, path : Paths]
Action   == [act : {"upload", "download", "mkdir"}, path : Paths]

\* The transfer a run is in: the body read and not yet posted ("post"), the
\* server's file open ("copy"), the local file open and the GET outstanding
\* ("fetch").  "linked" is lost when the open file is removed.
NoOp     == [step |-> "none", path |-> <<>>, body |-> Empty, linked |-> TRUE]
Transfer == {NoOp} \cup [step   : {"post", "copy", "fetch"},
                        path   : Paths,
                        body   : Body,
                        linked : BOOLEAN]

PCs == {"idle", "started", "posted", "handling", "acting", "orphan"}

IsRun(r) ==
  /\ IsSnapshot(r.final)
  /\ r \in [pc    : PCs,
            final : {r.final},       \* the snapshot posted to the server
            todo  : SUBSET Effect,   \* what the handler has yet to do
            acts  : SUBSET Action,   \* what the client has yet to do
            op    : Transfer]

Message == [client : Clients, event : {"CREATE", "REMOVE"}, path : Paths]

TypeOK ==
  /\ now \in Nat
  /\ IsTree(server)
  /\ DOMAIN local = Clients /\ \A c \in Clients : IsTree(local[c])
  /\ DOMAIN shot = Clients /\ \A c \in Clients : shot[c] = NoShot \/ IsSnapshot(shot[c])
  /\ DOMAIN sync = Clients /\ \A c \in Clients : IsRun(sync[c])
  /\ unsent \subseteq Message
  /\ queue \in [Clients \cup Listeners -> Seq(Message)]
  /\ edits \in Nat /\ syncs \in Nat /\ faults \in Nat
  /\ calm \subseteq Clients

Init ==
  /\ now = 0
  /\ server = NoFiles
  /\ local = [c \in Clients |-> NoFiles]
  /\ shot = [c \in Clients |-> NoShot]
  /\ sync = [c \in Clients |-> [pc |-> "idle", final |-> NoFiles,
                                todo |-> {}, acts |-> {}, op |-> NoOp]]
  /\ unsent = {}
  /\ queue = [q \in Clients \cup Listeners |-> <<>>]
  /\ edits = 0 /\ syncs = 0 /\ faults = 0
  /\ calm = {}

-----------------------------------------------------------------------------
(* The comparisons.                                                        *)

\* Mutant: the walk does not leave out what is hidden.
GetAllMetadata(t) ==
  [p \in DOMAIN t |->
     [body |-> t[p].body, mtime |-> t[p].mtime, status |-> "exists"]]

\* What a walk reports of a directory.
GetLocalMetadata(t) ==
  [p \in DOMAIN t \ Excluded |->
     [body |-> t[p].body, mtime |-> t[p].mtime, status |-> "exists"]]

\* The client's comparison: paths that have gone since the last necoshot.json
\* become tombstones, with the metadata the necoshot.json gives them.
FinalSnapshot(last, current) ==
  [p \in DOMAIN last \cup DOMAIN current |->
     IF p \in DOMAIN current THEN current[p]
                             ELSE [last[p] EXCEPT !.status = "deleted"]]

\* The server's comparison of its own snapshot s and the client's f.
ServerWinsTies(s, f, p) == s[p].mtime >= f[p].mtime   \* mutant
ServerWins(s, f, p) == s[p].mtime > f[p].mtime
HashDiffers(s, f, p) == p \in Files /\ s[p].body # f[p].body

\* Mutant: a path the client does not have needs no tombstone to go.
RemovalsOfMissing(s, f) ==
  {p \in DOMAIN s : p \in DOMAIN f => f[p].status = "deleted" /\ ~ServerWins(s, f, p)}

Removals(s, f) ==
  {p \in DOMAIN s \cap DOMAIN f :
     f[p].status = "deleted" /\ ~ServerWins(s, f, p)}
Creations(s, f) ==
  {p \in Dirs : p \in DOMAIN f /\ p \notin DOMAIN s}
\* Mutant: a tie with different contents is taken for agreement.
UploadsWithoutTies(s, f) ==
  {p \in Files \cap DOMAIN f :
     p \in DOMAIN s => /\ f[p].status = "exists"
                       /\ s[p].mtime < f[p].mtime
                       /\ HashDiffers(s, f, p)}

Uploads(s, f) ==
  {p \in Files \cap DOMAIN f :
     p \in DOMAIN s => /\ f[p].status = "exists"
                       /\ ~ServerWins(s, f, p)
                       /\ HashDiffers(s, f, p)}
Downloads(s, f) ==
  {p \in Files \cap DOMAIN s :
     p \in DOMAIN f => ServerWins(s, f, p) /\ HashDiffers(s, f, p)}
MkDirs(s, f) ==
  {p \in Dirs : p \in DOMAIN s /\ p \notin DOMAIN f}

Effects(s, f) == [act : {"remove"}, path : Removals(s, f)]
                   \cup [act : {"create"}, path : Creations(s, f)]
Actions(s, f) == [act : {"upload"}, path : Uploads(s, f)]
                   \cup [act : {"download"}, path : Downloads(s, f)]
                   \cup [act : {"mkdir"}, path : MkDirs(s, f)]

-----------------------------------------------------------------------------
(* The steps of a run.                                                     *)

\* A handler that waits for the broker holds up its client.
Publishing(c) == \E m \in unsent : m.client = c

Announce(c, event, p) ==
  unsent' = unsent \cup {[client |-> c, event |-> event, path |-> p]}

\* Whoever had a file open that is removed goes on with an unlinked file.
Unlink(step, removed) ==
  [c \in Clients |->
     IF sync[c].op.step = step /\ sync[c].op.path \in removed
       THEN [sync[c] EXCEPT !.op.linked = FALSE]
       ELSE sync[c]]

\* The queue is declared and purged.
SyncStart(c) ==
  /\ sync[c].pc = "idle"
  /\ syncs < MaxSyncs
  /\ sync' = [sync EXCEPT ![c].pc = "started", ![c].final = NoFiles]
  /\ queue' = [queue EXCEPT ![c] = <<>>]
  /\ syncs' = syncs + 1
  /\ calm' = calm \cup {c}
  /\ UNCHANGED <<now, server, local, shot, unsent, edits, faults>>

\* The last necoshot.json is read, the directory walked, and the result posted.
PostSnapshot(c) ==
  /\ sync[c].pc = "started"
  /\ LET current == GetLocalMetadata(local[c]) IN
     sync' = [sync EXCEPT
                ![c].pc = "posted",
                ![c].final = IF shot[c] = NoShot THEN current
                             ELSE FinalSnapshot(shot[c], current)]
  /\ UNCHANGED <<now, server, local, shot, unsent, queue,
                 edits, syncs, faults, calm>>

\* The server walks its directory and compares: what the loop over the paths
\* decides depends on the two snapshots only, not on the loop's own effects.
HandleSnapshot(c) ==
  /\ sync[c].pc = "posted"
  /\ LET s == GetLocalMetadata(server)
         f == sync[c].final
     IN sync' = [sync EXCEPT ![c].pc = "handling",
                             ![c].todo = Effects(s, f),
                             ![c].acts = Actions(s, f)]
  /\ UNCHANGED <<now, server, local, shot, unsent, queue,
                 edits, syncs, faults, calm>>

Handling(c) == sync[c].pc \in {"handling", "orphan"} /\ ~Publishing(c)

\* handleRemove, in the map's order, which is any order.
HandleRemove(c) ==
  \E e \in sync[c].todo :
    /\ Handling(c)
    /\ e.act = "remove"
    /\ server' = Rm(server, e.path, now)
    /\ sync' = [Unlink("copy", Subtree(e.path)) EXCEPT ![c].todo = @ \ {e}]
    /\ Announce(c, "REMOVE", e.path)
    /\ calm' = calm \cap {c}
    /\ UNCHANGED <<now, local, shot, queue, edits, syncs, faults>>

\* Mutant: the directory is created and nobody is told.
HandleDirectorySilently(c) ==
  \E e \in sync[c].todo :
    /\ Handling(c)
    /\ e.act = "create"
    /\ server' = MkDir(server, e.path, now)
    /\ sync' = [sync EXCEPT ![c].todo = @ \ {e}]
    /\ calm' = calm \cap {c}
    /\ UNCHANGED <<now, local, shot, unsent, queue, edits, syncs, faults>>

\* handleDirectory.
HandleDirectory(c) ==
  \E e \in sync[c].todo :
    /\ Handling(c)
    /\ e.act = "create"
    /\ server' = MkDir(server, e.path, now)
    /\ sync' = [sync EXCEPT ![c].todo = @ \ {e}]
    /\ Announce(c, "CREATE", e.path)
    /\ calm' = calm \cap {c}
    /\ UNCHANGED <<now, local, shot, queue, edits, syncs, faults>>

\* The handler answers; nobody reads the answer to a run that was killed.
Respond(c) ==
  /\ Handling(c)
  /\ sync[c].todo = {}
  /\ sync[c].op = NoOp
  /\ sync' = [sync EXCEPT ![c].pc = IF @ = "handling" THEN "acting" ELSE "idle"]
  /\ UNCHANGED <<now, server, local, shot, unsent, queue,
                 edits, syncs, faults, calm>>

Acting(c) == sync[c].pc = "acting" /\ sync[c].op = NoOp /\ ~Publishing(c)

\* Mutant: an upload whose file is gone is tried again.
UploadOpenRetrying(c) ==
  \E a \in sync[c].acts :
    /\ Acting(c)
    /\ a.act = "upload"
    /\ a.path \in DOMAIN local[c]
    /\ sync' = [sync EXCEPT
                  ![c].acts = @ \ {a},
                  ![c].op = [step |-> "post", path |-> a.path,
                             body |-> local[c][a.path].body, linked |-> TRUE]]
    /\ UNCHANGED <<now, server, local, shot, unsent, queue,
                   edits, syncs, faults, calm>>

\* Upload opens and reads the local file; a file that is not there is logged.
UploadOpen(c) ==
  \E a \in sync[c].acts :
    /\ Acting(c)
    /\ a.act = "upload"
    /\ sync' = [sync EXCEPT
                  ![c].acts = @ \ {a},
                  ![c].op = IF a.path \in DOMAIN local[c]
                              THEN [step |-> "post", path |-> a.path,
                                    body |-> local[c][a.path].body,
                                    linked |-> TRUE]
                              ELSE NoOp]
    /\ UNCHANGED <<now, server, local, shot, unsent, queue,
                   edits, syncs, faults, calm>>

\* uploadHandler creates, and so empties, the server's file ...
UploadCreate(c) ==
  LET op == sync[c].op IN
  /\ op.step = "post"
  /\ server' = CreateFile(server, op.path, Empty, now)
  /\ sync' = [sync EXCEPT ![c].op.step = "copy"]
  /\ calm' = calm \cap {c}
  /\ UNCHANGED <<now, local, shot, unsent, queue, edits, syncs, faults>>

\* ... fills it, and goes on to publish.
UploadCopy(c) ==
  LET op == sync[c].op IN
  /\ op.step = "copy"
  /\ server' = IF op.linked THEN FillFile(server, op.path, op.body, now)
                            ELSE server
  /\ sync' = [sync EXCEPT ![c].op = NoOp]
  /\ Announce(c, "CREATE", op.path)
  /\ calm' = calm \cap {c}
  /\ UNCHANGED <<now, local, shot, queue, edits, syncs, faults>>

\* Download creates, and so empties, the local file before it asks for it.
DownloadCreate(c) ==
  \E a \in sync[c].acts :
    /\ Acting(c)
    /\ a.act = "download"
    /\ local' = [local EXCEPT ![c] = CreateFile(@, a.path, Empty, now)]
    /\ sync' = [sync EXCEPT
                  ![c].acts = @ \ {a},
                  ![c].op = [step |-> "fetch", path |-> a.path,
                             body |-> Empty, linked |-> TRUE]]
    /\ UNCHANGED <<now, server, shot, unsent, queue,
                   edits, syncs, faults, calm>>

\* The answer's body goes into the file, whatever the answer's status.
DownloadCopy(c) ==
  LET op   == sync[c].op
      body == IF op.path \in DOMAIN server THEN server[op.path].body ELSE ErrorPage
  IN
  /\ op.step = "fetch"
  /\ local' = IF op.linked
                THEN [local EXCEPT ![c] = FillFile(@, op.path, body, now)]
                ELSE local
  /\ sync' = [sync EXCEPT ![c].op = NoOp]
  /\ UNCHANGED <<now, server, shot, unsent, queue, edits, syncs, faults, calm>>

ActionMkDir(c) ==
  \E a \in sync[c].acts :
    /\ Acting(c)
    /\ a.act = "mkdir"
    /\ local' = [local EXCEPT ![c] = MkDir(@, a.path, now)]
    /\ sync' = [sync EXCEPT ![c].acts = @ \ {a}]
    /\ UNCHANGED <<now, server, shot, unsent, queue,
                   edits, syncs, faults, calm>>

\* After the last action the directory is walked again for necoshot.json.
CreateDirectorySnapshot(c) ==
  /\ Acting(c)
  /\ sync[c].acts = {}
  /\ shot' = [shot EXCEPT ![c] = GetLocalMetadata(local[c])]
  /\ sync' = [sync EXCEPT ![c].pc = "idle"]
  /\ UNCHANGED <<now, server, local, unsent, queue,
                 edits, syncs, faults, calm>>

-----------------------------------------------------------------------------
(* The broker, the users, and what can go wrong.                           *)

\* The topic exchange copies the message to every bound queue.
Publish ==
  \E m \in unsent :
    /\ unsent' = unsent \ {m}
    /\ queue' = [q \in DOMAIN queue |->
                   IF q \in Listeners THEN Append(queue[q], m) ELSE queue[q]]
    /\ UNCHANGED <<now, server, local, shot, sync, edits, syncs, faults, calm>>

Fault(c) ==
  /\ faults < MaxFaults
  /\ faults' = faults + 1
  /\ calm' = calm \ {c}

\* processSnapshots returns the error, /snapshot answers 500 with its work half
\* done, and the run ends.
HandlerEnds(c) ==
  sync' = [sync EXCEPT ![c].pc = "idle", ![c].todo = {}, ![c].acts = {}]

\* RemoveAll or MkdirAll fails.
HandlerFail(c) ==
  /\ Handling(c) /\ sync[c].todo # {}
  /\ Fault(c)
  /\ HandlerEnds(c)
  /\ UNCHANGED <<now, server, local, shot, unsent, queue, edits, syncs>>

\* A message the broker rejects or releases is only logged, and so is an error of
\* the publisher after an upload; otherwise that is an error of the handler.
PublishFail ==
  \E m \in unsent :
    /\ Fault(m.client)
    /\ unsent' = unsent \ {m}
    /\ \/ UNCHANGED sync
       \/ sync[m.client].pc \in {"handling", "orphan"} /\ HandlerEnds(m.client)
    /\ UNCHANGED <<now, server, local, shot, queue, edits, syncs>>

\* The POST of an upload fails before the server has made the file (os.Create
\* does, too, when another handler has removed the directory since MkdirAll), or
\* the GET of a download fails with the local file already emptied; both are
\* logged.
TransferFail(c) ==
  /\ sync[c].op.step \in {"post", "fetch"}
  /\ Fault(c)
  /\ sync' = [sync EXCEPT ![c].op = NoOp]
  /\ UNCHANGED <<now, server, local, shot, unsent, queue, edits, syncs>>

\* The run is killed, or cannot reach the server.  A handler at work goes on.
Kill(c) ==
  LET atServer == \/ sync[c].pc = "handling"
                  \/ sync[c].op.step = "copy"
                  \/ Publishing(c)
  IN
  /\ sync[c].pc \notin {"idle", "orphan"}
  /\ Fault(c)
  /\ sync' = [sync EXCEPT ![c].pc = IF atServer THEN "orphan" ELSE "idle",
                          ![c].acts = {},
                          ![c].op = IF @.step = "copy" THEN @ ELSE NoOp]
  /\ UNCHANGED <<now, server, local, shot, unsent, queue, edits, syncs>>

\* Killed while it writes necoshot.json, which is then no JSON.
KillInSnapshot(c) ==
  /\ Acting(c)
  /\ sync[c].acts = {}
  /\ Fault(c)
  /\ shot' = [shot EXCEPT ![c] = NoShot]
  /\ sync' = [sync EXCEPT ![c].pc = "idle"]
  /\ UNCHANGED <<now, server, local, unsent, queue, edits, syncs>>

UserStep(c) ==
  /\ edits < MaxEdits
  /\ edits' = edits + 1
  /\ calm' = calm \ {c}
  /\ UNCHANGED <<now, server, shot, unsent, queue, syncs, faults>>

\* The number of the edit is what it writes, so later edits have larger bodies.
Edit(c) ==
  \E p \in Files :
    /\ UserStep(c)
    /\ local' = [local EXCEPT ![c] = CreateFile(@, p, edits + 1, now)]
    /\ UNCHANGED sync

NewDir(c) ==
  \E p \in Dirs \ DOMAIN local[c] :
    /\ UserStep(c)
    /\ local' = [local EXCEPT ![c] = MkDir(@, p, now)]
    /\ UNCHANGED sync

Delete(c) ==
  \E p \in DOMAIN local[c] :
    /\ UserStep(c)
    /\ local' = [local EXCEPT ![c] = Rm(@, p, now)]
    /\ sync' = [sync EXCEPT ![c] =
                  IF @.op.step = "fetch" /\ @.op.path \in Subtree(p)
                    THEN [@ EXCEPT !.op.linked = FALSE] ELSE @]

Tick ==
  /\ now < MaxTime
  /\ now' = now + 1
  /\ UNCHANGED <<server, local, shot, sync, unsent, queue,
                 edits, syncs, faults, calm>>

-----------------------------------------------------------------------------
HandlerStep(c) == \/ HandleSnapshot(c) \/ HandleRemove(c) \/ HandleDirectory(c)
                  \/ Respond(c)
ActionStep(c)  == \/ UploadOpen(c) \/ UploadCreate(c) \/ UploadCopy(c)
                  \/ DownloadCreate(c) \/ DownloadCopy(c) \/ ActionMkDir(c)
RunStep(c)     == \/ PostSnapshot(c) \/ HandlerStep(c) \/ ActionStep(c)
                  \/ CreateDirectorySnapshot(c)
Failure(c)     == TransferFail(c) \/ HandlerFail(c) \/ Kill(c) \/ KillInSnapshot(c)
User(c)        == Edit(c) \/ NewDir(c) \/ Delete(c)

Next ==
  \/ \E c \in Clients : SyncStart(c) \/ RunStep(c) \/ Failure(c) \/ User(c)
  \/ Publish
  \/ PublishFail
  \/ Tick

Spec == Init /\ [][Next]_vars

\* A run goes on until it ends, and so does the server's handler of it, which
\* waits only for the broker.  Nobody has to start a run, edit, or fail.
Fairness == /\ \A c \in Clients : WF_vars(RunStep(c))
            /\ WF_vars(Publish)

FairSpec == Spec /\ Fairness

-----------------------------------------------------------------------------
(* Properties.                                                             *)

Completed(c)    == c \in calm /\ sync[c].pc = "idle"
Tombstones(f)   == {p \in DOMAIN f : f[p].status = "deleted"}
Doomed(f)       == UNION {Subtree(p) : p \in Tombstones(f)}
Same(t, u, p)   == /\ p \in DOMAIN t <=> p \in DOMAIN u
                   /\ p \in DOMAIN t => t[p].body = u[p].body

\* A run of clientsync that nobody disturbed leaves its client and the server
\* with the same paths and the same contents, apart from what is hidden and
\* from what the client had deleted: whatever earlier runs left half done,
\* in whatever order the server's loop and the client's loop took the paths.
CalmSyncAgrees ==
  \A c \in Clients : Completed(c) =>
    \A p \in Paths \ (Excluded \cup Doomed(sync[c].final)) :
      Same(local[c], server, p)

\* Nothing goes from the server's directory but what some client had when it
\* last completed a run and no longer had when it posted its snapshot, or what
\* lies below such a path: no interleaving of handlers, no restart and no lost
\* or unreadable necoshot.json makes the server remove what nobody deleted.
RemovalNeedsTombstone ==
  [][\A p \in DOMAIN server \ DOMAIN server' :
       \E c \in Clients :
         /\ shot[c] # NoShot
         /\ \E q \in Tombstones(sync[c].final) \cap DOMAIN shot[c] :
              p \in Subtree(q)]_vars

\* What is below .neco, .obsidian or .trash stays on its machine.
HiddenStaysLocal ==
  DOMAIN server \cap Excluded = {}

\* What a run nobody disturbs overwrites is not newer than what it writes: an
\* upload replaces a file of the server only if the client's is at least as
\* new, a download replaces a file of the client only if the server's is newer,
\* and a tombstone takes a file of the server only if it is at least as new.  The
\* decision was taken several steps earlier, on metadata.  The exception is a
\* note in a directory that is removed: RemoveAll takes it however new it is.
CalmSyncRespectsMtimes ==
  [][\A c \in calm \cap calm' : \A p \in Files :
       LET before == sync[c].op
           after  == sync'[c].op
           final  == sync[c].final
       IN /\ before.step = "post" /\ after.step = "copy"
               /\ before.path = p /\ p \in DOMAIN server
               => local[c][p].mtime >= server[p].mtime
          /\ before.step = "none" /\ after.step = "fetch"
               /\ after.path = p /\ p \in DOMAIN local[c]
               => server[p].mtime > local[c][p].mtime
          /\ p \in DOMAIN server \ DOMAIN server'
               /\ (Tombstones(final) \ DOMAIN server') \cap Above(p) = {}
               => p \in Tombstones(final) /\ final[p].mtime >= server[p].mtime]_vars

\* What a consumer of the queue has after it has done what a message says: a
\* CREATE makes the path and what is above it, a REMOVE takes the subtree.
Learned(paths, m) ==
  IF m.event = "CREATE" THEN paths \cup {m.path} \cup Above(m.path)
                        ELSE paths \ Subtree(m.path)
learning == [x \in (SUBSET Paths) \X Message |-> Learned(x[1], x[2])]

Heard(q) == Replay(learning, {}, queue[q])

\* A client that only listens learns from its queue exactly the paths the
\* server has, whenever the server has published what it did: every effect of
\* a synchronisation is announced, and in an order that gives the same tree.
\* (With one client: the effects of two may be announced in another order than
\* done, and an upload announces its file when another handler has removed it.)
ListenerSeesServer ==
  (unsent = {} /\ faults = 0 /\ \A c \in Clients : sync[c].op.step # "copy")
    => \A q \in Listeners \ Clients : Heard(q) = DOMAIN server

\* A run ends, and so does the server's handler of a run that was killed.
SyncTerminates ==
  \A c \in Clients : sync[c].pc # "idle" ~> sync[c].pc = "idle"

-----------------------------------------------------------------------------
(* What the documentation says and the code does not do.                   *)

\* README.md:93, "tombstones for deletions": after a run that nobody disturbed,
\* what the client had deleted is not on the server.  (One client only, so no
\* one else can have written the path since.)
DeletionsPropagate ==
  \A c \in Clients : Completed(c) =>
    Tombstones(sync[c].final) \cap DOMAIN server = {}

\* README.md:93, "Last Write Wins": a download does not replace what a user
\* wrote by what a user wrote before that.
LaterEditWins ==
  [][\A c \in calm, p \in Files :
       /\ sync[c].op = NoOp
       /\ sync'[c].op.step = "fetch"
       /\ p = sync'[c].op.path
       /\ p \in DOMAIN local[c] \cap DOMAIN server
       /\ {local[c][p].body, server[p].body} \subseteq 1..MaxEdits
       => server[p].body > local[c][p].body]_vars

\* types.go:86, "downloads a file from the server": a file that no upload is
\* filling has, at the server, what some user wrote.
OnlyUserBytes ==
  \A p \in Files \cap DOMAIN server :
    \/ server[p].body \in 1..MaxEdits
    \/ \E c \in Clients : sync[c].op.step = "copy" /\ sync[c].op.path = p
=============================================================================

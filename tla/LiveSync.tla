------------------------------ MODULE LiveSync ------------------------------
(***************************************************************************)
(* The running system: clients (client.go), the server's handlers of their *)
(* requests (server.go) and the broker between them, with directories.     *)
(*                                                                         *)
(* Each client watches the directories it has added to its watcher, sends  *)
(* a request for what its user does and does to its own directory what the *)
(* messages say that others did.  What goes on between the goroutines of   *)
(* one client is in ClientWatch; here a client's debouncer is the set of   *)
(* notes it holds a write of and its channel has room for everything.      *)
(*                                                                         *)
(* A directory has no directories in it: fsnotify goes on giving the old   *)
(* names below a directory that has moved, which is left out.              *)
(***************************************************************************)
EXTENDS FileTree, FiniteSets

CONSTANTS
  Clients,     \* the machines that run the client
  Users,       \* those whose users do something
  UserOps,     \* what the users do in this instance
  Prompt,      \* the echo of what a consumer does is seen within a second
  Patient,     \* no user renames what, or to what, the server has yet to be told of
  MaxEdits, MaxFaults   \* bounds, for TLC only

ASSUME FlatAssumption == \A d \in Dirs : Under(d) \cap Dirs = {}
ASSUME LiveAssumption ==
  Users \subseteq Clients /\ MaxEdits \in Nat /\ MaxFaults \in Nat

\* The length of a path is limited; what one directory may have in it any may.
ASSUME FiniteAssumption == IsFiniteSet(Paths)
ASSUME NamesAssumption ==
  \A d, e \in Dirs : \A p \in Under(d) : Rebase(p, d, e) \in Files

VARIABLES
  server,    \* the server's sync directory
  filling,   \* the file an upload of the client has open there
  local,     \* each client's
  watched,   \* the directories its watcher has been given and that are there
  events,    \* what fsnotify has yet to deliver
  held,      \* the notes the debouncer holds a write of
  channel,   \* EventProcessor.fileEvents
  proc,      \* the processEvents goroutine, with the server's handler of its request
  queue,     \* the client's RabbitMQ queue
  consumer,  \* the consume goroutine
  ignored,   \* IgnoreEvents.timers
  edits, faults,   \* how much of the bounds is used
  past       \* what has happened to paths, for the properties

client == <<watched, events, held, channel, proc, consumer, ignored>>
vars   == <<server, filling, local, client, queue, edits, faults, past>>

-----------------------------------------------------------------------------
Root   == <<>>       \* the sync directory, which is always watched
NoPath == <<"none">>
Parent(p) == Front(p)

ASSUME NoPathAssumption == NoPath \notin Paths
ASSUME RootAssumption == Root \notin Paths /\ \A p \in Paths : Parent(p) \in Dirs \cup {Root}

\* A note is renamed to a note, a directory to a directory.
SameKind(p, q) == p \in Dirs <=> q \in Dirs
ToSameKind(R)  == {r \in R : SameKind(r.old, r.path)}

Event   == [op : {"CREATE", "RENAME", "REMOVE"}, path : Paths, old : {NoPath}]
             \cup [op : {"WRITE"}, path : Files, old : {NoPath}]
             \cup ToSameKind([op : {"CREATE", "NECO_RENAME"}, path : Paths, old : Paths])
Request == [op : {"upload"}, path : Files, old : {NoPath}, body : Body]
             \cup [op : {"mkdir", "remove"}, path : Paths, old : {NoPath}, body : {NoBody}]
             \cup ToSameKind([op : {"rename"}, path : Paths, old : Paths, body : {NoBody}])
Message == [client : Clients, event : {"CREATE", "REMOVE"}, path : Paths, old : {NoPath}]
             \cup ToSameKind([client : Clients, event : {"NECO_RENAME"},
                              path : Paths, old : Paths])

\* In "fill" the handler of an upload has created its file and not yet filled it,
\* in "publish" the handler has changed the directory and not yet published.
ProcState == [pc : {"idle"}] \cup [pc : {"send", "fill", "publish"}, req : Request]

\* In "add" the consumer is about to give "from" to the watcher; in "fetch" it
\* has asked for "from" and "file" is the name the open file has by now.
ConsumerState == [pc : {"idle"}, from : {NoPath}, file : {NoPath}]
                   \cup [pc : {"add"}, from : Dirs, file : {NoPath}]
                   \cup [pc : {"fetch"}, from : Files, file : Files \cup {NoPath}]

\* touched: by the users of which clients; lost: a request or a message about the
\* path was lost; unseen: a change of the path raised no event; moved: has, or
\* had, what was another path's, or has something in it that moved.
Past == [touched : [Paths -> SUBSET Clients],
         lost : SUBSET Paths, unseen : SUBSET Paths, moved : SUBSET Paths]

TypeOK ==
  /\ IsRooted(server) /\ DOMAIN local = Clients /\ \A c \in Clients : IsRooted(local[c])
  /\ filling \in [Clients -> Files \cup {NoPath}]
  /\ watched \in [Clients -> SUBSET (Dirs \cup {Root})]
  /\ \A c \in Clients : watched[c] \subseteq DOMAIN local[c] \cup {Root}
  /\ events \in [Clients -> Seq(Event)] /\ channel \in [Clients -> Seq(Event)]
  /\ held \in [Clients -> SUBSET Files] /\ ignored \in [Clients -> SUBSET Paths]
  /\ proc \in [Clients -> ProcState] /\ consumer \in [Clients -> ConsumerState]
  /\ queue \in [Clients -> Seq(Message)]
  /\ edits \in Nat /\ faults \in Nat
  /\ past \in Past

Idle == [pc |-> "idle"]
NotConsuming == [pc |-> "idle", from |-> NoPath, file |-> NoPath]

\* Started on directories that clientsync has brought in agreement.  The walk that
\* gives every directory to the watcher is over: in the code the consumer already
\* works while it goes on, what it does then raises no events in directories still
\* to come, and a directory that goes meanwhile ends the client (log.Fatal).
Init ==
  /\ \E S \in SUBSET Paths :
       /\ \A p \in S : Above(p) \subseteq S
       /\ server = [p \in S |-> [body |-> IF p \in Dirs THEN NoBody ELSE 0, mtime |-> 0]]
  /\ local = [c \in Clients |-> server]
  /\ filling = [c \in Clients |-> NoPath]
  /\ watched = [c \in Clients |-> {Root} \cup (Dirs \cap DOMAIN server)]
  /\ events = [c \in Clients |-> <<>>] /\ channel = [c \in Clients |-> <<>>]
  /\ queue = [c \in Clients |-> <<>>]
  /\ held = [c \in Clients |-> {}] /\ ignored = [c \in Clients |-> {}]
  /\ proc = [c \in Clients |-> Idle]
  /\ consumer = [c \in Clients |-> NotConsuming]
  /\ edits = 0 /\ faults = 0
  /\ past = [touched |-> [p \in Paths |-> {}], lost |-> {}, unseen |-> {}, moved |-> {}]

\* What a path has to do with: what is in it, and the directory it is in.
Around(p) == Subtree(p) \cup Above(p)

-----------------------------------------------------------------------------
(* The directory of a client and what fsnotify makes of it: an event has the *)
(* name of what is in a watched directory.                                   *)

FsEvent(op, p)    == [op |-> op, path |-> p, old |-> NoPath]
Renamed(op, p, q) == [op |-> op, path |-> q, old |-> p]

Seen(c, p) == Parent(p) \in watched[c]
See(c, op, p) == IF Seen(c, p) THEN <<FsEvent(op, p)>> ELSE <<>>

\* inotify pairs the two halves of a rename only if it sees both.
SeeRename(c, p, q) ==
  IF Seen(c, p) /\ Seen(c, q) THEN <<FsEvent("RENAME", p), Renamed("CREATE", p, q)>>
                              ELSE See(c, "RENAME", p) \o See(c, "CREATE", q)

SeeAll(c, op, S) ==
  LET seen == SetToSeq({p \in S : Seen(c, p)})
  IN [i \in DOMAIN seen |-> FsEvent(op, seen[i])]

\* RemoveAll takes what is in a directory first, in the directory's order.
SeeRemoval(c, p) ==
  SeeAll(c, "REMOVE", DOMAIN local[c] \cap Under(p)) \o
  (IF p \in DOMAIN local[c] THEN See(c, "REMOVE", p) ELSE <<>>)

Raise(c, es) == events' = [events EXCEPT ![c] = @ \o es]

\* watcher.Add of what is not there is an error nobody looks at.
AddWatch(c, d) ==
  watched' = [watched EXCEPT ![c] = IF d \in DOMAIN local[c] THEN @ \cup {d} ELSE @]

\* The watch of a directory that is removed or moved ends.
EndWatch(c, p) == watched' = [watched EXCEPT ![c] = @ \ Subtree(p)]

-----------------------------------------------------------------------------
(* The client: watch, the debouncer's callback, processEvents.             *)

Put(c, ev) == channel' = [channel EXCEPT ![c] = Append(@, ev)]

\* Mutant: a rename is taken for a creation.
CreatedOnly(ev) == ev

Created(ev) == IF ev.old = NoPath THEN ev ELSE [ev EXCEPT !.op = "NECO_RENAME"]

Watch(c) ==
  /\ events[c] # <<>>
  /\ events' = [events EXCEPT ![c] = Tail(@)]
  /\ LET ev == Head(events[c]) IN
     \/ /\ ev.path \in ignored[c]
        /\ UNCHANGED <<held, channel>>
     \/ /\ ev.path \notin ignored[c] /\ ev.op = "WRITE"
        /\ held' = [held EXCEPT ![c] = @ \cup {ev.path}]
        /\ UNCHANGED channel
     \/ /\ ev.path \notin ignored[c] /\ ev.op = "CREATE"
        /\ Put(c, Created(ev))
        /\ UNCHANGED held
     \/ /\ ev.path \notin ignored[c] /\ ev.op = "RENAME"
        /\ held' = [held EXCEPT ![c] = @ \ {ev.path}]
        /\ UNCHANGED channel
     \/ /\ ev.path \notin ignored[c] /\ ev.op = "REMOVE"
        /\ held' = [held EXCEPT ![c] = @ \ {ev.path}]
        /\ Put(c, ev)
  /\ UNCHANGED <<server, filling, local, watched, proc, queue, consumer, ignored,
                 edits, faults, past>>

\* Ten seconds after the last write.
Release(c) ==
  /\ \E p \in held[c] :
       /\ held' = [held EXCEPT ![c] = @ \ {p}]
       /\ Put(c, FsEvent("WRITE", p))
  /\ UNCHANGED <<server, filling, local, watched, events, proc, queue, consumer, ignored,
                 edits, faults, past>>

Send(c, op, p, old, body) ==
  proc' = [proc EXCEPT ![c] =
             [pc |-> "send", req |-> [op |-> op, path |-> p, old |-> old, body |-> body]]]

\* Mutant: only a directory that has been renamed is given to the watcher.
AddRenamedOnly(c, ev) ==
  IF ev.op = "NECO_RENAME" THEN AddWatch(c, ev.path) ELSE UNCHANGED watched

AddNew(c, ev) == AddWatch(c, ev.path)

\* The processor gives a new directory to the watcher before it tells the server.
Process(c) ==
  /\ proc[c].pc = "idle" /\ channel[c] # <<>>
  /\ channel' = [channel EXCEPT ![c] = Tail(@)]
  /\ LET ev == Head(channel[c])
         p  == ev.path
         uploads == /\ p \in Files \cap DOMAIN local[c]
                    /\ \/ ev.op = "CREATE"
                       \/ ev.op = "WRITE" /\ p \notin ignored[c]
     IN
     \/ /\ uploads
        /\ Send(c, "upload", p, NoPath, local[c][p].body)
        /\ UNCHANGED watched
     \/ /\ ev.op \in {"CREATE", "WRITE"} /\ p \in Files /\ ~uploads
        /\ UNCHANGED <<proc, watched>>
     \/ /\ ev.op = "CREATE" /\ p \in Dirs
        /\ AddNew(c, ev)
        /\ Send(c, "mkdir", p, NoPath, NoBody)
     \/ /\ ev.op = "NECO_RENAME"
        /\ IF p \in Dirs THEN AddNew(c, ev) ELSE UNCHANGED watched
        /\ Send(c, "rename", p, ev.old, NoBody)
     \/ /\ ev.op = "REMOVE"
        /\ Send(c, "remove", p, NoPath, NoBody)
        /\ UNCHANGED watched
  /\ UNCHANGED <<server, filling, local, events, held, queue, consumer, ignored,
                 edits, faults, past>>

-----------------------------------------------------------------------------
(* The server's handlers and the broker.                                   *)

\* uploadHandler makes the directories above the note too, and tells nobody.
Serve(t, req) ==
  CASE req.op = "upload" -> CreateFile(t, req.path, Empty, 0)
    [] req.op = "mkdir"  -> MkDir(t, req.path, 0)
    [] req.op = "rename" -> Move(t, req.old, req.path, 0)
    [] req.op = "remove" -> Rm(t, req.path, 0)

\* What a rename that is refused leaves out, after a failure, is the failure's.
RefusedAfterFailure(p, q) ==
  past' = IF faults = 0 THEN past
          ELSE [past EXCEPT !.lost = @ \cup Subtree(p) \cup Subtree(q)]

Refused(t, req) == req.op = "rename" /\ ~CanMove(t, req.old, req.path)

\* The name an open file has after the request, if it still has one.
Follow(file, req) ==
  CASE req.op = "remove" /\ file \in Subtree(req.path) -> NoPath
    [] req.op = "rename" /\ file = req.path            -> NoPath
    [] req.op = "rename" /\ file \in Subtree(req.old)  -> Rebase(file, req.old, req.path)
    [] OTHER                                           -> file

\* os.Create opens the file of an upload; what others have open goes with its name.
Opened(c, req) ==
  [d \in Clients |-> IF d = c THEN (IF req.op = "upload" THEN req.path ELSE NoPath)
                             ELSE Follow(filling[d], req)]

\* Mutant: a request the server refuses is sent again.
HandleRetrying(c) ==
  LET req == proc[c].req IN
  /\ proc[c].pc = "send" /\ ~Refused(server, req)
  /\ proc' = [proc EXCEPT ![c].pc = IF req.op = "upload" THEN "fill" ELSE "publish"]
  /\ server' = Serve(server, req)
  /\ filling' = Opened(c, req)
  /\ UNCHANGED <<local, watched, events, held, channel, queue, consumer, ignored,
                 edits, faults, past>>

Handle(c) ==
  LET req == proc[c].req IN
  /\ proc[c].pc = "send"
  /\ IF Refused(server, req)
       THEN /\ proc' = [proc EXCEPT ![c] = Idle]
            /\ RefusedAfterFailure(req.old, req.path)
            /\ UNCHANGED <<server, filling>>
       ELSE /\ proc' = [proc EXCEPT ![c].pc = IF req.op = "upload" THEN "fill"
                                                                  ELSE "publish"]
            /\ server' = Serve(server, req)
            /\ filling' = Opened(c, req)
            /\ UNCHANGED past
  /\ UNCHANGED <<local, watched, events, held, channel, queue, consumer, ignored,
                 edits, faults>>

\* io.Copy fills what has been opened, whatever its name is now; a file that has
\* been removed meanwhile takes it too, and is announced all the same.
Fill(c) ==
  /\ proc[c].pc = "fill"
  /\ proc' = [proc EXCEPT ![c].pc = "publish"]
  /\ server' = IF filling[c] = NoPath THEN server
                ELSE FillFile(server, filling[c], proc[c].req.body, 0)
  /\ filling' = [filling EXCEPT ![c] = NoPath]
  /\ UNCHANGED <<local, watched, events, held, channel, queue, consumer, ignored,
                 edits, faults, past>>

Announcement(c) ==
  LET req == proc[c].req IN
  [client |-> c, path |-> req.path, old |-> req.old,
   event  |-> CASE req.op \in {"upload", "mkdir"} -> "CREATE"
                [] req.op = "rename" -> "NECO_RENAME"
                [] req.op = "remove" -> "REMOVE"]

\* The exchange copies the message to every queue; a client discards its own.
Publish(c) ==
  /\ proc[c].pc = "publish"
  /\ queue' = [q \in Clients |-> IF q = c THEN queue[q]
                                 ELSE Append(queue[q], Announcement(c))]
  /\ proc' = [proc EXCEPT ![c] = Idle]
  /\ UNCHANGED <<server, filling, local, watched, events, held, channel, consumer, ignored,
                 edits, faults, past>>

\* The request does not get to the server, or the message not to the broker:
\* both are logged, and nothing tries again.
Fail(c) ==
  /\ proc[c].pc \in {"send", "publish"} /\ faults < MaxFaults
  /\ faults' = faults + 1
  /\ proc' = [proc EXCEPT ![c] = Idle]
  /\ past' = [past EXCEPT !.lost = @ \cup UNION {Around(p) :
                 p \in Paths \cap {proc[c].req.path, proc[c].req.old}}]
  /\ UNCHANGED <<server, filling, local, watched, events, held, channel, queue, consumer,
                 ignored, edits>>

-----------------------------------------------------------------------------
(* The consumer and the ignore list.                                       *)

\* Mutant: a rename has only its old name ignored.
IgnoredByOld(m) == {IF m.event = "NECO_RENAME" THEN m.old ELSE m.path}

\* Mutant: the consumer does not have what it removes ignored.
IgnoredUnlessRemoved(m) ==
  IF m.event = "REMOVE" THEN {} ELSE {m.path} \cup ({m.old} \ {NoPath})

IgnoredBy(m) == {m.path} \cup ({m.old} \ {NoPath})

Consuming(pc, from, file) == [pc |-> pc, from |-> from, file |-> file]

\* Mutant: a note that is there is not downloaded again.
ConsumeNewNote(c, p) ==
  /\ IF p \in DOMAIN local[c] THEN UNCHANGED <<local, events, consumer>>
     ELSE /\ local' = [local EXCEPT ![c] = CreateFile(@, p, Empty, 0)]
          /\ Raise(c, See(c, "CREATE", p))
          /\ consumer' = [consumer EXCEPT ![c] = Consuming("fetch", p, p)]
  /\ UNCHANGED <<watched, past>>

\* Download makes the directories that are missing above the note, of which
\* nothing is ignored and nothing is watched yet, and then creates the note.
ConsumeNote(c, p) ==
  /\ local' = [local EXCEPT ![c] = CreateFile(@, p, Empty, 0)]
  /\ Raise(c, SeeAll(c, "CREATE", Above(p) \ DOMAIN local[c]) \o
              See(c, IF p \in DOMAIN local[c] THEN "WRITE" ELSE "CREATE", p))
  /\ consumer' = [consumer EXCEPT ![c] = Consuming("fetch", p, p)]
  /\ UNCHANGED <<watched, past>>

ConsumeDir(c, d) ==
  /\ local' = [local EXCEPT ![c] = MkDir(@, d, 0)]
  /\ Raise(c, IF d \in DOMAIN local[c] THEN <<>> ELSE See(c, "CREATE", d))
  /\ consumer' = [consumer EXCEPT ![c] = Consuming("add", d, NoPath)]
  /\ UNCHANGED <<watched, past>>

ConsumeRename(c, p, q) ==
  IF CanMove(local[c], p, q)
    THEN /\ local' = [local EXCEPT ![c] = Move(@, p, q, 0)]
         /\ Raise(c, SeeRename(c, p, q))
         /\ EndWatch(c, p)
         /\ consumer' = IF p \in Dirs
                          THEN [consumer EXCEPT ![c] = Consuming("add", q, NoPath)]
                          ELSE consumer
         /\ UNCHANGED past
    ELSE /\ RefusedAfterFailure(p, q)
         /\ UNCHANGED <<local, events, watched, consumer>>

\* Mutant: a message removes notes only.
ConsumeRemoveNote(c, p) ==
  /\ IF p \in Dirs THEN UNCHANGED <<local, events, watched>>
     ELSE /\ local' = [local EXCEPT ![c] = Rm(@, p, 0)]
          /\ Raise(c, SeeRemoval(c, p))
          /\ EndWatch(c, p)
  /\ UNCHANGED <<consumer, past>>

ConsumeRemove(c, p) ==
  /\ local' = [local EXCEPT ![c] = Rm(@, p, 0)]
  /\ Raise(c, SeeRemoval(c, p))
  /\ EndWatch(c, p)
  /\ UNCHANGED <<consumer, past>>

Consume(c) ==
  /\ consumer[c].pc = "idle" /\ queue[c] # <<>>
  /\ queue' = [queue EXCEPT ![c] = Tail(@)]
  /\ LET m == Head(queue[c]) IN
     /\ ignored' = [ignored EXCEPT ![c] = @ \cup IgnoredBy(m)]
     /\ \/ m.event = "CREATE" /\ m.path \in Files /\ ConsumeNote(c, m.path)
        \/ m.event = "CREATE" /\ m.path \in Dirs /\ ConsumeDir(c, m.path)
        \/ m.event = "NECO_RENAME" /\ ConsumeRename(c, m.old, m.path)
        \/ m.event = "REMOVE" /\ ConsumeRemove(c, m.path)
  /\ UNCHANGED <<server, filling, held, channel, proc, edits, faults>>

ConsumeAdd(c) ==
  /\ consumer[c].pc = "add"
  /\ AddWatch(c, consumer[c].from)
  /\ consumer' = [consumer EXCEPT ![c] = NotConsuming]
  /\ UNCHANGED <<server, filling, local, events, held, channel, proc, queue, ignored,
                 edits, faults, past>>

\* The answer's body goes into the open file, whatever the answer's status and
\* the file's name by now.
ConsumeCopy(c) ==
  LET from == consumer[c].from
      file == consumer[c].file
      body == IF from \in DOMAIN server THEN server[from].body ELSE ErrorPage
  IN
  /\ consumer[c].pc = "fetch"
  /\ IF file = NoPath
       THEN UNCHANGED <<local, events>>
       ELSE /\ local' = [local EXCEPT ![c] = FillFile(@, file, body, 0)]
            /\ Raise(c, See(c, "WRITE", file))
  /\ consumer' = [consumer EXCEPT ![c] = NotConsuming]
  /\ UNCHANGED <<server, filling, watched, held, channel, proc, queue, ignored,
                 edits, faults, past>>

Echoing(c, p) ==
  \/ p \in {consumer[c].from, consumer[c].file}
  \/ \E i \in DOMAIN events[c] : events[c][i].path = p

\* A second after the putIgnore that made the entry; one that finds it does not renew
\* it.  "Prompt" is an assumption on time and nothing the code sees to: that no entry
\* ends before the echoes of its path have come, those of a second message about the
\* path within the first one's second too, so that a download takes less than that.
ExpireIgnore(c) ==
  /\ \E p \in ignored[c] :
       /\ Prompt => ~Echoing(c, p)
       /\ ignored' = [ignored EXCEPT ![c] = @ \ {p}]
  /\ UNCHANGED <<server, filling, local, watched, events, held, channel, proc, queue,
                 consumer, edits, faults, past>>

-----------------------------------------------------------------------------
(* The users.                                                              *)

UserStep(c, op) ==
  /\ c \in Users /\ op \in UserOps /\ edits < MaxEdits
  /\ edits' = edits + 1
  /\ UNCHANGED <<server, filling, held, channel, proc, queue, ignored, faults>>

\* What becomes of the open file of a download.
Unlinked(c, p) ==
  [consumer EXCEPT ![c].file = IF @ \in Subtree(p) THEN NoPath ELSE @]

Happened(c, touched, unseen) ==
  [past EXCEPT
     !.touched = [p \in Paths |-> IF p \in touched THEN @[p] \cup {c} ELSE @[p]],
     !.unseen  = @ \cup unseen]

Unseen(c, S) == {p \in S : ~Seen(c, p)}

UserCreate(c) ==
  \E p \in Files \ DOMAIN local[c] :
    /\ UserStep(c, "create") /\ Above(p) \subseteq DOMAIN local[c]
    /\ local' = [local EXCEPT ![c] = CreateFile(@, p, edits + 1, 0)]
    /\ Raise(c, See(c, "CREATE", p))
    /\ past' = Happened(c, Around(p), Unseen(c, {p}))
    /\ UNCHANGED <<watched, consumer>>

UserWrite(c) ==
  \E p \in Files \cap DOMAIN local[c] :
    /\ UserStep(c, "write")
    /\ local' = [local EXCEPT ![c] = FillFile(@, p, edits + 1, 0)]
    /\ Raise(c, See(c, "WRITE", p))
    /\ past' = Happened(c, Around(p), Unseen(c, {p}))
    /\ UNCHANGED <<watched, consumer>>

UserMkDir(c) ==
  \E d \in Dirs \ DOMAIN local[c] :
    /\ UserStep(c, "mkdir") /\ Above(d) \subseteq DOMAIN local[c]
    /\ local' = [local EXCEPT ![c] = MkDir(@, d, 0)]
    /\ Raise(c, See(c, "CREATE", d))
    /\ past' = Happened(c, {d}, {})
    /\ UNCHANGED <<watched, consumer>>

UserRemove(c) ==
  \E p \in DOMAIN local[c] :
    /\ UserStep(c, "remove")
    /\ local' = [local EXCEPT ![c] = Rm(@, p, 0)]
    /\ Raise(c, SeeRemoval(c, p))
    /\ EndWatch(c, p)
    /\ consumer' = Unlinked(c, p)
    /\ past' = Happened(c, Around(p), Unseen(c, Subtree(p) \cap DOMAIN local[c]))

\* Something of the subtree has yet to be told to the server.
Pending(c, p) ==
  \/ \E i \in DOMAIN events[c]  : events[c][i].path \in Subtree(p)
  \/ \E i \in DOMAIN channel[c] : channel[c][i].path \in Subtree(p)
  \/ held[c] \cap Subtree(p) # {}
  \/ proc[c].pc # "idle" /\ proc[c].req.path \in Subtree(p)

Untold == past.lost \cup past.unseen

\* What a rename makes of what the server has not been told.
UntoldByRename(c, p, q) ==
  IF Seen(c, p) /\ Seen(c, q) /\ {p, q} \cap Untold = {}
    THEN {r \in Subtree(q) : Rebase(r, q, p) \in Untold}
    ELSE Subtree(p) \cup Subtree(q)

UserRename(c) ==
  \E p \in DOMAIN local[c] : \E q \in Paths \ {p} :
    /\ UserStep(c, "rename")
    /\ SameKind(p, q)
    /\ CanMove(local[c], p, q)
    /\ Patient => ~Pending(c, p) /\ ~Pending(c, q)
    /\ local' = [local EXCEPT ![c] = Move(@, p, q, 0)]
    /\ Raise(c, SeeRename(c, p, q))
    /\ EndWatch(c, p)
    /\ consumer' = [consumer EXCEPT ![c].file =
                      IF @ = q THEN NoPath
                      ELSE IF @ \in Subtree(p) THEN Rebase(@, p, q) ELSE @]
    /\ past' = [Happened(c, Around(p) \cup Around(q), UntoldByRename(c, p, q))
                  EXCEPT !.moved = @ \cup Around(p) \cup Around(q)]

-----------------------------------------------------------------------------
Client(c) == \/ Watch(c) \/ Release(c) \/ Process(c)
             \/ Consume(c) \/ ConsumeAdd(c) \/ ConsumeCopy(c) \/ ExpireIgnore(c)
Server(c) == Handle(c) \/ Fill(c) \/ Publish(c)
User(c)   == \/ UserCreate(c) \/ UserWrite(c) \/ UserMkDir(c) \/ UserRemove(c)
             \/ UserRename(c)

Next == \E c \in Clients : Client(c) \/ Server(c) \/ Fail(c) \/ User(c)

Spec == Init /\ [][Next]_vars

Fairness ==
  \A c \in Clients :
    /\ WF_vars(Watch(c)) /\ WF_vars(Release(c)) /\ WF_vars(Process(c) \/ Server(c))
    /\ WF_vars(Consume(c) \/ ConsumeAdd(c) \/ ConsumeCopy(c))
    /\ WF_vars(ExpireIgnore(c))

FairSpec == Spec /\ Fairness

-----------------------------------------------------------------------------
(* Properties.                                                             *)

Quiet ==
  \A c \in Clients :
    /\ events[c] = <<>> /\ held[c] = {} /\ channel[c] = <<>> /\ queue[c] = <<>>
    /\ proc[c].pc = "idle" /\ consumer[c].pc = "idle"

\* The paths nothing special has happened to: the user of at most one client has
\* touched them, no rename has moved them, and every change has been seen and told.
Plain ==
  {p \in Paths \ (past.lost \cup past.unseen \cup past.moved) :
     \E c \in Clients : past.touched[p] \subseteq {c}}

\* When everything has been said, such paths exist everywhere or nowhere: what
\* other users do elsewhere, and what a client does to its own directory when it
\* is told of it, does not reach them.
PlainPathsAgree ==
  Quiet => \A p \in Plain : \A c \in Clients : p \in DOMAIN local[c] <=> p \in DOMAIN server

\* ... and have the same contents.
PlainNotesAgree ==
  Quiet => \A p \in Plain \cap Files \cap DOMAIN server : \A c \in Clients :
    p \in DOMAIN local[c] => local[c][p].body = server[p].body

\* Such directories are watched wherever they are, however they got there.
PlainDirsWatched ==
  Quiet => \A c \in Clients : Plain \cap Dirs \cap DOMAIN local[c] \subseteq watched[c]

\* A client sends no contents of a note its user has not touched and renames none,
\* however its consumer and its watcher come in between each other: it never holds
\* a write of it, and what it does send is what the ignore list, which has no more
\* than the path of a message, lets through.  Notes of a directory that is removed
\* with them in it are removed once more, a directory a download has made is made
\* once more.
Repetition(ev) == \/ ev.op = "REMOVE" /\ Above(ev.path) # {}
                  \/ ev.op = "CREATE" /\ ev.path \in Dirs

ListenersOnlyRepeat ==
  \A c \in Clients :
    /\ \A p \in held[c] : c \in past.touched[p]
    /\ \A i \in DOMAIN channel[c] :
         c \in past.touched[channel[c][i].path] \/ Repetition(channel[c][i])
    /\ proc[c].pc # "idle" =>
         c \in past.touched[proc[c].req.path] \/ proc[c].req.op \in {"mkdir", "remove"}

\* ... and nothing at all about plain paths: those repetitions meet nothing that
\* is not the work of two users, of a rename or of a failure, already.
PlainPathsNotRepeated ==
  \A c \in Clients : \A i \in DOMAIN channel[c] :
    channel[c][i].path \in Plain => c \in past.touched[channel[c][i].path]

\* As long as only one user has done anything, renames are no exception.
Actors == UNION {past.touched[p] : p \in Paths}

LoneUserAgrees ==
  (\E c \in Clients : Actors \subseteq {c}) =>
    /\ \A c \in Clients \ Actors : \A i \in DOMAIN channel[c] : channel[c][i].path \in Untold
    /\ Quiet => \A c \in Clients :
         /\ \A p \in Paths \ Untold : p \in DOMAIN local[c] <=> p \in DOMAIN server
         /\ (Dirs \cap DOMAIN local[c]) \ Untold \subseteq watched[c]

\* Clients that hear of each other's changes do not keep each other busy.
Settles == <>[]Quiet
=============================================================================

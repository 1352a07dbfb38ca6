------------------------------- MODULE Startup -------------------------------
(***************************************************************************)
(* The start of a client: clientsync, and the client, which purges its     *)
(* queue, binds it to the exchange and does what the messages in it say.   *)
(* SnapshotSync has the runs of clientsync and the server's handlers; this *)
(* module adds what a client is doing besides, so that one client listens  *)
(* while another synchronises.  scripts/dev/start.sh runs clientsync to    *)
(* its end and then the client; scripts/release/run.sh starts the client   *)
(* right after clientsync, which is taken to have purged its queue by then.*)
(*                                                                         *)
(* Users do nothing here while their client listens (LiveSync is about     *)
(* that), but do what they like until then.                                *)
(***************************************************************************)
EXTENDS SnapshotSync

CONSTANT AtOnce  \* the client does not wait for clientsync to end

ASSUME AtOnceAssumption == AtOnce \in BOOLEAN

VARIABLES
  phase,     \* how far each machine has got: "off", "syncing", "purged", "live"
  bound,     \* the clients whose queue is bound: once for all
  fetching,  \* per client: the note its consumer has open, its GET outstanding
  missed,    \* per client, history: the paths it may know too little of
  steady,    \* history: clients whose user has done nothing, and whose run has
             \* not failed, since they started
  crossed    \* history: paths that one handler removed and another made, neither
             \* having announced it yet

startVars == <<phase, bound, fetching, missed, steady, crossed>>
allVars   == <<vars, startVars>>

ASSUME EveryClientListens == Listeners = Clients

NoPath == <<>>

\* The walk skips the sync directory itself.
ASSUME RootAssumption == NoPath \notin Paths

StartInit ==
  /\ Init
  /\ phase = [c \in Clients |-> "off"]
  /\ bound = {} /\ steady = {} /\ crossed = {}
  /\ fetching = [c \in Clients |-> NoPath]
  /\ missed = [c \in Clients |-> {}]

-----------------------------------------------------------------------------
\* The paths a message says something about.
Told(m) == IF m.event = "CREATE" THEN {m.path} \cup Above(m.path) ELSE Subtree(m.path)

\* What a client does not learn that is not told of some messages of others.
AboutOthers(c, messages) == UNION {Told(m) : m \in {n \in messages : n.client # c}}

Misses(c, messages) == missed' = [missed EXCEPT ![c] = @ \cup AboutOthers(c, messages)]

\* What handlers have done and not announced: an upload has made its file, and
\* will announce it when it is filled.
UnderWay ==
  unsent \cup {[client |-> c, event |-> "CREATE", path |-> sync[c].op.path] :
                c \in {d \in Clients : sync[d].op.step = "copy"}}

\* The announcements may come in another order than what they announce, and an
\* upload whose file is removed meanwhile announces it nevertheless.
Crossing ==
  UNION {Told(m) \cap Told(n) : m \in {k \in UnderWay : k.event = "REMOVE"},
                               n \in {k \in UnderWay : k.event = "CREATE"}}

Start(c) ==
  /\ phase[c] = "off" /\ SyncStart(c)
  /\ phase' = [phase EXCEPT ![c] = "syncing"]
  /\ steady' = steady \cup {c}
  /\ missed' = [missed EXCEPT ![c] = {}]
  /\ UNCHANGED <<bound, fetching, crossed>>

\* The client's own DeclareQueue purges the queue: what others have announced since
\* clientsync did is gone.  scripts/dev/start.sh starts the client when clientsync
\* has ended, whatever has become of it; scripts/release/run.sh does not wait.
PurgeQueue(c) ==
  /\ phase[c] = "syncing"
  /\ ~AtOnce => sync[c].pc \in {"idle", "orphan"}
  /\ phase' = [phase EXCEPT ![c] = "purged"]
  /\ queue' = [queue EXCEPT ![c] = <<>>]
  /\ Misses(c, ToSet(queue[c]))
  /\ UNCHANGED <<now, server, local, shot, sync, unsent, edits, syncs, faults,
                 calm, bound, fetching, steady, crossed>>

\* Mutant: the queue is purged once more when it has been bound.
BindPurging(c) ==
  /\ phase[c] = "purged"
  /\ phase' = [phase EXCEPT ![c] = "live"]
  /\ bound' = bound \cup {c}
  /\ queue' = [queue EXCEPT ![c] = <<>>]
  /\ UNCHANGED <<now, server, local, shot, sync, unsent, edits, syncs, faults,
                 calm, fetching, steady, missed, crossed>>

\* Until it is bound for the first time, nothing gets into the queue: in this
\* model, nothing that did is left.
Bind(c) ==
  /\ phase[c] = "purged"
  /\ phase' = [phase EXCEPT ![c] = "live"]
  /\ bound' = bound \cup {c}
  /\ IF c \in bound
       THEN UNCHANGED <<queue, missed>>
       ELSE /\ queue' = [queue EXCEPT ![c] = <<>>]
            /\ Misses(c, ToSet(queue[c]))
  /\ UNCHANGED <<now, server, local, shot, sync, unsent, edits, syncs, faults,
                 calm, fetching, steady, crossed>>

\* clientsync, still running beside the client, has a note open that is removed.
UnlinkDownload(c, removed) ==
  IF sync[c].op.step = "fetch" /\ sync[c].op.path \in removed
    THEN sync' = [sync EXCEPT ![c].op.linked = FALSE]
    ELSE UNCHANGED sync

\* A message is accepted, and what it says is done; the client's own are
\* discarded.
Receive(c) ==
  /\ phase[c] = "live" /\ fetching[c] = NoPath /\ queue[c] # <<>>
  /\ queue' = [queue EXCEPT ![c] = Tail(@)]
  /\ LET m == Head(queue[c]) IN
     \/ /\ m.client = c
        /\ UNCHANGED <<local, fetching, sync>>
     \/ /\ m.client # c /\ m.event = "CREATE" /\ m.path \in Files
        /\ local' = [local EXCEPT ![c] = CreateFile(@, m.path, Empty, now)]
        /\ fetching' = [fetching EXCEPT ![c] = m.path]
        /\ UNCHANGED sync
     \/ /\ m.client # c /\ m.event = "CREATE" /\ m.path \in Dirs
        /\ local' = [local EXCEPT ![c] = MkDir(@, m.path, now)]
        /\ UNCHANGED <<fetching, sync>>
     \/ /\ m.client # c /\ m.event = "REMOVE"
        /\ local' = [local EXCEPT ![c] = Rm(@, m.path, now)]
        /\ UnlinkDownload(c, Subtree(m.path))
        /\ UNCHANGED fetching
  /\ UNCHANGED <<now, server, shot, unsent, edits, syncs, faults, calm,
                 phase, bound, missed, steady, crossed>>

\* The rest of the download.
Fetch(c) ==
  LET p    == fetching[c]
      body == IF p \in DOMAIN server THEN server[p].body ELSE ErrorPage
  IN
  /\ p # NoPath
  /\ local' = [local EXCEPT ![c] = FillFile(@, p, body, now)]
  /\ fetching' = [fetching EXCEPT ![c] = NoPath]
  /\ UNCHANGED <<now, server, shot, sync, unsent, queue, edits, syncs, faults, calm,
                 phase, bound, missed, steady, crossed>>

\* Stopped or killed; a note it was downloading stays as it is.
Stop(c) ==
  /\ phase[c] = "live"
  /\ phase' = [phase EXCEPT ![c] = "off"]
  /\ fetching' = [fetching EXCEPT ![c] = NoPath]
  /\ UNCHANGED <<vars, bound, missed, steady, crossed>>

-----------------------------------------------------------------------------
(* The steps of SnapshotSync, and what they are for the history.           *)

SyncStep(c) ==
  /\ RunStep(c)
  /\ crossed' = crossed \cup Crossing'
  /\ UNCHANGED <<phase, bound, fetching, missed, steady>>

RunFails(c) ==
  /\ Failure(c)
  /\ steady' = steady \ {c}
  /\ UNCHANGED <<phase, bound, fetching, missed, crossed>>

UserActs(c) ==
  /\ phase[c] # "live"
  /\ User(c)
  /\ steady' = steady \ {c}
  /\ UNCHANGED <<phase, bound, fetching, missed, crossed>>

Announcing == Publish /\ UNCHANGED startVars

\* What has not been announced nobody is told.
AnnouncingFails ==
  /\ PublishFail
  /\ \E m \in unsent \ unsent' :
       /\ steady' = steady \ {m.client}
       /\ missed' = [c \in Clients |-> missed[c] \cup AboutOthers(c, {m})]
  /\ UNCHANGED <<phase, bound, fetching, crossed>>

TimePasses == Tick /\ UNCHANGED startVars

StartNext ==
  \/ \E c \in Clients :
       \/ Start(c) \/ SyncStep(c) \/ PurgeQueue(c) \/ Bind(c)
       \/ Receive(c) \/ Fetch(c) \/ Stop(c)
       \/ RunFails(c) \/ UserActs(c)
  \/ Announcing \/ AnnouncingFails \/ TimePasses

StartSpec == StartInit /\ [][StartNext]_allVars

-----------------------------------------------------------------------------
(* Properties.                                                             *)

Listening(c) == phase[c] = "live" /\ queue[c] = <<>> /\ fetching[c] = NoPath

\* A client that has started, and whose user has done nothing meanwhile, has what
\* the server has as soon as nothing is under way, however its start and the runs
\* of the others came in between each other: the comparison of its run, the two
\* purges and the messages leave no gap but what was announced between the two
\* purges, or before the queue was bound, or is lost at the broker (missed), and the
\* order of two handlers that cross (crossed).
\* (Apart from what the client had deleted, as in CalmSyncAgrees.)
ListenersAgree ==
  (unsent = {} /\ \A c \in Clients : sync[c].pc = "idle") =>
    \A c \in steady : Listening(c) =>
      \A p \in Paths \ (Excluded \cup Doomed(sync[c].final) \cup missed[c] \cup crossed) :
        Same(local[c], server, p)
=============================================================================

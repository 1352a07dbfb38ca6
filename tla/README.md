# Necoconeco in TLA+

Specifications of necoconeco, a synchroniser for directories of Markdown notes:
a file server, a watcher that runs beside each client's directory, and a program
that brings a client and the server in agreement before the watcher starts.
Paths such as `server.go:309` are relative to the repository's source.

## The system

| Component | Source | State | Operations |
|---|---|---|---|
| Start-up synchronisation | `clientsync.go` | `.neco/necoshot.json` | compare the directory with the last necoshot, post the result, perform the actions in the answer, write a new necoshot |
| Snapshot handler | `server.go:389-593` | the server's directory | walk, decide per path by last-write-wins, remove and create directories, answer with uploads, downloads, directories to make |
| Upload, directory, rename, remove handlers | `server.go:120-345` | the server's directory | one file operation, then one message |
| Publisher | `server.go:95-118` | - | to a topic exchange; each client has a queue |
| Watcher | `client.go:202-260` | fsnotify's events | ignore, debounce or pass on |
| Write debouncer | `client.go:537-604` | maps of files and timers | put, delete, the timers' callbacks |
| Ignore list | `client.go:606-637` | map of timers | put, look up, expire after a second |
| Event processor | `client.go:398-476` | channel of capacity 100 | one request per event |
| Consumer | `client.go:290-396` | the queue | download, rename, remove, make a directory |
| API client | `internal/api/types.go` | - | upload, download, requests |
| Sync directory | `internal/utils/fileop.go` | the file system | walk, metadata, mkdir, remove, rename |
| Start-up of a client | `client.go:79-200`, `scripts/dev/start.sh`, `scripts/release/run.sh` | queue and binding | clientsync; purge, bind, consume, watch, after it or beside it |

How they interact.  `clientsync` and the watcher send HTTP requests, each of
which the server handles in a goroutine of its own.  A handler changes the
directory, then publishes a message; the exchange copies it to the queue of every
client.  A client's consumer discards its own messages and does what the others
say to its directory, which raises file system events, which the ignore list is
there to hide from the watcher.  Inside a client the watcher, the timers'
callbacks, the processor and the consumer are concurrent and share two maps and
a channel.

What is hard about it:

* decisions on stale walks, whose effects interleave with other handlers' and
  with users' edits; effects in the random order of a Go map;
* modification times of one second's resolution, which on the server are the
  times of uploads and on a client those of edits or downloads;
* runs killed between two actions, answers that fail with a file already emptied;
* a debouncer whose methods have value receivers, so that locking locks a copy;
* the ignore list's second, within which the echo must come and the user must not;
* directories: what the watcher does not watch yet, or no longer, it does not see,
  and a message names only the top of the subtree it changes;
* a start in several steps, two of which empty the queue.

What makes the components correct: an undisturbed start-up run ends in agreement
and overwrites nothing newer; nothing is removed that nobody deleted; hidden
directories stay where they are; the messages tell a listener what the server
has; runs end; no edit is lost between a client's goroutines; what comes from
other clients is not sent back to them; what one user does arrives at the other
clients, whatever other users do elsewhere; a client that has started has missed
nothing; and all of it comes to rest.

## Modules

| Module | What it is |
|---|---|
| `FileTree` | a sync directory as a function from paths to body and mtime; creation, filling, removal, renaming (`fileop.go`) |
| `SnapshotSync`, `MCSnapshotSync` | `clientsync.go` and the server's handlers it calls, many clients; its small instances |
| `ClientWatch`, `MCClientWatch` | `client.go` while it runs, one client, goroutine by goroutine |
| `LiveSync`, `MCLiveSync` | running clients, the server's handlers and the broker, with directories, request by request |
| `Startup`, `MCStartup` | `SnapshotSync` with clients that start, listen and stop |
| `Mirror` | what a client promises its user, without goroutines; `ClientWatch` implements it |
| `Replaying` | what a sequence of messages makes of a state; used by properties only |
| `FileTreeProofs`, `ReplayingProofs` | what operations on trees preserve; what a replay gives when a message is added or taken |
| `SnapshotSyncProofs`, `CalmSyncProofs` | theorems about `SnapshotSync`; about the runs nobody disturbs |
| `StartupProofs`, `LiveSyncProofs`, `MirrorProofs` | theorems about `Startup`, `LiveSync`, `Mirror` |
| `ClientWatchProofs` | theorems about `ClientWatch`, and that it implements `Mirror` |

`SnapshotSync` and `LiveSync` extend `FileTree`; `Startup` extends
`SnapshotSync`, whose steps are part of its own, and `StartupProofs` the proofs
about it.  `ClientWatch` and `LiveSync`
are the same client at two granularities: the first has the goroutines and one
flat directory, the second has requests, directories and several clients.

### FileTree

A path is the sequence of its components; `Paths` is closed under prefix.  A
tree maps the paths that exist to `[body, mtime]`.  A body stands for its
SHA-256: bodies are only compared.  A user's edits are numbered and an edit
writes its number, so the order of edits can be told from the bodies, which the
program cannot do.  `Empty` is the body of a file that has been created and not
filled, `ErrorPage` what the file server answers when there is no file
(`types.go:102-113` saves it whatever the status).  Modification times follow
the file system: creating or removing a name stamps the directory it is in,
writing into a file stamps the file alone.

### SnapshotSync

| State | In the code |
|---|---|
| `server`, `local[c]` | the sync directories |
| `shot[c]` | `necoshot.json`; `NoShot` when it is missing or does not decode |
| `sync[c].pc` | where a run is: walked, posted, handled, acting; `orphan` is a handler whose client has gone |
| `sync[c].final` | the snapshot posted |
| `sync[c].todo` | removals and creations the handler has yet to do |
| `sync[c].acts` | actions of the answer the client has yet to do |
| `sync[c].op` | the transfer under way, between creating the file and filling it |
| `unsent`, `queue` | messages whose file operation is done; the clients' queues |

The program's loops run over Go maps, so `todo` and `acts` are sets and any
element may be next; the walk and the decision are one step, since the decision
uses nothing but the two walks; each effect, and each half of a transfer, is a
step of its own, after which another client's handler may run.  A message that is
lost is `PublishFail`: one that the broker rejects or releases is only logged
(`server.go:107-117`); an error of the publisher ends `/snapshot` with its
work half done and the client gets no actions, and after an upload it is logged.
`HandlerFail` is an error of `RemoveAll` or `MkdirAll`, which ends the handler too.
`Kill` ends a run anywhere; a handler at work goes on as an orphan.
`KillInSnapshot` leaves a necoshot that does not decode.

An upload makes the directory and creates the file in one step (`CreateFile`).
What can come in between is another handler's `RemoveAll`, upon which `os.Create`
fails, the client logs it and nobody is told: that is `TransferFail` before the
server has the file.

Assumed: the walk of a directory is one step; all machines have one clock; a
client's next run starts when the orphaned handler of its last one has ended; a
user's edit is one step, and a body that is copied into a file a user is editing
overwrites the edit.

### ClientWatch

| State | In the code |
|---|---|
| `events` | `watcher.Events` and what the kernel still holds |
| `watch` | the watch goroutine: in `putWrite` (before the lookup, before `Reset`, before the note) or in `putEvent` |
| `timers`, `files` | the debouncer's maps; a timer is a number, 0 for no entry |
| `armed`, `calls`, `taking`, `putting` | timers that are going to fire; callbacks that have started; that have found their write; that have taken it |
| `channel` | `EventProcessor.fileEvents` |
| `proc` | the processor, with a request whose body it has read |
| `consumer` | idle, or with a local file open and the GET outstanding |
| `ignored` | `IgnoreEvents.timers` |
| `alive` | FALSE after a panic or a fatal error of the runtime |

`putWrite`, `writeExists`, `isIgnored` and `putIgnore` have value receivers, so
each call locks a copy of the mutex.  The copy of the call that makes a timer is
captured by the timer's callback: that call and the callbacks of that timer
exclude each other, and nothing else does.  The model has exactly this:
`CallbackCheck(t)` waits for `watch.made # t`.  `MapFault` is the runtime's
detection of concurrent map access, which may or may not happen when two
goroutines are about to be in the same map and one of them writes: callbacks and
the watcher in the debouncer's maps (`DebouncerRace`), the consumer, the timers
that end entries, the watcher and the processor in the ignore list's
(`IgnoreRace`).

Timers fire at any time after they are armed, and an entry of the ignore list ends
at any time after the `putIgnore` that made it.  `Prompt` is an assumption on time,
and nothing the code sees to: no entry ends while an echo of its path is still to
come, be it that of a second message, which does not renew the entry in the code
(`client.go:626`), or that of a download, which takes as long as it takes.
`WatchAll` and `WatchEdits` do without it; that nothing is echoed is claimed under
`Prompt` only.  The
directory is flat and holds notes; the server handles a request in one step, and
what other clients do arrives in the order the server did it (`SnapshotSync` and
`LiveSync` are about the opposite).  `processedFiles` is never marked and is left
out.  A client starts in agreement with the server, as `clientsync` leaves it.

### Mirror

The abstract client: a note whose contents the server lacks is `dirty`; `Pick`
makes a request of what a dirty note is, or that it is gone; `Land` is its
arrival.  A note may only stop being dirty when the server has it.  The mapping
from `ClientWatch`: `dirty` is the set of notes that are `Carried` by anything
(events, the watcher's hands, the debouncer, a callback, the channel, a request),
`flight` is the processor's request, the other variables are themselves.  Taking
an event that leads to no request maps to `Settle` or to nothing, a late callback
of a write already sent to `Again`.

### LiveSync

| State | In the code |
|---|---|
| `server`, `local[c]` | the sync directories |
| `filling[c]` | the file an upload of the client has open at the server, by the name it has there |
| `watched[c]` | the directories given to `watcher.Add` that are there |
| `events[c]`, `held[c]`, `channel[c]` | fsnotify's events; the debouncer's writes; `fileEvents` |
| `proc[c]` | the processor with the server's handler of its request: not yet handled, a note created and not yet filled, or handled and not yet published |
| `queue[c]`, `consumer[c]`, `ignored[c]` | the RabbitMQ queue; idle, about to call `watcher.Add`, or with a download open; the ignore list |
| `past` | history: whose users have touched a path or what is around it, about what a request or message was lost, what changed without an event, what renames have moved |

| Action | In the code |
|---|---|
| `Watch`, `Release`, `Process` | `client.go:202-260`, `552-570`, `413-476` |
| `Handle`, `Fill`, `Publish`, `Fail` | `server.go:120-356`: the change of the directory, or the creation of the note; `169-174`; `95-118`; the error paths of the requests |
| `Consume`, `ConsumeAdd`, `ConsumeCopy`, `ExpireIgnore` | `client.go:298-396`, `types.go:86-119`, `client.go:622-637` |
| `UserCreate`, `UserWrite`, `UserMkDir`, `UserRemove`, `UserRename` | the user, with the events fsnotify makes of it |

An upload empties the note (`os.Create`) and fills it a step later; between the two
others download an empty note, rename it, or remove it, in which case the upload
fills a file without a name and announces it.

A file raises an event only if the directory it is in is watched; both halves of
a rename are paired only if both are; the watch of a directory ends when it is
removed or moved.  Downloads make the directories above a note, and the consumer
ignores only the paths its message names.

A path has to do with what is in it and with the directory it is in, and history
counts for those too (`Around`).  An upload makes the directory of its note, at
the server and at every listener, so a late or a lost request about a note is also
one about its directory; removing or moving a directory is about all that is in it.

Assumed: directories have no directories in them (after a move fsnotify goes on
giving the old names below it, which is not modelled); `Prompt` as above;
`Patient`, a user renames a path only when the server has been told what happened
to it and to its new name before (`RenamedWriteLost` shows what comes of it
otherwise); an operation on a subtree is one step; the debouncer and the channel
lose nothing, which `ClientWatch` is about.  A client's own messages, which it
would discard, are left out of its queue.  A client has come to the end of its
start: in the code the consumer and the watcher are at work before the walk that
gives the directories to the watcher (`client.go:164-190`), so that what the
consumer or the user does meanwhile may raise no event, and a directory that goes
during the walk ends the program (`log.Fatal`).  Neither is modelled.

### Startup

| State | In the code |
|---|---|
| `phase[c]` | where a start is: off, `clientsync` running, the client's queue purged, live |
| `bound` | queues bound to the exchange, which they stay |
| `fetching[c]` | the consumer's open download |
| `missed[c]`, `steady` | history: paths about which a purge, a queue not bound yet or a failed publication took a message of others; clients that have not been disturbed since they started |
| `crossed` | history: paths that one handler removed and another made, neither having announced it yet |

Both programs purge the queue: `clientsync` before it walks (`SyncStart`), the
client before it binds (`PurgeQueue`).  A queue that is not bound yet gets
nothing; in the model it is emptied at the first `Bind`.  What others have done and
not announced when the queue is purged is not missed: its announcement is still to
come.  `AtOnce` is FALSE for `scripts/dev/start.sh`, which starts the client when
`clientsync` has ended, and TRUE for `scripts/release/run.sh`, which starts it at
once; the client is then taken to purge after `clientsync`'s own purge, and its
consumer and `clientsync` may be at work on one directory (`UnlinkDownload`).  What
is said of agreement is said of `start.sh`.  `Stop` leaves a download unfinished,
and an orphaned handler of a killed run goes on.  The user does
nothing while the client is live, and the echo of what the consumer does is left
out: both are in `LiveSync`.

A handler announces what it has done when it has done it, so two handlers that are
at work on one path may be announced in the other order, and an upload announces a
file that was removed while it was filled.  Whoever listens then goes by the last
message and not by the last effect.  `crossed` has the paths for which this was
possible, and `ListenersAgree` leaves them out.

## Runs

Deadlock is not checked: when the users have used up their edits and everything
has been said, the system rests.

| Run | Instance | What it shows |
|---|---|---|
| `SyncOneClient` | a client, a listener, a directory with a note beside a hidden directory, 3 runs, 3 edits, times 0-2, 1 fault, fairness | `TypeOK`, `HiddenStaysLocal`, `RemovalNeedsTombstone`, `ListenerSeesServer`, `SyncTerminates` |
| `SyncTwoClients` | 2 clients, a directory with a note, 3 runs, 2 edits, times 0-1, 1 fault | `CalmSyncAgrees`, `CalmSyncRespectsMtimes` |
| `WatchAll` | 2 notes, every operation of the user (2) and of another client (1), 1 failing request, channel of 1 | `TypeOK`, `TimersPassOnWrites` |
| `WatchEdits` | 2 notes, 4 creations, writes, removals, channel of 1, fairness | `EditsHaveCarrier`, `EditsArrive`, `MirrorsEdits` |
| `WatchOneSided` | 3 notes; the user's 4 renames and removals, or another client's 3 operations, but not both (`OneSided`); `Prompt` | `RenamesArrive`, `NothingEchoed`, `NamesArrive` |
| `LiveTwoUsers` | 2 clients, both with a user, 2 directories with a note of the same name each, any initial directory, 2 operations of any kind, 1 failure, `Prompt`, `Patient`, fairness | `TypeOK`, `PlainPathsAgree`, `PlainNotesAgree`, `PlainDirsWatched`, `ListenersOnlyRepeat`, `PlainPathsNotRepeated`, `LoneUserAgrees`, `Settles` |
| `StartTwoClients` | 2 clients started by `start.sh`, a directory with a note, 3 starts, 2 edits, 1 fault or times 0-1 but not both (`TimeOrFault`) | `ListenersAgree`, `RemovalNeedsTombstone` |

`TimersPassOnWrites` is about entries in the map of timers: each belongs to a timer
that is going to fire or whose callback is under way, and has a write, so no entry
stays behind that makes later writes wait for a timer that will not come.  It is not
about every write in the debouncer.  A callback may take the write before while
`putWrite` is between its `Reset` and its note, and the note is then left in `files`
with no timer; what it stands for goes out with the callback's event, and
`EditsHaveCarrier`, which counts no write without a timer as carried, says that
nothing is lost by it.

`Plain` paths, in `LiveSync`, are those that the users of one client at most have
touched, they or what is around them, that no rename has moved, and of which no
change went unseen or untold.  The properties say that these are right at rest
whatever becomes of the others: a failure, an unwatched moment, a rename or a
conflict does not spread.  `ListenersOnlyRepeat` is what is left of "nothing is
echoed" with directories, and is about every note and every client whose user has
not touched it: the exceptions it names occur, because the ignore list holds only
the path a message names.  They never meet a plain path
(`PlainPathsNotRepeated`).  `LoneUserAgrees` is about renames: as long as only one
client's user has acted, moved paths agree too, and the others send nothing of them.

A disturbance of a run is an edit of its client's directory, a fault of the run,
or a change of the server by another client; `calm` is the set of clients whose
last run has had none, and the `Calm...` properties are about those.  What such a
run starts from is anything earlier runs, killed and failed ones too, have left.

Why the bounds are enough to be of interest.  A conflict needs two writers, so
two clients; a stale necoshot needs an earlier run, so three runs; a tie and a
win in each direction need two times.  A directory with a note in it is the
smallest tree on which the order of effects matters.  A channel of one is full
whenever it is not empty.  A fourth write makes a second timer while the first
one's callback is still under way.  `SyncTwoClients` has also been explored with
three edits, three times and no fault (11 million states) and `WatchAll` with three
edits (14 million), without a violation.

In `LiveSync` two operations are enough for two users to cross, for a directory
to be moved and a note made in it before it is watched again, and for a failure
between a change and its message; every initial directory is tried, so an
operation is seldom needed to prepare another.  What two operations cannot show is
left to the theorems: for instance a write that is still held when another user
removes the note and what it is in, and that makes the directory again when it is
released, where nobody expects it.  It is why a touched note counts for its
directory.  In `Startup` the gap between the
two purges needs a second client at work during a first one's start, and a third
start finds a queue that is bound already.

Symmetry under permutation of clients or of notes is used where no property
tells them apart, and never with a liveness property.

### Fairness

`SnapshotSync`: weak fairness of each client's run together with its handler, and
of the broker.  `net/http` runs a handler to its end even when the client has
gone, and `clientsync` is a sequential program.  A server that never answers is
not covered: the code has no timeout (`http.DefaultClient`).
`ClientWatch`: weak fairness of each goroutine, of each timer and of each
callback, which the Go scheduler gives.  Users, faults, other clients and the
runtime's detection of map faults have none.
`LiveSync`: weak fairness, per client, of the watcher, the debouncer, the
processor with the server's handler of its request, the consumer and the ignore
list.  `Startup` has safety properties only.

### Where the code and its documentation differ

Each of these runs has one property, which says what the document says, and TLC
finds a behaviour of the code that violates it.

| Run | Property | What happens |
|---|---|---|
| `DeletionReturns` | `DeletionsPropagate` | A client creates a note, synchronises, deletes it offline and synchronises: the note is still there.  The server's mtime is when the upload wrote it, the tombstone's when the user did. |
| `EarlierEditWins` | `LaterEditWins` | The edit that is uploaded first gets the time of its upload and beats a later edit that is uploaded second. |
| `LostBody` | `OnlyUserBytes` | A download interrupted after `os.Create` leaves an empty file with a new mtime, which the next run uploads. |
| `RenamedWriteLost` | `QuietMeansSynced` | A rename deletes the write that is held back.  `TestWriteDebouncerRemoval` does this and asserts names, not contents. |
| `TimerGone` | `ResetFindsTimer` | A callback deletes the timer `putWrite` has found and is about to reset: a call on a nil timer. |

The models have other behaviours of this kind, for which no run is kept.

* `SnapshotSync`: the tombstone of a directory takes a newer note in it
  (`server.go:519`, `fileop.go:264`; the exception in `CalmSyncRespectsMtimes`);
  two clients delete a directory and the second one's tombstone creates it again
  (`server.go:563`).
* `ClientWatch`, as instances in which `QuietMeansSynced` is violated: a note
  moved out of the sync directory raises a RENAME alone and stays at the server
  (`UserOps = {"moveout"}`, `client.go:237`); a note renamed at the server before
  it is downloaded becomes the text of the 404 answer (`RemoteOps = {"upload",
  "rename"}`, `types.go:102`); a user's write within the second after a message
  about the note is ignored (`UserOps = {"write"}`, `RemoteOps = {"upload"}`,
  `client.go:216`).
* The watcher leaves nothing out: notes made below `.trash` while the client runs
  are uploaded (`client.go:177`, `418`), which the snapshots never do.
* `LiveSync`, outside `Plain`: two users write the same note at once, a download
  replaces what its reader has not sent yet, and the clients need not end with
  the same contents; a note made in a directory before it is watched stays at its
  client; a directory and its notes, removed by a message, are removed at the
  server once more.
* `ClientWatch` without `Prompt` (`UserOps = {}`, `RemoteOps = {"upload"}`,
  `NothingEchoed` is violated): an echo that is seen when the ignore list's second is
  over is taken for the user's change, and a client whose user does nothing may upload
  what it has downloaded over what another client has uploaded meanwhile
  (`client.go:626`).
* `SnapshotSync` with two clients (`ListenerSeesServer` is violated): one client's
  handler makes a directory, another's removes it, and REMOVE is published before
  CREATE (`server.go:309`); a note is removed between its upload's `os.Create` and the
  end of `io.Copy` and announced all the same, and who hears it saves the text of
  the 404 answer (`server.go:190`).
* `Startup`, with `missed` left out of `ListenersAgree`: what another client does
  after a run's comparison is announced to a queue that is purged, or not bound
  yet, and the client does not learn it before its next start (`client.go:128`
  calls those messages redundant).
* `Startup` with `AtOnce` TRUE, the start of `run.sh` and `run.bat`, which is the one
  README.md:44 documents (`ListenersAgree` is violated): the consumer has a note open
  while `clientsync` transfers it, and does what a message says between a decision of
  the server and its execution.

## Proofs

`tlapm` checks what follows for all values of the constants that satisfy the named
assumptions of the modules.  They say that paths are sequences of names, closed
under prefix, and that a hidden directory hides what is in it
(`ComponentsAssumption`, `PathsAssumption`, `ExcludedAssumption`); that the values
in place of a path, a note or a body are none (`NoPathAssumption`,
`NoNoteAssumption`, `AbsentAssumption`); that bounds are numbers
(`BoundsAssumption`, `WatchBoundsAssumption`, `CapAssumption`,
`RemoteOpsAssumption`, `LiveAssumption`); and, of the instances `LiveSync` is
about, that directories are flat, that what one directory may have in it any may
and that paths are finitely many (`FlatAssumption`, `NamesAssumption`,
`FiniteAssumption`: the length of a path is limited).  In `Startup` every client
listens (`EveryClientListens`) and `AtOnce` is TRUE or FALSE
(`AtOnceAssumption`).  In `Startup` and `LiveSync` the sync directory itself is no path in
it, which the walk skips, and in `LiveSync` what a path is in is a directory or it
(`RootAssumption`).  No bound on edits, runs, times or faults is used,
but where a theorem is about a client without them.

### Synchronisation

* `TypeCorrect`: `Spec => []TypeOK`.  Its lemmas are those of `FileTreeProofs`:
  each operation takes a tree to a tree.
* `RemovalsHaveTombstones`: `Spec => RemovalNeedsTombstone`.  The server removes
  what lies below some `p` in a client's `todo`; why `p` is a tombstone is three
  steps back, at the comparison of snapshots, and the necoshot it came from must
  not have changed since.  The inductive invariant `TombstoneInv` keeps that: only
  a handler has work left (`WorkAtServer`), the removals in it are tombstones of
  the snapshot posted (`RemovalsAreTombstones`), and those were in the necoshot
  the client still has (`TombstonesFromShot`).
* `HiddenNeverUploaded`: `Spec => []HiddenStaysLocal`.  `HiddenInv` follows a path
  from the walk to the posted snapshot, the server's effects and actions and the
  transfer under way: none of them is hidden, and a directory above a path that
  is not hidden is not hidden either (`AboveNotExcluded`, from
  `ExcludedAssumption`).
* `CalmRunAgrees`, `CalmRunRespectsMtimes`: `Spec => []CalmSyncAgrees` and
  `Spec => CalmSyncRespectsMtimes`.  Three invariants prepare it.  `ShapeInv` says
  what a run has left to do at each `pc`: effects only at the handler, actions only
  once it has answered, a transfer only while the client acts or is killed.
  `TreesInv` says that the directories and the snapshots are closed upwards and
  that only notes are transferred.  `CalmInv` then relates a calm run to its
  client's directory and the server's.  Before the comparison, the snapshot posted
  is what the directory still has (`AsWalked`).  After it (`Work`), a path that is
  not the same in both has an effect, an action or the transfer to come
  (`NotesInWork`, `DirsInWork`); what is to come is possible, its source and the
  directories above it being there (`CreatesKnown`, `DownloadsKnown`,
  `TransferKnown`); and it is still as much newer as when it was decided
  (`RemovesOlder`, `UploadsNewer`, `DownloadsNewer`).  The delicate cases are the
  steps on directories: a removal may take what another effect or action is about,
  which is why everything is said outside `Doomed`, and a creation makes the
  directories above, whose own effects are then to come for nothing.  When nothing
  is left, the two directories are the same.  `Work` is stated apart from a set of
  paths others have been at work on meanwhile; for a calm run it is empty, since no
  other client's step changes the server and none but the run's own its directory.
* `ListenerAlwaysSees`: `Spec => []ListenerSeesServer`, under `OneClient`.  `HeardInv`:
  what a queue tells is what the server has, up to one effect, which is being
  published or is the file an upload is filling.  With two clients the property
  does not hold, and `SyncOneClient` does not claim it: handlers of different
  requests act on the directory in one order and may publish in another.

### Starting

* `StartTyping`, `StartHidden`, `StartRemovals`: the invariants above with
  consumers at work beside the runs.  A step of `Startup` is a step of
  `SnapshotSync`, or one that leaves the server and the runs alone (`Apart`), so
  what remains is that a consumer leaves its directory a tree (`StartInv`).
* `ListenersAlwaysAgree`: `StartSpec => []ListenersAgree` if not `AtOnce`, for any
  number of clients.  `ProgramInv` is where that is used: a run that is over has let go
  of the directory (`LetGo`) and no run goes on outside the phase `syncing`, at most
  its orphaned handler (`Phased`).
  The argument goes from one client's run through another's unpublished effects to a
  third's queue, so `ListenInv` is about all of them at once.  A step of a run has
  at most one effect at the server, and announces it (`RunEffect`); a client has one
  such effect at a time (`PublisherInv`), and it stays true until it is announced,
  apart from `crossed` paths (`UnderWayInv`).  While a steady client synchronises,
  what it has to do is `Work`, apart from what it missed or others did that it is
  still to be told (`SteadyInv`); so when its run is over and it purges its queue,
  the two directories differ in nothing else.  From then on (`HearsInv`), a path no
  effect under way tells of is one the server has if and only if the client has it
  once its queue is replayed (`DomOf`), and a note both have is the same, is being
  fetched, or is going to be (`BodyOf`).  When nothing is queued or under way, that
  is the property.

### A running client

* `WatchTyping`, `TimersAlwaysPassOnWrites`, `NothingIsEchoed`: `ClientWatch`, for
  any notes, capacity, operations and bounds.  The first adds to `TypeOK` what a
  goroutine is at work on (`Busy`).  The second needs `TimerInv`: a timer in the map
  is armed, called or being taken, and if there is no write for it yet, the
  `putWrite` that made it is about to note one; that is when the mutex those two
  do share keeps the callback waiting, which would otherwise find no write and
  give up.  The third assumes `Prompt`; `EchoInv` says that every event and every
  open download of a client whose user is idle is of a note on the ignore list,
  and that the watcher, the debouncer, the channel and the processor are empty.
* `NamesAlwaysArrive`, under `Prompt`: `NamesInv` says that the messages in the
  queue, replayed over the names the directory has, give the names the server has.
* `RenamesAlwaysArrive`, under `OnlyMoves` (the user renames and removes, and no
  request fails): `MoveInv` says that doing to the server's directory, in this
  order, the request under way, the channel, what the watcher holds and fsnotify's
  events gives the client's directory.  Every step takes an element from one end of
  that line or adds one at the other.
* `EditsAlwaysHaveCarrier`, `ClientImplementsMirror`, `NoEarlierEditReturns`, under
  `Alone`: the user creates, writes and removes, and no other client and no failing
  request interfere.  `AloneInv` says what kinds of events and requests such a
  client has.  `CarrierInv` strengthens `EditsHaveCarrier`: of a note that is there,
  the last thing on its way is neither its removal nor an older text, and of one
  that is gone, a removal follows any upload still to land.
  Every step then maps to a step of `Mirror` or to a stutter, one lemma per action.
  `NoEarlierEditReturns` is `ServerNeverGoesBack` through that mapping.
* `DifferencesStayDirty`, `ServerNeverGoesBack`: `Mirror`, with `DirtyInv` (a note
  stays dirty while a request of it is under way) and `OrderInv` (what the server
  has is no later than what is in flight, and that no later than the note).

### Running clients together

* `LiveTyping`: `Spec => []TypeOK`, for any number of clients and of directories.
  `TypeOK` has content here: a request and a message are of the kind of path they
  name, so a rename never makes a note of a directory, and moving a directory with
  what is in it leaves a tree in which everything has its directory.
* `PlainPathsAlwaysAgree`, `PlainNotesAlwaysAgree`, `PlainDirsAlwaysWatched`,
  `ListenersAlwaysOnlyRepeat`, `PlainPathsNeverRepeated`, under `Prompt`: the five
  properties of plain paths and of what listeners repeat, for any number of
  clients, users, directories and notes, whether `Patient` or not, and with any
  failures.  All are consequences of `LiveInvariant`: `Spec => []IInv`.

`IInv` follows each path from a user's directory to the server's and from there to
every other.  It is about `Kept` paths, which are the plain ones and those some of
whose changes raised no event.  Such a change is a matter between its client and the
server, for which `LineInv` and `BodyInv` make an exception; what the server has, the
other clients have or will have.  For a client a kept path is its `Own`, if no other client's user has touched it, or
`Foreign`, if its own user has not; one nobody has touched is both.  The parts:

| Part | What it says |
|---|---|
| `PastInv` | who has touched a path has touched its directory, and what is lost or moved loses its directory |
| `BlameInv` | every event, item of the channel, held write, request and message of a client is the work of its user or a repetition that meets no kept path; an event may be ignored instead |
| `HearsayInv`, `FileInv` | what is ignored or fetched others have touched; an open download is there and what it will write is ignored |
| `LineInv` | of a client's own path: the server's directory, then the request, the channel, the held writes and the events, in this order, give the client's directory, but for unseen changes; what they say of other paths leaves this one alone |
| `FillInv` | the file an upload has open has the upload's name, or has been moved or removed; an own one is there under that name |
| `BodyInv` | an own note is the same at the server, or being filled there, or something under way will send it again |
| `QueueInv` | of a foreign path: the client's directory and then its queue give the server's directory, up to the one handler that is about to publish; what the queue says of other paths leaves this one alone |
| `CopyInv` | a foreign note both have is the same, or told of again, or about to be filled or published, or being fetched |
| `DirInv` | a kept directory is watched, or will be by what is under way |

`LineInv` and `QueueInv` have the difficulty.  A directory's removal takes its notes
with it and a note's upload makes its directory, so the last word about a path may be
one about another.  `Fits` excludes this for kept paths: when a removal of its
directory comes, the path is gone already, and when an upload in it comes it is
there.  It holds because a directory's notes are reported removed before it is and
a directory is reported made before what is made in it.  Then what a line says of a
path is its last item about the path itself (`Final`).  `Prompt` is needed in
`FileInv`: if the ignored second ends before the download's event is seen, the client
sends on what it has been told.  Without `Prompt`, TLC finds each of the five
properties violated in the instance of `LiveTwoUsers`.

Each action has its lemmas, one per part it can disturb; `NextIInv` puts them
together, and `IInvImplies` reads off the properties.  TLC checked `IInv` first, as an
invariant of instances with two and three clients, with and without renames and
failures, with up to four operations, and of random behaviours with up to seven.
That corrected the model: the invariant did not hold with the history as it
was, which counted a touched note for the note alone, and the behaviour that breaks it
(a held write that makes a removed directory again) showed `PlainPathsAgree` itself to
be false in larger instances than `LiveTwoUsers`.  The properties hold with the
directory counted.

### How the proofs about sequences go

What a sequence of messages adds up to is `Replay`, a recursive function, and its
two laws, for a message appended and for the first one taken, need induction.  The
library's induction theorems take a predicate as a parameter, which the provers
cannot instantiate.  `ReplayingProofs` uses instead that a non-empty set of numbers
has a least one, which is first-order and follows from the library's theorem that
`<` is well-founded: `Induction` is about a set of numbers and is applied to the
set of those for which the law holds.

`LiveSyncProofs` does without: what is last said of a path in a sequence (`Final`,
`About`) is defined by quantifying over positions, so its laws for an item appended,
the first one taken and two sequences joined are first-order.

### Only model-checked

* Liveness (`EditsArrive`, `SyncTerminates`, `Settles`): fairness and ENABLED are
  outside the prover's reach.
* `LoneUserAgrees`: a rename's item takes what another item has made, so the last
  word about a path is no longer enough and the invariant has to replay everything
  on a client's way in order.

## Not modelled

* Contents of notes, JSON, HTTP headers, logging, path separators.
* `config.go`: read once, no state.  `/metadata`: read-only, and no client calls
  it.  `ProcessedFiles`: never marked.
* Directories in directories while clients run (`FileTree` and `SnapshotSync` allow
  them, `LiveSync` does not).
* `scripts/release/run.sh` and `run.bat`, beyond typing, hidden paths and tombstones,
  which are proved for either script.  No run is undisturbed then: a message may
  undo or anticipate an action of the answer being executed, and the agreement
  properties say nothing.  A client that purges before `clientsync` has
  done so is left out.
* The walk at a client's start beside its consumer and watcher (see `LiveSync`).
* A disk that is full during `io.Copy`, and a `RemoveAll` that fails half-way.
* Users who act while their client is live, in `Startup`; clients that are killed,
  in `LiveSync`.
* The integration tests and their containers, read for what they expect.
* A clock per machine.  Everything said of mtimes holds for one clock and can
  only be weaker with several.

## What is left

* `LoneUserAgrees` as a theorem, by replaying all that is on its way from the one
  user's directory, as `MoveInv` does for the flat directory of `ClientWatch`.
* What can be said of agreement when both programs of `run.sh` are at work at once.
* The start of the watcher, directory by directory, beside the consumer.

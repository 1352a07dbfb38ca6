----------------------------- MODULE ClientWatch -----------------------------
(***************************************************************************)
(* The client while it runs: client.go.  One client, at the granularity of *)
(* its goroutines:                                                         *)
(*   watch          takes file system events from fsnotify;                *)
(*   WriteDebouncer holds back writes until a timer's callback, which runs *)
(*                  in a goroutine of its own, passes them on;             *)
(*   processEvents  takes events from the bounded channel fileEvents and   *)
(*                  tells the server;                                      *)
(*   consume        takes messages about other clients' changes and does   *)
(*                  them to the local directory, which the watcher sees.   *)
(* putWrite and writeExists have a value receiver, so their Lock locks a   *)
(* copy of the debouncer's mutex, which only the callback of a timer made  *)
(* by the same call shares: the maps are in truth unprotected.             *)
(*                                                                         *)
(* The sync directory is flat here and holds notes; the server is what its *)
(* handlers make of the requests, in the order it gets them.               *)
(***************************************************************************)
EXTENDS Integers, Sequences, FiniteSets

CONSTANTS
  Notes,       \* the names of notes
  Absent,      \* in place of a body: there is no such note
  Empty,       \* the body of a note that was created and not yet filled
  ErrorPage,   \* the body of the file server's answer to a GET that fails
  NoNote,      \* in place of a name
  Cap,         \* capacity of the channel fileEvents
  Prompt,      \* the echo of what the consumer does is seen within a second
  UserOps,     \* what the user does in this instance
  RemoteOps,   \* what other clients do in this instance
  MaxEdits, MaxRemote, MaxFaults    \* bounds, for TLC only

ASSUME CapAssumption == Cap \in Nat \ {0}
ASSUME RemoteOpsAssumption == RemoteOps \subseteq {"upload", "rename", "remove"}
ASSUME WatchBoundsAssumption ==
  MaxEdits \in Nat /\ MaxRemote \in Nat /\ MaxFaults \in Nat

\* What stands in place of a name is no name; a note that is there is told from
\* one that is not.
ASSUME NoNoteAssumption == NoNote \notin Notes
ASSUME AbsentAssumption == Absent \notin Nat \cup {Empty, ErrorPage}

VARIABLES
  local,     \* the client's directory: what is in each note
  server,    \* the server's
  events,    \* what fsnotify has yet to deliver
  watch,     \* the watch goroutine
  timers,    \* WriteDebouncer.timers: the timer of a note, 0 for none
  files,     \* WriteDebouncer.files: the notes a write is held back of
  armed,     \* the runtime's timers that are going to fire
  calls,     \* callbacks that have not looked at the maps yet, per timer
  taking,    \* timers whose callback has found its write and not yet taken it
  putting,   \* callbacks that have taken a write and not yet put it, per note
  channel,   \* EventProcessor.fileEvents
  proc,      \* the processEvents goroutine
  inbox,     \* messages from other clients in the queue
  consumer,  \* the consume goroutine
  ignored,   \* IgnoreEvents.timers: the notes whose events are ignored
  alive,     \* the process has not panicked; when it has, nothing more happens
  edits, remote, faults    \* how much of the bounds is used

debouncer == <<timers, files, armed, calls, taking, putting>>
vars == <<local, server, events, watch, debouncer, channel, proc,
          inbox, consumer, ignored, alive, edits, remote, faults>>

-----------------------------------------------------------------------------
Body   == Nat \cup {Absent, Empty, ErrorPage}
Name   == Notes \cup {NoNote}
Number == 1..(MaxEdits + 2 * MaxRemote + 1)     \* a write makes at most one timer
Timer  == Notes \X Number

Op      == {"CREATE", "WRITE", "RENAME", "REMOVE", "CHMOD"}
Event   == [op : Op, path : Notes, old : Name]
             \cup [op : {"NECO_RENAME"}, path : Notes, old : Notes]
Request == [op : {"upload", "remove"}, path : Notes, old : Name, body : Body]
             \cup [op : {"rename"}, path : Notes, old : Notes, body : Body]

FsEvent(op, p)   == [op |-> op, path |-> p, old |-> NoNote]
Renamed(op, p, q) == [op |-> op, path |-> q, old |-> p]

\* In "check", "reset" and "note" the goroutine is inside putWrite, in "put"
\* inside putEvent; "made" is the timer this putWrite has made.
WatchState == [pc   : {"idle", "check", "reset", "note", "put"},
               ev   : Event \cup {NoNote},
               made : Timer \cup {NoNote}]
ProcState  == [pc : {"idle", "send"}, req : Request \cup {NoNote}]

\* In "fetch" a local file is open and the GET outstanding: "from" is the note
\* asked for, "file" the name the open file has by now.
ConsumerState == [pc : {"idle", "fetch"}, from : Name, file : Name]

TypeOK ==
  /\ local \in [Notes -> Body] /\ server \in [Notes -> Body]
  /\ events \in Seq(Event) /\ channel \in Seq(Event) /\ inbox \in Seq(Event)
  /\ Len(channel) =< Cap
  /\ watch \in WatchState /\ proc \in ProcState /\ consumer \in ConsumerState
  /\ timers \in [Notes -> Number \cup {0}]
  /\ files \subseteq Notes
  /\ armed \subseteq Timer /\ taking \subseteq Timer
  /\ calls \in [Timer -> Nat] /\ putting \in [Notes -> Nat]
  /\ ignored \subseteq Notes
  /\ alive \in BOOLEAN
  /\ edits \in Nat /\ remote \in Nat /\ faults \in Nat

\* Started on a directory that clientsync has brought in agreement.
Init ==
  /\ \E S \in SUBSET Notes :
       local = [p \in Notes |-> IF p \in S THEN 0 ELSE Absent]
  /\ server = local
  /\ events = <<>> /\ channel = <<>> /\ inbox = <<>>
  /\ watch = [pc |-> "idle", ev |-> NoNote, made |-> NoNote]
  /\ timers = [p \in Notes |-> 0]
  /\ files = {} /\ armed = {} /\ taking = {}
  /\ calls = [t \in Timer |-> 0] /\ putting = [p \in Notes |-> 0]
  /\ proc = [pc |-> "idle", req |-> NoNote]
  /\ consumer = [pc |-> "idle", from |-> NoNote, file |-> NoNote]
  /\ ignored = {}
  /\ alive = TRUE
  /\ edits = 0 /\ remote = 0 /\ faults = 0

-----------------------------------------------------------------------------
(* The watch goroutine and the debouncer.                                  *)

\* deleteWrite, if writeExists says so: a timer that has fired already is not
\* stopped by this.
DeleteWrite(p) ==
  /\ IF timers[p] = 0
       THEN UNCHANGED <<timers, files, armed>>
       ELSE /\ armed' = armed \ {<<p, timers[p]>>}
            /\ timers' = [timers EXCEPT ![p] = 0]
            /\ files' = files \ {p}
  /\ UNCHANGED <<calls, taking, putting>>

WatchDo(pc, ev) == watch' = [pc |-> pc, ev |-> ev, made |-> NoNote]
WatchLoop       == WatchDo("idle", NoNote)

\* Mutant: a rename is taken for a creation.
CreatedOnly(ev) == ev

Created(ev) == IF ev.old = NoNote THEN ev ELSE [ev EXCEPT !.op = "NECO_RENAME"]

\* The goroutine takes an event and decides what becomes of it.
WatchEvent ==
  /\ alive /\ watch.pc = "idle" /\ events # <<>>
  /\ events' = Tail(events)
  /\ LET ev == Head(events) IN
     \/ /\ ev.path \in ignored
        /\ WatchLoop /\ UNCHANGED debouncer
     \/ /\ ev.path \notin ignored /\ ev.op = "WRITE"
        /\ WatchDo("check", ev) /\ UNCHANGED debouncer
     \/ /\ ev.path \notin ignored /\ ev.op = "CREATE"
        /\ WatchDo("put", Created(ev))
        /\ UNCHANGED debouncer
     \/ /\ ev.path \notin ignored /\ ev.op = "RENAME"
        /\ WatchLoop /\ DeleteWrite(ev.path)
     \/ /\ ev.path \notin ignored /\ ev.op = "REMOVE"
        /\ WatchDo("put", ev) /\ DeleteWrite(ev.path)
     \/ /\ ev.path \notin ignored /\ ev.op = "CHMOD"
        /\ WatchDo("put", ev) /\ UNCHANGED debouncer
  /\ UNCHANGED <<local, server, channel, proc, inbox, consumer, ignored, alive,
                 edits, remote, faults>>

WatchFrame ==
  /\ alive
  /\ UNCHANGED <<local, server, events, proc, inbox, consumer, ignored, edits,
                 remote, faults>>

Free(n) == \A p \in Notes :
  timers[p] # n /\ calls[<<p, n>>] = 0 /\ <<p, n>> \notin armed \cup taking
LowestFree(n) == Free(n) /\ \A m \in 1..(n - 1) : ~Free(m)

\* putWrite looks for the note's timer and makes one if there is none ...
PutWriteCheck ==
  LET p == watch.ev.path IN
  /\ watch.pc = "check"
  /\ IF timers[p] = 0
       THEN \E n \in Number :
              /\ LowestFree(n)
              /\ timers' = [timers EXCEPT ![p] = n]
              /\ armed' = armed \cup {<<p, n>>}
              /\ watch' = [watch EXCEPT !.pc = "note", !.made = <<p, n>>]
       ELSE /\ watch' = [watch EXCEPT !.pc = "reset"]
            /\ UNCHANGED <<timers, armed>>
  /\ UNCHANGED <<files, calls, taking, putting, channel, alive>> /\ WatchFrame

\* ... or resets the one it finds now, which may be nil ...
PutWriteReset ==
  LET p == watch.ev.path IN
  /\ watch.pc = "reset"
  /\ IF timers[p] = 0
       THEN alive' = FALSE /\ UNCHANGED <<armed, watch>>
       ELSE /\ armed' = armed \cup {<<p, timers[p]>>}
            /\ watch' = [watch EXCEPT !.pc = "note"]
            /\ UNCHANGED alive
  /\ UNCHANGED <<timers, files, calls, taking, putting, channel>> /\ WatchFrame

\* ... and notes the write.
PutWriteNote ==
  /\ watch.pc = "note"
  /\ files' = files \cup {watch.ev.path}
  /\ WatchLoop
  /\ UNCHANGED <<timers, armed, calls, taking, putting, channel, alive>> /\ WatchFrame

\* Mutant: an event is dropped when the channel is full.
WatchPutOrDrop ==
  /\ watch.pc = "put"
  /\ channel' = IF Len(channel) < Cap THEN Append(channel, watch.ev) ELSE channel
  /\ WatchLoop
  /\ UNCHANGED <<debouncer, alive>> /\ WatchFrame

\* putEvent blocks while the channel is full.
WatchPut ==
  /\ watch.pc = "put" /\ Len(channel) < Cap
  /\ channel' = Append(channel, watch.ev)
  /\ WatchLoop
  /\ UNCHANGED <<debouncer, alive>> /\ WatchFrame

CallbackFrame ==
  /\ alive
  /\ UNCHANGED <<local, server, events, watch, proc, inbox, consumer, ignored,
                 alive, edits, remote, faults>>

Fire(t) ==
  /\ t \in armed
  /\ armed' = armed \ {t}
  /\ calls' = [calls EXCEPT ![t] = @ + 1]
  /\ UNCHANGED <<timers, files, taking, putting, channel>> /\ CallbackFrame

\* Mutant: the callback locks a copy of its own.
CallbackCheckUnlocked(t) ==
  /\ calls[t] > 0 /\ t \notin taking
  /\ calls' = [calls EXCEPT ![t] = @ - 1]
  /\ taking' = IF t[1] \in files /\ timers[t[1]] # 0 THEN taking \cup {t} ELSE taking
  /\ UNCHANGED <<timers, files, armed, putting, channel>> /\ CallbackFrame

\* The callback locks the mutex it shares with the putWrite that made its timer
\* and with the timer's other callbacks, and looks whether there is a write.
CallbackCheck(t) ==
  /\ calls[t] > 0 /\ t \notin taking /\ watch.made # t
  /\ calls' = [calls EXCEPT ![t] = @ - 1]
  /\ taking' = IF t[1] \in files /\ timers[t[1]] # 0 THEN taking \cup {t} ELSE taking
  /\ UNCHANGED <<timers, files, armed, putting, channel>> /\ CallbackFrame

CallbackTake(t) ==
  /\ t \in taking
  /\ taking' = taking \ {t}
  /\ files' = files \ {t[1]}
  /\ timers' = [timers EXCEPT ![t[1]] = 0]
  /\ putting' = [putting EXCEPT ![t[1]] = @ + 1]
  /\ UNCHANGED <<armed, calls, channel>> /\ CallbackFrame

\* Mutants: the callback does not wait for room in the channel.
CallbackPutAnyway(p) ==
  /\ putting[p] > 0
  /\ channel' = Append(channel, FsEvent("WRITE", p))
  /\ putting' = [putting EXCEPT ![p] = @ - 1]
  /\ UNCHANGED <<timers, files, armed, calls, taking>> /\ CallbackFrame
CallbackPutOrDrop(p) ==
  /\ putting[p] > 0
  /\ channel' = IF Len(channel) < Cap THEN Append(channel, FsEvent("WRITE", p)) ELSE channel
  /\ putting' = [putting EXCEPT ![p] = @ - 1]
  /\ UNCHANGED <<timers, files, armed, calls, taking>> /\ CallbackFrame

CallbackPut(p) ==
  /\ putting[p] > 0 /\ Len(channel) < Cap
  /\ channel' = Append(channel, FsEvent("WRITE", p))
  /\ putting' = [putting EXCEPT ![p] = @ - 1]
  /\ UNCHANGED <<timers, files, armed, calls, taking>> /\ CallbackFrame

-----------------------------------------------------------------------------
(* processEvents and the server.                                           *)

ProcFrame ==
  /\ alive
  /\ UNCHANGED <<local, events, watch, debouncer, inbox, consumer, ignored,
                 alive, edits, remote>>

Send(op, p, old, body) ==
  proc' = [pc |-> "send", req |-> [op |-> op, path |-> p, old |-> old, body |-> body]]
ProcLoop == proc' = [pc |-> "idle", req |-> NoNote]

\* An upload reads the note; there is none to send when the note has gone.
ProcEvent ==
  /\ proc.pc = "idle" /\ channel # <<>>
  /\ channel' = Tail(channel)
  /\ LET ev == Head(channel)
         p  == ev.path
         uploads == /\ ev.op \in {"CREATE", "WRITE"}
                    /\ ev.op = "WRITE" => p \notin ignored
                    /\ local[p] # Absent
     IN \/ uploads /\ Send("upload", p, NoNote, local[p])
        \/ ev.op = "NECO_RENAME" /\ Send("rename", p, ev.old, Empty)
        \/ ev.op = "REMOVE" /\ Send("remove", p, NoNote, Empty)
        \/ ev.op \in {"CREATE", "WRITE", "CHMOD"} /\ ~uploads /\ ProcLoop
  /\ UNCHANGED <<server, faults>> /\ ProcFrame

\* What the server's handlers do: a rename of what is not there is an error.
Serve(req) ==
  CASE req.op = "upload" -> [server EXCEPT ![req.path] = req.body]
    [] req.op = "remove" -> [server EXCEPT ![req.path] = Absent]
    [] req.op = "rename" ->
         IF server[req.old] = Absent THEN server
         ELSE [server EXCEPT ![req.old] = Absent, ![req.path] = server[req.old]]

ProcSend ==
  /\ proc.pc = "send"
  /\ server' = Serve(proc.req)
  /\ ProcLoop
  /\ UNCHANGED <<channel, faults>> /\ ProcFrame

\* The server cannot be reached: this is logged, and the event is gone.
ProcFail ==
  /\ proc.pc = "send" /\ faults < MaxFaults
  /\ faults' = faults + 1
  /\ ProcLoop
  /\ UNCHANGED <<channel, server>> /\ ProcFrame

-----------------------------------------------------------------------------
(* The consumer, the ignore list and the other clients.                    *)

ConsumeFrame ==
  /\ alive
  /\ UNCHANGED <<server, watch, debouncer, channel, proc, alive, edits, remote,
                 faults>>
ConsumeLoop  == consumer' = [pc |-> "idle", from |-> NoNote, file |-> NoNote]

\* os.Rename and what fsnotify makes of it.
RenameNote(p, q) ==
  /\ local' = [local EXCEPT ![p] = Absent, ![q] = local[p]]
  /\ events' = events \o <<FsEvent("RENAME", p), Renamed("CREATE", p, q)>>

\* Mutant: a rename has only its old name ignored.
IgnoredByOld(m) == {IF m.op = "NECO_RENAME" THEN m.old ELSE m.path}

IgnoredBy(m) == {m.path} \cup (IF m.op = "NECO_RENAME" THEN {m.old} ELSE {})

\* A message is accepted first and then acted upon.  A download creates, and so
\* empties, the note before it asks for it.
ConsumeMessage ==
  /\ consumer.pc = "idle" /\ inbox # <<>>
  /\ inbox' = Tail(inbox)
  /\ ignored' = ignored \cup IgnoredBy(Head(inbox))
  /\ LET m == Head(inbox)
         p == m.path
     IN
     \/ /\ m.op = "CREATE"
        /\ local' = [local EXCEPT ![p] = Empty]
        /\ events' = Append(events, FsEvent(IF local[p] = Absent THEN "CREATE" ELSE "WRITE", p))
        /\ consumer' = [pc |-> "fetch", from |-> p, file |-> p]
     \/ /\ m.op = "NECO_RENAME"
        /\ IF local[m.old] # Absent THEN RenameNote(m.old, p)
                                     ELSE UNCHANGED <<local, events>>
        /\ ConsumeLoop
     \/ /\ m.op = "REMOVE"
        /\ local' = [local EXCEPT ![p] = Absent]
        /\ events' = IF local[p] = Absent THEN events
                                          ELSE Append(events, FsEvent("REMOVE", p))
        /\ ConsumeLoop
  /\ ConsumeFrame

\* The answer's body goes into the open file, whatever the answer's status and
\* the file's name by now.
ConsumeCopy ==
  LET body == IF server[consumer.from] = Absent THEN ErrorPage ELSE server[consumer.from]
  IN
  /\ consumer.pc = "fetch"
  /\ IF consumer.file = NoNote
       THEN UNCHANGED <<local, events>>
       ELSE /\ local' = [local EXCEPT ![consumer.file] = body]
            /\ events' = Append(events, FsEvent("WRITE", consumer.file))
  /\ ConsumeLoop
  /\ UNCHANGED <<inbox, ignored>> /\ ConsumeFrame

Echoing(p) ==
  \/ p \in {consumer.from, consumer.file}
  \/ \E i \in DOMAIN events : events[i].path = p

\* Entries end a second after the putIgnore that made them.  One that finds an
\* entry does not renew it, and nothing bounds a download: that is "Prompt" FALSE,
\* where an entry ends at any time.  "Prompt" is an assumption on time and nothing
\* the code sees to: that no entry ends before the echoes of its path have come,
\* those of a second message about the path within the first one's second too.
Expiring == {p \in ignored : Prompt => ~Echoing(p)}

ExpireIgnore(p) ==
  /\ p \in Expiring
  /\ ignored' = ignored \ {p}
  /\ UNCHANGED <<local, events, inbox, consumer>> /\ ConsumeFrame

\* Two goroutines at the same map, which no mutex keeps apart, and one of them is
\* going to write: the runtime may notice and end the process.  In the debouncer
\* these are callbacks and the watcher, which first looks (writeExists) when a note
\* is renamed or removed ...
DebouncerRace ==
  LET looking  == {t \in Timer : calls[t] > 0 /\ watch.made # t}
      p        == watch.ev.path
      deleting == /\ watch.pc = "idle" /\ events # <<>>
                  /\ Head(events).path \notin ignored
                  /\ Head(events).op \in {"RENAME", "REMOVE"}
  IN
  \/ taking # {} /\ (deleting \/ watch.pc \in {"check", "reset", "note"})
  \/ looking # {} /\ \/ deleting /\ timers[Head(events).path] # 0
                     \/ watch.pc = "check" /\ timers[p] = 0
                     \/ watch.pc = "note"
  \/ \E t \in taking : looking \cup taking # {t}

\* ... in the ignore list the consumer, the timers that end entries, the watcher
\* and the processor.
IgnoreRace ==
  LET accepting == consumer.pc = "idle" /\ inbox # <<>>
      reading   == \/ watch.pc = "idle" /\ events # <<>>
                   \/ proc.pc = "idle" /\ channel # <<>> /\ Head(channel).op = "WRITE"
  IN
  \/ accepting /\ reading /\ ~(IgnoredBy(Head(inbox)) \subseteq ignored)
  \/ Expiring # {} /\ (accepting \/ reading)
  \/ \E p, q \in Expiring : p # q

MapFault ==
  /\ DebouncerRace \/ IgnoreRace
  /\ alive' = FALSE
  /\ UNCHANGED <<debouncer, channel, watch>> /\ WatchFrame

\* Mutant: the message has the names of a rename in each other's place.
AnnouncedSwapped(req) ==
  CASE req.op = "upload" -> <<FsEvent("CREATE", req.path)>>
    [] req.op = "remove" -> <<FsEvent("REMOVE", req.path)>>
    [] req.op = "rename" -> IF server[req.old] = Absent THEN <<>>
                            ELSE <<Renamed("NECO_RENAME", req.path, req.old)>>

\* What the handlers tell this client of another client's request.
Announced(req) ==
  CASE req.op = "upload" -> <<FsEvent("CREATE", req.path)>>
    [] req.op = "remove" -> <<FsEvent("REMOVE", req.path)>>
    [] req.op = "rename" -> IF server[req.old] = Absent THEN <<>>
                            ELSE <<Renamed("NECO_RENAME", req.old, req.path)>>

Elsewhere ==
  /\ alive /\ remote < MaxRemote
  /\ remote' = remote + 1
  /\ \E op \in RemoteOps : \E p, q \in Notes :
       LET req == [op |-> op, path |-> p, old |-> q, body |-> MaxEdits + remote + 1] IN
       /\ op = "rename" <=> p # q
       /\ server' = Serve(req)
       /\ inbox' = inbox \o Announced(req)
  /\ UNCHANGED <<local, events, watch, debouncer, channel, proc, consumer, ignored,
                 alive, edits, faults>>

-----------------------------------------------------------------------------
(* The user.  A user's edits are numbered, and their number is what they   *)
(* write.                                                                  *)

UserStep(op) ==
  /\ alive /\ op \in UserOps
  /\ edits < MaxEdits
  /\ edits' = edits + 1
  /\ UNCHANGED <<server, watch, debouncer, channel, proc, inbox, ignored, alive,
                 remote, faults>>

Unlinked(p) == [consumer EXCEPT !.file = IF @ = p THEN NoNote ELSE @]

UserCreate ==
  \E p \in Notes :
    /\ UserStep("create") /\ local[p] = Absent
    /\ local' = [local EXCEPT ![p] = edits + 1]
    /\ events' = Append(events, FsEvent("CREATE", p))
    /\ UNCHANGED consumer

UserWrite ==
  \E p \in Notes :
    /\ UserStep("write") /\ local[p] # Absent
    /\ local' = [local EXCEPT ![p] = edits + 1]
    /\ events' = Append(events, FsEvent("WRITE", p))
    /\ UNCHANGED consumer

UserRemove ==
  \E p \in Notes :
    /\ UserStep("remove") /\ local[p] # Absent
    /\ local' = [local EXCEPT ![p] = Absent]
    /\ events' = Append(events, FsEvent("REMOVE", p))
    /\ consumer' = Unlinked(p)

UserRename ==
  \E p, q \in Notes :
    /\ UserStep("rename") /\ p # q /\ local[p] # Absent
    /\ RenameNote(p, q)
    /\ consumer' = [consumer EXCEPT !.file = IF @ = p THEN q
                                             ELSE IF @ = q THEN NoNote ELSE @]

\* To a place the watcher does not watch.
UserMoveOut ==
  \E p \in Notes :
    /\ UserStep("moveout") /\ local[p] # Absent
    /\ local' = [local EXCEPT ![p] = Absent]
    /\ events' = Append(events, FsEvent("RENAME", p))
    /\ consumer' = Unlinked(p)

UserChmod ==
  \E p \in Notes :
    /\ UserStep("chmod") /\ local[p] # Absent
    /\ events' = Append(events, FsEvent("CHMOD", p))
    /\ UNCHANGED <<local, consumer>>

-----------------------------------------------------------------------------
Watcher     == WatchEvent \/ PutWriteCheck \/ PutWriteReset \/ PutWriteNote \/ WatchPut
Callback(t) == CallbackCheck(t) \/ CallbackTake(t)
Processor   == ProcEvent \/ ProcSend
Consumer    == ConsumeMessage \/ ConsumeCopy
User        == UserCreate \/ UserWrite \/ UserRemove \/ UserRename \/ UserMoveOut \/ UserChmod

Next ==
  \/ Watcher \/ Processor \/ Consumer \/ User
  \/ \E t \in Timer : Fire(t) \/ Callback(t)
  \/ \E p \in Notes : CallbackPut(p) \/ ExpireIgnore(p)
  \/ Elsewhere \/ ProcFail \/ MapFault

Spec == Init /\ [][Next]_vars

\* Goroutines run, timers fire, the server answers.  Nobody has to edit or fail.
Fairness ==
  /\ WF_vars(Watcher)
  /\ WF_vars(Processor)
  /\ WF_vars(Consumer)
  /\ \A t \in Timer : WF_vars(Fire(t)) /\ WF_vars(Callback(t))
  /\ \A p \in Notes : WF_vars(CallbackPut(p)) /\ WF_vars(ExpireIgnore(p))

FairSpec == Spec /\ Fairness

-----------------------------------------------------------------------------
(* Properties.                                                             *)

\* A timer in the map is going to fire, or its callback is on its way, and it has a
\* write to pass on, or the putWrite that made it is about to note one: no order of
\* lookups, resets, deletions and callbacks leaves an entry behind that nothing will
\* take out, although the mutex a callback locks is only the one of the call that
\* made its timer.  (A write may be left without a timer: when the callback takes
\* the one before it between a putWrite's reset and its note.  What it wrote goes
\* with the callback's event; EditsHaveCarrier does not count such a write.)
TimersPassOnWrites ==
  \A p \in Notes : timers[p] # 0 =>
    LET t == <<p, timers[p]>> IN
    /\ t \in armed \cup taking \/ calls[t] > 0
    /\ p \in files \/ watch.made = t

Held(p) == p \in files /\ timers[p] # 0

\* Something is on its way to the server that ends in what p is now.
Carried(p) ==
  \/ \E i \in DOMAIN events : events[i].path = p
  \/ watch.pc # "idle" /\ watch.ev.path = p
  \/ Held(p) \/ putting[p] > 0
  \/ \E i \in DOMAIN channel : channel[i].path = p
  \/ proc.pc = "send" /\ proc.req.path = p

\* No edit falls between the goroutines: a note whose contents the server does
\* not have is still carried by an event, a held-back write, a callback, the
\* channel or a request.  (The user creates, writes and removes, and no other
\* client and no failing request interfere.)
EditsHaveCarrier == \A p \in Notes : local[p] # server[p] => Carried(p)

\* Such an edit reaches the server, with the bounded channel between them, or
\* the process dies.
EditsArrive ==
  \A p \in Notes : local[p] # server[p] ~> (local[p] = server[p] \/ ~alive)

\* What Mirror has for a removal is a body.
InFlight ==
  IF proc.pc = "idle" THEN <<>>
  ELSE <<proc.req.path, IF proc.req.op = "remove" THEN Absent ELSE proc.req.body>>

Abstract == INSTANCE Mirror WITH dirty <- {p \in Notes : Carried(p)}, flight <- InFlight

\* Goroutines, debouncer, channel and all, such a client does what Mirror promises:
\* each request has what is in its note when it is made, or says that it is gone;
\* they land in that order, and a note is let go only when the server has it.
MirrorsEdits == Abstract!Spec

Quiet ==
  /\ events = <<>> /\ channel = <<>> /\ inbox = <<>>
  /\ watch.pc = "idle" /\ proc.pc = "idle" /\ consumer.pc = "idle"
  /\ \A p \in Notes : timers[p] = 0 /\ putting[p] = 0

\* A client whose user only renames and removes has told the server of it, in
\* order, when it has nothing left to do.
RenamesArrive == Quiet /\ remote = 0 => local = server

\* A client whose user does nothing passes nothing on: what the consumer does
\* to the directory, under both names of a rename, is ignored by the watcher,
\* if it is seen within the second of the ignore list.
NothingEchoed == edits = 0 => channel = <<>> /\ proc.pc = "idle"

\* ... and it ends with the notes the server has.
NamesArrive ==
  Quiet /\ edits = 0 => \A p \in Notes : local[p] = Absent <=> server[p] = Absent

-----------------------------------------------------------------------------
(* What the documentation says and the code does not do.                   *)

\* README.md:75, "Implements write debouncing": a write that finds a timer renews it.
\* putWrite locks "wd.mutex" (client.go:547) so that the timer it has found is still
\* there when it resets it, but it locks a copy: the entry may be gone, and Reset is
\* called on nil.
ResetFindsTimer == watch.pc = "reset" => timers[watch.ev.path] # 0

\* README.md:73, "syncs local changes to server", and README.md:77,
\* "bidirectional file synchronization": a client with nothing left to do agrees
\* with the server.  Which operations break this is told apart by instances.
QuietMeansSynced == Quiet => local = server
=============================================================================

-------------------------- MODULE ClientWatchProofs --------------------------
(* Proofs about ClientWatch, for any notes, capacity of the channel and      *)
(* bounds: of every client, type correctness and that every timer in the     *)
(* debouncer's map passes on a write; of one whose user does nothing, that   *)
(* nothing is echoed and it ends with the server's notes; of one whose user  *)
(* renames and removes, that it ends as the server does; of one whose user   *)
(* creates, writes and removes while nobody else does anything, that no edit *)
(* is lost between the goroutines and the client implements Mirror.          *)
EXTENDS ClientWatch, ReplayingProofs, SequenceTheorems, TLAPS

-----------------------------------------------------------------------------
(* Type correctness.                                                        *)

\* What a goroutine is at work on.
Busy ==
  /\ watch.pc # "idle" => watch.ev \in Event
  /\ proc.pc = "send" => proc.req \in Request
  /\ consumer.pc = "fetch" => consumer.from \in Notes

TypeInv == TypeOK /\ Busy

LEMMA EventTypes ==
  /\ \A op \in Op, p \in Notes : FsEvent(op, p) \in Event
  /\ \A op \in Op \cup {"NECO_RENAME"}, p, q \in Notes : Renamed(op, p, q) \in Event
  BY DEF FsEvent, Renamed, Event, Name

\* The fields of an event, and what makes it one.
LEMMA EventFields ==
  ASSUME NEW e \in Event
  PROVE  /\ e.path \in Notes /\ e.old \in Name
         /\ e.op \in Op \cup {"NECO_RENAME"}
         /\ e.op = "NECO_RENAME" => e.old \in Notes
<1>1. CASE e \in [op : Op, path : Notes, old : Name]
  BY <1>1 DEF Op
<1>2. CASE e \in [op : {"NECO_RENAME"}, path : Notes, old : Notes]
  BY <1>2 DEF Name
<1> QED
  BY <1>1, <1>2 DEF Event

LEMMA CreatedType == ASSUME NEW e \in Event PROVE Created(e) \in Event
<1>1. CASE e \in [op : Op, path : Notes, old : Name]
  BY <1>1 DEF Created, Event, Name
<1>2. CASE e \in [op : {"NECO_RENAME"}, path : Notes, old : Notes]
  BY <1>2 DEF Created, Event
<1> QED
  BY <1>1, <1>2 DEF Event

LEMMA AppendType ==
  ASSUME NEW s \in Seq(Event), NEW e \in Event
  PROVE  Append(s, e) \in Seq(Event)
  OBVIOUS

LEMMA ConcatType ==
  ASSUME NEW s \in Seq(Event), NEW t \in Seq(Event)
  PROVE  s \o t \in Seq(Event)
  OBVIOUS

LEMMA HeadTailType ==
  ASSUME NEW s \in Seq(Event), s # <<>>
  PROVE  /\ Head(s) \in Event /\ Tail(s) \in Seq(Event)
         /\ Len(Tail(s)) = Len(s) - 1
  OBVIOUS

LEMMA DeleteWriteType ==
  ASSUME TypeOK, NEW p \in Notes, DeleteWrite(p)
  PROVE  /\ timers' \in [Notes -> Number \cup {0}] /\ files' \subseteq Notes
         /\ armed' \subseteq Timer /\ taking' \subseteq Timer
         /\ calls' \in [Timer -> Nat] /\ putting' \in [Notes -> Nat]
  BY DEF TypeOK, DeleteWrite

LEMMA TypeInit == Init => TypeInv
<1> SUFFICES ASSUME Init PROVE TypeInv
  OBVIOUS
<1>1. local \in [Notes -> Body] /\ server \in [Notes -> Body]
  BY DEF Init, Body
<1>2. /\ watch \in WatchState /\ proc \in ProcState /\ consumer \in ConsumerState
      /\ Busy
  BY DEF Init, WatchState, ProcState, ConsumerState, Name, Busy
<1>3. calls \in [Timer -> Nat] /\ putting \in [Notes -> Nat]
  BY DEF Init
<1> QED
  BY <1>1, <1>2, <1>3, CapAssumption DEF Init, TypeOK, TypeInv, Number

LEMMA WatchEventType == TypeInv /\ WatchEvent => TypeInv'
<1> SUFFICES ASSUME TypeInv, WatchEvent PROVE TypeInv'
  OBVIOUS
<1> DEFINE ev == Head(events)
<1>1. ev \in Event /\ events' \in Seq(Event)
  BY HeadTailType DEF WatchEvent, TypeInv, TypeOK
<1>2. Created(ev) \in Event /\ ev.path \in Notes
  BY <1>1, EventFields, CreatedType
<1> HIDE DEF ev
<1>3. WatchLoop => watch' \in WatchState /\ watch'.pc = "idle"
  BY DEF WatchLoop, WatchDo, WatchState
<1>4. \A e \in Event, pc \in {"check", "put"} :
        WatchDo(pc, e) => watch' \in WatchState /\ watch'.ev \in Event
  BY DEF WatchDo, WatchState
<1>5. watch' \in WatchState /\ (watch'.pc # "idle" => watch'.ev \in Event)
  BY <1>1, <1>2, <1>3, <1>4 DEF WatchEvent, ev
<1>6. UNCHANGED debouncer \/ DeleteWrite(ev.path)
  BY DEF WatchEvent, ev
<1>7. /\ timers' \in [Notes -> Number \cup {0}] /\ files' \subseteq Notes
      /\ armed' \subseteq Timer /\ taking' \subseteq Timer
      /\ calls' \in [Timer -> Nat] /\ putting' \in [Notes -> Nat]
  BY <1>2, <1>6, DeleteWriteType DEF debouncer, TypeInv, TypeOK
<1> QED
  BY <1>1, <1>5, <1>7 DEF WatchEvent, TypeInv, TypeOK, Busy

LEMMA PutWriteType ==
  TypeInv /\ (PutWriteCheck \/ PutWriteReset \/ PutWriteNote) => TypeInv'
<1> SUFFICES ASSUME TypeInv PROVE PutWriteCheck \/ PutWriteReset \/ PutWriteNote => TypeInv'
  OBVIOUS
<1> DEFINE p == watch.ev.path
<1>1. watch.pc # "idle" => p \in Notes
  BY DEF TypeInv, Busy, Event
<1> HIDE DEF p
<1>2. CASE PutWriteCheck
  <2>1. CASE timers[p] = 0
    <3>1. PICK n \in Number : /\ timers' = [timers EXCEPT ![p] = n]
                              /\ armed' = armed \cup {<<p, n>>}
                              /\ watch' = [watch EXCEPT !.pc = "note", !.made = <<p, n>>]
      BY <1>2, <2>1 DEF PutWriteCheck, p
    <3>2. p \in Notes /\ <<p, n>> \in Timer
      BY <1>1, <1>2 DEF PutWriteCheck, Timer
    <3>3. watch' \in WatchState /\ watch'.ev = watch.ev
      BY <3>1, <3>2 DEF TypeInv, TypeOK, WatchState
    <3> QED
      BY <1>2, <3>1, <3>2, <3>3 DEF PutWriteCheck, WatchFrame, TypeInv, TypeOK, Busy
  <2>2. CASE timers[p] # 0
    <3>1. watch' = [watch EXCEPT !.pc = "reset"] /\ UNCHANGED <<timers, armed>>
      BY <1>2, <2>2 DEF PutWriteCheck, p
    <3>2. watch' \in WatchState /\ watch'.ev = watch.ev
      BY <3>1 DEF TypeInv, TypeOK, WatchState
    <3> QED
      BY <1>2, <3>1, <3>2 DEF PutWriteCheck, WatchFrame, TypeInv, TypeOK, Busy
  <2> QED
    BY <2>1, <2>2
<1>3. CASE PutWriteReset
  <2>1. CASE timers[p] = 0
    BY <1>3, <2>1 DEF PutWriteReset, p, WatchFrame, TypeInv, TypeOK, Busy
  <2>2. CASE timers[p] # 0
    <3>1. watch' = [watch EXCEPT !.pc = "note"] /\ armed' = armed \cup {<<p, timers[p]>>}
          /\ UNCHANGED alive
      BY <1>3, <2>2 DEF PutWriteReset, p
    <3>2. watch' \in WatchState /\ watch'.ev = watch.ev
      BY <3>1 DEF TypeInv, TypeOK, WatchState
    <3>3. <<p, timers[p]>> \in Timer
      BY <1>1, <1>3, <2>2 DEF PutWriteReset, Timer, TypeInv, TypeOK
    <3> QED
      BY <1>3, <3>1, <3>2, <3>3 DEF PutWriteReset, WatchFrame, TypeInv, TypeOK, Busy
  <2> QED
    BY <2>1, <2>2
<1>4. CASE PutWriteNote
  <2>1. watch' \in WatchState /\ watch'.pc = "idle"
    BY <1>4 DEF PutWriteNote, WatchLoop, WatchDo, WatchState
  <2> QED
    BY <1>1, <1>4, <2>1 DEF PutWriteNote, p, WatchFrame, TypeInv, TypeOK, Busy
<1> QED
  BY <1>2, <1>3, <1>4

LEMMA WatchPutType == TypeInv /\ WatchPut => TypeInv'
<1> SUFFICES ASSUME TypeInv, WatchPut PROVE TypeInv'
  OBVIOUS
<1>1. channel' \in Seq(Event) /\ Len(channel') =< Cap
  BY CapAssumption DEF WatchPut, TypeInv, TypeOK, Busy
<1>2. watch' \in WatchState /\ watch'.pc = "idle"
  BY DEF WatchPut, WatchLoop, WatchDo, WatchState
<1> QED
  BY <1>1, <1>2 DEF WatchPut, debouncer, WatchFrame, TypeInv, TypeOK, Busy

LEMMA CallbackType ==
  ASSUME TypeInv, NEW t \in Timer, Fire(t) \/ CallbackCheck(t) \/ CallbackTake(t)
  PROVE  TypeInv'
<1>1. PICK p \in Notes : t[1] = p
  BY DEF Timer
<1>2. calls' \in [Timer -> Nat]
  <2>1. calls \in [Timer -> Nat]
    BY DEF TypeInv, TypeOK
  <2>2. \/ UNCHANGED calls
        \/ calls' = [calls EXCEPT ![t] = @ + 1]
        \/ calls[t] > 0 /\ calls' = [calls EXCEPT ![t] = @ - 1]
    BY DEF Fire, CallbackCheck, CallbackTake
  <2> QED
    BY <2>1, <2>2
<1>3. putting' \in [Notes -> Nat] /\ timers' \in [Notes -> Number \cup {0}]
  <2>1. putting \in [Notes -> Nat] /\ timers \in [Notes -> Number \cup {0}]
    BY DEF TypeInv, TypeOK
  <2>2. \/ UNCHANGED <<putting, timers>>
        \/ putting' = [putting EXCEPT ![p] = @ + 1] /\ timers' = [timers EXCEPT ![p] = 0]
    BY <1>1 DEF Fire, CallbackCheck, CallbackTake
  <2> QED
    BY <2>1, <2>2
<1>4. armed' \subseteq Timer /\ taking' \subseteq Timer /\ files' \subseteq Notes
  BY DEF TypeInv, TypeOK, Fire, CallbackCheck, CallbackTake
<1> QED
  BY <1>2, <1>3, <1>4
  DEF TypeInv, TypeOK, Busy, Fire, CallbackCheck, CallbackTake, CallbackFrame

LEMMA CallbackPutType == ASSUME TypeInv, NEW p \in Notes, CallbackPut(p) PROVE TypeInv'
<1>1. FsEvent("WRITE", p) \in Event
  BY EventTypes DEF Op
<1>2. channel' \in Seq(Event) /\ Len(channel') =< Cap
  BY <1>1, CapAssumption DEF CallbackPut, TypeInv, TypeOK
<1>3. putting' \in [Notes -> Nat]
  <2>1. putting \in [Notes -> Nat] /\ putting[p] - 1 \in Nat
    BY DEF CallbackPut, TypeInv, TypeOK
  <2> QED
    BY <2>1 DEF CallbackPut
<1> QED
  BY <1>2, <1>3 DEF TypeInv, TypeOK, Busy, CallbackPut, CallbackFrame

LEMMA MapFaultType == TypeInv /\ MapFault => TypeInv'
  BY DEF MapFault, WatchFrame, debouncer, TypeInv, TypeOK, Busy

LEMMA SendType ==
  ASSUME NEW op \in {"upload", "rename", "remove"}, NEW p \in Notes, NEW old \in Name,
         op = "rename" => old \in Notes, NEW body \in Body, Send(op, p, old, body)
  PROVE  proc' \in ProcState /\ proc'.req \in Request
  BY DEF Send, ProcState, Request

LEMMA ProcLoopType == ProcLoop => proc' \in ProcState /\ proc'.pc = "idle"
  BY DEF ProcLoop, ProcState

LEMMA ProcEventType == TypeInv /\ ProcEvent => TypeInv'
<1> SUFFICES ASSUME TypeInv, ProcEvent PROVE TypeInv'
  OBVIOUS
<1> DEFINE ev == Head(channel)
<1>1. ev \in Event /\ channel' \in Seq(Event) /\ Len(channel') =< Cap
  BY HeadTailType, CapAssumption DEF ProcEvent, TypeInv, TypeOK
<1>2. ev.path \in Notes /\ ev.old \in Name
  BY <1>1, EventFields
<1>3. local[ev.path] \in Body /\ Empty \in Body /\ NoNote \in Name
  BY <1>2 DEF TypeInv, TypeOK, Body, Name
<1>4. \/ Send("upload", ev.path, NoNote, local[ev.path])
      \/ ev.old \in Notes /\ Send("rename", ev.path, ev.old, Empty)
      \/ Send("remove", ev.path, NoNote, Empty)
      \/ ProcLoop
  BY <1>1, EventFields DEF ProcEvent
<1> HIDE DEF ev
<1>5. proc' \in ProcState /\ (proc'.pc = "send" => proc'.req \in Request)
  BY <1>2, <1>3, <1>4, SendType, ProcLoopType
<1> QED
  BY <1>1, <1>5 DEF ProcEvent, ProcFrame, debouncer, TypeInv, TypeOK, Busy

LEMMA ServeType ==
  ASSUME TypeOK, NEW req \in Request
  PROVE  Serve(req) \in [Notes -> Body]
<1>1. req.path \in Notes /\ req.body \in Body /\ Absent \in Body
  BY DEF Request, Body
<1>2. server \in [Notes -> Body]
  BY DEF TypeOK
<1>3. req.op \in {"upload", "remove", "rename"}
  BY DEF Request
<1>4. CASE req.op = "upload"
  BY <1>1, <1>2, <1>4 DEF Serve
<1>5. CASE req.op = "remove"
  BY <1>1, <1>2, <1>5 DEF Serve
<1>6. CASE req.op = "rename"
  BY <1>1, <1>2, <1>6 DEF Serve, Request
<1> QED
  BY <1>3, <1>4, <1>5, <1>6

LEMMA ProcSendType == TypeInv /\ (ProcSend \/ ProcFail) => TypeInv'
<1> SUFFICES ASSUME TypeInv, ProcSend \/ ProcFail PROVE TypeInv'
  OBVIOUS
<1>1. proc' \in ProcState /\ proc'.pc = "idle"
  BY ProcLoopType DEF ProcSend, ProcFail
<1>2. server' \in [Notes -> Body] /\ faults' \in Nat
  BY ServeType DEF ProcSend, ProcFail, TypeInv, TypeOK, Busy
<1> QED
  BY <1>1, <1>2 DEF ProcSend, ProcFail, ProcFrame, debouncer, TypeInv, TypeOK, Busy

LEMMA RenameNoteType ==
  ASSUME TypeInv, NEW p \in Notes, NEW q \in Notes, RenameNote(p, q)
  PROVE  local' \in [Notes -> Body] /\ events' \in Seq(Event)
<1>1. local \in [Notes -> Body] /\ Absent \in Body
  BY DEF TypeInv, TypeOK, Body
<1>2. <<FsEvent("RENAME", p), Renamed("CREATE", p, q)>> \in Seq(Event)
  BY EventTypes DEF Op
<1>3. local' \in [Notes -> Body]
  BY <1>1 DEF RenameNote
<1> QED
  BY <1>2, <1>3, ConcatType DEF RenameNote, TypeInv, TypeOK

LEMMA ConsumeMessageType == TypeInv /\ ConsumeMessage => TypeInv'
<1> SUFFICES ASSUME TypeInv, ConsumeMessage PROVE TypeInv'
  OBVIOUS
<1> DEFINE m == Head(inbox)
<1>1. m \in Event /\ inbox' \in Seq(Event)
  BY HeadTailType DEF ConsumeMessage, TypeInv, TypeOK
<1>2. m.path \in Notes /\ (m.op = "NECO_RENAME" => m.old \in Notes)
  BY <1>1, EventFields
<1>3. ignored' \subseteq Notes
  BY <1>2 DEF ConsumeMessage, IgnoredBy, TypeInv, TypeOK
<1>4. ConsumeLoop => consumer' \in ConsumerState /\ consumer'.pc = "idle"
  BY DEF ConsumeLoop, ConsumerState, Name
<1>5. local \in [Notes -> Body] /\ events \in Seq(Event)
      /\ {Absent, Empty} \subseteq Body
  BY DEF TypeInv, TypeOK, Body
<1> DEFINE Good == /\ local' \in [Notes -> Body] /\ events' \in Seq(Event)
                   /\ consumer' \in ConsumerState
                   /\ consumer'.pc = "fetch" => consumer'.from \in Notes
<1>6. ASSUME m.op = "CREATE" PROVE Good
  <2>1. local' = [local EXCEPT ![m.path] = Empty]
    BY <1>6 DEF ConsumeMessage
  <2>2. PICK op \in {"CREATE", "WRITE"} : events' = Append(events, FsEvent(op, m.path))
    BY <1>6 DEF ConsumeMessage
  <2>3. FsEvent(op, m.path) \in Event
    BY <1>2, EventTypes DEF Op
  <2>4. consumer' = [pc |-> "fetch", from |-> m.path, file |-> m.path]
    BY <1>6 DEF ConsumeMessage
  <2> HIDE DEF m
  <2>5. consumer' \in ConsumerState /\ consumer'.from \in Notes
    BY <1>2, <2>4 DEF ConsumerState, Name
  <2> QED
    BY <1>2, <1>5, <2>1, <2>2, <2>3, <2>5, AppendType
<1>7. ASSUME m.op = "NECO_RENAME" PROVE Good
  <2>1. RenameNote(m.old, m.path) \/ UNCHANGED <<local, events>>
    BY <1>7 DEF ConsumeMessage
  <2>2. ConsumeLoop
    BY <1>7 DEF ConsumeMessage
  <2> QED
    BY <1>2, <1>4, <1>5, <1>7, <2>1, <2>2, RenameNoteType
<1>8. ASSUME m.op = "REMOVE" PROVE Good
  <2>1. /\ local' = [local EXCEPT ![m.path] = Absent]
        /\ events' = events \/ events' = Append(events, FsEvent("REMOVE", m.path))
    BY <1>8 DEF ConsumeMessage
  <2>2. FsEvent("REMOVE", m.path) \in Event
    BY <1>2, EventTypes DEF Op
  <2>3. ConsumeLoop
    BY <1>8 DEF ConsumeMessage
  <2> HIDE DEF m
  <2> QED
    BY <1>2, <1>4, <1>5, <2>1, <2>2, <2>3, AppendType
<1>9. Good
  BY <1>6, <1>7, <1>8 DEF ConsumeMessage
<1> QED
  BY <1>1, <1>3, <1>9 DEF ConsumeMessage, ConsumeFrame, debouncer, TypeInv, TypeOK, Busy

LEMMA ConsumeCopyType == TypeInv /\ ConsumeCopy => TypeInv'
<1> SUFFICES ASSUME TypeInv, ConsumeCopy PROVE TypeInv'
  OBVIOUS
<1>1. local' \in [Notes -> Body] /\ events' \in Seq(Event)
  <2>1. CASE consumer.file = NoNote
    BY <2>1 DEF ConsumeCopy, TypeInv, TypeOK
  <2>2. CASE consumer.file # NoNote
    <3>1. consumer.file \in Notes /\ consumer.from \in Notes
      BY <2>2 DEF ConsumeCopy, TypeInv, TypeOK, Busy, ConsumerState, Name
    <3>2. PICK body \in Body : local' = [local EXCEPT ![consumer.file] = body]
      BY <2>2, <3>1 DEF ConsumeCopy, TypeInv, TypeOK, Body
    <3>3. events' = Append(events, FsEvent("WRITE", consumer.file))
      BY <2>2 DEF ConsumeCopy
    <3>4. FsEvent("WRITE", consumer.file) \in Event
      BY <3>1, EventTypes DEF Op
    <3> QED
      BY <3>1, <3>2, <3>3, <3>4, AppendType DEF TypeInv, TypeOK
  <2> QED
    BY <2>1, <2>2
<1>2. consumer' \in ConsumerState /\ consumer'.pc = "idle"
  BY DEF ConsumeCopy, ConsumeLoop, ConsumerState, Name
<1> QED
  BY <1>1, <1>2 DEF ConsumeCopy, ConsumeFrame, debouncer, TypeInv, TypeOK, Busy

LEMMA ExpireIgnoreType ==
  ASSUME TypeInv, NEW p \in Notes, ExpireIgnore(p) PROVE TypeInv'
  BY DEF ExpireIgnore, ConsumeFrame, debouncer, TypeInv, TypeOK, Busy

LEMMA ElsewhereType == TypeInv /\ Elsewhere => TypeInv'
<1> SUFFICES ASSUME TypeInv, Elsewhere PROVE TypeInv'
  OBVIOUS
<1>1. PICK op \in RemoteOps, p \in Notes, q \in Notes :
        LET req == [op |-> op, path |-> p, old |-> q, body |-> MaxEdits + remote + 1] IN
        server' = Serve(req) /\ inbox' = inbox \o Announced(req)
  BY DEF Elsewhere
<1> DEFINE req == [op |-> op, path |-> p, old |-> q, body |-> MaxEdits + remote + 1]
<1>2. remote \in Nat /\ MaxEdits + remote + 1 \in Nat
  BY WatchBoundsAssumption DEF TypeInv, TypeOK
<1>3. req \in Request
  BY <1>2, RemoteOpsAssumption DEF Request, Name, Body
<1>4. server' \in [Notes -> Body]
  BY <1>1, <1>3, ServeType DEF TypeInv
<1>5. op \in {"upload", "rename", "remove"}
  BY RemoteOpsAssumption
<1>6. Announced(req) \in Seq(Event)
  <2>1. /\ FsEvent("CREATE", p) \in Event /\ FsEvent("REMOVE", p) \in Event
        /\ Renamed("NECO_RENAME", q, p) \in Event
    BY EventTypes DEF Op
  <2> QED
    BY <1>5, <2>1 DEF Announced
<1> HIDE DEF req
<1>7. inbox' \in Seq(Event)
  BY <1>1, <1>6, ConcatType DEF TypeInv, TypeOK, req
<1> QED
  BY <1>2, <1>4, <1>7 DEF Elsewhere, debouncer, TypeInv, TypeOK, Busy

LEMMA UserType == TypeInv /\ User => TypeInv'
<1> SUFFICES ASSUME TypeInv, User PROVE TypeInv'
  OBVIOUS
<1> DEFINE Good == /\ local' \in [Notes -> Body] /\ events' \in Seq(Event)
                   /\ consumer' \in ConsumerState
                   /\ consumer'.pc = consumer.pc /\ consumer'.from = consumer.from
           Step == \E op \in UserOps : UserStep(op)
<1>1. /\ edits \in Nat /\ edits + 1 \in Body /\ Absent \in Body
      /\ local \in [Notes -> Body] /\ events \in Seq(Event)
  BY DEF TypeInv, TypeOK, Body
<1>2. \A p \in Notes : \A op \in Op : FsEvent(op, p) \in Event
  BY EventTypes
<1>3. \A p \in Notes : Unlinked(p) \in ConsumerState
                       /\ Unlinked(p).pc = consumer.pc /\ Unlinked(p).from = consumer.from
  BY DEF Unlinked, TypeInv, TypeOK, ConsumerState, Name
<1>4. ASSUME UserCreate \/ UserWrite PROVE Good /\ Step
  <2>1. PICK p \in Notes, op \in Op :
          /\ local' = [local EXCEPT ![p] = edits + 1]
          /\ events' = Append(events, FsEvent(op, p))
          /\ UNCHANGED consumer
    BY <1>4 DEF UserCreate, UserWrite, Op
  <2> QED
    BY <1>1, <1>2, <1>4, <2>1, AppendType
    DEF UserCreate, UserWrite, UserStep, TypeInv, TypeOK
<1>5. ASSUME UserRemove \/ UserMoveOut PROVE Good /\ Step
  <2>1. PICK p \in Notes, op \in Op :
          /\ local' = [local EXCEPT ![p] = Absent]
          /\ events' = Append(events, FsEvent(op, p))
          /\ consumer' = Unlinked(p)
    BY <1>5 DEF UserRemove, UserMoveOut, Op
  <2> QED
    BY <1>1, <1>2, <1>3, <1>5, <2>1, AppendType DEF UserRemove, UserMoveOut, UserStep
<1>6. ASSUME UserChmod PROVE Good /\ Step
  <2>1. PICK p \in Notes : /\ events' = Append(events, FsEvent("CHMOD", p))
                          /\ UNCHANGED <<local, consumer>>
    BY <1>6 DEF UserChmod
  <2> QED
    BY <1>1, <1>2, <1>6, <2>1, AppendType DEF Op, UserChmod, UserStep, TypeInv, TypeOK
<1>7. ASSUME UserRename PROVE Good /\ Step
  <2>1. PICK p \in Notes, q \in Notes :
          /\ RenameNote(p, q)
          /\ consumer' = [consumer EXCEPT !.file = IF @ = p THEN q
                                                   ELSE IF @ = q THEN NoNote ELSE @]
    BY <1>7 DEF UserRename
  <2>2. consumer' \in ConsumerState /\ consumer'.pc = consumer.pc
        /\ consumer'.from = consumer.from
    BY <2>1 DEF TypeInv, TypeOK, ConsumerState, Name
  <2> QED
    BY <1>7, <2>1, <2>2, RenameNoteType DEF UserRename, UserStep
<1>8. Good /\ Step
  BY <1>4, <1>5, <1>6, <1>7 DEF User
<1> QED
  BY <1>1, <1>8 DEF UserStep, debouncer, TypeInv, TypeOK, Busy

LEMMA TypeStep == TypeInv /\ [Next]_vars => TypeInv'
<1> SUFFICES ASSUME TypeInv, [Next]_vars PROVE TypeInv'
  OBVIOUS
<1>1. CASE Watcher
  BY <1>1, WatchEventType, PutWriteType, WatchPutType DEF Watcher
<1>2. CASE Processor \/ ProcFail
  BY <1>2, ProcEventType, ProcSendType DEF Processor
<1>3. CASE Consumer
  BY <1>3, ConsumeMessageType, ConsumeCopyType DEF Consumer
<1>4. CASE User \/ Elsewhere \/ MapFault
  BY <1>4, UserType, ElsewhereType, MapFaultType
<1>5. CASE \E t \in Timer : Fire(t) \/ Callback(t)
  BY <1>5, CallbackType DEF Callback
<1>6. CASE \E p \in Notes : CallbackPut(p) \/ ExpireIgnore(p)
  BY <1>6, CallbackPutType, ExpireIgnoreType
<1>7. CASE UNCHANGED vars
  BY <1>7 DEF vars, debouncer, TypeInv, TypeOK, Busy
<1> QED
  BY <1>1, <1>2, <1>3, <1>4, <1>5, <1>6, <1>7 DEF Next

LEMMA TypeInvariant == Spec => []TypeInv
  BY TypeInit, TypeStep, PTL DEF Spec

\* Every variable of the client keeps its type; the channel is never overfull.
THEOREM WatchTyping == Spec => []TypeOK
<1>1. TypeInv => TypeOK
  BY DEF TypeInv
<1> QED
  BY <1>1, TypeInvariant, PTL

-----------------------------------------------------------------------------
(* Held-back writes and their timers.                                       *)

TimerOf(p) == <<p, timers[p]>>
Coming(p)  == TimerOf(p) \in armed \cup taking \/ calls[TimerOf(p)] > 0
Noting(p)  == watch.pc = "note" /\ watch.made = TimerOf(p) /\ watch.ev.path = p

\* The callback of a timer that is in the map cannot find the note without a
\* write, and so give it up, but while the putWrite that has made the timer has
\* yet to note the write: and that is when the mutex they share keeps it waiting.
TimerInv ==
  \A p \in Notes : timers[p] # 0 => Coming(p) /\ (p \notin files => Noting(p))

LEMMA TimerInit == Init => TimerInv
  BY DEF Init, TimerInv

LEMMA TimerDelete ==
  ASSUME TypeInv, TimerInv, watch.pc = "idle", NEW q \in Notes, DeleteWrite(q)
  PROVE  TimerInv'
<1> SUFFICES ASSUME NEW p \in Notes, timers'[p] # 0
             PROVE  Coming(p)' /\ p \in files'
  BY DEF TimerInv
<1>1. timers'[p] = timers[p] /\ TimerOf(p)' = TimerOf(p)
  BY DEF DeleteWrite, TypeInv, TypeOK, TimerOf
<1>2. Coming(p) /\ p \in files
  BY <1>1 DEF TimerInv, Noting
<1>3. CASE timers[q] = 0
  BY <1>1, <1>2, <1>3 DEF DeleteWrite, Coming
<1>4. CASE timers[q] # 0
  <2>1. q # p
    BY <1>4 DEF DeleteWrite, TypeInv, TypeOK
  <2> QED
    BY <1>1, <1>2, <1>4, <2>1 DEF DeleteWrite, Coming, TimerOf
<1> QED
  BY <1>3, <1>4

LEMMA TimerWatch ==
  ASSUME TypeInv, TimerInv, WatchEvent \/ WatchPut PROVE TimerInv'
<1>1. ASSUME UNCHANGED debouncer, watch.pc # "note" PROVE TimerInv'
  BY <1>1 DEF debouncer, TimerInv, Coming, TimerOf, Noting
<1>2. CASE WatchPut
  BY <1>1, <1>2 DEF WatchPut
<1>3. CASE WatchEvent
  <2>1. watch.pc = "idle" /\ Head(events) \in Event
    BY <1>3, HeadTailType DEF WatchEvent, TypeInv, TypeOK
  <2>2. UNCHANGED debouncer \/ DeleteWrite(Head(events).path)
    BY <1>3 DEF WatchEvent
  <2> QED
    BY <1>1, <2>1, <2>2, TimerDelete, EventFields
<1> QED
  BY <1>2, <1>3

LEMMA TimerPutWrite ==
  ASSUME TypeInv, TimerInv, PutWriteCheck \/ PutWriteReset \/ PutWriteNote
  PROVE  TimerInv'
<1> SUFFICES ASSUME NEW p \in Notes, timers'[p] # 0
             PROVE  Coming(p)' /\ (p \notin files' => Noting(p)')
  BY DEF TimerInv
<1> DEFINE q == watch.ev.path
<1>1. q \in Notes
  BY EventFields DEF TypeInv, Busy, PutWriteCheck, PutWriteReset, PutWriteNote
<1>2. UNCHANGED <<timers, armed, taking, calls, files>> /\ watch.pc # "note" => Coming(p)' /\ p \in files'
  BY DEF TimerInv, Coming, TimerOf, Noting
<1>3. CASE PutWriteCheck
  <2>1. CASE timers[q] = 0
    <3>1. PICK n \in Number : /\ timers' = [timers EXCEPT ![q] = n]
                              /\ armed' = armed \cup {<<q, n>>}
                              /\ watch' = [watch EXCEPT !.pc = "note", !.made = <<q, n>>]
      BY <1>3, <2>1 DEF PutWriteCheck
    <3>2. timers \in [Notes -> Number \cup {0}] /\ watch \in WatchState
      BY DEF TypeInv, TypeOK
    <3>3. watch'.pc = "note" /\ watch'.made = <<q, n>> /\ watch'.ev.path = q
      BY <3>1, <3>2 DEF WatchState
    <3>4. CASE p = q
      <4>1. TimerOf(p)' = <<q, n>>
        BY <1>1, <3>1, <3>2, <3>4 DEF TimerOf
      <4> QED
        BY <3>1, <3>3, <3>4, <4>1 DEF Coming, Noting
    <3>5. CASE p # q
      <4>1. TimerOf(p)' = TimerOf(p) /\ timers[p] # 0
        BY <1>1, <3>1, <3>2, <3>5 DEF TimerOf
      <4>2. Coming(p) /\ p \in files
        BY <1>3, <4>1 DEF TimerInv, Noting, PutWriteCheck
      <4> QED
        BY <1>3, <3>1, <4>1, <4>2 DEF PutWriteCheck, Coming
    <3> QED
      BY <3>4, <3>5
  <2>2. CASE timers[q] # 0
    BY <1>2, <1>3, <2>2 DEF PutWriteCheck
  <2> QED
    BY <2>1, <2>2
<1>4. CASE PutWriteReset
  <2>1. UNCHANGED <<timers, files, taking, calls>> /\ armed \subseteq armed' /\ watch.pc = "reset"
    BY <1>4 DEF PutWriteReset
  <2> QED
    BY <2>1 DEF TimerInv, Coming, TimerOf, Noting
<1>5. CASE PutWriteNote
  <2>1. UNCHANGED <<timers, armed, taking, calls>> /\ files' = files \cup {q}
    BY <1>5 DEF PutWriteNote
  <2>2. Coming(p)' /\ (p \notin files => p = q)
    BY <2>1 DEF TimerInv, Coming, TimerOf, Noting
  <2> QED
    BY <2>1, <2>2
<1> QED
  BY <1>3, <1>4, <1>5

LEMMA TimerCallback ==
  ASSUME TypeInv, TimerInv, NEW t \in Timer, Fire(t) \/ CallbackCheck(t) \/ CallbackTake(t)
  PROVE  TimerInv'
<1> SUFFICES ASSUME NEW p \in Notes, timers'[p] # 0
             PROVE  Coming(p)' /\ (p \notin files' => Noting(p)')
  BY DEF TimerInv
<1>1. PICK q \in Notes, n \in Number : t = <<q, n>> /\ t[1] = q
  BY DEF Timer
<1>2. calls \in [Timer -> Nat] /\ timers \in [Notes -> Number \cup {0}] /\ watch' = watch
  BY DEF TypeInv, TypeOK, Fire, CallbackCheck, CallbackTake, CallbackFrame
<1>3. timers[p] # 0 /\ timers'[p] = timers[p] /\ TimerOf(p)' = TimerOf(p)
  BY <1>1, <1>2 DEF Fire, CallbackCheck, CallbackTake, TimerOf
<1>4. TimerOf(p) \in Timer
  BY <1>2, <1>3 DEF TimerOf, Timer
<1>5. Coming(p) /\ (p \notin files => Noting(p))
  BY <1>3 DEF TimerInv
<1>6. CASE Fire(t)
  <2>1. armed' = armed \ {t} /\ calls' = [calls EXCEPT ![t] = @ + 1]
        /\ UNCHANGED <<timers, files, taking>>
    BY <1>6 DEF Fire
  <2>2. calls'[t] > 0 /\ \A u \in Timer : calls[u] > 0 => calls'[u] > 0
    BY <1>2, <2>1
  <2>3. Coming(p)'
    BY <1>3, <1>4, <1>5, <2>1, <2>2 DEF Coming
  <2> QED
    BY <1>2, <1>3, <1>5, <2>1, <2>3 DEF Noting
<1>7. CASE CallbackCheck(t)
  <2>1. /\ calls' = [calls EXCEPT ![t] = @ - 1] /\ UNCHANGED <<timers, files, armed>>
        /\ taking' = IF q \in files /\ timers[q] # 0 THEN taking \cup {t} ELSE taking
        /\ watch.made # t
    BY <1>1, <1>7 DEF CallbackCheck
  <2>2. CASE TimerOf(p) = t
    <3>1. p = q /\ p \in files
      BY <1>1, <1>5, <2>1, <2>2 DEF Noting, TimerOf
    <3>2. t \in taking'
      BY <1>3, <2>1, <3>1
    <3> QED
      BY <1>3, <2>1, <2>2, <3>1, <3>2 DEF Coming
  <2>3. CASE TimerOf(p) # t
    <3>1. calls'[TimerOf(p)] = calls[TimerOf(p)] /\ taking \subseteq taking'
      BY <1>2, <1>4, <2>1, <2>3
    <3>2. Coming(p)'
      BY <1>3, <1>5, <2>1, <3>1 DEF Coming
    <3> QED
      BY <1>2, <1>3, <1>5, <2>1, <3>2 DEF Noting
  <2> QED
    BY <2>2, <2>3
<1>8. CASE CallbackTake(t)
  <2>1. /\ taking' = taking \ {t} /\ files' = files \ {q} /\ UNCHANGED <<armed, calls>>
        /\ timers' = [timers EXCEPT ![q] = 0]
    BY <1>1, <1>8 DEF CallbackTake
  <2>2. p # q
    BY <1>2, <2>1
  <2>3. TimerOf(p) # t
    BY <1>1, <2>2 DEF TimerOf
  <2>4. Coming(p)'
    BY <1>3, <1>5, <2>1, <2>3 DEF Coming
  <2> QED
    BY <1>2, <1>3, <1>5, <2>1, <2>2, <2>4 DEF Noting
<1> QED
  BY <1>6, <1>7, <1>8

LEMMA TimerStep == TypeInv /\ TimerInv /\ [Next]_vars => TimerInv'
<1> SUFFICES ASSUME TypeInv, TimerInv, [Next]_vars PROVE TimerInv'
  OBVIOUS
<1>1. ASSUME UNCHANGED <<timers, files, armed, calls, taking, watch>> PROVE TimerInv'
  BY <1>1 DEF TimerInv, Coming, TimerOf, Noting
<1>2. CASE Watcher
  BY <1>2, TimerWatch, TimerPutWrite DEF Watcher
<1>3. CASE \E t \in Timer : Fire(t) \/ Callback(t)
  BY <1>3, TimerCallback DEF Callback
<1>4. CASE Processor \/ ProcFail
  BY <1>1, <1>4 DEF Processor, ProcEvent, ProcSend, ProcFail, ProcFrame, debouncer
<1>5. CASE Consumer \/ \E p \in Notes : CallbackPut(p) \/ ExpireIgnore(p)
  BY <1>1, <1>5
  DEF Consumer, ConsumeMessage, ConsumeCopy, ExpireIgnore, ConsumeFrame, CallbackPut,
      CallbackFrame, debouncer
<1>6. CASE User
  BY <1>1, <1>6
  DEF User, UserCreate, UserWrite, UserRemove, UserRename, UserMoveOut, UserChmod,
      UserStep, debouncer
<1>7. CASE Elsewhere \/ MapFault \/ UNCHANGED vars
  BY <1>1, <1>7 DEF Elsewhere, MapFault, vars, debouncer
<1> QED
  BY <1>2, <1>3, <1>4, <1>5, <1>6, <1>7 DEF Next

\* Every timer in the debouncer's map is going to fire or has fired, and has a
\* write to pass on or is about to: whatever the order of lookups, resets,
\* deletions and callbacks, with the mutexes the code has.
THEOREM TimersAlwaysPassOnWrites == Spec => []TimersPassOnWrites
<1>1. TimerInv => TimersPassOnWrites
  BY DEF TimerInv, Coming, TimerOf, Noting, TimersPassOnWrites
<1> QED
  BY <1>1, TimerInit, TimerStep, TypeInvariant, PTL DEF Spec

-----------------------------------------------------------------------------
(* Echoes.                                                                  *)

\* While the user does nothing, all that fsnotify delivers is what the consumer
\* did and is ignored, and so the goroutines behind the watcher stay at rest.
EchoInv ==
  edits = 0 =>
    /\ \A i \in DOMAIN events : events[i].path \in ignored
    /\ watch.pc = "idle" /\ channel = <<>> /\ proc.pc = "idle"
    /\ armed = {} /\ taking = {}
    /\ \A t \in Timer : calls[t] = 0
    /\ \A p \in Notes : putting[p] = 0 /\ timers[p] = 0
    /\ consumer.pc = "fetch" => consumer.file \in ignored

LEMMA EchoInit == Init => EchoInv
  BY DEF Init, EchoInv

LEMMA EchoAppend ==
  ASSUME NEW s \in Seq(Event), NEW e \in Event, NEW S,
         \A i \in DOMAIN s : s[i].path \in S, e.path \in S
  PROVE  \A i \in DOMAIN Append(s, e) : Append(s, e)[i].path \in S
  OBVIOUS

\* What is done to the directory is ignored by the time it is seen.
LEMMA EchoMessage ==
  ASSUME TypeInv, EchoInv, edits = 0, ConsumeMessage PROVE EchoInv'
<1> DEFINE m == Head(inbox)
           Ignored(s) == \A i \in DOMAIN s : s[i].path \in ignored'
<1>1. m \in Event
  BY HeadTailType DEF ConsumeMessage, TypeInv, TypeOK
<1>2. m.path \in Notes /\ (m.op = "NECO_RENAME" => m.old \in Notes)
  BY <1>1, EventFields
<1>3. ignored' = ignored \cup IgnoredBy(m)
  BY DEF ConsumeMessage
<1>4. m.path \in ignored' /\ (m.op = "NECO_RENAME" => m.old \in ignored')
  BY <1>3 DEF IgnoredBy
<1>5. Ignored(events) /\ events \in Seq(Event)
  BY <1>3 DEF EchoInv, TypeInv, TypeOK
<1> HIDE DEF m
<1>6. \A op \in Op, p \in {m.path, m.old} :
        FsEvent(op, p).path = p /\ (p \in Notes => FsEvent(op, p) \in Event)
  BY EventTypes DEF FsEvent
<1> DEFINE Good == Ignored(events') /\ (consumer'.pc = "fetch" => consumer'.file \in ignored')
<1>7. ConsumeLoop => consumer'.pc # "fetch"
  BY DEF ConsumeLoop
<1>8. ASSUME m.op = "CREATE" PROVE Good
  <2>1. PICK op \in {"CREATE", "WRITE"} : events' = Append(events, FsEvent(op, m.path))
    BY <1>8 DEF ConsumeMessage, m
  <2>2. consumer' = [pc |-> "fetch", from |-> m.path, file |-> m.path]
    BY <1>8 DEF ConsumeMessage, m
  <2>3. FsEvent(op, m.path) \in Event /\ FsEvent(op, m.path).path = m.path
    BY <1>2, <1>6 DEF Op
  <2>4. Ignored(events')
    BY <1>4, <1>5, <2>1, <2>3, EchoAppend
  <2> QED
    BY <1>4, <2>2, <2>4
<1>9. ASSUME m.op = "REMOVE" PROVE Good
  <2>1. /\ events' = events \/ events' = Append(events, FsEvent("REMOVE", m.path))
        /\ ConsumeLoop
    BY <1>9 DEF ConsumeMessage, m
  <2>2. FsEvent("REMOVE", m.path) \in Event /\ FsEvent("REMOVE", m.path).path = m.path
    BY <1>2, <1>6 DEF Op
  <2>3. Ignored(events')
    BY <1>4, <1>5, <2>1, <2>2, EchoAppend
  <2> QED
    BY <1>7, <2>1, <2>3
<1>10. ASSUME m.op = "NECO_RENAME" PROVE Good
  <2>1. ConsumeLoop /\ (RenameNote(m.old, m.path) \/ UNCHANGED events)
    BY <1>10 DEF ConsumeMessage, m
  <2>2. ASSUME RenameNote(m.old, m.path) PROVE Ignored(events')
    <3> DEFINE e == FsEvent("RENAME", m.old)
               f == Renamed("CREATE", m.old, m.path)
    <3>1. e \in Event /\ f \in Event /\ e.path = m.old /\ f.path = m.path
      BY <1>2, <1>10, EventTypes DEF FsEvent, Renamed, Op
    <3>2. events' = events \o <<e, f>>
      BY <2>2 DEF RenameNote
    <3> HIDE DEF e, f
    <3>3. events \o <<e, f>> = Append(Append(events, e), f) /\ Append(events, e) \in Seq(Event)
      BY <1>5, <3>1
    <3> QED
      BY <1>4, <1>5, <1>10, <3>1, <3>2, <3>3, EchoAppend
  <2> QED
    BY <1>5, <1>7, <2>1, <2>2
<1>11. Good
  BY <1>8, <1>9, <1>10 DEF ConsumeMessage, m
<1> QED
  BY <1>11 DEF EchoInv, ConsumeMessage, ConsumeFrame, debouncer

LEMMA EchoCopy == ASSUME TypeInv, EchoInv, edits = 0, ConsumeCopy PROVE EchoInv'
<1>1. events \in Seq(Event) /\ \A i \in DOMAIN events : events[i].path \in ignored
  BY DEF EchoInv, TypeInv, TypeOK
<1>2. \A i \in DOMAIN events' : events'[i].path \in ignored
  <2>1. CASE consumer.file = NoNote
    BY <1>1, <2>1 DEF ConsumeCopy
  <2>2. CASE consumer.file # NoNote
    <3>1. consumer.file \in Notes /\ consumer.file \in ignored
      BY <2>2 DEF ConsumeCopy, EchoInv, TypeInv, TypeOK, ConsumerState, Name
    <3>2. /\ FsEvent("WRITE", consumer.file) \in Event
          /\ FsEvent("WRITE", consumer.file).path = consumer.file
      BY <3>1, EventTypes DEF FsEvent, Op
    <3> QED
      BY <1>1, <2>2, <3>1, <3>2, EchoAppend DEF ConsumeCopy
  <2> QED
    BY <2>1, <2>2
<1>3. consumer'.pc = "idle" /\ UNCHANGED ignored
  BY DEF ConsumeCopy, ConsumeLoop
<1> QED
  BY <1>2, <1>3 DEF EchoInv, ConsumeCopy, ConsumeFrame, debouncer

LEMMA EchoExpire ==
  ASSUME Prompt, TypeInv, EchoInv, edits = 0, NEW p \in Notes, ExpireIgnore(p)
  PROVE  EchoInv'
<1>1. ~Echoing(p) /\ ignored' = ignored \ {p}
      /\ UNCHANGED <<events, consumer>>
  BY DEF ExpireIgnore, Expiring
<1>2. \A i \in DOMAIN events' : events'[i].path \in ignored'
  BY <1>1 DEF Echoing, EchoInv
<1>3. consumer'.pc = "fetch" => consumer'.file \in ignored'
  BY <1>1 DEF Echoing, EchoInv
<1> QED
  BY <1>1, <1>2, <1>3 DEF EchoInv, ExpireIgnore, ConsumeFrame, debouncer

LEMMA EchoWatch ==
  ASSUME TypeInv, EchoInv, edits = 0, WatchEvent PROVE EchoInv'
<1>1. Head(events).path \in ignored
  BY DEF WatchEvent, EchoInv, TypeInv, TypeOK
<1>2. WatchLoop /\ UNCHANGED <<debouncer, channel, proc, consumer, ignored>>
  BY <1>1 DEF WatchEvent
<1>3. \A i \in DOMAIN events' : events'[i].path \in ignored'
  BY <1>2 DEF WatchEvent, EchoInv, TypeInv, TypeOK
<1> QED
  BY <1>2, <1>3 DEF EchoInv, WatchLoop, WatchDo, debouncer

LEMMA EditsCount == TypeInv /\ [Next]_vars /\ edits' = 0 => edits = 0 /\ ~User
<1> SUFFICES ASSUME TypeInv, [Next]_vars, edits' = 0 PROVE edits = 0 /\ ~User
  OBVIOUS
<1>1. edits \in Nat
  BY DEF TypeInv, TypeOK
<1>2. User => edits' = edits + 1
  BY DEF User, UserCreate, UserWrite, UserRemove, UserRename, UserMoveOut, UserChmod,
         UserStep
<1>3. ~User => edits' = edits
  BY DEF Next, vars, Watcher, WatchEvent, PutWriteCheck, PutWriteReset, PutWriteNote,
         WatchPut, WatchFrame, Processor, ProcEvent, ProcSend, ProcFail, ProcFrame,
         Consumer, ConsumeMessage, ConsumeCopy, ExpireIgnore, ConsumeFrame, Fire,
         Callback, CallbackCheck, CallbackTake, CallbackPut, CallbackFrame, Elsewhere,
         MapFault
<1> QED
  BY <1>1, <1>2, <1>3

LEMMA EchoStep == Prompt /\ TypeInv /\ EchoInv /\ [Next]_vars => EchoInv'
<1> SUFFICES ASSUME Prompt, TypeInv, EchoInv, [Next]_vars, edits' = 0 PROVE EchoInv'
  BY DEF EchoInv
<1>1. edits = 0 /\ ~User
  BY EditsCount
<1>2. /\ watch.pc = "idle" /\ channel = <<>> /\ proc.pc = "idle" /\ armed = {} /\ taking = {}
      /\ \A t \in Timer : calls[t] = 0
      /\ \A p \in Notes : putting[p] = 0
  BY <1>1 DEF EchoInv
<1>3. CASE Watcher
  BY <1>1, <1>2, <1>3, EchoWatch
  DEF Watcher, PutWriteCheck, PutWriteReset, PutWriteNote, WatchPut
<1>4. CASE Processor \/ ProcFail
  BY <1>2, <1>4 DEF Processor, ProcEvent, ProcSend, ProcFail
<1>5. CASE Consumer
  BY <1>1, <1>5, EchoMessage, EchoCopy DEF Consumer
<1>6. CASE \E t \in Timer : Fire(t) \/ Callback(t)
  BY <1>2, <1>6 DEF Fire, Callback, CallbackCheck, CallbackTake
<1>7. CASE \E p \in Notes : CallbackPut(p) \/ ExpireIgnore(p)
  BY <1>1, <1>2, <1>7, EchoExpire DEF CallbackPut
<1>8. CASE Elsewhere \/ MapFault \/ UNCHANGED vars
  BY <1>1, <1>8 DEF EchoInv, Elsewhere, MapFault, WatchFrame, debouncer, vars
<1> QED
  BY <1>1, <1>3, <1>4, <1>5, <1>6, <1>7, <1>8 DEF Next

\* A client whose user does nothing tells the server nothing, whatever other
\* clients do, if what the consumer does to the directory is seen within the
\* second of the ignore list.
THEOREM NothingIsEchoed == ASSUME Prompt PROVE Spec => []NothingEchoed
<1>1. Init => EchoInv
  BY EchoInit
<1>2. TypeInv /\ EchoInv /\ [Next]_vars => EchoInv'
  BY EchoStep, Prompt
<1>3. EchoInv => NothingEchoed
  BY DEF EchoInv, NothingEchoed
<1> QED
  BY <1>1, <1>2, <1>3, TypeInvariant, PTL DEF Spec

-----------------------------------------------------------------------------
(* A user who does nothing.                                                 *)

Present(d) == {p \in Notes : d[p] # Absent}

Announcement == {m \in Event : m.op \in {"CREATE", "REMOVE", "NECO_RENAME"}}

\* Which notes there are after a message about another client's change.
Learned(S, m) ==
  IF m.op = "CREATE" THEN S \cup {m.path}
  ELSE IF m.op = "REMOVE" THEN S \ {m.path}
  ELSE IF m.old \in S THEN (S \ {m.old}) \cup {m.path} ELSE S
learning == [x \in (SUBSET Notes) \X Announcement |-> Learned(x[1], x[2])]

\* The client is going to have the notes the server has when the messages in the
\* queue have been done in turn; the download in between fills a note it made.
NamesInv ==
  edits = 0 =>
    /\ inbox \in Seq(Announcement)
    /\ Present(server) = Replay(learning, Present(local), inbox)
    /\ consumer.pc = "fetch" => consumer.file \in Present(local)

LEMMA NamesInit == Init => NamesInv
<1> SUFFICES ASSUME Init PROVE NamesInv
  OBVIOUS
<1>1. inbox = <<>> /\ local = server /\ consumer.pc = "idle"
  BY DEF Init
<1> QED
  BY <1>1, ReplayNothing DEF NamesInv

LEMMA LearningIs ==
  ASSUME NEW S \in SUBSET Notes, NEW m \in Announcement
  PROVE  learning[<<S, m>>] = Learned(S, m)
<1>1. <<S, m>> \in (SUBSET Notes) \X Announcement /\ <<S, m>>[1] = S /\ <<S, m>>[2] = m
  OBVIOUS
<1> QED
  BY <1>1 DEF learning

LEMMA SetPresent ==
  ASSUME NEW d \in [Notes -> Body], NEW p \in Notes, NEW b
  PROVE  Present([d EXCEPT ![p] = b])
           = IF b = Absent THEN Present(d) \ {p} ELSE Present(d) \cup {p}
<1> DEFINE e == [d EXCEPT ![p] = b]
<1>1. \A r \in Notes : e[r] = IF r = p THEN b ELSE d[r]
  OBVIOUS
<1> HIDE DEF e
<1>2. Present(e) = IF b = Absent THEN Present(d) \ {p} ELSE Present(d) \cup {p}
  BY <1>1 DEF Present
<1> QED
  BY <1>2 DEF e

LEMMA NamesMessage ==
  ASSUME TypeInv, NamesInv, edits = 0, ConsumeMessage PROVE NamesInv'
<1> DEFINE m == Head(inbox)
<1>1. /\ m \in Announcement /\ inbox \in Seq(Announcement) /\ inbox # <<>>
      /\ inbox' = Tail(inbox) /\ inbox' \in Seq(Announcement)
  BY DEF ConsumeMessage, NamesInv
<1>2. m.path \in Notes /\ (m.op = "NECO_RENAME" => m.old \in Notes)
  BY <1>1, EventFields DEF Announcement
<1>3. local \in [Notes -> Body] /\ Empty # Absent /\ UNCHANGED server
  BY AbsentAssumption DEF ConsumeMessage, ConsumeFrame, TypeInv, TypeOK
<1> DEFINE Good == /\ Present(local') = Learned(Present(local), m)
                   /\ consumer'.pc = "fetch" => consumer'.file \in Present(local')
<1>4. ConsumeLoop => consumer'.pc # "fetch"
  BY DEF ConsumeLoop
<1>5. ASSUME m.op = "CREATE" PROVE Good
  <2>1. /\ local' = [local EXCEPT ![m.path] = Empty]
        /\ consumer' = [pc |-> "fetch", from |-> m.path, file |-> m.path]
    BY <1>5 DEF ConsumeMessage
  <2> HIDE DEF m
  <2>2. Present(local') = Present(local) \cup {m.path}
    BY <1>2, <1>3, <2>1, SetPresent
  <2> QED
    BY <1>5, <2>1, <2>2 DEF Learned
<1>6. ASSUME m.op = "REMOVE" PROVE Good
  <2>1. local' = [local EXCEPT ![m.path] = Absent] /\ ConsumeLoop
    BY <1>6 DEF ConsumeMessage
  <2> HIDE DEF m
  <2>2. Present(local') = Present(local) \ {m.path}
    BY <1>2, <1>3, <2>1, SetPresent
  <2> QED
    BY <1>4, <1>6, <2>1, <2>2 DEF Learned
<1>7. ASSUME m.op = "NECO_RENAME" PROVE Good
  <2>1. /\ local' = IF local[m.old] # Absent
                      THEN [local EXCEPT ![m.old] = Absent, ![m.path] = local[m.old]]
                      ELSE local
        /\ ConsumeLoop
    BY <1>7 DEF ConsumeMessage, RenameNote
  <2> HIDE DEF m
  <2>2. m.old \in Present(local) <=> local[m.old] # Absent
    BY <1>2, <1>7 DEF Present
  <2>3. Present(local') = IF m.old \in Present(local)
                            THEN (Present(local) \ {m.old}) \cup {m.path}
                            ELSE Present(local)
    <3>1. CASE local[m.old] # Absent
      <4>1. local' = [local EXCEPT ![m.old] = Absent, ![m.path] = local[m.old]]
        BY <2>1, <3>1
      <4>2. \A r \in Notes : local'[r] = IF r = m.path THEN local[m.old]
                                      ELSE IF r = m.old THEN Absent ELSE local[r]
        BY <1>2, <1>3, <1>7, <4>1
      <4>3. Present(local') = (Present(local) \ {m.old}) \cup {m.path}
        BY <1>2, <1>7, <3>1, <4>2 DEF Present
      <4> QED
        BY <2>2, <3>1, <4>3
    <3>2. CASE local[m.old] = Absent
      BY <2>1, <2>2, <3>2
    <3> QED
      BY <3>1, <3>2
  <2> QED
    BY <1>4, <1>7, <2>1, <2>3 DEF Learned
<1>8. Good
  BY <1>1, <1>5, <1>6, <1>7 DEF Announcement
<1> HIDE DEF m
<1>9. Present(local') = learning[<<Present(local), m>>]
  BY <1>1, <1>8, LearningIs DEF Present
<1>10. Present(server) = Replay(learning, Present(local'), inbox')
  BY <1>1, <1>9, ReplayTail DEF NamesInv, m
<1> QED
  BY <1>1, <1>3, <1>8, <1>10 DEF NamesInv, Present

LEMMA NamesCopy ==
  ASSUME TypeInv, NamesInv, edits = 0, ConsumeCopy PROVE NamesInv'
<1>1. /\ consumer.file \in Present(local) /\ consumer.from \in Notes
      /\ consumer.file \in Notes /\ consumer.file # NoNote
  BY NoNoteAssumption DEF ConsumeCopy, NamesInv, Present, TypeInv, Busy
<1>2. PICK b : /\ b # Absent /\ local' = [local EXCEPT ![consumer.file] = b]
  BY <1>1, AbsentAssumption DEF ConsumeCopy
<1>3. local \in [Notes -> Body]
  BY DEF TypeInv, TypeOK
<1>4. Present(local') = Present(local)
  <2>1. Present([local EXCEPT ![consumer.file] = b]) = Present(local) \cup {consumer.file}
    BY <1>1, <1>2, <1>3, SetPresent
  <2>2. Present(local') = Present(local) \cup {consumer.file}
    BY <1>2, <2>1
  <2> QED
    BY <1>1, <2>2
<1>5. consumer'.pc # "fetch" /\ UNCHANGED <<server, inbox>>
  BY DEF ConsumeCopy, ConsumeLoop, ConsumeFrame
<1> QED
  BY <1>4, <1>5 DEF NamesInv, Present

LEMMA NamesElsewhere ==
  ASSUME TypeInv, NamesInv, edits = 0, Elsewhere PROVE NamesInv'
<1>1. PICK op, p, q :
        /\ op \in RemoteOps /\ p \in Notes /\ q \in Notes
        /\ LET req == [op |-> op, path |-> p, old |-> q, body |-> MaxEdits + remote + 1]
           IN server' = Serve(req) /\ inbox' = inbox \o Announced(req)
  BY DEF Elsewhere
<1> DEFINE req == [op |-> op, path |-> p, old |-> q, body |-> MaxEdits + remote + 1]
<1>2. /\ req.op = op /\ req.path = p /\ req.old = q /\ req.body # Absent
      /\ server' = Serve(req) /\ inbox' = inbox \o Announced(req)
  BY <1>1, AbsentAssumption, WatchBoundsAssumption DEF TypeInv, TypeOK
<1> HIDE DEF req
<1>3. /\ server \in [Notes -> Body] /\ inbox \in Seq(Announcement)
      /\ Present(server) = Replay(learning, Present(local), inbox)
      /\ UNCHANGED <<local, consumer>>
  BY DEF Elsewhere, NamesInv, TypeInv, TypeOK
<1> DEFINE Tells(m) == /\ m \in Announcement /\ inbox' = Append(inbox, m)
                       /\ Present(server') = Learned(Present(server), m)
<1>4. \/ UNCHANGED <<server, inbox>>
      \/ \E m : Tells(m)
  <2>1. CASE op = "upload"
    <3> DEFINE m == FsEvent("CREATE", p)
    <3>1. m \in Announcement /\ m.op = "CREATE" /\ m.path = p
      BY <1>1, EventTypes DEF FsEvent, Announcement, Op
    <3>2. Announced(req) = <<m>> /\ Serve(req) = [server EXCEPT ![p] = req.body]
      BY <1>2, <2>1 DEF Announced, Serve
    <3> HIDE DEF m
    <3>3. inbox' = Append(inbox, m)
      BY <1>2, <1>3, <3>1, <3>2
    <3>4. Present(server') = Present(server) \cup {p}
      <4>1. Present([server EXCEPT ![p] = req.body]) = Present(server) \cup {p}
        BY <1>1, <1>2, <1>3, SetPresent
      <4> QED
        BY <1>2, <3>2, <4>1
    <3> QED
      BY <3>1, <3>3, <3>4 DEF Learned
  <2>2. CASE op = "remove"
    <3> DEFINE m == FsEvent("REMOVE", p)
    <3>1. m \in Announcement /\ m.op = "REMOVE" /\ m.path = p
      BY <1>1, EventTypes DEF FsEvent, Announcement, Op
    <3>2. Announced(req) = <<m>> /\ Serve(req) = [server EXCEPT ![p] = Absent]
      BY <1>2, <2>2 DEF Announced, Serve
    <3> HIDE DEF m
    <3>3. inbox' = Append(inbox, m)
      BY <1>2, <1>3, <3>1, <3>2
    <3>4. Present(server') = Present(server) \ {p}
      <4>1. Present([server EXCEPT ![p] = Absent]) = Present(server) \ {p}
        BY <1>1, <1>3, SetPresent
      <4> QED
        BY <1>2, <3>2, <4>1
    <3> QED
      BY <3>1, <3>3, <3>4 DEF Learned
  <2>3. CASE op = "rename" /\ server[q] = Absent
    <3>1. Announced(req) = <<>> /\ Serve(req) = server
      BY <1>2, <2>3 DEF Announced, Serve
    <3> QED
      BY <1>2, <1>3, <3>1
  <2>4. CASE op = "rename" /\ server[q] # Absent
    <3> DEFINE m == Renamed("NECO_RENAME", q, p)
    <3>1. m \in Announcement /\ m.op = "NECO_RENAME" /\ m.path = p /\ m.old = q
      BY <1>1, EventTypes DEF Renamed, Announcement, Op
    <3>2. /\ Announced(req) = <<m>>
          /\ Serve(req) = [server EXCEPT ![q] = Absent, ![p] = server[q]]
      BY <1>2, <2>4 DEF Announced, Serve
    <3> HIDE DEF m
    <3>3. inbox' = Append(inbox, m)
      BY <1>2, <1>3, <3>1, <3>2
    <3>4. Present(server') = (Present(server) \ {q}) \cup {p}
      <4>1. server' = [server EXCEPT ![q] = Absent, ![p] = server[q]]
        BY <1>2, <3>2
      <4>2. \A r \in Notes : server'[r] = IF r = p THEN server[q]
                                       ELSE IF r = q THEN Absent ELSE server[r]
        BY <1>1, <1>3, <4>1
      <4> QED
        BY <1>1, <2>4, <4>2 DEF Present
    <3>5. q \in Present(server)
      BY <1>1, <2>4 DEF Present
    <3> QED
      BY <3>1, <3>3, <3>4, <3>5 DEF Learned
  <2> QED
    BY <1>1, <2>1, <2>2, <2>3, <2>4, RemoteOpsAssumption
<1>5. ASSUME NEW m, Tells(m) PROVE NamesInv'
  <2>1. Present(server') = learning[<<Present(server), m>>]
    BY <1>5, LearningIs DEF Present
  <2>2. Replay(learning, Present(local), inbox') = learning[<<Present(server), m>>]
    BY <1>3, <1>5, ReplayAppend
  <2>3. inbox' \in Seq(Announcement)
    BY <1>3, <1>5
  <2> QED
    BY <1>3, <2>1, <2>2, <2>3 DEF NamesInv, Present
<1>6. ASSUME UNCHANGED <<server, inbox>> PROVE NamesInv'
  BY <1>3, <1>6 DEF NamesInv, Present
<1> QED
  BY <1>4, <1>5, <1>6

LEMMA NamesStep ==
  Prompt /\ TypeInv /\ EchoInv /\ NamesInv /\ [Next]_vars => NamesInv'
<1> SUFFICES ASSUME Prompt, TypeInv, EchoInv, NamesInv, [Next]_vars, edits' = 0
             PROVE  NamesInv'
  BY DEF NamesInv
<1>1. edits = 0 /\ ~User
  BY EditsCount
<1>2. CASE Consumer
  BY <1>1, <1>2, NamesMessage, NamesCopy DEF Consumer
<1>3. CASE Elsewhere
  BY <1>1, <1>3, NamesElsewhere
<1>4. ~Processor /\ ~ProcFail
  BY <1>1 DEF EchoInv, Processor, ProcEvent, ProcSend, ProcFail
<1>5. CASE ~Consumer /\ ~Elsewhere
  <2>1. UNCHANGED <<local, server, inbox, consumer>>
    BY <1>1, <1>4, <1>5
    DEF Next, vars, Watcher, WatchEvent, PutWriteCheck, PutWriteReset, PutWriteNote,
        WatchPut, WatchFrame, ExpireIgnore, ConsumeFrame, Fire, Callback, CallbackCheck,
        CallbackTake, CallbackPut, CallbackFrame, MapFault
  <2> QED
    BY <1>1, <2>1 DEF NamesInv, Present
<1> QED
  BY <1>2, <1>3, <1>5

\* A client whose user does nothing ends with the notes the server has, whatever
\* other clients upload, rename and remove, and in whatever order the messages
\* and the downloads between them are worked off, if what the consumer does is
\* seen within the second of the ignore list.
THEOREM NamesAlwaysArrive == ASSUME Prompt PROVE Spec => []NamesArrive
<1>1. TypeInv /\ EchoInv /\ NamesInv /\ [Next]_vars => NamesInv'
  BY NamesStep, Prompt
<1>2. TypeInv /\ EchoInv /\ [Next]_vars => EchoInv'
  BY EchoStep, Prompt
<1>3. NamesInv => NamesArrive
  <2> SUFFICES ASSUME NamesInv, edits = 0, Quiet PROVE Present(local) = Present(server)
    BY DEF NamesArrive, Present
  <2>1. inbox = <<>>
    BY DEF Quiet
  <2> QED
    BY <2>1, ReplayNothing DEF NamesInv
<1> QED
  BY <1>1, <1>2, <1>3, NamesInit, EchoInit, TypeInvariant, PTL DEF Spec

-----------------------------------------------------------------------------
(* A user who renames and removes.                                          *)

\* The user only renames and removes, and the server can be reached.
OnlyMoves == UserOps \subseteq {"rename", "remove"} /\ MaxFaults = 0

Directory == [Notes -> Body]

\* A rename's creation has the old name; the old name's own event says nothing.
IsMove(e) ==
  \/ e.op \in {"RENAME", "REMOVE", "NECO_RENAME"}
  \/ e.op = "CREATE" /\ e.old \in Notes
Moving == {e \in Event : IsMove(e)}
Told   == {e \in Event : e.op \in {"REMOVE", "NECO_RENAME"}}

Moved(d, p, q) ==
  IF d[p] = Absent THEN d ELSE [d EXCEPT ![p] = Absent, ![q] = d[p]]

\* What an event makes of a directory, be it the user's or the server's.
Done(d, e) ==
  IF e.op = "REMOVE" THEN [d EXCEPT ![e.path] = Absent]
  ELSE IF e.op \in {"CREATE", "NECO_RENAME"} THEN Moved(d, e.old, e.path)
  ELSE d
doing == [x \in Directory \X Moving |-> Done(x[1], x[2])]

\* What the server is going to have: with the request that is under way, with
\* what is in the channel, with what waits to get into it.
AfterRequest == IF proc.pc = "send" THEN Serve(proc.req) ELSE server
AfterChannel == Replay(doing, AfterRequest, channel)
AfterWatch   == IF watch.pc = "put" THEN doing[<<AfterChannel, watch.ev>>] ELSE AfterChannel

\* Nothing of other clients, no held-back writes, and only moves under way.
MovesOnly ==
  /\ inbox = <<>> /\ ignored = {} /\ consumer.pc = "idle"
  /\ armed = {} /\ taking = {}
  /\ \A t \in Timer : calls[t] = 0
  /\ \A p \in Notes : putting[p] = 0 /\ timers[p] = 0
  /\ watch.pc \in {"idle", "put"} /\ (watch.pc = "put" => watch.ev \in Told)
  /\ events \in Seq(Moving) /\ channel \in Seq(Told)

\* The server is going to have what the directory has when all that is on its
\* way has been done to it in turn.
InTurn == local = Replay(doing, AfterWatch, events)

MoveInv == remote = 0 => MovesOnly /\ InTurn

LEMMA MovingTypes ==
  /\ Told \subseteq Moving /\ Moving \subseteq Event
  /\ \A e \in Moving : /\ e.path \in Notes
                       /\ e.op \in {"CREATE", "NECO_RENAME"} => e.old \in Notes
<1>1. \A e \in Event : e.path \in Notes /\ (e.op = "NECO_RENAME" => e.old \in Notes)
  BY EventFields
<1> QED
  BY <1>1 DEF Told, Moving, IsMove

LEMMA DoneType ==
  ASSUME NEW d \in Directory, NEW e \in Moving
  PROVE  Done(d, e) \in Directory /\ doing[<<d, e>>] = Done(d, e)
<1>1. e.path \in Notes /\ (e.op \in {"CREATE", "NECO_RENAME"} => e.old \in Notes)
  BY MovingTypes
<1>2. Absent \in Body
  BY DEF Body
<1>3. ASSUME NEW p \in Notes, NEW q \in Notes PROVE Moved(d, p, q) \in Directory
  BY <1>2 DEF Moved, Directory
<1>4. [d EXCEPT ![e.path] = Absent] \in Directory
  BY <1>1, <1>2 DEF Directory
<1>5. Done(d, e) \in Directory
  BY <1>1, <1>3, <1>4 DEF Done
<1>6. <<d, e>> \in Directory \X Moving /\ <<d, e>>[1] = d /\ <<d, e>>[2] = e
  OBVIOUS
<1> QED
  BY <1>5, <1>6 DEF doing

LEMMA AfterTypes ==
  ASSUME TypeInv, MovesOnly
  PROVE  AfterRequest \in Directory /\ AfterChannel \in Directory /\ AfterWatch \in Directory
<1>1. AfterRequest \in Directory
  BY ServeType DEF AfterRequest, TypeInv, TypeOK, Busy, Directory
<1>2. \A d \in Directory : \A e \in Moving : doing[<<d, e>>] \in Directory
  BY DoneType
<1>3. channel \in Seq(Moving)
  BY MovingTypes DEF MovesOnly
<1>4. AfterChannel \in Directory
  BY <1>1, <1>2, <1>3, ReplayStays DEF AfterChannel
<1> QED
  BY <1>1, <1>2, <1>4, MovingTypes DEF AfterWatch, MovesOnly

LEMMA MoveInit == Init => MoveInv
<1> SUFFICES ASSUME Init PROVE MovesOnly /\ InTurn
  BY DEF MoveInv
<1>1. events = <<>> /\ channel = <<>> /\ watch.pc = "idle" /\ proc.pc = "idle" /\ local = server
  BY DEF Init
<1>2. AfterWatch = server
  BY <1>1, ReplayNothing DEF AfterWatch, AfterChannel, AfterRequest
<1>3. InTurn
  BY <1>1, <1>2, ReplayNothing DEF InTurn
<1> QED
  BY <1>3 DEF Init, MovesOnly

LEMMA ServeMoves ==
  ASSUME TypeInv, NEW e \in Told, NEW req, req.path = e.path,
         e.op = "REMOVE" => req.op = "remove",
         e.op = "NECO_RENAME" => req.op = "rename" /\ req.old = e.old
  PROVE  Serve(req) = doing[<<server, e>>]
<1>1. server \in Directory /\ e \in Moving
  BY MovingTypes DEF TypeInv, TypeOK, Directory
<1>2. doing[<<server, e>>] = Done(server, e)
  BY <1>1, DoneType
<1>3. CASE e.op = "REMOVE"
  BY <1>2, <1>3 DEF Serve, Done
<1>4. CASE e.op = "NECO_RENAME"
  BY <1>2, <1>4 DEF Serve, Done, Moved
<1> QED
  BY <1>3, <1>4 DEF Told

LEMMA MoveSeen ==
  ASSUME TypeInv, MovesOnly, InTurn, WatchEvent PROVE MovesOnly' /\ InTurn'
<1> DEFINE e == Head(events)
<1>1. e \in Moving /\ events' = Tail(events) /\ events' \in Seq(Moving) /\ watch.pc = "idle"
  BY DEF WatchEvent, MovesOnly
<1>2. e \in Event /\ e.path \in Notes /\ e.path \notin ignored /\ timers[e.path] = 0
  BY <1>1, MovingTypes DEF MovesOnly
<1>3. AfterChannel \in Directory /\ AfterWatch = AfterChannel
  BY <1>1, AfterTypes DEF AfterWatch
<1>4. local' = Replay(doing, doing[<<AfterChannel, e>>], events')
  BY <1>1, <1>3, ReplayTail DEF InTurn, MovesOnly, WatchEvent
<1>5. AfterChannel' = AfterChannel
  BY DEF WatchEvent, AfterChannel, AfterRequest, Serve
<1>6. \/ e.op = "CREATE" /\ e.old \in Notes /\ WatchDo("put", Created(e)) /\ UNCHANGED debouncer
      \/ e.op = "RENAME" /\ WatchLoop /\ DeleteWrite(e.path)
      \/ e.op = "REMOVE" /\ WatchDo("put", e) /\ DeleteWrite(e.path)
  BY <1>1, <1>2 DEF WatchEvent, Moving, IsMove
<1> HIDE DEF e
<1>7. UNCHANGED debouncer
  BY <1>2, <1>6 DEF DeleteWrite, debouncer
<1>8. /\ watch'.pc \in {"idle", "put"} /\ (watch'.pc = "put" => watch'.ev \in Told)
      /\ AfterWatch' = doing[<<AfterChannel, e>>]
  <2>1. CASE e.op = "CREATE"
    <3>1. Created(e) = [e EXCEPT !.op = "NECO_RENAME"] /\ Created(e) \in Event
      BY <1>2, <1>6, <2>1, NoNoteAssumption, CreatedType DEF Created
    <3>2. /\ Created(e).op = "NECO_RENAME" /\ Created(e).path = e.path
          /\ Created(e).old = e.old
      BY <1>2, <3>1 DEF Event
    <3>3. Created(e) \in Told
      BY <3>1, <3>2 DEF Told
    <3>4. doing[<<AfterChannel, Created(e)>>] = doing[<<AfterChannel, e>>]
      <4>1. /\ doing[<<AfterChannel, Created(e)>>] = Done(AfterChannel, Created(e))
            /\ doing[<<AfterChannel, e>>] = Done(AfterChannel, e)
        BY <1>1, <1>3, <3>3, DoneType, MovingTypes
      <4>2. Done(AfterChannel, Created(e)) = Moved(AfterChannel, e.old, e.path)
        BY <3>2 DEF Done
      <4>3. Done(AfterChannel, e) = Moved(AfterChannel, e.old, e.path)
        BY <2>1 DEF Done
      <4> QED
        BY <4>1, <4>2, <4>3
    <3> QED
      BY <1>5, <1>6, <2>1, <3>3, <3>4 DEF WatchDo, AfterWatch
  <2>2. CASE e.op = "RENAME"
    <3>1. doing[<<AfterChannel, e>>] = AfterChannel
      BY <1>1, <1>3, <2>2, DoneType DEF Done
    <3> QED
      BY <1>5, <1>6, <2>2, <3>1 DEF WatchLoop, WatchDo, AfterWatch
  <2>3. CASE e.op = "REMOVE"
    <3>1. e \in Told
      BY <1>2, <2>3 DEF Told
    <3> QED
      BY <1>5, <1>6, <2>3, <3>1 DEF WatchDo, AfterWatch
  <2> QED
    BY <1>6, <2>1, <2>2, <2>3
<1>9. MovesOnly'
  BY <1>1, <1>7, <1>8 DEF MovesOnly, WatchEvent, debouncer
<1> QED
  BY <1>4, <1>8, <1>9 DEF InTurn

LEMMA MovePut ==
  ASSUME TypeInv, MovesOnly, InTurn, WatchPut PROVE MovesOnly' /\ InTurn'
<1>1. watch.ev \in Told /\ channel \in Seq(Told) /\ channel' = Append(channel, watch.ev)
  BY DEF WatchPut, MovesOnly
<1>2. channel' \in Seq(Told) /\ watch'.pc = "idle"
  BY <1>1 DEF WatchPut, WatchLoop, WatchDo
<1>3. AfterRequest' = AfterRequest
  BY DEF WatchPut, WatchFrame, AfterRequest, Serve
<1>4. AfterChannel' = doing[<<AfterChannel, watch.ev>>]
  BY <1>1, <1>3, ReplayAppend DEF AfterChannel
<1>5. AfterWatch' = AfterWatch
  BY <1>2, <1>4 DEF AfterWatch, WatchPut
<1>6. UNCHANGED <<local, events>>
  BY DEF WatchPut, WatchFrame
<1>7. MovesOnly'
  BY <1>2 DEF MovesOnly, WatchPut, WatchFrame, debouncer
<1> QED
  BY <1>5, <1>6, <1>7 DEF InTurn

LEMMA MoveSent ==
  ASSUME TypeInv, MovesOnly, InTurn, Processor PROVE MovesOnly' /\ InTurn'
<1>1. AfterChannel' = AfterChannel /\ channel' \in Seq(Told)
  <2>1. CASE ProcEvent
    <3> DEFINE e == Head(channel)
    <3>1. /\ e \in Told /\ channel \in Seq(Told) /\ channel # <<>>
          /\ channel' = Tail(channel) /\ channel' \in Seq(Told)
      BY <2>1 DEF ProcEvent, MovesOnly
    <3>2. \/ e.op = "REMOVE" /\ Send("remove", e.path, NoNote, Empty)
          \/ e.op = "NECO_RENAME" /\ Send("rename", e.path, e.old, Empty)
      BY <2>1, <3>1 DEF ProcEvent, Told
    <3>3. AfterRequest = server /\ UNCHANGED server
      BY <2>1 DEF ProcEvent, AfterRequest
    <3>4. AfterChannel = Replay(doing, doing[<<server, e>>], channel')
      BY <3>1, <3>3, ReplayTail DEF AfterChannel
    <3> HIDE DEF e
    <3>5. Serve(proc'.req) = doing[<<server, e>>]
      BY <3>1, <3>2, ServeMoves DEF Send
    <3>6. AfterRequest' = Serve(proc'.req)
      BY <3>2, <3>3 DEF Send, AfterRequest, Serve
    <3> QED
      BY <3>1, <3>4, <3>5, <3>6 DEF AfterChannel
  <2>2. CASE ProcSend
    <3>1. AfterRequest' = AfterRequest
      BY <2>2 DEF ProcSend, ProcLoop, AfterRequest
    <3> QED
      BY <2>2, <3>1 DEF ProcSend, AfterChannel, MovesOnly
  <2> QED
    BY <2>1, <2>2 DEF Processor
<1>2. UNCHANGED <<local, events, watch, debouncer, inbox, consumer, ignored>>
  BY DEF Processor, ProcEvent, ProcSend, ProcFrame
<1>3. AfterWatch' = AfterWatch
  BY <1>1, <1>2 DEF AfterWatch
<1>4. MovesOnly'
  BY <1>1, <1>2 DEF MovesOnly, debouncer
<1> QED
  BY <1>2, <1>3, <1>4 DEF InTurn

LEMMA MoveUser ==
  ASSUME OnlyMoves, TypeInv, MovesOnly, InTurn, User PROVE MovesOnly' /\ InTurn'
<1>1. /\ local \in Directory /\ events \in Seq(Moving)
      /\ local = Replay(doing, AfterWatch, events)
  BY DEF MovesOnly, InTurn, TypeInv, TypeOK, Directory
<1>2. ~UserCreate /\ ~UserWrite /\ ~UserMoveOut /\ ~UserChmod
  BY DEF OnlyMoves, UserCreate, UserWrite, UserMoveOut, UserChmod, UserStep
<1>3. /\ UNCHANGED <<server, watch, debouncer, channel, proc, inbox, ignored>>
      /\ consumer'.pc = consumer.pc
  <2>1. consumer \in ConsumerState
    BY DEF TypeInv, TypeOK
  <2>2. \A f : [consumer EXCEPT !.file = f].pc = consumer.pc
    BY <2>1 DEF ConsumerState
  <2>3. UserRemove => consumer'.pc = consumer.pc
    BY <2>2 DEF UserRemove, Unlinked
  <2>4. UserRename => consumer'.pc = consumer.pc
    BY <2>2 DEF UserRename
  <2> QED
    BY <1>2, <2>3, <2>4 DEF User, UserRemove, UserRename, UserStep
<1>4. AfterWatch' = AfterWatch
  BY <1>3 DEF AfterWatch, AfterChannel, AfterRequest, Serve
<1>5. events' \in Seq(Moving) /\ local' = Replay(doing, AfterWatch, events')
  <2>1. CASE UserRemove
    <3>1. PICK p \in Notes : /\ local' = [local EXCEPT ![p] = Absent]
                            /\ events' = Append(events, FsEvent("REMOVE", p))
      BY <2>1 DEF UserRemove
    <3> DEFINE e == FsEvent("REMOVE", p)
    <3>2. e \in Event /\ e.op = "REMOVE" /\ e.path = p
      BY EventTypes DEF FsEvent, Op
    <3> HIDE DEF e
    <3>3. e \in Moving
      BY <3>2 DEF Moving, IsMove
    <3>4. Replay(doing, AfterWatch, events') = doing[<<local, e>>]
      BY <1>1, <3>1, <3>3, ReplayAppend DEF e
    <3>5. doing[<<local, e>>] = local'
      BY <1>1, <3>1, <3>2, <3>3, DoneType DEF Done
    <3> QED
      BY <1>1, <3>1, <3>3, <3>4, <3>5 DEF e
  <2>2. CASE UserRename
    <3>1. PICK p, q : /\ p \in Notes /\ q \in Notes /\ local[p] # Absent
                      /\ RenameNote(p, q)
      BY <2>2 DEF UserRename
    <3> DEFINE e == FsEvent("RENAME", p)
               f == Renamed("CREATE", p, q)
    <3>2. /\ e \in Event /\ e.op = "RENAME"
          /\ f \in Event /\ f.op = "CREATE" /\ f.old = p /\ f.path = q
      BY <3>1, EventTypes DEF FsEvent, Renamed, Op
    <3>3. events' = events \o <<e, f>>
      BY <3>1 DEF RenameNote
    <3> HIDE DEF e, f
    <3>4. e \in Moving /\ f \in Moving
      BY <3>1, <3>2 DEF Moving, IsMove
    <3>5. events' = Append(Append(events, e), f) /\ Append(events, e) \in Seq(Moving)
      BY <1>1, <3>3, <3>4
    <3>6. Replay(doing, AfterWatch, Append(events, e)) = local
      <4>1. Replay(doing, AfterWatch, Append(events, e)) = doing[<<local, e>>]
        BY <1>1, <3>4, ReplayAppend
      <4> QED
        BY <1>1, <3>2, <3>4, <4>1, DoneType DEF Done
    <3>7. Replay(doing, AfterWatch, events') = doing[<<local, f>>]
      <4> DEFINE s == Append(events, e)
      <4>1. s \in Seq(Moving) /\ events' = Append(s, f) /\ Replay(doing, AfterWatch, s) = local
        BY <3>5, <3>6
      <4> HIDE DEF s
      <4> QED
        BY <3>4, <4>1, ReplayAppend
    <3>8. doing[<<local, f>>] = Moved(local, p, q)
      BY <1>1, <3>2, <3>4, DoneType DEF Done
    <3>9. local' = Moved(local, p, q)
      BY <3>1 DEF RenameNote, Moved
    <3> QED
      BY <3>4, <3>5, <3>7, <3>8, <3>9
  <2> QED
    BY <1>2, <2>1, <2>2 DEF User
<1>6. MovesOnly'
  BY <1>3, <1>5 DEF MovesOnly, debouncer
<1> QED
  BY <1>4, <1>5, <1>6 DEF InTurn

LEMMA RemoteCounts == TypeInv /\ [Next]_vars /\ remote' = 0 => remote = 0 /\ ~Elsewhere
<1> SUFFICES ASSUME TypeInv, [Next]_vars, remote' = 0 PROVE remote = 0 /\ ~Elsewhere
  OBVIOUS
<1>1. remote \in Nat
  BY DEF TypeInv, TypeOK
<1>2. Elsewhere => remote' = remote + 1
  BY DEF Elsewhere
<1>3. User => remote' = remote
  BY DEF User, UserCreate, UserWrite, UserRemove, UserRename, UserMoveOut, UserChmod,
         UserStep
<1>4. ~Elsewhere /\ ~User => remote' = remote
  BY DEF Next, vars, Watcher, WatchEvent, PutWriteCheck, PutWriteReset, PutWriteNote,
         WatchPut, WatchFrame, Processor, ProcEvent, ProcSend, ProcFail, ProcFrame,
         Consumer, ConsumeMessage, ConsumeCopy, ExpireIgnore, ConsumeFrame, Fire,
         Callback, CallbackCheck, CallbackTake, CallbackPut, CallbackFrame, MapFault
<1> QED
  BY <1>1, <1>2, <1>3, <1>4

LEMMA MoveStep == OnlyMoves /\ TypeInv /\ MoveInv /\ [Next]_vars => MoveInv'
<1> SUFFICES ASSUME OnlyMoves, TypeInv, MoveInv, [Next]_vars, remote' = 0
             PROVE  MovesOnly' /\ InTurn'
  BY DEF MoveInv
<1>1. MovesOnly /\ InTurn /\ ~Elsewhere
  BY RemoteCounts DEF MoveInv
<1>2. CASE Watcher
  BY <1>1, <1>2, MoveSeen, MovePut
  DEF Watcher, PutWriteCheck, PutWriteReset, PutWriteNote, MovesOnly
<1>3. CASE Processor
  BY <1>1, <1>3, MoveSent
<1>4. CASE User
  BY <1>1, <1>4, MoveUser
<1>5. CASE MapFault \/ UNCHANGED vars
  <2>1. UNCHANGED <<local, server, events, watch, debouncer, channel, proc, inbox,
                    consumer, ignored>>
    BY <1>5 DEF MapFault, WatchFrame, vars
  <2>2. AfterWatch' = AfterWatch
    BY <2>1 DEF AfterWatch, AfterChannel, AfterRequest, Serve
  <2>3. InTurn'
    BY <1>1, <2>1, <2>2 DEF InTurn
  <2>4. MovesOnly'
    BY <1>1, <2>1 DEF MovesOnly, debouncer
  <2> QED
    BY <2>3, <2>4
<1>6. /\ ~Consumer /\ ~ProcFail
      /\ \A t \in Timer : ~Fire(t) /\ ~Callback(t)
      /\ \A p \in Notes : ~CallbackPut(p) /\ ~ExpireIgnore(p)
  <2>1. faults \in Nat /\ MaxFaults = 0
    BY DEF OnlyMoves, TypeInv, TypeOK
  <2>2. ~ProcFail
    BY <2>1 DEF ProcFail
  <2>3. ~Consumer
    BY <1>1 DEF Consumer, ConsumeMessage, ConsumeCopy, MovesOnly
  <2> QED
    BY <1>1, <2>2, <2>3
    DEF Fire, Callback, CallbackCheck, CallbackTake, CallbackPut, ExpireIgnore, Expiring,
        MovesOnly
<1> QED
  BY <1>1, <1>2, <1>3, <1>4, <1>5, <1>6 DEF Next

\* What a user renames and removes reaches the server in the order it was done,
\* through the watcher, the channel of any capacity and the processor: with
\* nothing left to do the client agrees with the server, contents and all.
THEOREM RenamesAlwaysArrive == ASSUME OnlyMoves PROVE Spec => []RenamesArrive
<1>1. TypeInv /\ MoveInv /\ [Next]_vars => MoveInv'
  BY MoveStep, OnlyMoves
<1>2. MoveInv => RenamesArrive
  <2> SUFFICES ASSUME MovesOnly, InTurn, Quiet PROVE local = server
    BY DEF MoveInv, RenamesArrive
  <2>1. events = <<>> /\ channel = <<>> /\ watch.pc = "idle" /\ proc.pc = "idle"
    BY DEF Quiet
  <2> QED
    BY <2>1, ReplayNothing DEF InTurn, AfterWatch, AfterChannel, AfterRequest
<1> QED
  BY <1>1, <1>2, MoveInit, TypeInvariant, PTL DEF Spec

-----------------------------------------------------------------------------
(* A user who creates, writes and removes.                                  *)

\* Nobody else does, and the server can be reached.
Alone ==
  /\ UserOps \subseteq {"create", "write", "remove"}
  /\ MaxRemote = 0 /\ MaxFaults = 0

-----------------------------------------------------------------------------
(* What is in a queue of events.                                            *)

In(s, p)       == \E i \in DOMAIN s : s[i].path = p
RemoveIn(s, p) == \E i \in DOMAIN s : s[i].path = p /\ s[i].op = "REMOVE"

\* The last that a queue says of p is that it was removed.
RemovedLast(s, p) ==
  \E i \in DOMAIN s : /\ s[i].path = p /\ s[i].op = "REMOVE"
                      /\ \A j \in DOMAIN s : j > i => s[j].path # p

LEMMA InAppend ==
  ASSUME NEW s \in Seq(Event), NEW e \in Event, NEW p
  PROVE  /\ In(Append(s, e), p) <=> In(s, p) \/ e.path = p
         /\ RemoveIn(Append(s, e), p)
              <=> RemoveIn(s, p) \/ (e.path = p /\ e.op = "REMOVE")
         /\ RemovedLast(Append(s, e), p)
              <=> IF e.path = p THEN e.op = "REMOVE" ELSE RemovedLast(s, p)
<1> DEFINE t == Append(s, e)
           n == Len(s) + 1
<1>1. /\ DOMAIN s = 1..Len(s) /\ DOMAIN t = 1..n /\ Len(s) \in Nat
      /\ \A i \in 1..Len(s) : t[i] = s[i]
      /\ t[n] = e
  OBVIOUS
<1> HIDE DEF t
<1>2. In(t, p) <=> In(s, p) \/ e.path = p
  BY <1>1 DEF In
<1>3. RemoveIn(t, p) <=> RemoveIn(s, p) \/ (e.path = p /\ e.op = "REMOVE")
  BY <1>1 DEF RemoveIn
<1>4. RemovedLast(t, p) <=> IF e.path = p THEN e.op = "REMOVE" ELSE RemovedLast(s, p)
  <2>1. CASE e.path = p
    BY <1>1, <2>1 DEF RemovedLast
  <2>2. CASE e.path # p
    BY <1>1, <2>2 DEF RemovedLast
  <2> QED
    BY <2>1, <2>2
<1> QED
  BY <1>2, <1>3, <1>4 DEF t

LEMMA InTail ==
  ASSUME NEW s \in Seq(Event), s # <<>>, NEW p
  PROVE  /\ In(s, p) <=> Head(s).path = p \/ In(Tail(s), p)
         /\ RemoveIn(s, p)
              <=> RemoveIn(Tail(s), p) \/ (Head(s).path = p /\ Head(s).op = "REMOVE")
         /\ RemovedLast(s, p)
              <=> \/ RemovedLast(Tail(s), p)
                  \/ Head(s).path = p /\ Head(s).op = "REMOVE" /\ ~In(Tail(s), p)
<1> DEFINE t == Tail(s)
           e == Head(s)
<1>1. /\ DOMAIN s = 1..Len(s) /\ DOMAIN t = 1..(Len(s) - 1) /\ Len(s) \in Nat \ {0}
      /\ \A i \in 1..(Len(s) - 1) : t[i] = s[i + 1]
      /\ s[1] = e
  OBVIOUS
<1>2. \A j \in 2..Len(s) : j - 1 \in DOMAIN t /\ t[j - 1] = s[j]
  BY <1>1
<1> HIDE DEF t, e
<1>3. \A i \in DOMAIN s : s[i] = e \/ \E j \in DOMAIN t : s[i] = t[j]
  <2> TAKE i \in DOMAIN s
  <2>1. CASE i = 1
    BY <1>1, <2>1
  <2>2. CASE i # 1
    <3>1. i \in 2..Len(s)
      BY <1>1, <2>2
    <3> QED
      BY <1>2, <3>1
  <2> QED
    BY <2>1, <2>2
<1>4. 1 \in DOMAIN s /\ \A j \in DOMAIN t : j + 1 \in DOMAIN s /\ s[j + 1] = t[j]
  BY <1>1
<1>5. In(s, p) <=> e.path = p \/ In(t, p)
  BY <1>1, <1>3, <1>4 DEF In
<1>6. RemoveIn(s, p) <=> RemoveIn(t, p) \/ (e.path = p /\ e.op = "REMOVE")
  <2>1. RemoveIn(s, p) => RemoveIn(t, p) \/ (e.path = p /\ e.op = "REMOVE")
    BY <1>3 DEF RemoveIn
  <2>2. RemoveIn(t, p) => RemoveIn(s, p)
    <3>1. SUFFICES ASSUME NEW j \in DOMAIN t, t[j].path = p, t[j].op = "REMOVE"
                   PROVE  RemoveIn(s, p)
      BY DEF RemoveIn
    <3>2. j + 1 \in DOMAIN s /\ s[j + 1] = t[j]
      BY <1>4
    <3> QED
      BY <3>1, <3>2 DEF RemoveIn
  <2>3. e.path = p /\ e.op = "REMOVE" => RemoveIn(s, p)
    BY <1>1, <1>4 DEF RemoveIn
  <2> QED
    BY <2>1, <2>2, <2>3
<1>7. RemovedLast(s, p) <=> \/ RemovedLast(t, p)
                            \/ e.path = p /\ e.op = "REMOVE" /\ ~In(t, p)
  <2>1. ASSUME RemovedLast(s, p), ~RemovedLast(t, p)
        PROVE  e.path = p /\ e.op = "REMOVE" /\ ~In(t, p)
    <3>1. PICK i \in DOMAIN s : /\ s[i].path = p /\ s[i].op = "REMOVE"
                                /\ \A j \in DOMAIN s : j > i => s[j].path # p
      BY <2>1 DEF RemovedLast
    <3>2. i = 1
      <4>1. SUFFICES ASSUME i # 1 PROVE RemovedLast(t, p)
        BY <2>1
      <4>2. i - 1 \in DOMAIN t /\ t[i - 1] = s[i]
        BY <1>1, <1>2, <4>1
      <4>3. \A j \in DOMAIN t : j > i - 1 => t[j].path # p
        BY <1>1, <3>1
      <4> QED
        BY <3>1, <4>2, <4>3 DEF RemovedLast
    <3> QED
      BY <1>1, <3>1, <3>2 DEF In
  <2>2. ASSUME RemovedLast(t, p) PROVE RemovedLast(s, p)
    <3>1. PICK i \in DOMAIN t : /\ t[i].path = p /\ t[i].op = "REMOVE"
                                /\ \A j \in DOMAIN t : j > i => t[j].path # p
      BY <2>2 DEF RemovedLast
    <3>2. i + 1 \in DOMAIN s /\ s[i + 1] = t[i]
      BY <1>1
    <3>3. \A j \in DOMAIN s : j > i + 1 => s[j].path # p
      BY <1>1, <1>2, <3>1
    <3> QED
      BY <3>1, <3>2, <3>3 DEF RemovedLast
  <2>3. ASSUME e.path = p, e.op = "REMOVE", ~In(t, p) PROVE RemovedLast(s, p)
    <3>1. \A j \in DOMAIN s : j > 1 => s[j].path # p
      BY <1>1, <1>2, <2>3 DEF In
    <3> QED
      BY <1>1, <2>3, <3>1 DEF RemovedLast
  <2> QED
    BY <2>1, <2>2, <2>3
<1> QED
  BY <1>5, <1>6, <1>7 DEF t, e

-----------------------------------------------------------------------------
(* The kinds of events and requests there are.                              *)

Edited == [op : {"CREATE", "WRITE", "REMOVE"}, path : Notes, old : {NoNote}]

AloneInv ==
  /\ ignored = {} /\ inbox = <<>> /\ consumer.pc = "idle" /\ remote = 0 /\ faults = 0
  /\ events \in Seq(Edited) /\ channel \in Seq(Edited)
  /\ watch.pc # "idle" => watch.ev \in Edited
  /\ watch.pc \in {"check", "reset", "note"} => watch.ev.op = "WRITE"
  /\ proc.pc = "send" => proc.req.op \in {"upload", "remove"}

LEMMA EditedEvents ==
  /\ Edited \subseteq Event
  /\ \A e \in Edited : /\ e.path \in Notes /\ e.op \in {"CREATE", "WRITE", "REMOVE"}
                      /\ e.old = NoNote /\ Created(e) = e
  /\ \A op \in {"CREATE", "WRITE", "REMOVE"}, p \in Notes :
       FsEvent(op, p) \in Edited /\ FsEvent(op, p).op = op /\ FsEvent(op, p).path = p
<1>1. Edited \subseteq Event
  BY DEF Edited, Event, Op, Name
<1> QED
  BY <1>1 DEF Edited, Created, FsEvent

LEMMA EditedQueue ==
  ASSUME NEW s \in Seq(Edited)
  PROVE  /\ s \in Seq(Event)
         /\ \A e \in Edited : Append(s, e) \in Seq(Edited)
         /\ s # <<>> => Head(s) \in Edited /\ Tail(s) \in Seq(Edited)
  BY EditedEvents

LEMMA AloneInit == Init => AloneInv
  BY DEF Init, AloneInv

\* An edit of the user's is a creation, a write or a removal of one note.
UserEdits(p) ==
  /\ edits' = edits + 1
  /\ \/ /\ local' = [local EXCEPT ![p] = edits + 1]
        /\ \E op \in {"CREATE", "WRITE"} : events' = Append(events, FsEvent(op, p))
     \/ /\ local' = [local EXCEPT ![p] = Absent]
        /\ events' = Append(events, FsEvent("REMOVE", p))
  /\ consumer'.pc = consumer.pc
  /\ UNCHANGED <<server, watch, debouncer, channel, proc, inbox, ignored, alive,
                 remote, faults>>

LEMMA UserAlone ==
  ASSUME Alone, TypeInv, AloneInv, User PROVE \E p \in Notes : UserEdits(p)
<1>1. ASSUME UserCreate PROVE \E p \in Notes : UserEdits(p)
  BY <1>1 DEF UserCreate, UserStep, UserEdits
<1>2. ASSUME UserWrite PROVE \E p \in Notes : UserEdits(p)
  BY <1>2 DEF UserWrite, UserStep, UserEdits
<1>3. ASSUME UserRemove PROVE \E p \in Notes : UserEdits(p)
  <2>1. PICK p \in Notes : /\ UserStep("remove")
                          /\ local' = [local EXCEPT ![p] = Absent]
                          /\ events' = Append(events, FsEvent("REMOVE", p))
                          /\ consumer' = Unlinked(p)
    BY <1>3 DEF UserRemove
  <2>2. consumer'.pc = consumer.pc
    BY <2>1 DEF Unlinked, TypeInv, TypeOK, ConsumerState
  <2> QED
    BY <2>1, <2>2 DEF UserStep, UserEdits
<1>4. ~UserRename /\ ~UserMoveOut /\ ~UserChmod
  BY DEF Alone, UserRename, UserMoveOut, UserChmod, UserStep
<1> QED
  BY <1>1, <1>2, <1>3, <1>4 DEF User

\* Who takes no step: the consumer, its ignore list, other clients, failures.
LEMMA OthersIdle ==
  ASSUME Alone, TypeInv, AloneInv
  PROVE  ~Consumer /\ ~Elsewhere /\ ~ProcFail /\ \A p \in Notes : ~ExpireIgnore(p)
  BY DEF Alone, AloneInv, Consumer, ConsumeMessage, ConsumeCopy, Elsewhere, ProcFail,
         ExpireIgnore, Expiring

LEMMA AloneWatch ==
  ASSUME TypeInv, AloneInv, Watcher PROVE AloneInv'
<1>1. CASE WatchEvent
  <2> DEFINE ev == Head(events)
  <2>1. ev \in Edited /\ events' \in Seq(Edited)
    BY <1>1, EditedQueue DEF WatchEvent, AloneInv
  <2>2. Created(ev) = ev /\ ev.op \in {"CREATE", "WRITE", "REMOVE"}
    BY <2>1, EditedEvents
  <2>3. \/ ev.op = "WRITE" /\ WatchDo("check", ev)
        \/ WatchDo("put", ev)
    BY <1>1, <2>2 DEF WatchEvent, AloneInv
  <2> HIDE DEF ev
  <2>4. /\ watch'.pc # "idle" => watch'.ev \in Edited
        /\ watch'.pc \in {"check", "reset", "note"} => watch'.ev.op = "WRITE"
    BY <2>1, <2>3 DEF WatchDo
  <2> QED
    BY <1>1, <2>1, <2>4 DEF WatchEvent, AloneInv
<1>2. CASE PutWriteCheck \/ PutWriteReset
  <2>1. watch.pc \in {"check", "reset"} /\ watch \in WatchState
    BY <1>2 DEF PutWriteCheck, PutWriteReset, TypeInv, TypeOK
  <2>2. watch'.ev = watch.ev
    BY <1>2, <2>1 DEF PutWriteCheck, PutWriteReset, WatchState
  <2> QED
    BY <1>2, <2>1, <2>2 DEF PutWriteCheck, PutWriteReset, WatchFrame, AloneInv
<1>3. CASE PutWriteNote
  BY <1>3 DEF PutWriteNote, WatchLoop, WatchDo, WatchFrame, AloneInv
<1>4. CASE WatchPut
  <2>1. channel' \in Seq(Edited)
    BY <1>4, EditedQueue DEF WatchPut, AloneInv
  <2> QED
    BY <1>4, <2>1 DEF WatchPut, WatchLoop, WatchDo, WatchFrame, AloneInv
<1> QED
  BY <1>1, <1>2, <1>3, <1>4 DEF Watcher

LEMMA AloneProcessor ==
  ASSUME TypeInv, AloneInv, Processor PROVE AloneInv'
<1>1. CASE ProcEvent
  <2>1. channel' \in Seq(Edited) /\ Head(channel).op \in {"CREATE", "WRITE", "REMOVE"}
    BY <1>1, EditedQueue, EditedEvents DEF ProcEvent, AloneInv
  <2>2. proc'.pc = "send" => proc'.req.op \in {"upload", "remove"}
    BY <1>1, <2>1 DEF ProcEvent, Send, ProcLoop
  <2> QED
    BY <1>1, <2>1, <2>2 DEF ProcEvent, ProcFrame, AloneInv
<1>2. CASE ProcSend
  BY <1>2 DEF ProcSend, ProcLoop, ProcFrame, AloneInv
<1> QED
  BY <1>1, <1>2 DEF Processor

LEMMA AloneStep == Alone /\ TypeInv /\ AloneInv /\ [Next]_vars => AloneInv'
<1> SUFFICES ASSUME Alone, TypeInv, AloneInv, [Next]_vars PROVE AloneInv'
  OBVIOUS
<1>1. CASE Watcher
  BY <1>1, AloneWatch
<1>2. CASE Processor
  BY <1>2, AloneProcessor
<1>3. CASE User
  <2>1. PICK p \in Notes : UserEdits(p)
    BY <1>3, UserAlone
  <2>2. PICK op \in {"CREATE", "WRITE", "REMOVE"} : events' = Append(events, FsEvent(op, p))
    BY <2>1 DEF UserEdits
  <2>3. FsEvent(op, p) \in Edited
    BY EditedEvents
  <2>4. events' \in Seq(Edited)
    BY <2>2, <2>3, EditedQueue DEF AloneInv
  <2> QED
    BY <2>1, <2>4 DEF UserEdits, AloneInv
<1>4. CASE \E t \in Timer : Fire(t) \/ Callback(t)
  BY <1>4 DEF Fire, Callback, CallbackCheck, CallbackTake, CallbackFrame, AloneInv
<1>5. CASE \E p \in Notes : CallbackPut(p)
  <2>1. channel' \in Seq(Edited)
    BY <1>5, EditedQueue, EditedEvents DEF CallbackPut, AloneInv
  <2> QED
    BY <1>5, <2>1 DEF CallbackPut, CallbackFrame, AloneInv
<1>6. CASE MapFault \/ UNCHANGED vars
  BY <1>6 DEF MapFault, WatchFrame, vars, debouncer, AloneInv
<1> QED
  BY <1>1, <1>2, <1>3, <1>4, <1>5, <1>6, OthersIdle DEF Next

-----------------------------------------------------------------------------
(* What is on its way of an edit.                                           *)

Watching(p) == watch.pc # "idle" /\ watch.ev.path = p
Sending(p)  == proc.pc = "send" /\ proc.req.path = p
Target      == IF proc.req.op = "remove" THEN Absent ELSE proc.req.body

\* putWrite has a timer for the note, or is going to make one.
Writing(p) ==
  /\ Watching(p)
  /\ watch.pc \in {"check", "reset"} \/ (watch.pc = "note" /\ timers[p] # 0)

\* An event for p will be put into the channel.
Later(p) ==
  \/ In(events, p)
  \/ Watching(p) /\ watch.pc = "put"
  \/ Writing(p) \/ Held(p) \/ putting[p] > 0

RemovePending(p) ==
  \/ RemoveIn(events, p) \/ RemoveIn(channel, p)
  \/ Watching(p) /\ watch.ev.op = "REMOVE"

\* Of a note that is there, the last thing on its way is not its removal, nor
\* anything else than what is in it.
PresentCarried(p) ==
  /\ local[p] # server[p] => Later(p) \/ In(channel, p) \/ Sending(p)
  /\ Sending(p) /\ Target # local[p] => Later(p) \/ In(channel, p)
  /\ RemovedLast(channel, p) => Later(p)
  /\ Watching(p) /\ watch.ev.op = "REMOVE" => In(events, p)
  /\ ~RemovedLast(events, p)

\* Of a note that is not, the removal is on its way while the server has it or is
\* about to get it.
AbsentCarried(p) ==
  /\ server[p] # Absent => RemovePending(p) \/ (Sending(p) /\ Target = Absent)
  /\ Sending(p) /\ Target # Absent => RemovePending(p)

CarrierOf(p) == IF local[p] = Absent THEN AbsentCarried(p) ELSE PresentCarried(p)
CarrierInv   == \A p \in Notes : CarrierOf(p)

LEMMA CarrierInit == Init => CarrierInv
  BY DEF Init, CarrierInv, CarrierOf, AbsentCarried, PresentCarried, RemovedLast,
         Sending, Watching

LEMMA CarriedWhere ==
  \A p \in Notes :
    Carried(p) <=> \/ In(events, p) \/ Watching(p) \/ Held(p) \/ putting[p] > 0
                   \/ In(channel, p) \/ Sending(p)
  BY DEF Carried, In, Watching, Sending

LEMMA CarrierWatchEvent ==
  ASSUME TypeInv, AloneInv, CarrierInv, WatchEvent, NEW p \in Notes
  PROVE  CarrierOf(p)'
<1> DEFINE ev == Head(events)
<1>1. /\ watch.pc = "idle" /\ events # <<>> /\ events' = Tail(events)
      /\ UNCHANGED <<local, server, channel, proc, putting>>
  BY DEF WatchEvent, DeleteWrite, debouncer
<1>2. ev \in Edited /\ events \in Seq(Event)
  BY <1>1, EditedQueue DEF AloneInv
<1>3. ev.path \in Notes /\ Created(ev) = ev /\ ev.op \in {"CREATE", "WRITE", "REMOVE"}
  BY <1>2, EditedEvents
<1>4. /\ In(events, p) <=> ev.path = p \/ In(events', p)
      /\ RemoveIn(events, p) <=> RemoveIn(events', p) \/ (ev.path = p /\ ev.op = "REMOVE")
      /\ RemovedLast(events, p) <=> \/ RemovedLast(events', p)
                                    \/ ev.path = p /\ ev.op = "REMOVE" /\ ~In(events', p)
  BY <1>1, <1>2, InTail
<1>5. \/ ev.op = "WRITE" /\ WatchDo("check", ev) /\ UNCHANGED debouncer
      \/ ev.op = "CREATE" /\ WatchDo("put", ev) /\ UNCHANGED debouncer
      \/ ev.op = "REMOVE" /\ WatchDo("put", ev) /\ DeleteWrite(ev.path)
  BY <1>3 DEF WatchEvent, AloneInv
<1> HIDE DEF ev
<1>6. watch'.ev = ev /\ watch'.pc = IF ev.op = "WRITE" THEN "check" ELSE "put"
  BY <1>3, <1>5 DEF WatchDo
<1>7. Watching(p)' <=> ev.path = p
  BY <1>6 DEF Watching
<1>8. CarrierOf(p) /\ ~Watching(p)
  BY <1>1 DEF CarrierInv, Watching
<1>9. CASE ev.path = p
  <2>1. Later(p)'
    BY <1>3, <1>6, <1>7, <1>9 DEF Later, Writing
  <2> QED
    BY <1>1, <1>3, <1>4, <1>6, <1>7, <1>8, <1>9, <2>1
    DEF CarrierOf, AbsentCarried, PresentCarried, RemovePending, Sending, Target
<1>10. CASE ev.path # p
  <2>1. Held(p)' <=> Held(p)
    BY <1>3, <1>5, <1>10 DEF debouncer, DeleteWrite, Held, TypeInv, TypeOK
  <2>2. Later(p)' <=> Later(p)
    BY <1>1, <1>4, <1>7, <1>8, <1>10, <2>1 DEF Later, Writing
  <2> QED
    BY <1>1, <1>4, <1>7, <1>8, <1>10, <2>2
    DEF CarrierOf, AbsentCarried, PresentCarried, RemovePending, Sending, Target
<1> QED
  BY <1>9, <1>10

\* What happens to the debouncer alone.
DebouncerFrame == UNCHANGED <<local, server, events, channel, proc>>

LEMMA CarrierFrame ==
  ASSUME CarrierInv, NEW p \in Notes, DebouncerFrame, Later(p) => Later(p)',
         Watching(p) /\ watch.ev.op = "REMOVE" <=> (Watching(p) /\ watch.ev.op = "REMOVE")'
  PROVE  CarrierOf(p)'
<1>1. CarrierOf(p)
  BY DEF CarrierInv
<1> QED
  BY <1>1
  DEF CarrierOf, AbsentCarried, PresentCarried, RemovePending, Sending, Target,
      DebouncerFrame

LEMMA CarrierPutWrite ==
  ASSUME TypeInv, AloneInv, CarrierInv, PutWriteCheck \/ PutWriteReset \/ PutWriteNote,
         NEW p \in Notes
  PROVE  CarrierOf(p)'
<1> DEFINE q == watch.ev.path
<1>1. /\ DebouncerFrame /\ UNCHANGED putting /\ watch.pc \in {"check", "reset", "note"}
      /\ watch.ev.op = "WRITE" /\ q \in Notes
  BY EditedEvents
  DEF PutWriteCheck, PutWriteReset, PutWriteNote, WatchFrame, DebouncerFrame, AloneInv
<1>2. watch \in WatchState /\ timers \in [Notes -> Number \cup {0}] /\ 0 \notin Number
  BY DEF TypeInv, TypeOK, Number
<1>3. watch'.pc # "idle" => watch'.ev = watch.ev
  <2>1. CASE PutWriteCheck
    BY <1>2, <2>1 DEF PutWriteCheck, WatchState
  <2>2. CASE PutWriteReset
    BY <1>2, <2>2 DEF PutWriteReset, WatchState
  <2>3. CASE PutWriteNote
    BY <2>3 DEF PutWriteNote, WatchLoop, WatchDo
  <2> QED
    BY <2>1, <2>2, <2>3
<1>4. ASSUME Writing(p) PROVE Writing(p)' \/ Held(p)'
  <2>1. p = q
    BY <1>4 DEF Writing, Watching
  <2>2. CASE PutWriteCheck
    <3>1. watch'.pc \in {"note", "reset"} /\ watch'.ev = watch.ev
      BY <1>2, <2>2 DEF PutWriteCheck, WatchState
    <3>2. watch'.pc = "note" => timers'[q] # 0
      BY <1>1, <1>2, <2>2 DEF PutWriteCheck, WatchState
    <3> QED
      BY <2>1, <3>1, <3>2 DEF Writing, Watching
  <2>3. CASE PutWriteReset
    <3>1. UNCHANGED timers /\ watch.pc = "reset"
      BY <2>3 DEF PutWriteReset
    <3>2. UNCHANGED watch \/ (watch' = [watch EXCEPT !.pc = "note"] /\ timers[q] # 0)
      BY <2>3 DEF PutWriteReset
    <3>3. watch'.ev = watch.ev /\ (watch'.pc = "reset" \/ (watch'.pc = "note" /\ timers[q] # 0))
      BY <1>2, <3>1, <3>2 DEF WatchState
    <3> QED
      BY <2>1, <3>1, <3>3 DEF Writing, Watching
  <2>4. CASE PutWriteNote
    BY <1>4, <2>1, <2>4 DEF PutWriteNote, Writing, Held
  <2> QED
    BY <2>2, <2>3, <2>4
<1>5. Held(p) => Held(p)'
  <2>1. timers[p] # 0 => timers'[p] = timers[p]
    BY <1>1, <1>2 DEF PutWriteCheck, PutWriteReset, PutWriteNote
  <2> QED
    BY <2>1 DEF PutWriteCheck, PutWriteReset, PutWriteNote, Held
<1>6. Later(p) => Later(p)'
  BY <1>1, <1>4, <1>5 DEF Later, DebouncerFrame
<1>7. ~(Watching(p) /\ watch.ev.op = "REMOVE") /\ ~(Watching(p) /\ watch.ev.op = "REMOVE")'
  BY <1>1, <1>3 DEF Watching
<1> QED
  BY <1>1, <1>6, <1>7, CarrierFrame

LEMMA CarrierWatchPut ==
  ASSUME TypeInv, AloneInv, CarrierInv, WatchPut, NEW p \in Notes
  PROVE  CarrierOf(p)'
<1> DEFINE e == watch.ev
<1>1. /\ watch.pc = "put" /\ watch'.pc = "idle" /\ channel' = Append(channel, e)
      /\ UNCHANGED <<local, server, events, timers, files, putting, proc>>
  BY DEF WatchPut, WatchLoop, WatchDo, WatchFrame, debouncer
<1>2. e \in Event /\ channel \in Seq(Event)
  BY <1>1, EditedEvents, EditedQueue DEF AloneInv
<1> HIDE DEF e
<1>3. /\ In(channel', p) <=> In(channel, p) \/ e.path = p
      /\ RemoveIn(channel', p) <=> RemoveIn(channel, p) \/ (e.path = p /\ e.op = "REMOVE")
      /\ RemovedLast(channel', p)
           <=> IF e.path = p THEN e.op = "REMOVE" ELSE RemovedLast(channel, p)
  BY <1>1, <1>2, InAppend
<1>4. Watching(p) <=> e.path = p
  BY <1>1 DEF Watching, e
<1>5. ~Watching(p)' /\ (Held(p)' <=> Held(p))
  BY <1>1 DEF Watching, Held
<1>6. Later(p) => Later(p)' \/ e.path = p
  BY <1>1, <1>4, <1>5 DEF Later, Writing
<1>7. In(events, p) => Later(p)'
  BY <1>1 DEF Later
<1>8. CarrierOf(p)
  BY DEF CarrierInv
<1> QED
  BY <1>1, <1>3, <1>4, <1>5, <1>6, <1>7, <1>8
  DEF CarrierOf, AbsentCarried, PresentCarried, RemovePending, Sending, Target, e

LEMMA CarrierCallback ==
  ASSUME TypeInv, CarrierInv, NEW t \in Timer,
         Fire(t) \/ CallbackCheck(t) \/ CallbackTake(t), NEW p \in Notes
  PROVE  CarrierOf(p)'
<1>1. DebouncerFrame /\ UNCHANGED watch
  BY DEF Fire, CallbackCheck, CallbackTake, CallbackFrame, DebouncerFrame
<1>2. PICK q \in Notes : t[1] = q
  BY DEF Timer
<1>3. putting \in [Notes -> Nat] /\ timers \in [Notes -> Number \cup {0}]
  BY DEF TypeInv, TypeOK
<1>4. Later(p) => Later(p)'
  <2>1. CASE UNCHANGED <<timers, files, putting>>
    BY <1>1, <2>1 DEF Later, Writing, Watching, Held, DebouncerFrame
  <2>2. CASE CallbackTake(t) /\ p = q
    <3>1. putting'[p] > 0
      BY <1>2, <1>3, <2>2 DEF CallbackTake
    <3> QED
      BY <3>1 DEF Later
  <2>3. CASE CallbackTake(t) /\ p # q
    <3>1. timers'[p] = timers[p] /\ putting'[p] = putting[p] /\ (p \in files <=> p \in files')
      BY <1>2, <1>3, <2>3 DEF CallbackTake
    <3> QED
      BY <1>1, <3>1 DEF Later, Writing, Watching, Held, DebouncerFrame
  <2> QED
    BY <2>1, <2>2, <2>3 DEF Fire, CallbackCheck
<1> QED
  BY <1>1, <1>4, CarrierFrame DEF Watching

LEMMA CarrierCallbackPut ==
  ASSUME TypeInv, AloneInv, CarrierInv, NEW q \in Notes, CallbackPut(q), NEW p \in Notes
  PROVE  CarrierOf(p)'
<1> DEFINE e == FsEvent("WRITE", q)
<1>1. /\ channel' = Append(channel, e) /\ putting' = [putting EXCEPT ![q] = @ - 1]
      /\ UNCHANGED <<local, server, events, timers, files, watch, proc>>
  BY DEF CallbackPut, CallbackFrame
<1>2. e \in Event /\ channel \in Seq(Event) /\ e.path = q /\ e.op = "WRITE"
  BY EditedEvents, EditedQueue DEF AloneInv
<1> HIDE DEF e
<1>3. /\ In(channel', p) <=> In(channel, p) \/ p = q
      /\ RemoveIn(channel', p) <=> RemoveIn(channel, p)
      /\ RemovedLast(channel', p) <=> p # q /\ RemovedLast(channel, p)
  BY <1>1, <1>2, InAppend
<1>4. Later(p) => Later(p)' \/ p = q
  BY <1>1 DEF Later, Writing, Watching, Held, TypeInv, TypeOK
<1>5. CarrierOf(p) /\ (Watching(p)' <=> Watching(p))
  BY <1>1 DEF CarrierInv, Watching
<1> QED
  BY <1>1, <1>3, <1>4, <1>5
  DEF CarrierOf, AbsentCarried, PresentCarried, RemovePending, Sending, Target

LEMMA CarrierProcEvent ==
  ASSUME TypeInv, AloneInv, CarrierInv, ProcEvent, NEW p \in Notes
  PROVE  CarrierOf(p)'
<1> DEFINE e == Head(channel)
<1>1. /\ proc.pc = "idle" /\ channel # <<>> /\ channel' = Tail(channel)
      /\ UNCHANGED <<local, server, events, timers, files, putting, watch>>
  BY DEF ProcEvent, ProcFrame, debouncer
<1>2. e \in Edited /\ channel \in Seq(Event)
  BY <1>1, EditedQueue DEF AloneInv
<1>3. e.path \in Notes /\ e.op \in {"CREATE", "WRITE", "REMOVE"}
  BY <1>2, EditedEvents
<1>4. /\ In(channel, p) <=> e.path = p \/ In(channel', p)
      /\ RemoveIn(channel, p) <=> RemoveIn(channel', p) \/ (e.path = p /\ e.op = "REMOVE")
      /\ RemovedLast(channel, p)
           <=> \/ RemovedLast(channel', p)
               \/ e.path = p /\ e.op = "REMOVE" /\ ~In(channel', p)
  BY <1>1, <1>2, InTail
<1>5. \/ /\ e.op # "REMOVE" /\ local[e.path] # Absent
         /\ Send("upload", e.path, NoNote, local[e.path])
      \/ e.op = "REMOVE" /\ Send("remove", e.path, NoNote, Empty)
      \/ e.op # "REMOVE" /\ local[e.path] = Absent /\ ProcLoop
  BY <1>3 DEF ProcEvent, AloneInv
<1> HIDE DEF e
<1>6. /\ Sending(p)' => p = e.path
      /\ p = e.path => (Sending(p)' <=> e.op = "REMOVE" \/ local[p] # Absent)
      /\ Sending(p)' => Target' = IF e.op = "REMOVE" THEN Absent ELSE local[p]
  BY <1>5 DEF Send, ProcLoop, Sending, Target
<1>7. CarrierOf(p) /\ ~Sending(p)
  BY <1>1 DEF CarrierInv, Sending
<1>8. (Later(p)' <=> Later(p)) /\ (Watching(p)' <=> Watching(p))
  BY <1>1 DEF Later, Writing, Watching, Held
<1> QED
  BY <1>1, <1>4, <1>6, <1>7, <1>8
  DEF CarrierOf, AbsentCarried, PresentCarried, RemovePending

\* What the server makes of a request, as a body for its note.
LEMMA ServeTarget ==
  ASSUME TypeInv, AloneInv, ProcSend
  PROVE  /\ proc.pc = "send" /\ proc'.pc = "idle" /\ proc.req.path \in Notes
         /\ server' = [server EXCEPT ![proc.req.path] = Target]
         /\ UNCHANGED <<local, events, timers, files, putting, watch, channel, edits>>
<1>1. proc.pc = "send" /\ proc.req \in Request /\ proc.req.op \in {"upload", "remove"}
  BY DEF ProcSend, TypeInv, Busy, AloneInv
<1>2. proc.req.path \in Notes
  BY <1>1 DEF Request
<1>3. server' = [server EXCEPT ![proc.req.path] = Target]
  BY <1>1 DEF ProcSend, Serve, Target
<1> QED
  BY <1>1, <1>2, <1>3 DEF ProcSend, ProcLoop, ProcFrame, debouncer

LEMMA CarrierProcSend ==
  ASSUME TypeInv, AloneInv, CarrierInv, ProcSend, NEW p \in Notes
  PROVE  CarrierOf(p)'
<1>1. /\ proc.pc = "send" /\ proc'.pc = "idle" /\ proc.req.path \in Notes
      /\ server' = [server EXCEPT ![proc.req.path] = Target]
      /\ UNCHANGED <<local, events, timers, files, putting, watch, channel>>
  BY ServeTarget
<1>2. server'[p] = IF Sending(p) THEN Target ELSE server[p]
  BY <1>1 DEF Sending, TypeInv, TypeOK
<1>3. CarrierOf(p) /\ ~Sending(p)'
  BY <1>1 DEF CarrierInv, Sending
<1>4. (Later(p)' <=> Later(p)) /\ (Watching(p)' <=> Watching(p))
  BY <1>1 DEF Later, Writing, Watching, Held
<1> QED
  BY <1>1, <1>2, <1>3, <1>4
  DEF CarrierOf, AbsentCarried, PresentCarried, RemovePending

LEMMA CarrierUser ==
  ASSUME Alone, TypeInv, AloneInv, CarrierInv, NEW q \in Notes, UserEdits(q), NEW p \in Notes
  PROVE  CarrierOf(p)'
<1>1. PICK op \in {"CREATE", "WRITE", "REMOVE"} :
        /\ events' = Append(events, FsEvent(op, q))
        /\ \/ op = "REMOVE" /\ local' = [local EXCEPT ![q] = Absent]
           \/ op # "REMOVE" /\ local' = [local EXCEPT ![q] = edits + 1]
  BY DEF UserEdits
<1>2. /\ FsEvent(op, q) \in Event /\ FsEvent(op, q).path = q /\ FsEvent(op, q).op = op
      /\ events \in Seq(Event)
  BY EditedEvents, EditedQueue DEF AloneInv
<1>3. /\ In(events', p) <=> In(events, p) \/ p = q
      /\ RemoveIn(events', p) <=> RemoveIn(events, p) \/ (p = q /\ op = "REMOVE")
      /\ RemovedLast(events', p) <=> IF p = q THEN op = "REMOVE" ELSE RemovedLast(events, p)
  BY <1>1, <1>2, InAppend
<1>4. local \in [Notes -> Body] /\ edits + 1 # Absent
  BY AbsentAssumption DEF TypeInv, TypeOK
<1>5. local'[p] = IF p # q THEN local[p] ELSE IF op = "REMOVE" THEN Absent ELSE edits + 1
  BY <1>1, <1>4
<1>6. UNCHANGED <<server, timers, files, putting, watch, proc, channel>>
  BY DEF UserEdits, debouncer
<1>7. CarrierOf(p) /\ (Watching(p)' <=> Watching(p)) /\ (Sending(p)' <=> Sending(p))
  BY <1>6 DEF CarrierInv, Watching, Sending
<1>8. Later(p)' <=> Later(p) \/ p = q
  BY <1>3, <1>6 DEF Later, Writing, Watching, Held
<1> QED
  BY <1>3, <1>4, <1>5, <1>6, <1>7, <1>8
  DEF CarrierOf, AbsentCarried, PresentCarried, RemovePending, Target

LEMMA CarrierStep ==
  Alone /\ TypeInv /\ AloneInv /\ CarrierInv /\ [Next]_vars => CarrierInv'
<1> SUFFICES ASSUME Alone, TypeInv, AloneInv, CarrierInv, [Next]_vars, NEW p \in Notes
             PROVE  CarrierOf(p)'
  BY DEF CarrierInv
<1>1. CASE Watcher
  BY <1>1, CarrierWatchEvent, CarrierPutWrite, CarrierWatchPut DEF Watcher
<1>2. CASE Processor
  BY <1>2, CarrierProcEvent, CarrierProcSend DEF Processor
<1>3. CASE User
  BY <1>3, UserAlone, CarrierUser
<1>4. CASE \E t \in Timer : Fire(t) \/ Callback(t)
  BY <1>4, CarrierCallback DEF Callback
<1>5. CASE \E q \in Notes : CallbackPut(q)
  BY <1>5, CarrierCallbackPut
<1>6. CASE MapFault \/ UNCHANGED vars
  <2>1. DebouncerFrame /\ UNCHANGED <<debouncer, watch>>
    BY <1>6 DEF MapFault, WatchFrame, DebouncerFrame, vars
  <2> QED
    BY <2>1, CarrierFrame DEF Later, Writing, Watching, Held, debouncer, DebouncerFrame
<1> QED
  BY <1>1, <1>2, <1>3, <1>4, <1>5, <1>6, OthersIdle DEF Next

LEMMA CarrierInvariant == Alone => (Spec => [](TypeInv /\ AloneInv /\ CarrierInv))
<1> SUFFICES ASSUME Alone PROVE Spec => [](TypeInv /\ AloneInv /\ CarrierInv)
  OBVIOUS
<1>1. TypeInv /\ AloneInv /\ [Next]_vars => AloneInv'
  BY AloneStep
<1>2. TypeInv /\ AloneInv /\ CarrierInv /\ [Next]_vars => CarrierInv'
  BY CarrierStep
<1> QED
  BY <1>1, <1>2, AloneInit, CarrierInit, TypeInvariant, PTL DEF Spec

\* A note whose contents the server does not have is still on its way to it: no
\* edit falls between the goroutines, whatever the debouncer's callbacks meet.
THEOREM EditsAlwaysHaveCarrier == ASSUME Alone PROVE Spec => []EditsHaveCarrier
<1>1. CarrierInv => EditsHaveCarrier
  BY CarriedWhere
  DEF CarrierInv, CarrierOf, AbsentCarried, PresentCarried, RemovePending, Later, Writing,
      EditsHaveCarrier, RemoveIn, In
<1> QED
  BY <1>1, CarrierInvariant, PTL

-----------------------------------------------------------------------------
(* The client implements Mirror.                                            *)

Dirty == {p \in Notes : Carried(p)}

LEMMA AbstractVars == Abstract!vars = <<local, server, Dirty, InFlight, edits>>
  BY DEF Abstract!vars, Dirty

LEMMA MirrorInit == Init => Abstract!Init
<1> SUFFICES ASSUME Init PROVE Abstract!Init
  OBVIOUS
<1>1. local \in [Notes -> {0, Absent}] /\ server = local /\ edits = 0
  BY DEF Init
<1>2. InFlight = <<>>
  BY DEF Init, InFlight
<1>3. {p \in Notes : Carried(p)} = {}
  BY DEF Init, Carried, Held
<1> QED
  BY <1>1, <1>2, <1>3 DEF Abstract!Init, Abstract!NoRequest

\* The request on its way, of a user who is alone.
LEMMA InFlightIs ==
  ASSUME TypeInv, AloneInv
  PROVE  /\ proc.pc = "idle" <=> InFlight = <<>>
         /\ proc.pc = "send" => InFlight = <<proc.req.path, Target>>
         /\ \A p \in Notes : InFlight # <<>> /\ InFlight[1] = p => Sending(p)
<1>1. proc.pc \in {"idle", "send"}
  BY DEF TypeInv, TypeOK, ProcState
<1>2. proc.pc = "idle" => InFlight = <<>>
  BY DEF InFlight
<1>3. proc.pc = "send" => InFlight = <<proc.req.path, Target>>
  BY DEF InFlight, Target
<1> QED
  BY <1>1, <1>2, <1>3 DEF Sending

\* A step that changes neither notes nor request, and what is carried of one note
\* at the most, is no step of Mirror's, or Again, or Settle.
LEMMA MirrorOne ==
  ASSUME TypeInv, AloneInv, UNCHANGED <<local, server, edits, InFlight>>, NEW q \in Notes,
         \A p \in Notes : p # q => (Carried(p)' <=> Carried(p)),
         Sending(q) => Carried(q)', Carried(q)' \/ local'[q] = server'[q]
  PROVE  [Abstract!Next]_(Abstract!vars)
<1>1. CASE Carried(q)' <=> Carried(q)
  <2>1. Dirty' = Dirty
    BY <1>1 DEF Dirty
  <2> QED
    BY <2>1, AbstractVars DEF Dirty, Abstract!vars
<1>2. CASE Carried(q)' /\ ~Carried(q)
  <2>1. Dirty' = Dirty \cup {q}
    BY <1>2 DEF Dirty
  <2>2. Abstract!Again(q)
    BY <2>1 DEF Abstract!Again, Dirty
  <2> QED
    BY <2>2 DEF Abstract!Next
<1>3. CASE ~Carried(q)' /\ Carried(q)
  <2>1. Dirty' = Dirty \ {q}
    BY <1>3 DEF Dirty
  <2>2. local[q] = server[q] /\ (InFlight = <<>> \/ InFlight[1] # q)
    BY <1>3, InFlightIs
  <2>3. Abstract!Settle(q)
    BY <2>1, <2>2 DEF Abstract!Settle, Abstract!NoRequest, Dirty
  <2> QED
    BY <2>3 DEF Abstract!Next
<1> QED
  BY <1>1, <1>2, <1>3

LEMMA MirrorWatch ==
  ASSUME TypeInv, AloneInv, EditsHaveCarrier', Watcher
  PROVE  [Abstract!Next]_(Abstract!vars)
<1>1. UNCHANGED <<local, server, proc, putting, edits, InFlight>>
  BY DEF Watcher, WatchEvent, DeleteWrite, debouncer, PutWriteCheck, PutWriteReset,
         PutWriteNote, WatchPut, WatchFrame, InFlight
<1>2. ASSUME NEW q \in Notes, \A p \in Notes : p # q => (Carried(p)' <=> Carried(p))
      PROVE  [Abstract!Next]_(Abstract!vars)
  <2>1. Sending(q) => Carried(q)'
    BY <1>1 DEF Sending, Carried
  <2>2. Carried(q)' \/ local'[q] = server'[q]
    BY DEF EditsHaveCarrier
  <2> QED
    BY <1>1, <1>2, <2>1, <2>2, MirrorOne
<1>3. CASE WatchEvent
  <2> DEFINE q == Head(events).path
  <2>1. /\ watch.pc = "idle" /\ events # <<>> /\ events' = Tail(events) /\ UNCHANGED channel
        /\ Head(events) \in Edited /\ events \in Seq(Event)
    BY <1>3, EditedQueue DEF WatchEvent, AloneInv
  <2>2. q \in Notes /\ Created(Head(events)) = Head(events)
    BY <2>1, EditedEvents
  <2>3. watch'.pc # "idle" => watch'.ev.path = q
    BY <1>3, <2>2 DEF WatchEvent, WatchLoop, WatchDo
  <2>4. UNCHANGED debouncer \/ DeleteWrite(q)
    BY <1>3 DEF WatchEvent
  <2>5. ASSUME NEW p \in Notes, p # q PROVE Carried(p)' <=> Carried(p)
    <3>1. In(events', p) <=> In(events, p)
      BY <2>1, <2>5, InTail
    <3>2. Held(p)' <=> Held(p)
      BY <2>2, <2>4, <2>5 DEF debouncer, DeleteWrite, Held, TypeInv, TypeOK
    <3> QED
      BY <1>1, <2>1, <2>3, <2>5, <3>1, <3>2 DEF Carried, In
  <2> QED
    BY <1>2, <2>2, <2>5
<1>4. CASE PutWriteCheck \/ PutWriteReset \/ PutWriteNote
  <2> DEFINE q == watch.ev.path
  <2>1. /\ q \in Notes /\ UNCHANGED <<events, channel>> /\ watch \in WatchState
        /\ timers \in [Notes -> Number \cup {0}] /\ watch.pc # "idle"
    BY <1>4, EditedEvents
    DEF PutWriteCheck, PutWriteReset, PutWriteNote, WatchFrame, AloneInv, TypeInv, TypeOK
  <2>2. watch'.pc # "idle" => watch'.ev = watch.ev
    <3>1. CASE PutWriteCheck
      BY <2>1, <3>1 DEF PutWriteCheck, WatchState
    <3>2. CASE PutWriteReset
      BY <2>1, <3>2 DEF PutWriteReset, WatchState
    <3>3. CASE PutWriteNote
      BY <3>3 DEF PutWriteNote, WatchLoop, WatchDo
    <3> QED
      BY <1>4, <3>1, <3>2, <3>3
  <2>3. ASSUME NEW p \in Notes, p # q PROVE Carried(p)' <=> Carried(p)
    <3>1. timers'[p] = timers[p] /\ (p \in files' <=> p \in files)
      BY <1>4, <2>1, <2>3 DEF PutWriteCheck, PutWriteReset, PutWriteNote
    <3> QED
      BY <1>1, <2>1, <2>2, <2>3, <3>1 DEF Carried, Held
  <2> QED
    BY <1>2, <2>1, <2>3
<1>5. CASE WatchPut
  <2> DEFINE q == watch.ev.path
  <2>1. /\ watch.pc = "put" /\ watch'.pc = "idle" /\ channel' = Append(channel, watch.ev)
        /\ UNCHANGED <<events, timers, files>>
    BY <1>5 DEF WatchPut, WatchLoop, WatchDo, WatchFrame, debouncer
  <2>2. q \in Notes /\ watch.ev \in Event /\ channel \in Seq(Event)
    BY <2>1, EditedEvents, EditedQueue DEF AloneInv
  <2>3. ASSUME NEW p \in Notes, p # q PROVE Carried(p)' <=> Carried(p)
    <3>1. In(channel', p) <=> In(channel, p)
      BY <2>1, <2>2, <2>3, InAppend
    <3> QED
      BY <1>1, <2>1, <2>3, <3>1 DEF Carried, Held, In
  <2> QED
    BY <1>2, <2>2, <2>3
<1> QED
  BY <1>3, <1>4, <1>5 DEF Watcher

LEMMA MirrorCallback ==
  ASSUME TypeInv, AloneInv, EditsHaveCarrier', NEW q \in Notes,
         CallbackPut(q) \/ \E t \in Timer : t[1] = q /\ (Fire(t) \/ Callback(t))
  PROVE  [Abstract!Next]_(Abstract!vars)
<1>1. UNCHANGED <<local, server, events, watch, proc, edits, InFlight>>
  BY DEF CallbackPut, Fire, Callback, CallbackCheck, CallbackTake, CallbackFrame, InFlight
<1>2. ASSUME NEW p \in Notes, p # q PROVE Carried(p)' <=> Carried(p)
  <2>1. In(channel', p) <=> In(channel, p)
    <3>1. CASE CallbackPut(q)
      <4>1. /\ FsEvent("WRITE", q) \in Event /\ FsEvent("WRITE", q).path = q
            /\ channel \in Seq(Event)
        BY EditedEvents, EditedQueue DEF AloneInv
      <4> QED
        BY <1>2, <3>1, <4>1, InAppend DEF CallbackPut
    <3>2. CASE UNCHANGED channel
      BY <3>2
    <3> QED
      BY <3>1, <3>2 DEF Fire, Callback, CallbackCheck, CallbackTake
  <2>2. timers'[p] = timers[p] /\ (p \in files' <=> p \in files) /\ putting'[p] = putting[p]
    BY <1>2
    DEF CallbackPut, Fire, Callback, CallbackCheck, CallbackTake, TypeInv, TypeOK
  <2> QED
    BY <1>1, <2>1, <2>2 DEF Carried, Held, In
<1>3. Sending(q) => Carried(q)'
  BY <1>1 DEF Sending, Carried
<1>4. Carried(q)' \/ local'[q] = server'[q]
  BY DEF EditsHaveCarrier
<1> QED
  BY <1>1, <1>2, <1>3, <1>4, MirrorOne

LEMMA MirrorProcEvent ==
  ASSUME TypeInv, AloneInv, EditsHaveCarrier', ProcEvent
  PROVE  [Abstract!Next]_(Abstract!vars)
<1> DEFINE e == Head(channel)
<1>1. /\ proc.pc = "idle" /\ channel # <<>> /\ channel' = Tail(channel)
      /\ UNCHANGED <<local, server, events, timers, files, putting, watch, edits>>
      /\ e \in Edited /\ channel \in Seq(Event)
  BY EditedQueue DEF ProcEvent, ProcFrame, debouncer, AloneInv
<1>2. PICK q \in Notes : q = e.path /\ e.op \in {"CREATE", "WRITE", "REMOVE"}
  BY <1>1, EditedEvents
<1>3. \/ Send("upload", q, NoNote, local[q])
      \/ Send("remove", q, NoNote, Empty)
      \/ ProcLoop
  BY <1>2 DEF ProcEvent
<1>4. ASSUME NEW p \in Notes, p # q PROVE Carried(p)' <=> Carried(p)
  <2>1. In(channel', p) <=> In(channel, p)
    BY <1>1, <1>2, <1>4, InTail
  <2>2. ~Sending(p)' /\ ~Sending(p)
    BY <1>1, <1>3, <1>4 DEF Send, ProcLoop, Sending
  <2> QED
    BY <1>1, <2>1, <2>2 DEF Carried, Held, In, Sending
<1>5. Carried(q) /\ InFlight = <<>>
  <2>1. In(channel, q)
    BY <1>1, <1>2, InTail
  <2> QED
    BY <1>1, <2>1, InFlightIs DEF Carried, In
<1> HIDE DEF e
<1>6. CASE ProcLoop
  <2>1. UNCHANGED InFlight /\ ~Sending(q)
    BY <1>1, <1>5, <1>6 DEF ProcLoop, InFlight, Sending
  <2>2. Carried(q)' \/ local'[q] = server'[q]
    BY <1>2 DEF EditsHaveCarrier
  <2> QED
    BY <1>1, <1>2, <1>4, <2>1, <2>2, MirrorOne
<1>7. CASE \E body \in {local[q], Empty} : \E op \in {"upload", "remove"} :
             Send(op, q, NoNote, body) /\ (op = "upload" => body = local[q])
  <2>1. PICK body \in {local[q], Absent} : InFlight' = <<q, body>>
    BY <1>7 DEF Send, InFlight
  <2>2. Carried(q)'
    BY <1>7 DEF Send, Carried
  <2>3. Dirty' = Dirty
    BY <1>4, <1>5, <2>2 DEF Dirty
  <2>4. Abstract!Pick(q)
    BY <1>1, <1>2, <1>5, <2>1, <2>3 DEF Abstract!Pick, Abstract!NoRequest, Dirty
  <2> QED
    BY <1>2, <2>4 DEF Abstract!Next
<1> QED
  BY <1>3, <1>6, <1>7

LEMMA MirrorProcSend ==
  ASSUME TypeInv, AloneInv, EditsHaveCarrier', ProcSend
  PROVE  [Abstract!Next]_(Abstract!vars)
<1>1. PICK q \in Notes :
        /\ proc.pc = "send" /\ proc'.pc = "idle" /\ q = proc.req.path
        /\ server' = [server EXCEPT ![q] = Target]
        /\ UNCHANGED <<local, events, timers, files, putting, watch, channel, edits>>
  BY ServeTarget
<1>2. InFlight = <<q, Target>> /\ InFlight # <<>>
  BY <1>1, InFlightIs
<1>3. InFlight' = <<>>
  BY <1>1 DEF InFlight
<1>4. ASSUME NEW p \in Notes, p # q PROVE Carried(p)' <=> Carried(p)
  BY <1>1, <1>4 DEF Carried, Held
<1>5. Carried(q)
  BY <1>1 DEF Carried
<1>6. Dirty' = Dirty \/ (local[q] = Target /\ Dirty' = Dirty \ {q})
  <2>1. CASE Carried(q)'
    BY <1>4, <1>5, <2>1 DEF Dirty
  <2>2. CASE ~Carried(q)'
    <3>1. local'[q] = server'[q]
      BY <1>1, <2>2 DEF EditsHaveCarrier
    <3>2. local[q] = Target
      BY <1>1, <3>1 DEF TypeInv, TypeOK
    <3> QED
      BY <1>4, <2>2, <3>2 DEF Dirty
  <2> QED
    BY <2>1, <2>2
<1>7. Abstract!Land
  BY <1>1, <1>2, <1>3, <1>6 DEF Abstract!Land, Abstract!NoRequest, Dirty
<1> QED
  BY <1>7 DEF Abstract!Next

LEMMA MirrorUser ==
  ASSUME TypeInv, AloneInv, NEW q \in Notes, UserEdits(q)
  PROVE  [Abstract!Next]_(Abstract!vars)
<1>1. PICK op \in {"CREATE", "WRITE", "REMOVE"} : events' = Append(events, FsEvent(op, q))
  BY DEF UserEdits
<1>2. /\ FsEvent(op, q) \in Event /\ FsEvent(op, q).path = q /\ events \in Seq(Event)
  BY EditedEvents, EditedQueue DEF AloneInv
<1>3. \A p \in Notes : In(events', p) <=> In(events, p) \/ p = q
  BY <1>1, <1>2, InAppend
<1>4. \A p \in Notes : Carried(p)' <=> Carried(p) \/ p = q
  BY <1>3 DEF UserEdits, debouncer, Carried, Held, In
<1>5. Dirty' = Dirty \cup {q}
  BY <1>4 DEF Dirty
<1>6. UNCHANGED <<server, InFlight>> /\ edits' = edits + 1
  BY DEF UserEdits, InFlight
<1>7. \E body \in {edits + 1, Absent} : local' = [local EXCEPT ![q] = body]
  BY DEF UserEdits
<1>8. Abstract!Edit(q)
  BY <1>5, <1>6, <1>7 DEF Abstract!Edit, Dirty
<1> QED
  BY <1>8 DEF Abstract!Next

LEMMA MirrorStep ==
  ASSUME Alone, TypeInv, AloneInv, EditsHaveCarrier', [Next]_vars
  PROVE  [Abstract!Next]_(Abstract!vars)
<1>1. CASE Watcher
  BY <1>1, MirrorWatch
<1>2. CASE Processor
  BY <1>2, MirrorProcEvent, MirrorProcSend DEF Processor
<1>3. CASE User
  BY <1>3, UserAlone, MirrorUser
<1>4. CASE \E t \in Timer : Fire(t) \/ Callback(t)
  <2>1. PICK t \in Timer : Fire(t) \/ Callback(t)
    BY <1>4
  <2>2. t[1] \in Notes
    BY DEF Timer
  <2> QED
    BY <2>1, <2>2, MirrorCallback
<1>5. CASE \E p \in Notes : CallbackPut(p)
  BY <1>5, MirrorCallback
<1>6. CASE MapFault \/ UNCHANGED vars
  <2>1. UNCHANGED <<local, server, events, watch, debouncer, channel, proc, edits>>
    BY <1>6 DEF MapFault, WatchFrame, vars
  <2>2. UNCHANGED InFlight
    BY <2>1 DEF InFlight
  <2>3. \A p \in Notes : Carried(p)' <=> Carried(p)
    BY <2>1 DEF Carried, Held, debouncer
  <2>4. Dirty' = Dirty
    BY <2>3 DEF Dirty
  <2> QED
    BY <2>1, <2>2, <2>4 DEF Abstract!vars, Dirty
<1> QED
  BY <1>1, <1>2, <1>3, <1>4, <1>5, <1>6, OthersIdle DEF Next

\* With all its goroutines, such a client does what Mirror promises.
THEOREM ClientImplementsMirror == ASSUME Alone PROVE Spec => MirrorsEdits
<1>1. Init => Abstract!Init
  BY MirrorInit
<1>2. TypeInv /\ AloneInv /\ EditsHaveCarrier' /\ [Next]_vars
        => [Abstract!Next]_(Abstract!vars)
  BY MirrorStep
<1> QED
  BY <1>1, <1>2, CarrierInvariant, EditsAlwaysHaveCarrier, PTL
  DEF Spec, MirrorsEdits, Abstract!Spec

\* What is proved of Mirror holds of the client: its server never goes back to what
\* an earlier edit wrote.
Proved == INSTANCE MirrorProofs WITH dirty <- {p \in Notes : Carried(p)}, flight <- InFlight

THEOREM NoEarlierEditReturns == ASSUME Alone PROVE Spec => Abstract!NeverBack
<1> DEFINE Kept == \A p \in Notes : server[p] \in Nat /\ server'[p] \in Nat
                                    => server'[p] >= server[p]
<1>1. Abstract!Init => Proved!Init
  BY DEF Abstract!Init, Proved!Init, Abstract!NoRequest, Proved!NoRequest
<1>2. [Abstract!Next]_(Abstract!vars) => [Proved!Next]_(Proved!vars)
  BY DEF Abstract!Next, Abstract!vars, Abstract!Edit, Abstract!Pick, Abstract!Land,
         Abstract!Settle, Abstract!Again, Abstract!NoRequest,
         Proved!Next, Proved!vars, Proved!Edit, Proved!Pick, Proved!Land,
         Proved!Settle, Proved!Again, Proved!NoRequest
<1>3. [Kept]_(Proved!vars) => [Kept]_(Abstract!vars)
  BY DEF Abstract!vars, Proved!vars
<1>4. Proved!Spec => Proved!NeverBack
  BY Proved!ServerNeverGoesBack, AbsentAssumption
<1> QED
  BY <1>1, <1>2, <1>3, <1>4, ClientImplementsMirror, PTL
  DEF MirrorsEdits, Abstract!Spec, Proved!Spec, Abstract!NeverBack, Proved!NeverBack
=============================================================================

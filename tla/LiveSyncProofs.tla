--------------------------- MODULE LiveSyncProofs ---------------------------
(* Proofs about LiveSync, for any clients, users, directories and bounds.   *)
EXTENDS LiveSync, FileTreeProofs, FiniteSetTheorems

-----------------------------------------------------------------------------
(* Sequences of events.                                                     *)

LEMMA SetToSeqType ==
  ASSUME NEW S, IsFiniteSet(S)
  PROVE  SetToSeq(S) \in Seq(S)
  <1>1. Cardinality(S) \in Nat /\ ExistsBijection(1..Cardinality(S), S)
    BY FS_CardinalityType
  <1>2. \E f \in [1..Cardinality(S) -> S] : IsInjective(f)
    BY <1>1 DEF ExistsBijection, Bijection, Injection
  <1>3. SetToSeq(S) \in [1..Cardinality(S) -> S]
    BY <1>2 DEF SetToSeq
  <1> QED BY <1>1, <1>3

LEMMA AppendType ==
  ASSUME NEW S, NEW s \in Seq(S), NEW e \in S
  PROVE  Append(s, e) \in Seq(S)
  OBVIOUS

LEMMA SingleType ==
  ASSUME NEW S, NEW e \in S
  PROVE  <<e>> \in Seq(S) /\ <<>> \in Seq(S)
  OBVIOUS

LEMMA ConcatType ==
  ASSUME NEW S, NEW s \in Seq(S), NEW t \in Seq(S)
  PROVE  s \o t \in Seq(S)
  OBVIOUS

LEMMA HeadTailType ==
  ASSUME NEW S, NEW s \in Seq(S), s # <<>>
  PROVE  Head(s) \in S /\ Tail(s) \in Seq(S)
  OBVIOUS

LEMMA EveryInSeq ==
  ASSUME NEW S, NEW T, NEW s \in Seq(S), S \subseteq T
  PROVE  s \in Seq(T)
  OBVIOUS

\* The events of a step are about the paths it says they are about.
LEMMA SeeEvents ==
  ASSUME NEW c, NEW op, NEW p, NEW S, FsEvent(op, p) \in S
  PROVE  See(c, op, p) \in Seq(S)
  BY SingleType DEF See

LEMMA SeeAllEvents ==
  ASSUME NEW c, NEW op, NEW S \in SUBSET Paths
  PROVE  SeeAll(c, op, S) \in Seq({FsEvent(op, p) : p \in S})
  <1> DEFINE T    == {p \in S : Seen(c, p)}
             seen == SetToSeq(T)
  <1>1. IsFiniteSet(T)
    BY FiniteAssumption, FS_Subset
  <1>2. seen \in Seq(T)
    BY <1>1, SetToSeqType
  <1>3. SeeAll(c, op, S) = [i \in DOMAIN seen |-> FsEvent(op, seen[i])]
    BY DEF SeeAll
  <1>4. T \subseteq S
    OBVIOUS
  <1> HIDE DEF T, seen
  <1>5. DOMAIN seen = 1..Len(seen) /\ Len(seen) \in Nat
        /\ \A i \in 1..Len(seen) : seen[i] \in S
    BY <1>2, <1>4
  <1> DEFINE E == {FsEvent(op, p) : p \in S}
             m(i) == FsEvent(op, seen[i])
  <1>6. \A i \in 1..Len(seen) : m(i) \in E
    BY <1>5
  <1> HIDE DEF E, m
  <1>7. [i \in 1..Len(seen) |-> m(i)] \in Seq(E)
    BY <1>5, <1>6
  <1> QED BY <1>3, <1>5, <1>7 DEF E, m

LEMMA SeeRenameEvents ==
  ASSUME NEW c, NEW p, NEW q
  PROVE  SeeRename(c, p, q) \in
           Seq({FsEvent("RENAME", p), FsEvent("CREATE", q), Renamed("CREATE", p, q)})
  <1> DEFINE E == {FsEvent("RENAME", p), FsEvent("CREATE", q), Renamed("CREATE", p, q)}
  <1>1. See(c, "RENAME", p) \in Seq(E) /\ See(c, "CREATE", q) \in Seq(E)
    BY SeeEvents
  <1>2. <<FsEvent("RENAME", p), Renamed("CREATE", p, q)>> \in Seq(E)
    OBVIOUS
  <1> HIDE DEF E
  <1>3. SeeRename(c, p, q) \in Seq(E)
    BY <1>1, <1>2, ConcatType DEF SeeRename
  <1> QED BY <1>3 DEF E

LEMMA SeeRemovalEvents ==
  ASSUME NEW c, NEW p \in Paths
  PROVE  SeeRemoval(c, p) \in Seq({FsEvent("REMOVE", r) : r \in Subtree(p)})
  <1> DEFINE E == {FsEvent("REMOVE", r) : r \in Subtree(p)}
             S == DOMAIN local[c] \cap Under(p)
  <1>1. SeeAll(c, "REMOVE", S) \in Seq(E)
    <2>1. SeeAll(c, "REMOVE", S) \in Seq({FsEvent("REMOVE", r) : r \in S})
      BY SeeAllEvents DEF Under
    <2>2. {FsEvent("REMOVE", r) : r \in S} \subseteq E
      BY DEF Subtree
    <2> QED BY <2>1, <2>2, EveryInSeq
  <1>2. See(c, "REMOVE", p) \in Seq(E)
    BY SeeEvents DEF Subtree
  <1>3. SeeRemoval(c, p) = SeeAll(c, "REMOVE", S) \o
                           (IF p \in DOMAIN local[c] THEN See(c, "REMOVE", p) ELSE <<>>)
    BY DEF SeeRemoval
  <1> HIDE DEF E, S
  <1>4. (IF p \in DOMAIN local[c] THEN See(c, "REMOVE", p) ELSE <<>>) \in Seq(E)
    BY <1>2
  <1>5. SeeRemoval(c, p) \in Seq(E)
    BY <1>1, <1>3, <1>4, ConcatType
  <1> QED BY <1>5 DEF E

-----------------------------------------------------------------------------
(* Renaming.                                                                *)

\* Of two paths above a third, one is above the other.
LEMMA AboveChain ==
  ASSUME NEW r \in Paths, NEW p \in Above(r), NEW q \in Above(r)
  PROVE  p = q \/ p \in Above(q) \/ q \in Above(p)
  <1>1. /\ r \in Seq(STRING) /\ p \in Seq(STRING) /\ q \in Seq(STRING)
        /\ p \in Paths /\ q \in Paths
    BY ComponentsAssumption DEF Above
  <1>2. /\ Len(p) <= Len(r) /\ Len(q) <= Len(r)
        /\ SubSeq(p, 1, Len(p)) = SubSeq(r, 1, Len(p))
        /\ SubSeq(q, 1, Len(q)) = SubSeq(r, 1, Len(q))
    BY DEF Above, IsStrictPrefix, IsPrefix
  <1>3. /\ \A i \in 1..Len(p) : p[i] = r[i]
        /\ \A i \in 1..Len(q) : q[i] = r[i]
    BY <1>1, <1>2
  <1>4. CASE Len(p) <= Len(q)
    <2>1. SubSeq(p, 1, Len(p)) = SubSeq(q, 1, Len(p))
      BY <1>1, <1>2, <1>3, <1>4
    <2> QED BY <1>1, <1>4, <2>1 DEF Above, IsStrictPrefix, IsPrefix
  <1>5. CASE Len(q) <= Len(p)
    <2>1. SubSeq(q, 1, Len(q)) = SubSeq(p, 1, Len(q))
      BY <1>1, <1>2, <1>3, <1>5
    <2> QED BY <1>1, <1>5, <2>1 DEF Above, IsStrictPrefix, IsPrefix
  <1> QED BY <1>1, <1>4, <1>5

LEMMA RebaseOfTop ==
  ASSUME NEW p \in Paths, NEW q \in Paths
  PROVE  Rebase(p, p, q) = q
  <1>1. p \in Seq(STRING) /\ q \in Seq(STRING)
    BY ComponentsAssumption
  <1>2. SubSeq(p, Len(p) + 1, Len(p)) = <<>>
    BY <1>1
  <1> QED BY <1>1, <1>2 DEF Rebase

\* A directory stays one when something is renamed in it: what has moved is in
\* the directory that was there to take it, or in the one that has moved.
LEMMA MoveRooted ==
  ASSUME NEW t, IsRooted(t), NEW p \in Paths, NEW q \in Paths, CanMove(t, p, q),
         NEW now \in Nat
  PROVE  /\ IsRooted(Move(t, p, q, now))
         /\ DOMAIN t \ Subtree(p) \subseteq DOMAIN Move(t, p, q, now)
         /\ q \in DOMAIN Move(t, p, q, now)
  <1> DEFINE kept  == {r \in DOMAIN t \ Subtree(p) : r # q}
             moved == {r \in Subtree(q) : Rebase(r, q, p) \in DOMAIN t \cap Subtree(p)}
             u     == [r \in kept \cup moved |->
                         IF r \in moved THEN t[Rebase(r, q, p)] ELSE t[r]]
             v     == Move(t, p, q, now)
  <1>1. IsTree(t) /\ p \in DOMAIN t /\ Above(q) \subseteq DOMAIN t /\ q \notin Subtree(p)
    BY DEF IsRooted, CanMove
  <1>2. q \in moved
    <2>1. Rebase(q, q, p) = p
      BY RebaseOfTop
    <2> QED BY <1>1, <2>1 DEF Subtree
  <1>3. moved \subseteq Subtree(q) /\ \A r \in moved : Rebase(r, q, p) \in DOMAIN t
    OBVIOUS
  <1>4. v = Stamp(t, u, now)
    BY DEF Move
  <1> HIDE DEF moved
  <1>5. IsTree(u) /\ DOMAIN u = kept \cup moved
    <2>1. moved \subseteq Paths
      BY <1>3 DEF Subtree, Under
    <2> QED BY <1>1, <1>3, <2>1 DEF IsTree
  <1> HIDE DEF u, v
  <1>6. IsTree(v) /\ DOMAIN v = kept \cup moved
    BY <1>4, <1>5, StampTree
  <1>7. ASSUME NEW r \in kept \cup moved, NEW a \in Above(r) PROVE a \in kept \cup moved
    <2>1. a \in Paths /\ r \in Paths
      BY <1>5 DEF IsTree, Above
    <2>2. CASE r \in kept
      <3>1. a \in DOMAIN t
        BY <2>2 DEF IsRooted
      <3>2. a \notin Subtree(p)
        BY <2>1, <2>2, SubtreeClosed
      <3> QED BY <1>2, <3>1, <3>2
    <2>3. CASE r \in moved
      <3>1. r = q \/ q \in Above(r)
        BY <1>3, <2>1, <2>3, SubtreeAbove
      <3>2. a = q \/ a \in Above(q)
        <4>1. CASE r = q
          BY <4>1
        <4>2. CASE q \in Above(r)
          <5>1. q \in Dirs /\ a \in Dirs
            BY <2>1, <4>2, PathsAssumption
          <5>2. q \notin Above(a)
            BY <2>1, <5>1, FlatAssumption DEF Above, Under
          <5> QED BY <2>1, <4>2, <5>2, AboveChain
        <4> QED BY <3>1, <4>1, <4>2
      <3>3. CASE a \in Above(q)
        <4>1. a \in DOMAIN t
          BY <1>1, <3>3
        <4>2. a \notin Subtree(p)
          BY <1>1, <2>1, <3>3, SubtreeClosed
        <4> QED BY <1>2, <4>1, <4>2
      <3> QED BY <1>2, <3>2, <3>3
    <2> QED BY <2>2, <2>3
  <1>8. IsRooted(v)
    BY <1>6, <1>7 DEF IsRooted
  <1> HIDE DEF kept
  <1>9. DOMAIN t \ Subtree(p) \subseteq kept \cup moved
    BY <1>2 DEF kept
  <1> QED BY <1>2, <1>6, <1>8, <1>9 DEF v

-----------------------------------------------------------------------------
(* Events, requests and messages.                                           *)

LEMMA EventTypes ==
  /\ \A p \in Paths : \A op \in {"CREATE", "RENAME", "REMOVE"} : FsEvent(op, p) \in Event
  /\ \A p \in Files : FsEvent("WRITE", p) \in Event
  /\ \A p \in Paths : \A q \in Paths :
       SameKind(p, q) => Renamed("CREATE", p, q) \in Event
  BY DEF Event, FsEvent, Renamed, ToSameKind

LEMMA EventFields ==
  ASSUME NEW ev \in Event
  PROVE  /\ ev.path \in Paths /\ ev.old \in Paths \cup {NoPath}
         /\ ev.op = "WRITE" => ev.path \in Files
         /\ ev.op = "NECO_RENAME" => ev.old \in Paths /\ SameKind(ev.old, ev.path)
  BY DEF Event, Files, ToSameKind

LEMMA CreatedType ==
  ASSUME NEW ev \in Event, ev.op = "CREATE"
  PROVE  /\ Created(ev) \in Event /\ Created(ev).path = ev.path
         /\ ev.old = NoPath => Created(ev).op = "CREATE"
  <1>1. CASE ev.old = NoPath
    BY <1>1 DEF Created
  <1>2. CASE ev.old # NoPath
    <2>1. ev \in ToSameKind([op : {"CREATE", "NECO_RENAME"}, path : Paths, old : Paths])
      BY <1>2 DEF Event
    <2>2. [ev EXCEPT !.op = "NECO_RENAME"] \in
            ToSameKind([op : {"CREATE", "NECO_RENAME"}, path : Paths, old : Paths])
      BY <2>1 DEF ToSameKind
    <2> QED BY <1>2, <2>1, <2>2 DEF Created, Event, ToSameKind
  <1> QED BY <1>1, <1>2

LEMMA RequestFields ==
  ASSUME NEW req \in Request
  PROVE  /\ req.path \in Paths /\ req.body \in Body
         /\ \/ req.op \in {"upload", "mkdir", "remove"} /\ req.old = NoPath
            \/ req.op = "rename" /\ req.old \in Paths /\ SameKind(req.old, req.path)
         /\ req.op = "upload" => req.path \in Files
  <1>0. CASE req \in [op : {"upload"}, path : Files, old : {NoPath}, body : Body]
    BY <1>0 DEF Files
  <1>1. CASE req \in [op : {"mkdir", "remove"}, path : Paths, old : {NoPath}, body : {NoBody}]
    BY <1>1 DEF Body
  <1>2. CASE req \in ToSameKind([op : {"rename"}, path : Paths, old : Paths,
                                 body : {NoBody}])
    BY <1>2 DEF Body, ToSameKind
  <1> QED BY <1>0, <1>1, <1>2 DEF Request

LEMMA MessageFields ==
  ASSUME NEW m \in Message
  PROVE  /\ m.client \in Clients /\ m.path \in Paths
         /\ \/ m.event \in {"CREATE", "REMOVE"} /\ m.old = NoPath
            \/ m.event = "NECO_RENAME" /\ m.old \in Paths /\ SameKind(m.old, m.path)
  <1>1. CASE m \in [client : Clients, event : {"CREATE", "REMOVE"}, path : Paths,
                    old : {NoPath}]
    BY <1>1
  <1>2. CASE m \in ToSameKind([client : Clients, event : {"NECO_RENAME"},
                               path : Paths, old : Paths])
    BY <1>2 DEF ToSameKind
  <1> QED BY <1>1, <1>2 DEF Message

LEMMA ConsumerTypes ==
  /\ NotConsuming \in ConsumerState
  /\ \A d \in Dirs : Consuming("add", d, NoPath) \in ConsumerState
  /\ \A p \in Files : Consuming("fetch", p, p) \in ConsumerState
  BY DEF NotConsuming, Consuming, ConsumerState

LEMMA ConsumerFields ==
  ASSUME NEW k \in ConsumerState
  PROVE  /\ k.file \in Files \cup {NoPath}
         /\ k.pc = "add" => k.from \in Dirs
         /\ k.pc = "fetch" => k.from \in Files
         /\ k.pc # "fetch" => k.file = NoPath
         /\ k.pc \in {"idle", "add", "fetch"}
  BY DEF ConsumerState

LEMMA ConsumerWithFile ==
  ASSUME NEW k \in ConsumerState, NEW p \in Files \cup {NoPath},
         k.file = NoPath => p = NoPath
  PROVE  [k EXCEPT !.file = p] \in ConsumerState
  BY DEF ConsumerState

\* What the server is asked, unless it refuses, leaves it a sync directory.
LEMMA ServeRooted ==
  ASSUME NEW t, IsRooted(t), NEW req \in Request, ~Refused(t, req)
  PROVE  IsRooted(Serve(t, req))
  <1>0. req.path \in Paths /\ req.body \in Body
    BY RequestFields
  <1>1. CASE req.op = "upload"
    BY <1>0, <1>1, CreateFileRooted DEF Serve, Body
  <1>2. CASE req.op = "mkdir"
    BY <1>0, <1>2, MkDirRooted DEF Serve
  <1>3. CASE req.op = "rename"
    <2>1. req.old \in Paths
      BY <1>3, RequestFields
    <2>2. CanMove(t, req.old, req.path)
      BY <1>3 DEF Refused
    <2>3. Serve(t, req) = Move(t, req.old, req.path, 0)
      BY <1>3 DEF Serve
    <2> QED BY <1>0, <2>1, <2>2, <2>3, MoveRooted
  <1>4. CASE req.op = "remove"
    BY <1>0, <1>4, RmRooted DEF Serve
  <1> QED BY <1>1, <1>2, <1>3, <1>4, RequestFields

LEMMA AnnouncementType ==
  ASSUME NEW c \in Clients, proc[c].req \in Request
  PROVE  Announcement(c) \in Message
  <1> DEFINE req == proc[c].req
  <1>1. req.path \in Paths
    BY RequestFields
  <1>2. CASE req.op \in {"upload", "mkdir"}
    <2>1. req.old = NoPath
      BY <1>2, RequestFields
    <2> QED BY <1>1, <1>2, <2>1 DEF Announcement, Message
  <1>3. CASE req.op = "remove"
    <2>1. req.old = NoPath
      BY <1>3, RequestFields
    <2> QED BY <1>1, <1>3, <2>1 DEF Announcement, Message
  <1>4. CASE req.op = "rename"
    <2>1. req.old \in Paths /\ SameKind(req.old, req.path)
      BY <1>4, RequestFields
    <2> QED BY <1>1, <1>4, <2>1 DEF Announcement, Message, ToSameKind
  <1> QED BY <1>2, <1>3, <1>4, RequestFields

-----------------------------------------------------------------------------
(* Type correctness, part by part.                                          *)

LocalType   == DOMAIN local = Clients /\ \A c \in Clients : IsRooted(local[c])
WatchedType == /\ watched \in [Clients -> SUBSET (Dirs \cup {Root})]
               /\ \A c \in Clients : watched[c] \subseteq DOMAIN local[c] \cup {Root}

LEMMA RaiseType ==
  ASSUME TypeOK, NEW c \in Clients, NEW es \in Seq(Event), Raise(c, es)
  PROVE  events' \in [Clients -> Seq(Event)]
  BY ConcatType DEF TypeOK, Raise

LEMMA PutType ==
  ASSUME TypeOK, NEW c \in Clients, NEW ev \in Event, Put(c, ev)
  PROVE  channel' \in [Clients -> Seq(Event)]
  BY AppendType DEF TypeOK, Put

\* A client's directory becomes t.
LEMMA LocalBecomes ==
  ASSUME TypeOK, NEW c \in Clients, NEW t, IsRooted(t),
         local' = [local EXCEPT ![c] = t]
  PROVE  LocalType'
  BY DEF TypeOK, LocalType

LEMMA WatchedKept ==
  ASSUME TypeOK, NEW c \in Clients, NEW t,
         local' = [local EXCEPT ![c] = t], DOMAIN local[c] \subseteq DOMAIN t,
         watched' = watched
  PROVE  WatchedType'
  BY DEF TypeOK, WatchedType

LEMMA WatchedEnds ==
  ASSUME TypeOK, NEW c \in Clients, NEW t, NEW p,
         local' = [local EXCEPT ![c] = t],
         DOMAIN local[c] \ Subtree(p) \subseteq DOMAIN t,
         EndWatch(c, p)
  PROVE  WatchedType'
  BY DEF TypeOK, WatchedType, EndWatch

LEMMA AddWatchType ==
  ASSUME TypeOK, NEW c \in Clients, NEW d \in Dirs, AddWatch(c, d), local' = local
  PROVE  WatchedType'
  BY DEF TypeOK, WatchedType, AddWatch

LEMMA PastType ==
  ASSUME past \in Past, NEW lost \in SUBSET Paths
  PROVE  /\ [past EXCEPT !.lost = @ \cup lost] \in Past
         /\ \A moved \in SUBSET Paths : [past EXCEPT !.moved = @ \cup moved] \in Past
  BY DEF Past

LEMMA HappenedType ==
  ASSUME past \in Past, NEW c \in Clients, NEW touched, NEW unseen \in SUBSET Paths
  PROVE  Happened(c, touched, unseen) \in Past
  BY DEF Past, Happened

LEMMA SubtreeInPaths ==
  ASSUME NEW p \in Paths
  PROVE  Subtree(p) \subseteq Paths /\ Around(p) \subseteq Paths
  BY DEF Subtree, Under, Around, Above

LEMMA RefusedType ==
  ASSUME past \in Past, NEW p \in Paths, NEW q \in Paths, RefusedAfterFailure(p, q)
  PROVE  past' \in Past
  <1>1. Subtree(p) \cup Subtree(q) \in SUBSET Paths
    BY SubtreeInPaths
  <1>2. [past EXCEPT !.lost = @ \cup (Subtree(p) \cup Subtree(q))] \in Past
    BY <1>1, PastType
  <1>3. \A S : S \cup Subtree(p) \cup Subtree(q) = S \cup (Subtree(p) \cup Subtree(q))
    OBVIOUS
  <1> QED BY <1>2, <1>3 DEF RefusedAfterFailure

LEMMA InitType == Init => TypeOK
  <1> SUFFICES ASSUME Init PROVE TypeOK
    OBVIOUS
  <1>1. IsRooted(server) /\ DOMAIN server \subseteq Paths
    <2>1. PICK S \in SUBSET Paths :
            /\ \A p \in S : Above(p) \subseteq S
            /\ server = [p \in S |-> [body |-> IF p \in Dirs THEN NoBody ELSE 0,
                                      mtime |-> 0]]
      BY DEF Init
    <2> QED BY <2>1 DEF IsRooted, IsTree, Entry, Body
  <1>2. LocalType /\ \A c \in Clients : local[c] = server
    BY <1>1 DEF Init, LocalType
  <1>3. WatchedType
    BY <1>2 DEF Init, WatchedType
  <1>4. proc \in [Clients -> ProcState] /\ consumer \in [Clients -> ConsumerState]
    BY ConsumerTypes DEF Init, ProcState, Idle
  <1>5. past \in Past
    BY DEF Init, Past
  <1>6. /\ events \in [Clients -> Seq(Event)] /\ channel \in [Clients -> Seq(Event)]
        /\ queue \in [Clients -> Seq(Message)]
        /\ held \in [Clients -> SUBSET Files] /\ ignored \in [Clients -> SUBSET Paths]
        /\ edits \in Nat /\ faults \in Nat /\ filling \in [Clients -> Files \cup {NoPath}]
    BY DEF Init
  <1> QED BY <1>1, <1>2, <1>3, <1>4, <1>5, <1>6 DEF TypeOK, LocalType, WatchedType

LEMMA WatchType ==
  ASSUME TypeOK, NEW c \in Clients, Watch(c)
  PROVE  TypeOK'
  <1> DEFINE ev == Head(events[c])
  <1>1. ev \in Event /\ Tail(events[c]) \in Seq(Event)
    BY HeadTailType DEF Watch, TypeOK
  <1>2. events' \in [Clients -> Seq(Event)]
    BY <1>1 DEF Watch, TypeOK
  <1>3. held' \in [Clients -> SUBSET Files] /\ channel' \in [Clients -> Seq(Event)]
    <2>1. CASE UNCHANGED <<held, channel>>
      BY <2>1 DEF TypeOK
    <2>2. CASE ev.op = "WRITE" /\ held' = [held EXCEPT ![c] = @ \cup {ev.path}]
               /\ UNCHANGED channel
      <3>1. ev.path \in Files
        BY <1>1, <2>2, EventFields
      <3> HIDE DEF ev
      <3> QED BY <2>2, <3>1 DEF TypeOK
    <2>3. CASE ev.op = "CREATE" /\ Put(c, Created(ev)) /\ UNCHANGED held
      <3>1. Created(ev) \in Event
        BY <1>1, <2>3, CreatedType
      <3> QED BY <2>3, <3>1, PutType DEF TypeOK
    <2>4. CASE held' = [held EXCEPT ![c] = @ \ {ev.path}] /\ UNCHANGED channel
      BY <2>4 DEF TypeOK
    <2>5. CASE held' = [held EXCEPT ![c] = @ \ {ev.path}] /\ Put(c, ev)
      <3>1. channel' \in [Clients -> Seq(Event)]
        BY <1>1, <2>5, PutType
      <3> HIDE DEF ev
      <3> QED BY <2>5, <3>1 DEF TypeOK
    <2> QED BY <2>1, <2>2, <2>3, <2>4, <2>5 DEF Watch
  <1>4. UNCHANGED <<server, filling, local, watched, proc, queue, consumer, ignored,
                    edits, faults, past>>
    BY DEF Watch
  <1> HIDE DEF ev
  <1> QED BY <1>2, <1>3, <1>4 DEF TypeOK

LEMMA ReleaseType ==
  ASSUME TypeOK, NEW c \in Clients, Release(c)
  PROVE  TypeOK'
  <1>1. PICK p \in held[c] : /\ held' = [held EXCEPT ![c] = @ \ {p}]
                             /\ Put(c, FsEvent("WRITE", p))
    BY DEF Release
  <1>2. p \in Files
    BY DEF TypeOK
  <1>3. channel' \in [Clients -> Seq(Event)]
    BY <1>1, <1>2, EventTypes, PutType
  <1>4. held' \in [Clients -> SUBSET Files]
    BY <1>1 DEF TypeOK
  <1> QED BY <1>3, <1>4 DEF Release, TypeOK

LEMMA SendType ==
  ASSUME TypeOK, NEW c \in Clients, NEW op, NEW p \in Paths, NEW old, NEW body,
         Send(c, op, p, old, body),
         [op |-> op, path |-> p, old |-> old, body |-> body] \in Request
  PROVE  proc' \in [Clients -> ProcState]
  BY DEF TypeOK, Send, ProcState

LEMMA ProcessType ==
  ASSUME TypeOK, NEW c \in Clients, Process(c)
  PROVE  TypeOK'
  <1>1. PICK ev \in Event : ev = Head(channel[c])
    BY HeadTailType DEF Process, TypeOK
  <1>2. channel' \in [Clients -> Seq(Event)]
    BY HeadTailType DEF Process, TypeOK
  <1>3. UNCHANGED <<server, filling, local, events, held, queue, consumer, ignored,
                    edits, faults, past>>
    BY DEF Process
  <1>4. ev.path \in Paths
    BY EventFields
  <1>5. proc' \in [Clients -> ProcState] /\ WatchedType'
    <2>0. watched' = watched => WatchedType'
      BY <1>3 DEF TypeOK, WatchedType
    <2>1. CASE /\ ev.path \in Files \cap DOMAIN local[c]
               /\ Send(c, "upload", ev.path, NoPath, local[c][ev.path].body)
               /\ UNCHANGED watched
      <3>1. local[c][ev.path].body \in Body
        BY <2>1 DEF TypeOK, IsRooted, IsTree, Entry
      <3>2. [op |-> "upload", path |-> ev.path, old |-> NoPath,
             body |-> local[c][ev.path].body] \in Request
        BY <2>1, <3>1 DEF Request
      <3> QED BY <1>4, <2>0, <2>1, <3>2, SendType
    <2>2. CASE UNCHANGED <<proc, watched>>
      BY <2>0, <2>2 DEF TypeOK
    <2>3. CASE /\ ev.path \in Dirs /\ AddNew(c, ev)
               /\ Send(c, "mkdir", ev.path, NoPath, NoBody)
      <3>1. [op |-> "mkdir", path |-> ev.path, old |-> NoPath, body |-> NoBody] \in Request
        BY <1>4 DEF Request, Body
      <3>2. WatchedType'
        BY <1>3, <2>3, AddWatchType DEF AddNew
      <3> QED BY <1>4, <2>3, <3>1, <3>2, SendType
    <2>4. CASE /\ ev.op = "NECO_RENAME"
               /\ IF ev.path \in Dirs THEN AddNew(c, ev) ELSE UNCHANGED watched
               /\ Send(c, "rename", ev.path, ev.old, NoBody)
      <3>1. ev.old \in Paths /\ SameKind(ev.old, ev.path)
        BY <2>4, EventFields
      <3>2. [op |-> "rename", path |-> ev.path, old |-> ev.old, body |-> NoBody] \in Request
        BY <1>4, <3>1 DEF Request, ToSameKind
      <3>3. WatchedType'
        BY <1>3, <2>0, <2>4, AddWatchType DEF AddNew
      <3> QED BY <1>4, <2>4, <3>2, <3>3, SendType
    <2>5. CASE Send(c, "remove", ev.path, NoPath, NoBody) /\ UNCHANGED watched
      <3>1. [op |-> "remove", path |-> ev.path, old |-> NoPath, body |-> NoBody] \in Request
        BY <1>4 DEF Request, Body
      <3> QED BY <1>4, <2>0, <2>5, <3>1, SendType
    <2> QED BY <1>1, <2>1, <2>2, <2>3, <2>4, <2>5 DEF Process
  <1> QED BY <1>2, <1>3, <1>5 DEF TypeOK, WatchedType

\* A note that is open goes with its directory.
LEMMA RebaseOfNote ==
  ASSUME NEW p \in Paths, NEW q \in Paths, SameKind(p, q), NEW r \in Files \cap Subtree(p)
  PROVE  Rebase(r, p, q) \in Files
  <1>1. CASE r = p
    BY <1>1, RebaseOfTop DEF SameKind, Files
  <1>2. CASE r # p
    <2>1. r \in Under(p) /\ p \in Above(r)
      BY <1>2 DEF Subtree, Under, Above
    <2>2. p \in Dirs /\ q \in Dirs
      BY <2>1, PathsAssumption DEF Files, SameKind
    <2> QED BY <2>1, <2>2, NamesAssumption
  <1> QED BY <1>1, <1>2

\* So do the files of uploads.
LEMMA FollowType ==
  ASSUME NEW req \in Request, NEW file \in Files \cup {NoPath}
  PROVE  Follow(file, req) \in Files \cup {NoPath}
  <1>1. req.op = "rename" => req.old \in Paths /\ req.path \in Paths
                             /\ SameKind(req.old, req.path) /\ NoPath \notin Subtree(req.old)
    BY RequestFields, SubtreeInPaths, NoPathAssumption
  <1>2. CASE req.op = "rename" /\ file \in Subtree(req.old)
    <2>1. PICK o \in Paths, q \in Paths : o = req.old /\ q = req.path
      BY <1>1, <1>2
    <2>2. Rebase(file, o, q) \in Files
      BY <1>1, <1>2, <2>1, RebaseOfNote
    <2> QED BY <1>2, <2>1, <2>2 DEF Follow
  <1>3. CASE ~(req.op = "rename" /\ file \in Subtree(req.old))
    BY <1>3 DEF Follow
  <1> QED BY <1>2, <1>3

LEMMA OpenedType ==
  ASSUME TypeOK, NEW c \in Clients, NEW req \in Request
  PROVE  Opened(c, req) \in [Clients -> Files \cup {NoPath}]
  <1>1. \A d \in Clients : Follow(filling[d], req) \in Files \cup {NoPath}
    BY FollowType DEF TypeOK
  <1> QED BY <1>1, RequestFields DEF Opened

LEMMA BusyRequest ==
  ASSUME TypeOK, NEW c \in Clients, proc[c].pc # "idle"
  PROVE  /\ proc[c].req \in Request /\ proc[c].pc \in {"send", "fill", "publish"}
         /\ \A pc \in {"send", "fill", "publish"} :
              [proc EXCEPT ![c].pc = pc] \in [Clients -> ProcState]
         /\ [proc EXCEPT ![c] = Idle] \in [Clients -> ProcState]
  <1>1. proc[c] \in [pc : {"send", "fill", "publish"}, req : Request]
    BY DEF TypeOK, ProcState
  <1>2. Idle \in ProcState
    BY DEF Idle, ProcState
  <1> QED BY <1>1, <1>2 DEF TypeOK, ProcState

LEMMA HandleType ==
  ASSUME TypeOK, NEW c \in Clients, Handle(c)
  PROVE  TypeOK'
  <1>0. proc[c].pc # "idle"
    BY DEF Handle
  <1>1. PICK req \in Request : req = proc[c].req
    BY <1>0, BusyRequest
  <1>2. CASE Refused(server, req)
    <2>1. req.old \in Paths /\ req.path \in Paths
      BY <1>2, RequestFields DEF Refused
    <2>2. /\ proc' = [proc EXCEPT ![c] = Idle] /\ UNCHANGED <<server, filling>>
          /\ RefusedAfterFailure(req.old, req.path)
      BY <1>1, <1>2 DEF Handle
    <2>3. past' \in Past
      BY <2>1, <2>2, RefusedType DEF TypeOK
    <2>4. proc' \in [Clients -> ProcState]
      BY <1>0, <2>2, BusyRequest
    <2> QED BY <2>2, <2>3, <2>4 DEF Handle, TypeOK
  <1>3. CASE ~Refused(server, req)
    <2>1. /\ \E pc \in {"fill", "publish"} : proc' = [proc EXCEPT ![c].pc = pc]
          /\ server' = Serve(server, req) /\ filling' = Opened(c, req) /\ past' = past
      BY <1>1, <1>3 DEF Handle
    <2>2. IsRooted(server')
      BY <1>3, <2>1, ServeRooted DEF TypeOK
    <2>3. proc' \in [Clients -> ProcState]
      <3>1. PICK pc \in {"fill", "publish"} : proc' = [proc EXCEPT ![c].pc = pc]
        BY <2>1
      <3> QED BY <1>0, <3>1 DEF TypeOK, ProcState
    <2>4. filling' \in [Clients -> Files \cup {NoPath}]
      BY <2>1, OpenedType
    <2> QED BY <2>1, <2>2, <2>3, <2>4 DEF Handle, TypeOK
  <1> QED BY <1>2, <1>3

LEMMA FillType ==
  ASSUME TypeOK, NEW c \in Clients, Fill(c)
  PROVE  TypeOK'
  <1>1. proc[c].pc # "idle"
    BY DEF Fill
  <1>2. PICK b \in Body : b = proc[c].req.body
    BY <1>1, BusyRequest, RequestFields
  <1>3. IsRooted(server')
    <2>1. IsRooted(FillFile(server, filling[c], b, 0))
      BY FillFileRooted DEF TypeOK
    <2> QED BY <1>2, <2>1 DEF Fill, TypeOK
  <1>4. proc' \in [Clients -> ProcState]
    BY <1>1, BusyRequest DEF Fill
  <1>5. filling' \in [Clients -> Files \cup {NoPath}]
    BY DEF Fill, TypeOK
  <1> QED BY <1>3, <1>4, <1>5 DEF Fill, TypeOK

LEMMA PublishType ==
  ASSUME TypeOK, NEW c \in Clients, Publish(c)
  PROVE  TypeOK'
  <1>1. proc[c].pc # "idle"
    BY DEF Publish
  <1>2. PICK m \in Message : m = Announcement(c)
    BY <1>1, BusyRequest, AnnouncementType
  <1>3. queue' = [q \in Clients |-> IF q = c THEN queue[q] ELSE Append(queue[q], m)]
    BY <1>2 DEF Publish
  <1>4. queue' \in [Clients -> Seq(Message)]
    BY <1>3, AppendType DEF TypeOK
  <1>5. proc' \in [Clients -> ProcState]
    BY <1>1, BusyRequest DEF Publish
  <1> QED BY <1>4, <1>5 DEF Publish, TypeOK

LEMMA FailType ==
  ASSUME TypeOK, NEW c \in Clients, Fail(c)
  PROVE  TypeOK'
  <1>1. proc[c].pc # "idle"
    BY DEF Fail
  <1>2. PICK lost \in SUBSET Paths : past' = [past EXCEPT !.lost = @ \cup lost]
    <2> DEFINE S == Paths \cap {proc[c].req.path, proc[c].req.old}
    <2>1. UNION {Around(p) : p \in S} \in SUBSET Paths
      BY SubtreeInPaths
    <2>2. past' = [past EXCEPT !.lost = @ \cup UNION {Around(p) : p \in S}]
      BY DEF Fail
    <2> QED BY <2>1, <2>2
  <1>3. past' \in Past
    BY <1>2, PastType DEF TypeOK
  <1>4. proc' \in [Clients -> ProcState]
    BY <1>1, BusyRequest DEF Fail
  <1>5. faults' \in Nat
    BY DEF Fail, TypeOK
  <1> QED BY <1>3, <1>4, <1>5 DEF Fail, TypeOK

LEMMA IgnoredByType ==
  ASSUME NEW m \in Message
  PROVE  IgnoredBy(m) \subseteq Paths
  BY MessageFields DEF IgnoredBy

\* What a step of the consumer or of a user makes of a client.
ClientType == /\ LocalType /\ WatchedType
              /\ events \in [Clients -> Seq(Event)]
              /\ consumer \in [Clients -> ConsumerState]
              /\ past \in Past

LEMMA ConsumeNoteType ==
  ASSUME TypeOK, NEW c \in Clients, NEW p \in Files, ConsumeNote(c, p)
  PROVE  ClientType'
  <1>0. p \in Paths /\ Above(p) \ DOMAIN local[c] \in SUBSET Paths
    BY DEF Files, Above
  <1>1. PICK es \in Seq(Event) : Raise(c, es)
    <2> DEFINE S   == Above(p) \ DOMAIN local[c]
               one == SeeAll(c, "CREATE", S)
               two == See(c, IF p \in DOMAIN local[c] THEN "WRITE" ELSE "CREATE", p)
    <2>1. one \in Seq(Event)
      <3>1. {FsEvent("CREATE", r) : r \in S} \subseteq Event
        BY <1>0, EventTypes
      <3>2. one \in Seq({FsEvent("CREATE", r) : r \in S})
        BY <1>0, SeeAllEvents
      <3> QED BY <3>1, <3>2, EveryInSeq
    <2>2. two \in Seq(Event)
      BY <1>0, EventTypes, SeeEvents
    <2>3. Raise(c, one \o two)
      BY DEF ConsumeNote
    <2> HIDE DEF one, two
    <2> QED BY <2>1, <2>2, <2>3, ConcatType
  <1>2. events' \in [Clients -> Seq(Event)]
    BY <1>1, RaiseType
  <1>3. PICK t : /\ IsRooted(t) /\ DOMAIN local[c] \subseteq DOMAIN t
                 /\ local' = [local EXCEPT ![c] = t]
    <2> DEFINE t == CreateFile(local[c], p, Empty, 0)
    <2>0. IsRooted(local[c]) /\ IsTree(local[c]) /\ Empty \in Body
      BY DEF TypeOK, IsRooted, Body
    <2>1. IsRooted(t) /\ DOMAIN t = DOMAIN local[c] \cup {p} \cup Above(p)
      BY <1>0, <2>0, CreateFileRooted, CreateFileTree
    <2>2. local' = [local EXCEPT ![c] = t]
      BY DEF ConsumeNote
    <2> HIDE DEF t
    <2> QED BY <2>1, <2>2
  <1>4. LocalType' /\ WatchedType'
    BY <1>3, LocalBecomes, WatchedKept DEF ConsumeNote
  <1>5. consumer' \in [Clients -> ConsumerState]
    BY ConsumerTypes DEF ConsumeNote, TypeOK
  <1> QED BY <1>2, <1>4, <1>5 DEF ConsumeNote, TypeOK, ClientType

LEMMA ConsumeDirType ==
  ASSUME TypeOK, NEW c \in Clients, NEW d \in Dirs, ConsumeDir(c, d)
  PROVE  ClientType'
  <1>0. d \in Paths
    BY PathsAssumption
  <1>1. PICK es \in Seq(Event) : Raise(c, es)
    <2> DEFINE es == IF d \in DOMAIN local[c] THEN <<>> ELSE See(c, "CREATE", d)
    <2>1. es \in Seq(Event)
      BY <1>0, EventTypes, SeeEvents
    <2>2. Raise(c, es)
      BY DEF ConsumeDir
    <2> HIDE DEF es
    <2> QED BY <2>1, <2>2
  <1>2. events' \in [Clients -> Seq(Event)]
    BY <1>1, RaiseType
  <1>3. PICK t : /\ IsRooted(t) /\ DOMAIN local[c] \subseteq DOMAIN t
                 /\ local' = [local EXCEPT ![c] = t]
    <2> DEFINE t == MkDir(local[c], d, 0)
    <2>0. IsRooted(local[c]) /\ IsTree(local[c])
      BY DEF TypeOK, IsRooted
    <2>1. IsRooted(t) /\ DOMAIN t = DOMAIN local[c] \cup {d} \cup Above(d)
      BY <1>0, <2>0, MkDirRooted, MkDirTree
    <2>2. local' = [local EXCEPT ![c] = t]
      BY DEF ConsumeDir
    <2> HIDE DEF t
    <2> QED BY <2>1, <2>2
  <1>4. LocalType' /\ WatchedType'
    BY <1>3, LocalBecomes, WatchedKept DEF ConsumeDir
  <1>5. consumer' \in [Clients -> ConsumerState]
    BY ConsumerTypes DEF ConsumeDir, TypeOK
  <1> QED BY <1>2, <1>4, <1>5 DEF ConsumeDir, TypeOK, ClientType

\* A rename, by the consumer or by a user.
LEMMA RenamedTypes ==
  ASSUME TypeOK, NEW c \in Clients, NEW p \in Paths, NEW q \in Paths,
         CanMove(local[c], p, q), SameKind(p, q),
         local' = [local EXCEPT ![c] = Move(@, p, q, 0)],
         Raise(c, SeeRename(c, p, q)), EndWatch(c, p)
  PROVE  LocalType' /\ WatchedType' /\ events' \in [Clients -> Seq(Event)]
  <1>1. SeeRename(c, p, q) \in Seq(Event)
    <2> DEFINE E == {FsEvent("RENAME", p), FsEvent("CREATE", q), Renamed("CREATE", p, q)}
    <2>1. E \subseteq Event
      BY EventTypes
    <2>2. SeeRename(c, p, q) \in Seq(E)
      BY SeeRenameEvents
    <2> QED BY <2>1, <2>2, EveryInSeq
  <1>2. PICK t : /\ IsRooted(t) /\ DOMAIN local[c] \ Subtree(p) \subseteq DOMAIN t
                 /\ local' = [local EXCEPT ![c] = t]
    <2> DEFINE t == Move(local[c], p, q, 0)
    <2>1. IsRooted(t) /\ DOMAIN local[c] \ Subtree(p) \subseteq DOMAIN t
      BY MoveRooted DEF TypeOK
    <2>2. local' = [local EXCEPT ![c] = t]
      OBVIOUS
    <2> HIDE DEF t
    <2> QED BY <2>1, <2>2
  <1> QED BY <1>1, <1>2, RaiseType, LocalBecomes, WatchedEnds

LEMMA ConsumeRenameType ==
  ASSUME TypeOK, NEW c \in Clients, NEW p \in Paths, NEW q \in Paths, ConsumeRename(c, p, q),
         SameKind(p, q)
  PROVE  ClientType'
  <1>1. CASE CanMove(local[c], p, q)
    <2>1. LocalType' /\ WatchedType' /\ events' \in [Clients -> Seq(Event)]
      BY <1>1, RenamedTypes DEF ConsumeRename
    <2>2. consumer' \in [Clients -> ConsumerState]
      BY <1>1, ConsumerTypes DEF ConsumeRename, TypeOK, SameKind
    <2> QED BY <1>1, <2>1, <2>2 DEF ConsumeRename, TypeOK, ClientType
  <1>2. CASE ~CanMove(local[c], p, q)
    BY <1>2, RefusedType DEF ConsumeRename, TypeOK, ClientType, LocalType, WatchedType
  <1> QED BY <1>1, <1>2

\* A removal, by the consumer or by a user.
LEMMA RemovedTypes ==
  ASSUME TypeOK, NEW c \in Clients, NEW p \in Paths,
         local' = [local EXCEPT ![c] = Rm(@, p, 0)],
         Raise(c, SeeRemoval(c, p)), EndWatch(c, p)
  PROVE  LocalType' /\ WatchedType' /\ events' \in [Clients -> Seq(Event)]
  <1>1. SeeRemoval(c, p) \in Seq(Event)
    <2>1. {FsEvent("REMOVE", r) : r \in Subtree(p)} \subseteq Event
      BY EventTypes, SubtreeInPaths
    <2>2. SeeRemoval(c, p) \in Seq({FsEvent("REMOVE", r) : r \in Subtree(p)})
      BY SeeRemovalEvents
    <2> QED BY <2>1, <2>2, EveryInSeq
  <1>2. PICK t : /\ IsRooted(t) /\ DOMAIN local[c] \ Subtree(p) \subseteq DOMAIN t
                 /\ local' = [local EXCEPT ![c] = t]
    <2> DEFINE t == Rm(local[c], p, 0)
    <2>0. IsRooted(local[c]) /\ IsTree(local[c])
      BY DEF TypeOK, IsRooted
    <2>1. IsRooted(t) /\ DOMAIN t = DOMAIN local[c] \ Subtree(p)
      BY <2>0, RmRooted, RmTree
    <2>2. local' = [local EXCEPT ![c] = t]
      OBVIOUS
    <2> HIDE DEF t
    <2> QED BY <2>1, <2>2
  <1> QED BY <1>1, <1>2, RaiseType, LocalBecomes, WatchedEnds

LEMMA ConsumeRemoveType ==
  ASSUME TypeOK, NEW c \in Clients, NEW p \in Paths, ConsumeRemove(c, p)
  PROVE  ClientType'
  <1>1. LocalType' /\ WatchedType' /\ events' \in [Clients -> Seq(Event)]
    BY RemovedTypes DEF ConsumeRemove
  <1> QED BY <1>1 DEF ConsumeRemove, TypeOK, ClientType

LEMMA ConsumeType ==
  ASSUME TypeOK, NEW c \in Clients, Consume(c)
  PROVE  TypeOK'
  <1>1. PICK m \in Message : m = Head(queue[c])
    BY HeadTailType DEF Consume, TypeOK
  <1>2. queue' \in [Clients -> Seq(Message)]
    BY HeadTailType DEF Consume, TypeOK
  <1>3. ignored' \in [Clients -> SUBSET Paths]
    <2>1. ignored' = [ignored EXCEPT ![c] = @ \cup IgnoredBy(m)]
      BY <1>1 DEF Consume
    <2>2. IgnoredBy(m) \subseteq Paths
      BY IgnoredByType
    <2> QED BY <2>1, <2>2 DEF TypeOK
  <1>4. ClientType'
    <2>0. m.path \in Paths
      BY MessageFields
    <2>1. CASE m.path \in Files /\ ConsumeNote(c, m.path)
      BY <2>1, ConsumeNoteType
    <2>2. CASE m.path \in Dirs /\ ConsumeDir(c, m.path)
      BY <2>2, ConsumeDirType
    <2>3. CASE m.event = "NECO_RENAME" /\ ConsumeRename(c, m.old, m.path)
      <3>1. m.old \in Paths /\ SameKind(m.old, m.path)
        BY <2>3, MessageFields
      <3> QED BY <2>0, <2>3, <3>1, ConsumeRenameType
    <2>4. CASE ConsumeRemove(c, m.path)
      BY <2>0, <2>4, ConsumeRemoveType
    <2> QED BY <1>1, <2>1, <2>2, <2>3, <2>4 DEF Consume
  <1>5. UNCHANGED <<server, filling, held, channel, proc, edits, faults>>
    BY DEF Consume
  <1> QED BY <1>2, <1>3, <1>4, <1>5 DEF TypeOK, ClientType, LocalType, WatchedType

LEMMA ConsumeAddType ==
  ASSUME TypeOK, NEW c \in Clients, ConsumeAdd(c)
  PROVE  TypeOK'
  <1>1. PICK d \in Dirs : d = consumer[c].from
    BY ConsumerFields DEF TypeOK, ConsumeAdd
  <1>2. WatchedType'
    BY <1>1, AddWatchType DEF ConsumeAdd
  <1>3. consumer' \in [Clients -> ConsumerState]
    BY ConsumerTypes DEF ConsumeAdd, TypeOK
  <1> QED BY <1>2, <1>3 DEF ConsumeAdd, TypeOK, WatchedType

LEMMA ConsumeCopyType ==
  ASSUME TypeOK, NEW c \in Clients, ConsumeCopy(c)
  PROVE  TypeOK'
  <1> DEFINE from == consumer[c].from
             file == consumer[c].file
             body == IF from \in DOMAIN server THEN server[from].body ELSE ErrorPage
  <1>1. body \in Body
    BY DEF TypeOK, IsRooted, IsTree, Entry, Body
  <1>2. file \in Files \cup {NoPath}
    BY ConsumerFields DEF TypeOK
  <1>3. consumer' \in [Clients -> ConsumerState]
    BY ConsumerTypes DEF ConsumeCopy, TypeOK
  <1>4. LocalType' /\ WatchedType' /\ events' \in [Clients -> Seq(Event)]
    <2>1. CASE file = NoPath
      BY <2>1 DEF ConsumeCopy, TypeOK, LocalType, WatchedType
    <2>2. CASE file # NoPath
      <3>1. /\ local' = [local EXCEPT ![c] = FillFile(@, file, body, 0)]
            /\ Raise(c, See(c, "WRITE", file)) /\ watched' = watched
        BY <2>2 DEF ConsumeCopy
      <3>2. See(c, "WRITE", file) \in Seq(Event)
        BY <1>2, <2>2, EventTypes, SeeEvents
      <3>3. IsRooted(local[c]) /\ IsTree(local[c])
        BY DEF TypeOK, IsRooted
      <3> HIDE DEF body, file
      <3>4. PICK t : /\ IsRooted(t) /\ DOMAIN local[c] \subseteq DOMAIN t
                     /\ local' = [local EXCEPT ![c] = t]
        <4>1. /\ IsRooted(FillFile(local[c], file, body, 0))
              /\ DOMAIN FillFile(local[c], file, body, 0) = DOMAIN local[c]
          BY <1>1, <3>3, FillFileRooted, FillFileTree
        <4> QED BY <3>1, <4>1
      <3> QED BY <3>1, <3>2, <3>4, RaiseType, LocalBecomes, WatchedKept
    <2> QED BY <2>1, <2>2
  <1> QED BY <1>3, <1>4 DEF ConsumeCopy, TypeOK, LocalType, WatchedType

LEMMA ExpireIgnoreType ==
  ASSUME TypeOK, NEW c \in Clients, ExpireIgnore(c)
  PROVE  TypeOK'
  BY DEF ExpireIgnore, TypeOK

\* What a user does to what a user's step leaves alone.
LEMMA UserStepType ==
  ASSUME TypeOK, ClientType', NEW c, NEW op, UserStep(c, op)
  PROVE  TypeOK'
  BY DEF TypeOK, ClientType, LocalType, WatchedType, UserStep

LEMMA UserCreateType ==
  ASSUME TypeOK, NEW c \in Clients, UserCreate(c)
  PROVE  TypeOK'
  <1>1. PICK p \in Files :
          /\ UserStep(c, "create")
          /\ local' = [local EXCEPT ![c] = CreateFile(@, p, edits + 1, 0)]
          /\ Raise(c, See(c, "CREATE", p))
          /\ past' = Happened(c, Around(p), Unseen(c, {p}))
          /\ UNCHANGED <<watched, consumer>>
    BY DEF UserCreate
  <1>2. p \in Paths /\ edits + 1 \in Body /\ IsRooted(local[c]) /\ IsTree(local[c])
    BY DEF Files, TypeOK, Body, IsRooted
  <1>3. PICK t : /\ IsRooted(t) /\ DOMAIN local[c] \subseteq DOMAIN t
                 /\ local' = [local EXCEPT ![c] = t]
    <2>1. /\ IsRooted(CreateFile(local[c], p, edits + 1, 0))
          /\ DOMAIN CreateFile(local[c], p, edits + 1, 0) = DOMAIN local[c] \cup {p} \cup Above(p)
      BY <1>2, CreateFileRooted, CreateFileTree
    <2> QED BY <1>1, <2>1
  <1>4. LocalType' /\ WatchedType'
    BY <1>1, <1>3, LocalBecomes, WatchedKept
  <1>5. events' \in [Clients -> Seq(Event)]
    <2>1. See(c, "CREATE", p) \in Seq(Event)
      BY <1>2, EventTypes, SeeEvents
    <2> QED BY <1>1, <2>1, RaiseType
  <1>6. past' \in Past
    <2>1. Unseen(c, {p}) \in SUBSET Paths
      BY <1>2 DEF Unseen
    <2> QED BY <1>1, <2>1, HappenedType DEF TypeOK
  <1>7. ClientType'
    BY <1>1, <1>4, <1>5, <1>6 DEF ClientType, TypeOK
  <1> QED BY <1>1, <1>7, UserStepType

LEMMA UserWriteType ==
  ASSUME TypeOK, NEW c \in Clients, UserWrite(c)
  PROVE  TypeOK'
  <1>1. PICK p \in Files :
          /\ UserStep(c, "write")
          /\ local' = [local EXCEPT ![c] = FillFile(@, p, edits + 1, 0)]
          /\ Raise(c, See(c, "WRITE", p))
          /\ past' = Happened(c, Around(p), Unseen(c, {p}))
          /\ UNCHANGED <<watched, consumer>>
    BY DEF UserWrite
  <1>2. p \in Paths /\ edits + 1 \in Body /\ IsRooted(local[c]) /\ IsTree(local[c])
    BY DEF Files, TypeOK, Body, IsRooted
  <1>3. PICK t : /\ IsRooted(t) /\ DOMAIN local[c] \subseteq DOMAIN t
                 /\ local' = [local EXCEPT ![c] = t]
    <2>1. /\ IsRooted(FillFile(local[c], p, edits + 1, 0))
          /\ DOMAIN FillFile(local[c], p, edits + 1, 0) = DOMAIN local[c]
      BY <1>2, FillFileRooted, FillFileTree
    <2> QED BY <1>1, <2>1
  <1>4. LocalType' /\ WatchedType'
    BY <1>1, <1>3, LocalBecomes, WatchedKept
  <1>5. events' \in [Clients -> Seq(Event)]
    <2>1. See(c, "WRITE", p) \in Seq(Event)
      BY EventTypes, SeeEvents
    <2> QED BY <1>1, <2>1, RaiseType
  <1>6. past' \in Past
    <2>1. Unseen(c, {p}) \in SUBSET Paths
      BY <1>2 DEF Unseen
    <2> QED BY <1>1, <2>1, HappenedType DEF TypeOK
  <1>7. ClientType'
    BY <1>1, <1>4, <1>5, <1>6 DEF ClientType, TypeOK
  <1> QED BY <1>1, <1>7, UserStepType

LEMMA UserMkDirType ==
  ASSUME TypeOK, NEW c \in Clients, UserMkDir(c)
  PROVE  TypeOK'
  <1>1. PICK d \in Dirs :
          /\ UserStep(c, "mkdir")
          /\ local' = [local EXCEPT ![c] = MkDir(@, d, 0)]
          /\ Raise(c, See(c, "CREATE", d))
          /\ past' = Happened(c, {d}, {})
          /\ UNCHANGED <<watched, consumer>>
    BY DEF UserMkDir
  <1>2. d \in Paths /\ IsRooted(local[c]) /\ IsTree(local[c])
    BY PathsAssumption DEF TypeOK, IsRooted
  <1>3. PICK t : /\ IsRooted(t) /\ DOMAIN local[c] \subseteq DOMAIN t
                 /\ local' = [local EXCEPT ![c] = t]
    <2>1. /\ IsRooted(MkDir(local[c], d, 0))
          /\ DOMAIN MkDir(local[c], d, 0) = DOMAIN local[c] \cup {d} \cup Above(d)
      BY <1>2, MkDirRooted, MkDirTree
    <2> QED BY <1>1, <2>1
  <1>4. LocalType' /\ WatchedType'
    BY <1>1, <1>3, LocalBecomes, WatchedKept
  <1>5. events' \in [Clients -> Seq(Event)]
    <2>1. See(c, "CREATE", d) \in Seq(Event)
      BY <1>2, EventTypes, SeeEvents
    <2> QED BY <1>1, <2>1, RaiseType
  <1>6. past' \in Past
    BY <1>1, HappenedType DEF TypeOK
  <1>7. ClientType'
    BY <1>1, <1>4, <1>5, <1>6 DEF ClientType, TypeOK
  <1> QED BY <1>1, <1>7, UserStepType

LEMMA UserRemoveType ==
  ASSUME TypeOK, NEW c \in Clients, UserRemove(c)
  PROVE  TypeOK'
  <1>1. PICK p \in DOMAIN local[c] :
          /\ UserStep(c, "remove")
          /\ local' = [local EXCEPT ![c] = Rm(@, p, 0)]
          /\ Raise(c, SeeRemoval(c, p))
          /\ EndWatch(c, p)
          /\ consumer' = Unlinked(c, p)
          /\ past' = Happened(c, Around(p), Unseen(c, Subtree(p) \cap DOMAIN local[c]))
    BY DEF UserRemove
  <1>2. p \in Paths
    BY DEF TypeOK, IsRooted, IsTree
  <1>3. LocalType' /\ WatchedType' /\ events' \in [Clients -> Seq(Event)]
    BY <1>1, <1>2, RemovedTypes
  <1>4. consumer' \in [Clients -> ConsumerState]
    <2> DEFINE k == consumer[c]
               file == IF k.file \in Subtree(p) THEN NoPath ELSE k.file
    <2>1. k \in ConsumerState /\ file \in Files \cup {NoPath} /\ (k.file = NoPath => file = NoPath)
      BY ConsumerFields DEF TypeOK
    <2>2. consumer' = [consumer EXCEPT ![c] = [k EXCEPT !.file = file]]
      BY <1>1 DEF Unlinked, TypeOK
    <2> HIDE DEF k, file
    <2>3. [k EXCEPT !.file = file] \in ConsumerState
      BY <2>1, ConsumerWithFile
    <2> QED BY <2>2, <2>3 DEF TypeOK
  <1>5. past' \in Past
    <2>1. Unseen(c, Subtree(p) \cap DOMAIN local[c]) \in SUBSET Paths
      BY <1>2, SubtreeInPaths DEF Unseen
    <2> QED BY <1>1, <2>1, HappenedType DEF TypeOK
  <1>6. ClientType'
    BY <1>3, <1>4, <1>5 DEF ClientType
  <1> QED BY <1>1, <1>6, UserStepType

LEMMA UserRenameType ==
  ASSUME TypeOK, NEW c \in Clients, UserRename(c)
  PROVE  TypeOK'
  <1>1. PICK p \in DOMAIN local[c], q \in Paths :
          /\ UserStep(c, "rename")
          /\ SameKind(p, q) /\ CanMove(local[c], p, q)
          /\ local' = [local EXCEPT ![c] = Move(@, p, q, 0)]
          /\ Raise(c, SeeRename(c, p, q))
          /\ EndWatch(c, p)
          /\ consumer' = [consumer EXCEPT ![c].file =
                            IF @ = q THEN NoPath
                            ELSE IF @ \in Subtree(p) THEN Rebase(@, p, q) ELSE @]
          /\ past' = [Happened(c, Around(p) \cup Around(q), UntoldByRename(c, p, q))
                        EXCEPT !.moved = @ \cup Around(p) \cup Around(q)]
    BY DEF UserRename
  <1>2. p \in Paths
    BY DEF TypeOK, IsRooted, IsTree
  <1>3. LocalType' /\ WatchedType' /\ events' \in [Clients -> Seq(Event)]
    BY <1>1, <1>2, RenamedTypes
  <1>4. consumer' \in [Clients -> ConsumerState]
    <2> DEFINE k == consumer[c]
               file == IF k.file = q THEN NoPath
                       ELSE IF k.file \in Subtree(p) THEN Rebase(k.file, p, q) ELSE k.file
    <2>1. NoPath \notin Subtree(p)
      BY <1>2, SubtreeInPaths, NoPathAssumption
    <2>2. k \in ConsumerState /\ k.file \in Files \cup {NoPath}
      BY ConsumerFields DEF TypeOK
    <2>3. file \in Files \cup {NoPath} /\ (k.file = NoPath => file = NoPath)
      BY <1>1, <1>2, <2>1, <2>2, RebaseOfNote
    <2>4. consumer' = [consumer EXCEPT ![c] = [k EXCEPT !.file = file]]
      BY <1>1 DEF TypeOK
    <2> HIDE DEF k, file
    <2>5. [k EXCEPT !.file = file] \in ConsumerState
      BY <2>2, <2>3, ConsumerWithFile
    <2> QED BY <2>4, <2>5 DEF TypeOK
  <1>5. past' \in Past
    <2> DEFINE h == Happened(c, Around(p) \cup Around(q), UntoldByRename(c, p, q))
    <2>1. UntoldByRename(c, p, q) \in SUBSET Paths
      BY <1>2, SubtreeInPaths DEF UntoldByRename
    <2>2. h \in Past
      BY <2>1, HappenedType DEF TypeOK
    <2>3. past' = [h EXCEPT !.moved = @ \cup Around(p) \cup Around(q)]
      BY <1>1
    <2>4. Around(p) \subseteq Paths /\ Around(q) \subseteq Paths
      BY <1>2, SubtreeInPaths
    <2> HIDE DEF h
    <2> QED BY <2>2, <2>3, <2>4 DEF Past
  <1>6. ClientType'
    BY <1>3, <1>4, <1>5 DEF ClientType
  <1> QED BY <1>1, <1>6, UserStepType

LEMMA NextType == TypeOK /\ [Next]_vars => TypeOK'
  <1> SUFFICES ASSUME TypeOK, [Next]_vars PROVE TypeOK'
    OBVIOUS
  <1>1. ASSUME NEW c \in Clients, Client(c) PROVE TypeOK'
    BY <1>1, WatchType, ReleaseType, ProcessType, ConsumeType, ConsumeAddType,
       ConsumeCopyType, ExpireIgnoreType
    DEF Client
  <1>2. ASSUME NEW c \in Clients, Server(c) \/ Fail(c) PROVE TypeOK'
    BY <1>2, HandleType, FillType, PublishType, FailType DEF Server
  <1>3. ASSUME NEW c \in Clients, User(c) PROVE TypeOK'
    BY <1>3, UserCreateType, UserWriteType, UserMkDirType, UserRemoveType, UserRenameType
    DEF User
  <1>4. CASE UNCHANGED vars
    BY <1>4 DEF vars, client, TypeOK
  <1> QED BY <1>1, <1>2, <1>3, <1>4 DEF Next

\* Directories stay directories, with everything above what exists, whatever is
\* created, removed and renamed in them by users, consumers and handlers; what is
\* watched exists; a rename is always of a note to a note or of a directory to a
\* directory, all the way from fsnotify to the queues of the other clients.
THEOREM LiveTyping == Spec => []TypeOK
  BY InitType, NextType, PTL DEF Spec


-----------------------------------------------------------------------------
(* What a sequence of events, or of messages, says of a path in the end.    *)

\* After the first i items, of which those in Mk make what they name and the others
\* take it away, p is there: D is what was there before them.
Word(s, i, D, p, Mk) ==
  \/ \E j \in 1..i : /\ s[j].path = p /\ s[j] \in Mk
                     /\ \A k \in (j + 1)..i : s[k].path # p
  \/ p \in D /\ \A k \in 1..i : s[k].path # p

\* What is there after the first i of them, after all of them, and after one more.
After(s, i, D, Mk) == {p \in Paths : Word(s, i, D, p, Mk)}
Final(s, D, Mk)    == After(s, Len(s), D, Mk)
Step(e, D, Mk)     == IF e \in Mk THEN D \cup {e.path} ELSE D \ {e.path}

\* The items that name other paths do nothing to p: when a directory is taken away
\* (by an item in Rv) nothing is in it any more, and when something is made it is
\* made in a directory that is there.
Fitting(e, D, p, Rv, Mk) ==
  /\ e \in Rv /\ e.path \in Above(p) => p \notin D
  /\ e \in Mk /\ e.path \in Under(p) => p \in D

Fits(s, D, p, Rv, Mk) ==
  \A i \in 1..Len(s) : Fitting(s[i], After(s, i - 1, D, Mk), p, Rv, Mk)

About(s, p, Mk) == \E i \in DOMAIN s : s[i].path = p /\ s[i] \in Mk

LEMMA WordStep ==
  ASSUME NEW s, NEW i \in Nat \ {0}, NEW D, NEW p \in Paths, NEW Mk
  PROVE  Word(s, i, D, p, Mk) <=> IF s[i].path = p THEN s[i] \in Mk
                                                ELSE Word(s, i - 1, D, p, Mk)
  <1>1. CASE s[i].path = p
    <2>1. ASSUME s[i] \in Mk PROVE Word(s, i, D, p, Mk)
      BY <1>1, <2>1 DEF Word
    <2>2. ASSUME Word(s, i, D, p, Mk) PROVE s[i] \in Mk
      BY <1>1, <2>2 DEF Word
    <2> QED BY <1>1, <2>1, <2>2
  <1>2. CASE s[i].path # p
    <2>1. ASSUME Word(s, i - 1, D, p, Mk) PROVE Word(s, i, D, p, Mk)
      <3>1. CASE p \in D /\ \A k \in 1..(i - 1) : s[k].path # p
        <4>1. \A k \in 1..i : k = i \/ k \in 1..(i - 1)
          OBVIOUS
        <4> QED BY <1>2, <3>1, <4>1 DEF Word
      <3>2. CASE \E j \in 1..(i - 1) : /\ s[j].path = p /\ s[j] \in Mk
                                       /\ \A k \in (j + 1)..(i - 1) : s[k].path # p
        <4>1. PICK j \in 1..(i - 1) : /\ s[j].path = p /\ s[j] \in Mk
                                      /\ \A k \in (j + 1)..(i - 1) : s[k].path # p
          BY <3>2
        <4>2. j \in 1..i /\ \A k \in (j + 1)..i : k = i \/ k \in (j + 1)..(i - 1)
          OBVIOUS
        <4> QED BY <1>2, <4>1, <4>2 DEF Word
      <3> QED BY <2>1, <3>1, <3>2 DEF Word
    <2>2. ASSUME Word(s, i, D, p, Mk) PROVE Word(s, i - 1, D, p, Mk)
      <3>1. CASE p \in D /\ \A k \in 1..i : s[k].path # p
        <4>1. \A k \in 1..(i - 1) : k \in 1..i
          OBVIOUS
        <4> QED BY <3>1, <4>1 DEF Word
      <3>2. CASE \E j \in 1..i : /\ s[j].path = p /\ s[j] \in Mk
                                 /\ \A k \in (j + 1)..i : s[k].path # p
        <4>1. PICK j \in 1..i : /\ s[j].path = p /\ s[j] \in Mk
                                /\ \A k \in (j + 1)..i : s[k].path # p
          BY <3>2
        <4>2. j # i
          BY <1>2, <4>1
        <4>3. j \in 1..(i - 1) /\ \A k \in (j + 1)..(i - 1) : k \in (j + 1)..i
          BY <4>2
        <4> QED BY <4>1, <4>3 DEF Word
      <3> QED BY <2>2, <3>1, <3>2 DEF Word
    <2> QED BY <1>2, <2>1, <2>2
  <1> QED BY <1>1, <1>2

\* Only the first i items count.
LEMMA WordSame ==
  ASSUME NEW s, NEW t, NEW i \in Nat, \A j \in 1..i : s[j] = t[j], NEW D, NEW p, NEW Mk
  PROVE  Word(s, i, D, p, Mk) <=> Word(t, i, D, p, Mk)
  <1>1. \A j \in 1..i : \A k \in (j + 1)..i : k \in 1..i
    OBVIOUS
  <1> QED BY <1>1 DEF Word

LEMMA AfterSame ==
  ASSUME NEW s, NEW t, NEW i \in Nat, \A j \in 1..i : s[j] = t[j], NEW D, NEW Mk
  PROVE  After(s, i, D, Mk) = After(t, i, D, Mk)
  BY WordSame DEF After

LEMMA AfterNone ==
  ASSUME NEW s, NEW D \in SUBSET Paths, NEW Mk
  PROVE  After(s, 0, D, Mk) = D
  BY DEF After, Word

LEMMA AfterStep ==
  ASSUME NEW s, NEW i \in Nat \ {0}, NEW D, NEW Mk, s[i].path \in Paths
  PROVE  After(s, i, D, Mk) = Step(s[i], After(s, i - 1, D, Mk), Mk)
  <1>1. \A p \in Paths : Word(s, i, D, p, Mk) <=> IF s[i].path = p THEN s[i] \in Mk
                                                  ELSE Word(s, i - 1, D, p, Mk)
    BY WordStep
  <1> QED BY <1>1 DEF After, Step

\* What is said last counts.
LEMMA FinalAppend ==
  ASSUME NEW S, NEW s \in Seq(S), NEW e \in S, e.path \in Paths, NEW D, NEW Mk
  PROVE  /\ \A i \in 0..Len(s) : After(Append(s, e), i, D, Mk) = After(s, i, D, Mk)
         /\ Final(Append(s, e), D, Mk) = Step(e, Final(s, D, Mk), Mk)
  <1> DEFINE t == Append(s, e)
  <1>1. Len(t) = Len(s) + 1 /\ Len(s) \in Nat /\ t[Len(s) + 1] = e
        /\ \A j \in 1..Len(s) : t[j] = s[j]
    OBVIOUS
  <1> HIDE DEF t
  <1>2. ASSUME NEW i \in 0..Len(s) PROVE After(t, i, D, Mk) = After(s, i, D, Mk)
    <2>1. i \in Nat /\ \A j \in 1..i : t[j] = s[j]
      BY <1>1
    <2> QED BY <2>1, AfterSame
  <1>3. After(t, Len(s), D, Mk) = After(s, Len(s), D, Mk)
    BY <1>1, <1>2
  <1>4. Len(s) + 1 \in Nat \ {0} /\ (Len(s) + 1) - 1 = Len(s) /\ t[Len(s) + 1].path \in Paths
    BY <1>1
  <1>5. After(t, Len(s) + 1, D, Mk) = Step(t[Len(s) + 1], After(t, (Len(s) + 1) - 1, D, Mk), Mk)
    BY <1>4, AfterStep
  <1>6. Final(t, D, Mk) = Step(e, Final(s, D, Mk), Mk)
    BY <1>1, <1>3, <1>4, <1>5 DEF Final
  <1>7. \A i \in 0..Len(s) : After(t, i, D, Mk) = After(s, i, D, Mk)
    BY <1>2
  <1> QED BY <1>6, <1>7 DEF t

\* Taking the first item away makes what it says the beginning.
LEMMA WordTail ==
  ASSUME NEW S, NEW s \in Seq(S), s # <<>>, NEW D, NEW p \in Paths, NEW Mk
  PROVE  /\ Head(s) = s[1] /\ Len(Tail(s)) = Len(s) - 1 /\ Len(s) \in Nat \ {0}
         /\ \A i \in 1..Len(Tail(s)) : Tail(s)[i] = s[i + 1]
         /\ \A i \in 0..Len(Tail(s)) :
              Word(Tail(s), i, Step(Head(s), D, Mk), p, Mk) <=> Word(s, i + 1, D, p, Mk)
  <1> DEFINE t == Tail(s)
             E == Step(Head(s), D, Mk)
  <1>1. /\ Head(s) = s[1] /\ Len(t) = Len(s) - 1 /\ Len(s) \in Nat \ {0}
        /\ \A i \in 1..Len(t) : t[i] = s[i + 1]
    OBVIOUS
  <1>3. ASSUME NEW i \in 0..Len(t) PROVE Word(t, i, E, p, Mk) <=> Word(s, i + 1, D, p, Mk)
    <2> HIDE DEF t
    <2>0. i \in Nat /\ Len(t) \in Nat /\ i <= Len(t)
      BY <1>1
    <2>1. ASSUME NEW j \in 1..i, t[j].path = p, t[j] \in Mk,
                 \A k \in (j + 1)..i : t[k].path # p
          PROVE  Word(s, i + 1, D, p, Mk)
      <3>1. j + 1 \in 1..(i + 1) /\ s[j + 1] = t[j]
        BY <1>1, <2>0
      <3>2. ASSUME NEW k \in ((j + 1) + 1)..(i + 1) PROVE s[k].path # p
        <4>1. k - 1 \in (j + 1)..i /\ k - 1 \in 1..Len(t) /\ (k - 1) + 1 = k
          BY <2>0
        <4>2. s[k] = t[k - 1]
          BY <1>1, <4>1
        <4> QED BY <2>1, <4>1, <4>2
      <3> QED BY <2>1, <3>1, <3>2 DEF Word
    <2>2. ASSUME p \in E, \A k \in 1..i : t[k].path # p PROVE Word(s, i + 1, D, p, Mk)
      <3>1. ASSUME NEW k \in 2..(i + 1) PROVE s[k].path # p
        <4>1. k - 1 \in 1..i /\ k - 1 \in 1..Len(t) /\ (k - 1) + 1 = k
          BY <2>0
        <4>2. s[k] = t[k - 1]
          BY <1>1, <4>1
        <4> QED BY <2>2, <4>1, <4>2
      <3>2. CASE s[1].path = p
        <4>1. 1 \in 1..(i + 1) /\ s[1] \in Mk /\ 1 + 1 = 2
          BY <1>1, <2>0, <2>2, <3>2 DEF Step
        <4> QED BY <3>1, <3>2, <4>1 DEF Word
      <3>3. CASE s[1].path # p
        <4>1. p \in D
          BY <1>1, <2>2, <3>3 DEF Step
        <4>2. \A k \in 1..(i + 1) : k = 1 \/ k \in 2..(i + 1)
          BY <2>0
        <4> QED BY <3>1, <3>3, <4>1, <4>2 DEF Word
      <3> QED BY <3>2, <3>3
    <2>3. ASSUME NEW j \in 1..(i + 1), s[j].path = p, s[j] \in Mk,
                 \A k \in (j + 1)..(i + 1) : s[k].path # p
          PROVE  Word(t, i, E, p, Mk)
      <3>1. ASSUME NEW k \in 1..i, k >= j PROVE t[k].path # p
        <4>1. k + 1 \in (j + 1)..(i + 1) /\ t[k] = s[k + 1]
          BY <1>1, <2>0, <3>1
        <4> QED BY <2>3, <4>1
      <3>2. CASE j = 1
        <4>1. p \in E /\ \A k \in 1..i : t[k].path # p
          BY <1>1, <2>3, <3>1, <3>2 DEF Step
        <4> QED BY <4>1 DEF Word
      <3>3. CASE j # 1
        <4>1. j - 1 \in 1..i /\ (j - 1) + 1 = j /\ j - 1 \in 1..Len(t)
          BY <2>0, <3>3
        <4>2. t[j - 1] = s[j]
          BY <1>1, <4>1
        <4>3. \A k \in ((j - 1) + 1)..i : k \in 1..i /\ k >= j
          BY <4>1
        <4> QED BY <2>3, <3>1, <4>1, <4>2, <4>3 DEF Word
      <3> QED BY <3>2, <3>3
    <2>4. ASSUME p \in D, \A k \in 1..(i + 1) : s[k].path # p PROVE Word(t, i, E, p, Mk)
      <3>1. 1 \in 1..(i + 1)
        BY <2>0
      <3>2. p \in E
        BY <1>1, <2>4, <3>1 DEF Step
      <3>3. \A k \in 1..i : k + 1 \in 1..(i + 1) /\ t[k] = s[k + 1]
        BY <1>1, <2>0
      <3> QED BY <2>4, <3>2, <3>3 DEF Word
    <2> HIDE DEF E
    <2>5. Word(t, i, E, p, Mk) => Word(s, i + 1, D, p, Mk)
      BY <2>1, <2>2 DEF Word
    <2>6. Word(s, i + 1, D, p, Mk) => Word(t, i, E, p, Mk)
      BY <2>3, <2>4 DEF Word
    <2> QED BY <2>5, <2>6
  <1> HIDE DEF t, E
  <1>4. \A i \in 0..Len(t) : Word(t, i, E, p, Mk) <=> Word(s, i + 1, D, p, Mk)
    BY <1>3
  <1> QED BY <1>1, <1>4 DEF t, E

LEMMA AfterTail ==
  ASSUME NEW S, NEW s \in Seq(S), s # <<>>, NEW D, NEW Mk
  PROVE  /\ \A i \in 0..Len(Tail(s)) :
              After(Tail(s), i, Step(Head(s), D, Mk), Mk) = After(s, i + 1, D, Mk)
         /\ Final(Tail(s), Step(Head(s), D, Mk), Mk) = Final(s, D, Mk)
  <1>1. Len(Tail(s)) \in 0..Len(Tail(s)) /\ Len(Tail(s)) + 1 = Len(s)
    OBVIOUS
  <1>2. \A p \in Paths : \A i \in 0..Len(Tail(s)) :
          Word(Tail(s), i, Step(Head(s), D, Mk), p, Mk) <=> Word(s, i + 1, D, p, Mk)
    BY WordTail
  <1>3. \A i \in 0..Len(Tail(s)) :
          After(Tail(s), i, Step(Head(s), D, Mk), Mk) = After(s, i + 1, D, Mk)
    BY <1>2 DEF After
  <1> QED BY <1>1, <1>3 DEF Final

\* What follows begins where the first sequence ends.
LEMMA WordConcat ==
  ASSUME NEW S, NEW s \in Seq(S), NEW t \in Seq(S), NEW D, NEW p \in Paths, NEW Mk
  PROVE  /\ Len(s \o t) = Len(s) + Len(t) /\ Len(s) \in Nat /\ Len(t) \in Nat
         /\ \A i \in 1..Len(s) : (s \o t)[i] = s[i]
         /\ \A i \in 1..Len(t) : (s \o t)[Len(s) + i] = t[i]
         /\ \A i \in 0..Len(s) : Word(s \o t, i, D, p, Mk) <=> Word(s, i, D, p, Mk)
         /\ \A i \in 0..Len(t) :
              Word(s \o t, Len(s) + i, D, p, Mk) <=> Word(t, i, Final(s, D, Mk), p, Mk)
  <1> DEFINE u == s \o t
             E == Final(s, D, Mk)
             n == Len(s)
  <1>1. /\ Len(u) = n + Len(t) /\ n \in Nat /\ Len(t) \in Nat
        /\ \A i \in 1..n : u[i] = s[i]
        /\ \A i \in 1..Len(t) : u[n + i] = t[i]
    OBVIOUS
  <1> HIDE DEF u
  <1>2. ASSUME NEW i \in 0..n PROVE Word(u, i, D, p, Mk) <=> Word(s, i, D, p, Mk)
    <2>1. i \in Nat /\ \A j \in 1..i : u[j] = s[j]
      BY <1>1
    <2> QED BY <2>1, WordSame
  <1>3. Word(u, n, D, p, Mk) <=> p \in E
    BY <1>1, <1>2 DEF Final, After
  <1> HIDE DEF E, n
  <1>5. ASSUME NEW i \in 0..Len(t)
        PROVE  Word(u, n + i, D, p, Mk) <=> Word(t, i, E, p, Mk)
    <2>0. i \in Nat /\ i <= Len(t) /\ Len(t) \in Nat /\ n \in Nat
      BY <1>1
    <2>1. ASSUME NEW j \in 1..(n + i), u[j].path = p, u[j] \in Mk,
                 \A k \in (j + 1)..(n + i) : u[k].path # p
          PROVE  Word(t, i, E, p, Mk)
      <3>1. ASSUME NEW k \in 1..i, n + k >= j + 1 PROVE t[k].path # p
        <4>1. n + k \in (j + 1)..(n + i) /\ u[n + k] = t[k]
          BY <1>1, <2>0, <3>1
        <4> QED BY <2>1, <4>1
      <3>2. CASE j <= n
        <4>1. j \in 1..n /\ n \in Nat /\ \A k \in (j + 1)..n : k \in (j + 1)..(n + i)
          BY <2>0, <3>2
        <4>2. Word(u, n, D, p, Mk)
          BY <2>1, <4>1 DEF Word
        <4>3. \A k \in 1..i : n + k >= j + 1
          BY <2>0, <3>2
        <4> QED BY <1>3, <3>1, <4>2, <4>3 DEF Word
      <3>3. CASE j > n
        <4>1. j - n \in 1..i /\ j - n \in 1..Len(t) /\ n + (j - n) = j
          BY <2>0, <3>3
        <4>2. t[j - n] = u[j]
          BY <1>1, <4>1
        <4>3. \A k \in ((j - n) + 1)..i : k \in 1..i /\ n + k >= j + 1
          BY <2>0, <4>1
        <4> QED BY <2>1, <3>1, <4>1, <4>2, <4>3 DEF Word
      <3> QED BY <2>0, <3>2, <3>3
    <2>2. ASSUME p \in D, \A k \in 1..(n + i) : u[k].path # p PROVE Word(t, i, E, p, Mk)
      <3>1. \A k \in 1..n : k \in 1..(n + i)
        BY <2>0
      <3>2. Word(u, n, D, p, Mk)
        BY <2>2, <3>1 DEF Word
      <3>3. \A k \in 1..i : n + k \in 1..(n + i) /\ u[n + k] = t[k]
        BY <1>1, <2>0
      <3> QED BY <1>3, <2>2, <3>2, <3>3 DEF Word
    <2>3. ASSUME NEW j \in 1..i, t[j].path = p, t[j] \in Mk,
                 \A k \in (j + 1)..i : t[k].path # p
          PROVE  Word(u, n + i, D, p, Mk)
      <3>1. n + j \in 1..(n + i) /\ u[n + j] = t[j]
        BY <1>1, <2>0
      <3>2. ASSUME NEW k \in ((n + j) + 1)..(n + i) PROVE u[k].path # p
        <4>1. k - n \in (j + 1)..i /\ k - n \in 1..Len(t) /\ n + (k - n) = k
          BY <2>0
        <4>2. u[k] = t[k - n]
          BY <1>1, <4>1
        <4> QED BY <2>3, <4>1, <4>2
      <3> QED BY <2>3, <3>1, <3>2 DEF Word
    <2>4. ASSUME p \in E, \A k \in 1..i : t[k].path # p PROVE Word(u, n + i, D, p, Mk)
      <3>1. ASSUME NEW k \in (n + 1)..(n + i) PROVE u[k].path # p
        <4>1. k - n \in 1..i /\ k - n \in 1..Len(t) /\ n + (k - n) = k
          BY <2>0
        <4>2. u[k] = t[k - n]
          BY <1>1, <4>1
        <4> QED BY <2>4, <4>1, <4>2
      <3>2. CASE p \in D /\ \A k \in 1..n : u[k].path # p
        <4>1. \A k \in 1..(n + i) : k \in 1..n \/ k \in (n + 1)..(n + i)
          BY <2>0
        <4> QED BY <3>1, <3>2, <4>1 DEF Word
      <3>3. CASE \E j \in 1..n : /\ u[j].path = p /\ u[j] \in Mk
                                  /\ \A k \in (j + 1)..n : u[k].path # p
        <4>1. PICK j \in 1..n : /\ u[j].path = p /\ u[j] \in Mk
                                /\ \A k \in (j + 1)..n : u[k].path # p
          BY <3>3
        <4>2. j \in 1..(n + i) /\
              \A k \in (j + 1)..(n + i) : k \in (j + 1)..n \/ k \in (n + 1)..(n + i)
          BY <2>0
        <4> QED BY <3>1, <4>1, <4>2 DEF Word
      <3> QED BY <1>3, <2>4, <3>2, <3>3 DEF Word
    <2>5. Word(u, n + i, D, p, Mk) => Word(t, i, E, p, Mk)
      BY <2>1, <2>2 DEF Word
    <2>6. Word(t, i, E, p, Mk) => Word(u, n + i, D, p, Mk)
      BY <2>3, <2>4 DEF Word
    <2> QED BY <2>5, <2>6
  <1>6. \A i \in 0..n : Word(u, i, D, p, Mk) <=> Word(s, i, D, p, Mk)
    BY <1>2 DEF n
  <1>7. \A i \in 0..Len(t) : Word(u, n + i, D, p, Mk) <=> Word(t, i, E, p, Mk)
    BY <1>5
  <1> QED BY <1>1, <1>6, <1>7 DEF u, n, E

LEMMA AfterConcat ==
  ASSUME NEW S, NEW s \in Seq(S), NEW t \in Seq(S), NEW D, NEW Mk
  PROVE  /\ Len(s \o t) = Len(s) + Len(t) /\ Len(s) \in Nat /\ Len(t) \in Nat
         /\ \A i \in 1..Len(s) : (s \o t)[i] = s[i]
         /\ \A i \in 1..Len(t) : (s \o t)[Len(s) + i] = t[i]
         /\ \A i \in 0..Len(s) : After(s \o t, i, D, Mk) = After(s, i, D, Mk)
         /\ \A i \in 0..Len(t) :
              After(s \o t, Len(s) + i, D, Mk) = After(t, i, Final(s, D, Mk), Mk)
         /\ Final(s \o t, D, Mk) = Final(t, Final(s, D, Mk), Mk)
  <1>1. /\ Len(s \o t) = Len(s) + Len(t) /\ Len(s) \in Nat /\ Len(t) \in Nat
        /\ \A i \in 1..Len(s) : (s \o t)[i] = s[i]
        /\ \A i \in 1..Len(t) : (s \o t)[Len(s) + i] = t[i]
    OBVIOUS
  <1>2. \A p \in Paths : \A i \in 0..Len(s) : Word(s \o t, i, D, p, Mk) <=> Word(s, i, D, p, Mk)
    BY WordConcat
  <1>3. \A p \in Paths : \A i \in 0..Len(t) :
          Word(s \o t, Len(s) + i, D, p, Mk) <=> Word(t, i, Final(s, D, Mk), p, Mk)
    BY WordConcat
  <1>4. \A i \in 0..Len(s) : After(s \o t, i, D, Mk) = After(s, i, D, Mk)
    BY <1>2 DEF After
  <1>5. \A i \in 0..Len(t) :
          After(s \o t, Len(s) + i, D, Mk) = After(t, i, Final(s, D, Mk), Mk)
    BY <1>3 DEF After
  <1>6. Final(s \o t, D, Mk) = Final(t, Final(s, D, Mk), Mk)
    BY <1>1, <1>5 DEF Final
  <1> QED BY <1>1, <1>4, <1>5, <1>6

-----------------------------------------------------------------------------
(* ... and that it fits.                                                    *)

LEMMA FitsAppend ==
  ASSUME NEW S, NEW s \in Seq(S), NEW e \in S, e.path \in Paths, NEW D, NEW p, NEW Rv, NEW Mk,
         Fits(s, D, p, Rv, Mk), Fitting(e, Final(s, D, Mk), p, Rv, Mk)
  PROVE  Fits(Append(s, e), D, p, Rv, Mk)
  <1> DEFINE t == Append(s, e)
  <1>1. /\ Len(t) = Len(s) + 1 /\ Len(s) \in Nat /\ t[Len(s) + 1] = e
        /\ \A j \in 1..Len(s) : t[j] = s[j]
    OBVIOUS
  <1>2. \A i \in 0..Len(s) : After(t, i, D, Mk) = After(s, i, D, Mk)
    BY FinalAppend
  <1> HIDE DEF t
  <1>3. ASSUME NEW i \in 1..Len(t)
        PROVE  Fitting(t[i], After(t, i - 1, D, Mk), p, Rv, Mk)
    <2>1. CASE i \in 1..Len(s)
      <3>1. i - 1 \in 0..Len(s) /\ t[i] = s[i]
        BY <1>1, <2>1
      <3>2. Fitting(s[i], After(s, i - 1, D, Mk), p, Rv, Mk)
        BY <2>1 DEF Fits
      <3> QED BY <1>2, <3>1, <3>2
    <2>2. CASE i = Len(s) + 1
      <3>1. i - 1 = Len(s) /\ Len(s) \in 0..Len(s) /\ t[i] = e
        BY <1>1, <2>2
      <3> QED BY <1>2, <3>1 DEF Final
    <2> QED BY <1>1, <2>1, <2>2
  <1> QED BY <1>3 DEF Fits, t

LEMMA FitsTail ==
  ASSUME NEW S, NEW s \in Seq(S), s # <<>>, NEW D \in SUBSET Paths, NEW p, NEW Rv, NEW Mk,
         Fits(s, D, p, Rv, Mk)
  PROVE  /\ Fitting(Head(s), D, p, Rv, Mk)
         /\ Fits(Tail(s), Step(Head(s), D, Mk), p, Rv, Mk)
  <1> DEFINE t == Tail(s)
             E == Step(Head(s), D, Mk)
  <1>1. /\ Head(s) = s[1] /\ Len(t) = Len(s) - 1 /\ Len(s) \in Nat \ {0}
        /\ \A i \in 1..Len(t) : t[i] = s[i + 1]
    OBVIOUS
  <1>2. \A i \in 0..Len(t) : After(t, i, E, Mk) = After(s, i + 1, D, Mk)
    BY AfterTail
  <1> HIDE DEF t, E
  <1>3. Fitting(Head(s), D, p, Rv, Mk)
    <2>1. 1 \in 1..Len(s) /\ 1 - 1 = 0
      BY <1>1
    <2>2. Fitting(s[1], After(s, 0, D, Mk), p, Rv, Mk)
      BY <2>1 DEF Fits
    <2> QED BY <1>1, <2>2, AfterNone
  <1>4. ASSUME NEW i \in 1..Len(t)
        PROVE  Fitting(t[i], After(t, i - 1, E, Mk), p, Rv, Mk)
    <2>1. /\ i + 1 \in 1..Len(s) /\ (i + 1) - 1 = i
          /\ i - 1 \in 0..Len(t) /\ (i - 1) + 1 = i
      BY <1>1
    <2>2. Fitting(s[i + 1], After(s, i, D, Mk), p, Rv, Mk)
      BY <2>1 DEF Fits
    <2>3. After(t, i - 1, E, Mk) = After(s, i, D, Mk)
      BY <1>2, <2>1
    <2> QED BY <1>1, <2>2, <2>3
  <1> QED BY <1>3, <1>4 DEF Fits, t, E

LEMMA FitsConcat ==
  ASSUME NEW S, NEW s \in Seq(S), NEW t \in Seq(S), NEW D, NEW p, NEW Rv, NEW Mk,
         Fits(s, D, p, Rv, Mk), Fits(t, Final(s, D, Mk), p, Rv, Mk)
  PROVE  Fits(s \o t, D, p, Rv, Mk)
  <1> DEFINE u == s \o t
             E == Final(s, D, Mk)
             n == Len(s)
  <1>1. /\ Len(u) = n + Len(t) /\ n \in Nat /\ Len(t) \in Nat
        /\ \A i \in 1..n : u[i] = s[i]
        /\ \A i \in 1..Len(t) : u[n + i] = t[i]
        /\ \A i \in 0..n : After(u, i, D, Mk) = After(s, i, D, Mk)
        /\ \A i \in 0..Len(t) : After(u, n + i, D, Mk) = After(t, i, E, Mk)
    BY AfterConcat
  <1>2. /\ \A i \in 1..n : Fitting(s[i], After(s, i - 1, D, Mk), p, Rv, Mk)
        /\ \A i \in 1..Len(t) : Fitting(t[i], After(t, i - 1, E, Mk), p, Rv, Mk)
    BY DEF Fits
  <1> HIDE DEF u, E, n
  <1>3. ASSUME NEW i \in 1..Len(u)
        PROVE  Fitting(u[i], After(u, i - 1, D, Mk), p, Rv, Mk)
    <2>1. CASE i \in 1..n
      <3>1. i - 1 \in 0..n
        BY <1>1, <2>1
      <3> QED BY <1>1, <1>2, <2>1, <3>1
    <2>2. CASE i \notin 1..n
      <3>1. PICK j \in 1..Len(t) : i = n + j
        <4>1. i - n \in 1..Len(t) /\ i = n + (i - n)
          BY <1>1, <2>2
        <4> QED BY <4>1
      <3>2. j - 1 \in 0..Len(t) /\ i - 1 = n + (j - 1) /\ u[i] = t[j]
        BY <1>1, <3>1
      <3>3. After(u, n + (j - 1), D, Mk) = After(t, j - 1, E, Mk)
        BY <1>1, <3>2
      <3> QED BY <1>2, <3>2, <3>3
    <2> QED BY <2>1, <2>2
  <1> QED BY <1>3 DEF Fits, u

\* What has nothing in it still fits when it turns out not to have been there before.
LEMMA FitsWeaker ==
  ASSUME NEW s, NEW D, NEW E, NEW p \in Paths, p \in E => p \in D, Under(p) = {},
         NEW Rv, NEW Mk, Fits(s, D, p, Rv, Mk)
  PROVE  Fits(s, E, p, Rv, Mk) /\ (p \in Final(s, E, Mk) => p \in Final(s, D, Mk))
  BY DEF Fits, Fitting, After, Final, Word

\* Only whether p was there before matters.
LEMMA FitsSame ==
  ASSUME NEW s, NEW D, NEW E, NEW p \in Paths, p \in E <=> p \in D,
         NEW Rv, NEW Mk
  PROVE  /\ Fits(s, D, p, Rv, Mk) => Fits(s, E, p, Rv, Mk)
         /\ p \in Final(s, E, Mk) <=> p \in Final(s, D, Mk)
  <1>1. \A i : p \in After(s, i, E, Mk) <=> p \in After(s, i, D, Mk)
    BY DEF After, Word
  <1> QED BY <1>1 DEF Fits, Fitting, Final

\* A sequence that is not about a path says nothing of it.
LEMMA FinalSilent ==
  ASSUME NEW S, NEW s \in Seq(S), NEW D, NEW p \in Paths, NEW Mk,
         \A i \in DOMAIN s : s[i].path # p
  PROVE  p \in Final(s, D, Mk) <=> p \in D
  BY DEF Final, After, Word

\* What is there in the end and was not before, something has made.
LEMMA FinalAbout ==
  ASSUME NEW S, NEW s \in Seq(S), NEW D, NEW p, NEW Mk, p \in Final(s, D, Mk), p \notin D
  PROVE  About(s, p, Mk)
  BY DEF Final, After, Word, About

\* A sequence that names nothing p has to do with.
LEMMA FitsApart ==
  ASSUME NEW S, NEW s \in Seq(S), NEW D, NEW p \in Paths, NEW Rv, NEW Mk,
         \A i \in DOMAIN s : s[i].path \notin Around(p)
  PROVE  Fits(s, D, p, Rv, Mk) /\ (p \in Final(s, D, Mk) <=> p \in D)
  <1>1. \A i \in 1..Len(s) : /\ s[i].path \notin Above(p) /\ s[i].path \notin Under(p)
                             /\ s[i].path # p
    BY DEF Around, Subtree
  <1>2. DOMAIN s = 1..Len(s)
    OBVIOUS
  <1> QED BY <1>1, <1>2, FinalSilent DEF Fits, Fitting

-----------------------------------------------------------------------------
(* Paths: everything is in a directory of the sync directory or in the sync *)
(* directory itself.                                                        *)

\* Above and Under are each other's inverse, and nothing is above or under itself.
LEMMA AboveUnder ==
  ASSUME NEW p \in Paths, NEW q \in Paths
  PROVE  /\ p \in Above(q) <=> q \in Under(p)
         /\ p \in Around(q) <=> q \in Around(p)
         /\ p \notin Above(p) /\ p \notin Under(p)
         /\ p \in Around(q) <=> p = q \/ p \in Above(q) \/ p \in Under(q)
  <1>1. \A r, s \in Paths : r \in Above(s) <=> s \in Under(r)
    BY DEF Above, Under
  <1>2. p \notin Above(p)
    BY DEF Above, IsStrictPrefix
  <1> QED BY <1>1, <1>2 DEF Around, Subtree

LEMMA DirOnTop ==
  ASSUME NEW d \in Dirs
  PROVE  Above(d) = {} /\ d \in Paths /\ d \notin Files
  <1>1. d \in Paths
    BY PathsAssumption
  <1>2. ASSUME NEW e \in Above(d) PROVE FALSE
    <2>1. e \in Dirs
      BY <1>1, PathsAssumption
    <2>2. e \in Paths /\ d \in Under(e)
      BY <1>1, AboveUnder DEF Above
    <2> QED BY <2>1, <2>2, FlatAssumption
  <1> QED BY <1>1, <1>2 DEF Files

LEMMA NothingInNotes ==
  ASSUME NEW p \in Files
  PROVE  Under(p) = {} /\ Subtree(p) = {p} /\ p \in Paths /\ p \notin Dirs
  <1>1. p \in Paths /\ p \notin Dirs
    BY DEF Files
  <1>2. ASSUME NEW q \in Under(p) PROVE FALSE
    <2>1. q \in Paths
      BY DEF Under
    <2>2. p \in Above(q)
      BY <1>1, <1>2, <2>1, AboveUnder
    <2> QED BY <1>1, <2>1, <2>2, PathsAssumption
  <1> QED BY <1>1, <1>2 DEF Subtree

\* Who has something in it is a directory.
LEMMA UnderDirs ==
  ASSUME NEW p \in Paths, NEW q \in Under(p)
  PROVE  p \in Dirs /\ q \in Files /\ q \in Paths
  <1>1. q \in Paths
    BY DEF Under
  <1>2. p \in Above(q)
    BY <1>1, AboveUnder
  <1>3. p \in Dirs
    BY <1>1, <1>2, PathsAssumption
  <1>4. q \notin Dirs
    BY <1>3, FlatAssumption
  <1> QED BY <1>1, <1>3, <1>4 DEF Files

\* What is not in the sync directory itself is in one directory, its parent.
LEMMA AboveIsParent ==
  ASSUME NEW p \in Paths
  PROVE  /\ Parent(p) = Root => Above(p) = {}
         /\ Parent(p) # Root => Parent(p) \in Dirs /\ Above(p) = {Parent(p)}
  <1> DEFINE n == Len(p)
             f == Parent(p)
  <1>1. p \in Seq(STRING) /\ n \in Nat
    BY ComponentsAssumption
  <1>2. p # Root /\ f \in Dirs \cup {Root}
    BY RootAssumption
  <1>3. n \in Nat \ {0}
    BY <1>1, <1>2 DEF Root
  <1>4. f = SubSeq(p, 1, n - 1)
    BY DEF Parent, Front
  <1> HIDE DEF f
  <1>5. f \in Seq(STRING) /\ Len(f) = n - 1 /\ \A i \in 1..(n - 1) : f[i] = p[i]
    <2>1. n - 1 \in 0..Len(p)
      BY <1>3
    <2>2. PICK k \in 0..Len(p) : k = n - 1
      BY <2>1
    <2>3. /\ SubSeq(p, 1, k) \in Seq(STRING) /\ Len(SubSeq(p, 1, k)) = k
          /\ \A i \in 1..k : SubSeq(p, 1, k)[i] = p[i]
      BY <1>1
    <2> QED BY <1>4, <2>2, <2>3
  <1>6. ASSUME NEW e \in Above(p)
        PROVE  e \in Paths /\ e \in Dirs /\ (e = f \/ IsStrictPrefix(e, f))
    <2>1. e \in Paths /\ IsStrictPrefix(e, p) /\ e \in Seq(STRING)
      BY ComponentsAssumption DEF Above
    <2>2. e \in Dirs
      BY PathsAssumption
    <2>3. Len(e) <= n /\ SubSeq(e, 1, Len(e)) = SubSeq(p, 1, Len(e)) /\ e # p
      BY <2>1 DEF IsStrictPrefix, IsPrefix
    <2>4. \A i \in 1..Len(e) : e[i] = p[i]
      BY <1>1, <2>1, <2>3
    <2>5. Len(e) # n
      BY <1>1, <2>1, <2>3, <2>4
    <2>6. Len(e) <= n - 1
      BY <1>3, <2>1, <2>3, <2>5
    <2>7. SubSeq(e, 1, Len(e)) = SubSeq(f, 1, Len(e))
      BY <1>5, <2>1, <2>4, <2>6
    <2>8. IsPrefix(e, f)
      BY <1>5, <2>6, <2>7 DEF IsPrefix
    <2> QED BY <2>1, <2>2, <2>8 DEF IsStrictPrefix
  <1>7. CASE f = Root
    <2>1. ASSUME NEW e \in Above(p) PROVE FALSE
      <3>1. e \in Seq(STRING) /\ e # Root
        BY <1>6, RootAssumption, ComponentsAssumption
      <3>2. Len(f) = 0
        BY <1>7 DEF Root
      <3>3. Len(e) <= 0
        BY <1>6, <1>7, <3>1, <3>2 DEF IsStrictPrefix, IsPrefix
      <3> QED BY <3>1, <3>3 DEF Root
    <2> QED BY <1>7, <2>1 DEF f
  <1>8. CASE f # Root
    <2>1. f \in Dirs /\ f \in Paths
      BY <1>2, <1>8, PathsAssumption DEF f
    <2>2. f \in Above(p)
      <3>1. Len(f) <= n /\ f # p
        BY <1>3, <1>5
      <3>2. SubSeq(f, 1, Len(f)) = SubSeq(p, 1, Len(f))
        BY <1>1, <1>3, <1>5
      <3> QED BY <2>1, <3>1, <3>2 DEF Above, IsStrictPrefix, IsPrefix
    <2>3. ASSUME NEW e \in Above(p), e # f PROVE FALSE
      <3>1. e \in Above(f)
        BY <1>6, <2>3 DEF Above
      <3> QED BY <2>1, <3>1, DirOnTop
    <2> QED BY <1>8, <2>1, <2>2, <2>3 DEF f
  <1> QED BY <1>7, <1>8 DEF f

-----------------------------------------------------------------------------
(* What an operation leaves of what it is not about.                        *)

\* u has of p what t has: a note with what is in it, or nothing.
Alike(t, u, p) ==
  /\ p \in DOMAIN u <=> p \in DOMAIN t
  /\ p \in DOMAIN t /\ p \in Files => u[p].body = t[p].body

\* What the operations of a directory leave as it is: all but what they name, what is
\* in it, and a directory they have to make for it.
LEMMA CreateFileAlike ==
  ASSUME NEW t, IsTree(t), NEW q \in Files, NEW body \in Body, NEW now \in Nat,
         NEW p \in Paths, p # q, p \in Above(q) => p \in DOMAIN t
  PROVE  Alike(t, CreateFile(t, q, body, now), p)
  <1> DEFINE u == CreateFile(t, q, body, now)
  <1>1. q \in Paths
    BY DEF Files
  <1>2. DOMAIN u = DOMAIN t \cup {q} \cup Above(q) /\ KeepsApartFrom({q}, t, u)
    BY <1>1, CreateFileTree, CreateFileKeeps
  <1> HIDE DEF u
  <1>3. Alike(t, u, p)
    BY <1>2 DEF Alike, KeepsApartFrom
  <1> QED BY <1>3 DEF u

LEMMA MkDirAlike ==
  ASSUME NEW t, IsTree(t), NEW d \in Dirs, NEW now \in Nat,
         NEW p \in Paths, p = d => d \in DOMAIN t
  PROVE  Alike(t, MkDir(t, d, now), p)
  <1> DEFINE u == MkDir(t, d, now)
  <1>1. d \in Paths /\ Above(d) = {}
    BY DirOnTop
  <1>2. DOMAIN u = DOMAIN t \cup {d} /\ KeepsApartFrom({}, t, u)
    BY <1>1, MkDirTree, MkDirKeeps
  <1> HIDE DEF u
  <1>3. Alike(t, u, p)
    BY <1>2 DEF Alike, KeepsApartFrom
  <1> QED BY <1>3 DEF u

LEMMA FillFileAlike ==
  ASSUME NEW t, NEW q, NEW body, NEW now, NEW p \in Paths, p # q
  PROVE  Alike(t, FillFile(t, q, body, now), p)
  BY DEF Alike, FillFile

LEMMA RmAlike ==
  ASSUME NEW t, IsTree(t), NEW q \in Paths, NEW now \in Nat,
         NEW p \in Paths, p \in Subtree(q) => p \notin DOMAIN t
  PROVE  Alike(t, Rm(t, q, now), p)
  <1> DEFINE u == Rm(t, q, now)
  <1>1. DOMAIN u = DOMAIN t \ Subtree(q) /\ KeepsApartFrom({}, t, u)
    BY RmTree, RmKeeps
  <1> HIDE DEF u
  <1>2. Alike(t, u, p)
    BY <1>1 DEF Alike, KeepsApartFrom
  <1> QED BY <1>2 DEF u

LEMMA MoveAlike ==
  ASSUME NEW t, IsTree(t), NEW q \in Paths, NEW r \in Paths, NEW now \in Nat,
         NEW p \in Paths, p \notin Subtree(q), p \notin Subtree(r), CanMove(t, q, r)
  PROVE  Alike(t, Move(t, q, r, now), p)
  <1> DEFINE kept  == {x \in DOMAIN t \ Subtree(q) : x # r}
             moved == {x \in Subtree(r) : Rebase(x, r, q) \in DOMAIN t \cap Subtree(q)}
             u     == [x \in kept \cup moved |->
                         IF x \in moved THEN t[Rebase(x, r, q)] ELSE t[x]]
             v     == Move(t, q, r, now)
  <1>1. v = Stamp(t, u, now)
    BY DEF Move
  <1>2. moved \subseteq Subtree(r) /\ \A x \in moved : Rebase(x, r, q) \in DOMAIN t
    OBVIOUS
  <1>3. p \notin moved /\ (p \in kept <=> p \in DOMAIN t)
    BY DEF Subtree
  <1> HIDE DEF kept, moved
  <1>4. kept \subseteq DOMAIN t /\ moved \subseteq Paths
    BY <1>2, SubtreeInPaths DEF kept
  <1>5. IsTree(u) /\ DOMAIN u = kept \cup moved
    BY <1>2, <1>4 DEF IsTree
  <1>6. p \in DOMAIN t => u[p] = t[p]
    BY <1>3
  <1> HIDE DEF u, v
  <1>7. DOMAIN v = DOMAIN u /\ \A x \in DOMAIN u : v[x].body = u[x].body
    BY <1>1, <1>5, StampTree, StampKeeps
  <1>8. Alike(t, v, p)
    BY <1>3, <1>5, <1>6, <1>7 DEF Alike
  <1> QED BY <1>8 DEF v

-----------------------------------------------------------------------------
(* The inductive invariant of plain paths.                                  *)

\* What an event, a request or a message is about: that something has been made,
\* taken away or renamed.
EventKind(e) == IF e.op = "REMOVE" THEN "take"
                ELSE IF e.op \in {"CREATE", "WRITE"} /\ e.old = NoPath THEN "make"
                ELSE "rename"
RequestKind(r) == IF r.op = "remove" THEN "take"
                  ELSE IF r.op = "rename" THEN "rename" ELSE "make"
MessageKind(m) == IF m.event = "REMOVE" THEN "take"
                  ELSE IF m.event = "CREATE" THEN "make" ELSE "rename"

Making   == {e \in Event : EventKind(e) = "make"}
Removing == {e \in Event : EventKind(e) = "take"}
MakingMessages   == {m \in Message : MessageKind(m) = "make"}
RemovingMessages == {m \in Message : MessageKind(m) = "take"}

\* Plain paths are those of which every change has been seen, too.  A change that raised
\* no event is a matter between a client and the server: what the server has of a kept
\* path the other clients have or will have.
Kept == {p \in Paths \ (past.lost \cup past.moved) :
           \E c \in Clients : past.touched[p] \subseteq {c}}

TouchedBy(c) == {p \in Paths : c \in past.touched[p]}
Own(c)       == {p \in Kept : past.touched[p] \subseteq {c}}
Foreign(c)   == {p \in Kept : c \notin past.touched[p]}

\* Whoever has touched something has touched the directory it is in.
PastInv ==
  \A q \in Paths : \A d \in Above(q) :
    /\ past.touched[q] \subseteq past.touched[d]
    /\ q \in past.lost \cup past.moved => d \in past.lost \cup past.moved

Moved(k, p, o) ==
  k = "rename" => \A q \in {p, o} \ {NoPath} : Subtree(q) \subseteq past.moved

\* What client c says happened is the work of its user, or repeats what another's
\* has done in another directory than the plain ones.
Blames(c, k, p, o) ==
  /\ p \in Kept => c \in past.touched[p]
  /\ k = "make" => p \in Dirs \cup TouchedBy(c)
  /\ k = "take" => Above(p) # {} \/ Subtree(p) \subseteq TouchedBy(c)
  /\ k = "rename" => \A q \in {p, o} \ {NoPath} : Subtree(q) \subseteq TouchedBy(c)

EventsOf(c) ==
  {e \in Event : /\ Moved(EventKind(e), e.path, e.old)
                 /\ e.path \in ignored[c] \/ Blames(c, EventKind(e), e.path, e.old)}
ItemsOf(c) ==
  {e \in Event : /\ e.op \in {"CREATE", "WRITE"} => e.old = NoPath
                 /\ Moved(EventKind(e), e.path, e.old)
                 /\ Blames(c, EventKind(e), e.path, e.old)}
RequestsOf(c) ==
  {r \in Request : /\ r.op = "upload" => r.path \in Files
                   /\ r.op = "mkdir" => r.path \in Dirs
                   /\ Moved(RequestKind(r), r.path, r.old)
                   /\ Blames(c, RequestKind(r), r.path, r.old)}
MessagesFor(c) ==
  {m \in Message : /\ m.client # c
                   /\ Moved(MessageKind(m), m.path, m.old)
                   /\ Blames(m.client, MessageKind(m), m.path, m.old)}

BlameOf(c) ==
  /\ events[c] \in Seq(EventsOf(c)) /\ channel[c] \in Seq(ItemsOf(c))
  /\ held[c] \subseteq TouchedBy(c)
  /\ proc[c].pc # "idle" => proc[c].req \in RequestsOf(c)
  /\ queue[c] \in Seq(MessagesFor(c))

BlameInv == \A c \in Clients : BlameOf(c)

\* The open file of a download is there, and writing to it is ignored, or as good as.
FileOf(c) ==
  consumer[c].file # NoPath =>
    /\ consumer[c].file \in DOMAIN local[c]
    /\ consumer[c].file \in ignored[c] \cup TouchedBy(c)

FileInv == \A c \in Clients : FileOf(c)

\* What a client is told of a kept path, others have done.
HearsayOf(c, p) ==
  /\ p \in ignored[c] \/ p = consumer[c].from => past.touched[p] \ {c} # {}
  /\ consumer[c].file = p => consumer[c].from = p
  /\ p \in Foreign(c) /\ consumer[c].pc = "fetch" /\ consumer[c].from = p
       => consumer[c].file = p

HearsayInv == \A c \in Clients : \A p \in Kept : HearsayOf(c, p)

\* What the server will have when the request under way has arrived, when the channel
\* is empty, when the debouncer holds nothing, and when fsnotify has delivered all.
Sent(c) ==
  IF proc[c].pc # "send" THEN DOMAIN server
  ELSE IF proc[c].req.op = "remove" THEN DOMAIN server \ {proc[c].req.path}
                                    ELSE DOMAIN server \cup {proc[c].req.path}
ByChannel(c) == Final(channel[c], Sent(c), Making)
ByHeld(c)    == held[c] \cup ByChannel(c)
Told(c)      == Final(events[c], ByHeld(c), Making)

\* From the request at the server, D, over the channel s, the held H and the events es,
\* to the directory, with L in it, W watched and U unseen: what will be told of p is
\* what is there, and what is told of other paths leaves p alone.
Line(p, D, s, H, es, L, W, U) ==
  LET C == Final(s, D, Making)
      T == Final(es, H \cup C, Making)
  IN
  /\ p \in T => p \in L /\ Parent(p) \in W
  /\ p \in L \ U => p \in T
  /\ Fits(s, D, p, Removing, Making)
  /\ Fits(es, H \cup C, p, Removing, Making)
  /\ H \cap Under(p) # {} => p \in C

LineOf(c, p) ==
  /\ Line(p, Sent(c), channel[c], held[c], events[c], DOMAIN local[c], watched[c], past.unseen)
  /\ proc[c].pc = "send" =>
       /\ proc[c].req.op = "remove" /\ proc[c].req.path \in Above(p) => p \notin DOMAIN server
       /\ proc[c].req.op = "upload" /\ proc[c].req.path \in Under(p) => p \in DOMAIN server

LineInv == \A c \in Clients : \A p \in Own(c) : LineOf(c, p)

\* Something under way is going to tell the server of p again.
Retold(c, p) ==
  \/ About(channel[c], p, Making) \/ p \in held[c] \/ About(events[c], p, Making)

\* What the server has of p is still to be written by the request under way.
Writing(c, p) == proc[c].pc \in {"send", "fill"} /\ proc[c].req.path = p

BodyOf(c, p) ==
  p \in DOMAIN local[c] \ past.unseen =>
    \/ Retold(c, p)
    \/ /\ Writing(c, p) /\ proc[c].req.op = "upload"
       /\ proc[c].req.body = local[c][p].body
    \/ /\ ~Writing(c, p)
       /\ p \in DOMAIN server /\ server[p].body = local[c][p].body

BodyInv == \A c \in Clients : \A p \in Own(c) \cap Files : BodyOf(c, p)

\* The file an upload has open has the upload's name, unless it has been removed or
\* renamed meanwhile; that of a client's own path nobody else removes.
FillOf(c) ==
  proc[c].pc = "fill" =>
    /\ proc[c].req.op = "upload"
    /\ filling[c] \in {proc[c].req.path, NoPath} \cup past.moved
    /\ proc[c].req.path \in Own(c) =>
         filling[c] = proc[c].req.path /\ filling[c] \in DOMAIN server

FillInv == \A c \in Clients : FillOf(c)

Heard(c) == Final(queue[c], DOMAIN local[c], MakingMessages)
Publishing(x, p) == proc[x].pc \in {"fill", "publish"} /\ proc[x].req.path = p

QueueOf(c, p) ==
  /\ Fits(queue[c], DOMAIN local[c], p, RemovingMessages, MakingMessages)
  /\ \A x \in Clients : Publishing(x, p) =>
       (p \in DOMAIN server <=> proc[x].req.op # "remove")
  /\ (\A x \in Clients : ~Publishing(x, p)) => (p \in DOMAIN server <=> p \in Heard(c))
  /\ \A x \in Clients : proc[x].pc \in {"fill", "publish"} =>
       /\ proc[x].req.op = "remove" /\ proc[x].req.path \in Above(p) => p \notin Heard(c)
       /\ proc[x].req.op = "upload" /\ proc[x].req.path \in Under(p) => p \in Heard(c)

QueueInv == \A c \in Clients : \A p \in Foreign(c) : QueueOf(c, p)

CopyOf(c, p) ==
  p \in DOMAIN local[c] /\ p \in DOMAIN server =>
    \/ local[c][p].body = server[p].body
    \/ About(queue[c], p, MakingMessages)
    \/ \E x \in Clients : Publishing(x, p) /\ proc[x].req.op = "upload"
    \/ consumer[c].pc = "fetch" /\ consumer[c].from = p

CopyInv == \A c \in Clients : \A p \in Foreign(c) \cap Files : CopyOf(c, p)

DirOf(c, p) ==
  p \in DOMAIN local[c] =>
    /\ p \in Foreign(c) =>
         p \in watched[c] \/ (consumer[c].pc = "add" /\ consumer[c].from = p)
    /\ p \in Own(c) =>
         p \in watched[c] \/ About(channel[c], p, Making) \/ About(events[c], p, Making)

DirInv ==
  /\ Kept \cap Dirs \cap past.unseen = {}
  /\ \A c \in Clients : Root \in watched[c] /\ \A p \in Kept \cap Dirs : DirOf(c, p)

IInv == /\ TypeOK /\ PastInv /\ BlameInv /\ FileInv /\ HearsayInv
        /\ LineInv /\ FillInv /\ BodyInv /\ QueueInv /\ CopyInv /\ DirInv

-----------------------------------------------------------------------------
(* What has happened to paths only grows.                                   *)

Grew ==
  /\ \A p \in Paths : past.touched[p] \subseteq past'.touched[p]
  /\ past.lost \subseteq past'.lost /\ past.unseen \subseteq past'.unseen
  /\ past.moved \subseteq past'.moved

\* A step that is not a user's may lose something, no more.
LEMMA OthersPast ==
  ASSUME TypeOK, NEW c \in Clients, Client(c) \/ Server(c) \/ Fail(c)
  PROVE  /\ past'.touched = past.touched /\ past'.unseen = past.unseen
         /\ past'.moved = past.moved /\ past.lost \subseteq past'.lost
  <1>1. CASE Watch(c) \/ Release(c) \/ Process(c) \/ ConsumeAdd(c) \/ ConsumeCopy(c)
             \/ ExpireIgnore(c) \/ Fill(c) \/ Publish(c)
    BY <1>1 DEF Watch, Release, Process, ConsumeAdd, ConsumeCopy, ExpireIgnore, Fill, Publish
  <1>2. CASE Consume(c)
    <2>1. UNCHANGED past \/ \E p, q : RefusedAfterFailure(p, q)
      BY <1>2 DEF Consume, ConsumeNote, ConsumeDir, ConsumeRename, ConsumeRemove
    <2> QED BY <2>1 DEF RefusedAfterFailure, TypeOK, Past
  <1>3. CASE Handle(c)
    BY <1>3 DEF Handle, RefusedAfterFailure, TypeOK, Past
  <1>4. CASE Fail(c)
    BY <1>4 DEF Fail, TypeOK, Past
  <1> QED BY <1>1, <1>2, <1>3, <1>4 DEF Client, Server

\* The user of c touches S; nothing tells of V, and M moves.
Touched(c, S, V, M) ==
  /\ S \in SUBSET Paths /\ V \in SUBSET Paths /\ M \in SUBSET S
  /\ \A p \in Paths : past'.touched[p] = IF p \in S THEN past.touched[p] \cup {c}
                                                    ELSE past.touched[p]
  /\ past'.lost = past.lost /\ past'.unseen = past.unseen \cup V
  /\ past'.moved = past.moved \cup M
  /\ \A q \in S : Above(q) \subseteq S
  /\ \A q \in M : Above(q) \subseteq M

\* With a path the directory it is in is around another.
LEMMA AroundClosed ==
  ASSUME NEW p \in Paths
  PROVE  /\ Around(p) \in SUBSET Paths
         /\ \A q \in Around(p) : Above(q) \subseteq Around(p)
  <1>1. Around(p) \subseteq Paths
    BY SubtreeInPaths
  <1>2. ASSUME NEW q \in Around(p), NEW d \in Above(q) PROVE d \in Around(p)
    <2>1. q \in Paths /\ d \in Paths
      BY <1>1 DEF Above
    <2>2. CASE q = p
      BY <2>2 DEF Around
    <2>3. CASE q \in Above(p)
      <3>1. q \in Dirs
        BY <2>3, PathsAssumption
      <3> QED BY <3>1, DirOnTop
    <2>4. CASE q \in Under(p)
      <3>1. p \in Above(q)
        BY <2>1, <2>4, AboveUnder
      <3>2. d = p
        BY <2>1, <3>1, AboveIsParent
      <3> QED BY <3>2 DEF Around, Subtree
    <2> QED BY <1>2, <2>2, <2>3, <2>4 DEF Around, Subtree
  <1> QED BY <1>1, <1>2

LEMMA HappenedTouched ==
  ASSUME TypeOK, NEW c \in Clients, NEW S \in SUBSET Paths, NEW V \in SUBSET Paths,
         \A q \in S : Above(q) \subseteq S, past' = Happened(c, S, V)
  PROVE  Touched(c, S, V, {})
  <1>1. /\ \A r \in Paths : past'.touched[r] = IF r \in S THEN past.touched[r] \cup {c}
                                               ELSE past.touched[r]
        /\ past'.lost = past.lost /\ past'.unseen = past.unseen \cup V
        /\ past'.moved = past.moved
    BY DEF Happened, Past, TypeOK
  <1> QED BY <1>1 DEF Touched

\* ... action by action.
LEMMA CreateTouched ==
  ASSUME TypeOK, NEW c \in Clients, NEW p \in Files,
         past' = Happened(c, Around(p), Unseen(c, {p}))
  PROVE  Touched(c, Around(p), Unseen(c, {p}), {})
  <1>1. p \in Paths /\ Unseen(c, {p}) \in SUBSET Paths
    BY DEF Files, Unseen
  <1> QED BY <1>1, AroundClosed, HappenedTouched

LEMMA MkDirTouched ==
  ASSUME TypeOK, NEW c \in Clients, NEW d \in Dirs, past' = Happened(c, {d}, {})
  PROVE  Touched(c, {d}, {}, {})
  <1>1. Above(d) = {} /\ {d} \in SUBSET Paths /\ {} \in SUBSET Paths
    BY DirOnTop
  <1>2. \A q \in {d} : Above(q) \subseteq {d}
    BY <1>1
  <1> QED BY <1>1, <1>2, HappenedTouched

LEMMA RemoveTouched ==
  ASSUME TypeOK, NEW c \in Clients, NEW p \in Paths,
         past' = Happened(c, Around(p), Unseen(c, Subtree(p) \cap DOMAIN local[c]))
  PROVE  Touched(c, Around(p), Unseen(c, Subtree(p) \cap DOMAIN local[c]), {})
  <1>1. Unseen(c, Subtree(p) \cap DOMAIN local[c]) \in SUBSET Paths
    BY SubtreeInPaths DEF Unseen
  <1> QED BY <1>1, AroundClosed, HappenedTouched

LEMMA RenameTouched ==
  ASSUME TypeOK, NEW c \in Clients, NEW p \in Paths, NEW q \in Paths,
         past' = [Happened(c, Around(p) \cup Around(q), UntoldByRename(c, p, q))
                    EXCEPT !.moved = @ \cup Around(p) \cup Around(q)]
  PROVE  Touched(c, Around(p) \cup Around(q), UntoldByRename(c, p, q),
                    Around(p) \cup Around(q))
  <1>1. PICK T : T = Around(p) \cup Around(q)
    OBVIOUS
  <1>2. PICK V : V = UntoldByRename(c, p, q)
    OBVIOUS
  <1>3. T \in SUBSET Paths /\ V \in SUBSET Paths /\ \A r \in T : Above(r) \subseteq T
    BY <1>1, <1>2, AroundClosed, SubtreeInPaths DEF UntoldByRename
  <1>4. PICK h : h = Happened(c, T, V)
    OBVIOUS
  <1>5. h \in Past
    BY <1>3, <1>4, HappenedType DEF TypeOK
  <1>6. /\ \A r \in Paths : h.touched[r] = IF r \in T THEN past.touched[r] \cup {c}
                                           ELSE past.touched[r]
        /\ h.lost = past.lost /\ h.unseen = past.unseen \cup V /\ h.moved = past.moved
    BY <1>4 DEF Happened, Past, TypeOK
  <1>7. past' = [h EXCEPT !.moved = @ \cup Around(p) \cup Around(q)]
    BY <1>1, <1>2, <1>4
  <1>8. /\ past'.touched = h.touched /\ past'.lost = h.lost /\ past'.unseen = h.unseen
        /\ past'.moved = h.moved \cup T
    BY <1>1, <1>5, <1>7 DEF Past
  <1>9. Touched(c, T, V, T)
    BY <1>3, <1>6, <1>8 DEF Touched
  <1> QED BY <1>1, <1>2, <1>9

\* Whatever a user does has happened to a path and to the directory it is in.
LEMMA UserPast ==
  ASSUME TypeOK, NEW c \in Clients, User(c)
  PROVE  \E S, V, M : Touched(c, S, V, M)
  <1>0. DOMAIN local[c] \subseteq Paths
    BY DEF TypeOK, IsRooted, IsTree
  <1>1. CASE UserCreate(c) \/ UserWrite(c)
    BY <1>1, CreateTouched DEF UserCreate, UserWrite
  <1>2. CASE UserMkDir(c)
    BY <1>2, MkDirTouched DEF UserMkDir
  <1>3. CASE UserRemove(c)
    BY <1>0, <1>3, RemoveTouched DEF UserRemove
  <1>4. CASE UserRename(c)
    <2>1. PICK p \in DOMAIN local[c], q \in Paths :
            past' = [Happened(c, Around(p) \cup Around(q), UntoldByRename(c, p, q))
                       EXCEPT !.moved = @ \cup Around(p) \cup Around(q)]
      BY <1>4 DEF UserRename
    <2>2. p \in Paths
      BY <1>0
    <2> QED BY <2>1, <2>2, RenameTouched
  <1> QED BY <1>1, <1>2, <1>3, <1>4 DEF User

\* What has happened stays so, and a step is the work of one client's user.
LEMMA StepGrows ==
  ASSUME TypeOK, NEW c \in Clients, Client(c) \/ Server(c) \/ Fail(c) \/ User(c)
  PROVE  Grew /\ \A p \in Paths : past'.touched[p] \subseteq past.touched[p] \cup {c}
  <1>1. CASE User(c)
    BY <1>1, UserPast DEF Grew, Touched
  <1>2. CASE Client(c) \/ Server(c) \/ Fail(c)
    BY <1>2, OthersPast DEF Grew
  <1> QED BY <1>1, <1>2

\* Paths stop being kept and never start to be.
LEMMA KeptShrinks ==
  ASSUME Grew
  PROVE  /\ Kept' \subseteq Kept
         /\ \A c \in Clients : /\ Own(c)' \subseteq Own(c) /\ Foreign(c)' \subseteq Foreign(c)
                               /\ TouchedBy(c) \subseteq TouchedBy(c)'
  <1>1. ASSUME NEW p \in Kept' PROVE p \in Kept
    <2>1. /\ p \in Paths /\ p \notin past'.lost /\ p \notin past'.moved
          /\ \E c \in Clients : past'.touched[p] \subseteq {c}
      BY <1>1 DEF Kept
    <2> QED BY <2>1 DEF Grew, Kept
  <1>2. ASSUME NEW c \in Clients
        PROVE  /\ Own(c)' \subseteq Own(c) /\ Foreign(c)' \subseteq Foreign(c)
               /\ TouchedBy(c) \subseteq TouchedBy(c)'
    <2>1. \A p \in Kept' : p \in Paths
      BY DEF Kept
    <2>2. Own(c)' \subseteq Own(c)
      BY <1>1, <2>1 DEF Own, Grew
    <2>3. Foreign(c)' \subseteq Foreign(c)
      BY <1>1, <2>1 DEF Foreign, Grew
    <2>4. TouchedBy(c) \subseteq TouchedBy(c)'
      BY DEF TouchedBy, Grew
    <2> QED BY <2>2, <2>3, <2>4
  <1> QED BY <1>1, <1>2

\* A kept path is a client's own or others'.
LEMMA KeptOwnForeign ==
  ASSUME NEW c \in Clients, NEW p \in Kept
  PROVE  p \in Own(c) \/ p \in Foreign(c)
  BY DEF Kept, Own, Foreign

\* What is in a kept directory is kept, and nobody else's.
LEMMA KeptBelow ==
  ASSUME PastInv, NEW p \in Kept, NEW q \in Under(p)
  PROVE  /\ q \in Kept /\ past.touched[q] \subseteq past.touched[p]
         /\ \A c \in Clients : p \in Own(c) => q \in Own(c)
  <1>1. p \in Paths /\ q \in Paths /\ p \in Above(q)
    BY AboveUnder DEF Kept, Under
  <1>2. past.touched[q] \subseteq past.touched[p] /\ q \notin past.lost \cup past.moved
    BY <1>1 DEF PastInv, Kept
  <1>3. q \in Kept
    BY <1>1, <1>2 DEF Kept
  <1> QED BY <1>2, <1>3 DEF Own

LEMMA BlamesGrows ==
  ASSUME Grew, NEW c \in Clients, NEW k, NEW p \in Paths, NEW o
  PROVE  /\ Moved(k, p, o) => Moved(k, p, o)'
         /\ Blames(c, k, p, o) => Blames(c, k, p, o)'
  <1>1. Kept' \subseteq Kept /\ TouchedBy(c) \subseteq TouchedBy(c)'
    BY KeptShrinks
  <1>2. Moved(k, p, o) => Moved(k, p, o)'
    BY DEF Moved, Grew
  <1>3. past.touched[p] \subseteq past'.touched[p]
    BY DEF Grew
  <1>4. Blames(c, k, p, o) => Blames(c, k, p, o)'
    BY <1>1, <1>3 DEF Blames
  <1> QED BY <1>2, <1>4

\* What may be said may always be said.
LEMMA BlamesGrow ==
  ASSUME Grew, NEW c \in Clients
  PROVE  /\ ignored[c] \subseteq ignored'[c] => EventsOf(c) \subseteq EventsOf(c)'
         /\ ItemsOf(c) \subseteq ItemsOf(c)'
         /\ RequestsOf(c) \subseteq RequestsOf(c)'
         /\ MessagesFor(c) \subseteq MessagesFor(c)'
  <1>1. ASSUME ignored[c] \subseteq ignored'[c], NEW e \in EventsOf(c) PROVE e \in EventsOf(c)'
    <2>1. e \in Event /\ e.path \in Paths
      BY EventFields DEF EventsOf
    <2> QED BY <1>1, <2>1, BlamesGrows DEF EventsOf
  <1>2. ASSUME NEW e \in ItemsOf(c) PROVE e \in ItemsOf(c)'
    <2>1. e \in Event /\ e.path \in Paths
      BY EventFields DEF ItemsOf
    <2> QED BY <2>1, BlamesGrows DEF ItemsOf
  <1>3. ASSUME NEW r \in RequestsOf(c) PROVE r \in RequestsOf(c)'
    <2>1. r \in Request /\ r.path \in Paths
      BY RequestFields DEF RequestsOf
    <2> QED BY <2>1, BlamesGrows DEF RequestsOf
  <1>4. ASSUME NEW m \in MessagesFor(c) PROVE m \in MessagesFor(c)'
    <2>1. m \in Message /\ m.path \in Paths /\ m.client \in Clients
      BY MessageFields DEF MessagesFor
    <2> QED BY <2>1, BlamesGrows DEF MessagesFor
  <1> QED BY <1>1, <1>2, <1>3, <1>4

-----------------------------------------------------------------------------
(* A step of one client leaves the others alone, but for the queues.        *)

Moves(x) == Client(x) \/ Server(x) \/ Fail(x) \/ User(x)

SameClient(c) ==
  /\ local'[c] = local[c] /\ watched'[c] = watched[c]
  /\ held'[c] = held[c] /\ events'[c] = events[c] /\ channel'[c] = channel[c]
  /\ consumer'[c] = consumer[c] /\ ignored'[c] = ignored[c] /\ proc'[c] = proc[c]

\* A step of one client is no step of another.
LEMMA OthersKept ==
  ASSUME TypeOK, NEW x \in Clients, Moves(x), NEW c \in Clients \ {x}
  PROVE  SameClient(c) /\ (queue'[c] = queue[c] \/ Publish(x))
  <1> USE DEF TypeOK, SameClient
  <1>1. CASE Watch(x) \/ Release(x)
    BY <1>1 DEF Watch, Release, Put
  <1>2. CASE Process(x)
    BY <1>2 DEF Process, Send, AddNew, AddWatch
  <1>3. CASE Handle(x) \/ Fill(x) \/ Publish(x) \/ Fail(x)
    BY <1>3 DEF Handle, Fill, Publish, Fail
  <1>4. CASE Consume(x)
    BY <1>4 DEF Consume, ConsumeNote, ConsumeDir, ConsumeRename, ConsumeRemove, Raise, EndWatch
  <1>5. CASE ConsumeAdd(x) \/ ConsumeCopy(x) \/ ExpireIgnore(x)
    BY <1>5 DEF ConsumeAdd, ConsumeCopy, ExpireIgnore, Raise, AddWatch
  <1>6. CASE UserCreate(x) \/ UserWrite(x) \/ UserMkDir(x)
    BY <1>6 DEF UserCreate, UserWrite, UserMkDir, UserStep, Raise
  <1>7. CASE UserRemove(x)
    BY <1>7 DEF UserRemove, UserStep, Raise, Unlinked, EndWatch
  <1>8. CASE UserRename(x)
    BY <1>8 DEF UserRename, UserStep, Raise, EndWatch
  <1> QED BY <1>1, <1>2, <1>3, <1>4, <1>5, <1>6, <1>7, <1>8 DEF Client, Server, User, Moves

-----------------------------------------------------------------------------
(* Who says what: the steps that pass it on.                                *)

\* What an event is about, by its operation.
LEMMA KindOf ==
  ASSUME NEW e \in Event
  PROVE  /\ EventKind(e) \in {"make", "take", "rename"}
         /\ EventKind(e) = "make" => e.op \in {"CREATE", "WRITE"} /\ e.old = NoPath
         /\ EventKind(e) = "take" => e.op = "REMOVE" /\ e.old = NoPath
         /\ e.op = "RENAME" => e.old = NoPath /\ EventKind(e) = "rename"
         /\ e.op = "WRITE" => e.old = NoPath /\ EventKind(e) = "make"
         /\ e.op = "NECO_RENAME" => e.old \in Paths /\ EventKind(e) = "rename"
         /\ e.op = "CREATE" /\ e.old # NoPath => EventKind(e) = "rename" /\ e.old \in Paths
  <1>1. e.old = NoPath \/ e.old \in Paths
    BY EventFields
  <1> QED BY <1>1, NoPathAssumption DEF Event, EventKind, ToSameKind

LEMMA CreatedKind ==
  ASSUME NEW e \in Event, e.op = "CREATE"
  PROVE  /\ EventKind(Created(e)) = EventKind(e) /\ Created(e) \in Event
         /\ Created(e).path = e.path /\ Created(e).old = e.old
         /\ Created(e).op = "CREATE" => e.old = NoPath
         /\ Created(e).op \in {"CREATE", "NECO_RENAME"}
         /\ e.old = NoPath => Created(e) = e
  <1>1. Created(e) \in Event /\ Created(e).path = e.path
    BY CreatedType
  <1>2. CASE e.old = NoPath
    BY <1>1, <1>2 DEF Created
  <1>3. CASE e.old # NoPath
    <2>1. Created(e) = [e EXCEPT !.op = "NECO_RENAME"]
      BY <1>3 DEF Created
    <2>2. Created(e).op = "NECO_RENAME" /\ Created(e).old = e.old
      BY <2>1 DEF Event, ToSameKind
    <2> QED BY <1>1, <1>3, <2>2 DEF EventKind
  <1> QED BY <1>2, <1>3

\* A message is about what its request was about.
LEMMA AnnouncementFields ==
  ASSUME TypeOK, NEW c \in Clients, proc[c].pc # "idle"
  PROVE  /\ Announcement(c) \in Message /\ Announcement(c).client = c
         /\ Announcement(c).path = proc[c].req.path /\ Announcement(c).old = proc[c].req.old
         /\ MessageKind(Announcement(c)) = RequestKind(proc[c].req)
         /\ Announcement(c).event = "CREATE" <=> proc[c].req.op \in {"upload", "mkdir"}
         /\ Announcement(c).event = "REMOVE" <=> proc[c].req.op = "remove"
  <1>1. PICK r \in Request : r = proc[c].req
    BY DEF TypeOK, ProcState
  <1>2. Announcement(c) \in Message
    BY <1>1, AnnouncementType
  <1>3. PICK ev : ev = CASE r.op \in {"upload", "mkdir"} -> "CREATE"
                         [] r.op = "rename" -> "NECO_RENAME"
                         [] r.op = "remove" -> "REMOVE"
    OBVIOUS
  <1>4. r.op \in {"upload", "mkdir", "remove", "rename"}
    BY RequestFields
  <1>5. Announcement(c) = [client |-> c, path |-> r.path, old |-> r.old, event |-> ev]
    BY <1>1, <1>3 DEF Announcement
  <1> QED BY <1>1, <1>2, <1>3, <1>4, <1>5 DEF MessageKind, RequestKind

LEMMA BlameOthers ==
  ASSUME TypeOK, BlameInv, NEW x \in Clients, Moves(x), NEW c \in Clients \ {x}
  PROVE  BlameOf(c)'
  <1>1. Grew /\ BlameOf(c) /\ BlameOf(x)
    BY StepGrows DEF BlameInv, Moves
  <1>2. SameClient(c) /\ (queue'[c] = queue[c] \/ Publish(x))
    BY OthersKept
  <1>3. /\ EventsOf(c) \subseteq EventsOf(c)' /\ ItemsOf(c) \subseteq ItemsOf(c)'
        /\ RequestsOf(c) \subseteq RequestsOf(c)' /\ MessagesFor(c) \subseteq MessagesFor(c)'
    BY <1>1, <1>2, BlamesGrow DEF SameClient
  <1>4. TouchedBy(c) \subseteq TouchedBy(c)'
    BY <1>1, KeptShrinks
  <1>5. queue'[c] \in Seq(MessagesFor(c))
    <2>1. CASE queue'[c] = queue[c]
      BY <1>1, <2>1 DEF BlameOf
    <2>2. CASE Publish(x)
      <3>1. queue'[c] = Append(queue[c], Announcement(x)) /\ proc[x].pc # "idle"
        BY <2>2 DEF Publish
      <3>2. proc[x].req \in RequestsOf(x)
        BY <1>1, <3>1 DEF BlameOf
      <3>3. Announcement(x) \in MessagesFor(c)
        BY <3>1, <3>2, AnnouncementFields DEF RequestsOf, MessagesFor
      <3> QED BY <1>1, <3>1, <3>3, AppendType DEF BlameOf
    <2> QED BY <1>2, <2>1, <2>2
  <1>6. events'[c] \in Seq(EventsOf(c)')
    BY <1>1, <1>2, <1>3, EveryInSeq DEF BlameOf, SameClient
  <1>7. channel'[c] \in Seq(ItemsOf(c)')
    BY <1>1, <1>2, <1>3, EveryInSeq DEF BlameOf, SameClient
  <1>8. queue'[c] \in Seq(MessagesFor(c)')
    BY <1>3, <1>5, EveryInSeq
  <1>9. /\ held'[c] \subseteq TouchedBy(c)'
        /\ proc'[c].pc # "idle" => proc'[c].req \in RequestsOf(c)'
    BY <1>1, <1>2, <1>3, <1>4 DEF BlameOf, SameClient
  <1> QED BY <1>6, <1>7, <1>8, <1>9 DEF BlameOf

LEMMA BlameWatch ==
  ASSUME TypeOK, NEW c \in Clients, BlameOf(c), Watch(c)
  PROVE  BlameOf(c)'
  <1>1. PICK e \in EventsOf(c) : e = Head(events[c])
    BY HeadTailType DEF BlameOf, Watch
  <1>2. events[c] # <<>> /\ events'[c] = Tail(events[c])
    BY DEF Watch, TypeOK
  <1>3. /\ UNCHANGED <<past, ignored, proc, queue>>
    BY DEF Watch
  <1>4. /\ EventsOf(c)' = EventsOf(c) /\ ItemsOf(c)' = ItemsOf(c)
        /\ RequestsOf(c)' = RequestsOf(c) /\ MessagesFor(c)' = MessagesFor(c)
        /\ TouchedBy(c)' = TouchedBy(c)
    BY <1>3 DEF EventsOf, ItemsOf, RequestsOf, MessagesFor, TouchedBy, Moved, Blames, Kept
  <1>5. events'[c] \in Seq(EventsOf(c))
    BY <1>2, HeadTailType DEF BlameOf
  <1>6. held'[c] \subseteq TouchedBy(c) /\ channel'[c] \in Seq(ItemsOf(c))
    <2>1. CASE UNCHANGED <<held, channel>>
      BY <2>1 DEF BlameOf
    <2>2. CASE e.path \notin ignored[c]
      <3>1. /\ e \in Event /\ Moved(EventKind(e), e.path, e.old)
            /\ Blames(c, EventKind(e), e.path, e.old)
        BY <2>2 DEF EventsOf
      <3>2. CASE e.op = "WRITE"
        <4>1. held'[c] = held[c] \cup {e.path} /\ channel' = channel
          BY <1>1, <2>2, <3>2 DEF Watch, TypeOK
        <4>2. e.path \in TouchedBy(c)
          <5>1. e.path \in Files /\ EventKind(e) = "make"
            BY <3>1, <3>2, KindOf, EventFields
          <5> QED BY <3>1, <5>1 DEF Blames, Files
        <4> QED BY <4>1, <4>2 DEF BlameOf
      <3>3. CASE e.op = "CREATE"
        <4>1. held' = held /\ channel'[c] = Append(channel[c], Created(e))
          BY <1>1, <2>2, <3>3 DEF Watch, TypeOK, Put
        <4>2. Created(e) \in ItemsOf(c)
          BY <3>1, <3>3, CreatedKind DEF ItemsOf
        <4> QED BY <4>1, <4>2, AppendType DEF BlameOf
      <3>4. CASE e.op = "RENAME"
        <4>1. held'[c] = held[c] \ {e.path} /\ channel' = channel
          BY <1>1, <2>2, <3>4 DEF Watch, TypeOK
        <4> QED BY <4>1 DEF BlameOf
      <3>5. CASE e.op = "REMOVE"
        <4>1. held'[c] = held[c] \ {e.path} /\ channel'[c] = Append(channel[c], e)
          BY <1>1, <2>2, <3>5 DEF Watch, TypeOK, Put
        <4>2. e \in ItemsOf(c)
          BY <3>1, <3>5 DEF ItemsOf
        <4> QED BY <4>1, <4>2, AppendType DEF BlameOf
      <3> QED BY <1>1, <2>2, <3>2, <3>3, <3>4, <3>5 DEF Watch
    <2> QED BY <1>1, <2>1, <2>2 DEF Watch
  <1> QED BY <1>3, <1>4, <1>5, <1>6 DEF BlameOf

LEMMA BlameRelease ==
  ASSUME TypeOK, NEW c \in Clients, BlameOf(c), Release(c)
  PROVE  BlameOf(c)'
  <1>1. PICK p \in held[c] : /\ held' = [held EXCEPT ![c] = @ \ {p}]
                             /\ Put(c, FsEvent("WRITE", p))
    BY DEF Release
  <1>2. p \in TouchedBy(c) /\ p \in Files /\ p \in Paths
    BY DEF BlameOf, TypeOK, Files
  <1>3. UNCHANGED <<past, ignored, proc, queue, events>>
    BY DEF Release
  <1>4. /\ EventsOf(c)' = EventsOf(c) /\ ItemsOf(c)' = ItemsOf(c)
        /\ RequestsOf(c)' = RequestsOf(c) /\ MessagesFor(c)' = MessagesFor(c)
        /\ TouchedBy(c)' = TouchedBy(c)
    BY <1>3 DEF EventsOf, ItemsOf, RequestsOf, MessagesFor, TouchedBy, Moved, Blames, Kept
  <1>5. PICK e \in Event : e = FsEvent("WRITE", p)
    BY <1>2, EventTypes
  <1>6. e.path = p /\ e.old = NoPath /\ e.op = "WRITE" /\ EventKind(e) = "make"
    BY <1>5 DEF FsEvent, EventKind
  <1>7. e \in ItemsOf(c)
    BY <1>2, <1>6 DEF ItemsOf, Moved, Blames, TouchedBy
  <1>8. held'[c] = held[c] \ {p} /\ channel'[c] = Append(channel[c], e)
    BY <1>1, <1>5 DEF TypeOK, Put
  <1>9. channel'[c] \in Seq(ItemsOf(c))
    BY <1>7, <1>8, AppendType DEF BlameOf
  <1> QED BY <1>3, <1>4, <1>8, <1>9 DEF BlameOf

LEMMA BlameProcess ==
  ASSUME TypeOK, NEW c \in Clients, BlameOf(c), Process(c)
  PROVE  BlameOf(c)'
  <1>1. PICK e \in ItemsOf(c) : e = Head(channel[c])
    BY HeadTailType DEF BlameOf, Process
  <1>2. channel[c] # <<>> /\ channel'[c] = Tail(channel[c])
    BY DEF Process, TypeOK
  <1>3. UNCHANGED <<past, ignored, events, held, queue>>
    BY DEF Process
  <1>4. /\ EventsOf(c)' = EventsOf(c) /\ ItemsOf(c)' = ItemsOf(c)
        /\ RequestsOf(c)' = RequestsOf(c) /\ MessagesFor(c)' = MessagesFor(c)
        /\ TouchedBy(c)' = TouchedBy(c)
    BY <1>3 DEF EventsOf, ItemsOf, RequestsOf, MessagesFor, TouchedBy, Moved, Blames, Kept
  <1>5. channel'[c] \in Seq(ItemsOf(c))
    BY <1>2, HeadTailType DEF BlameOf
  <1>6. /\ e \in Event /\ e.path \in Paths
        /\ Moved(EventKind(e), e.path, e.old) /\ Blames(c, EventKind(e), e.path, e.old)
        /\ e.op \in {"CREATE", "WRITE"} => e.old = NoPath /\ EventKind(e) = "make"
    BY EventFields DEF ItemsOf, EventKind
  <1>7. ASSUME NEW op, NEW o, NEW body, Send(c, op, e.path, o, body),
               proc' \in [Clients -> ProcState],
               o = e.old, RequestKind([op |-> op, path |-> e.path, old |-> o, body |-> body])
                            = EventKind(e),
               op = "upload" => e.path \in Files, op = "mkdir" => e.path \in Dirs
        PROVE  proc'[c].req \in RequestsOf(c)
    <2>1. PICK r : r = [op |-> op, path |-> e.path, old |-> o, body |-> body]
      OBVIOUS
    <2>2. proc'[c].req = r /\ proc'[c].pc = "send"
      BY <1>7, <2>1 DEF Send, TypeOK
    <2>3. r \in Request
      BY <1>7, <2>2 DEF ProcState
    <2>4. r.op = op /\ r.path = e.path /\ r.old = e.old /\ RequestKind(r) = EventKind(e)
      BY <1>7, <2>1
    <2> QED BY <1>6, <1>7, <2>2, <2>3, <2>4 DEF RequestsOf
  <1>8. proc'[c].pc # "idle" => proc'[c].req \in RequestsOf(c)
    <2>0. proc' \in [Clients -> ProcState]
      BY ProcessType DEF TypeOK
    <2>1. CASE proc' = proc
      BY <2>1 DEF Process
    <2>2. CASE /\ e.op \in {"CREATE", "WRITE"} /\ e.path \in Files
               /\ Send(c, "upload", e.path, NoPath, local[c][e.path].body)
      BY <1>6, <1>7, <2>0, <2>2 DEF RequestKind
    <2>3. CASE e.op = "CREATE" /\ e.path \in Dirs /\ Send(c, "mkdir", e.path, NoPath, NoBody)
      BY <1>6, <1>7, <2>0, <2>3 DEF RequestKind
    <2>4. CASE e.op = "NECO_RENAME" /\ Send(c, "rename", e.path, e.old, NoBody)
      BY <1>6, <1>7, <2>0, <2>4, KindOf DEF RequestKind
    <2>5. CASE e.op = "REMOVE" /\ Send(c, "remove", e.path, NoPath, NoBody)
      BY <1>6, <1>7, <2>0, <2>5, KindOf DEF RequestKind, EventKind
    <2> QED BY <1>1, <2>1, <2>2, <2>3, <2>4, <2>5 DEF Process
  <1> QED BY <1>3, <1>4, <1>5, <1>8 DEF BlameOf

\* What the server and a failure do to who says what: nothing.
LEMMA BlameHandle ==
  ASSUME TypeOK, NEW c \in Clients, BlameOf(c),
         Handle(c) \/ Fill(c) \/ Publish(c) \/ Fail(c)
  PROVE  BlameOf(c)'
  <1>1. Grew
    BY StepGrows DEF Server
  <1>2. /\ events' = events /\ channel' = channel /\ held' = held /\ ignored' = ignored
        /\ queue'[c] = queue[c]
    BY DEF Handle, Fill, Publish, Fail
  <1>3. proc'[c].pc = "idle" \/ (proc[c].pc # "idle" /\ proc'[c].req = proc[c].req)
    <2>1. CASE proc' = [proc EXCEPT ![c] = Idle]
      BY <2>1 DEF TypeOK, Idle
    <2>2. ASSUME NEW pc, proc' = [proc EXCEPT ![c].pc = pc], proc[c].pc # "idle"
          PROVE  proc'[c].req = proc[c].req
      <3>1. proc[c] \in [pc : {"send", "fill", "publish"}, req : Request]
        BY <2>2 DEF TypeOK, ProcState
      <3> QED BY <2>2, <3>1 DEF TypeOK
    <2>3. CASE Handle(c) \/ Fill(c)
      BY <2>1, <2>2, <2>3 DEF Handle, Fill
    <2> QED BY <2>1, <2>3 DEF Publish, Fail
  <1>4. /\ EventsOf(c) \subseteq EventsOf(c)' /\ ItemsOf(c) \subseteq ItemsOf(c)'
        /\ RequestsOf(c) \subseteq RequestsOf(c)' /\ MessagesFor(c) \subseteq MessagesFor(c)'
        /\ TouchedBy(c) \subseteq TouchedBy(c)'
    BY <1>1, <1>2, BlamesGrow, KeptShrinks
  <1>5. events'[c] \in Seq(EventsOf(c)') /\ channel'[c] \in Seq(ItemsOf(c)')
    BY <1>2, <1>4, EveryInSeq DEF BlameOf
  <1>6. queue'[c] \in Seq(MessagesFor(c)')
    BY <1>2, <1>4, EveryInSeq DEF BlameOf
  <1> QED BY <1>2, <1>3, <1>4, <1>5, <1>6 DEF BlameOf

-----------------------------------------------------------------------------
(* ... and the steps that raise events.                                     *)

LEMMA FsEventKind ==
  ASSUME NEW p \in Paths, NEW op \in {"CREATE", "RENAME", "REMOVE", "WRITE"},
         op = "WRITE" => p \in Files
  PROVE  /\ FsEvent(op, p) \in Event /\ FsEvent(op, p).path = p /\ FsEvent(op, p).op = op
         /\ FsEvent(op, p).old = NoPath
         /\ EventKind(FsEvent(op, p)) = IF op = "REMOVE" THEN "take"
                                        ELSE IF op = "RENAME" THEN "rename" ELSE "make"
  <1>1. FsEvent(op, p) \in Event
    BY EventTypes
  <1> QED BY <1>1 DEF FsEvent, EventKind

LEMMA RenamedKind ==
  ASSUME NEW p \in Paths, NEW q \in Paths, SameKind(p, q)
  PROVE  /\ Renamed("CREATE", p, q) \in Event /\ Renamed("CREATE", p, q).path = q
         /\ Renamed("CREATE", p, q).old = p /\ Renamed("CREATE", p, q).op = "CREATE"
         /\ EventKind(Renamed("CREATE", p, q)) = "rename"
  <1>1. Renamed("CREATE", p, q) \in Event
    BY EventTypes
  <1> QED BY <1>1, NoPathAssumption DEF Renamed, EventKind

LEMMA BlameRaise ==
  ASSUME TypeOK, NEW c \in Clients, BlameOf(c), Grew, ignored[c] \subseteq ignored'[c],
         NEW es \in Seq(EventsOf(c)'), Raise(c, es),
         UNCHANGED <<channel, held, proc>>, queue'[c] \in Seq(MessagesFor(c))
  PROVE  BlameOf(c)'
  <1>1. /\ EventsOf(c) \subseteq EventsOf(c)' /\ ItemsOf(c) \subseteq ItemsOf(c)'
        /\ RequestsOf(c) \subseteq RequestsOf(c)' /\ MessagesFor(c) \subseteq MessagesFor(c)'
        /\ TouchedBy(c) \subseteq TouchedBy(c)'
    BY BlamesGrow, KeptShrinks
  <1>2. events'[c] = events[c] \o es
    BY DEF Raise, TypeOK
  <1>3. events[c] \in Seq(EventsOf(c)')
    BY <1>1, EveryInSeq DEF BlameOf
  <1>4. events'[c] \in Seq(EventsOf(c)')
    BY <1>2, <1>3, ConcatType
  <1>5. channel'[c] \in Seq(ItemsOf(c)') /\ queue'[c] \in Seq(MessagesFor(c)')
    BY <1>1, EveryInSeq DEF BlameOf
  <1> QED BY <1>1, <1>4, <1>5 DEF BlameOf

\* What a message is about leaves what it does not name alone.
LEMMA MessageFits ==
  ASSUME TypeOK, BlameInv, QueueInv, NEW c \in Clients, Consume(c)
  PROVE  \E m \in MessagesFor(c) :
           /\ m = Head(queue[c]) /\ m \in Message /\ m.path \in Paths /\ m.client \in Clients \ {c}
           /\ \A p \in Foreign(c) :
                Fitting(m, DOMAIN local[c], p, RemovingMessages, MakingMessages)
           /\ queue'[c] = Tail(queue[c]) /\ queue'[c] \in Seq(MessagesFor(c))
           /\ \A x \in Clients \ {c} : queue'[x] = queue[x]
           /\ ignored'[c] = ignored[c] \cup IgnoredBy(m)
           /\ m.path \in ignored'[c] /\ (m.event = "NECO_RENAME" => m.old \in ignored'[c])
  <1>1. queue[c] \in Seq(MessagesFor(c)) /\ queue[c] # <<>>
    BY DEF BlameInv, BlameOf, Consume
  <1>2. PICK m \in MessagesFor(c) : m = Head(queue[c])
    BY <1>1, HeadTailType
  <1>3. m \in Message /\ m.path \in Paths /\ m.client \in Clients /\ m.client # c
    BY MessageFields DEF MessagesFor
  <1>4. ASSUME NEW p \in Foreign(c)
        PROVE  Fitting(m, DOMAIN local[c], p, RemovingMessages, MakingMessages)
    <2>1. Fits(queue[c], DOMAIN local[c], p, RemovingMessages, MakingMessages)
      BY <1>4 DEF QueueInv, QueueOf
    <2>2. DOMAIN local[c] \in SUBSET Paths
      BY DEF TypeOK, IsRooted, IsTree
    <2> QED BY <1>1, <1>2, <2>1, <2>2, FitsTail
  <1>5. /\ queue'[c] = Tail(queue[c]) /\ \A x \in Clients \ {c} : queue'[x] = queue[x]
        /\ ignored'[c] = ignored[c] \cup IgnoredBy(m)
    BY <1>2 DEF Consume, TypeOK
  <1>6. queue'[c] \in Seq(MessagesFor(c))
    BY <1>1, <1>5, HeadTailType
  <1>7. m.event = "NECO_RENAME" => m.old # NoPath
    BY <1>3, MessageFields, NoPathAssumption
  <1>8. m.path \in ignored'[c] /\ (m.event = "NECO_RENAME" => m.old \in ignored'[c])
    BY <1>5, <1>7 DEF IgnoredBy
  <1> QED BY <1>2, <1>3, <1>4, <1>5, <1>6, <1>8

LEMMA BlameConsume ==
  ASSUME TypeOK, BlameInv, QueueInv, NEW c \in Clients, Consume(c)
  PROVE  BlameOf(c)'
  <1>1. PICK m \in MessagesFor(c) :
           /\ m = Head(queue[c]) /\ m \in Message /\ m.path \in Paths
           /\ \A p \in Foreign(c) :
                Fitting(m, DOMAIN local[c], p, RemovingMessages, MakingMessages)
           /\ queue'[c] \in Seq(MessagesFor(c))
           /\ ignored'[c] = ignored[c] \cup IgnoredBy(m)
           /\ m.path \in ignored'[c] /\ (m.event = "NECO_RENAME" => m.old \in ignored'[c])
    BY MessageFits
  <1>2. Grew /\ BlameOf(c)
    BY StepGrows DEF Client, BlameInv
  <1>3. UNCHANGED <<channel, held, proc>>
    BY DEF Consume
  <1>4. ASSUME NEW p \in Kept', p \notin Foreign(c) PROVE c \in past'.touched[p]
    <2>1. p \in Kept /\ p \in Paths
      BY <1>2, KeptShrinks DEF Kept
    <2>2. c \in past.touched[p]
      BY <1>4, <2>1 DEF Foreign
    <2> QED BY <1>2, <2>1, <2>2 DEF Grew
  <1>5. \A e \in Event : /\ e.path \in ignored'[c] /\ Moved(EventKind(e), e.path, e.old)'
                         => e \in EventsOf(c)'
    BY DEF EventsOf
  <1>6. ASSUME NEW op \in {"CREATE", "REMOVE", "WRITE"}, op = "WRITE" => m.path \in Files
        PROVE  FsEvent(op, m.path) \in EventsOf(c)'
    <2>1. PICK e \in Event : e = FsEvent(op, m.path)
      BY <1>1, <1>6, FsEventKind
    <2>2. e.path = m.path /\ EventKind(e) # "rename"
      BY <1>1, <1>6, <2>1, FsEventKind
    <2> QED BY <1>1, <1>5, <2>1, <2>2 DEF Moved
  <1>7. CASE m.event = "CREATE" /\ m.path \in Files /\ ConsumeNote(c, m.path)
    <2> DEFINE p   == m.path
               A   == Above(p) \ DOMAIN local[c]
               one == SeeAll(c, "CREATE", A)
               two == See(c, IF p \in DOMAIN local[c] THEN "WRITE" ELSE "CREATE", p)
    <2>1. m \in MakingMessages
      BY <1>1, <1>7 DEF MakingMessages, MessageKind
    <2>2. ASSUME NEW d \in A PROVE FsEvent("CREATE", d) \in EventsOf(c)'
      <3>1. d \in Dirs /\ d \in Paths /\ p \in Under(d)
        BY <1>1, PathsAssumption, AboveUnder
      <3>2. d \notin Foreign(c)
        BY <1>1, <2>1, <2>2, <3>1 DEF Fitting
      <3>3. PICK e \in Event : e = FsEvent("CREATE", d)
        BY <3>1, FsEventKind
      <3>4. e.path = d /\ EventKind(e) = "make"
        BY <3>1, <3>3, FsEventKind
      <3>5. Blames(c, "make", d, e.old)' /\ Moved("make", d, e.old)'
        BY <1>4, <3>1, <3>2 DEF Blames, Moved
      <3> QED BY <3>3, <3>4, <3>5 DEF EventsOf
    <2>3. one \in Seq({FsEvent("CREATE", d) : d \in A})
      BY SeeAllEvents DEF Above
    <2>4. {FsEvent("CREATE", d) : d \in A} \subseteq EventsOf(c)'
      BY <2>2
    <2>5. two \in Seq(EventsOf(c)')
      BY <1>6, <1>7, SeeEvents
    <2>6. Raise(c, one \o two)
      BY <1>7 DEF ConsumeNote
    <2> HIDE DEF one, two, A
    <2>7. one \o two \in Seq(EventsOf(c)')
      BY <2>3, <2>4, <2>5, EveryInSeq, ConcatType
    <2> QED BY <1>1, <1>2, <1>3, <2>6, <2>7, BlameRaise
  <1>8. CASE m.event = "CREATE" /\ m.path \in Dirs /\ ConsumeDir(c, m.path)
    <2> DEFINE es == IF m.path \in DOMAIN local[c] THEN <<>> ELSE See(c, "CREATE", m.path)
    <2>1. See(c, "CREATE", m.path) \in Seq(EventsOf(c)') /\ <<>> \in Seq(EventsOf(c)')
      BY <1>6, SeeEvents, SingleType
    <2>2. Raise(c, es) /\ es \in Seq(EventsOf(c)')
      BY <1>8, <2>1 DEF ConsumeDir
    <2> HIDE DEF es
    <2> QED BY <1>1, <1>2, <1>3, <2>2, BlameRaise
  <1>9. CASE m.event = "NECO_RENAME" /\ ConsumeRename(c, m.old, m.path)
    <2>1. CASE ~CanMove(local[c], m.old, m.path)
      <3>1. events' = events
        BY <1>9, <2>1 DEF ConsumeRename
      <3>2. events' = [events EXCEPT ![c] = @ \o <<>>]
        BY <3>1 DEF TypeOK
      <3>3. Raise(c, <<>>) /\ <<>> \in Seq(EventsOf(c)')
        BY <3>2, SingleType DEF Raise
      <3> QED BY <1>1, <1>2, <1>3, <3>3, BlameRaise
    <2>2. CASE CanMove(local[c], m.old, m.path)
      <3>1. m.old \in Paths /\ SameKind(m.old, m.path) /\ m.old # NoPath
        BY <1>1, <1>9, MessageFields, NoPathAssumption
      <3>2. /\ Subtree(m.path) \subseteq past.moved /\ Subtree(m.old) \subseteq past.moved
            /\ m.path # NoPath
        BY <1>1, <1>9, <3>1, NoPathAssumption DEF MessagesFor, Moved, MessageKind
      <3>3. past.moved \subseteq past'.moved
        BY <1>2 DEF Grew
      <3>4. SeeRename(c, m.old, m.path) \in
              Seq({FsEvent("RENAME", m.old), FsEvent("CREATE", m.path),
                   Renamed("CREATE", m.old, m.path)})
        BY SeeRenameEvents
      <3>5. FsEvent("RENAME", m.old) \in EventsOf(c)'
        <4>1. PICK e \in Event : e = FsEvent("RENAME", m.old)
          BY <3>1, FsEventKind
        <4>2. e.path = m.old /\ e.old = NoPath
          BY <3>1, <4>1, FsEventKind
        <4>3. Moved(EventKind(e), m.old, NoPath)'
          BY <3>2, <3>3 DEF Moved
        <4> QED BY <1>1, <1>5, <1>9, <4>1, <4>2, <4>3
      <3>6. Renamed("CREATE", m.old, m.path) \in EventsOf(c)'
        <4>1. PICK e \in Event : e = Renamed("CREATE", m.old, m.path)
          BY <1>1, <3>1, RenamedKind
        <4>2. e.path = m.path /\ e.old = m.old
          BY <1>1, <3>1, <4>1, RenamedKind
        <4>3. Moved(EventKind(e), m.path, m.old)'
          BY <3>2, <3>3 DEF Moved
        <4> QED BY <1>1, <1>5, <4>1, <4>2, <4>3
      <3>7. FsEvent("CREATE", m.path) \in EventsOf(c)'
        BY <1>6
      <3>8. SeeRename(c, m.old, m.path) \in Seq(EventsOf(c)')
        BY <3>4, <3>5, <3>6, <3>7, EveryInSeq
      <3>9. Raise(c, SeeRename(c, m.old, m.path))
        BY <1>9, <2>2 DEF ConsumeRename
      <3> QED BY <1>1, <1>2, <1>3, <3>8, <3>9, BlameRaise
    <2> QED BY <2>1, <2>2
  <1>10. CASE m.event = "REMOVE" /\ ConsumeRemove(c, m.path)
    <2> DEFINE S == DOMAIN local[c] \cap Under(m.path)
               one == SeeAll(c, "REMOVE", S)
               two == IF m.path \in DOMAIN local[c] THEN See(c, "REMOVE", m.path) ELSE <<>>
    <2>1. m \in RemovingMessages
      BY <1>1, <1>10 DEF RemovingMessages, MessageKind
    <2>2. ASSUME NEW r \in S PROVE FsEvent("REMOVE", r) \in EventsOf(c)'
      <3>1. r \in Paths /\ m.path \in Above(r)
        BY <1>1, <2>2, AboveUnder DEF Under
      <3>2. r \notin Foreign(c)
        BY <1>1, <2>1, <2>2, <3>1 DEF Fitting
      <3>3. PICK e \in Event : e = FsEvent("REMOVE", r)
        BY <3>1, FsEventKind
      <3>4. e.path = r /\ EventKind(e) = "take"
        BY <3>1, <3>3, FsEventKind
      <3>5. Blames(c, "take", r, e.old)' /\ Moved("take", r, e.old)'
        BY <1>4, <3>1, <3>2 DEF Blames, Moved
      <3> QED BY <3>3, <3>4, <3>5 DEF EventsOf
    <2>3. one \in Seq({FsEvent("REMOVE", d) : d \in S})
      BY SeeAllEvents DEF Under
    <2>4. {FsEvent("REMOVE", d) : d \in S} \subseteq EventsOf(c)'
      BY <2>2
    <2>5. two \in Seq(EventsOf(c)')
      <3>1. See(c, "REMOVE", m.path) \in Seq(EventsOf(c)') /\ <<>> \in Seq(EventsOf(c)')
        BY <1>6, SeeEvents, SingleType
      <3> QED BY <3>1
    <2>6. Raise(c, one \o two)
      BY <1>10 DEF ConsumeRemove, SeeRemoval
    <2> HIDE DEF one, two, S
    <2>7. one \o two \in Seq(EventsOf(c)')
      BY <2>3, <2>4, <2>5, EveryInSeq, ConcatType
    <2> QED BY <1>1, <1>2, <1>3, <2>6, <2>7, BlameRaise
  <1> QED BY <1>1, <1>7, <1>8, <1>9, <1>10 DEF Consume

-----------------------------------------------------------------------------
(* ... those of the consumer's timer and of the users.                      *)

LEMMA EachInSeq ==
  ASSUME NEW S, NEW T, NEW s \in Seq(S), \A i \in DOMAIN s : s[i] \in T
  PROVE  s \in Seq(T)
  OBVIOUS

LEMMA BlameAdd ==
  ASSUME TypeOK, NEW c \in Clients, BlameOf(c), ConsumeAdd(c)
  PROVE  BlameOf(c)'
  <1>1. UNCHANGED <<past, ignored, proc, queue, events, held, channel>>
    BY DEF ConsumeAdd
  <1>2. /\ EventsOf(c)' = EventsOf(c) /\ ItemsOf(c)' = ItemsOf(c)
        /\ RequestsOf(c)' = RequestsOf(c) /\ MessagesFor(c)' = MessagesFor(c)
        /\ TouchedBy(c)' = TouchedBy(c)
    BY <1>1 DEF EventsOf, ItemsOf, RequestsOf, MessagesFor, TouchedBy, Moved, Blames, Kept
  <1> QED BY <1>1, <1>2 DEF BlameOf

\* The download writes to a file that is ignored or that the client's user has made.
LEMMA BlameCopy ==
  ASSUME TypeOK, FileInv, NEW c \in Clients, BlameOf(c), ConsumeCopy(c)
  PROVE  BlameOf(c)'
  <1>1. UNCHANGED <<past, ignored, channel, held, proc, queue>>
    BY DEF ConsumeCopy
  <1>2. Grew
    BY StepGrows DEF Client
  <1>3. PICK es \in Seq(EventsOf(c)') : Raise(c, es)
    <2>1. CASE consumer[c].file = NoPath
      <3>1. events' = [events EXCEPT ![c] = @ \o <<>>]
        BY <2>1 DEF ConsumeCopy, TypeOK
      <3>2. <<>> \in Seq(EventsOf(c)')
        BY SingleType
      <3> QED BY <3>1, <3>2 DEF Raise
    <2>2. CASE consumer[c].file # NoPath
      <3>1. PICK q \in Files : q = consumer[c].file /\ q \in ignored[c] \cup TouchedBy(c)
        BY <2>2, ConsumerFields DEF FileInv, FileOf, TypeOK
      <3>2. PICK e \in Event : e = FsEvent("WRITE", q)
        BY FsEventKind DEF Files
      <3>3. e.path = q /\ EventKind(e) = "make" /\ q \in Paths
        BY <3>2, FsEventKind DEF Files
      <3>4. e \in EventsOf(c)
        BY <3>1, <3>3 DEF EventsOf, Moved, Blames, TouchedBy
      <3>5. e \in EventsOf(c)'
        BY <1>1, <1>2, <3>4, BlamesGrow
      <3>6. Raise(c, See(c, "WRITE", q))
        BY <2>2, <3>1 DEF ConsumeCopy
      <3>7. See(c, "WRITE", q) \in Seq(EventsOf(c)')
        BY <3>2, <3>5, SeeEvents
      <3> QED BY <3>6, <3>7
    <2> QED BY <2>1, <2>2
  <1>4. queue'[c] \in Seq(MessagesFor(c))
    BY <1>1 DEF BlameOf
  <1> QED BY <1>1, <1>2, <1>3, <1>4, BlameRaise

\* What is ignored no more is not about to be seen.
LEMMA BlameExpire ==
  ASSUME Prompt, TypeOK, NEW c \in Clients, BlameOf(c), ExpireIgnore(c)
  PROVE  BlameOf(c)'
  <1>1. PICK p \in ignored[c] : /\ ~Echoing(c, p)
                                /\ ignored' = [ignored EXCEPT ![c] = @ \ {p}]
    BY DEF ExpireIgnore
  <1>2. UNCHANGED <<past, proc, queue, events, held, channel>>
    BY DEF ExpireIgnore
  <1>3. /\ ItemsOf(c)' = ItemsOf(c) /\ RequestsOf(c)' = RequestsOf(c)
        /\ MessagesFor(c)' = MessagesFor(c) /\ TouchedBy(c)' = TouchedBy(c)
    BY <1>2 DEF ItemsOf, RequestsOf, MessagesFor, TouchedBy, Moved, Blames, Kept
  <1>4. ignored'[c] = ignored[c] \ {p}
    BY <1>1 DEF TypeOK
  <1>5. \A i \in DOMAIN events[c] : events[c][i].path # p
    BY <1>1 DEF Echoing
  <1>6. \A e \in EventsOf(c) : e.path # p => e \in EventsOf(c)'
    BY <1>2, <1>4 DEF EventsOf, Moved, Blames, Kept, TouchedBy
  <1>7. events[c] \in Seq(EventsOf(c))
    BY DEF BlameOf
  <1>8. \A i \in DOMAIN events[c] : events[c][i] \in EventsOf(c)'
    BY <1>5, <1>6, <1>7
  <1>9. events[c] \in Seq(EventsOf(c)')
    BY <1>7, <1>8, EachInSeq
  <1> QED BY <1>2, <1>3, <1>9 DEF BlameOf

\* What a user does, the user has done.
LEMMA TouchedBlames ==
  ASSUME NEW c \in Clients, NEW S, NEW V, NEW M, Touched(c, S, V, M), NEW e \in Event
  PROVE  /\ EventKind(e) = "make" /\ e.path \in S => e \in EventsOf(c)'
         /\ EventKind(e) = "take" /\ Subtree(e.path) \subseteq S => e \in EventsOf(c)'
         /\ /\ EventKind(e) = "rename"
            /\ \A q \in {e.path, e.old} \ {NoPath} : Subtree(q) \subseteq M
            => e \in EventsOf(c)'
  <1>1. e.path \in Paths /\ e.path # NoPath /\ e.path \in Subtree(e.path)
    BY EventFields, NoPathAssumption DEF Subtree
  <1>2. S \subseteq TouchedBy(c)' /\ M \subseteq S /\ M \subseteq past'.moved
    BY DEF Touched, TouchedBy
  <1>3. ASSUME EventKind(e) = "make", e.path \in S PROVE e \in EventsOf(c)'
    BY <1>1, <1>2, <1>3 DEF EventsOf, Moved, Blames, TouchedBy
  <1>4. ASSUME EventKind(e) = "take", Subtree(e.path) \subseteq S PROVE e \in EventsOf(c)'
    <2>1. e.path \in TouchedBy(c)' /\ Subtree(e.path) \subseteq TouchedBy(c)'
      BY <1>1, <1>2, <1>4
    <2> QED BY <1>4, <2>1 DEF EventsOf, Moved, Blames, TouchedBy
  <1>5. ASSUME EventKind(e) = "rename",
               \A q \in {e.path, e.old} \ {NoPath} : Subtree(q) \subseteq M
        PROVE  e \in EventsOf(c)'
    <2>1. \A q \in {e.path, e.old} \ {NoPath} :
            Subtree(q) \subseteq TouchedBy(c)' /\ Subtree(q) \subseteq past'.moved
      BY <1>2, <1>5
    <2>2. e.path \in TouchedBy(c)'
      BY <1>1, <2>1
    <2> QED BY <1>5, <2>1, <2>2 DEF EventsOf, Moved, Blames, TouchedBy
  <1> QED BY <1>3, <1>4, <1>5

\* The events a user raises are his work.
LEMMA UserEvents ==
  ASSUME TypeOK, NEW c \in Clients, User(c)
  PROVE  \E es \in Seq(EventsOf(c)') : Raise(c, es)
  <1>0. DOMAIN local[c] \subseteq Paths
    BY DEF TypeOK, IsRooted, IsTree
  <1>1. CASE UserCreate(c) \/ UserWrite(c)
    <2>1. PICK p \in Files, op \in {"CREATE", "WRITE"} :
            Raise(c, See(c, op, p)) /\ past' = Happened(c, Around(p), Unseen(c, {p}))
      BY <1>1 DEF UserCreate, UserWrite
    <2>2. p \in Paths /\ p \in Around(p)
      BY DEF Files, Around, Subtree
    <2>3. PICK e \in Event : e = FsEvent(op, p)
      BY <2>2, FsEventKind
    <2>4. e.path = p /\ EventKind(e) = "make"
      BY <2>2, <2>3, FsEventKind
    <2>5. e \in EventsOf(c)'
      BY <2>1, <2>2, <2>4, CreateTouched, TouchedBlames
    <2> QED BY <2>1, <2>3, <2>5, SeeEvents
  <1>2. CASE UserMkDir(c)
    <2>1. PICK d \in Dirs : Raise(c, See(c, "CREATE", d)) /\ past' = Happened(c, {d}, {})
      BY <1>2 DEF UserMkDir
    <2>2. d \in Paths
      BY DirOnTop
    <2>3. PICK e \in Event : e = FsEvent("CREATE", d)
      BY <2>2, FsEventKind
    <2>4. e.path = d /\ EventKind(e) = "make"
      BY <2>2, <2>3, FsEventKind
    <2>5. e \in EventsOf(c)'
      BY <2>1, <2>4, MkDirTouched, TouchedBlames
    <2> QED BY <2>1, <2>3, <2>5, SeeEvents
  <1>3. CASE UserRemove(c)
    <2>1. PICK p \in Paths :
            /\ Raise(c, SeeRemoval(c, p))
            /\ past' = Happened(c, Around(p), Unseen(c, Subtree(p) \cap DOMAIN local[c]))
      BY <1>0, <1>3 DEF UserRemove
    <2>2. ASSUME NEW r \in Subtree(p) PROVE FsEvent("REMOVE", r) \in EventsOf(c)'
      <3>1. r \in Paths /\ Subtree(r) \subseteq Subtree(p)
        <4>1. r \in Paths
          BY <2>2, SubtreeInPaths
        <4>2. \A s \in Under(r) : s \in Paths /\ r \in Above(s)
          BY <4>1, AboveUnder DEF Under
        <4> QED BY <2>2, <4>1, <4>2, SubtreeClosed DEF Subtree
      <3>2. PICK e \in Event : e = FsEvent("REMOVE", r)
        BY <3>1, FsEventKind
      <3>3. e.path = r /\ EventKind(e) = "take"
        BY <3>1, <3>2, FsEventKind
      <3>4. Subtree(r) \subseteq Around(p)
        BY <3>1 DEF Around
      <3> QED BY <2>1, <3>2, <3>3, <3>4, RemoveTouched, TouchedBlames
    <2>3. {FsEvent("REMOVE", r) : r \in Subtree(p)} \subseteq EventsOf(c)'
      BY <2>2
    <2> QED BY <2>1, <2>3, SeeRemovalEvents, EveryInSeq
  <1>4. CASE UserRename(c)
    <2>1. PICK p \in Paths, q \in Paths :
            /\ SameKind(p, q) /\ Raise(c, SeeRename(c, p, q))
            /\ past' = [Happened(c, Around(p) \cup Around(q), UntoldByRename(c, p, q))
                          EXCEPT !.moved = @ \cup Around(p) \cup Around(q)]
      BY <1>0, <1>4 DEF UserRename
    <2>2. PICK M : M = Around(p) \cup Around(q)
      OBVIOUS
    <2>3. Touched(c, M, UntoldByRename(c, p, q), M)
      BY <2>1, <2>2, RenameTouched
    <2>4. Subtree(p) \subseteq M /\ Subtree(q) \subseteq M /\ q \in M
      BY <2>2 DEF Around, Subtree
    <2>5. FsEvent("RENAME", p) \in EventsOf(c)'
      <3>1. PICK e \in Event : e = FsEvent("RENAME", p)
        BY FsEventKind
      <3>2. e.path = p /\ e.old = NoPath /\ EventKind(e) = "rename"
        BY <3>1, FsEventKind
      <3> QED BY <2>3, <2>4, <3>1, <3>2, TouchedBlames
    <2>6. FsEvent("CREATE", q) \in EventsOf(c)'
      <3>1. PICK e \in Event : e = FsEvent("CREATE", q)
        BY FsEventKind
      <3>2. e.path = q /\ EventKind(e) = "make"
        BY <3>1, FsEventKind
      <3> QED BY <2>3, <2>4, <3>1, <3>2, TouchedBlames
    <2>7. Renamed("CREATE", p, q) \in EventsOf(c)'
      <3>1. PICK e \in Event : e = Renamed("CREATE", p, q)
        BY <2>1, RenamedKind
      <3>2. e.path = q /\ e.old = p /\ EventKind(e) = "rename"
        BY <2>1, <3>1, RenamedKind
      <3> QED BY <2>3, <2>4, <3>1, <3>2, TouchedBlames
    <2>8. SeeRename(c, p, q) \in Seq(EventsOf(c)')
      <3>1. PICK E : E = {FsEvent("RENAME", p), FsEvent("CREATE", q), Renamed("CREATE", p, q)}
        OBVIOUS
      <3>2. E \subseteq EventsOf(c)'
        BY <2>5, <2>6, <2>7, <3>1
      <3>3. SeeRename(c, p, q) \in Seq(E)
        BY <3>1, SeeRenameEvents
      <3> QED BY <3>2, <3>3, EveryInSeq
    <2> QED BY <2>1, <2>8
  <1> QED BY <1>1, <1>2, <1>3, <1>4 DEF User

LEMMA UserKeeps ==
  ASSUME NEW c, User(c)
  PROVE  UNCHANGED <<server, held, channel, proc, queue, ignored, faults>>
  BY DEF User, UserCreate, UserWrite, UserMkDir, UserRemove, UserRename, UserStep

LEMMA BlameUser ==
  ASSUME TypeOK, NEW c \in Clients, BlameOf(c), User(c)
  PROVE  BlameOf(c)'
  <1>1. Grew
    BY StepGrows
  <1>2. UNCHANGED <<server, held, channel, proc, queue, ignored, faults>>
    BY UserKeeps
  <1>3. PICK es \in Seq(EventsOf(c)') : Raise(c, es)
    BY UserEvents
  <1>4. queue'[c] \in Seq(MessagesFor(c))
    BY <1>2 DEF BlameOf
  <1> QED BY <1>1, <1>2, <1>3, <1>4, BlameRaise

\* Whatever is under way remains the work of the user of the client it comes from, or a
\* repetition that meets no kept path.
LEMMA NextBlame ==
  ASSUME Prompt, TypeOK, BlameInv, QueueInv, FileInv, NEW x \in Clients, Moves(x)
  PROVE  BlameInv'
  <1>1. BlameOf(x)
    BY DEF BlameInv
  <1>2. ASSUME Watch(x) \/ Release(x) \/ Process(x) \/ Handle(x) \/ Fill(x) \/ Publish(x)
               \/ Fail(x)
        PROVE  BlameOf(x)'
    BY <1>1, <1>2, BlameWatch, BlameRelease, BlameProcess, BlameHandle
  <1>3. ASSUME Consume(x) \/ ConsumeAdd(x) \/ ConsumeCopy(x) \/ ExpireIgnore(x) \/ User(x)
        PROVE  BlameOf(x)'
    BY <1>1, <1>3, BlameConsume, BlameAdd, BlameCopy, BlameExpire, BlameUser
  <1>4. BlameOf(x)'
    BY <1>2, <1>3 DEF Moves, Client, Server
  <1>5. \A c \in Clients \ {x} : BlameOf(c)'
    BY BlameOthers
  <1>6. \A c \in Clients : BlameOf(c)'
    BY <1>4, <1>5
  <1> QED BY <1>6 DEF BlameInv

-----------------------------------------------------------------------------
(* What has happened to something has happened to the directory it is in.   *)

\* X is lost, and with everything in it the directory it is in.
Loses(X) ==
  /\ past'.lost = past.lost \cup X
  /\ \A q \in X \cap Paths : Above(q) \subseteq X \cup past.lost \cup past.moved

LEMMA RefusedLoses ==
  ASSUME TypeOK, PastInv, NEW p, NEW q, RefusedAfterFailure(p, q),
         Subtree(p) \subseteq past.moved, Subtree(q) \subseteq past.moved
  PROVE  \E X : Loses(X)
  <1>1. CASE past' = past
    <2>1. Loses({})
      BY <1>1 DEF Loses
    <2> QED BY <2>1
  <1>2. CASE past' # past
    <2>1. PICK X : X = Subtree(p) \cup Subtree(q)
      OBVIOUS
    <2>2. past'.lost = past.lost \cup X
      BY <1>2, <2>1 DEF RefusedAfterFailure, TypeOK, Past
    <2>3. \A r \in X \cap Paths : Above(r) \subseteq past.lost \cup past.moved
      BY <2>1 DEF PastInv
    <2> QED BY <2>2, <2>3 DEF Loses
  <1> QED BY <1>1, <1>2

LEMMA OthersLose ==
  ASSUME TypeOK, PastInv, BlameInv, NEW c \in Clients, Client(c) \/ Server(c) \/ Fail(c)
  PROVE  \E X : Loses(X)
  <1>1. past' = past => Loses({})
    BY DEF Loses
  <1>2. CASE Watch(c) \/ Release(c) \/ Process(c) \/ ConsumeAdd(c) \/ ConsumeCopy(c)
             \/ ExpireIgnore(c) \/ Fill(c) \/ Publish(c)
    <2>1. past' = past
      BY <1>2 DEF Watch, Release, Process, ConsumeAdd, ConsumeCopy, ExpireIgnore, Fill, Publish
    <2> QED BY <1>1, <2>1
  <1>3. CASE Consume(c)
    <2>1. PICK m \in MessagesFor(c) : m = Head(queue[c])
      BY <1>3, HeadTailType DEF BlameInv, BlameOf, Consume
    <2>2. CASE m.event = "NECO_RENAME" /\ RefusedAfterFailure(m.old, m.path)
      <3>1. m \in Message /\ MessageKind(m) = "rename"
        BY <2>1, <2>2 DEF MessagesFor, MessageKind
      <3>2. m.old # NoPath /\ m.path # NoPath
        BY <2>2, <3>1, MessageFields, NoPathAssumption
      <3>3. Subtree(m.old) \subseteq past.moved /\ Subtree(m.path) \subseteq past.moved
        BY <2>1, <3>1, <3>2 DEF MessagesFor, Moved
      <3> QED BY <2>2, <3>3, RefusedLoses
    <2>3. past' = past \/ (m.event = "NECO_RENAME" /\ RefusedAfterFailure(m.old, m.path))
      BY <1>3, <2>1 DEF Consume, ConsumeNote, ConsumeDir, ConsumeRename, ConsumeRemove
    <2> QED BY <1>1, <2>2, <2>3
  <1>4. CASE Handle(c)
    <2>1. PICK r \in RequestsOf(c) : r = proc[c].req
      BY <1>4 DEF BlameInv, BlameOf, Handle
    <2>2. CASE r.op = "rename" /\ RefusedAfterFailure(r.old, r.path)
      <3>1. r \in Request /\ RequestKind(r) = "rename"
        BY <2>1, <2>2 DEF RequestsOf, RequestKind
      <3>2. r.old # NoPath /\ r.path # NoPath
        BY <2>2, <3>1, RequestFields, NoPathAssumption
      <3>3. Subtree(r.old) \subseteq past.moved /\ Subtree(r.path) \subseteq past.moved
        BY <2>1, <3>1, <3>2 DEF RequestsOf, Moved
      <3> QED BY <2>2, <3>3, RefusedLoses
    <2>3. past' = past \/ (r.op = "rename" /\ RefusedAfterFailure(r.old, r.path))
      BY <1>4, <2>1 DEF Handle, Refused
    <2> QED BY <1>1, <2>2, <2>3
  <1>5. CASE Fail(c)
    <2>1. PICK X : X = UNION {Around(p) : p \in Paths \cap {proc[c].req.path, proc[c].req.old}}
      OBVIOUS
    <2>2. past'.lost = past.lost \cup X
      BY <1>5, <2>1 DEF Fail, TypeOK, Past
    <2>3. \A q \in X : Above(q) \subseteq X
      BY <2>1, AroundClosed
    <2> QED BY <2>2, <2>3 DEF Loses
  <1> QED BY <1>2, <1>3, <1>4, <1>5 DEF Client, Server

\* Whatever has happened to something has still happened to the directory it is in.
LEMMA NextPast ==
  ASSUME TypeOK, PastInv, BlameInv, NEW x \in Clients, Moves(x)
  PROVE  PastInv'
  <1>1. ASSUME Client(x) \/ Server(x) \/ Fail(x), NEW q \in Paths, NEW d \in Above(q)
        PROVE  /\ past'.touched[q] \subseteq past'.touched[d]
               /\ q \in past'.lost \cup past'.moved => d \in past'.lost \cup past'.moved
    <2>1. past'.touched = past.touched /\ past'.moved = past.moved
      BY <1>1, OthersPast
    <2>2. PICK X : Loses(X)
      BY <1>1, OthersLose
    <2>3. past'.touched[q] \subseteq past'.touched[d]
      BY <2>1 DEF PastInv
    <2>4. q \in past'.lost \cup past'.moved => d \in past'.lost \cup past'.moved
      <3>1. CASE q \in past.lost \cup past.moved
        BY <2>1, <2>2, <3>1 DEF PastInv, Loses
      <3>2. CASE q \in X
        BY <2>1, <2>2, <3>2 DEF Loses
      <3> QED BY <2>1, <2>2, <3>1, <3>2 DEF Loses
    <2> QED BY <2>3, <2>4
  <1>2. ASSUME User(x), NEW q \in Paths, NEW d \in Above(q)
        PROVE  /\ past'.touched[q] \subseteq past'.touched[d]
               /\ q \in past'.lost \cup past'.moved => d \in past'.lost \cup past'.moved
    <2>1. PICK S, V, M : Touched(x, S, V, M)
      BY <1>2, UserPast
    <2>2. d \in Paths /\ past.touched[q] \subseteq past.touched[d]
          /\ (q \in past.lost \cup past.moved => d \in past.lost \cup past.moved)
      BY DEF PastInv, Above
    <2>3. (q \in S => d \in S) /\ (q \in M => d \in M)
      BY <2>1 DEF Touched
    <2>4. /\ past'.touched[q] = IF q \in S THEN past.touched[q] \cup {x} ELSE past.touched[q]
          /\ past'.touched[d] = IF d \in S THEN past.touched[d] \cup {x} ELSE past.touched[d]
          /\ past'.lost = past.lost /\ past'.moved = past.moved \cup M
      BY <2>1, <2>2 DEF Touched
    <2>5. past'.touched[q] \subseteq past'.touched[d]
      BY <2>2, <2>3, <2>4
    <2>6. q \in past'.lost \cup past'.moved => d \in past'.lost \cup past'.moved
      BY <2>2, <2>3, <2>4
    <2> QED BY <2>5, <2>6
  <1> QED BY <1>1, <1>2 DEF PastInv, Moves

-----------------------------------------------------------------------------
(* What the consumer has in hand.                                           *)

LEMMA SameItems ==
  ASSUME NEW S, NEW s \in Seq(S), NEW t \in Seq(S), Len(s) = Len(t),
         \A i \in 1..Len(s) : s[i] = t[i]
  PROVE  s = t
  OBVIOUS

LEMMA ConcatItems ==
  ASSUME NEW S, NEW s \in Seq(S), NEW t \in Seq(S)
  PROVE  /\ s \o t \in Seq(S) /\ Len(s \o t) = Len(s) + Len(t)
         /\ \A i \in 1..Len(s) : (s \o t)[i] = s[i]
         /\ \A i \in 1..Len(t) : (s \o t)[Len(s) + i] = t[i]
  OBVIOUS

\* A note is renamed with the directory it is in, and back.
LEMMA RebaseInSubtree ==
  ASSUME NEW p \in Paths, NEW q \in Paths, SameKind(p, q), NEW r \in Files \cap Subtree(p)
  PROVE  /\ Rebase(r, p, q) \in Files /\ Rebase(r, p, q) \in Subtree(q)
         /\ Rebase(Rebase(r, p, q), q, p) = r
  <1>1. p \in Seq(STRING) /\ q \in Seq(STRING) /\ r \in Seq(STRING)
    BY ComponentsAssumption DEF Files
  <1>2. Len(p) <= Len(r) /\ \A i \in 1..Len(p) : r[i] = p[i]
    <2>1. CASE r = p
      BY <1>1, <2>1
    <2>2. CASE r \in Under(p)
      <3>1. Len(p) <= Len(r) /\ SubSeq(p, 1, Len(p)) = SubSeq(r, 1, Len(p))
        BY <2>2 DEF Under, IsStrictPrefix, IsPrefix
      <3>2. \A i \in 1..Len(p) : SubSeq(p, 1, Len(p))[i] = p[i]
        BY <1>1
      <3>3. \A i \in 1..Len(p) : SubSeq(r, 1, Len(p))[i] = r[i]
        BY <1>1, <3>1
      <3> QED BY <3>1, <3>2, <3>3
    <2> QED BY <2>1, <2>2 DEF Subtree
  <1>3. PICK x : x = SubSeq(r, Len(p) + 1, Len(r))
    OBVIOUS
  <1>4. /\ x \in Seq(STRING) /\ Len(x) = Len(r) - Len(p)
        /\ \A i \in 1..Len(x) : x[i] = r[Len(p) + i]
    BY <1>1, <1>2, <1>3
  <1>5. PICK y : y = q \o x
    OBVIOUS
  <1>6. /\ y \in Seq(STRING) /\ Len(y) = Len(q) + Len(x)
        /\ \A i \in 1..Len(q) : y[i] = q[i]
        /\ \A i \in 1..Len(x) : y[Len(q) + i] = x[i]
    <2>1. q \in Seq(STRING) /\ x \in Seq(STRING)
      BY <1>1, <1>4
    <2> QED BY <1>5, <2>1, ConcatItems
  <1>7. y = Rebase(r, p, q)
    BY <1>3, <1>5 DEF Rebase
  <1>8. y \in Files /\ y \in Paths
    BY <1>7, RebaseOfNote DEF Files
  <1>9. y \in Subtree(q)
    <2>1. SubSeq(q, 1, Len(q)) = SubSeq(y, 1, Len(q)) /\ Len(q) <= Len(y)
      BY <1>1, <1>4, <1>6
    <2> QED BY <1>8, <2>1 DEF Subtree, Under, IsStrictPrefix, IsPrefix
  <1>10. Rebase(y, q, p) = r
    <2>1. PICK z : z = SubSeq(y, Len(q) + 1, Len(y))
      OBVIOUS
    <2>2. z \in Seq(STRING) /\ Len(z) = Len(x) /\ \A i \in 1..Len(z) : z[i] = x[i]
      BY <1>1, <1>4, <1>6, <2>1
    <2>3. z = x
      BY <1>4, <2>2
    <2>4. PICK w : w = p \o x
      OBVIOUS
    <2>5. /\ w \in Seq(STRING) /\ Len(w) = Len(p) + Len(x)
          /\ \A i \in 1..Len(p) : w[i] = p[i]
          /\ \A i \in 1..Len(x) : w[Len(p) + i] = x[i]
      BY <1>1, <1>4, <2>4, ConcatItems
    <2>6. Len(w) = Len(r)
      BY <1>1, <1>2, <1>4, <2>5
    <2>7. ASSUME NEW i \in 1..Len(r) PROVE w[i] = r[i]
      <3>1. CASE i \in 1..Len(p)
        BY <1>2, <2>5, <3>1
      <3>2. CASE i \notin 1..Len(p)
        <4>1. PICK k \in 1..Len(x) : i = Len(p) + k
          <5>1. i - Len(p) \in 1..Len(x) /\ i = Len(p) + (i - Len(p))
            BY <1>1, <1>2, <1>4, <3>2
          <5> QED BY <5>1
        <4> QED BY <1>4, <2>5, <4>1
      <3> QED BY <3>1, <3>2
    <2>8. w = r
      BY <1>1, <2>5, <2>6, <2>7, SameItems
    <2> QED BY <2>1, <2>3, <2>4, <2>8 DEF Rebase
  <1> QED BY <1>7, <1>8, <1>9, <1>10

LEMMA MoveDomain ==
  ASSUME NEW t, NEW p, NEW q, NEW now
  PROVE  DOMAIN Move(t, p, q, now) =
           {r \in DOMAIN t \ Subtree(p) : r # q}
             \cup {r \in Subtree(q) : Rebase(r, q, p) \in DOMAIN t \cap Subtree(p)}
  BY DEF Move, Stamp

\* What a user does to the consumer's open file.
LEMMA UserFile ==
  ASSUME TypeOK, NEW c \in Clients, User(c)
  PROVE  /\ consumer'[c].pc = consumer[c].pc /\ consumer'[c].from = consumer[c].from
         /\ UserRemove(c) \/ UserRename(c) \/ consumer'[c] = consumer[c]
  <1>0. consumer[c] \in ConsumerState /\ consumer \in [Clients -> ConsumerState]
    BY DEF TypeOK
  <1>1. ASSUME NEW f, consumer' = [consumer EXCEPT ![c].file = f]
        PROVE  consumer'[c].pc = consumer[c].pc /\ consumer'[c].from = consumer[c].from
               /\ consumer'[c].file = f
    <2>1. consumer'[c] = [consumer[c] EXCEPT !.file = f]
      BY <1>0, <1>1
    <2> QED BY <1>0, <2>1 DEF ConsumerState
  <1>2. CASE UserCreate(c) \/ UserWrite(c) \/ UserMkDir(c)
    BY <1>2 DEF UserCreate, UserWrite, UserMkDir
  <1>3. CASE UserRemove(c)
    <2>1. PICK f : consumer' = [consumer EXCEPT ![c].file = f]
      BY <1>3 DEF UserRemove, Unlinked
    <2> QED BY <1>1, <1>3, <2>1
  <1>4. CASE UserRename(c)
    <2>1. PICK f : consumer' = [consumer EXCEPT ![c].file = f]
      BY <1>4 DEF UserRename
    <2> QED BY <1>1, <1>4, <2>1
  <1> QED BY <1>2, <1>3, <1>4 DEF User

LEMMA RemovedFile ==
  ASSUME TypeOK, NEW c \in Clients, NEW p, consumer' = Unlinked(c, p)
  PROVE  consumer'[c].file = IF consumer[c].file \in Subtree(p) THEN NoPath
                                                                ELSE consumer[c].file
  BY DEF TypeOK, Unlinked, ConsumerState

LEMMA RenamedFile ==
  ASSUME TypeOK, NEW c \in Clients, NEW p, NEW q,
         consumer' = [consumer EXCEPT ![c].file = IF @ = q THEN NoPath
                        ELSE IF @ \in Subtree(p) THEN Rebase(@, p, q) ELSE @]
  PROVE  consumer'[c].file = IF consumer[c].file = q THEN NoPath
                             ELSE IF consumer[c].file \in Subtree(p)
                                    THEN Rebase(consumer[c].file, p, q)
                                    ELSE consumer[c].file
  BY DEF TypeOK, ConsumerState

\* A message's client is another's.
LEMMA HearsayConsume ==
  ASSUME TypeOK, BlameInv, HearsayInv, NEW c \in Clients, Consume(c), Grew,
         NEW p \in Kept'
  PROVE  HearsayOf(c, p)'
  <1>1. PICK m \in MessagesFor(c) : m = Head(queue[c])
    BY HeadTailType DEF BlameInv, BlameOf, Consume
  <1>2. /\ m \in Message /\ m.path \in Paths /\ m.client \in Clients \ {c}
        /\ m.event = "NECO_RENAME" => m.old \in Paths
        /\ m.event # "NECO_RENAME" => m.old = NoPath
    BY <1>1, MessageFields DEF MessagesFor
  <1>3. p \in Kept /\ p \in Paths /\ p # NoPath /\ past.touched[p] \subseteq past'.touched[p]
        /\ Foreign(c)' \subseteq Foreign(c)
    BY KeptShrinks, NoPathAssumption DEF Kept, Grew
  <1>4. /\ consumer[c].pc = "idle" /\ consumer[c].file = NoPath
        /\ ignored'[c] = ignored[c] \cup IgnoredBy(m)
    BY <1>1, ConsumerFields DEF Consume, TypeOK
  <1>5. p = m.path => past.touched[p] \ {c} # {}
    BY <1>1, <1>2, <1>3 DEF MessagesFor, Blames
  <1>6. m.event = "NECO_RENAME" => p # m.old /\ p # m.path
    <2>1. ASSUME m.event = "NECO_RENAME" PROVE m.old \in past.moved /\ m.path \in past.moved
      <3>1. MessageKind(m) = "rename" /\ m.old # NoPath /\ m.path # NoPath
        BY <1>2, <2>1, NoPathAssumption DEF MessageKind
      <3> QED BY <1>1, <3>1 DEF MessagesFor, Moved, Subtree
    <2> QED BY <1>3, <2>1 DEF Kept
  <1>7. p \in ignored'[c] => past.touched[p] \ {c} # {}
    <2>1. p \in ignored[c] => past.touched[p] \ {c} # {}
      BY <1>3 DEF HearsayInv, HearsayOf
    <2> QED BY <1>2, <1>3, <1>4, <1>5, <1>6, <2>1 DEF IgnoredBy
  <1>8. \/ consumer'[c] = Consuming("fetch", m.path, m.path)
        \/ consumer'[c] = Consuming("add", m.path, NoPath)
        \/ consumer'[c] = consumer[c]
    BY <1>1 DEF Consume, ConsumeNote, ConsumeDir, ConsumeRename, ConsumeRemove, TypeOK
  <1>9. CASE consumer'[c] = Consuming("fetch", m.path, m.path)
    <2>1. consumer'[c].from = m.path /\ consumer'[c].file = m.path
      BY <1>9 DEF Consuming
    <2>2. p \in ignored'[c] \/ p = consumer'[c].from => past'.touched[p] \ {c} # {}
      BY <1>3, <1>5, <1>7, <2>1
    <2> QED BY <2>1, <2>2 DEF HearsayOf
  <1>10. CASE consumer'[c] = Consuming("add", m.path, NoPath)
    <2>1. consumer'[c].from = m.path /\ consumer'[c].file = NoPath /\ consumer'[c].pc = "add"
      BY <1>10 DEF Consuming
    <2>2. p \in ignored'[c] \/ p = consumer'[c].from => past'.touched[p] \ {c} # {}
      BY <1>3, <1>5, <1>7, <2>1
    <2> QED BY <1>3, <2>1, <2>2 DEF HearsayOf
  <1>11. CASE consumer'[c] = consumer[c]
    <2>1. p = consumer[c].from => past.touched[p] \ {c} # {}
      BY <1>3 DEF HearsayInv, HearsayOf
    <2>2. p \in ignored'[c] \/ p = consumer'[c].from => past'.touched[p] \ {c} # {}
      BY <1>3, <1>7, <1>11, <2>1
    <2> QED BY <1>3, <1>4, <1>11, <2>2 DEF HearsayOf
  <1> QED BY <1>8, <1>9, <1>10, <1>11

LEMMA HearsayUser ==
  ASSUME TypeOK, HearsayInv, NEW c \in Clients, User(c), Grew, NEW p \in Kept'
  PROVE  HearsayOf(c, p)'
  <1>1. p \in Kept /\ p \in Paths /\ p # NoPath /\ past.touched[p] \subseteq past'.touched[p]
        /\ Foreign(c)' \subseteq Foreign(c)
    BY KeptShrinks, NoPathAssumption DEF Kept, Grew
  <1>2. /\ consumer'[c].pc = consumer[c].pc /\ consumer'[c].from = consumer[c].from
        /\ UserRemove(c) \/ UserRename(c) \/ consumer'[c] = consumer[c]
        /\ ignored' = ignored
    BY UserFile, UserKeeps
  <1>3. HearsayOf(c, p)
    BY <1>1 DEF HearsayInv
  <1>4. p \in ignored'[c] \/ p = consumer'[c].from => past'.touched[p] \ {c} # {}
    BY <1>1, <1>2, <1>3 DEF HearsayOf
  <1>5. ASSUME /\ consumer'[c].file = p => consumer[c].file = p
               /\ p \in Foreign(c)' /\ consumer[c].file = p => consumer'[c].file = p
        PROVE  HearsayOf(c, p)'
    BY <1>1, <1>2, <1>3, <1>4, <1>5 DEF HearsayOf
  <1>6. CASE UserRemove(c)
    <2>1. PICK q \in DOMAIN local[c] :
            /\ consumer' = Unlinked(c, q)
            /\ past' = Happened(c, Around(q), Unseen(c, Subtree(q) \cap DOMAIN local[c]))
      BY <1>6 DEF UserRemove
    <2>2. q \in Paths
      BY DEF TypeOK, IsRooted, IsTree
    <2>3. p \in Foreign(c)' => p \notin Subtree(q)
      <3>1. PICK V : Touched(c, Around(q), V, {})
        BY <2>1, <2>2, RemoveTouched
      <3>2. p \in Around(q) => c \in past'.touched[p]
        BY <1>1, <3>1 DEF Touched
      <3> QED BY <3>2 DEF Foreign, Around
    <2> QED BY <1>1, <1>5, <2>1, <2>3, RemovedFile
  <1>7. CASE UserRename(c)
    <2>1. PICK r \in DOMAIN local[c], q \in Paths :
            /\ SameKind(r, q)
            /\ consumer' = [consumer EXCEPT ![c].file = IF @ = q THEN NoPath
                              ELSE IF @ \in Subtree(r) THEN Rebase(@, r, q) ELSE @]
            /\ past' = [Happened(c, Around(r) \cup Around(q), UntoldByRename(c, r, q))
                          EXCEPT !.moved = @ \cup Around(r) \cup Around(q)]
      BY <1>7 DEF UserRename
    <2>2. r \in Paths
      BY DEF TypeOK, IsRooted, IsTree
    <2>3. p \notin Subtree(r) /\ p \notin Subtree(q) /\ p # q
      BY <1>1, <2>1, <2>2, RenameTouched DEF Touched, Kept, Around, Subtree
    <2>4. consumer[c].file \in Subtree(r) => Rebase(consumer[c].file, r, q) \in Subtree(q)
      <3>1. consumer[c].file \in Files \cup {NoPath}
        BY ConsumerFields DEF TypeOK
      <3>2. NoPath \notin Subtree(r)
        BY <2>2, SubtreeInPaths, NoPathAssumption
      <3> QED BY <2>1, <2>2, <3>1, <3>2, RebaseInSubtree
    <2> QED BY <1>1, <1>5, <2>1, <2>3, <2>4, RenamedFile
  <1>8. CASE consumer'[c] = consumer[c]
    BY <1>5, <1>8
  <1> QED BY <1>2, <1>6, <1>7, <1>8

\* What a client has been told of, it has been told of by others.
LEMMA NextHearsay ==
  ASSUME TypeOK, BlameInv, HearsayInv, NEW x \in Clients, Moves(x)
  PROVE  HearsayInv'
  <1>1. Grew
    BY StepGrows DEF Moves
  <1>2. ASSUME NEW c \in Clients, NEW p \in Kept',
               consumer'[c] = consumer[c] \/ consumer'[c] = NotConsuming,
               ignored'[c] \subseteq ignored[c]
        PROVE  HearsayOf(c, p)'
    <2>1. p \in Kept /\ p \in Paths /\ p # NoPath /\ past.touched[p] \subseteq past'.touched[p]
          /\ Foreign(c)' \subseteq Foreign(c)
      BY <1>1, KeptShrinks, NoPathAssumption DEF Kept, Grew
    <2>2. HearsayOf(c, p)
      BY <2>1 DEF HearsayInv
    <2>3. CASE consumer'[c] = consumer[c]
      BY <1>2, <2>1, <2>2, <2>3 DEF HearsayOf
    <2>4. CASE consumer'[c] = NotConsuming
      BY <1>2, <2>1, <2>2, <2>4 DEF HearsayOf, NotConsuming
    <2> QED BY <1>2, <2>3, <2>4
  <1>3. ASSUME NEW c \in Clients \ {x}, NEW p \in Kept' PROVE HearsayOf(c, p)'
    BY <1>2, OthersKept DEF SameClient
  <1>4. ASSUME NEW p \in Kept' PROVE HearsayOf(x, p)'
    <2>1. CASE Consume(x)
      BY <1>1, <2>1, HearsayConsume
    <2>2. CASE User(x)
      BY <1>1, <2>2, HearsayUser
    <2>3. CASE ConsumeAdd(x) \/ ConsumeCopy(x) \/ ExpireIgnore(x)
      <3>1. /\ consumer'[x] = consumer[x] \/ consumer'[x] = NotConsuming
            /\ ignored'[x] \subseteq ignored[x]
        BY <2>3 DEF ConsumeAdd, ConsumeCopy, ExpireIgnore, TypeOK
      <3> QED BY <1>2, <3>1
    <2>4. CASE Watch(x) \/ Release(x) \/ Process(x) \/ Handle(x) \/ Fill(x) \/ Publish(x)
               \/ Fail(x)
      <3>1. consumer' = consumer /\ ignored' = ignored
        BY <2>4 DEF Watch, Release, Process, Handle, Fill, Publish, Fail
      <3> QED BY <1>2, <3>1
    <2> QED BY <2>1, <2>2, <2>3, <2>4 DEF Moves, Client, Server
  <1>5. \A c \in Clients : \A p \in Kept' : HearsayOf(c, p)'
    BY <1>3, <1>4
  <1> QED BY <1>5 DEF HearsayInv

-----------------------------------------------------------------------------
(* A client's directory, after what its user or its consumer does to it.    *)

LEMMA LocalTree ==
  ASSUME TypeOK, NEW c \in Clients
  PROVE  /\ IsRooted(local[c]) /\ IsTree(local[c]) /\ DOMAIN local[c] \in SUBSET Paths
         /\ \A p \in DOMAIN local[c] : Above(p) \subseteq DOMAIN local[c]
  BY DEF TypeOK, IsRooted, IsTree

\* What is there is what was written.
LEMMA CreateFileBody ==
  ASSUME NEW t, IsTree(t), NEW p \in Files, NEW body \in Body, NEW now \in Nat
  PROVE  CreateFile(t, p, body, now)[p].body = body
  <1> DEFINE u == AddDirs(t, Above(p), now)
             v == [q \in DOMAIN u \cup {p} |->
                     IF q = p THEN [body |-> body, mtime |-> now] ELSE u[q]]
             w == CreateFile(t, p, body, now)
  <1>1. p \in Paths /\ Above(p) \in SUBSET Paths
    BY DEF Files, Above
  <1>2. IsTree(u) /\ DOMAIN u = DOMAIN t \cup Above(p)
    BY <1>1, AddDirsTree
  <1>3. w = Stamp(u, v, now)
    BY DEF CreateFile
  <1> HIDE DEF u
  <1>4. IsTree(v) /\ DOMAIN v = DOMAIN u \cup {p} /\ v[p].body = body
    BY <1>1, <1>2 DEF IsTree, Entry
  <1> HIDE DEF v, w
  <1>5. w[p].body = body
    BY <1>3, <1>4, StampKeeps
  <1> QED BY <1>5 DEF w

LEMMA LocalCreate ==
  ASSUME TypeOK, NEW c \in Clients, NEW p \in Files, NEW body \in Body,
         local' = [local EXCEPT ![c] = CreateFile(@, p, body, 0)]
  PROVE  /\ DOMAIN local'[c] = DOMAIN local[c] \cup {p} \cup Above(p)
         /\ local'[c][p].body = body
         /\ \A r \in Paths : r # p /\ (r \in Above(p) => r \in DOMAIN local[c])
                            => Alike(local[c], local'[c], r)
  <1> DEFINE u == CreateFile(local[c], p, body, 0)
  <1>1. IsTree(local[c]) /\ p \in Paths /\ local'[c] = u
    BY LocalTree DEF Files, TypeOK
  <1>2. DOMAIN u = DOMAIN local[c] \cup {p} \cup Above(p)
    BY <1>1, CreateFileTree
  <1>3. u[p].body = body
    BY <1>1, CreateFileBody
  <1>4. \A r \in Paths : r # p /\ (r \in Above(p) => r \in DOMAIN local[c])
                       => Alike(local[c], u, r)
    BY <1>1, CreateFileAlike
  <1> HIDE DEF u
  <1> QED BY <1>1, <1>2, <1>3, <1>4

LEMMA LocalMkDir ==
  ASSUME TypeOK, NEW c \in Clients, NEW d \in Dirs,
         local' = [local EXCEPT ![c] = MkDir(@, d, 0)]
  PROVE  /\ DOMAIN local'[c] = DOMAIN local[c] \cup {d}
         /\ \A r \in Paths : r # d => Alike(local[c], local'[c], r)
  <1> DEFINE u == MkDir(local[c], d, 0)
  <1>1. IsTree(local[c]) /\ d \in Paths /\ Above(d) = {} /\ local'[c] = u
    BY LocalTree, DirOnTop DEF TypeOK
  <1>2. DOMAIN u = DOMAIN local[c] \cup {d} \cup Above(d)
    BY <1>1, MkDirTree
  <1>3. \A r \in Paths : r # d => Alike(local[c], u, r)
    BY <1>1, MkDirAlike
  <1> HIDE DEF u
  <1> QED BY <1>1, <1>2, <1>3

LEMMA LocalFill ==
  ASSUME TypeOK, NEW c \in Clients, NEW p \in DOMAIN local[c], NEW body \in Body,
         local' = [local EXCEPT ![c] = FillFile(@, p, body, 0)]
  PROVE  /\ DOMAIN local'[c] = DOMAIN local[c]
         /\ local'[c][p].body = body
         /\ \A r \in Paths : r # p => Alike(local[c], local'[c], r)
  <1> DEFINE u == FillFile(local[c], p, body, 0)
  <1>1. IsTree(local[c]) /\ local'[c] = u
    BY LocalTree DEF TypeOK
  <1>2. DOMAIN u = DOMAIN local[c] /\ u[p].body = body
    BY DEF FillFile
  <1>3. \A r \in Paths : r # p => Alike(local[c], u, r)
    BY FillFileAlike
  <1> HIDE DEF u
  <1> QED BY <1>1, <1>2, <1>3

LEMMA LocalRm ==
  ASSUME TypeOK, NEW c \in Clients, NEW p \in Paths,
         local' = [local EXCEPT ![c] = Rm(@, p, 0)]
  PROVE  /\ DOMAIN local'[c] = DOMAIN local[c] \ Subtree(p)
         /\ \A r \in Paths : (r \in Subtree(p) => r \notin DOMAIN local[c])
                            => Alike(local[c], local'[c], r)
  <1> DEFINE u == Rm(local[c], p, 0)
  <1>1. IsTree(local[c]) /\ local'[c] = u
    BY LocalTree DEF TypeOK
  <1>2. DOMAIN u = DOMAIN local[c] \ Subtree(p)
    BY <1>1, RmTree
  <1>3. \A r \in Paths : (r \in Subtree(p) => r \notin DOMAIN local[c])
                        => Alike(local[c], u, r)
    BY <1>1, RmAlike
  <1> HIDE DEF u
  <1> QED BY <1>1, <1>2, <1>3

LEMMA LocalMove ==
  ASSUME TypeOK, NEW c \in Clients, NEW p \in Paths, NEW q \in Paths,
         CanMove(local[c], p, q), local' = [local EXCEPT ![c] = Move(@, p, q, 0)]
  PROVE  /\ \A r \in DOMAIN local[c] \ Subtree(p) : r # q => r \in DOMAIN local'[c]
         /\ \A r \in Subtree(q) : Rebase(r, q, p) \in DOMAIN local[c] \cap Subtree(p)
                                  => r \in DOMAIN local'[c]
         /\ \A r \in Paths : r \notin Subtree(p) /\ r \notin Subtree(q)
                            => Alike(local[c], local'[c], r)
  <1> DEFINE u == Move(local[c], p, q, 0)
  <1>1. IsTree(local[c]) /\ local'[c] = u
    BY LocalTree DEF TypeOK
  <1>2. DOMAIN u = {r \in DOMAIN local[c] \ Subtree(p) : r # q}
             \cup {r \in Subtree(q) : Rebase(r, q, p) \in DOMAIN local[c] \cap Subtree(p)}
    BY MoveDomain
  <1>3. \A r \in Paths : r \notin Subtree(p) /\ r \notin Subtree(q) => Alike(local[c], u, r)
    BY <1>1, MoveAlike
  <1> HIDE DEF u
  <1> QED BY <1>1, <1>2, <1>3

\* The file a download has open stays there, and writing to it ignored.
LEMMA NextFile ==
  ASSUME Prompt, TypeOK, FileInv, NEW x \in Clients, Moves(x)
  PROVE  FileInv'
  <1>1. Grew
    BY StepGrows DEF Moves
  <1>2. \A c \in Clients : /\ TouchedBy(c) \subseteq TouchedBy(c)' /\ FileOf(c)
                           /\ consumer[c] \in ConsumerState
    BY <1>1, KeptShrinks DEF FileInv, TypeOK
  <1>3. ASSUME NEW c \in Clients, consumer'[c] = consumer[c],
               DOMAIN local[c] \subseteq DOMAIN local'[c], ignored[c] \subseteq ignored'[c]
        PROVE  FileOf(c)'
    BY <1>2, <1>3 DEF FileOf
  <1>4. ASSUME NEW c \in Clients, consumer'[c].file = NoPath PROVE FileOf(c)'
    BY <1>4 DEF FileOf
  <1>5. ASSUME NEW c \in Clients \ {x} PROVE FileOf(c)'
    BY <1>3, OthersKept DEF SameClient
  <1>6. FileOf(x)'
    <2>1. CASE Watch(x) \/ Release(x) \/ Process(x) \/ Handle(x) \/ Fill(x) \/ Publish(x)
               \/ Fail(x)
      <3>1. consumer' = consumer /\ local' = local /\ ignored' = ignored
        BY <2>1 DEF Watch, Release, Process, Handle, Fill, Publish, Fail
      <3> QED BY <1>3, <3>1
    <2>2. CASE ConsumeAdd(x) \/ ConsumeCopy(x)
      <3>1. consumer'[x] = NotConsuming
        BY <2>2 DEF ConsumeAdd, ConsumeCopy, TypeOK
      <3> QED BY <1>4, <3>1 DEF NotConsuming
    <2>3. CASE ExpireIgnore(x)
      <3>1. PICK p \in ignored[x] : /\ ~Echoing(x, p)
                                    /\ ignored' = [ignored EXCEPT ![x] = @ \ {p}]
        BY <2>3 DEF ExpireIgnore
      <3>2. ignored'[x] = ignored[x] \ {p} /\ consumer[x].file # p
        BY <3>1 DEF Echoing, TypeOK
      <3>3. consumer' = consumer /\ local' = local
        BY <2>3 DEF ExpireIgnore
      <3> QED BY <1>2, <3>2, <3>3 DEF FileOf
    <2>4. CASE Consume(x)
      <3>1. PICK m \in Message : m = Head(queue[x])
        BY <2>4, HeadTailType DEF TypeOK, Consume
      <3>2. m.path \in Paths /\ consumer[x].file = NoPath
            /\ ignored'[x] = ignored[x] \cup IgnoredBy(m)
        BY <1>2, <2>4, <3>1, MessageFields, ConsumerFields DEF Consume, TypeOK
      <3>3. CASE m.path \in Files /\ ConsumeNote(x, m.path)
        <4>1. consumer'[x].file = m.path
          BY <3>3 DEF ConsumeNote, TypeOK, Consuming
        <4>2. m.path \in DOMAIN local'[x]
          <5>1. PICK p \in Files : p = m.path
            BY <3>3
          <5>2. /\ local' = [local EXCEPT ![x] = CreateFile(@, p, Empty, 0)]
                /\ Empty \in Body
            BY <3>3, <5>1 DEF ConsumeNote, Body
          <5>3. DOMAIN local'[x] = DOMAIN local[x] \cup {p} \cup Above(p)
            BY <5>2, LocalCreate
          <5> QED BY <5>1, <5>3
        <4>3. m.path \in ignored'[x]
          BY <3>2 DEF IgnoredBy
        <4> QED BY <4>1, <4>2, <4>3 DEF FileOf
      <3>4. CASE ConsumeDir(x, m.path) \/ ConsumeRename(x, m.old, m.path)
                 \/ ConsumeRemove(x, m.path)
        <4>1. consumer'[x].file = NoPath
          BY <3>2, <3>4 DEF ConsumeDir, ConsumeRename, ConsumeRemove, TypeOK, Consuming
        <4> QED BY <1>4, <4>1
      <3> QED BY <2>4, <3>1, <3>3, <3>4 DEF Consume
    <2>5. CASE UserCreate(x)
      <3>1. PICK p \in Files : /\ local' = [local EXCEPT ![x] = CreateFile(@, p, edits + 1, 0)]
                               /\ consumer' = consumer /\ ignored' = ignored
        BY <2>5 DEF UserCreate, UserStep
      <3>2. edits + 1 \in Body
        BY DEF TypeOK, Body
      <3>3. DOMAIN local[x] \subseteq DOMAIN local'[x]
        BY <3>1, <3>2, LocalCreate
      <3> QED BY <1>3, <3>1, <3>3
    <2>6. CASE UserWrite(x)
      <3>1. PICK p \in DOMAIN local[x] :
              /\ local' = [local EXCEPT ![x] = FillFile(@, p, edits + 1, 0)]
              /\ consumer' = consumer /\ ignored' = ignored
        BY <2>6 DEF UserWrite, UserStep
      <3>2. edits + 1 \in Body
        BY DEF TypeOK, Body
      <3>3. DOMAIN local'[x] = DOMAIN local[x]
        BY <3>1, <3>2, LocalFill
      <3> QED BY <1>3, <3>1, <3>3
    <2>7. CASE UserMkDir(x)
      <3>1. PICK d \in Dirs : /\ local' = [local EXCEPT ![x] = MkDir(@, d, 0)]
                              /\ consumer' = consumer /\ ignored' = ignored
        BY <2>7 DEF UserMkDir, UserStep
      <3>2. DOMAIN local[x] \subseteq DOMAIN local'[x]
        BY <3>1, LocalMkDir
      <3> QED BY <1>3, <3>1, <3>2
    <2>8. CASE UserRemove(x)
      <3>1. PICK p \in DOMAIN local[x] : /\ local' = [local EXCEPT ![x] = Rm(@, p, 0)]
                                         /\ consumer' = Unlinked(x, p) /\ ignored' = ignored
        BY <2>8 DEF UserRemove, UserStep
      <3>2. DOMAIN local'[x] = DOMAIN local[x] \ Subtree(p)
        <4>1. p \in Paths
          BY LocalTree
        <4> QED BY <3>1, <4>1, LocalRm
      <3> QED BY <1>2, <3>1, <3>2, RemovedFile DEF FileOf
    <2>9. CASE UserRename(x)
      <3>1. PICK r \in DOMAIN local[x], q \in Paths :
              /\ SameKind(r, q) /\ ignored' = ignored /\ CanMove(local[x], r, q)
              /\ local' = [local EXCEPT ![x] = Move(@, r, q, 0)]
              /\ consumer' = [consumer EXCEPT ![x].file = IF @ = q THEN NoPath
                                ELSE IF @ \in Subtree(r) THEN Rebase(@, r, q) ELSE @]
              /\ past' = [Happened(x, Around(r) \cup Around(q), UntoldByRename(x, r, q))
                            EXCEPT !.moved = @ \cup Around(r) \cup Around(q)]
        BY <2>9 DEF UserRename, UserStep
      <3>2. r \in Paths
        BY LocalTree
      <3>3. Subtree(q) \subseteq TouchedBy(x)'
        <4>1. PICK V, M : Touched(x, Around(r) \cup Around(q), V, M)
          BY <3>1, <3>2, RenameTouched
        <4>2. Subtree(q) \subseteq Paths
          BY SubtreeInPaths
        <4> QED BY <4>1, <4>2 DEF Touched, TouchedBy, Around
      <3>4. PICK f : f = consumer[x].file
        OBVIOUS
      <3>5. consumer'[x].file = IF f = q THEN NoPath
                                ELSE IF f \in Subtree(r) THEN Rebase(f, r, q) ELSE f
        <4>1. consumer' = [consumer EXCEPT ![x].file = IF @ = q THEN NoPath
                             ELSE IF @ \in Subtree(r) THEN Rebase(@, r, q) ELSE @]
          BY <3>1
        <4>2. consumer'[x].file = IF consumer[x].file = q THEN NoPath
                             ELSE IF consumer[x].file \in Subtree(r)
                                    THEN Rebase(consumer[x].file, r, q)
                                    ELSE consumer[x].file
          BY <4>1, RenamedFile
        <4> QED BY <3>4, <4>2
      <3>6. f \in Files \cup {NoPath} /\ NoPath \notin Subtree(r)
        BY <1>2, <3>2, <3>4, ConsumerFields, SubtreeInPaths, NoPathAssumption
      <3>7. CASE f = q \/ f = NoPath
        BY <1>4, <3>5, <3>6, <3>7
      <3>8. CASE f \in Subtree(r) /\ f # q /\ f # NoPath
        <4>1. PICK g : g = Rebase(f, r, q)
          OBVIOUS
        <4>2. g \in Subtree(q) /\ Rebase(g, q, r) = f
          BY <3>1, <3>2, <3>6, <3>8, <4>1, RebaseInSubtree
        <4>3. f \in DOMAIN local[x]
          BY <1>2, <3>4, <3>8 DEF FileOf
        <4>4. g \in DOMAIN local'[x]
          BY <3>1, <3>2, <3>8, <4>2, <4>3, LocalMove
        <4> QED BY <3>3, <3>5, <3>8, <4>1, <4>2, <4>4 DEF FileOf
      <3>9. CASE f \notin Subtree(r) /\ f # q /\ f # NoPath
        <4>1. f \in DOMAIN local[x] /\ f \in ignored[x] \cup TouchedBy(x)
          BY <1>2, <3>4, <3>9 DEF FileOf
        <4>2. f \in DOMAIN local'[x]
          BY <3>1, <3>2, <3>9, <4>1, LocalMove
        <4> QED BY <1>2, <3>1, <3>5, <3>9, <4>1, <4>2 DEF FileOf
      <3> QED BY <3>7, <3>8, <3>9
    <2> QED BY <2>1, <2>2, <2>3, <2>4, <2>5, <2>6, <2>7, <2>8, <2>9
            DEF Moves, Client, Server, User
  <1> QED BY <1>5, <1>6 DEF FileInv

-----------------------------------------------------------------------------
(* What others say leaves a kept path alone.                                *)

\* Something of kind k about q, and its old name o, is not about p, what is in p, or,
\* unless it makes something, the directory p is in.
Apart(k, q, o, p) ==
  /\ q \notin Subtree(p)
  /\ k \in {"take", "rename"} => q \notin Above(p)
  /\ k = "rename" => o \notin Around(p)

\* What a client says that has not touched a kept path is about something else.
LEMMA BlamedApart ==
  ASSUME PastInv, NEW x \in Clients, NEW p \in Kept, x \notin past.touched[p],
         NEW k \in {"make", "take", "rename"}, NEW q \in Paths, NEW o \in Paths \cup {NoPath},
         Moved(k, q, o), Blames(x, k, q, o)
  PROVE  Apart(k, q, o, p)
  <1>1. p \in Paths /\ p \notin past.moved \cup past.lost
    BY DEF Kept
  <1>2. q \notin Subtree(p)
    BY KeptBelow DEF Subtree, Blames
  <1>3. ASSUME k = "take", q \in Above(p) PROVE FALSE
    <2>1. q \in Dirs /\ p \in Under(q)
      BY <1>1, <1>3, AboveUnder, PathsAssumption
    <2>2. Above(q) = {}
      BY <2>1, DirOnTop
    <2>3. p \in TouchedBy(x)
      BY <1>3, <2>1, <2>2 DEF Blames, Subtree
    <2> QED BY <2>3 DEF TouchedBy
  <1>4. ASSUME k = "rename", NEW r \in {q, o} \ {NoPath} PROVE r \notin Around(p)
    <2>1. Subtree(r) \subseteq past.moved /\ r \in Paths
      BY <1>4 DEF Moved
    <2>2. p \notin Subtree(r)
      BY <1>1, <2>1
    <2>3. r \in past.moved
      BY <2>1 DEF Subtree
    <2>4. r \notin Under(p)
      <3>1. r \in Under(p) => p \in Above(r)
        BY <1>1, <2>1, AboveUnder
      <3> QED BY <1>1, <2>1, <2>3, <3>1 DEF PastInv
    <2> QED BY <1>1, <2>1, <2>2, <2>4, AboveUnder DEF Around, Subtree
  <1>5. NoPath \notin Around(p) /\ q # NoPath
    BY <1>1, NoPathAssumption, AroundClosed
  <1>6. k = "rename" => o \notin Around(p) /\ q \notin Above(p)
    BY <1>4, <1>5 DEF Around
  <1> QED BY <1>2, <1>3, <1>6 DEF Apart

\* A sequence that makes nothing of it, or below it, and removes nothing above it.
LEMMA FitsBeside ==
  ASSUME NEW S, NEW s \in Seq(S), NEW D, NEW p \in Paths, NEW Rv, NEW Mk,
         \A i \in DOMAIN s : /\ s[i].path # p
                             /\ s[i] \in Rv => s[i].path \notin Above(p)
                             /\ s[i] \in Mk => s[i].path \notin Under(p)
  PROVE  Fits(s, D, p, Rv, Mk) /\ (p \in Final(s, D, Mk) <=> p \in D)
  <1>1. DOMAIN s = 1..Len(s)
    OBVIOUS
  <1>2. p \in Final(s, D, Mk) <=> p \in D
    BY FinalSilent
  <1> QED BY <1>1, <1>2 DEF Fits, Fitting

\* A sequence that makes nothing.
LEMMA TakenWord ==
  ASSUME NEW S, NEW s \in Seq(S), NEW D, NEW p \in Paths, NEW Mk,
         \A i \in DOMAIN s : s[i] \notin Mk
  PROVE  p \in Final(s, D, Mk) => p \in D /\ \A i \in DOMAIN s : s[i].path # p
  <1>1. DOMAIN s = 1..Len(s)
    OBVIOUS
  <1>2. ASSUME NEW j \in 1..Len(s) PROVE s[j] \notin Mk
    BY <1>1
  <1> QED BY <1>1, <1>2 DEF Final, After, Word

LEMMA FinalOne ==
  ASSUME NEW e, NEW D \in SUBSET Paths, NEW Mk, e.path \in Paths
  PROVE  Final(<<e>>, D, Mk) = Step(e, D, Mk)
  <1> DEFINE s == <<e>>
  <1>1. Len(s) = 1 /\ s[1] = e
    OBVIOUS
  <1> HIDE DEF s
  <1>2. 1 \in Nat \ {0} /\ 1 - 1 = 0 /\ s[1].path \in Paths
    BY <1>1
  <1>3. After(s, 1, D, Mk) = Step(s[1], After(s, 1 - 1, D, Mk), Mk)
    BY <1>2, AfterStep
  <1>4. After(s, 1 - 1, D, Mk) = D
    BY <1>2, AfterNone
  <1>5. Final(s, D, Mk) = Step(e, D, Mk)
    BY <1>1, <1>3, <1>4 DEF Final
  <1> QED BY <1>5 DEF s

LEMMA FitsOne ==
  ASSUME NEW e, NEW D \in SUBSET Paths, NEW p, NEW Rv, NEW Mk, Fitting(e, D, p, Rv, Mk)
  PROVE  Fits(<<e>>, D, p, Rv, Mk)
  <1> DEFINE s == <<e>>
  <1>1. Len(s) = 1 /\ s[1] = e
    OBVIOUS
  <1> HIDE DEF s
  <1>2. After(s, 0, D, Mk) = D
    BY AfterNone
  <1>3. \A i \in 1..Len(s) : i = 1 /\ i - 1 = 0
    BY <1>1
  <1>4. Fits(s, D, p, Rv, Mk)
    BY <1>1, <1>2, <1>3 DEF Fits
  <1> QED BY <1>4 DEF s

LEMMA NoneFits ==
  ASSUME NEW D \in SUBSET Paths, NEW p, NEW Rv, NEW Mk
  PROVE  Fits(<<>>, D, p, Rv, Mk) /\ Final(<<>>, D, Mk) = D
  <1>1. Len(<<>>) = 0
    OBVIOUS
  <1>2. Final(<<>>, D, Mk) = D
    BY <1>1, AfterNone DEF Final
  <1> QED BY <1>1, <1>2 DEF Fits

\* ... to a tree the server or a client has.
LEMMA ServeApart ==
  ASSUME TypeOK, PastInv, NEW x \in Clients, NEW p \in Kept, x \notin past.touched[p],
         NEW r \in RequestsOf(x), ~Refused(server, r)
  PROVE  Alike(server, Serve(server, r), p)
  <1>0. r \in Request /\ r.path \in Paths /\ p \in Paths /\ r.old \in Paths \cup {NoPath}
        /\ IsTree(server)
    BY RequestFields DEF RequestsOf, Kept, TypeOK, IsRooted
  <1>1. RequestKind(r) \in {"make", "take", "rename"}
    BY DEF RequestKind
  <1>2. Apart(RequestKind(r), r.path, r.old, p)
    BY <1>0, <1>1, BlamedApart DEF RequestsOf
  <1>3. CASE r.op = "upload"
    <2>1. r.path \in Files /\ r.body \in Body /\ p # r.path /\ p \notin Above(r.path)
      BY <1>0, <1>2, <1>3, RequestFields, AboveUnder DEF RequestsOf, Apart, Subtree
    <2>2. PICK q \in Files, b \in Body : q = r.path /\ b = Empty
      BY <2>1 DEF Body
    <2>3. Alike(server, CreateFile(server, q, b, 0), p)
      BY <1>0, <2>1, <2>2, CreateFileAlike
    <2> QED BY <1>3, <2>2, <2>3 DEF Serve
  <1>4. CASE r.op = "mkdir"
    <2>1. PICK q \in Dirs : q = r.path /\ q # p
      BY <1>2, <1>4 DEF RequestsOf, Apart, Subtree
    <2>2. Alike(server, MkDir(server, q, 0), p)
      BY <1>0, <2>1, MkDirAlike
    <2> QED BY <1>4, <2>1, <2>2 DEF Serve
  <1>5. CASE r.op = "rename"
    <2>1. /\ CanMove(server, r.old, r.path) /\ r.old \in Paths /\ r.path \in Paths
          /\ r.old \notin Around(p) /\ r.path \notin Around(p)
      BY <1>0, <1>2, <1>5, RequestFields DEF Refused, Apart, RequestKind, Around
    <2>2. PICK q \in Paths, o \in Paths : q = r.path /\ o = r.old
      BY <2>1
    <2>3. p \notin Subtree(q) /\ p \notin Subtree(o)
      BY <1>0, <2>1, <2>2, AboveUnder DEF Around, Subtree
    <2>4. Alike(server, Move(server, o, q, 0), p)
      BY <1>0, <2>1, <2>2, <2>3, MoveAlike
    <2> QED BY <1>5, <2>2, <2>4 DEF Serve
  <1>6. CASE r.op = "remove"
    <2>1. PICK q \in Paths : q = r.path
      BY <1>0
    <2>2. p \notin Subtree(q)
      BY <1>0, <1>2, <1>6, <2>1, AboveUnder DEF Apart, RequestKind, Subtree
    <2>3. Alike(server, Rm(server, q, 0), p)
      BY <1>0, <2>1, <2>2, RmAlike
    <2> QED BY <1>6, <2>1, <2>3 DEF Serve
  <1> QED BY <1>0, <1>3, <1>4, <1>5, <1>6, RequestFields

-----------------------------------------------------------------------------
(* The line from a directory to the server, step by step.                   *)

LEMMA FinalPaths ==
  ASSUME NEW s, NEW D, NEW Mk
  PROVE  Final(s, D, Mk) \in SUBSET Paths
  BY DEF Final, After

\* Both ends may change, but for p.
LEMMA LineSame ==
  ASSUME NEW p \in Paths, NEW D, NEW E, p \in E <=> p \in D, NEW s, NEW H, NEW es,
         NEW L, NEW M, p \in M <=> p \in L, NEW W, NEW X, Parent(p) \in W => Parent(p) \in X,
         NEW U, NEW V, p \in U => p \in V, Line(p, D, s, H, es, L, W, U)
  PROVE  Line(p, E, s, H, es, M, X, V)
  <1> DEFINE C == Final(s, D, Making)
             B == Final(s, E, Making)
             T == Final(es, H \cup C, Making)
             R == Final(es, H \cup B, Making)
  <1>1. /\ p \in T => p \in L /\ Parent(p) \in W
        /\ p \in L \ U => p \in T
        /\ Fits(s, D, p, Removing, Making)
        /\ Fits(es, H \cup C, p, Removing, Making)
        /\ H \cap Under(p) # {} => p \in C
    BY DEF Line
  <1>2. (p \in B <=> p \in C) /\ Fits(s, E, p, Removing, Making)
    BY <1>1, FitsSame
  <1> HIDE DEF C, B
  <1>3. (p \in R <=> p \in T) /\ Fits(es, H \cup B, p, Removing, Making)
    BY <1>1, <1>2, FitsSame
  <1> HIDE DEF T, R
  <1>4. /\ p \in R => p \in M /\ Parent(p) \in X
        /\ p \in M \ V => p \in R
        /\ H \cap Under(p) # {} => p \in B
    BY <1>1, <1>2, <1>3
  <1> QED BY <1>2, <1>3, <1>4 DEF Line, T, R, C, B

\* What is said of p when L becomes M, and W becomes X.
Says(p, t, L, W, U, M, X, V) ==
  \A T \in SUBSET Paths :
    /\ p \in T => p \in L /\ Parent(p) \in W
    /\ p \in L \ U => p \in T
    =>
    /\ Fits(t, T, p, Removing, Making)
    /\ p \in Final(t, T, Making) => p \in M /\ Parent(p) \in X
    /\ p \in M \ V => p \in Final(t, T, Making)

\* New events at its end say what has happened meanwhile.
LEMMA LineRaise ==
  ASSUME NEW p \in Paths, NEW D, NEW s, NEW H, NEW es \in Seq(Event), NEW t \in Seq(Event),
         NEW L, NEW W, NEW U, NEW M, NEW X, NEW V,
         Line(p, D, s, H, es, L, W, U), Says(p, t, L, W, U, M, X, V)
  PROVE  Line(p, D, s, H, es \o t, M, X, V)
  <1> DEFINE C == Final(s, D, Making)
             T == Final(es, H \cup C, Making)
             R == Final(es \o t, H \cup C, Making)
  <1>1. /\ p \in T => p \in L /\ Parent(p) \in W
        /\ p \in L \ U => p \in T
        /\ Fits(s, D, p, Removing, Making)
        /\ Fits(es, H \cup C, p, Removing, Making)
        /\ H \cap Under(p) # {} => p \in C
    BY DEF Line
  <1>2. T \in SUBSET Paths
    BY FinalPaths
  <1> HIDE DEF C
  <1>3. R = Final(t, T, Making)
    BY AfterConcat
  <1>4. /\ Fits(t, T, p, Removing, Making)
        /\ p \in Final(t, T, Making) => p \in M /\ Parent(p) \in X
        /\ p \in M \ V => p \in Final(t, T, Making)
    <2> HIDE DEF T, R
    <2> QED BY <1>1, <1>2 DEF Says
  <1>5. Fits(es \o t, H \cup C, p, Removing, Making)
    BY <1>1, <1>4, FitsConcat
  <1> HIDE DEF T, R
  <1>6. /\ p \in R => p \in M /\ Parent(p) \in X
        /\ p \in M \ V => p \in R
    BY <1>3, <1>4
  <1> QED BY <1>1, <1>5, <1>6 DEF Line, C, R

\* fsnotify's next event moves on: what it leaves the debouncer and the channel is, for p,
\* what it says.
LEMMA LineMoves ==
  ASSUME NEW p \in Paths, NEW D, NEW s, NEW z, NEW H \in SUBSET Paths, NEW I,
         NEW es \in Seq(Event), es # <<>>, NEW L, NEW W, NEW U,
         Line(p, D, s, H, es, L, W, U),
         Fits(z, D, p, Removing, Making),
         p \in I \cup Final(z, D, Making)
           <=> p \in Step(Head(es), H \cup Final(s, D, Making), Making),
         I \cap Under(p) # {} => p \in Final(z, D, Making)
  PROVE  Line(p, D, z, I, Tail(es), L, W, U)
  <1> DEFINE C == Final(s, D, Making)
             B == Final(z, D, Making)
             S == Step(Head(es), H \cup C, Making)
             T == Final(es, H \cup C, Making)
             R == Final(Tail(es), I \cup B, Making)
  <1>1. /\ p \in T => p \in L /\ Parent(p) \in W
        /\ p \in L \ U => p \in T
        /\ Fits(es, H \cup C, p, Removing, Making)
    BY DEF Line
  <1>2. H \cup C \in SUBSET Paths
    BY FinalPaths
  <1>3. p \in I \cup B <=> p \in S
    OBVIOUS
  <1> HIDE DEF B, C
  <1>4. T = Final(Tail(es), S, Making)
    BY AfterTail
  <1>5. Fits(Tail(es), S, p, Removing, Making)
    BY <1>1, <1>2, FitsTail
  <1> HIDE DEF S
  <1>6. (p \in R <=> p \in T) /\ Fits(Tail(es), I \cup B, p, Removing, Making)
    BY <1>3, <1>4, <1>5, FitsSame
  <1> HIDE DEF T, R
  <1>7. /\ p \in R => p \in L /\ Parent(p) \in W
        /\ p \in L \ U => p \in R
    BY <1>1, <1>6
  <1> QED BY <1>6, <1>7 DEF Line, R, B

\* The next item of the channel goes to the server.
LEMMA LineSends ==
  ASSUME NEW p \in Paths, NEW D \in SUBSET Paths, NEW E, NEW s \in Seq(Event), s # <<>>,
         NEW H, NEW es, NEW L, NEW W, NEW U, Line(p, D, s, H, es, L, W, U),
         p \in E <=> p \in Step(Head(s), D, Making)
  PROVE  Line(p, E, Tail(s), H, es, L, W, U)
  <1> DEFINE C == Final(s, D, Making)
             S == Step(Head(s), D, Making)
             B == Final(Tail(s), E, Making)
             T == Final(es, H \cup C, Making)
             R == Final(es, H \cup B, Making)
  <1>1. /\ p \in T => p \in L /\ Parent(p) \in W
        /\ p \in L \ U => p \in T
        /\ Fits(s, D, p, Removing, Making)
        /\ Fits(es, H \cup C, p, Removing, Making)
        /\ H \cap Under(p) # {} => p \in C
    BY DEF Line
  <1>2. C = Final(Tail(s), S, Making) /\ Fits(Tail(s), S, p, Removing, Making)
    BY <1>1, AfterTail, FitsTail
  <1>3. p \in E <=> p \in S
    OBVIOUS
  <1> HIDE DEF C, S
  <1>4. (p \in B <=> p \in C) /\ Fits(Tail(s), E, p, Removing, Making)
    BY <1>2, <1>3, FitsSame
  <1> HIDE DEF B
  <1>5. (p \in R <=> p \in T) /\ Fits(es, H \cup B, p, Removing, Making)
    BY <1>1, <1>4, FitsSame
  <1> HIDE DEF T, R
  <1>6. /\ p \in R => p \in L /\ Parent(p) \in W
        /\ p \in L \ U => p \in R
        /\ H \cap Under(p) # {} => p \in B
    BY <1>1, <1>4, <1>5
  <1> QED BY <1>4, <1>5, <1>6 DEF Line, R, B

\* ... or, when it is about a note that is not there any more, nowhere.
LEMMA LineSkips ==
  ASSUME NEW p \in Files, NEW D \in SUBSET Paths, NEW s \in Seq(Event), s # <<>>,
         NEW H, NEW es, NEW L, NEW W, NEW U, Line(p, D, s, H, es, L, W, U),
         p \in D => p \in Step(Head(s), D, Making), p \notin L
  PROVE  Line(p, D, Tail(s), H, es, L, W, U)
  <1> DEFINE C == Final(s, D, Making)
             S == Step(Head(s), D, Making)
             B == Final(Tail(s), D, Making)
             T == Final(es, H \cup C, Making)
             R == Final(es, H \cup B, Making)
  <1>1. /\ p \in T => p \in L /\ Parent(p) \in W
        /\ Fits(s, D, p, Removing, Making)
        /\ Fits(es, H \cup C, p, Removing, Making)
    BY DEF Line
  <1>2. C = Final(Tail(s), S, Making) /\ Fits(Tail(s), S, p, Removing, Making)
    BY <1>1, AfterTail, FitsTail
  <1>3. (p \in D => p \in S) /\ Under(p) = {} /\ p \in Paths
    BY NothingInNotes
  <1> HIDE DEF C, S
  <1>4. (p \in B => p \in C) /\ Fits(Tail(s), D, p, Removing, Making)
    BY <1>2, <1>3, FitsWeaker
  <1> HIDE DEF B
  <1>5. (p \in R => p \in T) /\ Fits(es, H \cup B, p, Removing, Making)
    BY <1>1, <1>3, <1>4, FitsWeaker
  <1> HIDE DEF T, R
  <1>6. /\ p \in R => p \in L /\ Parent(p) \in W
        /\ p \in L \ U => p \in R
        /\ H \cap Under(p) # {} => p \in B
    BY <1>1, <1>3, <1>5
  <1> QED BY <1>4, <1>5, <1>6 DEF Line, R, B

-----------------------------------------------------------------------------
(* ... action by action: the watcher, the debouncer and the processor.      *)

\* What is a client's own it has not been told of.
LEMMA OwnUnheard ==
  ASSUME PastInv, HearsayInv, NEW c \in Clients, NEW p \in Own(c), NEW q \in Subtree(p)
  PROVE  /\ q \in Own(c) /\ q \in Kept /\ q \in Paths
         /\ q \notin ignored[c] /\ q # consumer[c].from /\ q # consumer[c].file
  <1>1. p \in Kept
    BY DEF Own
  <1>2. q \in Own(c) /\ q \in Kept /\ q \in Paths
    BY <1>1, KeptBelow DEF Subtree, Kept, Own
  <1>3. HearsayOf(c, q) /\ past.touched[q] \subseteq {c}
    BY <1>2 DEF HearsayInv, Own
  <1> QED BY <1>2, <1>3 DEF HearsayOf

\* A step that leaves the request at the server, and the paths' past, alone.
LEMMA LineOfFrom ==
  ASSUME NEW c \in Clients, NEW p, LineOf(c, p), UNCHANGED <<server, proc, local, past>>,
         Line(p, Sent(c), channel'[c], held'[c], events'[c], DOMAIN local[c], watched'[c],
              past.unseen)
  PROVE  LineOf(c, p)'
  <1>1. Sent(c)' = Sent(c)
    BY DEF Sent
  <1> QED BY <1>1 DEF LineOf

LEMMA NotesHaveNone ==
  ASSUME NEW p \in Paths, NEW q \in Under(p)
  PROVE  p \notin Files /\ q # p /\ q \in Paths /\ p \in Above(q)
  BY UnderDirs, NothingInNotes, AboveUnder

\* The watcher, the debouncer, the processor and the server keep it whole.
LEMMA LineWatch ==
  ASSUME TypeOK, PastInv, BlameInv, HearsayInv, LineInv,
         NEW c \in Clients, Watch(c), NEW p \in Own(c)
  PROVE  LineOf(c, p)'
  <1>1. PICK D, s, H, es, L, W, U :
          /\ D = Sent(c) /\ s = channel[c] /\ H = held[c] /\ es = events[c]
          /\ L = DOMAIN local[c] /\ W = watched[c] /\ U = past.unseen
    OBVIOUS
  <1>2. /\ H \in SUBSET Files /\ H \in SUBSET Paths
        /\ es \in Seq(Event) /\ es \in Seq(EventsOf(c)) /\ es # <<>>
        /\ s \in Seq(Event)
    BY <1>1 DEF TypeOK, Watch, BlameInv, BlameOf, Files
  <1>3. PICK e \in EventsOf(c) : e = Head(es)
    BY <1>2, HeadTailType
  <1>4. /\ events'[c] = Tail(es) /\ UNCHANGED <<server, proc, local, past, watched>>
        /\ \/ /\ e.path \in ignored[c]
              /\ held'[c] = H /\ channel'[c] = s
           \/ /\ e.path \notin ignored[c] /\ e.op = "WRITE"
              /\ held'[c] = H \cup {e.path} /\ channel'[c] = s
           \/ /\ e.path \notin ignored[c] /\ e.op = "CREATE"
              /\ held'[c] = H /\ channel'[c] = Append(s, Created(e))
           \/ /\ e.path \notin ignored[c] /\ e.op = "RENAME"
              /\ held'[c] = H \ {e.path} /\ channel'[c] = s
           \/ /\ e.path \notin ignored[c] /\ e.op = "REMOVE"
              /\ held'[c] = H \ {e.path} /\ channel'[c] = Append(s, e)
    BY <1>1, <1>3 DEF Watch, Put, TypeOK
  <1>5. e \in Event /\ e.path \in Paths /\ Moved(EventKind(e), e.path, e.old)
    BY EventFields DEF EventsOf
  <1>6. p \in Kept /\ p \in Paths /\ p \notin past.moved
    BY DEF Own, Kept
  <1>7. LineOf(c, p) /\ Line(p, D, s, H, es, L, W, U)
    BY <1>1 DEF LineInv, LineOf
  <1>8. PICK C : C = Final(s, D, Making)
    OBVIOUS
  <1>9. /\ C \in SUBSET Paths /\ H \cup C \in SUBSET Paths
        /\ Fits(s, D, p, Removing, Making)
        /\ Fits(es, H \cup C, p, Removing, Making)
        /\ H \cap Under(p) # {} => p \in C
    BY <1>2, <1>7, <1>8, FinalPaths DEF Line
  <1>10. Fitting(e, H \cup C, p, Removing, Making)
    BY <1>2, <1>3, <1>9, FitsTail
  <1>11. e.op = "WRITE" \/ (e.op = "CREATE" /\ e.old = NoPath) => e \in Making
    BY <1>5, KindOf DEF Making, EventKind
  <1>12. e.op = "REMOVE" => e \in Removing /\ e \notin Making
    BY <1>5, KindOf DEF Making, Removing, EventKind
  <1>13. EventKind(e) = "rename" => e \notin Making /\ e \notin Removing /\ e.path # p
    <2>1. EventKind(e) = "rename" => e.path \in past.moved
      BY <1>5, NoPathAssumption DEF Moved, Subtree
    <2> QED BY <1>6, <2>1 DEF Making, Removing
  <1>14. ASSUME Fits(channel'[c], D, p, Removing, Making),
                p \in held'[c] \cup Final(channel'[c], D, Making)
                  <=> p \in Step(e, H \cup C, Making),
                held'[c] \cap Under(p) # {} => p \in Final(channel'[c], D, Making)
         PROVE  LineOf(c, p)'
    <2>1. PICK z, I : z = channel'[c] /\ I = held'[c]
      OBVIOUS
    <2>2. Line(p, D, z, I, Tail(es), L, W, U)
      BY <1>2, <1>3, <1>6, <1>7, <1>8, <1>14, <2>1, LineMoves
    <2> QED BY <1>1, <1>4, <1>7, <2>1, <2>2, LineOfFrom
  <1>15. CASE e.path \in ignored[c]
    <2>1. held'[c] = H /\ channel'[c] = s /\ e.path # p
      BY <1>4, <1>15, OwnUnheard DEF Subtree
    <2>2. p \in Step(e, H \cup C, Making) <=> p \in H \cup C
      BY <2>1 DEF Step
    <2> QED BY <1>8, <1>9, <1>14, <2>1, <2>2
  <1>16. CASE e.path \notin ignored[c] /\ e.op = "WRITE"
    <2>1. held'[c] = H \cup {e.path} /\ channel'[c] = s
      BY <1>4, <1>16
    <2>2. Step(e, H \cup C, Making) = (H \cup C) \cup {e.path}
      BY <1>11, <1>16 DEF Step
    <2>3. ASSUME e.path \in Under(p) PROVE p \in C
      BY <1>2, <1>6, <1>10, <1>11, <1>16, <2>3, NotesHaveNone DEF Fitting
    <2>4. held'[c] \cap Under(p) # {} => p \in C
      BY <1>9, <2>1, <2>3
    <2> QED BY <1>8, <1>9, <1>14, <2>1, <2>2, <2>4
  <1>17. CASE e.path \notin ignored[c] /\ e.op = "CREATE"
    <2>1. /\ held'[c] = H /\ channel'[c] = Append(s, Created(e))
          /\ Created(e) \in Event /\ Created(e).path = e.path
      BY <1>4, <1>5, <1>17, CreatedKind
    <2>2. Final(channel'[c], D, Making) = Step(Created(e), C, Making)
      BY <1>2, <1>5, <1>8, <2>1, FinalAppend
    <2>3. CASE e.old = NoPath
      <3>1. Created(e) = e /\ e \in Making /\ e \notin Removing
        BY <1>5, <1>11, <1>17, <2>3, CreatedKind DEF Making, Removing
      <3>2. Final(channel'[c], D, Making) = C \cup {e.path}
        BY <2>2, <3>1 DEF Step
      <3>3. Step(e, H \cup C, Making) = (H \cup C) \cup {e.path}
        BY <3>1 DEF Step
      <3>4. ASSUME e.path \in Under(p) PROVE p \in C
        BY <1>2, <1>6, <1>10, <3>1, <3>4, NotesHaveNone DEF Fitting
      <3>5. Fitting(e, C, p, Removing, Making)
        BY <3>1, <3>4 DEF Fitting
      <3>6. Fits(channel'[c], D, p, Removing, Making)
        BY <1>2, <1>5, <1>8, <1>9, <2>1, <3>1, <3>5, FitsAppend
      <3>7. p \in held'[c] \cup Final(channel'[c], D, Making) <=> p \in Step(e, H \cup C, Making)
        BY <2>1, <3>2, <3>3
      <3>8. held'[c] \cap Under(p) # {} => p \in Final(channel'[c], D, Making)
        BY <1>9, <2>1, <3>2
      <3> QED BY <1>14, <3>6, <3>7, <3>8
    <2>4. CASE e.old # NoPath
      <3>1. /\ EventKind(Created(e)) = "rename" /\ EventKind(e) = "rename" /\ e.path # p
            /\ Created(e) \notin Making /\ Created(e) \notin Removing /\ e \notin Making
        BY <1>5, <1>13, <1>17, <2>4, KindOf, CreatedKind DEF Making, Removing
      <3>2. p \in Final(channel'[c], D, Making) <=> p \in C
        BY <2>1, <2>2, <3>1 DEF Step
      <3>3. p \in Step(e, H \cup C, Making) <=> p \in H \cup C
        BY <3>1 DEF Step
      <3>4. Fitting(Created(e), C, p, Removing, Making)
        BY <3>1 DEF Fitting
      <3>5. Fits(channel'[c], D, p, Removing, Making)
        BY <1>2, <1>5, <1>8, <1>9, <2>1, <3>4, FitsAppend
      <3>6. p \in held'[c] \cup Final(channel'[c], D, Making) <=> p \in Step(e, H \cup C, Making)
        BY <2>1, <3>2, <3>3
      <3>7. held'[c] \cap Under(p) # {} => p \in Final(channel'[c], D, Making)
        BY <1>9, <2>1, <3>2
      <3> QED BY <1>14, <3>5, <3>6, <3>7
    <2> QED BY <2>3, <2>4
  <1>18. CASE e.path \notin ignored[c] /\ e.op = "RENAME"
    <2>1. held'[c] = H \ {e.path} /\ channel'[c] = s
      BY <1>4, <1>18
    <2>2. e.path # p /\ e \notin Making
      BY <1>5, <1>13, <1>18, KindOf
    <2>3. p \in Step(e, H \cup C, Making) <=> p \in H \cup C
      BY <2>2 DEF Step
    <2>4. p \in held'[c] \cup C <=> p \in Step(e, H \cup C, Making)
      BY <2>1, <2>2, <2>3
    <2>5. held'[c] \cap Under(p) # {} => p \in C
      BY <1>9, <2>1
    <2> QED BY <1>8, <1>9, <1>14, <2>1, <2>4, <2>5
  <1>19. CASE e.path \notin ignored[c] /\ e.op = "REMOVE"
    <2>1. held'[c] = H \ {e.path} /\ channel'[c] = Append(s, e)
      BY <1>4, <1>19
    <2>2. e \in Removing /\ e \notin Making
      BY <1>12, <1>19
    <2>3. Final(channel'[c], D, Making) = C \ {e.path}
      <3>1. Final(channel'[c], D, Making) = Step(e, C, Making)
        BY <1>2, <1>5, <1>8, <2>1, FinalAppend
      <3> QED BY <2>2, <3>1 DEF Step
    <2>4. Step(e, H \cup C, Making) = (H \cup C) \ {e.path}
      BY <2>2 DEF Step
    <2>5. Fitting(e, C, p, Removing, Making)
      BY <1>10, <2>2 DEF Fitting
    <2>6. Fits(channel'[c], D, p, Removing, Making)
      BY <1>2, <1>5, <1>8, <1>9, <2>1, <2>5, FitsAppend
    <2>7. ASSUME NEW r \in held'[c] \cap Under(p) PROVE p # e.path
      <3>1. r \in Own(c) /\ r \in Subtree(p) /\ p \in Above(r)
        BY <1>6, <2>7, OwnUnheard, NotesHaveNone DEF Subtree
      <3>2. Line(r, D, s, H, es, L, W, U)
        BY <1>1, <3>1 DEF LineInv, LineOf
      <3>3. Fits(es, H \cup C, r, Removing, Making)
        BY <1>8, <3>2 DEF Line
      <3>4. Fitting(e, H \cup C, r, Removing, Making)
        BY <1>2, <1>3, <1>9, <3>3, FitsTail
      <3> QED BY <2>1, <2>2, <2>7, <3>1, <3>4 DEF Fitting
    <2>8. held'[c] \cap Under(p) # {} => p \in Final(channel'[c], D, Making)
      BY <1>9, <2>1, <2>3, <2>7
    <2>9. p \in held'[c] \cup Final(channel'[c], D, Making) <=> p \in Step(e, H \cup C, Making)
      BY <2>1, <2>3, <2>4
    <2> QED BY <1>14, <2>6, <2>8, <2>9
  <1> QED BY <1>4, <1>15, <1>16, <1>17, <1>18, <1>19

LEMMA LineRelease ==
  ASSUME TypeOK, LineInv, NEW c \in Clients, Release(c), NEW p \in Own(c)
  PROVE  LineOf(c, p)'
  <1>1. PICK D, s, H, es, L, W, U :
          /\ D = Sent(c) /\ s = channel[c] /\ H = held[c] /\ es = events[c]
          /\ L = DOMAIN local[c] /\ W = watched[c] /\ U = past.unseen
    OBVIOUS
  <1>2. H \in SUBSET Files /\ es \in Seq(Event) /\ s \in Seq(Event)
    BY <1>1 DEF TypeOK
  <1>3. PICK q \in H, e \in Event : /\ q \in Files /\ q \in Paths /\ e = FsEvent("WRITE", q)
                                    /\ held'[c] = H \ {q} /\ channel'[c] = Append(s, e)
    <2>1. PICK q \in held[c] : /\ held' = [held EXCEPT ![c] = @ \ {q}]
                               /\ Put(c, FsEvent("WRITE", q))
      BY DEF Release
    <2>2. q \in Files /\ q \in Paths
      BY <1>1, <1>2 DEF Files
    <2>3. PICK e \in Event : e = FsEvent("WRITE", q)
      BY <2>2, FsEventKind
    <2>4. held'[c] = H \ {q}
      BY <1>1, <2>1 DEF TypeOK
    <2>5. channel'[c] = Append(s, e)
      BY <1>1, <2>1, <2>3 DEF TypeOK, Put
    <2> QED BY <1>1, <2>1, <2>2, <2>3, <2>4, <2>5
  <1>4. UNCHANGED <<server, proc, local, past, watched, events>>
    BY DEF Release
  <1>5. LineOf(c, p) /\ Line(p, D, s, H, es, L, W, U) /\ p \in Paths
    BY <1>1 DEF LineInv, LineOf, Own, Kept
  <1>6. PICK C : C = Final(s, D, Making)
    OBVIOUS
  <1>7. PICK z : z = channel'[c]
    OBVIOUS
  <1>8. e.path = q /\ e \in Making /\ e \notin Removing
    BY <1>3, FsEventKind DEF Making, Removing
  <1>9. Final(z, D, Making) = C \cup {q}
    <2>1. Final(z, D, Making) = Step(e, C, Making)
      BY <1>2, <1>3, <1>6, <1>7, <1>8, FinalAppend
    <2> QED BY <1>8, <2>1 DEF Step
  <1>10. H \cup C = (H \ {q}) \cup Final(z, D, Making)
    BY <1>3, <1>9
  <1>11. /\ Fits(s, D, p, Removing, Making) /\ Fits(es, H \cup C, p, Removing, Making)
         /\ H \cap Under(p) # {} => p \in C
         /\ p \in Final(es, H \cup C, Making) => p \in L /\ Parent(p) \in W
         /\ p \in L \ U => p \in Final(es, H \cup C, Making)
    BY <1>5, <1>6 DEF Line
  <1>12. Fitting(e, C, p, Removing, Making)
    BY <1>3, <1>8, <1>11 DEF Fitting
  <1>13. Fits(z, D, p, Removing, Making)
    BY <1>2, <1>3, <1>6, <1>7, <1>8, <1>11, <1>12, FitsAppend
  <1>14. (H \ {q}) \cap Under(p) # {} => p \in Final(z, D, Making)
    BY <1>9, <1>11
  <1>15. Line(p, D, z, H \ {q}, es, L, W, U)
    BY <1>10, <1>11, <1>13, <1>14 DEF Line
  <1> QED BY <1>1, <1>3, <1>4, <1>5, <1>7, <1>15, LineOfFrom

-----------------------------------------------------------------------------
(* ... the processor and the server.                                        *)

\* What the processor makes of the next item.
LEMMA ProcessCases ==
  ASSUME TypeOK, BlameInv, NEW c \in Clients, Process(c)
  PROVE  \E e \in ItemsOf(c) :
           /\ e = Head(channel[c]) /\ channel[c] # <<>> /\ channel'[c] = Tail(channel[c])
           /\ e \in Event /\ e.path \in Paths
           /\ UNCHANGED <<server, local, events, held, queue, consumer, ignored, past>>
           /\ proc[c].pc = "idle" /\ watched[c] \subseteq watched'[c]
           /\ \A x \in Clients \ {c} : proc'[x] = proc[x]
           /\ e \in Making /\ e.path \in Dirs \cap DOMAIN local[c] => e.path \in watched'[c]
           /\ \/ /\ proc'[c] = proc[c] /\ e \in Making /\ e.path \in Files
                 /\ e.path \notin DOMAIN local[c] \/ e.path \in ignored[c]
              \/ /\ proc'[c].pc = "send" /\ proc'[c].req.path = e.path
                 /\ \/ proc'[c].req.op = "remove" /\ e \in Removing /\ e \notin Making
                    \/ proc'[c].req.op = "rename" /\ EventKind(e) = "rename"
                    \/ proc'[c].req.op = "mkdir" /\ e \in Making /\ e.path \in Dirs
                    \/ /\ proc'[c].req.op = "upload" /\ e \in Making /\ e.path \in Files
                       /\ proc'[c].req.body = local[c][e.path].body
  <1>1. channel[c] # <<>> /\ channel'[c] = Tail(channel[c]) /\ proc[c].pc = "idle"
    BY DEF Process, TypeOK
  <1>2. PICK e \in ItemsOf(c) : e = Head(channel[c])
    BY <1>1, HeadTailType DEF BlameInv, BlameOf
  <1>3. e \in Event /\ e.path \in Paths
    BY EventFields DEF ItemsOf
  <1>4. UNCHANGED <<server, local, events, held, queue, consumer, ignored, past>>
    BY DEF Process
  <1>5. e.op \in {"CREATE", "WRITE"} => e \in Making /\ e \notin Removing
    BY <1>3 DEF ItemsOf, Making, Removing, EventKind
  <1>6. e.op = "REMOVE" => e \in Removing /\ e \notin Making
    BY <1>3, KindOf DEF Making, Removing, EventKind
  <1>7. e.op = "NECO_RENAME" => EventKind(e) = "rename" /\ e \notin Making
    BY <1>3, KindOf DEF Making
  <1>8. \A S, d : watched' = [watched EXCEPT ![c] = IF d \in S THEN @ \cup {d} ELSE @] =>
          watched[c] \subseteq watched'[c] /\ (d \in S => d \in watched'[c])
    BY DEF TypeOK
  <1>9. \A d : AddWatch(c, d) => /\ watched[c] \subseteq watched'[c]
                                 /\ d \in DOMAIN local[c] => d \in watched'[c]
    BY <1>8 DEF AddWatch
  <1>10. ASSUME NEW op, NEW o, NEW b, Send(c, op, e.path, o, b)
         PROVE  /\ proc'[c].pc = "send" /\ proc'[c].req.path = e.path
                /\ proc'[c].req.op = op /\ proc'[c].req.body = b
                /\ \A x \in Clients \ {c} : proc'[x] = proc[x]
    BY <1>10 DEF Send, TypeOK
  <1>11. CASE /\ e.op \in {"CREATE", "WRITE"} /\ e.path \in Files
              /\ Send(c, "upload", e.path, NoPath, local[c][e.path].body) /\ UNCHANGED watched
    <2>1. e.path \notin Dirs
      BY <1>11 DEF Files
    <2>2. PICK b : b = local[c][e.path].body
      OBVIOUS
    <2>3. /\ proc'[c].pc = "send" /\ proc'[c].req.path = e.path
          /\ proc'[c].req.op = "upload" /\ proc'[c].req.body = b
          /\ \A x \in Clients \ {c} : proc'[x] = proc[x]
      BY <1>10, <1>11, <2>2
    <2> QED BY <1>1, <1>2, <1>3, <1>4, <1>5, <1>11, <2>1, <2>2, <2>3
  <1>12. CASE /\ e.op \in {"CREATE", "WRITE"} /\ e.path \in Files
              /\ e.path \notin DOMAIN local[c] \/ e.path \in ignored[c]
              /\ UNCHANGED <<proc, watched>>
    BY <1>1, <1>2, <1>3, <1>4, <1>5, <1>12 DEF Files
  <1>13. CASE /\ e.op = "CREATE" /\ e.path \in Dirs /\ AddWatch(c, e.path)
              /\ Send(c, "mkdir", e.path, NoPath, NoBody)
    BY <1>1, <1>2, <1>3, <1>4, <1>5, <1>9, <1>10, <1>13
  <1>14. CASE /\ e.op = "NECO_RENAME"
              /\ AddWatch(c, e.path) \/ UNCHANGED watched
              /\ Send(c, "rename", e.path, e.old, NoBody)
    BY <1>1, <1>2, <1>3, <1>4, <1>7, <1>9, <1>10, <1>14
  <1>15. CASE e.op = "REMOVE" /\ Send(c, "remove", e.path, NoPath, NoBody) /\ UNCHANGED watched
    BY <1>1, <1>2, <1>3, <1>4, <1>6, <1>10, <1>15
  <1>16. \/ /\ e.op \in {"CREATE", "WRITE"} /\ e.path \in Files
            /\ Send(c, "upload", e.path, NoPath, local[c][e.path].body) /\ UNCHANGED watched
         \/ /\ e.op \in {"CREATE", "WRITE"} /\ e.path \in Files
            /\ e.path \notin DOMAIN local[c] \/ e.path \in ignored[c]
            /\ UNCHANGED <<proc, watched>>
         \/ /\ e.op = "CREATE" /\ e.path \in Dirs /\ AddWatch(c, e.path)
            /\ Send(c, "mkdir", e.path, NoPath, NoBody)
         \/ /\ e.op = "NECO_RENAME"
            /\ AddWatch(c, e.path) \/ UNCHANGED watched
            /\ Send(c, "rename", e.path, e.old, NoBody)
         \/ e.op = "REMOVE" /\ Send(c, "remove", e.path, NoPath, NoBody) /\ UNCHANGED watched
    BY <1>2 DEF Process, AddNew
  <1> QED BY <1>11, <1>12, <1>13, <1>14, <1>15, <1>16

LEMMA LineProcess ==
  ASSUME TypeOK, PastInv, BlameInv, HearsayInv, LineInv, NEW c \in Clients, Process(c),
         NEW p \in Own(c)
  PROVE  LineOf(c, p)'
  <1>1. PICK e \in ItemsOf(c) :
           /\ e = Head(channel[c]) /\ channel[c] # <<>> /\ channel'[c] = Tail(channel[c])
           /\ e \in Event /\ e.path \in Paths
           /\ UNCHANGED <<server, local, events, held, queue, consumer, ignored, past>>
           /\ proc[c].pc = "idle" /\ watched[c] \subseteq watched'[c]
           /\ \/ /\ proc'[c] = proc[c] /\ e \in Making /\ e.path \in Files
                 /\ e.path \notin DOMAIN local[c] \/ e.path \in ignored[c]
              \/ /\ proc'[c].pc = "send" /\ proc'[c].req.path = e.path
                 /\ \/ proc'[c].req.op = "remove" /\ e \in Removing /\ e \notin Making
                    \/ proc'[c].req.op = "rename" /\ EventKind(e) = "rename"
                    \/ proc'[c].req.op = "mkdir" /\ e \in Making /\ e.path \in Dirs
                    \/ proc'[c].req.op = "upload" /\ e \in Making /\ e.path \in Files
    BY ProcessCases
  <1>2. PICK D, s, H, es, L, W, U, X :
          /\ D = DOMAIN server /\ s = channel[c] /\ H = held[c] /\ es = events[c]
          /\ L = DOMAIN local[c] /\ W = watched[c] /\ U = past.unseen /\ X = watched'[c]
    OBVIOUS
  <1>3. D \in SUBSET Paths /\ s \in Seq(Event) /\ s # <<>> /\ e = Head(s) /\ W \subseteq X
    BY <1>1, <1>2 DEF TypeOK, IsRooted, IsTree
  <1>4. Sent(c) = D
    BY <1>1, <1>2 DEF Sent
  <1>5. p \in Kept /\ p \in Paths /\ p \notin past.moved
    BY DEF Own, Kept
  <1>6. Line(p, D, s, H, es, L, W, U)
    BY <1>2, <1>4 DEF LineInv, LineOf
  <1>7. Fitting(e, D, p, Removing, Making)
    BY <1>3, <1>6, FitsTail DEF Line
  <1>8. EventKind(e) = "rename" => e.path # p /\ e \notin Making
    BY <1>1, <1>5, NoPathAssumption DEF ItemsOf, Moved, Subtree, Making
  <1>9. CASE proc'[c] = proc[c]
    <2>1. /\ e \in Making /\ e.path \in Files
          /\ e.path \notin DOMAIN local[c] \/ e.path \in ignored[c]
      BY <1>1, <1>9
    <2>2. Line(p, D, Tail(s), H, es, L, W, U)
      <3>1. CASE e.path = p
        <4>1. p \notin L /\ p \in Files
          BY <1>2, <2>1, <3>1, OwnUnheard DEF Subtree
        <4>2. p \in Step(e, D, Making)
          BY <2>1, <3>1 DEF Step
        <4> QED BY <1>3, <1>6, <4>1, <4>2, LineSkips
      <3>2. CASE e.path # p
        <4>1. p \in D <=> p \in Step(e, D, Making)
          BY <3>2 DEF Step
        <4> QED BY <1>3, <1>5, <1>6, <4>1, LineSends
      <3> QED BY <3>1, <3>2
    <2>3. Line(p, D, Tail(s), H, es, L, X, U)
      BY <1>3, <1>5, <2>2, LineSame
    <2>4. Sent(c)' = D /\ proc'[c].pc # "send"
      BY <1>1, <1>2, <1>9 DEF Sent
    <2> QED BY <1>1, <1>2, <2>3, <2>4 DEF LineOf
  <1>10. CASE proc'[c].pc = "send" /\ proc'[c].req.path = e.path
    <2>0. \/ proc'[c].req.op = "remove" /\ e \in Removing /\ e \notin Making
          \/ proc'[c].req.op = "rename" /\ EventKind(e) = "rename"
          \/ proc'[c].req.op = "mkdir" /\ e \in Making /\ e.path \in Dirs
          \/ proc'[c].req.op = "upload" /\ e \in Making /\ e.path \in Files
      BY <1>1, <1>10
    <2>1. PICK E : E = Sent(c)'
      OBVIOUS
    <2>2. E = IF proc'[c].req.op = "remove" THEN D \ {e.path} ELSE D \cup {e.path}
      BY <1>1, <1>2, <1>10, <2>1 DEF Sent
    <2>3. p \in E <=> p \in Step(e, D, Making)
      BY <1>8, <2>0, <2>2 DEF Step
    <2>4. Line(p, E, Tail(s), H, es, L, W, U)
      BY <1>3, <1>5, <1>6, <2>3, LineSends
    <2>5. Line(p, E, Tail(s), H, es, L, X, U)
      BY <1>3, <1>5, <2>4, LineSame
    <2>6. /\ proc'[c].req.op = "remove" /\ e.path \in Above(p) => p \notin D
          /\ proc'[c].req.op = "upload" /\ e.path \in Under(p) => p \in D
      BY <1>7, <2>0 DEF Fitting
    <2> QED BY <1>1, <1>2, <1>10, <2>1, <2>5, <2>6 DEF LineOf
  <1> QED BY <1>1, <1>9, <1>10

\* What a handler does to the server's directory.
LEMMA HandleCases ==
  ASSUME TypeOK, BlameInv, NEW x \in Clients, Handle(x)
  PROVE  \E r \in RequestsOf(x) :
           /\ r = proc[x].req /\ proc[x].pc = "send"
           /\ r \in Request /\ r.path \in Paths
           /\ UNCHANGED <<local, watched, events, held, channel, queue, consumer, ignored>>
           /\ \A c \in Clients \ {x} : proc'[c] = proc[c]
           /\ \/ Refused(server, r) /\ UNCHANGED <<server, filling>> /\ proc'[x] = Idle
              \/ /\ ~Refused(server, r) /\ server' = Serve(server, r)
                 /\ filling' = Opened(x, r)
                 /\ proc'[x].pc \in {"fill", "publish"} /\ proc'[x].req = r
                 /\ proc'[x].pc = "fill" <=> r.op = "upload"
  <1>1. PICK r \in RequestsOf(x) : r = proc[x].req
    BY DEF BlameInv, BlameOf, Handle
  <1>2. r \in Request /\ r.path \in Paths
    BY RequestFields DEF RequestsOf
  <1>3. CASE Refused(server, r)
    BY <1>1, <1>2, <1>3 DEF Handle, TypeOK
  <1>4. CASE ~Refused(server, r)
    <2>1. PICK pc \in {"fill", "publish"} :
            /\ proc' = [proc EXCEPT ![x].pc = pc] /\ (pc = "fill" <=> r.op = "upload")
            /\ server' = Serve(server, r) /\ filling' = Opened(x, r)
      BY <1>1, <1>4 DEF Handle
    <2>2. proc[x] \in [pc : {"send", "fill", "publish"}, req : Request]
      BY DEF TypeOK, ProcState, Handle
    <2>3. proc'[x].pc = pc /\ proc'[x].req = r /\ \A c \in Clients \ {x} : proc'[c] = proc[c]
      BY <1>1, <2>1, <2>2 DEF TypeOK
    <2> QED BY <1>1, <1>2, <1>4, <2>1, <2>3 DEF Handle
  <1> QED BY <1>3, <1>4

\* ... in which directories it is then.
LEMMA ServeDomain ==
  ASSUME TypeOK, NEW x, NEW r \in RequestsOf(x), ~Refused(server, r)
  PROVE  /\ r.op = "upload" => r.path \in Files /\
              DOMAIN Serve(server, r) = DOMAIN server \cup {r.path} \cup Above(r.path)
         /\ r.op = "mkdir" => r.path \in Dirs /\
              DOMAIN Serve(server, r) = DOMAIN server \cup {r.path}
         /\ r.op = "remove" => DOMAIN Serve(server, r) = DOMAIN server \ Subtree(r.path)
         /\ r.op = "rename" => /\ r.old \in Paths /\ r.path # r.old
                               /\ CanMove(server, r.old, r.path)
  <1>0. r \in Request /\ r.path \in Paths /\ r.body \in Body /\ IsTree(server)
    BY RequestFields DEF RequestsOf, TypeOK, IsRooted
  <1>1. ASSUME r.op = "upload"
        PROVE  r.path \in Files /\
               DOMAIN Serve(server, r) = DOMAIN server \cup {r.path} \cup Above(r.path)
    <2>1. PICK q \in Paths, b \in Body : q = r.path /\ b = Empty
      BY <1>0 DEF Body
    <2>2. DOMAIN CreateFile(server, q, b, 0) = DOMAIN server \cup {q} \cup Above(q)
      BY <1>0, CreateFileTree
    <2> QED BY <1>1, <2>1, <2>2 DEF Serve, RequestsOf
  <1>2. ASSUME r.op = "mkdir"
        PROVE  r.path \in Dirs /\ DOMAIN Serve(server, r) = DOMAIN server \cup {r.path}
    <2>1. PICK q \in Paths : q = r.path
      BY <1>0
    <2>2. DOMAIN MkDir(server, q, 0) = DOMAIN server \cup {q} \cup Above(q)
      BY <1>0, MkDirTree
    <2>3. q \in Dirs /\ Above(q) = {}
      BY <1>2, <2>1, DirOnTop DEF RequestsOf
    <2> QED BY <1>2, <2>1, <2>2, <2>3 DEF Serve
  <1>3. ASSUME r.op = "remove"
        PROVE  DOMAIN Serve(server, r) = DOMAIN server \ Subtree(r.path)
    <2>1. PICK q \in Paths : q = r.path
      BY <1>0
    <2>2. DOMAIN Rm(server, q, 0) = DOMAIN server \ Subtree(q)
      BY <1>0, RmTree
    <2> QED BY <1>3, <2>1, <2>2 DEF Serve
  <1>4. ASSUME r.op = "rename"
        PROVE  r.old \in Paths /\ r.path # r.old /\ CanMove(server, r.old, r.path)
    BY <1>0, <1>4, RequestFields DEF Refused, CanMove, Subtree
  <1> QED BY <1>1, <1>2, <1>3, <1>4

\* The server changes its directory in its handlers only.
LEMMA ServerKept ==
  ASSUME TypeOK, NEW x \in Clients, Moves(x)
  PROVE  \/ Handle(x) \/ Fill(x)
         \/ /\ UNCHANGED <<server, filling>>
            /\ proc'[x] = proc[x] \/ proc'[x].pc \in {"idle", "send"}
  <1>1. Handle(x) \/ Fill(x) \/ UNCHANGED <<server, filling>>
    <2>1. User(x) => UNCHANGED <<server, filling>>
      BY DEF User, UserCreate, UserWrite, UserMkDir, UserRemove, UserRename, UserStep
    <2>2. Client(x) => UNCHANGED <<server, filling>>
      BY DEF Client, Watch, Release, Process, Consume, ConsumeAdd, ConsumeCopy, ExpireIgnore
    <2> QED BY <2>1, <2>2 DEF Moves, Server, Publish, Fail
  <1>2. CASE Process(x)
    BY <1>1, <1>2 DEF Process, Send, TypeOK
  <1>3. CASE Publish(x) \/ Fail(x)
    BY <1>1, <1>3 DEF Publish, Fail, Idle, TypeOK
  <1>4. CASE ~Process(x) /\ ~Publish(x) /\ ~Fail(x) /\ ~Handle(x) /\ ~Fill(x)
    <2>1. proc' = proc
      BY <1>4, UserKeeps DEF Moves, Client, Server, Watch, Release, Consume, ConsumeAdd,
         ConsumeCopy, ExpireIgnore
    <2> QED BY <1>1, <2>1
  <1> QED BY <1>1, <1>2, <1>3, <1>4

\* To fill a file is to change what is in that file.
LEMMA FillSteps ==
  ASSUME TypeOK, BlameInv, NEW x \in Clients, Fill(x)
  PROVE  \E r \in RequestsOf(x) :
           /\ r = proc[x].req /\ proc[x].pc = "fill" /\ r \in Request /\ r.path \in Paths
           /\ UNCHANGED <<local, watched, events, held, channel, queue, consumer, ignored, past>>
           /\ \A c \in Clients \ {x} : proc'[c] = proc[c] /\ filling'[c] = filling[c]
           /\ proc'[x].pc = "publish" /\ proc'[x].req = r
           /\ DOMAIN server' = DOMAIN server
           /\ \A p \in Paths : p # filling[x] => Alike(server, server', p)
           /\ filling[x] \in DOMAIN server => server'[filling[x]].body = r.body
  <1>1. PICK r \in RequestsOf(x) : r = proc[x].req
    BY DEF BlameInv, BlameOf, Fill
  <1>2. r \in Request /\ r.path \in Paths /\ r.body \in Body
    BY RequestFields DEF RequestsOf
  <1>3. proc[x] \in [pc : {"send", "fill", "publish"}, req : Request]
    BY DEF TypeOK, ProcState, Fill
  <1>4. /\ proc'[x].pc = "publish" /\ proc'[x].req = r
        /\ \A c \in Clients \ {x} : proc'[c] = proc[c] /\ filling'[c] = filling[c]
    BY <1>1, <1>3 DEF TypeOK, Fill
  <1>5. PICK f \in Files \cup {NoPath}, b \in Body : f = filling[x] /\ b = r.body
    BY <1>2 DEF TypeOK
  <1>6. IsTree(server)
    BY DEF TypeOK, IsRooted
  <1>7. CASE f = NoPath
    <2>1. server' = server /\ NoPath \notin DOMAIN server
      BY <1>5, <1>6, <1>7, NoPathAssumption DEF Fill, IsTree
    <2> QED BY <1>1, <1>2, <1>4, <1>5, <1>7, <2>1 DEF Fill, Alike
  <1>8. CASE f # NoPath
    <2>1. server' = FillFile(server, f, b, 0)
      BY <1>1, <1>5, <1>8 DEF Fill
    <2>2. DOMAIN server' = DOMAIN server
      BY <1>6, <2>1, FillFileTree
    <2>3. \A p \in Paths : p # f => Alike(server, server', p)
      BY <2>1, FillFileAlike
    <2>4. ASSUME f \in DOMAIN server PROVE server'[f].body = b
      <3>1. FillFile(server, f, b, 0)[f] = [body |-> b, mtime |-> 0]
        BY <2>4 DEF FillFile
      <3> QED BY <2>1, <3>1
    <2> QED BY <1>1, <1>2, <1>4, <1>5, <2>2, <2>3, <2>4 DEF Fill
  <1> QED BY <1>7, <1>8

\* A kept path is filled by the upload of that name only.
LEMMA FillApart ==
  ASSUME FillInv, NEW x \in Clients, proc[x].pc = "fill", NEW p \in Kept, p # proc[x].req.path
  PROVE  filling[x] # p
  <1>1. p \notin past.moved /\ p # NoPath
    BY NoPathAssumption DEF Kept
  <1> QED BY <1>1 DEF FillInv, FillOf

LEMMA ServerAlike ==
  ASSUME TypeOK, PastInv, BlameInv, FillInv, NEW x \in Clients, Moves(x),
         NEW p \in Kept, x \notin past.touched[p]
  PROVE  Alike(server, server', p)
  <1>1. server' = server => Alike(server, server', p)
    BY DEF Alike
  <1>2. CASE Handle(x)
    <2>1. PICK r \in RequestsOf(x) :
            server' = server \/ (~Refused(server, r) /\ server' = Serve(server, r))
      BY <1>2, HandleCases
    <2>2. CASE ~Refused(server, r) /\ server' = Serve(server, r)
      BY <2>2, ServeApart
    <2> QED BY <1>1, <2>1, <2>2
  <1>3. CASE Fill(x)
    <2>1. PICK r \in RequestsOf(x) :
            /\ r = proc[x].req /\ proc[x].pc = "fill"
            /\ \A q \in Paths : q # filling[x] => Alike(server, server', q)
      BY <1>3, FillSteps
    <2>2. p # r.path /\ p \in Paths
      BY DEF RequestsOf, Blames, Kept
    <2> QED BY <2>1, <2>2, FillApart
  <1> QED BY <1>1, <1>2, <1>3, ServerKept

\* What others ask of the server leaves the open file of a kept path where it is, and
\* gives no open file the name of one.
LEMMA FollowApart ==
  ASSUME TypeOK, PastInv, NEW x \in Clients, NEW r \in RequestsOf(x),
         NEW f \in Files \cup {NoPath}
  PROVE  /\ Follow(f, r) \in {f, NoPath} \cup past.moved
         /\ f \in Kept /\ x \notin past.touched[f] => Follow(f, r) = f
  <1>0. /\ r \in Request /\ r.path \in Paths /\ r.old \in Paths \cup {NoPath}
        /\ Moved(RequestKind(r), r.path, r.old)
        /\ r.op = "rename" => RequestKind(r) = "rename" /\ r.old \in Paths
                              /\ SameKind(r.old, r.path) /\ r.path # NoPath
        /\ r.op = "remove" => RequestKind(r) = "take"
        /\ RequestKind(r) \in {"make", "take", "rename"}
    BY RequestFields, NoPathAssumption DEF RequestsOf, RequestKind
  <1>1. ASSUME r.op = "rename", f \in Subtree(r.old) PROVE Rebase(f, r.old, r.path) \in past.moved
    <2>1. PICK o \in Paths, q \in Paths : o = r.old /\ q = r.path /\ SameKind(o, q)
      BY <1>0, <1>1
    <2>2. f \in Files \cap Subtree(o)
      BY <1>1, <2>1, SubtreeInPaths, NoPathAssumption
    <2>3. Rebase(f, o, q) \in Subtree(q)
      BY <2>1, <2>2, RebaseInSubtree
    <2>4. Subtree(q) \subseteq past.moved
      BY <1>0, <1>1, <2>1 DEF Moved
    <2> QED BY <2>1, <2>3, <2>4
  <1>2. ASSUME f \in Kept, x \notin past.touched[f] PROVE Follow(f, r) = f
    <2>1. Apart(RequestKind(r), r.path, r.old, f)
      BY <1>0, <1>2, BlamedApart DEF RequestsOf
    <2>2. f \in Paths
      BY <1>2 DEF Kept
    <2>3. r.op = "remove" => f \notin Subtree(r.path)
      BY <1>0, <2>1, <2>2, AboveUnder DEF Apart, Subtree
    <2>4. r.op = "rename" => f # r.path /\ f \notin Subtree(r.old)
      BY <1>0, <2>1, <2>2, AboveUnder DEF Apart, Subtree, Around
    <2> QED BY <2>3, <2>4 DEF Follow
  <1> QED BY <1>1, <1>2 DEF Follow

\* The file of an upload stays that of its name, as far as it is kept.
LEMMA NextFill ==
  ASSUME TypeOK, PastInv, BlameInv, FillInv, NEW x \in Clients, Moves(x)
  PROVE  FillInv'
  <1>1. Grew /\ \A c \in Clients : Own(c)' \subseteq Own(c)
    BY StepGrows, KeptShrinks DEF Moves
  <1>2. \A c \in Clients : FillOf(c)
    BY DEF FillInv
  <1>3. ASSUME NEW c \in Clients, proc'[c] = proc[c], filling'[c] = filling[c],
               DOMAIN server' = DOMAIN server
        PROVE  FillOf(c)'
    BY <1>1, <1>2, <1>3 DEF FillOf, Grew
  <1>4. ASSUME NEW c \in Clients, proc'[c].pc # "fill" PROVE FillOf(c)'
    BY <1>4 DEF FillOf
  <1>5. CASE Handle(x)
    <2>0. SUFFICES \A c \in Clients : FillOf(c)'
      BY DEF FillInv
    <2>1. PICK r \in RequestsOf(x) :
            /\ r = proc[x].req /\ r \in Request /\ r.path \in Paths
            /\ \A c \in Clients \ {x} : proc'[c] = proc[c]
            /\ \/ Refused(server, r) /\ UNCHANGED <<server, filling>> /\ proc'[x] = Idle
               \/ /\ ~Refused(server, r) /\ server' = Serve(server, r)
                  /\ filling' = Opened(x, r)
                  /\ proc'[x].pc \in {"fill", "publish"} /\ proc'[x].req = r
                  /\ proc'[x].pc = "fill" <=> r.op = "upload"
      BY <1>5, HandleCases
    <2>2. CASE UNCHANGED <<server, filling>> /\ proc'[x] = Idle
      <3>1. proc'[x].pc # "fill"
        BY <2>2 DEF Idle
      <3>2. \A c \in Clients \ {x} : proc'[c] = proc[c]
        BY <2>1
      <3> QED BY <1>3, <1>4, <2>2, <3>1, <3>2
    <2>3. CASE /\ ~Refused(server, r) /\ server' = Serve(server, r) /\ filling' = Opened(x, r)
               /\ proc'[x].pc \in {"fill", "publish"} /\ proc'[x].req = r
               /\ proc'[x].pc = "fill" <=> r.op = "upload"
      <3>1. FillOf(x)'
        <4>1. r.op = "upload" => filling'[x] = r.path /\ r.path \in DOMAIN server'
          BY <2>3, ServeDomain DEF Opened
        <4> QED BY <2>3, <4>1 DEF FillOf
      <3>2. ASSUME NEW c \in Clients \ {x}, proc[c].pc = "fill" PROVE FillOf(c)'
        <4>0. proc'[c] = proc[c]
          BY <2>1
        <4>1. PICK f \in Files \cup {NoPath} : f = filling[c] /\ filling'[c] = Follow(f, r)
          BY <2>3 DEF TypeOK, Opened
        <4>2. Follow(f, r) \in {f, NoPath} \cup past.moved
          BY FollowApart
        <4>3. ASSUME proc[c].req.path \in Own(c)
              PROVE  filling'[c] = proc[c].req.path /\ filling'[c] \in DOMAIN server'
          <5>1. f = proc[c].req.path /\ f \in DOMAIN server /\ f \in Kept /\ x \notin past.touched[f]
            BY <1>2, <3>2, <4>1, <4>3 DEF FillOf, Own
          <5>2. Follow(f, r) = f
            BY <5>1, FollowApart
          <5>3. Alike(server, server', f)
            BY <5>1, ServerAlike
          <5> QED BY <4>1, <5>1, <5>2, <5>3 DEF Alike
        <4> QED BY <1>1, <1>2, <3>2, <4>0, <4>1, <4>2, <4>3 DEF FillOf, Grew
      <3>3. ASSUME NEW c \in Clients \ {x}, proc[c].pc # "fill" PROVE FillOf(c)'
        <4>1. proc'[c] = proc[c]
          BY <2>1
        <4> QED BY <1>4, <3>3, <4>1
      <3> QED BY <3>1, <3>2, <3>3
    <2> QED BY <2>1, <2>2, <2>3
  <1>6. CASE Fill(x)
    <2>1. /\ \A c \in Clients \ {x} : proc'[c] = proc[c] /\ filling'[c] = filling[c]
          /\ proc'[x].pc = "publish" /\ DOMAIN server' = DOMAIN server
      BY <1>6, FillSteps
    <2>2. \A c \in Clients : FillOf(c)'
      BY <1>3, <1>4, <2>1
    <2> QED BY <2>2 DEF FillInv
  <1>7. CASE /\ UNCHANGED <<server, filling>>
             /\ proc'[x] = proc[x] \/ proc'[x].pc \in {"idle", "send"}
    <2>1. ASSUME NEW c \in Clients \ {x} PROVE proc'[c] = proc[c]
      BY OthersKept DEF SameClient
    <2>2. \A c \in Clients : FillOf(c)'
      BY <1>3, <1>4, <1>7, <2>1
    <2> QED BY <2>2 DEF FillInv
  <1> QED BY <1>5, <1>6, <1>7, ServerKept

\* When the request, the server and what is seen stay the same for p, so does the rest.
LEMMA LineOfSame ==
  ASSUME NEW c \in Clients, NEW p \in Paths, LineOf(c, p), p \in Sent(c)' <=> p \in Sent(c),
         UNCHANGED <<channel[c], held[c], events[c]>>,
         p \in DOMAIN local'[c] <=> p \in DOMAIN local[c],
         Parent(p) \in watched[c] => Parent(p) \in watched'[c],
         past.unseen \subseteq past'.unseen,
         proc'[c].pc = "send" =>
           /\ proc'[c].req.op = "remove" /\ proc'[c].req.path \in Above(p)
                => p \notin DOMAIN server'
           /\ proc'[c].req.op = "upload" /\ proc'[c].req.path \in Under(p) => p \in DOMAIN server'
  PROVE  LineOf(c, p)'
  <1>1. PICK D, E, L, M, W, X, U, V :
          /\ D = Sent(c) /\ E = Sent(c)' /\ L = DOMAIN local[c] /\ M = DOMAIN local'[c]
          /\ W = watched[c] /\ X = watched'[c] /\ U = past.unseen /\ V = past'.unseen
    OBVIOUS
  <1>2. Line(p, D, channel[c], held[c], events[c], L, W, U)
    BY <1>1 DEF LineOf
  <1>3. Line(p, E, channel[c], held[c], events[c], M, X, V)
    BY <1>1, <1>2, LineSame
  <1> QED BY <1>1, <1>3 DEF LineOf

LEMMA LineOthers ==
  ASSUME TypeOK, PastInv, BlameInv, FillInv, LineInv, NEW x \in Clients, Moves(x),
         NEW c \in Clients \ {x}, NEW p \in Own(c)
  PROVE  LineOf(c, p)'
  <1>1. /\ p \in Kept /\ p \in Paths /\ x \notin past.touched[p]
        /\ past.unseen \subseteq past'.unseen
    BY StepGrows DEF Own, Kept, Grew, Moves
  <1>2. SameClient(c) /\ LineOf(c, p)
    BY OthersKept DEF LineInv
  <1>3. p \in DOMAIN server' <=> p \in DOMAIN server
    BY <1>1, ServerAlike DEF Alike
  <1>4. p \in Sent(c)' <=> p \in Sent(c)
    BY <1>2, <1>3 DEF Sent, SameClient
  <1>5. proc'[c].pc = "send" =>
           /\ proc'[c].req.op = "remove" /\ proc'[c].req.path \in Above(p)
                => p \notin DOMAIN server'
           /\ proc'[c].req.op = "upload" /\ proc'[c].req.path \in Under(p) => p \in DOMAIN server'
    BY <1>2, <1>3 DEF LineOf, SameClient
  <1> QED BY <1>1, <1>2, <1>4, <1>5, LineOfSame DEF SameClient

\* The request arrives, or does not.
LEMMA LineServer ==
  ASSUME TypeOK, PastInv, BlameInv, LineInv, NEW c \in Clients,
         Handle(c) \/ Fill(c) \/ Publish(c) \/ Fail(c), NEW p \in Own(c), p \notin past'.lost
  PROVE  LineOf(c, p)'
  <1>1. p \in Kept /\ p \in Paths /\ p \notin past.moved /\ LineOf(c, p)
    BY DEF Own, Kept, LineInv
  <1>2. /\ UNCHANGED <<channel, held, events, local, watched>>
        /\ past'.unseen = past.unseen
    BY OthersPast DEF Handle, Fill, Publish, Fail, Server
  <1>3. ASSUME proc'[c].pc # "send", p \in DOMAIN server' <=> p \in Sent(c)
        PROVE  LineOf(c, p)'
    <2>1. p \in Sent(c)' <=> p \in Sent(c)
      BY <1>3 DEF Sent
    <2> QED BY <1>1, <1>2, <1>3, <2>1, LineOfSame
  <1>4. CASE Publish(c)
    <2>1. proc'[c].pc # "send" /\ server' = server /\ proc[c].pc # "send"
      BY <1>4 DEF Publish, TypeOK, Idle
    <2> QED BY <1>3, <2>1 DEF Sent
  <1>5. CASE Fail(c)
    <2>1. proc'[c].pc # "send" /\ server' = server /\ proc[c].pc # "idle"
      BY <1>5 DEF Fail, TypeOK, Idle
    <2>2. PICK r \in RequestsOf(c) : r = proc[c].req
      BY <2>1 DEF BlameInv, BlameOf
    <2>3. r.path \in Paths /\ r.path \in Around(r.path)
      BY RequestFields DEF RequestsOf, Around, Subtree
    <2>4. r.path \in past'.lost
      <3>1. past'.lost = past.lost \cup
              UNION {Around(q) : q \in Paths \cap {r.path, proc[c].req.old}}
        BY <1>5, <2>2 DEF Fail, TypeOK, Past
      <3> QED BY <2>3, <3>1
    <2>5. p # r.path
      BY <2>4
    <2> QED BY <1>3, <2>1, <2>2, <2>5 DEF Sent
  <1>6. CASE Handle(c)
    <2>1. PICK r \in RequestsOf(c) :
            /\ r = proc[c].req /\ proc[c].pc = "send"
            /\ r \in Request /\ r.path \in Paths
            /\ \/ Refused(server, r) /\ server' = server /\ proc'[c] = Idle
               \/ /\ ~Refused(server, r) /\ server' = Serve(server, r)
                  /\ proc'[c].pc \in {"fill", "publish"} /\ proc'[c].req = r
      BY <1>6, HandleCases
    <2>2. proc'[c].pc # "send"
      BY <2>1 DEF Idle
    <2>3. Sent(c) = IF r.op = "remove" THEN DOMAIN server \ {r.path}
                                       ELSE DOMAIN server \cup {r.path}
      BY <2>1 DEF Sent
    <2>4. r.op = "rename" => /\ p \notin Subtree(r.path) /\ r.path # p
                             /\ r.old \in Paths => p \notin Subtree(r.old)
      <3>1. r.path # NoPath /\ (r.old \in Paths => r.old # NoPath)
        BY <2>1, NoPathAssumption
      <3> QED BY <1>1, <2>1, <3>1 DEF RequestsOf, RequestKind, Moved, Subtree
    <2>5. CASE Refused(server, r) /\ server' = server
      <3>1. r.op = "rename"
        BY <2>5 DEF Refused
      <3> QED BY <1>3, <2>2, <2>3, <2>4, <2>5, <3>1
    <2>6. CASE ~Refused(server, r) /\ server' = Serve(server, r)
      <3>1. CASE r.op = "upload"
        <4>1. DOMAIN server' = DOMAIN server \cup {r.path} \cup Above(r.path)
          BY <2>6, <3>1, ServeDomain
        <4>2. p \in Above(r.path) => p \in DOMAIN server
          BY <1>1, <2>1, <3>1, AboveUnder DEF LineOf
        <4> QED BY <1>3, <2>2, <2>3, <3>1, <4>1, <4>2
      <3>2. CASE r.op = "mkdir"
        BY <1>3, <2>2, <2>3, <2>6, <3>2, ServeDomain
      <3>3. CASE r.op = "remove"
        <4>1. DOMAIN server' = DOMAIN server \ Subtree(r.path)
          BY <2>6, <3>3, ServeDomain
        <4>2. p \in Under(r.path) => p \notin DOMAIN server
          BY <1>1, <2>1, <3>3, AboveUnder DEF LineOf
        <4> QED BY <1>3, <2>2, <2>3, <3>3, <4>1, <4>2 DEF Subtree
      <3>4. CASE r.op = "rename"
        <4>1. r.old \in Paths /\ CanMove(server, r.old, r.path)
          BY <2>6, <3>4, ServeDomain
        <4>2. PICK q \in Paths, o \in Paths : q = r.path /\ o = r.old
          BY <2>1, <4>1
        <4>3. p \notin Subtree(q) /\ p \notin Subtree(o) /\ CanMove(server, o, q)
          BY <2>4, <3>4, <4>1, <4>2
        <4>4. IsTree(server)
          BY DEF TypeOK, IsRooted
        <4>5. Alike(server, Move(server, o, q, 0), p)
          BY <1>1, <4>3, <4>4, MoveAlike
        <4>6. server' = Move(server, o, q, 0)
          BY <2>6, <3>4, <4>2 DEF Serve
        <4>7. p \in DOMAIN server' <=> p \in DOMAIN server
          BY <4>5, <4>6 DEF Alike
        <4> QED BY <1>3, <2>2, <2>3, <2>4, <3>4, <4>7
      <3> QED BY <2>1, <3>1, <3>2, <3>3, <3>4, RequestFields
    <2> QED BY <2>1, <2>5, <2>6
  <1>7. CASE Fill(c)
    <2>1. /\ proc[c].pc = "fill" /\ proc'[c].pc = "publish" /\ DOMAIN server' = DOMAIN server
      BY <1>7, FillSteps
    <2> QED BY <1>3, <2>1 DEF Sent
  <1> QED BY <1>4, <1>5, <1>6, <1>7

-----------------------------------------------------------------------------
(* ... and the consumer, which does nothing to a client's own paths.        *)

\* Events that say nothing of p.
Beside(p) == {e \in Event : /\ e.path \notin Subtree(p)
                            /\ e \in Removing => e.path \notin Above(p)}

LEMMA BesideOne ==
  ASSUME NEW p, NEW q \in Paths, NEW op \in {"CREATE", "RENAME", "REMOVE", "WRITE"},
         op = "WRITE" => q \in Files, q \notin Subtree(p), op = "REMOVE" => q \notin Above(p)
  PROVE  FsEvent(op, q) \in Beside(p)
  <1>1. PICK e \in Event : e = FsEvent(op, q)
    BY FsEventKind
  <1>2. e.path = q /\ EventKind(e) = IF op = "REMOVE" THEN "take"
                                     ELSE IF op = "RENAME" THEN "rename" ELSE "make"
    BY <1>1, FsEventKind
  <1>3. e \in Removing => op = "REMOVE"
    BY <1>2 DEF Removing
  <1>4. e \in Beside(p)
    BY <1>2, <1>3 DEF Beside
  <1> QED BY <1>1, <1>4

LEMMA BesideRename ==
  ASSUME NEW p \in Paths, NEW q \in Paths, NEW r \in Paths, SameKind(q, r),
         q \notin Subtree(p), r \notin Subtree(p), NEW c
  PROVE  SeeRename(c, q, r) \in Seq(Beside(p))
  <1>1. FsEvent("RENAME", q) \in Beside(p) /\ FsEvent("CREATE", r) \in Beside(p)
    BY BesideOne
  <1>2. Renamed("CREATE", q, r) \in Beside(p)
    <2>1. PICK e \in Event : e = Renamed("CREATE", q, r)
      BY RenamedKind
    <2>2. e.path = r /\ EventKind(e) = "rename"
      BY <2>1, RenamedKind
    <2>3. e \in Beside(p)
      BY <2>2 DEF Beside, Removing
    <2> QED BY <2>1, <2>3
  <1>3. PICK E : E = {FsEvent("RENAME", q), FsEvent("CREATE", r), Renamed("CREATE", q, r)}
    OBVIOUS
  <1>4. E \subseteq Beside(p)
    BY <1>1, <1>2, <1>3
  <1>5. SeeRename(c, q, r) \in Seq(E)
    BY <1>3, SeeRenameEvents
  <1> QED BY <1>4, <1>5, EveryInSeq

LEMMA BesideRemoval ==
  ASSUME NEW p \in Paths, NEW q \in Paths, q \notin Subtree(p), q \notin Above(p), NEW c
  PROVE  SeeRemoval(c, q) \in Seq(Beside(p))
  <1>1. ASSUME NEW r \in Subtree(q) PROVE FsEvent("REMOVE", r) \in Beside(p)
    <2>1. CASE r = q
      BY <2>1, BesideOne
    <2>2. CASE r \in Under(q)
      <3>1. q \in Dirs /\ r \in Files /\ r \in Paths /\ q \in Above(r) /\ r \notin Dirs
        BY <2>2, UnderDirs, AboveUnder DEF Files
      <3>2. r \notin Above(p)
        BY <3>1, PathsAssumption
      <3>3. r \notin Subtree(p)
        <4>1. r # p
          BY <3>1
        <4>2. r \in Under(p) => p \in Above(r)
          BY <3>1, AboveUnder
        <4>3. p \in Above(r) => p = q
          BY <3>1, AboveIsParent
        <4> QED BY <4>1, <4>2, <4>3 DEF Subtree
      <3> QED BY <3>1, <3>2, <3>3, BesideOne
    <2> QED BY <1>1, <2>1, <2>2 DEF Subtree
  <1>2. {FsEvent("REMOVE", r) : r \in Subtree(q)} \subseteq Beside(p)
    BY <1>1
  <1> QED BY <1>2, SeeRemovalEvents, EveryInSeq

\* They leave the line as it is.
LEMMA SaysBeside ==
  ASSUME NEW p \in Paths, NEW t \in Seq(Beside(p)), NEW L, NEW M, p \in M <=> p \in L,
         NEW W, NEW X, Parent(p) \in W => Parent(p) \in X, NEW U, NEW V, p \in U => p \in V
  PROVE  Says(p, t, L, W, U, M, X, V)
  <1>1. \A i \in DOMAIN t : t[i] \in Beside(p)
    OBVIOUS
  <1>2. \A i \in DOMAIN t : /\ t[i].path # p
                            /\ t[i] \in Removing => t[i].path \notin Above(p)
                            /\ t[i] \in Making => t[i].path \notin Under(p)
    BY <1>1 DEF Beside, Subtree
  <1>3. ASSUME NEW T \in SUBSET Paths
        PROVE  Fits(t, T, p, Removing, Making) /\ (p \in Final(t, T, Making) <=> p \in T)
    BY <1>2, FitsBeside
  <1> QED BY <1>3 DEF Says

\* Raising events when the request and the channel stay what they are.
LEMMA LineOfRaise ==
  ASSUME TypeOK, NEW c \in Clients, NEW p \in Paths, LineOf(c, p), NEW t \in Seq(Event),
         Raise(c, t), UNCHANGED <<server, proc, channel, held>>,
         Says(p, t, DOMAIN local[c], watched[c], past.unseen,
                    DOMAIN local'[c], watched'[c], past'.unseen)
  PROVE  LineOf(c, p)'
  <1>1. PICK D, es, L, M, W, X, U, V :
          /\ D = Sent(c) /\ es = events[c] /\ L = DOMAIN local[c] /\ M = DOMAIN local'[c]
          /\ W = watched[c] /\ X = watched'[c] /\ U = past.unseen /\ V = past'.unseen
    OBVIOUS
  <1>2. events'[c] = es \o t /\ es \in Seq(Event)
    BY <1>1 DEF Raise, TypeOK
  <1>3. Line(p, D, channel[c], held[c], es, L, W, U)
    BY <1>1 DEF LineOf
  <1>4. Line(p, D, channel[c], held[c], es \o t, M, X, V)
    BY <1>1, <1>2, <1>3, LineRaise
  <1>5. D = Sent(c)'
    BY <1>1 DEF Sent
  <1> QED BY <1>1, <1>2, <1>4, <1>5 DEF LineOf

LEMMA EndWatchKeeps ==
  ASSUME TypeOK, NEW c \in Clients, NEW q \in Paths, EndWatch(c, q)
  PROVE  /\ watched'[c] = watched[c] \ Subtree(q)
         /\ Root \in watched[c] => Root \in watched'[c]
         /\ \A p \in Paths : q \notin Above(p) =>
              (Parent(p) \in watched[c] => Parent(p) \in watched'[c])
  <1>1. watched'[c] = watched[c] \ Subtree(q)
    BY DEF EndWatch, TypeOK
  <1>2. Root \notin Subtree(q)
    BY SubtreeInPaths, RootAssumption
  <1>3. ASSUME NEW p \in Paths, q \notin Above(p), Parent(p) \in watched[c]
        PROVE  Parent(p) \in watched'[c]
    <2>1. CASE Parent(p) = Root
      BY <1>1, <1>2, <1>3, <2>1
    <2>2. CASE Parent(p) # Root
      <3>1. PICK d \in Dirs : d = Parent(p) /\ Above(p) = {d} /\ d \in Paths
        BY <2>2, AboveIsParent, PathsAssumption
      <3>2. d # q /\ Above(d) = {}
        BY <1>3, <3>1, DirOnTop
      <3>3. d \notin Under(q)
        BY <3>1, <3>2, AboveUnder
      <3> QED BY <1>1, <1>3, <3>1, <3>2, <3>3 DEF Subtree
    <2> QED BY <2>1, <2>2
  <1> QED BY <1>1, <1>2, <1>3

\* A message of another client.
LEMMA ConsumeOwn ==
  ASSUME TypeOK, PastInv, BlameInv, NEW c \in Clients, Consume(c), NEW p \in Own(c)
  PROVE  /\ Alike(local[c], local'[c], p)
         /\ \E t \in Seq(Event) : Raise(c, t) /\ t \in Seq(Beside(p))
         /\ Parent(p) \in watched[c] => Parent(p) \in watched'[c]
         /\ p \in watched[c] => p \in watched'[c]
  <1>1. queue[c] \in Seq(MessagesFor(c)) /\ queue[c] # <<>>
    BY DEF BlameInv, BlameOf, Consume
  <1>2. PICK m \in MessagesFor(c) : m = Head(queue[c])
    BY <1>1, HeadTailType
  <1>3. /\ m \in Message /\ m.path \in Paths /\ m.client \in Clients /\ m.client # c
        /\ m.old \in Paths \cup {NoPath}
    BY MessageFields DEF MessagesFor
  <1>4. p \in Kept /\ p \in Paths /\ m.client \notin past.touched[p]
    BY <1>3 DEF Own, Kept
  <1>5. MessageKind(m) \in {"make", "take", "rename"}
    BY DEF MessageKind
  <1>6. Apart(MessageKind(m), m.path, m.old, p)
    BY <1>3, <1>4, <1>5, BlamedApart DEF MessagesFor
  <1>7. m.path # p /\ m.path \notin Subtree(p) /\ p \notin Above(m.path)
    BY <1>3, <1>4, <1>6, AboveUnder DEF Apart, Subtree
  <1>8. ASSUME local' = local, events' = events, watched' = watched
        PROVE  /\ Alike(local[c], local'[c], p)
               /\ \E t \in Seq(Event) : Raise(c, t) /\ t \in Seq(Beside(p))
               /\ Parent(p) \in watched[c] => Parent(p) \in watched'[c]
               /\ p \in watched[c] => p \in watched'[c]
    <2>1. events' = [events EXCEPT ![c] = @ \o <<>>]
      BY <1>8 DEF TypeOK
    <2>2. <<>> \in Seq(Event) /\ <<>> \in Seq(Beside(p))
      OBVIOUS
    <2> QED BY <1>8, <2>1, <2>2 DEF Raise, Alike
  <1>9. \A t \in Seq(Beside(p)) : t \in Seq(Event)
    BY EveryInSeq DEF Beside
  <1>10. CASE m.event = "CREATE" /\ m.path \in Files /\ ConsumeNote(c, m.path)
    <2>1. PICK q \in Files : q = m.path /\ q \in Paths
      BY <1>3, <1>10
    <2>2. PICK A : A = Above(q) \ DOMAIN local[c]
      OBVIOUS
    <2>3. PICK op \in {"CREATE", "WRITE"} : op = IF q \in DOMAIN local[c] THEN "WRITE" ELSE "CREATE"
      OBVIOUS
    <2>4. /\ local' = [local EXCEPT ![c] = CreateFile(@, q, Empty, 0)] /\ Empty \in Body
          /\ Raise(c, SeeAll(c, "CREATE", A) \o See(c, op, q)) /\ watched' = watched
      BY <1>10, <2>1, <2>2, <2>3 DEF ConsumeNote, Body
    <2>5. Alike(local[c], local'[c], p)
      BY <1>4, <1>7, <2>1, <2>4, LocalCreate
    <2>6. ASSUME NEW d \in A PROVE FsEvent("CREATE", d) \in Beside(p)
      <3>1. d \in Dirs /\ d \in Paths /\ d \in Above(q) /\ d # p
        BY <1>7, <2>1, <2>2, <2>6, PathsAssumption
      <3>2. d \notin Under(p)
        BY <1>4, <3>1, UnderDirs DEF Files
      <3> QED BY <3>1, <3>2, BesideOne DEF Subtree
    <2>7. SeeAll(c, "CREATE", A) \in Seq({FsEvent("CREATE", d) : d \in A})
      BY <2>2, SeeAllEvents DEF Above
    <2>8. {FsEvent("CREATE", d) : d \in A} \subseteq Beside(p)
      BY <2>6
    <2>9. SeeAll(c, "CREATE", A) \in Seq(Beside(p))
      BY <2>7, <2>8, EveryInSeq
    <2>10. See(c, op, q) \in Seq(Beside(p))
      BY <1>7, <2>1, BesideOne, SeeEvents
    <2>11. SeeAll(c, "CREATE", A) \o See(c, op, q) \in Seq(Beside(p))
      BY <2>9, <2>10, ConcatType
    <2> QED BY <1>9, <2>4, <2>5, <2>11
  <1>11. CASE m.event = "CREATE" /\ m.path \in Dirs /\ ConsumeDir(c, m.path)
    <2>1. PICK d \in Dirs : d = m.path /\ d \in Paths
      BY <1>3, <1>11
    <2>2. PICK t : t = IF d \in DOMAIN local[c] THEN <<>> ELSE See(c, "CREATE", d)
      OBVIOUS
    <2>3. /\ local' = [local EXCEPT ![c] = MkDir(@, d, 0)]
          /\ Raise(c, t) /\ watched' = watched
      BY <1>11, <2>1, <2>2 DEF ConsumeDir
    <2>4. Alike(local[c], local'[c], p)
      BY <1>4, <1>7, <2>1, <2>3, LocalMkDir
    <2>5. See(c, "CREATE", d) \in Seq(Beside(p)) /\ <<>> \in Seq(Beside(p))
      <3>1. FsEvent("CREATE", d) \in Beside(p)
        BY <1>7, <2>1, BesideOne
      <3> QED BY <3>1, SeeEvents, SingleType
    <2>6. t \in Seq(Beside(p))
      BY <2>2, <2>5
    <2> QED BY <1>9, <2>3, <2>4, <2>6
  <1>12. CASE m.event = "NECO_RENAME" /\ ConsumeRename(c, m.old, m.path)
    <2>1. PICK q \in Paths, o \in Paths : q = m.path /\ o = m.old /\ SameKind(o, q)
      BY <1>3, <1>12, MessageFields
    <2>2. q \notin Around(p) /\ o \notin Around(p)
      BY <1>6, <1>12, <2>1 DEF Apart, Around, MessageKind
    <2>3. /\ q \notin Subtree(p) /\ o \notin Subtree(p) /\ o \notin Above(p)
          /\ p \notin Subtree(q) /\ p \notin Subtree(o)
      BY <1>4, <2>2, AboveUnder DEF Around, Subtree
    <2>4. CASE CanMove(local[c], o, q)
      <3>1. /\ local' = [local EXCEPT ![c] = Move(@, o, q, 0)]
            /\ Raise(c, SeeRename(c, o, q)) /\ EndWatch(c, o)
        BY <1>12, <2>1, <2>4 DEF ConsumeRename
      <3>2. Alike(local[c], local'[c], p)
        BY <1>4, <2>3, <2>4, <3>1, LocalMove
      <3>3. SeeRename(c, o, q) \in Seq(Beside(p))
        BY <1>4, <2>1, <2>3, BesideRename
      <3>4. /\ Parent(p) \in watched[c] => Parent(p) \in watched'[c]
            /\ p \in watched[c] => p \in watched'[c]
        BY <1>4, <2>3, <3>1, EndWatchKeeps
      <3> QED BY <1>9, <3>1, <3>2, <3>3, <3>4
    <2>5. CASE ~CanMove(local[c], o, q)
      BY <1>8, <1>12, <2>1, <2>5 DEF ConsumeRename
    <2> QED BY <2>4, <2>5
  <1>13. CASE m.event = "REMOVE" /\ ConsumeRemove(c, m.path)
    <2>1. PICK q \in Paths : q = m.path
      BY <1>3
    <2>2. q \notin Subtree(p) /\ q \notin Above(p) /\ p \notin Subtree(q)
      BY <1>4, <1>6, <1>13, <2>1, AboveUnder DEF Apart, MessageKind, Subtree
    <2>3. /\ local' = [local EXCEPT ![c] = Rm(@, q, 0)]
          /\ Raise(c, SeeRemoval(c, q)) /\ EndWatch(c, q)
      BY <1>13, <2>1 DEF ConsumeRemove
    <2>4. Alike(local[c], local'[c], p)
      BY <1>4, <2>2, <2>3, LocalRm
    <2>5. SeeRemoval(c, q) \in Seq(Beside(p))
      BY <1>4, <2>2, BesideRemoval
    <2>6. /\ Parent(p) \in watched[c] => Parent(p) \in watched'[c]
          /\ p \in watched[c] => p \in watched'[c]
      BY <1>4, <2>2, <2>3, EndWatchKeeps
    <2> QED BY <1>9, <2>3, <2>4, <2>5, <2>6
  <1> QED BY <1>2, <1>10, <1>11, <1>12, <1>13 DEF Consume

LEMMA LineConsume ==
  ASSUME TypeOK, PastInv, BlameInv, HearsayInv, LineInv, NEW c \in Clients,
         Consume(c) \/ ConsumeAdd(c) \/ ConsumeCopy(c) \/ ExpireIgnore(c), NEW p \in Own(c)
  PROVE  LineOf(c, p)'
  <1>1. p \in Kept /\ p \in Paths /\ LineOf(c, p) /\ past'.unseen = past.unseen
    BY OthersPast DEF Own, Kept, LineInv, Client
  <1>2. UNCHANGED <<server, proc, channel, held>>
    BY DEF Consume, ConsumeAdd, ConsumeCopy, ExpireIgnore
  <1>3. Sent(c)' = Sent(c)
    BY <1>2 DEF Sent
  <1>4. CASE Consume(c)
    <2>1. PICK t \in Seq(Event) : Raise(c, t) /\ t \in Seq(Beside(p))
      BY <1>4, ConsumeOwn
    <2>2. /\ p \in DOMAIN local'[c] <=> p \in DOMAIN local[c]
          /\ Parent(p) \in watched[c] => Parent(p) \in watched'[c]
      BY <1>4, ConsumeOwn DEF Alike
    <2>3. PICK L, M, W, X, U :
            /\ L = DOMAIN local[c] /\ M = DOMAIN local'[c] /\ W = watched[c]
            /\ X = watched'[c] /\ U = past.unseen
      OBVIOUS
    <2>4. Says(p, t, L, W, U, M, X, U)
      BY <1>1, <2>1, <2>2, <2>3, SaysBeside
    <2> QED BY <1>1, <1>2, <2>1, <2>3, <2>4, LineOfRaise
  <1>5. CASE ConsumeAdd(c) \/ ExpireIgnore(c)
    <2>1. /\ UNCHANGED <<events, local>> /\ watched[c] \subseteq watched'[c]
      BY <1>5 DEF ConsumeAdd, ExpireIgnore, AddWatch, TypeOK
    <2> QED BY <1>1, <1>2, <1>3, <2>1, LineOfSame DEF LineOf
  <1>6. CASE ConsumeCopy(c)
    <2>1. CASE consumer[c].file = NoPath
      <3>1. UNCHANGED <<events, local, watched>>
        BY <1>6, <2>1 DEF ConsumeCopy
      <3> QED BY <1>1, <1>2, <1>3, <3>1, LineOfSame DEF LineOf
    <2>2. CASE consumer[c].file # NoPath
      <3>1. PICK q \in Files : q = consumer[c].file /\ q \in Paths
        BY <2>2, ConsumerFields DEF TypeOK, Files
      <3>2. q \notin Subtree(p)
        BY <3>1, OwnUnheard
      <3>3. FsEvent("WRITE", q) \in Beside(p)
        BY <3>1, <3>2, BesideOne
      <3>4. PICK t : t = See(c, "WRITE", q)
        OBVIOUS
      <3>5. t \in Seq(Beside(p)) /\ t \in Seq(Event)
        <4>1. t \in Seq(Beside(p))
          BY <3>3, <3>4, SeeEvents
        <4> QED BY <4>1, EveryInSeq DEF Beside
      <3>6. Raise(c, t) /\ watched' = watched /\ DOMAIN local'[c] = DOMAIN local[c]
        BY <1>6, <2>2, <3>1, <3>4 DEF ConsumeCopy, TypeOK, FillFile
      <3>7. PICK L, W, U : L = DOMAIN local[c] /\ W = watched[c] /\ U = past.unseen
        OBVIOUS
      <3>8. Says(p, t, L, W, U, L, W, U)
        BY <1>1, <3>5, SaysBeside
      <3> QED BY <1>1, <1>2, <3>5, <3>6, <3>7, <3>8, LineOfRaise
    <2> QED BY <2>1, <2>2
  <1> QED BY <1>4, <1>5, <1>6

-----------------------------------------------------------------------------
(* ... and the users.                                                       *)

LEMMA SetToSeqOnto ==
  ASSUME NEW S, IsFiniteSet(S), NEW e \in S
  PROVE  \E i \in DOMAIN SetToSeq(S) : SetToSeq(S)[i] = e
  <1>1. Cardinality(S) \in Nat /\ ExistsBijection(1..Cardinality(S), S)
    BY FS_CardinalityType
  <1>2. \E f \in [1..Cardinality(S) -> S] : IsInjective(f)
    BY <1>1 DEF ExistsBijection, Bijection, Injection
  <1>3. PICK f : f = SetToSeq(S)
    OBVIOUS
  <1>4. f \in [1..Cardinality(S) -> S] /\ IsInjective(f)
    BY <1>2, <1>3 DEF SetToSeq
  <1>5. f \in Injection(1..Cardinality(S), S)
    BY <1>4 DEF Injection
  <1>6. Cardinality(1..Cardinality(S)) = Cardinality(S)
    BY <1>1, FS_Interval
  <1>7. f \in Surjection(1..Cardinality(S), S)
    BY <1>5, <1>6, FS_Injection
  <1>8. \E i \in 1..Cardinality(S) : f[i] = e
    BY <1>7 DEF Surjection
  <1> QED BY <1>3, <1>4, <1>8

\* What is in a watched directory is seen.
LEMMA SeeAllSees ==
  ASSUME NEW c, NEW op, NEW S \in SUBSET Paths, NEW p \in S, Seen(c, p)
  PROVE  \E i \in DOMAIN SeeAll(c, op, S) : SeeAll(c, op, S)[i] = FsEvent(op, p)
  <1>1. PICK T : T = {r \in S : Seen(c, r)}
    OBVIOUS
  <1>2. PICK seen : seen = SetToSeq(T)
    OBVIOUS
  <1>3. IsFiniteSet(T) /\ p \in T
    BY <1>1, FiniteAssumption, FS_Subset
  <1>4. PICK i \in DOMAIN seen : seen[i] = p
    BY <1>2, <1>3, SetToSeqOnto
  <1>5. SeeAll(c, op, S) = [j \in DOMAIN seen |-> FsEvent(op, seen[j])]
    BY <1>1, <1>2 DEF SeeAll
  <1> QED BY <1>4, <1>5

\* Events that, in their places, say nothing of p.
Silent(p) == {e \in Event : /\ e.path # p
                            /\ e \in Removing => e.path \notin Above(p)
                            /\ e \in Making => e.path \notin Under(p)}

LEMMA SaysSilent ==
  ASSUME NEW p \in Paths, NEW t \in Seq(Silent(p)), NEW L, NEW M, p \in M <=> p \in L,
         NEW W, NEW X, Parent(p) \in W => Parent(p) \in X, NEW U, NEW V, p \in U => p \in V
  PROVE  Says(p, t, L, W, U, M, X, V)
  <1>1. \A i \in DOMAIN t : t[i] \in Silent(p)
    OBVIOUS
  <1>2. \A i \in DOMAIN t : /\ t[i].path # p
                            /\ t[i] \in Removing => t[i].path \notin Above(p)
                            /\ t[i] \in Making => t[i].path \notin Under(p)
    BY <1>1 DEF Silent
  <1>3. ASSUME NEW T \in SUBSET Paths
        PROVE  Fits(t, T, p, Removing, Making) /\ (p \in Final(t, T, Making) <=> p \in T)
    BY <1>2, FitsBeside
  <1> QED BY <1>3 DEF Says

LEMMA OtherSilent ==
  ASSUME NEW p \in Paths, NEW c, NEW q \in Paths, NEW op \in {"CREATE", "REMOVE", "WRITE"},
         op = "WRITE" => q \in Files, q # p, q \in Under(p) => op = "REMOVE",
         op = "REMOVE" => q \notin Above(p)
  PROVE  See(c, op, q) \in Seq(Silent(p))
  <1>1. PICK e \in Event : e = FsEvent(op, q)
    BY FsEventKind
  <1>2. e.path = q /\ (e \in Removing => op = "REMOVE") /\ (e \in Making => op # "REMOVE")
    BY <1>1, FsEventKind DEF Removing, Making
  <1>3. e \in Silent(p)
    BY <1>2 DEF Silent
  <1> QED BY <1>1, <1>3, SeeEvents

\* A note in a directory that is there.
LEMMA SaysInside ==
  ASSUME NEW p \in Paths, NEW c, NEW q \in Under(p), NEW op \in {"CREATE", "WRITE"},
         NEW L, NEW M, p \in M, p \in L, NEW W, NEW U, p \notin U, NEW V
  PROVE  Says(p, See(c, op, q), L, W, U, M, W, V) /\ See(c, op, q) \in Seq(Event)
  <1>1. q \in Files /\ q \in Paths /\ q # p /\ q \notin Above(p) /\ p \in Above(q)
    BY UnderDirs, AboveUnder, PathsAssumption DEF Files
  <1>2. PICK e \in Event : e = FsEvent(op, q)
    BY <1>1, FsEventKind
  <1>3. e.path = q /\ e \notin Removing
    BY <1>1, <1>2, FsEventKind DEF Removing
  <1>4. See(c, op, q) = <<e>> \/ See(c, op, q) = <<>>
    BY <1>2 DEF See
  <1>5. PICK t : t = See(c, op, q)
    OBVIOUS
  <1>6. t \in Seq(Event)
    BY <1>2, <1>5, SeeEvents
  <1>7. ASSUME NEW T \in SUBSET Paths, p \in T => p \in L /\ Parent(p) \in W,
               p \in L \ U => p \in T
        PROVE  /\ Fits(t, T, p, Removing, Making)
               /\ p \in Final(t, T, Making) => p \in M /\ Parent(p) \in W
               /\ p \in M \ V => p \in Final(t, T, Making)
    <2>1. p \in T /\ Parent(p) \in W
      BY <1>7
    <2>2. Fitting(e, T, p, Removing, Making)
      BY <1>3, <2>1 DEF Fitting
    <2>3. CASE t = <<e>>
      <3>1. Fits(t, T, p, Removing, Making) /\ Final(t, T, Making) = Step(e, T, Making)
        BY <1>1, <1>3, <2>2, <2>3, FitsOne, FinalOne
      <3> QED BY <1>1, <1>3, <2>1, <3>1 DEF Step
    <2>4. CASE t = <<>>
      BY <2>1, <2>4, NoneFits
    <2> QED BY <1>4, <1>5, <2>3, <2>4
  <1>8. Says(p, t, L, W, U, M, W, V)
    BY <1>7 DEF Says
  <1> QED BY <1>5, <1>6, <1>8

\* What is itself made, or written to.
LEMMA SaysMade ==
  ASSUME NEW c \in Clients, NEW p \in Paths, NEW op \in {"CREATE", "WRITE"},
         op = "WRITE" => p \in Files, NEW L, NEW M, p \in M, NEW U, NEW V,
         Seen(c, p) \/ p \in V
  PROVE  /\ Says(p, See(c, op, p), L, watched[c], U, M, watched[c], V)
         /\ See(c, op, p) \in Seq(Event)
  <1>1. PICK e \in Event : e = FsEvent(op, p)
    BY FsEventKind
  <1>2. e.path = p /\ e \in Making /\ p \notin Above(p) /\ p \notin Under(p)
    BY <1>1, FsEventKind, AboveUnder DEF Making
  <1>3. PICK t : t = See(c, op, p)
    OBVIOUS
  <1>4. t \in Seq(Event)
    BY <1>1, <1>3, SeeEvents
  <1>5. PICK W : W = watched[c]
    OBVIOUS
  <1>6. CASE Seen(c, p)
    <2>1. t = <<e>> /\ Parent(p) \in W
      BY <1>1, <1>3, <1>5, <1>6 DEF See, Seen
    <2>2. ASSUME NEW T \in SUBSET Paths
          PROVE  Fits(t, T, p, Removing, Making) /\ p \in Final(t, T, Making)
      <3>1. Fitting(e, T, p, Removing, Making)
        BY <1>2 DEF Fitting
      <3>2. Fits(t, T, p, Removing, Making) /\ Final(t, T, Making) = Step(e, T, Making)
        BY <1>2, <2>1, <3>1, FitsOne, FinalOne
      <3> QED BY <1>2, <3>2 DEF Step
    <2>3. Says(p, t, L, W, U, M, W, V)
      BY <2>1, <2>2 DEF Says
    <2> QED BY <1>3, <1>4, <1>5, <2>3
  <1>7. CASE ~Seen(c, p)
    <2>1. t = <<>> /\ p \in V /\ Parent(p) \notin W
      BY <1>3, <1>5, <1>7 DEF See, Seen
    <2>2. Says(p, t, L, W, U, M, W, V)
      BY <2>1, NoneFits DEF Says
    <2> QED BY <1>3, <1>4, <1>5, <2>2
  <1> QED BY <1>6, <1>7

\* Removals, of which p may be one, but nothing above it.
LEMMA FitsTaken ==
  ASSUME NEW S, NEW s \in Seq(S), NEW D, NEW p, NEW Rv, NEW Mk,
         \A i \in DOMAIN s : s[i] \notin Mk /\ s[i].path \notin Above(p)
  PROVE  Fits(s, D, p, Rv, Mk)
  <1>1. DOMAIN s = 1..Len(s)
    OBVIOUS
  <1> QED BY <1>1 DEF Fits, Fitting

\* What is removed with all that is in it.
LEMMA SaysRemoved ==
  ASSUME TypeOK, NEW c \in Clients, NEW q \in DOMAIN local[c], NEW p \in Subtree(q),
         NEW U, NEW M, p \notin M, NEW X, NEW V
  PROVE  /\ Says(p, SeeRemoval(c, q), DOMAIN local[c], watched[c], U, M, X, V)
         /\ SeeRemoval(c, q) \in Seq(Event)
  <1>1. q \in Paths /\ p \in Paths
    BY LocalTree, SubtreeInPaths
  <1>2. PICK L, W, S : /\ L = DOMAIN local[c] /\ W = watched[c] /\ S = L \cap Under(q)
    OBVIOUS
  <1>3. PICK s, u, t : /\ s = SeeAll(c, "REMOVE", S) /\ u = See(c, "REMOVE", q)
                       /\ t = SeeRemoval(c, q)
    OBVIOUS
  <1>4. t = s \o u
    BY <1>2, <1>3 DEF SeeRemoval
  <1>5. PICK e \in Event : e = FsEvent("REMOVE", q)
    BY <1>1, FsEventKind
  <1>6. e.path = q /\ e \notin Making
    BY <1>1, <1>5, FsEventKind DEF Making
  <1>7. S \in SUBSET Paths /\ S \subseteq Under(q)
    BY <1>2 DEF Under
  <1>8. ASSUME NEW r \in S
        PROVE  /\ FsEvent("REMOVE", r) \in Event /\ FsEvent("REMOVE", r) \notin Making
               /\ FsEvent("REMOVE", r).path \notin Above(p)
    <2>1. r \in Files /\ r \in Paths /\ r \notin Dirs
      BY <1>1, <1>7, UnderDirs DEF Files
    <2>2. r \notin Above(p)
      BY <1>1, <2>1, PathsAssumption
    <2> QED BY <2>1, <2>2, FsEventKind DEF Making
  <1>9. PICK E : E = {x \in Event : x \notin Making /\ x.path \notin Above(p)}
    OBVIOUS
  <1>10. {FsEvent("REMOVE", r) : r \in S} \subseteq E
    BY <1>8, <1>9
  <1>11. s \in Seq(E) /\ s \in Seq(Event)
    <2>1. s \in Seq({FsEvent("REMOVE", r) : r \in S})
      BY <1>3, <1>7, SeeAllEvents
    <2>2. s \in Seq(E) /\ E \subseteq Event
      BY <1>9, <1>10, <2>1, EveryInSeq
    <2> QED BY <2>2, EveryInSeq
  <1>12. u = <<e>> \/ u = <<>>
    BY <1>3, <1>5 DEF See
  <1>13. u \in Seq(Event) /\ t \in Seq(Event)
    BY <1>3, <1>4, <1>5, <1>11, SeeEvents, ConcatType
  <1>14. \A i \in DOMAIN s : s[i] \notin Making /\ s[i].path \notin Above(p)
    BY <1>9, <1>11
  <1>15. ASSUME NEW T \in SUBSET Paths, p \in T => p \in L /\ Parent(p) \in W
         PROVE  Fits(t, T, p, Removing, Making) /\ p \notin Final(t, T, Making)
    <2>1. Fits(s, T, p, Removing, Making)
      BY <1>11, <1>14, FitsTaken
    <2>2. PICK F \in SUBSET Paths : F = Final(s, T, Making)
      BY FinalPaths
    <2>3. ASSUME p \in Under(q) PROVE p \notin F
      <3>1. SUFFICES ASSUME p \in F PROVE FALSE
        OBVIOUS
      <3>2. p \in T /\ \A i \in DOMAIN s : s[i].path # p
        BY <1>1, <1>11, <1>14, <2>2, <3>1, TakenWord
      <3>3. p \in S /\ Seen(c, p)
        BY <1>2, <1>15, <2>3, <3>2 DEF Seen
      <3>4. PICK i \in DOMAIN s : s[i] = FsEvent("REMOVE", p)
        BY <1>3, <1>7, <3>3, SeeAllSees
      <3> QED BY <1>1, <3>2, <3>4, FsEventKind
    <2>4. Fits(u, F, p, Removing, Making)
      <3>1. Fitting(e, F, p, Removing, Making)
        <4>1. q \in Above(p) => p \in Under(q)
          BY <1>1, AboveUnder
        <4> QED BY <1>6, <2>3, <4>1 DEF Fitting
      <3> QED BY <1>12, <2>2, <3>1, FitsOne, NoneFits
    <2>5. Fits(t, T, p, Removing, Making)
      BY <1>4, <1>11, <1>13, <2>1, <2>2, <2>4, FitsConcat
    <2>6. Final(t, T, Making) = Final(u, F, Making)
      BY <1>4, <1>11, <1>13, <2>2, AfterConcat
    <2>7. p \notin Final(u, F, Making)
      <3>1. CASE u = <<e>>
        <4>1. Final(u, F, Making) = F \ {q}
          <5>1. Final(u, F, Making) = Step(e, F, Making)
            BY <1>1, <1>6, <2>2, <3>1, FinalOne
          <5> QED BY <1>6, <5>1 DEF Step
        <4> QED BY <2>3, <4>1 DEF Subtree
      <3>2. CASE u = <<>>
        <4>1. Final(u, F, Making) = F
          BY <2>2, <3>2, NoneFits
        <4>2. ~Seen(c, q)
          BY <1>3, <3>2 DEF See
        <4>3. p = q => p \notin F
          <5>1. SUFFICES ASSUME p = q, p \in F PROVE FALSE
            OBVIOUS
          <5>2. p \in T
            BY <1>1, <1>11, <1>14, <2>2, <5>1, TakenWord
          <5> QED BY <1>2, <1>15, <4>2, <5>1, <5>2 DEF Seen
        <4> QED BY <2>3, <4>1, <4>3 DEF Subtree
      <3> QED BY <1>12, <3>1, <3>2
    <2> QED BY <2>5, <2>6, <2>7
  <1>16. Says(p, t, L, W, U, M, X, V)
    BY <1>15 DEF Says
  <1> QED BY <1>2, <1>3, <1>13, <1>16

LEMMA RemovalSilent ==
  ASSUME NEW c, NEW q \in Paths, NEW p \in Paths, p \notin Subtree(q)
  PROVE  SeeRemoval(c, q) \in Seq(Silent(p))
  <1>1. ASSUME NEW r \in Subtree(q) PROVE FsEvent("REMOVE", r) \in Silent(p)
    <2>1. r \in Paths /\ r # p
      BY <1>1, SubtreeInPaths
    <2>2. r \notin Above(p)
      <3>1. CASE r = q
        BY <3>1, AboveUnder DEF Subtree
      <3>2. CASE r \in Under(q)
        <4>1. r \notin Dirs
          BY <3>2, UnderDirs DEF Files
        <4> QED BY <4>1, PathsAssumption
      <3> QED BY <1>1, <3>1, <3>2 DEF Subtree
    <2>3. PICK e \in Event : e = FsEvent("REMOVE", r)
      BY <2>1, FsEventKind
    <2>4. e.path = r /\ e \notin Making
      BY <2>1, <2>3, FsEventKind DEF Making
    <2>5. e \in Silent(p)
      BY <2>1, <2>2, <2>4 DEF Silent
    <2> QED BY <2>3, <2>5
  <1>2. {FsEvent("REMOVE", r) : r \in Subtree(q)} \subseteq Silent(p)
    BY <1>1
  <1> QED BY <1>2, SeeRemovalEvents, EveryInSeq

\* Whatever a user does raises the events that say it.
LEMMA LineUser ==
  ASSUME TypeOK, LineInv, DirInv, NEW c \in Clients, User(c), NEW p \in Own(c),
         p \notin past'.moved
  PROVE  LineOf(c, p)'
  <1>1. p \in Kept /\ p \in Paths /\ LineOf(c, p) /\ (p \in Dirs => p \notin past.unseen)
    BY DEF Own, Kept, LineInv, DirInv
  <1>2. UNCHANGED <<server, proc, channel, held>>
    BY UserKeeps
  <1>3. PICK L, M, W, X, U, V :
          /\ L = DOMAIN local[c] /\ M = DOMAIN local'[c] /\ W = watched[c]
          /\ X = watched'[c] /\ U = past.unseen /\ V = past'.unseen
    OBVIOUS
  <1>4. ASSUME NEW t \in Seq(Event), Raise(c, t), Says(p, t, L, W, U, M, X, V)
        PROVE  LineOf(c, p)'
    BY <1>1, <1>2, <1>3, <1>4, LineOfRaise
  <1>5. U \subseteq V
    BY <1>3, StepGrows DEF Grew
  <1>0. \A t \in Seq(Silent(p)) : t \in Seq(Event)
    BY EveryInSeq DEF Silent
  <1>6. CASE UserCreate(c)
    <2>1. PICK q \in Files :
            /\ Above(q) \subseteq L /\ X = W
            /\ local' = [local EXCEPT ![c] = CreateFile(@, q, edits + 1, 0)]
            /\ Raise(c, See(c, "CREATE", q))
            /\ past' = Happened(c, Around(q), Unseen(c, {q}))
      BY <1>3, <1>6 DEF UserCreate
    <2>2. edits + 1 \in Body /\ q \in Paths
      BY DEF TypeOK, Body, Files
    <2>3. Seen(c, q) \/ q \in V
      BY <1>3, <2>1, CreateTouched DEF Touched, Unseen
    <2>4. /\ M = L \cup {q} \cup Above(q)
          /\ p # q => (p \in M <=> p \in L)
      BY <1>1, <1>3, <2>1, <2>2, LocalCreate DEF Alike
    <2>5. Says(p, See(c, "CREATE", q), L, W, U, M, X, V) /\ See(c, "CREATE", q) \in Seq(Event)
      <3>1. CASE p = q
        <4>1. p \in Files /\ p \in M /\ (Seen(c, p) \/ p \in V) /\ W = watched[c] /\ X = W
          BY <1>3, <2>1, <2>3, <2>4, <3>1
        <4> QED BY <2>2, <3>1, <4>1, SaysMade
      <3>2. CASE q \in Under(p)
        <4>1. p \in L /\ p \in M /\ p \notin U
          BY <1>1, <1>3, <2>1, <2>2, <2>4, <3>2, AboveUnder, UnderDirs
        <4> QED BY <1>1, <2>1, <3>2, <4>1, SaysInside
      <3>3. CASE p # q /\ q \notin Under(p)
        <4>1. /\ p \in M <=> p \in L
              /\ Parent(p) \in W => Parent(p) \in X
              /\ p \in U => p \in V
          BY <1>5, <2>1, <2>4, <3>3
        <4>2. See(c, "CREATE", q) \in Seq(Silent(p))
          BY <1>1, <2>2, <3>3, OtherSilent
        <4> QED BY <1>1, <1>0, <4>1, <4>2, SaysSilent
      <3> QED BY <3>1, <3>2, <3>3
    <2> QED BY <1>4, <2>1, <2>5
  <1>7. CASE UserWrite(c)
    <2>1. PICK q \in Files \cap L :
            /\ X = W
            /\ local' = [local EXCEPT ![c] = FillFile(@, q, edits + 1, 0)]
            /\ Raise(c, See(c, "WRITE", q))
            /\ past' = Happened(c, Around(q), Unseen(c, {q}))
      BY <1>3, <1>7 DEF UserWrite
    <2>2. edits + 1 \in Body /\ q \in Paths /\ Above(q) \subseteq L
      BY <1>3, LocalTree DEF TypeOK, Body, Files
    <2>3. Seen(c, q) \/ q \in V
      BY <1>3, <2>1, CreateTouched DEF Touched, Unseen
    <2>4. M = L
      BY <1>3, <2>1, <2>2, LocalFill
    <2>5. Says(p, See(c, "WRITE", q), L, W, U, M, X, V) /\ See(c, "WRITE", q) \in Seq(Event)
      <3>1. CASE p = q
        <4>1. p \in Files /\ p \in M /\ (Seen(c, p) \/ p \in V) /\ W = watched[c] /\ X = W
          BY <1>3, <2>1, <2>3, <2>4, <3>1
        <4> QED BY <2>2, <3>1, <4>1, SaysMade
      <3>2. CASE q \in Under(p)
        <4>1. p \in L /\ p \in M /\ p \notin U
          BY <1>1, <1>3, <2>2, <2>4, <3>2, AboveUnder, UnderDirs
        <4> QED BY <1>1, <2>1, <3>2, <4>1, SaysInside
      <3>3. CASE p # q /\ q \notin Under(p)
        <4>1. /\ p \in M <=> p \in L
              /\ Parent(p) \in W => Parent(p) \in X
              /\ p \in U => p \in V
          BY <1>5, <2>1, <2>4, <3>3
        <4>2. See(c, "WRITE", q) \in Seq(Silent(p))
          BY <1>1, <2>2, <3>3, OtherSilent
        <4> QED BY <1>1, <1>0, <4>1, <4>2, SaysSilent
      <3> QED BY <3>1, <3>2, <3>3
    <2> QED BY <1>4, <2>1, <2>5
  <1>8. CASE UserMkDir(c)
    <2>1. PICK d \in Dirs :
            /\ X = W /\ local' = [local EXCEPT ![c] = MkDir(@, d, 0)]
            /\ Raise(c, See(c, "CREATE", d))
      BY <1>3, <1>8 DEF UserMkDir
    <2>2. d \in Paths /\ Above(d) = {} /\ Parent(d) = Root /\ d \notin Files
      BY <2>1, DirOnTop, AboveIsParent
    <2>3. Seen(c, d)
      BY <2>2 DEF Seen, DirInv
    <2>4. /\ M = L \cup {d}
          /\ p # d => (p \in M <=> p \in L)
      BY <1>1, <1>3, <2>1, LocalMkDir DEF Alike
    <2>5. Says(p, See(c, "CREATE", d), L, W, U, M, X, V) /\ See(c, "CREATE", d) \in Seq(Event)
      <3>1. CASE p = d
        <4>1. p \in M /\ Seen(c, p) /\ W = watched[c] /\ X = W
          BY <1>3, <2>1, <2>3, <2>4, <3>1
        <4> QED BY <2>2, <3>1, <4>1, SaysMade
      <3>2. CASE p # d
        <4>1. d \notin Under(p)
          BY <1>1, <2>2, UnderDirs
        <4>2. /\ p \in M <=> p \in L
              /\ Parent(p) \in W => Parent(p) \in X
              /\ p \in U => p \in V
          BY <1>5, <2>1, <2>4, <3>2
        <4>3. See(c, "CREATE", d) \in Seq(Silent(p))
          BY <1>1, <2>2, <3>2, <4>1, OtherSilent
        <4> QED BY <1>1, <1>0, <4>2, <4>3, SaysSilent
      <3> QED BY <3>1, <3>2
    <2> QED BY <1>4, <2>1, <2>5
  <1>9. CASE UserRemove(c)
    <2>1. PICK q \in L : /\ local' = [local EXCEPT ![c] = Rm(@, q, 0)]
                         /\ Raise(c, SeeRemoval(c, q)) /\ EndWatch(c, q)
      BY <1>3, <1>9 DEF UserRemove
    <2>2. q \in Paths
      BY <1>3, LocalTree
    <2>3. M = L \ Subtree(q)
      BY <1>3, <2>1, <2>2, LocalRm
    <2>4. Says(p, SeeRemoval(c, q), L, W, U, M, X, V) /\ SeeRemoval(c, q) \in Seq(Event)
      <3>1. CASE p \in Subtree(q)
        BY <1>3, <2>1, <2>3, <3>1, SaysRemoved
      <3>2. CASE p \notin Subtree(q)
        <4>1. q \notin Above(p)
          BY <1>1, <2>2, <3>2, AboveUnder DEF Subtree
        <4>2. Parent(p) \in W => Parent(p) \in X
          BY <1>1, <1>3, <2>1, <2>2, <4>1, EndWatchKeeps
        <4>3. (p \in M <=> p \in L) /\ (p \in U => p \in V)
          BY <1>5, <2>3, <3>2
        <4>4. SeeRemoval(c, q) \in Seq(Silent(p))
          BY <1>1, <2>2, <3>2, RemovalSilent
        <4> QED BY <1>1, <1>0, <4>2, <4>3, <4>4, SaysSilent
      <3> QED BY <3>1, <3>2
    <2> QED BY <1>4, <2>1, <2>4
  <1>10. CASE UserRename(c)
    <2>1. PICK o \in L, q \in Paths :
            /\ SameKind(o, q) /\ CanMove(local[c], o, q)
            /\ local' = [local EXCEPT ![c] = Move(@, o, q, 0)]
            /\ Raise(c, SeeRename(c, o, q)) /\ EndWatch(c, o)
            /\ past' = [Happened(c, Around(o) \cup Around(q), UntoldByRename(c, o, q))
                          EXCEPT !.moved = @ \cup Around(o) \cup Around(q)]
      BY <1>3, <1>10 DEF UserRename
    <2>2. o \in Paths
      BY <1>3, LocalTree
    <2>3. p \notin Around(o) /\ p \notin Around(q)
      BY <2>1, <2>2, RenameTouched DEF Touched
    <2>4. /\ q \notin Subtree(p) /\ o \notin Subtree(p) /\ o \notin Above(p)
          /\ p \notin Subtree(q) /\ p \notin Subtree(o)
      BY <1>1, <2>2, <2>3, AboveUnder DEF Around, Subtree
    <2>5. p \in M <=> p \in L
      BY <1>1, <1>3, <2>1, <2>2, <2>4, LocalMove DEF Alike
    <2>6. Parent(p) \in W => Parent(p) \in X
      BY <1>1, <1>3, <2>1, <2>2, <2>4, EndWatchKeeps
    <2>7. PICK t : t = SeeRename(c, o, q)
      OBVIOUS
    <2>8. t \in Seq(Beside(p))
      BY <1>1, <2>1, <2>2, <2>4, <2>7, BesideRename
    <2>9. t \in Seq(Event)
      BY <2>8, EveryInSeq DEF Beside
    <2>10. Says(p, t, L, W, U, M, X, V)
      BY <1>1, <1>5, <2>5, <2>6, <2>8, SaysBeside
    <2> QED BY <1>4, <2>1, <2>7, <2>9, <2>10
  <1> QED BY <1>6, <1>7, <1>8, <1>9, <1>10 DEF User

\* At every step the line from a client's own paths to the server is whole.
LEMMA NextLine ==
  ASSUME TypeOK, PastInv, BlameInv, HearsayInv, LineInv, FillInv, DirInv,
         NEW x \in Clients, Moves(x)
  PROVE  LineInv'
  <1>1. Grew
    BY StepGrows DEF Moves
  <1>2. ASSUME NEW c \in Clients, NEW p \in Own(c)' PROVE LineOf(c, p)'
    <2>1. p \in Own(c) /\ p \notin past'.lost /\ p \notin past'.moved
      BY <1>1, <1>2, KeptShrinks DEF Own, Kept
    <2>2. CASE c # x
      BY <2>1, <2>2, LineOthers
    <2>3. CASE c = x
      <3>1. CASE Watch(c) \/ Release(c)
        BY <2>1, <3>1, LineWatch, LineRelease
      <3>2. CASE Process(c)
        BY <2>1, <3>2, LineProcess
      <3>3. CASE Handle(c) \/ Fill(c) \/ Publish(c) \/ Fail(c)
        BY <2>1, <3>3, LineServer
      <3>4. CASE Consume(c) \/ ConsumeAdd(c) \/ ConsumeCopy(c) \/ ExpireIgnore(c)
        BY <2>1, <3>4, LineConsume
      <3>5. CASE User(c)
        BY <2>1, <3>5, LineUser
      <3> QED BY <2>3, <3>1, <3>2, <3>3, <3>4, <3>5 DEF Moves, Client, Server
    <2> QED BY <2>2, <2>3
  <1> QED BY <1>2 DEF LineInv

-----------------------------------------------------------------------------
(* What is under way, and what users leave of it.                           *)

LEMMA AboutTail ==
  ASSUME NEW S, NEW s \in Seq(S), s # <<>>, NEW p, NEW Mk, About(s, p, Mk)
  PROVE  About(Tail(s), p, Mk) \/ (Head(s).path = p /\ Head(s) \in Mk)
  <1>1. PICK i \in 1..Len(s) : s[i].path = p /\ s[i] \in Mk
    BY DEF About
  <1>2. PICK t : t = Tail(s)
    OBVIOUS
  <1>3. /\ Len(s) \in Nat /\ Head(s) = s[1] /\ Len(t) = Len(s) - 1
        /\ DOMAIN t = 1..Len(t)
        /\ \A j \in 1..Len(t) : t[j] = s[j + 1]
    BY <1>2
  <1>4. CASE i = 1
    BY <1>1, <1>3, <1>4
  <1>5. CASE i # 1
    <2>1. i - 1 \in 1..Len(t) /\ (i - 1) + 1 = i
      BY <1>3, <1>5
    <2>2. t[i - 1] = s[i]
      BY <1>3, <2>1
    <2> QED BY <1>1, <1>2, <1>3, <2>1, <2>2 DEF About
  <1> QED BY <1>4, <1>5

LEMMA AboutAppend ==
  ASSUME NEW S, NEW s \in Seq(S), NEW e \in S, NEW p, NEW Mk,
         About(s, p, Mk) \/ (e.path = p /\ e \in Mk)
  PROVE  About(Append(s, e), p, Mk)
  <1>1. PICK t : t = Append(s, e)
    OBVIOUS
  <1>2. /\ Len(s) \in Nat /\ DOMAIN s = 1..Len(s) /\ DOMAIN t = 1..(Len(s) + 1)
        /\ t[Len(s) + 1] = e /\ \A i \in 1..Len(s) : t[i] = s[i]
    BY <1>1
  <1>3. Len(s) + 1 \in 1..(Len(s) + 1) /\ \A i \in 1..Len(s) : i \in 1..(Len(s) + 1)
    BY <1>2
  <1> QED BY <1>1, <1>2, <1>3 DEF About

LEMMA AboutConcat ==
  ASSUME NEW S, NEW s \in Seq(S), NEW t \in Seq(S), NEW p, NEW Mk,
         About(s, p, Mk) \/ About(t, p, Mk)
  PROVE  About(s \o t, p, Mk)
  <1>1. PICK u : u = s \o t
    OBVIOUS
  <1>2. /\ Len(s) \in Nat /\ Len(t) \in Nat
        /\ DOMAIN s = 1..Len(s) /\ DOMAIN t = 1..Len(t)
    OBVIOUS
  <1>3. /\ u \in Seq(S) /\ Len(u) = Len(s) + Len(t)
        /\ \A i \in 1..Len(s) : u[i] = s[i]
        /\ \A i \in 1..Len(t) : u[Len(s) + i] = t[i]
    BY <1>1, ConcatItems
  <1>4. DOMAIN u = 1..(Len(s) + Len(t))
    BY <1>3
  <1>5. CASE About(s, p, Mk)
    <2>1. PICK i \in 1..Len(s) : s[i].path = p /\ s[i] \in Mk
      BY <1>2, <1>5 DEF About
    <2>2. i \in DOMAIN u /\ u[i] = s[i]
      BY <1>2, <1>3, <1>4
    <2> QED BY <1>1, <2>1, <2>2 DEF About
  <1>6. CASE About(t, p, Mk)
    <2>1. PICK i \in 1..Len(t) : t[i].path = p /\ t[i] \in Mk
      BY <1>2, <1>6 DEF About
    <2>2. Len(s) + i \in DOMAIN u /\ u[Len(s) + i] = t[i]
      BY <1>2, <1>3, <1>4
    <2> QED BY <1>1, <2>1, <2>2 DEF About
  <1> QED BY <1>5, <1>6

LEMMA AboutOne ==
  ASSUME NEW e, NEW p, NEW Mk, e.path = p, e \in Mk
  PROVE  About(<<e>>, p, Mk)
  <1>1. 1 \in DOMAIN <<e>> /\ <<e>>[1] = e
    OBVIOUS
  <1> QED BY <1>1 DEF About

\* What is there and was seen has been told, or will be.
LEMMA LineRetold ==
  ASSUME NEW p \in Paths, NEW D, NEW s \in Seq(Event), NEW H, NEW es \in Seq(Event),
         NEW L, NEW W, NEW U, Line(p, D, s, H, es, L, W, U), p \in L \ U, p \notin D
  PROVE  About(s, p, Making) \/ p \in H \/ About(es, p, Making)
  <1>1. PICK C : C = Final(s, D, Making)
    OBVIOUS
  <1>2. p \in Final(es, H \cup C, Making)
    BY <1>1 DEF Line
  <1>3. p \in H \cup C \/ About(es, p, Making)
    BY <1>2, FinalAbout
  <1>4. p \in C => About(s, p, Making)
    BY <1>1, FinalAbout
  <1> QED BY <1>3, <1>4

\* p is left as it was, and watched if it was.
Spared(c, p) ==
  /\ Alike(local[c], local'[c], p)
  /\ p \in watched[c] => p \in watched'[c]

\* A user spares what he does not touch, and what he does touch is seen.
LEMMA UserSpares ==
  ASSUME TypeOK, DirInv, NEW c \in Clients, User(c), NEW p \in Paths, p \notin past'.moved
  PROVE  \E t \in Seq(Event) :
           /\ Raise(c, t)
           /\ c \notin past'.touched[p] => Spared(c, p)
           /\ p \in DOMAIN local'[c] =>
                Spared(c, p) \/ About(t, p, Making) \/ p \in past'.unseen
  <1>1. ASSUME NEW q \in Paths, NEW op \in {"CREATE", "WRITE"}, op = "WRITE" => q \in Files,
               Raise(c, See(c, op, q)), p # q => Spared(c, p),
               c \in past'.touched[q], Seen(c, q) \/ q \in past'.unseen
        PROVE  \E t \in Seq(Event) :
                 /\ Raise(c, t)
                 /\ c \notin past'.touched[p] => Spared(c, p)
                 /\ p \in DOMAIN local'[c] =>
                      Spared(c, p) \/ About(t, p, Making) \/ p \in past'.unseen
    <2>1. PICK e \in Event : e = FsEvent(op, q)
      BY <1>1, FsEventKind
    <2>2. e.path = q /\ e \in Making
      BY <1>1, <2>1, FsEventKind DEF Making
    <2>3. PICK t : t = See(c, op, q)
      OBVIOUS
    <2>4. t \in Seq(Event)
      BY <2>1, <2>3, SeeEvents
    <2>5. Seen(c, q) => About(t, q, Making)
      <3>1. Seen(c, q) => t = <<e>>
        BY <2>1, <2>3 DEF See
      <3> QED BY <2>2, <3>1, AboutOne
    <2> QED BY <1>1, <2>3, <2>4, <2>5
  <1>2. CASE UserCreate(c)
    <2>1. PICK q \in Files :
            /\ Above(q) \subseteq DOMAIN local[c] /\ watched' = watched
            /\ local' = [local EXCEPT ![c] = CreateFile(@, q, edits + 1, 0)]
            /\ Raise(c, See(c, "CREATE", q))
            /\ past' = Happened(c, Around(q), Unseen(c, {q}))
      BY <1>2 DEF UserCreate
    <2>2. edits + 1 \in Body /\ q \in Paths
      BY DEF TypeOK, Body, Files
    <2>3. (Seen(c, q) \/ q \in past'.unseen) /\ c \in past'.touched[q]
      <3>1. PICK V : V = Unseen(c, {q}) /\ (Seen(c, q) \/ q \in V)
        BY DEF Unseen
      <3>2. Touched(c, Around(q), V, {})
        BY <2>1, <3>1, CreateTouched
      <3>3. q \in Around(q)
        BY DEF Around, Subtree
      <3> QED BY <2>2, <3>1, <3>2, <3>3 DEF Touched
    <2>4. p # q => Spared(c, p)
      BY <2>1, <2>2, LocalCreate DEF Spared
    <2> QED BY <1>1, <2>1, <2>2, <2>3, <2>4
  <1>3. CASE UserWrite(c)
    <2>1. PICK q \in Files \cap DOMAIN local[c] :
            /\ watched' = watched
            /\ local' = [local EXCEPT ![c] = FillFile(@, q, edits + 1, 0)]
            /\ Raise(c, See(c, "WRITE", q))
            /\ past' = Happened(c, Around(q), Unseen(c, {q}))
      BY <1>3 DEF UserWrite
    <2>2. edits + 1 \in Body /\ q \in Paths
      BY DEF TypeOK, Body, Files
    <2>3. (Seen(c, q) \/ q \in past'.unseen) /\ c \in past'.touched[q]
      <3>1. PICK V : V = Unseen(c, {q}) /\ (Seen(c, q) \/ q \in V)
        BY DEF Unseen
      <3>2. Touched(c, Around(q), V, {})
        BY <2>1, <3>1, CreateTouched
      <3>3. q \in Around(q)
        BY DEF Around, Subtree
      <3> QED BY <2>2, <3>1, <3>2, <3>3 DEF Touched
    <2>4. p # q => Spared(c, p)
      BY <2>1, <2>2, LocalFill DEF Spared
    <2> QED BY <1>1, <2>1, <2>2, <2>3, <2>4
  <1>4. CASE UserMkDir(c)
    <2>1. PICK d \in Dirs :
            /\ watched' = watched /\ local' = [local EXCEPT ![c] = MkDir(@, d, 0)]
            /\ Raise(c, See(c, "CREATE", d)) /\ past' = Happened(c, {d}, {})
      BY <1>4 DEF UserMkDir
    <2>2. d \in Paths /\ Parent(d) = Root
      BY DirOnTop, AboveIsParent
    <2>3. Seen(c, d) /\ c \in past'.touched[d]
      <3>1. Touched(c, {d}, {}, {})
        BY <2>1, MkDirTouched
      <3>2. c \in past'.touched[d]
        BY <2>2, <3>1 DEF Touched
      <3> QED BY <2>2, <3>2 DEF Seen, DirInv
    <2>4. p # d => Spared(c, p)
      BY <2>1, LocalMkDir DEF Spared
    <2> QED BY <1>1, <2>1, <2>2, <2>3, <2>4
  <1>5. CASE UserRemove(c)
    <2>1. PICK q \in DOMAIN local[c] :
            /\ local' = [local EXCEPT ![c] = Rm(@, q, 0)]
            /\ Raise(c, SeeRemoval(c, q)) /\ EndWatch(c, q)
            /\ past' = Happened(c, Around(q), Unseen(c, Subtree(q) \cap DOMAIN local[c]))
      BY <1>5 DEF UserRemove
    <2>2. q \in Paths
      BY LocalTree
    <2>3. PICK t : t = SeeRemoval(c, q)
      OBVIOUS
    <2>4. t \in Seq(Event)
      <3>1. \A r \in Subtree(q) : FsEvent("REMOVE", r) \in Event
        BY <2>2, SubtreeInPaths, EventTypes
      <3>2. {FsEvent("REMOVE", r) : r \in Subtree(q)} \subseteq Event
        BY <3>1
      <3> QED BY <2>2, <2>3, <3>2, SeeRemovalEvents, EveryInSeq
    <2>5. DOMAIN local'[c] = DOMAIN local[c] \ Subtree(q)
      BY <2>1, <2>2, LocalRm
    <2>6. p \notin Subtree(q) => Spared(c, p)
      <3>1. watched'[c] = watched[c] \ Subtree(q)
        BY <2>1, <2>2, EndWatchKeeps
      <3>2. p \notin Subtree(q) => Alike(local[c], local'[c], p)
        BY <2>1, <2>2, LocalRm
      <3> QED BY <3>1, <3>2 DEF Spared
    <2>7. p \in Subtree(q) => c \in past'.touched[p]
      <3>1. PICK V : Touched(c, Around(q), V, {})
        BY <2>1, <2>2, RemoveTouched
      <3> QED BY <3>1 DEF Touched, Around
    <2> QED BY <2>1, <2>3, <2>4, <2>5, <2>6, <2>7
  <1>6. CASE UserRename(c)
    <2>1. PICK o \in DOMAIN local[c], q \in Paths :
            /\ SameKind(o, q) /\ CanMove(local[c], o, q)
            /\ local' = [local EXCEPT ![c] = Move(@, o, q, 0)]
            /\ Raise(c, SeeRename(c, o, q)) /\ EndWatch(c, o)
            /\ past' = [Happened(c, Around(o) \cup Around(q), UntoldByRename(c, o, q))
                          EXCEPT !.moved = @ \cup Around(o) \cup Around(q)]
      BY <1>6 DEF UserRename
    <2>2. o \in Paths
      BY LocalTree
    <2>3. p \notin Around(o) /\ p \notin Around(q)
      BY <2>1, <2>2, RenameTouched DEF Touched
    <2>4. p \notin Subtree(q) /\ p \notin Subtree(o)
      BY <2>3 DEF Around
    <2>5. Spared(c, p)
      <3>1. watched'[c] = watched[c] \ Subtree(o)
        BY <2>1, <2>2, EndWatchKeeps
      <3>2. Alike(local[c], local'[c], p)
        BY <2>1, <2>2, <2>4, LocalMove
      <3> QED BY <2>4, <3>1, <3>2 DEF Spared
    <2>6. PICK t : t = SeeRename(c, o, q)
      OBVIOUS
    <2>7. PICK E : E = {FsEvent("RENAME", o), FsEvent("CREATE", q), Renamed("CREATE", o, q)}
      OBVIOUS
    <2>8. E \subseteq Event
      BY <2>1, <2>2, <2>7, EventTypes
    <2>9. t \in Seq(Event)
      BY <2>6, <2>7, <2>8, SeeRenameEvents, EveryInSeq
    <2> QED BY <2>1, <2>5, <2>6, <2>9
  <1> QED BY <1>2, <1>3, <1>4, <1>5, <1>6 DEF User

\* The open file is another, and what is copied into it leaves p alone.
LEMMA CopySpares ==
  ASSUME TypeOK, FileInv, NEW c \in Clients, ConsumeCopy(c), NEW p \in Paths
  PROVE  /\ consumer[c].file # p => Alike(local[c], local'[c], p)
         /\ DOMAIN local'[c] = DOMAIN local[c] /\ watched' = watched
         /\ \E t \in Seq(Event) : Raise(c, t)
         /\ consumer[c].file = p => local'[c][p].body =
              IF consumer[c].from \in DOMAIN server THEN server[consumer[c].from].body
                                                    ELSE ErrorPage
  <1>1. CASE consumer[c].file = NoPath
    <2>1. local' = local /\ events' = events /\ watched' = watched /\ p # NoPath
      BY <1>1, NoPathAssumption DEF ConsumeCopy
    <2>2. events' = [events EXCEPT ![c] = @ \o <<>>] /\ <<>> \in Seq(Event)
      BY <2>1 DEF TypeOK
    <2>3. \E t \in Seq(Event) : Raise(c, t)
      BY <2>2 DEF Raise
    <2> QED BY <1>1, <2>1, <2>3 DEF Alike
  <1>2. CASE consumer[c].file # NoPath
    <2>1. PICK q \in DOMAIN local[c] : q = consumer[c].file /\ q \in Files
      BY <1>2, ConsumerFields DEF FileInv, FileOf, TypeOK
    <2>2. PICK b : b = IF consumer[c].from \in DOMAIN server
                         THEN server[consumer[c].from].body ELSE ErrorPage
      OBVIOUS
    <2>3. b \in Body
      BY <2>2 DEF TypeOK, IsRooted, IsTree, Entry, Body
    <2>4. /\ local' = [local EXCEPT ![c] = FillFile(@, q, b, 0)]
          /\ Raise(c, See(c, "WRITE", q)) /\ watched' = watched
      BY <1>2, <2>1, <2>2 DEF ConsumeCopy
    <2>5. /\ DOMAIN local'[c] = DOMAIN local[c] /\ local'[c][q].body = b
          /\ p # q => Alike(local[c], local'[c], p)
      BY <2>3, <2>4, LocalFill
    <2>6. See(c, "WRITE", q) \in Seq(Event)
      BY <2>1, EventTypes, SeeEvents
    <2> QED BY <2>1, <2>2, <2>4, <2>5, <2>6
  <1> QED BY <1>1, <1>2

-----------------------------------------------------------------------------
(* What a client's own notes contain, the server has or is going to have.   *)

LEMMA BodyOthers ==
  ASSUME TypeOK, PastInv, BlameInv, FillInv, BodyInv, NEW x \in Clients, Moves(x),
         NEW c \in Clients \ {x}, NEW p \in Own(c) \cap Files
  PROVE  BodyOf(c, p)'
  <1>1. p \in Kept /\ p \in Paths /\ x \notin past.touched[p] /\ past.unseen \subseteq past'.unseen
    BY StepGrows DEF Own, Kept, Grew, Moves
  <1>2. SameClient(c) /\ BodyOf(c, p)
    BY OthersKept DEF BodyInv
  <1>3. Alike(server, server', p)
    BY <1>1, ServerAlike
  <1>4. p \in DOMAIN local'[c] \ past'.unseen => p \in DOMAIN local[c] \ past.unseen
    BY <1>1, <1>2 DEF SameClient
  <1>5. Retold(c, p) => Retold(c, p)'
    BY <1>2 DEF Retold, SameClient
  <1>6. p \in DOMAIN server => p \in DOMAIN server' /\ server'[p].body = server[p].body
    BY <1>3 DEF Alike
  <1> QED BY <1>2, <1>4, <1>5, <1>6 DEF BodyOf, Writing, SameClient

LEMMA BodyWatch ==
  ASSUME TypeOK, PastInv, BlameInv, HearsayInv, LineInv, BodyInv, NEW c \in Clients,
         Watch(c) \/ Release(c), NEW p \in Own(c) \cap Files
  PROVE  BodyOf(c, p)'
  <1>1. p \in Kept /\ p \in Paths /\ p \notin past.moved /\ BodyOf(c, p)
    BY DEF Own, Kept, BodyInv
  <1>2. UNCHANGED <<server, local, proc, past>>
    BY DEF Watch, Release
  <1>3. SUFFICES ASSUME Retold(c, p), p \in DOMAIN local[c] \ past.unseen PROVE Retold(c, p)'
    BY <1>1, <1>2 DEF BodyOf, Writing
  <1>4. channel[c] \in Seq(Event) /\ events[c] \in Seq(Event) /\ events[c] \in Seq(EventsOf(c))
    BY DEF TypeOK, BlameInv, BlameOf
  <1>5. ASSUME NEW e \in Event, channel'[c] = Append(channel[c], e),
               About(channel[c], p, Making) \/ (e.path = p /\ e \in Making)
        PROVE  Retold(c, p)'
    BY <1>4, <1>5, AboutAppend DEF Retold
  <1>6. CASE Release(c)
    <2>1. PICK q \in held[c] : /\ held' = [held EXCEPT ![c] = @ \ {q}]
                               /\ Put(c, FsEvent("WRITE", q))
      BY <1>6 DEF Release
    <2>2. q \in Files /\ q \in Paths
      BY DEF TypeOK, Files
    <2>3. PICK e \in Event : e = FsEvent("WRITE", q) /\ e.path = q /\ e \in Making
      BY <2>2, FsEventKind DEF Making
    <2>4. /\ held'[c] = held[c] \ {q} /\ events'[c] = events[c]
          /\ channel'[c] = Append(channel[c], e)
      BY <1>6, <2>1, <2>3 DEF TypeOK, Put, Release
    <2>5. CASE About(channel[c], p, Making) \/ p = q
      BY <1>5, <2>3, <2>4, <2>5
    <2>6. CASE (p \in held[c] /\ p # q) \/ About(events[c], p, Making)
      BY <2>4, <2>6 DEF Retold
    <2> QED BY <1>3, <2>5, <2>6 DEF Retold
  <1>7. CASE Watch(c)
    <2>1. events[c] # <<>> /\ events'[c] = Tail(events[c])
      BY <1>7 DEF Watch, TypeOK
    <2>2. PICK e \in EventsOf(c) : e = Head(events[c])
      BY <1>4, <2>1, HeadTailType
    <2>3. e \in Event /\ Moved(EventKind(e), e.path, e.old) /\ e.path \in Paths
      BY EventFields DEF EventsOf
    <2>4. \/ e.path \in ignored[c] /\ held'[c] = held[c] /\ channel'[c] = channel[c]
          \/ /\ e.path \notin ignored[c] /\ e.op = "WRITE"
             /\ held'[c] = held[c] \cup {e.path} /\ channel'[c] = channel[c]
          \/ /\ e.path \notin ignored[c] /\ e.op = "CREATE"
             /\ held'[c] = held[c] /\ channel'[c] = Append(channel[c], Created(e))
          \/ /\ e.path \notin ignored[c] /\ e.op = "RENAME"
             /\ held'[c] = held[c] \ {e.path} /\ channel'[c] = channel[c]
          \/ /\ e.path \notin ignored[c] /\ e.op = "REMOVE"
             /\ held'[c] = held[c] \ {e.path} /\ channel'[c] = Append(channel[c], e)
      BY <1>7, <2>2 DEF Watch, Put, TypeOK
    <2>5. EventKind(e) = "rename" => e.path # p
      BY <1>1, <2>3, NoPathAssumption DEF Moved, Subtree
    <2>6. ASSUME About(channel[c], p, Making) PROVE Retold(c, p)'
      <3>1. channel'[c] = channel[c] => Retold(c, p)'
        BY <2>6 DEF Retold
      <3>2. e.op = "CREATE" => Created(e) \in Event
        BY <2>3, CreatedKind
      <3> QED BY <1>5, <2>3, <2>4, <2>6, <3>1, <3>2
    <2>7. ASSUME About(events[c], p, Making) PROVE Retold(c, p)'
      <3>1. CASE About(Tail(events[c]), p, Making)
        BY <2>1, <3>1 DEF Retold
      <3>2. CASE e.path = p /\ e \in Making
        <4>1. p \notin ignored[c]
          BY OwnUnheard DEF Subtree
        <4>2. e.op \in {"CREATE", "WRITE"} /\ e.old = NoPath
          BY <2>3, <3>2, KindOf DEF Making
        <4>3. CASE e.op = "WRITE"
          <5>1. held'[c] = held[c] \cup {p}
            BY <2>4, <3>2, <4>1, <4>3
          <5> QED BY <5>1 DEF Retold
        <4>4. CASE e.op = "CREATE"
          <5>1. Created(e) = e
            BY <2>3, <4>2, <4>4, CreatedKind
          <5>2. channel'[c] = Append(channel[c], e)
            BY <2>4, <3>2, <4>1, <4>4, <5>1
          <5> QED BY <1>5, <2>3, <3>2, <5>2
        <4> QED BY <4>2, <4>3, <4>4
      <3> QED BY <1>4, <2>1, <2>2, <2>7, <3>1, <3>2, AboutTail
    <2>8. ASSUME p \in held[c] PROVE Retold(c, p)'
      <3>1. CASE p \in held'[c]
        BY <3>1 DEF Retold
      <3>2. CASE p \notin held'[c]
        <4>1. e.path = p /\ e.op \in {"REMOVE", "RENAME"} /\ held'[c] = held[c] \ {p}
          BY <2>4, <2>8, <3>2
        <4>2. e.op = "REMOVE"
          BY <2>3, <2>5, <4>1, KindOf
        <4>3. e \notin Making
          BY <4>2 DEF Making, EventKind
        <4>4. PICK D, s, H, es, L, W, U :
                /\ D = Sent(c) /\ s = channel[c] /\ H = held[c] /\ es = events[c]
                /\ L = DOMAIN local[c] /\ W = watched[c] /\ U = past.unseen
          OBVIOUS
        <4>5. Line(p, D, s, H, es, L, W, U)
          BY <4>4 DEF LineInv, LineOf
        <4>6. PICK C \in SUBSET Paths : C = Final(s, D, Making)
          BY FinalPaths
        <4>7. p \in Final(es, H \cup C, Making)
          BY <1>3, <4>4, <4>5, <4>6 DEF Line
        <4>8. Final(es, H \cup C, Making) = Final(Tail(es), (H \cup C) \ {p}, Making)
          <5>1. Final(es, H \cup C, Making)
                    = Final(Tail(es), Step(Head(es), H \cup C, Making), Making)
            BY <1>4, <2>1, <4>4, AfterTail
          <5>2. Step(Head(es), H \cup C, Making) = (H \cup C) \ {p}
            BY <2>2, <4>1, <4>3, <4>4 DEF Step
          <5> QED BY <5>1, <5>2
        <4>9. Tail(es) \in Seq(Event)
          BY <1>4, <2>1, <4>4, HeadTailType
        <4>10. About(Tail(es), p, Making)
          BY <4>7, <4>8, <4>9, FinalAbout
        <4> QED BY <2>1, <4>4, <4>10 DEF Retold
      <3> QED BY <3>1, <3>2
    <2> QED BY <1>3, <2>6, <2>7, <2>8 DEF Retold
  <1> QED BY <1>6, <1>7

LEMMA BodyProcess ==
  ASSUME TypeOK, PastInv, BlameInv, HearsayInv, LineInv, BodyInv, NEW c \in Clients,
         Process(c), NEW p \in Own(c) \cap Files
  PROVE  BodyOf(c, p)'
  <1>1. p \in Own(c) /\ p \in Kept /\ p \in Paths /\ p \notin past.moved /\ BodyOf(c, p)
        /\ p \in Files /\ p \notin Dirs
    BY DEF Own, Kept, BodyInv, Files
  <1>2. PICK e \in ItemsOf(c) :
           /\ e = Head(channel[c]) /\ channel[c] # <<>> /\ channel'[c] = Tail(channel[c])
           /\ e \in Event /\ e.path \in Paths
           /\ UNCHANGED <<server, local, events, held, past>>
           /\ proc[c].pc = "idle"
           /\ \/ /\ proc'[c] = proc[c] /\ e \in Making /\ e.path \in Files
                 /\ e.path \notin DOMAIN local[c] \/ e.path \in ignored[c]
              \/ /\ proc'[c].pc = "send" /\ proc'[c].req.path = e.path
                 /\ \/ proc'[c].req.op = "remove" /\ e \in Removing /\ e \notin Making
                    \/ proc'[c].req.op = "rename" /\ EventKind(e) = "rename"
                    \/ proc'[c].req.op = "mkdir" /\ e \in Making /\ e.path \in Dirs
                    \/ /\ proc'[c].req.op = "upload" /\ e \in Making /\ e.path \in Files
                       /\ proc'[c].req.body = local[c][e.path].body
    BY ProcessCases
  <1>3. SUFFICES ASSUME p \in DOMAIN local[c] \ past.unseen
                 PROVE  \/ Retold(c, p)'
                        \/ /\ Writing(c, p)' /\ proc'[c].req.op = "upload"
                           /\ proc'[c].req.body = local'[c][p].body
                        \/ /\ ~Writing(c, p)'
                           /\ p \in DOMAIN server' /\ server'[p].body = local'[c][p].body
    BY <1>2 DEF BodyOf
  <1>4. channel[c] \in Seq(Event) /\ Tail(channel[c]) \in Seq(Event) /\ events[c] \in Seq(Event)
    BY <1>2, HeadTailType DEF TypeOK
  <1>5. p \notin ignored[c]
    BY <1>1, OwnUnheard DEF Subtree
  <1>6. CASE e.path = p /\ e \in Making
    BY <1>1, <1>2, <1>3, <1>5, <1>6 DEF Making, Removing, Writing
  <1>7. CASE e.path = p /\ e \notin Making
    <2>1. EventKind(e) # "rename"
      BY <1>1, <1>2, <1>7, NoPathAssumption DEF ItemsOf, Moved, Subtree
    <2>2. proc'[c].pc = "send" /\ proc'[c].req.op = "remove" /\ proc'[c].req.path = p
      BY <1>2, <1>7, <2>1
    <2>3. PICK D, s, H, es, L, W, U :
            /\ D = Sent(c)' /\ s = channel'[c] /\ H = held'[c] /\ es = events'[c]
            /\ L = DOMAIN local'[c] /\ W = watched'[c] /\ U = past'.unseen
      OBVIOUS
    <2>4. Line(p, D, s, H, es, L, W, U)
      <3>1. LineOf(c, p)'
        BY <1>1, LineProcess
      <3> QED BY <2>3, <3>1 DEF LineOf
    <2>5. p \notin D
      BY <2>2, <2>3 DEF Sent
    <2>6. About(s, p, Making) \/ p \in H \/ About(es, p, Making)
      <3>1. s \in Seq(Event) /\ es \in Seq(Event) /\ p \in L \ U
        BY <1>2, <1>3, <1>4, <2>3
      <3> QED BY <1>1, <2>4, <2>5, <3>1, LineRetold
    <2> QED BY <2>3, <2>6 DEF Retold
  <1>8. CASE e.path # p
    <2>1. About(channel[c], p, Making) => About(Tail(channel[c]), p, Making)
      BY <1>2, <1>4, <1>8, AboutTail
    <2>2. Retold(c, p) => Retold(c, p)'
      BY <1>2, <2>1 DEF Retold
    <2>3. ~Writing(c, p)'
      BY <1>2, <1>8 DEF Writing
    <2>4. ~Writing(c, p)
      BY <1>2 DEF Writing
    <2> QED BY <1>1, <1>2, <1>3, <2>2, <2>3, <2>4 DEF BodyOf
  <1> QED BY <1>6, <1>7, <1>8

\* What a client sends about something else leaves its own paths as they are.
LEMMA ServeOwn ==
  ASSUME TypeOK, NEW c \in Clients, NEW p \in Own(c), LineOf(c, p),
         proc[c].pc = "send", NEW r \in RequestsOf(c), r = proc[c].req, ~Refused(server, r),
         r.path # p
  PROVE  Alike(server, Serve(server, r), p)
  <1>1. p \in Kept /\ p \in Paths /\ p \notin past.moved /\ r \in Request /\ r.path \in Paths
        /\ IsTree(server)
    BY RequestFields DEF Own, Kept, RequestsOf, TypeOK, IsRooted
  <1>2. CASE r.op = "upload"
    <2>1. PICK q \in Files, b \in Body : q = r.path /\ b = Empty
      BY <1>1, <1>2, RequestFields DEF RequestsOf, Body
    <2>2. Alike(server, CreateFile(server, q, b, 0), p)
      <3>1. p \in Above(q) => p \in DOMAIN server
        BY <1>1, <1>2, <2>1, AboveUnder, NothingInNotes DEF LineOf
      <3> QED BY <1>1, <2>1, <3>1, CreateFileAlike
    <2> QED BY <1>2, <2>1, <2>2 DEF Serve
  <1>3. CASE r.op = "mkdir"
    <2>1. PICK q \in Dirs : q = r.path
      BY <1>3 DEF RequestsOf
    <2>2. Alike(server, MkDir(server, q, 0), p)
      BY <1>1, <2>1, MkDirAlike
    <2> QED BY <1>3, <2>1, <2>2 DEF Serve
  <1>4. CASE r.op = "remove"
    <2>1. PICK q \in Paths : q = r.path
      BY <1>1
    <2>2. p \in Subtree(q) => p \notin DOMAIN server
      BY <1>1, <1>4, <2>1, AboveUnder DEF LineOf, Subtree
    <2>3. Alike(server, Rm(server, q, 0), p)
      BY <1>1, <2>1, <2>2, RmAlike
    <2> QED BY <1>4, <2>1, <2>3 DEF Serve
  <1>5. CASE r.op = "rename"
    <2>1. /\ r.old \in Paths /\ CanMove(server, r.old, r.path)
      BY <1>1, <1>5, RequestFields DEF Refused
    <2>2. PICK q \in Paths, o \in Paths : q = r.path /\ o = r.old
      BY <1>1, <2>1
    <2>3. p \notin Subtree(q) /\ p \notin Subtree(o)
      BY <1>1, <1>5, <2>2, NoPathAssumption DEF RequestsOf, RequestKind, Moved
    <2>4. Alike(server, Move(server, o, q, 0), p)
      BY <1>1, <2>1, <2>2, <2>3, MoveAlike
    <2> QED BY <1>5, <2>2, <2>4 DEF Serve
  <1> QED BY <1>1, <1>2, <1>3, <1>4, <1>5, RequestFields

LEMMA BodyServer ==
  ASSUME TypeOK, BlameInv, LineInv, FillInv, BodyInv, NEW c \in Clients,
         Server(c) \/ Fail(c), NEW p \in Own(c) \cap Files, p \notin past'.lost
  PROVE  BodyOf(c, p)'
  <1>1. p \in Own(c) /\ p \in Kept /\ p \in Paths /\ p \in Files /\ BodyOf(c, p) /\ LineOf(c, p)
    BY DEF Own, Kept, BodyInv, LineInv
  <1>2. UNCHANGED <<local, channel, held, events>> /\ past'.unseen = past.unseen
    BY OthersPast DEF Handle, Fill, Publish, Fail, Server
  <1>3. Retold(c, p) => Retold(c, p)'
    BY <1>2 DEF Retold
  <1>4. SUFFICES ASSUME p \in DOMAIN local[c] \ past.unseen, ~Retold(c, p)
                 PROVE  \/ /\ Writing(c, p)' /\ proc'[c].req.op = "upload"
                           /\ proc'[c].req.body = local[c][p].body
                        \/ /\ ~Writing(c, p)'
                           /\ p \in DOMAIN server' /\ server'[p].body = local[c][p].body
    BY <1>2, <1>3 DEF BodyOf
  <1>5. \/ /\ Writing(c, p) /\ proc[c].req.op = "upload"
           /\ proc[c].req.body = local[c][p].body
        \/ /\ ~Writing(c, p)
           /\ p \in DOMAIN server /\ server[p].body = local[c][p].body
    BY <1>1, <1>4 DEF BodyOf
  <1>6. CASE Publish(c)
    <2>1. ~Writing(c, p) /\ ~Writing(c, p)' /\ server' = server
      BY <1>6 DEF Publish, Writing, Idle, TypeOK
    <2> QED BY <1>5, <2>1
  <1>7. CASE Fail(c)
    <2>1. Writing(c, p) => p \in past'.lost
      <3>1. past'.lost = past.lost \cup
              UNION {Around(q) : q \in Paths \cap {proc[c].req.path, proc[c].req.old}}
        BY <1>7 DEF Fail, TypeOK, Past
      <3>2. p \in Around(p)
        BY DEF Around, Subtree
      <3> QED BY <1>1, <3>1, <3>2 DEF Writing
    <2>2. ~Writing(c, p)' /\ server' = server
      BY <1>7 DEF Fail, Writing, Idle, TypeOK
    <2> QED BY <1>5, <2>1, <2>2
  <1>8. CASE Fill(c)
    <2>1. PICK r \in RequestsOf(c) :
            /\ r = proc[c].req /\ proc[c].pc = "fill" /\ proc'[c].pc = "publish"
            /\ DOMAIN server' = DOMAIN server
            /\ \A q \in Paths : q # filling[c] => Alike(server, server', q)
            /\ filling[c] \in DOMAIN server => server'[filling[c]].body = r.body
      BY <1>8, FillSteps
    <2>2. ~Writing(c, p)' /\ (Writing(c, p) <=> r.path = p)
      BY <2>1 DEF Writing
    <2>3. CASE r.path = p
      <3>1. filling[c] = p /\ p \in DOMAIN server
        BY <1>1, <2>1, <2>3 DEF FillInv, FillOf
      <3> QED BY <1>5, <2>1, <2>2, <2>3, <3>1
    <2>4. CASE r.path # p
      <3>1. filling[c] # p
        BY <1>1, <2>1, <2>4, FillApart
      <3>2. Alike(server, server', p)
        BY <1>1, <2>1, <3>1
      <3> QED BY <1>1, <1>5, <2>2, <2>4, <3>2 DEF Alike
    <2> QED BY <2>3, <2>4
  <1>9. CASE Handle(c)
    <2>1. PICK r \in RequestsOf(c) :
            /\ r = proc[c].req /\ proc[c].pc = "send" /\ r \in Request /\ r.path \in Paths
            /\ \/ Refused(server, r) /\ server' = server /\ proc'[c] = Idle
               \/ /\ ~Refused(server, r) /\ server' = Serve(server, r)
                  /\ proc'[c].pc \in {"fill", "publish"} /\ proc'[c].req = r
                  /\ proc'[c].pc = "fill" <=> r.op = "upload"
      BY <1>9, HandleCases
    <2>2. CASE r.path = p
      <3>1. r.op = "upload" /\ r.body = local[c][p].body
        BY <1>5, <2>1, <2>2 DEF Writing
      <3>2. ~Refused(server, r)
        BY <3>1 DEF Refused
      <3> QED BY <2>1, <2>2, <3>1, <3>2 DEF Writing
    <2>3. CASE r.path # p
      <3>1. p \in DOMAIN server /\ server[p].body = local[c][p].body
        BY <1>5, <2>1, <2>3 DEF Writing
      <3>2. Alike(server, server', p)
        <4>1. CASE server' = server
          BY <4>1 DEF Alike
        <4>2. CASE ~Refused(server, r) /\ server' = Serve(server, r)
          BY <1>1, <2>1, <2>3, <4>2, ServeOwn
        <4> QED BY <2>1, <4>1, <4>2
      <3>3. ~Writing(c, p)'
        BY <2>1, <2>3 DEF Writing, Idle
      <3> QED BY <1>1, <3>1, <3>2, <3>3 DEF Alike
    <2> QED BY <2>2, <2>3
  <1> QED BY <1>6, <1>7, <1>8, <1>9 DEF Server

\* When a client's own note, or what is told of it, is all that changes.
LEMMA BodyRaised ==
  ASSUME TypeOK, NEW c \in Clients, NEW p \in Own(c) \cap Files, BodyOf(c, p),
         UNCHANGED <<server, proc, channel, held>>, past.unseen \subseteq past'.unseen,
         NEW t \in Seq(Event), Raise(c, t),
         p \in DOMAIN local'[c] \ past'.unseen =>
           Alike(local[c], local'[c], p) \/ About(t, p, Making)
  PROVE  BodyOf(c, p)'
  <1>1. events'[c] = events[c] \o t /\ events[c] \in Seq(Event)
    BY DEF Raise, TypeOK
  <1>2. About(events[c], p, Making) \/ About(t, p, Making) => About(events'[c], p, Making)
    BY <1>1, AboutConcat
  <1>3. Retold(c, p) \/ About(t, p, Making) => Retold(c, p)'
    BY <1>2 DEF Retold
  <1>4. Alike(local[c], local'[c], p) /\ p \in DOMAIN local'[c] \ past'.unseen =>
          p \in DOMAIN local[c] \ past.unseen /\ local'[c][p].body = local[c][p].body
    BY DEF Alike
  <1> QED BY <1>3, <1>4 DEF BodyOf, Writing

\* The contents of a client's own notes are at the server, or on their way.
LEMMA NextBody ==
  ASSUME TypeOK, PastInv, BlameInv, FileInv, HearsayInv, LineInv, FillInv, BodyInv, DirInv,
         NEW x \in Clients, Moves(x)
  PROVE  BodyInv'
  <1>1. Grew
    BY StepGrows DEF Moves
  <1>2. ASSUME NEW c \in Clients, NEW p \in Own(c)' \cap Files PROVE BodyOf(c, p)'
    <2>1. p \in Own(c) /\ p \in Own(c) \cap Files /\ p \in Paths /\ p \notin past'.lost
          /\ p \notin past'.moved /\ BodyOf(c, p) /\ past.unseen \subseteq past'.unseen
      BY <1>1, <1>2, KeptShrinks DEF Own, Kept, BodyInv, Grew
    <2>2. CASE c # x
      BY <2>1, <2>2, BodyOthers
    <2>3. CASE c = x
      <3>1. CASE Watch(c) \/ Release(c)
        BY <2>1, <3>1, BodyWatch
      <3>2. CASE Process(c)
        BY <2>1, <3>2, BodyProcess
      <3>3. CASE Server(c) \/ Fail(c)
        BY <2>1, <3>3, BodyServer
      <3>4. CASE Consume(c)
        <4>1. PICK t \in Seq(Event) : Raise(c, t)
          BY <2>1, <3>4, ConsumeOwn
        <4>2. Alike(local[c], local'[c], p)
          BY <2>1, <3>4, ConsumeOwn
        <4>3. UNCHANGED <<server, proc, channel, held>>
          BY <3>4 DEF Consume
        <4> QED BY <2>1, <4>1, <4>2, <4>3, BodyRaised
      <3>5. CASE ConsumeCopy(c)
        <4>1. consumer[c].file # p
          BY <2>1, OwnUnheard DEF Subtree
        <4>2. PICK t \in Seq(Event) : Raise(c, t)
          BY <2>1, <3>5, CopySpares
        <4>3. Alike(local[c], local'[c], p)
          BY <2>1, <3>5, <4>1, CopySpares
        <4>4. UNCHANGED <<server, proc, channel, held>>
          BY <3>5 DEF ConsumeCopy
        <4> QED BY <2>1, <4>2, <4>3, <4>4, BodyRaised
      <3>6. CASE ConsumeAdd(c) \/ ExpireIgnore(c)
        <4>1. UNCHANGED <<server, proc, channel, held, events, local, past>>
          BY <3>6 DEF ConsumeAdd, ExpireIgnore
        <4> QED BY <2>1, <4>1 DEF BodyOf, Retold, Writing
      <3>7. CASE User(c)
        <4>1. PICK t \in Seq(Event) :
                /\ Raise(c, t)
                /\ p \in DOMAIN local'[c] =>
                     Spared(c, p) \/ About(t, p, Making) \/ p \in past'.unseen
          BY <2>1, <3>7, UserSpares
        <4>2. UNCHANGED <<server, proc, channel, held>>
          BY <3>7, UserKeeps
        <4>3. p \in DOMAIN local'[c] \ past'.unseen =>
                Alike(local[c], local'[c], p) \/ About(t, p, Making)
          BY <4>1 DEF Spared
        <4> QED BY <2>1, <4>1, <4>2, <4>3, BodyRaised
      <3> QED BY <2>3, <3>1, <3>2, <3>3, <3>4, <3>5, <3>6, <3>7 DEF Moves, Client
    <2> QED BY <2>2, <2>3
  <1> QED BY <1>2 DEF BodyInv

-----------------------------------------------------------------------------
(* Directories are watched, or are going to be.                             *)

\* The sync directory is there for good, and a directory in it is always seen.
LEMMA RootWatched ==
  ASSUME TypeOK, NEW c \in Clients, Moves(c), Root \in watched[c]
  PROVE  Root \in watched'[c]
  <1>1. ASSUME watched[c] \subseteq watched'[c] PROVE Root \in watched'[c]
    BY <1>1
  <1>2. CASE Watch(c) \/ Release(c) \/ Handle(c) \/ Fill(c) \/ Publish(c) \/ Fail(c)
             \/ ConsumeCopy(c) \/ ExpireIgnore(c) \/ UserCreate(c) \/ UserWrite(c) \/ UserMkDir(c)
    <2>1. watched' = watched
      BY <1>2 DEF Watch, Release, Handle, Fill, Publish, Fail, ConsumeCopy, ExpireIgnore,
         UserCreate, UserWrite, UserMkDir
    <2> QED BY <2>1
  <1>3. CASE Process(c)
    BY <1>1, <1>3 DEF Process, AddNew, AddWatch, TypeOK
  <1>4. CASE ConsumeAdd(c)
    BY <1>1, <1>4 DEF ConsumeAdd, AddWatch, TypeOK
  <1>5. CASE Consume(c)
    <2>1. PICK m \in Message : m = Head(queue[c])
      BY <1>5, HeadTailType DEF TypeOK, Consume
    <2>2. m.path \in Paths /\ (m.event = "NECO_RENAME" => m.old \in Paths)
      BY MessageFields
    <2>3. \/ watched' = watched \/ EndWatch(c, m.path)
          \/ m.event = "NECO_RENAME" /\ EndWatch(c, m.old)
      BY <1>5, <2>1 DEF Consume, ConsumeNote, ConsumeDir, ConsumeRename, ConsumeRemove
    <2> QED BY <2>2, <2>3, EndWatchKeeps
  <1>6. CASE UserRemove(c) \/ UserRename(c)
    <2>1. PICK q \in DOMAIN local[c] : EndWatch(c, q)
      BY <1>6 DEF UserRemove, UserRename
    <2>2. q \in Paths
      BY LocalTree
    <2> QED BY <2>1, <2>2, EndWatchKeeps
  <1> QED BY <1>2, <1>3, <1>4, <1>5, <1>6 DEF Moves, Client, Server, User

\* Every change of a kept directory is seen.
LEMMA DirsSeen ==
  ASSUME TypeOK, DirInv, NEW x \in Clients, Moves(x), NEW p \in Kept', p \in Kept, p \in Dirs
  PROVE  p \notin past'.unseen
  <1>1. p \in Paths /\ p \notin past.unseen /\ p \notin past'.moved
    BY DEF Kept, DirInv
  <1>2. CASE Client(x) \/ Server(x) \/ Fail(x)
    BY <1>1, <1>2, OthersPast
  <1>3. CASE User(x)
    <2>1. CASE UserCreate(x) \/ UserWrite(x)
      <3>1. PICK q \in Files : past' = Happened(x, Around(q), Unseen(x, {q}))
        BY <2>1 DEF UserCreate, UserWrite
      <3>2. past'.unseen = past.unseen \cup Unseen(x, {q})
        BY <3>1, CreateTouched DEF Touched
      <3> QED BY <1>1, <3>2 DEF Unseen, Files
    <2>2. CASE UserMkDir(x)
      <3>1. PICK d \in Dirs : past' = Happened(x, {d}, {})
        BY <2>2 DEF UserMkDir
      <3>2. past'.unseen = past.unseen \cup {}
        BY <3>1, MkDirTouched DEF Touched
      <3> QED BY <1>1, <3>2
    <2>3. CASE UserRemove(x)
      <3>1. PICK q \in Paths :
              past' = Happened(x, Around(q), Unseen(x, Subtree(q) \cap DOMAIN local[x]))
        BY <2>3, LocalTree DEF UserRemove
      <3>2. PICK V : V = Unseen(x, Subtree(q) \cap DOMAIN local[x])
        OBVIOUS
      <3>3. past'.unseen = past.unseen \cup V
        BY <3>1, <3>2, RemoveTouched DEF Touched
      <3>4. Parent(p) = Root
        BY DirOnTop, AboveIsParent
      <3>5. Seen(x, p)
        BY <3>4 DEF Seen, DirInv
      <3>6. p \notin V
        BY <3>2, <3>5 DEF Unseen
      <3> QED BY <1>1, <3>3, <3>6
    <2>4. CASE UserRename(x)
      <3>1. PICK o \in Paths, q \in Paths :
              past' = [Happened(x, Around(o) \cup Around(q), UntoldByRename(x, o, q))
                         EXCEPT !.moved = @ \cup Around(o) \cup Around(q)]
        BY <2>4, LocalTree DEF UserRename
      <3>2. PICK V : V = UntoldByRename(x, o, q)
        OBVIOUS
      <3>3. Touched(x, Around(o) \cup Around(q), V, Around(o) \cup Around(q))
        BY <3>1, <3>2, RenameTouched
      <3>4. V \subseteq Around(o) \cup Around(q)
        BY <3>2 DEF UntoldByRename, Around
      <3> QED BY <1>1, <3>3, <3>4 DEF Touched
    <2> QED BY <1>3, <2>1, <2>2, <2>3, <2>4 DEF User
  <1> QED BY <1>2, <1>3 DEF Moves

LEMMA DirSame ==
  ASSUME Grew, NEW c \in Clients, NEW p \in Kept' \cap Dirs, DirInv,
         p \in DOMAIN local'[c] => p \in DOMAIN local[c],
         p \in watched[c] => p \in watched'[c],
         consumer[c].pc = "add" /\ consumer[c].from = p =>
           \/ p \notin DOMAIN local'[c] \/ p \in watched'[c]
           \/ (consumer'[c].pc = "add" /\ consumer'[c].from = p),
         About(channel[c], p, Making) => About(channel'[c], p, Making) \/ p \in watched'[c]
                                         \/ p \notin DOMAIN local'[c],
         About(events[c], p, Making) =>
           About(events'[c], p, Making) \/ About(channel'[c], p, Making) \/ p \notin Own(c)
  PROVE  DirOf(c, p)'
  <1>1. /\ p \in Kept /\ (p \in Own(c)' => p \in Own(c)) /\ (p \in Foreign(c)' => p \in Foreign(c))
    BY KeptShrinks
  <1>2. DirOf(c, p)
    BY <1>1 DEF DirInv
  <1>3. ASSUME p \in Own(c)', p \in DOMAIN local'[c]
        PROVE  \/ p \in watched'[c] \/ About(channel'[c], p, Making)
               \/ About(events'[c], p, Making)
    BY <1>1, <1>2, <1>3 DEF DirOf
  <1>4. ASSUME p \in Foreign(c)', p \in DOMAIN local'[c]
        PROVE  p \in watched'[c] \/ (consumer'[c].pc = "add" /\ consumer'[c].from = p)
    BY <1>1, <1>2, <1>4 DEF DirOf
  <1> QED BY <1>3, <1>4 DEF DirOf

LEMMA DirWatch ==
  ASSUME TypeOK, PastInv, BlameInv, HearsayInv, DirInv, Grew, NEW c \in Clients,
         Watch(c) \/ Release(c), NEW p \in Kept' \cap Dirs
  PROVE  DirOf(c, p)'
  <1>1. UNCHANGED <<local, watched, consumer>>
    BY DEF Watch, Release
  <1>2. channel[c] \in Seq(Event) /\ events[c] \in Seq(Event) /\ events[c] \in Seq(EventsOf(c))
        /\ p \notin Files /\ p \in Kept
    BY KeptShrinks DEF TypeOK, BlameInv, BlameOf, Files
  <1>3. CASE Release(c)
    <2>1. PICK q \in Files : Put(c, FsEvent("WRITE", q)) /\ events' = events
      BY <1>3 DEF Release, TypeOK
    <2>2. PICK e \in Event : e = FsEvent("WRITE", q)
      BY <2>1, EventTypes
    <2>3. channel'[c] = Append(channel[c], e) /\ events'[c] = events[c]
      BY <2>1, <2>2 DEF TypeOK, Put
    <2>4. About(channel[c], p, Making) => About(channel'[c], p, Making)
      BY <1>2, <2>3, AboutAppend
    <2> QED BY <1>1, <2>3, <2>4, DirSame
  <1>4. CASE Watch(c)
    <2>1. events[c] # <<>> /\ events'[c] = Tail(events[c])
      BY <1>4 DEF Watch, TypeOK
    <2>2. PICK e \in EventsOf(c) : e = Head(events[c])
      BY <1>2, <2>1, HeadTailType
    <2>3. e \in Event /\ (e.op = "WRITE" => e.path \in Files)
      BY EventFields DEF EventsOf
    <2>4. \/ e.path \in ignored[c] /\ channel'[c] = channel[c]
          \/ e.path \notin ignored[c] /\ e.op = "WRITE" /\ channel'[c] = channel[c]
          \/ /\ e.path \notin ignored[c] /\ e.op = "CREATE"
             /\ channel'[c] = Append(channel[c], Created(e))
          \/ e.path \notin ignored[c] /\ e.op = "RENAME" /\ channel'[c] = channel[c]
          \/ /\ e.path \notin ignored[c] /\ e.op = "REMOVE"
             /\ channel'[c] = Append(channel[c], e)
      BY <1>4, <2>2 DEF Watch, Put, TypeOK
    <2>5. About(channel[c], p, Making) => About(channel'[c], p, Making)
      <3>1. e.op = "CREATE" => Created(e) \in Event
        BY <2>3, CreatedKind
      <3> QED BY <1>2, <2>3, <2>4, <3>1, AboutAppend
    <2>6. ASSUME About(events[c], p, Making), p \in Own(c)
          PROVE  About(events'[c], p, Making) \/ About(channel'[c], p, Making)
      <3>1. CASE About(Tail(events[c]), p, Making)
        BY <2>1, <3>1
      <3>2. CASE e.path = p /\ e \in Making
        <4>1. p \notin ignored[c]
          BY <2>6, OwnUnheard DEF Subtree
        <4>2. e.op = "CREATE" /\ e.old = NoPath
          BY <1>2, <2>3, <3>2, KindOf DEF Making
        <4>3. Created(e) = e
          BY <2>3, <4>2, CreatedKind
        <4>4. channel'[c] = Append(channel[c], e)
          BY <2>4, <3>2, <4>1, <4>2, <4>3
        <4> QED BY <1>2, <2>3, <3>2, <4>4, AboutAppend
      <3> QED BY <1>2, <2>1, <2>2, <2>6, <3>1, <3>2, AboutTail
    <2> QED BY <1>1, <2>5, <2>6, DirSame
  <1> QED BY <1>3, <1>4

LEMMA DirProcess ==
  ASSUME TypeOK, BlameInv, DirInv, Grew, NEW c \in Clients, Process(c), NEW p \in Kept' \cap Dirs
  PROVE  DirOf(c, p)'
  <1>1. PICK e \in ItemsOf(c) :
           /\ e = Head(channel[c]) /\ channel[c] # <<>> /\ channel'[c] = Tail(channel[c])
           /\ UNCHANGED <<local, events, consumer>>
           /\ watched[c] \subseteq watched'[c]
           /\ e \in Making /\ e.path \in Dirs \cap DOMAIN local[c] => e.path \in watched'[c]
    BY ProcessCases
  <1>2. channel[c] \in Seq(Event)
    BY DEF TypeOK
  <1>3. About(channel[c], p, Making) =>
          About(channel'[c], p, Making) \/ (e.path = p /\ e \in Making)
    BY <1>1, <1>2, AboutTail
  <1>4. About(channel[c], p, Making) => About(channel'[c], p, Making) \/ p \in watched'[c]
                                         \/ p \notin DOMAIN local'[c]
    BY <1>1, <1>3
  <1> QED BY <1>1, <1>4, DirSame

LEMMA DirConsume ==
  ASSUME TypeOK, PastInv, BlameInv, QueueInv, DirInv, Grew, NEW c \in Clients, Consume(c),
         NEW p \in Kept' \cap Dirs
  PROVE  DirOf(c, p)'
  <1>1. /\ p \in Kept /\ p \in Paths /\ p \notin past.moved
        /\ (p \in Own(c)' => p \in Own(c)) /\ (p \in Foreign(c)' => p \in Foreign(c))
    BY KeptShrinks DEF Kept
  <1>2. DirOf(c, p)
    BY <1>1 DEF DirInv
  <1>3. consumer[c].pc = "idle"
    BY DEF Consume
  <1>4. ASSUME p \in Own(c), p \in DOMAIN local'[c]
        PROVE  \/ p \in watched'[c] \/ About(channel'[c], p, Making)
               \/ About(events'[c], p, Making)
    <2>1. PICK t \in Seq(Event) : Raise(c, t)
      BY <1>4, ConsumeOwn
    <2>2. p \in DOMAIN local[c] /\ (p \in watched[c] => p \in watched'[c])
      BY <1>4, ConsumeOwn DEF Alike
    <2>3. events'[c] = events[c] \o t /\ events[c] \in Seq(Event) /\ channel' = channel
      BY <2>1 DEF Raise, TypeOK, Consume
    <2>4. About(events[c], p, Making) => About(events'[c], p, Making)
      BY <2>3, AboutConcat
    <2> QED BY <1>2, <1>4, <2>2, <2>3, <2>4 DEF DirOf
  <1>5. ASSUME p \in Foreign(c), p \in DOMAIN local'[c]
        PROVE  p \in watched'[c] \/ (consumer'[c].pc = "add" /\ consumer'[c].from = p)
    <2>1. PICK m \in MessagesFor(c) :
           /\ m = Head(queue[c]) /\ m \in Message /\ m.path \in Paths
           /\ Fitting(m, DOMAIN local[c], p, RemovingMessages, MakingMessages)
      BY <1>5, MessageFits
    <2>2. p \in DOMAIN local[c] => p \in watched[c]
      BY <1>2, <1>3, <1>5 DEF DirOf
    <2>3. CASE m.event = "CREATE" /\ m.path \in Files /\ ConsumeNote(c, m.path)
      <3>1. PICK q \in Files : q = m.path /\ q \in Paths /\ q # p
        BY <2>1, <2>3 DEF Files
      <3>2. /\ local' = [local EXCEPT ![c] = CreateFile(@, q, Empty, 0)] /\ Empty \in Body
            /\ watched' = watched
        BY <2>3, <3>1 DEF ConsumeNote, Body
      <3>3. DOMAIN local'[c] = DOMAIN local[c] \cup {q} \cup Above(q)
        BY <3>2, LocalCreate
      <3>4. p \in Above(q) => p \in DOMAIN local[c]
        <4>1. m \in MakingMessages
          BY <2>1, <2>3 DEF MakingMessages, MessageKind
        <4> QED BY <1>1, <2>1, <3>1, <4>1, AboveUnder DEF Fitting
      <3> QED BY <1>5, <2>2, <3>1, <3>2, <3>3, <3>4
    <2>4. CASE m.event = "CREATE" /\ m.path \in Dirs /\ ConsumeDir(c, m.path)
      <3>1. PICK d \in Dirs : d = m.path
        BY <2>4
      <3>2. /\ local' = [local EXCEPT ![c] = MkDir(@, d, 0)] /\ watched' = watched
            /\ consumer'[c] = Consuming("add", d, NoPath)
        BY <2>4, <3>1 DEF ConsumeDir, TypeOK
      <3>3. DOMAIN local'[c] = DOMAIN local[c] \cup {d}
        BY <3>2, LocalMkDir
      <3> QED BY <1>5, <2>2, <3>2, <3>3 DEF Consuming
    <2>5. CASE m.event = "NECO_RENAME" /\ ConsumeRename(c, m.old, m.path)
      <3>1. PICK q \in Paths, o \in Paths : q = m.path /\ o = m.old
        BY <2>1, <2>5, MessageFields
      <3>2. p \notin Subtree(q) /\ p \notin Subtree(o)
        BY <1>1, <2>5, <3>1, NoPathAssumption DEF MessagesFor, MessageKind, Moved
      <3>3. CASE CanMove(local[c], o, q)
        <4>1. local' = [local EXCEPT ![c] = Move(@, o, q, 0)] /\ EndWatch(c, o)
          BY <2>5, <3>1, <3>3 DEF ConsumeRename
        <4>2. p \in DOMAIN local[c]
          BY <1>1, <1>5, <3>2, <3>3, <4>1, LocalMove DEF Alike
        <4>3. watched'[c] = watched[c] \ Subtree(o)
          BY <4>1, EndWatchKeeps
        <4> QED BY <2>2, <3>2, <4>2, <4>3
      <3>4. CASE ~CanMove(local[c], o, q)
        <4>1. local' = local /\ watched' = watched
          BY <2>5, <3>1, <3>4 DEF ConsumeRename
        <4> QED BY <1>5, <2>2, <4>1
      <3> QED BY <3>3, <3>4
    <2>6. CASE m.event = "REMOVE" /\ ConsumeRemove(c, m.path)
      <3>1. PICK q \in Paths : q = m.path
        BY <2>1
      <3>2. local' = [local EXCEPT ![c] = Rm(@, q, 0)] /\ EndWatch(c, q)
        BY <2>6, <3>1 DEF ConsumeRemove
      <3>3. DOMAIN local'[c] = DOMAIN local[c] \ Subtree(q)
        BY <3>2, LocalRm
      <3>4. watched'[c] = watched[c] \ Subtree(q)
        BY <3>2, EndWatchKeeps
      <3> QED BY <1>5, <2>2, <3>3, <3>4
    <2> QED BY <2>1, <2>3, <2>4, <2>5, <2>6 DEF Consume
  <1> QED BY <1>1, <1>4, <1>5 DEF DirOf

LEMMA DirUser ==
  ASSUME TypeOK, DirInv, Grew, NEW c \in Clients, User(c), NEW p \in Kept' \cap Dirs
  PROVE  DirOf(c, p)'
  <1>1. /\ p \in Kept /\ p \in Paths /\ p \notin past'.moved
        /\ (p \in Own(c)' => p \in Own(c)) /\ (p \in Foreign(c)' => p \in Foreign(c))
    BY KeptShrinks DEF Kept
  <1>2. DirOf(c, p) /\ p \notin past'.unseen
    BY <1>1, DirsSeen DEF DirInv, Moves
  <1>3. consumer'[c].pc = consumer[c].pc /\ consumer'[c].from = consumer[c].from
        /\ channel' = channel
    BY UserFile, UserKeeps
  <1>4. PICK t \in Seq(Event) :
          /\ Raise(c, t)
          /\ c \notin past'.touched[p] => Spared(c, p)
          /\ p \in DOMAIN local'[c] => Spared(c, p) \/ About(t, p, Making) \/ p \in past'.unseen
    BY <1>1, UserSpares
  <1>5. events'[c] = events[c] \o t /\ events[c] \in Seq(Event)
    BY <1>4 DEF Raise, TypeOK
  <1>6. About(events[c], p, Making) \/ About(t, p, Making) => About(events'[c], p, Making)
    BY <1>5, AboutConcat
  <1>7. Spared(c, p) => /\ p \in DOMAIN local'[c] => p \in DOMAIN local[c]
                        /\ p \in watched[c] => p \in watched'[c]
    BY DEF Spared, Alike
  <1>8. ASSUME p \in Own(c)', p \in DOMAIN local'[c]
        PROVE  \/ p \in watched'[c] \/ About(channel'[c], p, Making)
               \/ About(events'[c], p, Making)
    BY <1>1, <1>2, <1>3, <1>4, <1>6, <1>7, <1>8 DEF DirOf
  <1>9. ASSUME p \in Foreign(c)', p \in DOMAIN local'[c]
        PROVE  p \in watched'[c] \/ (consumer'[c].pc = "add" /\ consumer'[c].from = p)
    <2>1. c \notin past'.touched[p]
      BY <1>9 DEF Foreign
    <2> QED BY <1>1, <1>2, <1>3, <1>4, <1>7, <1>9, <2>1 DEF DirOf
  <1> QED BY <1>8, <1>9 DEF DirOf

\* A kept directory a client has is watched, or is about to be.
LEMMA NextDir ==
  ASSUME TypeOK, PastInv, BlameInv, FileInv, HearsayInv, QueueInv, DirInv,
         NEW x \in Clients, Moves(x)
  PROVE  DirInv'
  <1>1. Grew
    BY StepGrows DEF Moves
  <1>2. Kept' \cap Dirs \cap past'.unseen = {}
    BY <1>1, KeptShrinks, DirsSeen
  <1>3. ASSUME NEW c \in Clients PROVE Root \in watched'[c]
    BY RootWatched, OthersKept DEF DirInv, SameClient
  <1>4. ASSUME NEW c \in Clients, NEW p \in Kept' \cap Dirs PROVE DirOf(c, p)'
    <2>1. CASE c # x
      BY <1>1, <2>1, OthersKept, DirSame DEF SameClient
    <2>2. CASE c = x
      <3>1. CASE Watch(c) \/ Release(c)
        BY <1>1, <3>1, DirWatch
      <3>2. CASE Process(c)
        BY <1>1, <3>2, DirProcess
      <3>3. CASE Handle(c) \/ Fill(c) \/ Publish(c) \/ Fail(c) \/ ExpireIgnore(c)
        <4>1. UNCHANGED <<local, watched, consumer, channel, events>>
          BY <3>3 DEF Handle, Fill, Publish, Fail, ExpireIgnore
        <4> QED BY <1>1, <4>1, DirSame
      <3>4. CASE Consume(c)
        BY <1>1, <3>4, DirConsume
      <3>5. CASE ConsumeAdd(c)
        <4>1. UNCHANGED <<local, channel, events>> /\ watched[c] \subseteq watched'[c]
          BY <3>5 DEF ConsumeAdd, AddWatch, TypeOK
        <4>2. consumer[c].from = p => p \notin DOMAIN local[c] \/ p \in watched'[c]
          BY <3>5 DEF ConsumeAdd, AddWatch, TypeOK
        <4> QED BY <1>1, <4>1, <4>2, DirSame
      <3>6. CASE ConsumeCopy(c)
        <4>1. /\ UNCHANGED <<channel, watched>> /\ consumer[c].pc = "fetch"
              /\ DOMAIN local'[c] = DOMAIN local[c]
          <5>1. p \in Paths
            BY <1>4 DEF Kept
          <5> QED BY <3>6, <5>1, CopySpares DEF ConsumeCopy
        <4>2. PICK t \in Seq(Event) : Raise(c, t)
          <5>1. p \in Paths
            BY <1>4 DEF Kept
          <5> QED BY <3>6, <5>1, CopySpares
        <4>3. events'[c] = events[c] \o t /\ events[c] \in Seq(Event)
          BY <4>2 DEF Raise, TypeOK
        <4>4. About(events[c], p, Making) => About(events'[c], p, Making)
          BY <4>3, AboutConcat
        <4> QED BY <1>1, <4>1, <4>4, DirSame
      <3>7. CASE User(c)
        BY <1>1, <3>7, DirUser
      <3> QED BY <2>2, <3>1, <3>2, <3>3, <3>4, <3>5, <3>6, <3>7 DEF Moves, Client, Server
    <2> QED BY <2>1, <2>2
  <1>5. \A c \in Clients : Root \in watched'[c] /\ \A p \in Kept' \cap Dirs : DirOf(c, p)'
    BY <1>3, <1>4
  <1> QED BY <1>2, <1>5 DEF DirInv

-----------------------------------------------------------------------------
(* What the messages say of a path its own user has not touched is what the *)
(* server has.                                                               *)

\* Nobody publishes anything about a path, or about what it depends on, that no user
\* of his has touched.
LEMMA PublishedApart ==
  ASSUME TypeOK, PastInv, BlameInv, NEW x \in Clients, NEW p \in Kept,
         x \notin past.touched[p], proc[x].pc # "idle"
  PROVE  /\ proc[x].req.path # p /\ proc[x].req.path \notin Under(p)
         /\ proc[x].req.op = "remove" => proc[x].req.path \notin Above(p)
  <1>1. PICK r \in RequestsOf(x) : r = proc[x].req
    BY DEF BlameInv, BlameOf
  <1>2. r.path \in Paths /\ r.old \in Paths \cup {NoPath}
    BY RequestFields DEF RequestsOf
  <1>3. RequestKind(r) \in {"make", "take", "rename"}
    BY DEF RequestKind
  <1>4. Apart(RequestKind(r), r.path, r.old, p)
    BY <1>2, <1>3, BlamedApart DEF RequestsOf
  <1> QED BY <1>1, <1>4 DEF Apart, RequestKind, Subtree

\* Only one client's user has touched it.
LEMMA OneToucher ==
  ASSUME NEW x \in Clients, NEW p \in Kept, x \in past.touched[p]
  PROVE  p \in Own(x) /\ \A y \in Clients \ {x} : y \notin past.touched[p]
  BY DEF Kept, Own

\* When a step does nothing to p, and ends no announcement of it, ...
LEMMA QueueSame ==
  ASSUME NEW c \in Clients, NEW p \in Paths, QueueOf(c, p), queue'[c] = queue[c],
         p \in DOMAIN local'[c] <=> p \in DOMAIN local[c],
         p \in DOMAIN server' <=> p \in DOMAIN server,
         \A y \in Clients : \/ proc'[y] = proc[y]
                            \/ proc[y].pc = "fill" /\ proc'[y].pc = "publish"
                               /\ proc'[y].req = proc[y].req
                            \/ proc'[y].pc \notin {"fill", "publish"} /\ ~Publishing(y, p)
  PROVE  QueueOf(c, p)'
  <1>1. PICK s, D, E : s = queue[c] /\ D = DOMAIN local[c] /\ E = DOMAIN local'[c]
    OBVIOUS
  <1>2. /\ Fits(s, E, p, RemovingMessages, MakingMessages)
        /\ p \in Final(s, E, MakingMessages) <=> p \in Final(s, D, MakingMessages)
    BY <1>1, FitsSame DEF QueueOf
  <1>3. p \in Heard(c)' <=> p \in Heard(c)
    BY <1>1, <1>2 DEF Heard
  <1>4. Fits(queue'[c], DOMAIN local'[c], p, RemovingMessages, MakingMessages)
    BY <1>1, <1>2
  <1>5. ASSUME NEW y \in Clients, Publishing(y, p)'
        PROVE  p \in DOMAIN server' <=> proc'[y].req.op # "remove"
    BY <1>5 DEF QueueOf, Publishing
  <1>6. ASSUME \A y \in Clients : ~Publishing(y, p)'
        PROVE  p \in DOMAIN server' <=> p \in Heard(c)'
    <2>1. \A y \in Clients : ~Publishing(y, p)
      BY <1>6 DEF Publishing
    <2> QED BY <1>3, <2>1 DEF QueueOf
  <1>7. ASSUME NEW y \in Clients, proc'[y].pc \in {"fill", "publish"}
        PROVE  /\ proc'[y].req.op = "remove" /\ proc'[y].req.path \in Above(p) => p \notin Heard(c)'
               /\ proc'[y].req.op = "upload" /\ proc'[y].req.path \in Under(p) => p \in Heard(c)'
    BY <1>3, <1>7 DEF QueueOf
  <1> QED BY <1>4, <1>5, <1>6, <1>7 DEF QueueOf

\* What the server does for a client whose user has touched p.
LEMMA QueueServed ==
  ASSUME TypeOK, PastInv, BlameInv, LineInv, FillInv, NEW c \in Clients, NEW p \in Foreign(c),
         QueueOf(c, p), NEW x \in Clients, x \in past.touched[p], Handle(x), proc'[x] # Idle
  PROVE  QueueOf(c, p)'
  <1>1. p \in Kept /\ p \in Paths /\ p \notin past.moved /\ p \in Own(x)
        /\ \A y \in Clients \ {x} : y \notin past.touched[p]
    BY OneToucher DEF Foreign, Kept
  <1>2. PICK r \in RequestsOf(x) :
          /\ r = proc[x].req /\ proc[x].pc = "send" /\ r \in Request /\ r.path \in Paths
          /\ UNCHANGED <<local, queue>>
          /\ \A y \in Clients \ {x} : proc'[y] = proc[y]
          /\ ~Refused(server, r) /\ server' = Serve(server, r)
          /\ proc'[x].pc \in {"fill", "publish"} /\ proc'[x].req = r
    BY HandleCases
  <1>3. LineOf(x, p)
    BY <1>1 DEF LineInv
  <1>4. p \in Heard(c)' <=> p \in Heard(c)
    BY <1>2 DEF Heard
  <1>5. Fits(queue'[c], DOMAIN local'[c], p, RemovingMessages, MakingMessages)
    BY <1>2 DEF QueueOf
  <1>6. \A y \in Clients \ {x} : ~Publishing(y, p) /\ ~Publishing(y, p)'
    BY <1>1, <1>2, PublishedApart DEF Publishing
  <1>7. p \in DOMAIN server <=> p \in Heard(c)
    BY <1>2, <1>6 DEF QueueOf, Publishing
  <1>8. /\ r.op = "remove" /\ r.path \in Above(p) => p \notin Heard(c)'
        /\ r.op = "upload" /\ r.path \in Under(p) => p \in Heard(c)'
    BY <1>2, <1>3, <1>4, <1>7 DEF LineOf
  <1>9. \A y \in Clients : proc'[y].pc \in {"fill", "publish"} =>
          /\ proc'[y].req.op = "remove" /\ proc'[y].req.path \in Above(p) => p \notin Heard(c)'
          /\ proc'[y].req.op = "upload" /\ proc'[y].req.path \in Under(p) => p \in Heard(c)'
    BY <1>2, <1>4, <1>8 DEF QueueOf
  <1>10. CASE r.path = p
    <2>1. Publishing(x, p)'
      BY <1>2, <1>10 DEF Publishing
    <2>2. r.op # "rename"
      BY <1>1, <1>10, NoPathAssumption DEF RequestsOf, RequestKind, Moved, Subtree
    <2>3. p \in DOMAIN server' <=> r.op # "remove"
      BY <1>2, <1>10, <2>2, ServeDomain, RequestFields DEF Subtree
    <2>4. \A y \in Clients : Publishing(y, p)' =>
            (p \in DOMAIN server' <=> proc'[y].req.op # "remove")
      BY <1>2, <1>6, <2>3
    <2> QED BY <1>5, <1>9, <2>1, <2>4 DEF QueueOf
  <1>11. CASE r.path # p
    <2>1. \A y \in Clients : ~Publishing(y, p)'
      BY <1>2, <1>6, <1>11 DEF Publishing
    <2>2. Alike(server, server', p)
      BY <1>1, <1>2, <1>3, <1>11, ServeOwn
    <2>3. p \in DOMAIN server' <=> p \in Heard(c)'
      BY <1>4, <1>7, <2>2 DEF Alike
    <2> QED BY <1>5, <1>9, <2>1, <2>3 DEF QueueOf
  <1> QED BY <1>10, <1>11

\* A message is added to everybody else's queue.
LEMMA PublishSteps ==
  ASSUME TypeOK, NEW x \in Clients, Publish(x)
  PROVE  \E m \in Message :
           /\ m = Announcement(x) /\ m.path \in Paths
           /\ UNCHANGED <<server, local, consumer, past>> /\ proc[x].pc = "publish"
           /\ m.path = proc[x].req.path /\ MessageKind(m) = RequestKind(proc[x].req)
           /\ (m \in MakingMessages <=> proc[x].req.op \in {"upload", "mkdir"})
           /\ (m \in RemovingMessages <=> proc[x].req.op = "remove")
           /\ proc'[x] = Idle /\ queue'[x] = queue[x]
           /\ \A y \in Clients \ {x} :
                proc'[y] = proc[y] /\ queue'[y] = Append(queue[y], m)
  <1>1. proc[x].pc = "publish" /\ proc[x].pc # "idle" /\ proc[x].req \in Request
    BY BusyRequest DEF Publish
  <1>2. PICK m \in Message : m = Announcement(x)
    BY <1>1, AnnouncementFields
  <1>3. /\ m.path = proc[x].req.path /\ MessageKind(m) = RequestKind(proc[x].req)
        /\ m.event = "CREATE" <=> proc[x].req.op \in {"upload", "mkdir"}
        /\ m.event = "REMOVE" <=> proc[x].req.op = "remove"
    BY <1>1, <1>2, AnnouncementFields
  <1>4. m \in MakingMessages <=> proc[x].req.op \in {"upload", "mkdir"}
    BY <1>3 DEF MakingMessages, MessageKind
  <1>5. m \in RemovingMessages <=> proc[x].req.op = "remove"
    BY <1>3 DEF RemovingMessages, MessageKind
  <1>6. m.path \in Paths
    BY MessageFields
  <1>7. proc'[x] = Idle /\ queue'[x] = queue[x]
    BY DEF Publish, TypeOK
  <1>8. ASSUME NEW y \in Clients \ {x}
        PROVE  proc'[y] = proc[y] /\ queue'[y] = Append(queue[y], m)
    BY <1>2 DEF Publish, TypeOK
  <1>9. UNCHANGED <<server, local, consumer, past>>
    BY DEF Publish
  <1> QED BY <1>1, <1>2, <1>3, <1>4, <1>5, <1>6, <1>7, <1>8, <1>9

\* A message about p reaches those who have not heard of it.
LEMMA QueuePublish ==
  ASSUME TypeOK, PastInv, BlameInv, NEW c \in Clients, NEW p \in Foreign(c), QueueOf(c, p),
         NEW x \in Clients, Publish(x)
  PROVE  QueueOf(c, p)'
  <1>1. p \in Kept /\ p \in Paths /\ p \notin past.moved /\ c \notin past.touched[p]
    BY DEF Foreign, Kept
  <1>2. PICK m \in Message :
           /\ m = Announcement(x) /\ m.path \in Paths
           /\ UNCHANGED <<server, local, consumer, past>> /\ proc[x].pc = "publish"
           /\ m.path = proc[x].req.path /\ MessageKind(m) = RequestKind(proc[x].req)
           /\ (m \in MakingMessages <=> proc[x].req.op \in {"upload", "mkdir"})
           /\ (m \in RemovingMessages <=> proc[x].req.op = "remove")
           /\ proc'[x] = Idle /\ queue'[x] = queue[x]
           /\ \A y \in Clients \ {x} :
                proc'[y] = proc[y] /\ queue'[y] = Append(queue[y], m)
    BY PublishSteps
  <1>3. CASE c = x
    <2>1. ~Publishing(x, p)
      BY <1>1, <1>2, <1>3, PublishedApart DEF Publishing
    <2> QED BY <1>1, <1>2, <1>3, <2>1, QueueSame DEF Idle
  <1>4. CASE c # x
    <2>1. PICK s \in Seq(Message), D \in SUBSET Paths : s = queue[c] /\ D = DOMAIN local[c]
      BY LocalTree DEF TypeOK
    <2>2. PICK H : H = Final(s, D, MakingMessages) /\ H = Heard(c)
      BY <2>1 DEF Heard
    <2>3. queue'[c] = Append(s, m) /\ DOMAIN local'[c] = D
      BY <1>2, <1>4, <2>1
    <2>4. Heard(c)' = Step(m, H, MakingMessages)
      <3>1. Final(Append(s, m), D, MakingMessages)
              = Step(m, Final(s, D, MakingMessages), MakingMessages)
        BY <1>2, FinalAppend
      <3> QED BY <2>2, <2>3, <3>1 DEF Heard
    <2>5. proc[x].req.op = "mkdir" => m.path \notin Under(p)
      <3>1. proc[x].req.op = "mkdir" => m.path \in Dirs
        BY <1>2 DEF BlameInv, BlameOf, RequestsOf
      <3> QED BY <1>1, <3>1, UnderDirs, NothingInNotes
    <2>6. Fitting(m, H, p, RemovingMessages, MakingMessages)
      BY <1>2, <2>2, <2>5 DEF Fitting, QueueOf
    <2>7. Fits(queue'[c], DOMAIN local'[c], p, RemovingMessages, MakingMessages)
      <3>1. Fits(s, D, p, RemovingMessages, MakingMessages)
        BY <2>1 DEF QueueOf
      <3> QED BY <1>2, <2>2, <2>3, <2>6, <3>1, FitsAppend
    <2>8. CASE m.path = p
      <3>1. x \in past.touched[p]
        BY <1>1, <1>2, <2>8, PublishedApart
      <3>2. \A y \in Clients \ {x} : y \notin past.touched[p]
        BY <1>1, <3>1, OneToucher
      <3>3. ASSUME NEW y \in Clients, proc'[y].pc \in {"fill", "publish"}
            PROVE  /\ proc'[y].req.path # p /\ proc'[y].req.path \notin Under(p)
                   /\ proc'[y].req.op = "remove" => proc'[y].req.path \notin Above(p)
        <4>1. y # x
          BY <1>2, <3>3 DEF Idle
        <4> QED BY <1>1, <1>2, <3>2, <3>3, <4>1, PublishedApart
      <3>4. p \in Heard(c)' <=> m \in MakingMessages
        BY <2>4, <2>8 DEF Step
      <3>5. p \in DOMAIN server <=> proc[x].req.op # "remove"
        BY <1>2, <2>8 DEF QueueOf, Publishing
      <3>6. proc[x].req.op \in {"upload", "mkdir", "remove"}
        <4>1. Moved(RequestKind(proc[x].req), proc[x].req.path, proc[x].req.old)
              /\ proc[x].req \in Request
          BY <1>2 DEF BlameInv, BlameOf, RequestsOf
        <4>2. proc[x].req.op # "rename"
          BY <1>1, <1>2, <2>8, <4>1, NoPathAssumption DEF Moved, RequestKind, Subtree
        <4> QED BY <4>1, <4>2, RequestFields
      <3>7. p \in DOMAIN server' <=> p \in Heard(c)'
        BY <1>2, <3>4, <3>5, <3>6
      <3>8. \A y \in Clients : ~Publishing(y, p)'
        BY <3>3 DEF Publishing
      <3> QED BY <2>7, <3>3, <3>7, <3>8 DEF QueueOf
    <2>9. CASE m.path # p
      <3>1. p \in Heard(c)' <=> p \in Heard(c)
        BY <2>2, <2>4, <2>9 DEF Step
      <3>2. ~Publishing(x, p) /\ ~Publishing(x, p)'
        BY <1>2, <2>9 DEF Publishing, Idle
      <3>3. \A y \in Clients : proc'[y].pc \in {"fill", "publish"} => proc'[y] = proc[y]
        BY <1>2 DEF Idle
      <3>4. \A y \in Clients : Publishing(y, p)' <=> Publishing(y, p)
        BY <1>2, <3>2 DEF Publishing
      <3>5. ASSUME NEW y \in Clients, Publishing(y, p)'
            PROVE  p \in DOMAIN server' <=> proc'[y].req.op # "remove"
        <4>1. Publishing(y, p) /\ proc'[y] = proc[y]
          BY <3>3, <3>4, <3>5 DEF Publishing
        <4> QED BY <1>2, <4>1 DEF QueueOf
      <3>6. (\A y \in Clients : ~Publishing(y, p)') => (p \in DOMAIN server' <=> p \in Heard(c)')
        BY <1>2, <3>1, <3>4 DEF QueueOf
      <3>7. ASSUME NEW y \in Clients, proc'[y].pc \in {"fill", "publish"}
            PROVE  /\ proc'[y].req.op = "remove" /\ proc'[y].req.path \in Above(p)
                        => p \notin Heard(c)'
                   /\ proc'[y].req.op = "upload" /\ proc'[y].req.path \in Under(p)
                        => p \in Heard(c)'
        BY <3>1, <3>3, <3>7 DEF QueueOf
      <3> QED BY <2>7, <3>5, <3>6, <3>7 DEF QueueOf
    <2> QED BY <2>8, <2>9
  <1> QED BY <1>3, <1>4

\* A client does what it is told of a path its own user has not touched, and leaves it
\* alone when it is told of others.
LEMMA ConsumeForeign ==
  ASSUME TypeOK, PastInv, BlameInv, QueueInv, NEW c \in Clients, Consume(c), NEW p \in Foreign(c)
  PROVE  \E m \in Message :
           /\ m = Head(queue[c]) /\ queue[c] # <<>> /\ queue'[c] = Tail(queue[c])
           /\ m.path \in Paths
           /\ Fits(Tail(queue[c]), DOMAIN local'[c], p, RemovingMessages, MakingMessages)
           /\ (p \in DOMAIN local'[c] <=> p \in Step(m, DOMAIN local[c], MakingMessages))
           /\ (m.path # p => Alike(local[c], local'[c], p))
           /\ (m.path = p /\ m \in MakingMessages /\ p \in Files =>
                 consumer'[c].pc = "fetch" /\ consumer'[c].from = p)
  <1>1. p \in Kept /\ p \in Paths /\ p \notin past.moved
    BY DEF Foreign, Kept
  <1>2. PICK m \in MessagesFor(c) :
           /\ m = Head(queue[c]) /\ m \in Message /\ m.path \in Paths
           /\ Fitting(m, DOMAIN local[c], p, RemovingMessages, MakingMessages)
           /\ queue'[c] = Tail(queue[c])
    BY MessageFits
  <1>3. queue[c] # <<>> /\ queue[c] \in Seq(Message)
    BY DEF Consume, TypeOK
  <1>4. DOMAIN local[c] \in SUBSET Paths
    BY LocalTree
  <1>5. /\ p \in DOMAIN local'[c] <=> p \in Step(m, DOMAIN local[c], MakingMessages)
        /\ m.path # p => Alike(local[c], local'[c], p)
        /\ m.path = p /\ m \in MakingMessages /\ p \in Files =>
             consumer'[c].pc = "fetch" /\ consumer'[c].from = p
    <2>1. CASE m.event = "CREATE" /\ m.path \in Files /\ ConsumeNote(c, m.path)
      <3>1. PICK q \in Files : q = m.path /\ q \in Paths
        BY <1>2, <2>1
      <3>2. /\ local' = [local EXCEPT ![c] = CreateFile(@, q, Empty, 0)] /\ Empty \in Body
            /\ consumer'[c] = Consuming("fetch", q, q)
        BY <2>1, <3>1 DEF ConsumeNote, Body, TypeOK
      <3>3. m \in MakingMessages
        BY <1>2, <2>1 DEF MakingMessages, MessageKind
      <3>4. p \in Above(q) => p \in DOMAIN local[c]
        BY <1>1, <1>2, <3>1, <3>3, AboveUnder DEF Fitting
      <3>5. DOMAIN local'[c] = DOMAIN local[c] \cup {q} \cup Above(q)
        BY <3>2, LocalCreate
      <3>6. q # p => Alike(local[c], local'[c], p)
        BY <1>1, <3>2, <3>4, LocalCreate
      <3>7. p \in DOMAIN local'[c] <=> p \in Step(m, DOMAIN local[c], MakingMessages)
        BY <3>1, <3>3, <3>4, <3>5 DEF Step
      <3> QED BY <3>1, <3>2, <3>6, <3>7 DEF Consuming
    <2>2. CASE m.event = "CREATE" /\ m.path \in Dirs /\ ConsumeDir(c, m.path)
      <3>1. PICK d \in Dirs : d = m.path
        BY <2>2
      <3>2. local' = [local EXCEPT ![c] = MkDir(@, d, 0)]
        BY <2>2, <3>1 DEF ConsumeDir
      <3>3. m \in MakingMessages
        BY <1>2, <2>2 DEF MakingMessages, MessageKind
      <3>4. DOMAIN local'[c] = DOMAIN local[c] \cup {d}
        BY <3>2, LocalMkDir
      <3>5. d # p => Alike(local[c], local'[c], p)
        BY <1>1, <3>2, LocalMkDir
      <3>6. p \in DOMAIN local'[c] <=> p \in Step(m, DOMAIN local[c], MakingMessages)
        BY <3>1, <3>3, <3>4 DEF Step
      <3>7. p = d => p \notin Files
        BY DirOnTop
      <3> QED BY <3>1, <3>5, <3>6, <3>7
    <2>3. CASE m.event = "NECO_RENAME" /\ ConsumeRename(c, m.old, m.path)
      <3>1. PICK q \in Paths, o \in Paths : q = m.path /\ o = m.old
        BY <1>2, <2>3, MessageFields
      <3>2. p \notin Subtree(q) /\ p \notin Subtree(o)
        BY <1>1, <1>2, <2>3, <3>1, NoPathAssumption DEF MessagesFor, MessageKind, Moved
      <3>3. m \notin MakingMessages /\ p # q
        BY <2>3, <3>2 DEF MakingMessages, MessageKind, Subtree
      <3>4. CASE CanMove(local[c], o, q)
        <4>1. local' = [local EXCEPT ![c] = Move(@, o, q, 0)]
          BY <2>3, <3>1, <3>4 DEF ConsumeRename
        <4>2. Alike(local[c], local'[c], p)
          BY <1>1, <3>2, <3>4, <4>1, LocalMove
        <4> QED BY <3>1, <3>3, <4>2 DEF Alike, Step
      <3>5. CASE ~CanMove(local[c], o, q)
        <4>1. local' = local
          BY <2>3, <3>1, <3>5 DEF ConsumeRename
        <4> QED BY <3>1, <3>3, <4>1 DEF Alike, Step
      <3> QED BY <3>4, <3>5
    <2>4. CASE m.event = "REMOVE" /\ ConsumeRemove(c, m.path)
      <3>1. PICK q \in Paths : q = m.path
        BY <1>2
      <3>2. local' = [local EXCEPT ![c] = Rm(@, q, 0)]
        BY <2>4, <3>1 DEF ConsumeRemove
      <3>3. m \notin MakingMessages /\ m \in RemovingMessages
        BY <1>2, <2>4 DEF MakingMessages, RemovingMessages, MessageKind
      <3>4. p \in Subtree(q) => p = q \/ p \notin DOMAIN local[c]
        BY <1>1, <1>2, <3>1, <3>3, AboveUnder DEF Fitting, Subtree
      <3>5. DOMAIN local'[c] = DOMAIN local[c] \ Subtree(q)
        BY <3>2, LocalRm
      <3>6. q # p => Alike(local[c], local'[c], p)
        BY <1>1, <3>2, <3>4, LocalRm
      <3>7. q \in Subtree(q)
        BY DEF Subtree
      <3>8. p \in DOMAIN local'[c] <=> p \in Step(m, DOMAIN local[c], MakingMessages)
        BY <3>1, <3>3, <3>4, <3>5, <3>7 DEF Step
      <3> QED BY <3>1, <3>3, <3>6, <3>8
    <2> QED BY <1>2, <2>1, <2>2, <2>3, <2>4 DEF Consume
  <1>6. Fits(Tail(queue[c]), DOMAIN local'[c], p, RemovingMessages, MakingMessages)
    <2>0. DOMAIN local[c] \subseteq Paths
      BY <1>4
    <2>1. PICK D, s, E : D = DOMAIN local[c] /\ s = queue[c] /\ E = DOMAIN local'[c]
      OBVIOUS
    <2>2. Fits(s, D, p, RemovingMessages, MakingMessages)
      BY <2>1 DEF QueueInv, QueueOf
    <2>3. Fits(Tail(s), Step(m, D, MakingMessages), p, RemovingMessages, MakingMessages)
      BY <1>2, <1>3, <2>0, <2>1, <2>2, FitsTail
    <2>4. p \in E <=> p \in Step(m, D, MakingMessages)
      BY <1>5, <2>1
    <2>5. Fits(Tail(s), E, p, RemovingMessages, MakingMessages)
      BY <1>1, <2>3, <2>4, FitsSame
    <2> QED BY <2>1, <2>5
  <1> QED BY <1>2, <1>3, <1>5, <1>6

LEMMA QueueConsume ==
  ASSUME TypeOK, PastInv, BlameInv, QueueInv, NEW c \in Clients, NEW p \in Foreign(c),
         QueueOf(c, p), Consume(c)
  PROVE  QueueOf(c, p)'
  <1>1. PICK m \in Message :
           /\ m = Head(queue[c]) /\ queue[c] # <<>> /\ queue'[c] = Tail(queue[c])
           /\ Fits(Tail(queue[c]), DOMAIN local'[c], p, RemovingMessages, MakingMessages)
           /\ (p \in DOMAIN local'[c] <=> p \in Step(m, DOMAIN local[c], MakingMessages))
    BY ConsumeForeign
  <1>2. UNCHANGED <<server, proc>> /\ p \in Paths
    BY DEF Consume, Foreign, Kept
  <1>3. p \in Heard(c)' <=> p \in Heard(c)
    <2>0. queue[c] \in Seq(Message)
      BY DEF TypeOK
    <2>1. PICK D, s, E : D = DOMAIN local[c] /\ s = queue[c] /\ E = DOMAIN local'[c]
      OBVIOUS
    <2>2. Final(Tail(s), Step(m, D, MakingMessages), MakingMessages) = Final(s, D, MakingMessages)
      BY <1>1, <2>0, <2>1, AfterTail
    <2>3. p \in E <=> p \in Step(m, D, MakingMessages)
      BY <1>1, <2>1
    <2>4. p \in Final(Tail(s), E, MakingMessages)
            <=> p \in Final(Tail(s), Step(m, D, MakingMessages), MakingMessages)
      BY <1>2, <2>3, FitsSame
    <2> QED BY <1>1, <2>1, <2>2, <2>4 DEF Heard
  <1>4. \A y \in Clients : Publishing(y, p)' <=> Publishing(y, p)
    BY <1>2 DEF Publishing
  <1> QED BY <1>1, <1>2, <1>3, <1>4 DEF QueueOf

\* Steps that announce nothing and change the directories of p nowhere.
LEMMA QueueQuiet ==
  ASSUME TypeOK, PastInv, BlameInv, FileInv, FillInv, DirInv, NEW c \in Clients, NEW p \in Foreign(c),
         p \notin past'.lost, p \notin past'.moved, c \notin past'.touched[p], QueueOf(c, p),
         NEW x \in Clients, Moves(x), ~Handle(x), ~Publish(x), Consume(x) => c # x
  PROVE  QueueOf(c, p)'
  <1>1. p \in Kept /\ p \in Paths
    BY DEF Foreign, Kept
  <1>2. p \in DOMAIN server' <=> p \in DOMAIN server
    <2>1. Fill(x) => DOMAIN server' = DOMAIN server
      BY FillSteps
    <2> QED BY <2>1, ServerKept
  <1>3. queue'[c] = queue[c]
    <2>1. CASE c # x
      BY <2>1, OthersKept
    <2>2. CASE c = x
      BY <2>2, UserKeeps DEF Moves, Client, Server, Watch, Release, Process, Consume, ConsumeAdd,
         ConsumeCopy, ExpireIgnore, Fill, Fail
    <2> QED BY <2>1, <2>2
  <1>4. p \in DOMAIN local'[c] <=> p \in DOMAIN local[c]
    <2>1. CASE c # x
      BY <2>1, OthersKept DEF SameClient
    <2>2. CASE c = x /\ User(c)
      <3>1. Spared(c, p)
        BY <1>1, <2>2, UserSpares
      <3> QED BY <3>1 DEF Spared, Alike
    <2>3. CASE c = x /\ ConsumeCopy(c)
      BY <1>1, <2>3, CopySpares
    <2>4. CASE c = x /\ ~User(c) /\ ~ConsumeCopy(c)
      <3>1. local' = local
        BY <2>4 DEF Moves, Client, Server, Watch, Release, Process, Consume, ConsumeAdd,
           ExpireIgnore, Fill, Fail
      <3> QED BY <3>1
    <2> QED BY <2>1, <2>2, <2>3, <2>4
  <1>5. ASSUME NEW y \in Clients
        PROVE  \/ proc'[y] = proc[y]
               \/ proc[y].pc = "fill" /\ proc'[y].pc = "publish" /\ proc'[y].req = proc[y].req
               \/ proc'[y].pc \notin {"fill", "publish"} /\ ~Publishing(y, p)
    <2>1. CASE y # x
      BY <2>1, OthersKept DEF SameClient
    <2>2. CASE y = x /\ Process(y)
      <3>1. proc[y].pc = "idle" /\ (proc'[y] = proc[y] \/ proc'[y].pc = "send")
        BY <2>2, ProcessCases
      <3> QED BY <3>1 DEF Publishing
    <2>3. CASE y = x /\ Fail(y)
      <3>1. proc'[y] = Idle /\ proc[y].pc # "idle"
        BY <2>3 DEF Fail, TypeOK
      <3>2. past'.lost = past.lost \cup
              UNION {Around(q) : q \in Paths \cap {proc[y].req.path, proc[y].req.old}}
        BY <2>3 DEF Fail, TypeOK, Past
      <3>3. p \in Around(p)
        BY DEF Around, Subtree
      <3>4. proc[y].req.path # p
        BY <1>1, <3>2, <3>3
      <3> QED BY <3>1, <3>4 DEF Publishing, Idle
    <2>4. CASE y = x /\ Fill(y)
      BY <2>4, FillSteps
    <2>5. CASE y = x /\ ~Process(y) /\ ~Fill(y) /\ ~Fail(y)
      <3>1. proc' = proc
        BY <2>5, UserKeeps DEF Moves, Client, Server, Watch, Release, Consume, ConsumeAdd,
           ConsumeCopy, ExpireIgnore
      <3> QED BY <3>1
    <2> QED BY <2>1, <2>2, <2>3, <2>4, <2>5
  <1> QED BY <1>1, <1>2, <1>3, <1>4, <1>5, QueueSame

LEMMA QueueHandle ==
  ASSUME TypeOK, PastInv, BlameInv, LineInv, FillInv, NEW c \in Clients, NEW p \in Foreign(c),
         QueueOf(c, p), NEW x \in Clients, Handle(x)
  PROVE  QueueOf(c, p)'
  <1>1. p \in Kept /\ p \in Paths
    BY DEF Foreign, Kept
  <1>2. PICK r \in RequestsOf(x) :
          /\ r = proc[x].req /\ proc[x].pc = "send"
          /\ UNCHANGED <<local, queue>>
          /\ \A y \in Clients \ {x} : proc'[y] = proc[y]
          /\ \/ server' = server /\ proc'[x] = Idle
             \/ proc'[x].pc \in {"fill", "publish"} /\ proc'[x].req = r
    BY HandleCases
  <1>3. CASE proc'[x] = Idle
    <2>1. server' = server
      BY <1>2, <1>3 DEF Idle
    <2> QED BY <1>1, <1>2, <1>3, <2>1, QueueSame DEF Idle, Publishing
  <1>4. CASE proc'[x] # Idle /\ x \in past.touched[p]
    BY <1>4, QueueServed
  <1>5. CASE proc'[x] # Idle /\ x \notin past.touched[p]
    <2>1. Alike(server, server', p)
      BY <1>1, <1>5, ServerAlike DEF Moves, Server
    <2>2. /\ r.path # p /\ r.path \notin Under(p)
          /\ r.op = "remove" => r.path \notin Above(p)
      BY <1>1, <1>2, <1>5, PublishedApart
    <2>3. proc'[x].pc \in {"fill", "publish"} /\ proc'[x].req = r
      BY <1>2, <1>5
    <2>4. p \in Heard(c)' <=> p \in Heard(c)
      BY <1>2 DEF Heard
    <2>5. p \in DOMAIN server' <=> p \in DOMAIN server
      BY <2>1 DEF Alike
    <2>6. ~Publishing(x, p) /\ ~Publishing(x, p)'
      BY <1>2, <2>2, <2>3 DEF Publishing
    <2>7. \A y \in Clients : Publishing(y, p)' <=> Publishing(y, p)
      BY <1>2, <2>6 DEF Publishing
    <2>8. ASSUME NEW y \in Clients, Publishing(y, p)'
          PROVE  p \in DOMAIN server' <=> proc'[y].req.op # "remove"
      <3>1. y # x /\ Publishing(y, p)
        BY <2>6, <2>7, <2>8
      <3> QED BY <1>2, <2>5, <3>1 DEF QueueOf
    <2>9. (\A y \in Clients : ~Publishing(y, p)') => (p \in DOMAIN server' <=> p \in Heard(c)')
      BY <2>4, <2>5, <2>7 DEF QueueOf
    <2>10. ASSUME NEW y \in Clients, proc'[y].pc \in {"fill", "publish"}
           PROVE  /\ proc'[y].req.op = "remove" /\ proc'[y].req.path \in Above(p)
                       => p \notin Heard(c)'
                  /\ proc'[y].req.op = "upload" /\ proc'[y].req.path \in Under(p)
                       => p \in Heard(c)'
      <3>1. CASE y = x
        BY <2>2, <2>3, <3>1
      <3>2. CASE y # x
        BY <1>2, <2>4, <2>10, <3>2 DEF QueueOf
      <3> QED BY <3>1, <3>2
    <2>11. Fits(queue'[c], DOMAIN local'[c], p, RemovingMessages, MakingMessages)
      BY <1>2 DEF QueueOf
    <2> QED BY <2>8, <2>9, <2>10, <2>11 DEF QueueOf
  <1> QED BY <1>3, <1>4, <1>5

\* At every step the queue of a client says what the server has of others' paths.
LEMMA NextQueue ==
  ASSUME TypeOK, PastInv, BlameInv, FileInv, LineInv, FillInv, QueueInv, DirInv,
         NEW x \in Clients, Moves(x)
  PROVE  QueueInv'
  <1>1. ASSUME NEW c \in Clients, NEW p \in Foreign(c)' PROVE QueueOf(c, p)'
    <2>1. p \in Foreign(c) /\ p \notin past'.lost /\ p \notin past'.moved
          /\ c \notin past'.touched[p] /\ QueueOf(c, p)
      <3>1. p \in Foreign(c)
        BY <1>1, StepGrows, KeptShrinks DEF Moves
      <3> QED BY <1>1, <3>1 DEF Foreign, Kept, QueueInv
    <2>2. CASE Handle(x)
      BY <2>1, <2>2, QueueHandle
    <2>3. CASE Publish(x)
      BY <2>1, <2>3, QueuePublish
    <2>4. CASE Consume(x) /\ c = x
      BY <2>1, <2>4, QueueConsume
    <2> QED BY <2>1, <2>2, <2>3, <2>4, QueueQuiet
  <1> QED BY <1>1 DEF QueueInv

-----------------------------------------------------------------------------
(* ... contents included.                                                    *)

\* Nothing changes what is there, what is queued and what is being fetched.
LEMMA CopySame ==
  ASSUME NEW c \in Clients, NEW p \in Files, CopyOf(c, p),
         Alike(local[c], local'[c], p), Alike(server, server', p),
         About(queue[c], p, MakingMessages) => About(queue'[c], p, MakingMessages),
         \A y \in Clients : Publishing(y, p) /\ proc[y].req.op = "upload" =>
            \/ Publishing(y, p)' /\ proc'[y].req.op = "upload"
            \/ About(queue'[c], p, MakingMessages),
         consumer[c].pc = "fetch" /\ consumer[c].from = p =>
           consumer'[c].pc = "fetch" /\ consumer'[c].from = p
  PROVE  CopyOf(c, p)'
  <1>1. SUFFICES ASSUME p \in DOMAIN local'[c], p \in DOMAIN server'
                 PROVE  \/ local'[c][p].body = server'[p].body
                        \/ About(queue'[c], p, MakingMessages)
                        \/ \E y \in Clients : Publishing(y, p)' /\ proc'[y].req.op = "upload"
                        \/ consumer'[c].pc = "fetch" /\ consumer'[c].from = p
    BY DEF CopyOf
  <1>2. p \in DOMAIN local[c] /\ p \in DOMAIN server
    BY <1>1 DEF Alike
  <1>3. CASE local[c][p].body = server[p].body
    BY <1>2, <1>3 DEF Alike
  <1>4. CASE \E y \in Clients : Publishing(y, p) /\ proc[y].req.op = "upload"
    BY <1>4
  <1> QED BY <1>2, <1>3, <1>4 DEF CopyOf

LEMMA CopyHandle ==
  ASSUME TypeOK, PastInv, BlameInv, LineInv, FillInv, NEW c \in Clients, NEW p \in Foreign(c) \cap Files,
         CopyOf(c, p), NEW x \in Clients, Handle(x)
  PROVE  CopyOf(c, p)'
  <1>1. p \in Kept /\ p \in Paths /\ p \in Files /\ p \notin Dirs /\ p \notin past.moved
    BY DEF Foreign, Kept, Files
  <1>2. PICK r \in RequestsOf(x) :
          /\ r = proc[x].req /\ proc[x].pc = "send" /\ r \in Request
          /\ UNCHANGED <<local, queue, consumer>>
          /\ \A y \in Clients \ {x} : proc'[y] = proc[y]
          /\ \/ Refused(server, r) /\ server' = server
             \/ /\ ~Refused(server, r) /\ server' = Serve(server, r)
                /\ proc'[x].pc \in {"fill", "publish"} /\ proc'[x].req = r
    BY HandleCases
  <1>3. \A y \in Clients : Publishing(y, p) /\ proc[y].req.op = "upload" =>
            Publishing(y, p)' /\ proc'[y].req.op = "upload"
    BY <1>2 DEF Publishing
  <1>4. Alike(local[c], local'[c], p)
    BY <1>2 DEF Alike
  <1>5. ASSUME Alike(server, server', p) PROVE CopyOf(c, p)'
    BY <1>1, <1>2, <1>3, <1>4, <1>5, CopySame
  <1>6. CASE Refused(server, r) /\ server' = server
    BY <1>5, <1>6 DEF Alike
  <1>7. CASE /\ ~Refused(server, r) /\ server' = Serve(server, r)
             /\ proc'[x].pc \in {"fill", "publish"} /\ proc'[x].req = r
    <2>1. CASE x \notin past.touched[p]
      BY <1>1, <1>5, <2>1, ServerAlike DEF Moves, Server
    <2>2. CASE x \in past.touched[p] /\ r.path # p
      <3>1. p \in Own(x)
        BY <1>1, <2>2, OneToucher
      <3>2. LineOf(x, p)
        BY <3>1 DEF LineInv
      <3>3. Alike(server, server', p)
        BY <1>2, <1>7, <2>2, <3>1, <3>2, ServeOwn
      <3> QED BY <1>5, <3>3
    <2>3. CASE r.path = p
      <3>1. r.op \notin {"rename", "mkdir"}
        BY <1>1, <2>3, NoPathAssumption DEF RequestsOf, RequestKind, Moved, Subtree
      <3>2. CASE r.op = "upload"
        BY <1>7, <2>3, <3>2 DEF CopyOf, Publishing
      <3>3. CASE r.op = "remove"
        <4>1. p \notin DOMAIN server'
          BY <1>7, <2>3, <3>3, ServeDomain DEF Subtree
        <4> QED BY <4>1 DEF CopyOf
      <3> QED BY <1>2, <3>1, <3>2, <3>3, RequestFields
    <2> QED BY <2>1, <2>2, <2>3
  <1> QED BY <1>2, <1>6, <1>7

\* What is in the note is new to those who have copied it too early, and it is announced.
LEMMA CopyFill ==
  ASSUME TypeOK, BlameInv, FillInv, NEW c \in Clients, NEW p \in Foreign(c) \cap Files,
         CopyOf(c, p), NEW x \in Clients, Fill(x)
  PROVE  CopyOf(c, p)'
  <1>1. p \in Kept /\ p \in Paths /\ p \in Files
    BY DEF Foreign, Kept, Files
  <1>2. PICK r \in RequestsOf(x) :
          /\ r = proc[x].req /\ proc[x].pc = "fill"
          /\ UNCHANGED <<local, queue, consumer>>
          /\ \A y \in Clients \ {x} : proc'[y] = proc[y]
          /\ proc'[x].pc = "publish" /\ proc'[x].req = r
          /\ \A q \in Paths : q # filling[x] => Alike(server, server', q)
    BY FillSteps
  <1>3. CASE r.path = p
    <2>1. r.op = "upload"
      BY <1>2 DEF FillInv, FillOf
    <2>2. Publishing(x, p)' /\ proc'[x].req.op = "upload"
      BY <1>2, <1>3, <2>1 DEF Publishing
    <2> QED BY <2>2 DEF CopyOf
  <1>4. CASE r.path # p
    <2>1. filling[x] # p
      BY <1>1, <1>2, <1>4, FillApart
    <2>2. Alike(server, server', p) /\ Alike(local[c], local'[c], p)
      BY <1>1, <1>2, <2>1 DEF Alike
    <2>3. \A y \in Clients : Publishing(y, p) /\ proc[y].req.op = "upload" =>
            Publishing(y, p)' /\ proc'[y].req.op = "upload"
      BY <1>2, <1>4 DEF Publishing
    <2> QED BY <1>1, <1>2, <2>2, <2>3, CopySame
  <1> QED BY <1>3, <1>4

LEMMA CopyPublish ==
  ASSUME TypeOK, PastInv, BlameInv, NEW c \in Clients, NEW p \in Foreign(c) \cap Files,
         CopyOf(c, p), NEW x \in Clients, Publish(x)
  PROVE  CopyOf(c, p)'
  <1>1. p \in Kept /\ p \in Paths /\ p \in Files /\ c \notin past.touched[p]
    BY DEF Foreign, Kept, Files
  <1>2. PICK m \in Message :
           /\ UNCHANGED <<server, local, consumer>> /\ proc[x].pc = "publish"
           /\ m.path = proc[x].req.path
           /\ (m \in MakingMessages <=> proc[x].req.op \in {"upload", "mkdir"})
           /\ queue'[x] = queue[x]
           /\ \A y \in Clients \ {x} :
                proc'[y] = proc[y] /\ queue'[y] = Append(queue[y], m)
    BY PublishSteps
  <1>3. queue[c] \in Seq(Message)
    BY DEF TypeOK
  <1>4. About(queue[c], p, MakingMessages) => About(queue'[c], p, MakingMessages)
    BY <1>2, <1>3, AboutAppend
  <1>5. Publishing(x, p) /\ proc[x].req.op = "upload" => About(queue'[c], p, MakingMessages)
    <2>1. Publishing(x, p) => c # x
      BY <1>1, <1>2, PublishedApart DEF Publishing
    <2> QED BY <1>2, <1>3, <2>1, AboutAppend DEF Publishing
  <1>6. ASSUME NEW y \in Clients, Publishing(y, p), proc[y].req.op = "upload"
        PROVE  \/ Publishing(y, p)' /\ proc'[y].req.op = "upload"
               \/ About(queue'[c], p, MakingMessages)
    BY <1>2, <1>5, <1>6 DEF Publishing
  <1>7. Alike(local[c], local'[c], p) /\ Alike(server, server', p)
    BY <1>2 DEF Alike
  <1> QED BY <1>1, <1>2, <1>4, <1>6, <1>7, CopySame

LEMMA CopyConsume ==
  ASSUME TypeOK, PastInv, BlameInv, QueueInv, NEW c \in Clients, NEW p \in Foreign(c) \cap Files,
         CopyOf(c, p), Consume(c)
  PROVE  CopyOf(c, p)'
  <1>1. p \in Foreign(c) /\ p \in Files
    OBVIOUS
  <1>2. PICK m \in Message :
           /\ m = Head(queue[c]) /\ queue[c] # <<>> /\ queue'[c] = Tail(queue[c])
           /\ (p \in DOMAIN local'[c] <=> p \in Step(m, DOMAIN local[c], MakingMessages))
           /\ (m.path # p => Alike(local[c], local'[c], p))
           /\ (m.path = p /\ m \in MakingMessages /\ p \in Files =>
                 consumer'[c].pc = "fetch" /\ consumer'[c].from = p)
    BY <1>1, ConsumeForeign
  <1>3. UNCHANGED <<server, proc>> /\ consumer[c].pc = "idle" /\ queue[c] \in Seq(Message)
    BY DEF Consume, TypeOK
  <1>4. CASE m.path = p /\ m \in MakingMessages
    BY <1>1, <1>2, <1>4 DEF CopyOf
  <1>5. CASE m.path = p /\ m \notin MakingMessages
    BY <1>2, <1>5 DEF CopyOf, Step
  <1>6. CASE m.path # p
    <2>1. About(queue[c], p, MakingMessages) => About(queue'[c], p, MakingMessages)
      BY <1>2, <1>3, <1>6, AboutTail
    <2>2. Alike(server, server', p)
      BY <1>3 DEF Alike
    <2>3. \A y \in Clients : Publishing(y, p)' <=> Publishing(y, p)
      BY <1>3 DEF Publishing
    <2> QED BY <1>1, <1>2, <1>3, <1>6, <2>1, <2>2, <2>3, CopySame
  <1> QED BY <1>4, <1>5, <1>6

\* A client has the contents the server has of others' notes, or is about to fetch them.
LEMMA NextCopy ==
  ASSUME TypeOK, PastInv, BlameInv, FileInv, HearsayInv, LineInv, FillInv, QueueInv, CopyInv,
         DirInv,
         NEW x \in Clients, Moves(x)
  PROVE  CopyInv'
  <1>1. ASSUME NEW c \in Clients, NEW p \in Foreign(c)' \cap Files PROVE CopyOf(c, p)'
    <2>1. p \in Foreign(c) \cap Files /\ p \in Files /\ p \in Paths /\ p \in Kept
          /\ p \notin past'.lost /\ p \notin past'.moved /\ c \notin past'.touched[p]
          /\ CopyOf(c, p) /\ HearsayOf(c, p)
      <3>1. p \in Foreign(c)
        BY <1>1, StepGrows, KeptShrinks DEF Moves
      <3> QED BY <1>1, <3>1 DEF Foreign, Kept, CopyInv, HearsayInv
    <2>2. CASE Handle(x)
      BY <2>1, <2>2, CopyHandle
    <2>3. CASE Publish(x)
      BY <2>1, <2>3, CopyPublish
    <2>4. CASE Consume(x) /\ c = x
      BY <2>1, <2>4, CopyConsume
    <2>5. CASE Fill(x)
      BY <2>1, <2>5, CopyFill
    <2>6. CASE ~Handle(x) /\ ~Fill(x) /\ ~Publish(x) /\ ~(Consume(x) /\ c = x)
      <3>1. server' = server /\ Alike(server, server', p)
        BY <2>6, ServerKept DEF Alike
      <3>2. queue'[c] = queue[c]
        <4>1. CASE c # x
          BY <2>6, <4>1, OthersKept
        <4>2. CASE c = x
          BY <2>6, <4>2, UserKeeps DEF Moves, Client, Server, Watch, Release, Process, ConsumeAdd,
             ConsumeCopy, ExpireIgnore, Fail
        <4> QED BY <4>1, <4>2
      <3>3. ASSUME NEW y \in Clients, Publishing(y, p)
            PROVE  Publishing(y, p)' /\ proc'[y].req = proc[y].req
        <4>1. CASE y # x
          BY <3>3, <4>1, OthersKept DEF SameClient, Publishing
        <4>2. CASE y = x /\ Process(y)
          BY <3>3, <4>2 DEF Process, Publishing
        <4>3. CASE y = x /\ Fail(y)
          <5>1. past'.lost = past.lost \cup
                  UNION {Around(q) : q \in Paths \cap {proc[y].req.path, proc[y].req.old}}
            BY <4>3 DEF Fail, TypeOK, Past
          <5>2. p \in Around(p)
            BY DEF Around, Subtree
          <5> QED BY <2>1, <3>3, <5>1, <5>2 DEF Publishing
        <4>4. CASE y = x /\ ~Process(y) /\ ~Fail(y)
          <5>1. proc' = proc
            BY <2>6, <4>4, UserKeeps DEF Moves, Client, Server, Watch, Release, Consume, ConsumeAdd,
               ConsumeCopy, ExpireIgnore
          <5> QED BY <3>3, <5>1 DEF Publishing
        <4> QED BY <4>1, <4>2, <4>3, <4>4
      <3>4. ASSUME Alike(local[c], local'[c], p),
                   consumer[c].pc = "fetch" /\ consumer[c].from = p =>
                     consumer'[c].pc = "fetch" /\ consumer'[c].from = p
            PROVE  CopyOf(c, p)'
        <4>1. \A y \in Clients : Publishing(y, p) /\ proc[y].req.op = "upload" =>
                Publishing(y, p)' /\ proc'[y].req.op = "upload"
          BY <3>3
        <4> QED BY <2>1, <3>1, <3>2, <3>4, <4>1, CopySame
      <3>5. CASE c # x
        <4>1. local'[c] = local[c] /\ consumer'[c] = consumer[c]
          BY <3>5, OthersKept DEF SameClient
        <4> QED BY <3>4, <4>1 DEF Alike
      <3>6. CASE c = x /\ User(c)
        <4>1. Spared(c, p)
          BY <2>1, <3>6, UserSpares
        <4>2. consumer'[c].pc = consumer[c].pc /\ consumer'[c].from = consumer[c].from
          BY <3>6, UserFile
        <4> QED BY <3>4, <4>1, <4>2 DEF Spared
      <3>7. CASE c = x /\ ConsumeCopy(c)
        <4>1. CASE consumer[c].from = p
          <5>1. consumer[c].file = p
            BY <2>1, <3>7, <4>1 DEF HearsayOf, ConsumeCopy
          <5>2. local'[c][p].body = IF p \in DOMAIN server THEN server[p].body ELSE ErrorPage
            BY <2>1, <3>7, <4>1, <5>1, CopySpares
          <5> QED BY <3>1, <5>2 DEF CopyOf
        <4>2. CASE consumer[c].from # p
          <5>1. consumer[c].file # p
            BY <2>1, <4>2 DEF HearsayOf
          <5>2. Alike(local[c], local'[c], p)
            BY <2>1, <3>7, <5>1, CopySpares
          <5> QED BY <3>4, <4>2, <5>2
        <4> QED BY <4>1, <4>2
      <3>8. CASE c = x /\ ConsumeAdd(c)
        <4>1. local' = local /\ consumer[c].pc # "fetch"
          BY <3>8 DEF ConsumeAdd
        <4> QED BY <3>4, <4>1 DEF Alike
      <3>9. CASE c = x /\ ~User(c) /\ ~ConsumeCopy(c) /\ ~ConsumeAdd(c)
        <4>1. local' = local /\ consumer' = consumer
          BY <2>6, <3>9 DEF Moves, Client, Server, Watch, Release, Process, ExpireIgnore, Fail
        <4> QED BY <3>4, <4>1 DEF Alike
      <3> QED BY <3>5, <3>6, <3>7, <3>8, <3>9
    <2> QED BY <2>2, <2>3, <2>4, <2>5, <2>6
  <1> QED BY <1>1 DEF CopyInv

-----------------------------------------------------------------------------
(* The invariant holds at first, and every step keeps it.                   *)

\* At the start every directory is the server's, and nothing has happened.
LEMMA InitPaths ==
  ASSUME Init
  PROVE  /\ DOMAIN server \in SUBSET Paths
         /\ \A c \in Clients :
              /\ local[c] = server
              /\ events[c] = <<>> /\ channel[c] = <<>> /\ queue[c] = <<>>
              /\ held[c] = {} /\ ignored[c] = {} /\ proc[c] = Idle
              /\ consumer[c] = NotConsuming
              /\ watched[c] = {Root} \cup (Dirs \cap DOMAIN server)
         /\ \A p \in Paths : past.touched[p] = {}
         /\ past.lost = {} /\ past.unseen = {} /\ past.moved = {}
         /\ \A p \in DOMAIN server : Above(p) \subseteq DOMAIN server
  <1>1. PICK S \in SUBSET Paths :
          /\ \A p \in S : Above(p) \subseteq S
          /\ server = [p \in S |-> [body |-> IF p \in Dirs THEN NoBody ELSE 0, mtime |-> 0]]
    BY DEF Init
  <1>2. DOMAIN server = S
    BY <1>1
  <1> QED BY <1>1, <1>2 DEF Init

LEMMA InitLine ==
  ASSUME Init, NEW c \in Clients, NEW p \in Own(c)
  PROVE  LineOf(c, p)
  <1>1. p \in Paths
    BY DEF Own, Kept
  <1>2. PICK D \in SUBSET Paths, W \in SUBSET (Dirs \cup {Root}) :
          /\ D = DOMAIN server /\ W = {Root} \cup (Dirs \cap D)
          /\ \A q \in D : Above(q) \subseteq D
    BY InitPaths
  <1>3. /\ Sent(c) = D /\ channel[c] = <<>> /\ held[c] = {} /\ events[c] = <<>>
        /\ DOMAIN local[c] = D /\ watched[c] = W /\ past.unseen = {} /\ proc[c].pc # "send"
    BY <1>2, InitPaths DEF Sent, Idle
  <1>4. /\ Fits(<<>>, D, p, Removing, Making) /\ Final(<<>>, D, Making) = D
        /\ {} \cup D = D
    BY NoneFits
  <1>5. p \in D => Parent(p) \in W
    BY <1>1, <1>2, AboveIsParent
  <1>6. Line(p, D, <<>>, {}, <<>>, D, W, {})
    BY <1>4, <1>5 DEF Line
  <1> QED BY <1>3, <1>6 DEF LineOf

LEMMA InitQueue ==
  ASSUME Init, NEW c \in Clients, NEW p \in Foreign(c)
  PROVE  QueueOf(c, p)
  <1>1. PICK D \in SUBSET Paths : D = DOMAIN server
    BY InitPaths
  <1>2. queue[c] = <<>> /\ DOMAIN local[c] = D /\ \A y \in Clients : proc[y].pc \notin {"fill", "publish"}
    BY <1>1, InitPaths DEF Idle
  <1>3. /\ Fits(<<>>, D, p, RemovingMessages, MakingMessages)
        /\ Final(<<>>, D, MakingMessages) = D
    BY NoneFits
  <1>4. Heard(c) = D
    BY <1>2, <1>3 DEF Heard
  <1> QED BY <1>1, <1>2, <1>3, <1>4 DEF QueueOf, Publishing

\* The invariant holds at first,
LEMMA InitIInv == Init => IInv
  <1> SUFFICES ASSUME Init PROVE IInv
    OBVIOUS
  <1>1. TypeOK
    BY InitType
  <1>2. PastInv
    BY InitPaths DEF PastInv
  <1>3. BlameInv
    <2>1. ASSUME NEW c \in Clients PROVE BlameOf(c)
      <3>1. /\ <<>> \in Seq(EventsOf(c)) /\ <<>> \in Seq(ItemsOf(c))
            /\ <<>> \in Seq(MessagesFor(c))
        OBVIOUS
      <3>2. /\ events[c] = <<>> /\ channel[c] = <<>> /\ queue[c] = <<>>
            /\ held[c] = {} /\ proc[c].pc = "idle"
        BY InitPaths DEF Idle
      <3> QED BY <3>1, <3>2 DEF BlameOf
    <2> QED BY <2>1 DEF BlameInv
  <1>4. FileInv
    BY InitPaths DEF FileInv, FileOf, NotConsuming
  <1>5. HearsayInv
    <2>1. ASSUME NEW c \in Clients, NEW p \in Kept PROVE HearsayOf(c, p)
      BY InitPaths, NoPathAssumption DEF HearsayOf, NotConsuming, Kept
    <2> QED BY <2>1 DEF HearsayInv
  <1>6. LineInv
    BY InitLine DEF LineInv
  <1>7. BodyInv
    BY InitPaths DEF BodyInv, BodyOf, Writing, Idle
  <1>8. QueueInv
    BY InitQueue DEF QueueInv
  <1>9. CopyInv
    BY InitPaths DEF CopyInv, CopyOf
  <1>10. DirInv
    BY InitPaths DEF DirInv, DirOf
  <1>11. FillInv
    BY InitPaths DEF FillInv, FillOf, Idle
  <1> QED BY <1>1, <1>2, <1>3, <1>4, <1>5, <1>6, <1>7, <1>8, <1>9, <1>10, <1>11 DEF IInv

\* ... when nothing happens,
LEMMA IInvStill == IInv /\ UNCHANGED vars => IInv'
  <1> SUFFICES ASSUME IInv, UNCHANGED vars PROVE IInv'
    OBVIOUS
  <1>1. UNCHANGED <<server, filling, local, watched, events, held, channel, proc, queue, consumer,
                    ignored, past>>
    BY DEF vars, client
  <1>2. TypeOK'
    BY NextType DEF IInv
  <1>3. Kept' = Kept /\ \A c \in Clients : /\ Own(c)' = Own(c) /\ Foreign(c)' = Foreign(c)
                                           /\ TouchedBy(c)' = TouchedBy(c)
    BY <1>1 DEF Kept, Own, Foreign, TouchedBy
  <1>4. PastInv'
    BY <1>1 DEF IInv, PastInv
  <1>5. BlameInv'
    <2>1. Grew
      BY <1>1 DEF Grew
    <2>2. ASSUME NEW c \in Clients
          PROVE  /\ events[c] \in Seq(EventsOf(c)') /\ channel[c] \in Seq(ItemsOf(c)')
                 /\ queue[c] \in Seq(MessagesFor(c)')
                 /\ proc[c].pc # "idle" => proc[c].req \in RequestsOf(c)'
      <3>1. /\ EventsOf(c) \subseteq EventsOf(c)' /\ ItemsOf(c) \subseteq ItemsOf(c)'
            /\ RequestsOf(c) \subseteq RequestsOf(c)' /\ MessagesFor(c) \subseteq MessagesFor(c)'
        BY <1>1, <2>1, BlamesGrow
      <3> QED BY <3>1, EveryInSeq DEF IInv, BlameInv, BlameOf
    <2> QED BY <1>1, <1>3, <2>2 DEF IInv, BlameInv, BlameOf
  <1>6. FileInv'
    BY <1>1, <1>3 DEF IInv, FileInv, FileOf
  <1>7. HearsayInv'
    BY <1>1, <1>3 DEF IInv, HearsayInv, HearsayOf
  <1>8. LineInv'
    BY <1>1, <1>3 DEF IInv, LineInv, LineOf, Sent
  <1>9. BodyInv'
    BY <1>1, <1>3 DEF IInv, BodyInv, BodyOf, Writing, Retold
  <1>10. QueueInv'
    BY <1>1, <1>3 DEF IInv, QueueInv, QueueOf, Heard, Publishing
  <1>11. CopyInv'
    BY <1>1, <1>3 DEF IInv, CopyInv, CopyOf, Publishing
  <1>12. DirInv'
    BY <1>1, <1>3 DEF IInv, DirInv, DirOf
  <1>13. FillInv'
    BY <1>1, <1>3 DEF IInv, FillInv, FillOf
  <1> QED BY <1>2, <1>4, <1>5, <1>6, <1>7, <1>8, <1>9, <1>10, <1>11, <1>12, <1>13 DEF IInv

\* ... and after every step of every client.
LEMMA NextIInv ==
  ASSUME Prompt
  PROVE  IInv /\ [Next]_vars => IInv'
  <1> SUFFICES ASSUME IInv, [Next]_vars PROVE IInv'
    OBVIOUS
  <1>1. CASE UNCHANGED vars
    BY <1>1, IInvStill
  <1>2. CASE Next
    <2>1. PICK x \in Clients : Moves(x)
      BY <1>2 DEF Next, Moves
    <2>2. /\ TypeOK /\ PastInv /\ BlameInv /\ FileInv /\ HearsayInv
          /\ LineInv /\ FillInv /\ BodyInv /\ QueueInv /\ CopyInv /\ DirInv
      BY DEF IInv
    <2>3. TypeOK'
      BY <2>2, NextType
    <2>4. PastInv' /\ BlameInv' /\ FileInv' /\ HearsayInv'
      BY <2>1, <2>2, NextPast, NextBlame, NextFile, NextHearsay
    <2>5. LineInv' /\ FillInv' /\ BodyInv' /\ DirInv'
      BY <2>1, <2>2, NextLine, NextFill, NextBody, NextDir
    <2>6. QueueInv' /\ CopyInv'
      BY <2>1, <2>2, NextQueue, NextCopy
    <2> QED BY <2>3, <2>4, <2>5, <2>6 DEF IInv
  <1> QED BY <1>1, <1>2

-----------------------------------------------------------------------------
(* What follows from it.                                                    *)

\* At rest, what the server has of a path is what every client has of it.
LEMMA AgreeAtRest ==
  ASSUME IInv, Quiet, NEW p \in Plain, NEW c \in Clients
  PROVE  p \in DOMAIN local[c] <=> p \in DOMAIN server
  <1>1. p \in Kept /\ p \in Paths /\ p \notin past.unseen
    BY DEF Plain, Kept
  <1>2. /\ events[c] = <<>> /\ held[c] = {} /\ channel[c] = <<>> /\ queue[c] = <<>>
        /\ \A y \in Clients : proc[y].pc = "idle"
    BY DEF Quiet
  <1>3. CASE p \in Own(c)
    <2>0. Sent(c) \in SUBSET Paths
      BY <1>2 DEF Sent, IInv, TypeOK, IsRooted, IsTree
    <2>1. PICK D, L, W, U :
            D = Sent(c) /\ L = DOMAIN local[c] /\ W = watched[c] /\ U = past.unseen
      OBVIOUS
    <2>2. Line(p, D, <<>>, {}, <<>>, L, W, U)
      BY <1>2, <1>3, <2>1 DEF IInv, LineInv, LineOf
    <2>3. Final(<<>>, D, Making) = D /\ {} \cup D = D
      BY <2>0, <2>1, NoneFits
    <2>4. p \in D => p \in L
      BY <2>2, <2>3 DEF Line
    <2>5. p \in L \ U => p \in D
      BY <2>2, <2>3 DEF Line
    <2>6. D = DOMAIN server
      BY <1>2, <2>1 DEF Sent
    <2> QED BY <1>1, <2>1, <2>4, <2>5, <2>6
  <1>4. CASE p \in Foreign(c)
    <2>1. PICK D \in SUBSET Paths : D = DOMAIN local[c]
      BY LocalTree DEF IInv
    <2>2. Heard(c) = D
      BY <1>2, <2>1, NoneFits DEF Heard
    <2>3. \A y \in Clients : ~Publishing(y, p)
      BY <1>2 DEF Publishing
    <2> QED BY <1>4, <2>1, <2>2, <2>3 DEF IInv, QueueInv, QueueOf
  <1> QED BY <1>1, <1>3, <1>4, KeptOwnForeign

\* ... and the same contents.
LEMMA SameAtRest ==
  ASSUME IInv, Quiet, NEW p \in Plain \cap Files \cap DOMAIN server, NEW c \in Clients,
         p \in DOMAIN local[c]
  PROVE  local[c][p].body = server[p].body
  <1>1. p \in Kept /\ p \in Files /\ p \notin past.unseen /\ p \in DOMAIN server
    BY DEF Plain, Kept
  <1>2. /\ events[c] = <<>> /\ held[c] = {} /\ channel[c] = <<>> /\ queue[c] = <<>>
        /\ consumer[c].pc = "idle" /\ \A y \in Clients : proc[y].pc = "idle"
    BY DEF Quiet
  <1>3. \A Mk : ~About(<<>>, p, Mk)
    BY DEF About
  <1>4. CASE p \in Own(c)
    <2>1. ~Retold(c, p)
      BY <1>2, <1>3 DEF Retold
    <2>2. BodyOf(c, p)
      BY <1>1, <1>4 DEF IInv, BodyInv
    <2> QED BY <1>1, <1>2, <2>1, <2>2 DEF BodyOf, Writing
  <1>5. CASE p \in Foreign(c)
    <2>1. CopyOf(c, p)
      BY <1>1, <1>5 DEF IInv, CopyInv
    <2> QED BY <1>1, <1>2, <1>3, <2>1 DEF CopyOf, Publishing
  <1> QED BY <1>1, <1>4, <1>5, KeptOwnForeign

\* At rest every directory that nothing special has happened to is watched.
LEMMA WatchedAtRest ==
  ASSUME IInv, Quiet, NEW c \in Clients, NEW p \in Plain \cap Dirs \cap DOMAIN local[c]
  PROVE  p \in watched[c]
  <1>1. p \in Kept
    BY DEF Plain, Kept
  <1>2. DirOf(c, p) /\ (p \in Own(c) \/ p \in Foreign(c))
    BY <1>1, KeptOwnForeign DEF IInv, DirInv
  <1>3. ~About(<<>>, p, Making)
    BY DEF About
  <1> QED BY <1>2, <1>3 DEF DirOf, Quiet

\* What is under way is no more than a repetition, unless it is the user's own work,
LEMMA BlamedRepeat ==
  ASSUME TypeOK, BlameInv
  PROVE  ListenersOnlyRepeat
  <1>1. ASSUME NEW c \in Clients, NEW p \in held[c] PROVE c \in past.touched[p]
    BY <1>1 DEF BlameInv, BlameOf, TouchedBy
  <1>2. ASSUME NEW c \in Clients, NEW i \in DOMAIN channel[c]
        PROVE  c \in past.touched[channel[c][i].path] \/ Repetition(channel[c][i])
    <2>1. channel[c] \in Seq(ItemsOf(c))
      BY DEF BlameInv, BlameOf
    <2>2. PICK e \in ItemsOf(c) : e = channel[c][i]
      BY <1>2, <2>1
    <2>3. /\ e \in Event /\ e.path \in Paths /\ e.path # NoPath /\ e.path \in Subtree(e.path)
          /\ Blames(c, EventKind(e), e.path, e.old)
          /\ e.op = "WRITE" => e.path \in Files
      BY EventFields, NoPathAssumption DEF ItemsOf, Subtree
    <2>4. CASE EventKind(e) = "make"
      <3>1. e.op \in {"CREATE", "WRITE"}
        BY <2>3, <2>4, KindOf
      <3> QED BY <2>2, <2>3, <2>4, <3>1 DEF Blames, TouchedBy, Repetition, Files
    <2>5. CASE EventKind(e) = "take"
      <3>1. e.op = "REMOVE"
        BY <2>3, <2>5, KindOf
      <3> QED BY <2>2, <2>3, <2>5, <3>1 DEF Blames, TouchedBy, Repetition
    <2>6. CASE EventKind(e) = "rename"
      BY <2>2, <2>3, <2>6 DEF Blames, TouchedBy
    <2> QED BY <2>3, <2>4, <2>5, <2>6, KindOf
  <1>3. ASSUME NEW c \in Clients, proc[c].pc # "idle"
        PROVE  c \in past.touched[proc[c].req.path] \/ proc[c].req.op \in {"mkdir", "remove"}
    <2>1. PICK r \in RequestsOf(c) : r = proc[c].req
      BY <1>3 DEF BlameInv, BlameOf
    <2>2. /\ r \in Request /\ r.path \in Paths /\ r.path # NoPath /\ r.path \in Subtree(r.path)
          /\ Blames(c, RequestKind(r), r.path, r.old)
          /\ r.op = "upload" => r.path \in Files
      BY RequestFields, NoPathAssumption DEF RequestsOf, Subtree
    <2>3. CASE r.op = "upload"
      BY <2>1, <2>2, <2>3 DEF Blames, TouchedBy, RequestKind, Files
    <2>4. CASE r.op = "rename"
      BY <2>1, <2>2, <2>4 DEF Blames, TouchedBy, RequestKind
    <2> QED BY <2>1, <2>2, <2>3, <2>4, RequestFields
  <1> QED BY <1>1, <1>2, <1>3 DEF ListenersOnlyRepeat

\* ... and no repetition at all of a plain path.
LEMMA BlamedNotRepeated ==
  ASSUME TypeOK, BlameInv
  PROVE  PlainPathsNotRepeated
  <1>1. ASSUME NEW c \in Clients, NEW i \in DOMAIN channel[c], channel[c][i].path \in Plain
        PROVE  c \in past.touched[channel[c][i].path]
    <2>1. channel[c] \in Seq(ItemsOf(c))
      BY DEF BlameInv, BlameOf
    <2>2. channel[c][i] \in ItemsOf(c)
      BY <1>1, <2>1
    <2>3. channel[c][i].path \in Kept
      BY <1>1 DEF Plain, Kept
    <2> QED BY <2>2, <2>3 DEF ItemsOf, Blames
  <1> QED BY <1>1 DEF PlainPathsNotRepeated

\* So the invariant has every property of plain paths.
LEMMA IInvImplies ==
  ASSUME IInv
  PROVE  /\ PlainPathsAgree /\ PlainNotesAgree /\ PlainDirsWatched
         /\ ListenersOnlyRepeat /\ PlainPathsNotRepeated
  <1>1. PlainPathsAgree
    BY AgreeAtRest DEF PlainPathsAgree
  <1>2. PlainNotesAgree
    BY SameAtRest DEF PlainNotesAgree
  <1>3. PlainDirsWatched
    BY WatchedAtRest DEF PlainDirsWatched
  <1>4. ListenersOnlyRepeat /\ PlainPathsNotRepeated
    BY BlamedRepeat, BlamedNotRepeated DEF IInv
  <1> QED BY <1>1, <1>2, <1>3, <1>4

\* However many clients, users, notes and directories there are, and whatever is lost on
\* the way, the invariant holds of all they do, if echoes are seen in time.
THEOREM LiveInvariant ==
  ASSUME Prompt
  PROVE  Spec => []IInv
  <1>1. Init => IInv
    BY InitIInv
  <1>2. IInv /\ [Next]_vars => IInv'
    BY NextIInv
  <1> QED BY <1>1, <1>2, PTL DEF Spec

\* When everything has been said, plain paths exist everywhere or nowhere.
THEOREM PlainPathsAlwaysAgree ==
  ASSUME Prompt
  PROVE  Spec => []PlainPathsAgree
  <1>1. IInv => PlainPathsAgree
    BY IInvImplies
  <1>2. Spec => []IInv
    BY LiveInvariant
  <1> QED BY <1>1, <1>2, PTL

\* ... and have the same contents.
THEOREM PlainNotesAlwaysAgree ==
  ASSUME Prompt
  PROVE  Spec => []PlainNotesAgree
  <1>1. IInv => PlainNotesAgree
    BY IInvImplies
  <1>2. Spec => []IInv
    BY LiveInvariant
  <1> QED BY <1>1, <1>2, PTL

\* Plain directories are watched wherever they are.
THEOREM PlainDirsAlwaysWatched ==
  ASSUME Prompt
  PROVE  Spec => []PlainDirsWatched
  <1>1. IInv => PlainDirsWatched
    BY IInvImplies
  <1>2. Spec => []IInv
    BY LiveInvariant
  <1> QED BY <1>1, <1>2, PTL

\* Clients send no contents of notes of others', and do no more than repeat removals and
\* the making of directories.
THEOREM ListenersAlwaysOnlyRepeat ==
  ASSUME Prompt
  PROVE  Spec => []ListenersOnlyRepeat
  <1>1. IInv => ListenersOnlyRepeat
    BY IInvImplies
  <1>2. Spec => []IInv
    BY LiveInvariant
  <1> QED BY <1>1, <1>2, PTL

\* ... and do not do that about plain paths.
THEOREM PlainPathsNeverRepeated ==
  ASSUME Prompt
  PROVE  Spec => []PlainPathsNotRepeated
  <1>1. IInv => PlainPathsNotRepeated
    BY IInvImplies
  <1>2. Spec => []IInv
    BY LiveInvariant
  <1> QED BY <1>1, <1>2, PTL

=============================================================================

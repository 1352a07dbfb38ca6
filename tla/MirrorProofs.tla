---------------------------- MODULE MirrorProofs ----------------------------
(* What the abstract client of Mirror keeps, for every set of notes.        *)
EXTENDS Mirror, TLAPS

TypeInv ==
  /\ local \in [Notes -> Body] /\ server \in [Notes -> Body]
  /\ dirty \subseteq Notes /\ edits \in Nat
  /\ flight \in (Notes \X Body) \cup {NoRequest}

\* A note stays dirty while a request of it is on its way.
FlightIsDirty == flight # NoRequest => flight[1] \in dirty

DirtyInv == TypeInv /\ DifferencesAreDirty /\ FlightIsDirty

NotAfter(x, y) == x \in Nat /\ y \in Nat => x =< y

\* What the server has is no later than what is on its way, and that no later
\* than what is in the note, unless there is none.
OrderInv ==
  /\ \A p \in Notes : /\ NotAfter(server[p], local[p])
                      /\ NotAfter(local[p], edits) /\ NotAfter(server[p], edits)
  /\ flight # NoRequest =>
       /\ NotAfter(flight[2], edits)
       /\ NotAfter(server[flight[1]], flight[2]) /\ NotAfter(flight[2], local[flight[1]])

-----------------------------------------------------------------------------
\* A pair is not the empty sequence.
LEMMA PairIsRequest == \A x, y : <<x, y>> # NoRequest
  BY SMT DEF NoRequest

\* A request is a note and what it becomes.
LEMMA RequestParts ==
  ASSUME TypeInv, flight # NoRequest
  PROVE  \E p \in Notes, b \in Body : flight = <<p, b>>
<1>1. flight \in Notes \X Body
  BY DEF TypeInv
<1>2. ASSUME NEW S, NEW T, NEW x \in S \X T
      PROVE  \E p \in S, b \in T : x = <<p, b>>
  BY SMT
<1> QED
  BY <1>1, <1>2

LEMMA DirtyInit == Init => DirtyInv
  BY SMT DEF Init, DirtyInv, TypeInv, DifferencesAreDirty, FlightIsDirty, Body, NoRequest

LEMMA DirtyStep == DirtyInv /\ [Next]_vars => DirtyInv'
<1> SUFFICES ASSUME DirtyInv, [Next]_vars PROVE DirtyInv'
  OBVIOUS
<1> USE DEF DirtyInv, TypeInv, DifferencesAreDirty, FlightIsDirty, Body
<1>1. CASE Land
  <2>1. PICK p \in Notes, b \in Body : flight = <<p, b>>
    BY <1>1, RequestParts DEF Land
  <2>2. server' = [server EXCEPT ![p] = b] /\ flight' = NoRequest
        /\ local' = local /\ edits' = edits
    BY <1>1, <2>1, SMT DEF Land
  <2>3. dirty' = dirty \/ (local[p] = b /\ dirty' = dirty \ {p})
    BY <1>1, <2>1, SMT DEF Land
  <2>4. p \in dirty
    BY <2>1, PairIsRequest
  <2> QED
    BY <2>2, <2>3, <2>4, SMT
<1>2. ASSUME NEW p \in Notes, Edit(p) PROVE DirtyInv'
  <2>1. PICK b \in {edits + 1, Absent} : local' = [local EXCEPT ![p] = b]
    BY <1>2 DEF Edit
  <2>2. edits' = edits + 1 /\ dirty' = dirty \cup {p} /\ server' = server /\ flight' = flight
    BY <1>2 DEF Edit
  <2> QED
    BY <2>1, <2>2, SMT
<1>3. ASSUME NEW p \in Notes, Pick(p) PROVE DirtyInv'
  <2>1. PICK b \in {local[p], Absent} : flight' = <<p, b>>
    BY <1>3 DEF Pick
  <2>2. p \in dirty /\ local' = local /\ server' = server /\ dirty' = dirty /\ edits' = edits
    BY <1>3 DEF Pick
  <2> QED
    BY <2>1, <2>2, SMT
<1>4. ASSUME NEW p \in Notes, Settle(p) PROVE DirtyInv'
  BY <1>4, SMT DEF Settle
<1>5. ASSUME NEW p \in Notes, Again(p) PROVE DirtyInv'
  BY <1>5, SMT DEF Again
<1>6. CASE UNCHANGED vars
  BY <1>6, SMT DEF vars
<1> QED
  BY <1>1, <1>2, <1>3, <1>4, <1>5, <1>6 DEF Next

\* Whatever has to be told is dirty, in every behaviour of the abstract client.
THEOREM DifferencesStayDirty == Spec => []DifferencesAreDirty
<1>1. DirtyInv => DifferencesAreDirty
  BY DEF DirtyInv
<1> QED
  BY <1>1, DirtyInit, DirtyStep, PTL DEF Spec

-----------------------------------------------------------------------------
LEMMA OrderInit == ASSUME Absent \notin Nat PROVE Init => OrderInv
  BY SMT DEF Init, OrderInv, NotAfter

LEMMA OrderStep ==
  ASSUME Absent \notin Nat, DirtyInv, OrderInv, [Next]_vars
  PROVE  OrderInv' /\ \A p \in Notes : NotAfter(server[p], server'[p])
<1> USE DEF OrderInv, NotAfter
<1>t. TypeInv
  BY DEF DirtyInv
<1>1. CASE Land
  <2>1. PICK p \in Notes, b \in Body : flight = <<p, b>>
    BY <1>1, <1>t, RequestParts DEF Land
  <2>2. server' = [server EXCEPT ![p] = b] /\ flight' = NoRequest
        /\ local' = local /\ edits' = edits
    BY <1>1, <2>1, SMT DEF Land
  <2>3. /\ b \in Nat => b =< edits
        /\ server[p] \in Nat /\ b \in Nat => server[p] =< b
        /\ b \in Nat /\ local[p] \in Nat => b =< local[p]
    BY <1>t, <2>1, PairIsRequest, SMT DEF TypeInv
  <2> QED
    BY <1>t, <2>2, <2>3, SMT DEF TypeInv
<1>2. ASSUME NEW p \in Notes, Edit(p)
      PROVE  OrderInv' /\ \A q \in Notes : NotAfter(server[q], server'[q])
  <2>1. PICK b \in {edits + 1, Absent} : local' = [local EXCEPT ![p] = b]
    BY <1>2 DEF Edit
  <2>2. edits' = edits + 1 /\ server' = server /\ flight' = flight
    BY <1>2 DEF Edit
  <2> QED
    BY <1>t, <2>1, <2>2, SMT DEF TypeInv, Body
<1>3. ASSUME NEW p \in Notes, Pick(p)
      PROVE  OrderInv' /\ \A q \in Notes : NotAfter(server[q], server'[q])
  <2>1. PICK b \in {local[p], Absent} : flight' = <<p, b>>
    BY <1>3 DEF Pick
  <2>2. local' = local /\ server' = server /\ edits' = edits
    BY <1>3 DEF Pick
  <2> QED
    BY <1>t, <2>1, <2>2, SMT DEF TypeInv, Body
<1>4. CASE \E p \in Notes : Settle(p) \/ Again(p)
  BY <1>4, <1>t, SMT DEF Settle, Again, TypeInv, Body
<1>5. CASE UNCHANGED vars
  BY <1>5, <1>t, SMT DEF vars, TypeInv, Body
<1> QED
  BY <1>1, <1>2, <1>3, <1>4, <1>5 DEF Next

\* The contents the server has of a note only get newer.
THEOREM ServerNeverGoesBack == ASSUME Absent \notin Nat PROVE Spec => NeverBack
<1>1. Init => OrderInv
  BY OrderInit
<1>2. DirtyInv /\ OrderInv /\ [Next]_vars => OrderInv'
  BY OrderStep
<1>3. DirtyInv /\ OrderInv /\ [Next]_vars =>
        [\A p \in Notes : server[p] \in Nat /\ server'[p] \in Nat => server'[p] >= server[p]]_vars
  <2>1. ASSUME DirtyInv, OrderInv, [Next]_vars
        PROVE  \A p \in Notes : server[p] \in Nat /\ server'[p] \in Nat => server'[p] >= server[p]
    BY <2>1, OrderStep, SMT DEF NotAfter
  <2> QED
    BY <2>1
<1> QED
  BY <1>1, <1>2, <1>3, DirtyInit, DirtyStep, PTL DEF Spec, NeverBack
=============================================================================

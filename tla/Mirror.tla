------------------------------- MODULE Mirror -------------------------------
(***************************************************************************)
(* What a client promises its user, without its goroutines: a note the     *)
(* server does not have in its present form is dirty until it has, and     *)
(* what is sent of a dirty note is what is in it, or that it is gone.      *)
(* ClientWatch implements this while nobody else changes the notes and the *)
(* server can be reached.                                                  *)
(***************************************************************************)
EXTENDS Naturals

CONSTANTS Notes, Absent

VARIABLES
  local,    \* what is in each note: the number of the edit that wrote it
  server,   \* what the server has
  dirty,    \* the notes something has yet to be told about
  flight,   \* the request on its way to the server, a note and what it becomes
  edits     \* how many edits there have been

vars == <<local, server, dirty, flight, edits>>

Body  == Nat \cup {Absent}
NoRequest == <<>>

Init ==
  /\ local \in [Notes -> {0, Absent}] /\ server = local
  /\ dirty = {} /\ flight = NoRequest /\ edits = 0

Edit(p) ==
  /\ edits' = edits + 1
  /\ \E body \in {edits + 1, Absent} : local' = [local EXCEPT ![p] = body]
  /\ dirty' = dirty \cup {p}
  /\ UNCHANGED <<server, flight>>

\* The note may be back by the time its removal is told of.
Pick(p) ==
  /\ flight = NoRequest /\ p \in dirty
  /\ \E body \in {local[p], Absent} : flight' = <<p, body>>
  /\ UNCHANGED <<local, server, dirty, edits>>

\* What has been told may be told once more; what has not must be.
Land ==
  /\ flight # NoRequest
  /\ LET p == flight[1] IN
     /\ server' = [server EXCEPT ![p] = flight[2]]
     /\ \/ dirty' = dirty
        \/ local[p] = flight[2] /\ dirty' = dirty \ {p}
  /\ flight' = NoRequest
  /\ UNCHANGED <<local, edits>>

Settle(p) ==
  /\ local[p] = server[p] /\ (flight = NoRequest \/ flight[1] # p)
  /\ dirty' = dirty \ {p}
  /\ UNCHANGED <<local, server, flight, edits>>

\* A write that has been told already is passed on again.
Again(p) ==
  /\ dirty' = dirty \cup {p}
  /\ UNCHANGED <<local, server, flight, edits>>

Next == Land \/ \E p \in Notes : Edit(p) \/ Pick(p) \/ Settle(p) \/ Again(p)

Spec == Init /\ [][Next]_vars

-----------------------------------------------------------------------------
(* Properties.                                                             *)

\* Every difference between the two will be told.
DifferencesAreDirty == \A p \in Notes : local[p] # server[p] => p \in dirty

\* The server never goes back to what an earlier edit wrote.
NeverBack ==
  [][\A p \in Notes : server[p] \in Nat /\ server'[p] \in Nat
                        => server'[p] >= server[p]]_vars
=============================================================================

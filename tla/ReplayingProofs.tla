--------------------------- MODULE ReplayingProofs ---------------------------
(* What Replay gives, for sequences of every length.  The provers cannot use *)
(* the induction theorems of the library, which take a predicate as a        *)
(* parameter; that every set of numbers has a least one says the same of     *)
(* sets, and is first-order.                                                 *)
EXTENDS Replaying, WellFoundedInduction, TLAPS

\* A set of numbers has a least one.
LEMMA LeastNumber ==
  ASSUME NEW T, T \subseteq Nat, T # {}
  PROVE  \E n \in T : \A k \in T : n =< k
<1> DEFINE R == OpToRel(<, Nat)
<1>1. \A x, y \in Nat : <<y, x>> \in R <=> y < x
  BY DEF OpToRel
<1>2. IsWellFoundedOn(R, Nat)
  BY NatLessThanWellFounded
<1> HIDE DEF R
<1>3. PICK x \in T : \A y \in T : ~ (<<y, x>> \in R)
  BY <1>2, WFMin
<1>4. ASSUME NEW y \in T PROVE x =< y
  <2>1. x \in Nat /\ y \in Nat
    OBVIOUS
  <2>2. ~ (y < x)
    BY <1>1, <1>3, <2>1
  <2> QED
    BY <2>1, <2>2
<1> QED
  BY <1>4

\* A set that has 0, and the next of each number it has, has them all.
LEMMA Induction ==
  ASSUME NEW S, 0 \in S, \A n \in Nat : n \in S => n + 1 \in S
  PROVE  Nat \subseteq S
<1> SUFFICES ASSUME Nat \ S # {} PROVE FALSE
  OBVIOUS
<1>1. PICK n \in Nat \ S : \A k \in Nat \ S : n =< k
  BY LeastNumber
<1>2. n # 0 /\ n - 1 \in Nat /\ n - 1 < n
  OBVIOUS
<1>3. n - 1 \in S
  BY <1>1, <1>2
<1> QED
  BY <1>2, <1>3

-----------------------------------------------------------------------------
\* r[i] is what the first i elements of s make of t.
IsReplay(r, f, t, s) ==
  /\ r = [i \in 0..Len(s) |-> r[i]]
  /\ r[0] = t
  /\ \A i \in 1..Len(s) : r[i] = f[<<r[i - 1], s[i]>>]

LEMMA ReplayExists ==
  ASSUME NEW f, NEW t, NEW s, Len(s) \in Nat
  PROVE  \E r : IsReplay(r, f, t, s)
<1> DEFINE Goes(r, n) == /\ r = [i \in 0..n |-> r[i]] /\ r[0] = t
                         /\ \A i \in 1..n : r[i] = f[<<r[i - 1], s[i]>>]
           S == {n \in Nat : \E r : Goes(r, n)}
<1>1. 0 \in S
  <2> DEFINE r == [i \in 0..0 |-> t]
  <2>1. Goes(r, 0)
    OBVIOUS
  <2> QED
    BY <2>1
<1>2. ASSUME NEW n \in Nat, n \in S PROVE n + 1 \in S
  <2>1. PICK r : Goes(r, n)
    BY <1>2
  <2> DEFINE q == [i \in 0..(n + 1) |-> IF i = n + 1 THEN f[<<r[n], s[n + 1]>>] ELSE r[i]]
  <2>2. q = [i \in 0..(n + 1) |-> q[i]]
    OBVIOUS
  <2>3. q[0] = t
    BY <2>1
  <2>4. ASSUME NEW i \in 1..(n + 1) PROVE q[i] = f[<<q[i - 1], s[i]>>]
    <3>1. CASE i = n + 1
      <4>1. q[n + 1] = f[<<r[n], s[n + 1]>>] /\ q[n] = r[n] /\ (n + 1) - 1 = n
        OBVIOUS
      <4> HIDE DEF q
      <4> QED
        BY <3>1, <4>1
    <3>2. CASE i # n + 1
      <4>1. i \in 1..n /\ i \in 0..(n + 1) /\ i - 1 \in 0..(n + 1) /\ i - 1 # n + 1
        BY <3>2
      <4> QED
        BY <2>1, <4>1, <3>2
    <3> QED
      BY <3>1, <3>2
  <2> HIDE DEF q
  <2>5. Goes(q, n + 1)
    BY <2>2, <2>3, <2>4
  <2> HIDE DEF Goes
  <2>6. \E p : Goes(p, n + 1)
    BY <2>5
  <2> QED
    BY <2>6
<1> HIDE DEF S
<1>3. Len(s) \in S
  BY <1>1, <1>2, Induction
<1> QED
  BY <1>3 DEF S, IsReplay

LEMMA ReplayUnique ==
  ASSUME NEW f, NEW t, NEW s, Len(s) \in Nat,
       NEW r, IsReplay(r, f, t, s), NEW q, IsReplay(q, f, t, s)
  PROVE  r[Len(s)] = q[Len(s)]
<1> DEFINE S == {n \in Nat : n =< Len(s) => r[n] = q[n]}
<1>1. 0 \in S
  BY DEF IsReplay
<1>2. ASSUME NEW n \in Nat, n \in S PROVE n + 1 \in S
  <2> SUFFICES ASSUME n + 1 =< Len(s) PROVE r[n + 1] = q[n + 1]
    OBVIOUS
  <2>1. n + 1 \in 1..Len(s) /\ (n + 1) - 1 = n /\ n =< Len(s)
    OBVIOUS
  <2>2. r[n] = q[n]
    BY <1>2, <2>1
  <2>3. /\ r[n + 1] = f[<<r[(n + 1) - 1], s[n + 1]>>]
        /\ q[n + 1] = f[<<q[(n + 1) - 1], s[n + 1]>>]
    BY <2>1 DEF IsReplay
  <2> QED
    BY <2>1, <2>2, <2>3
<1> HIDE DEF S
<1>3. Len(s) \in S
  BY <1>1, <1>2, Induction
<1> QED
  BY <1>3 DEF S

LEMMA ReplayIs ==
  ASSUME NEW f, NEW t, NEW s, Len(s) \in Nat, NEW q, IsReplay(q, f, t, s)
  PROVE  Replay(f, t, s) = q[Len(s)]
<1> DEFINE r == CHOOSE r : r = [i \in 0..Len(s) |->
                                  IF i = 0 THEN t ELSE f[<<r[i - 1], s[i]>>]]
<1>1. Replay(f, t, s) = r[Len(s)]
  BY DEF Replay
<1>2. q = [i \in 0..Len(s) |-> IF i = 0 THEN t ELSE f[<<q[i - 1], s[i]>>]]
  <2>1. ASSUME NEW i \in 0..Len(s)
        PROVE  q[i] = IF i = 0 THEN t ELSE f[<<q[i - 1], s[i]>>]
    <3>1. CASE i = 0
      BY <3>1 DEF IsReplay
    <3>2. CASE i # 0
      <4>1. i \in 1..Len(s)
        BY <3>2
      <4> QED
        BY <3>2, <4>1 DEF IsReplay
    <3> QED
      BY <3>1, <3>2
  <2>2. q = [i \in 0..Len(s) |-> q[i]]
    BY DEF IsReplay
  <2> QED
    BY <2>1, <2>2
<1>3. r = [i \in 0..Len(s) |-> IF i = 0 THEN t ELSE f[<<r[i - 1], s[i]>>]]
  BY <1>2
<1> HIDE DEF r
<1>4. IsReplay(r, f, t, s)
  <2>1. ASSUME NEW i \in 0..Len(s)
        PROVE  r[i] = IF i = 0 THEN t ELSE f[<<r[i - 1], s[i]>>]
    BY <1>3
  <2>2. r = [i \in 0..Len(s) |-> r[i]]
    BY <1>3
  <2>3. r[0] = t
    <3>1. 0 \in 0..Len(s)
      OBVIOUS
    <3> QED
      BY <2>1, <3>1
  <2>4. ASSUME NEW i \in 1..Len(s) PROVE r[i] = f[<<r[i - 1], s[i]>>]
    <3>1. i \in 0..Len(s) /\ i # 0
      OBVIOUS
    <3> QED
      BY <2>1, <3>1
  <2> QED
    BY <2>2, <2>3, <2>4 DEF IsReplay
<1> QED
  BY <1>1, <1>4, ReplayUnique

\* What the properties' proofs use: nothing to replay, one element more at the
\* end, one element fewer at the front, and a set of states that is not left.
LEMMA ReplayNothing ==
  ASSUME NEW f, NEW t
  PROVE  Replay(f, t, <<>>) = t
<1> DEFINE q == [i \in 0..0 |-> t]
<1>1. IsReplay(q, f, t, <<>>)
  BY DEF IsReplay
<1> QED
  BY <1>1, ReplayIs

LEMMA ReplayAppend ==
  ASSUME NEW f, NEW t, NEW M, NEW s \in Seq(M), NEW m \in M
  PROVE  Replay(f, t, Append(s, m)) = f[<<Replay(f, t, s), m>>]
<1> DEFINE n == Len(s)
           u == Append(s, m)
<1>0. n \in Nat /\ Len(u) = n + 1 /\ u[n + 1] = m /\ \A i \in 1..n : u[i] = s[i]
  OBVIOUS
<1>1. PICK r : IsReplay(r, f, t, s)
  BY <1>0, ReplayExists
<1> DEFINE q == [i \in 0..(n + 1) |-> IF i = n + 1 THEN f[<<r[n], m>>] ELSE r[i]]
<1> HIDE DEF n, u
<1>2. IsReplay(q, f, t, u)
  <2>1. q[0] = t
    BY <1>0, <1>1 DEF IsReplay
  <2>2. ASSUME NEW i \in 1..(n + 1) PROVE q[i] = f[<<q[i - 1], u[i]>>]
    <3>1. CASE i = n + 1
      BY <1>0, <3>1
    <3>2. CASE i # n + 1
      <4>1. i \in 1..n /\ i \in 0..(n + 1) /\ i - 1 \in 0..(n + 1) /\ i - 1 # n + 1
        BY <1>0, <3>2
      <4>2. r[i] = f[<<r[i - 1], s[i]>>]
        BY <1>1, <4>1 DEF IsReplay, n
      <4> QED
        BY <1>0, <4>1, <4>2, <3>2
    <3> QED
      BY <3>1, <3>2
  <2> QED
    BY <1>0, <2>1, <2>2 DEF IsReplay
<1>3. Replay(f, t, s) = r[n]
  BY <1>0, <1>1, ReplayIs DEF n
<1>4. Replay(f, t, u) = q[n + 1]
  <2> HIDE DEF q
  <2>1. Len(u) \in Nat
    BY <1>0
  <2> QED
    BY <1>0, <1>2, <2>1, ReplayIs
<1> QED
  BY <1>0, <1>3, <1>4 DEF u

LEMMA ReplayTail ==
  ASSUME NEW f, NEW t, NEW M, NEW s \in Seq(M), s # <<>>
  PROVE  Replay(f, t, s) = Replay(f, f[<<t, Head(s)>>], Tail(s))
<1> DEFINE n == Len(s)
           u == Tail(s)
<1>0. n \in Nat /\ n > 0 /\ Len(u) = n - 1 /\ \A i \in 1..(n - 1) : u[i] = s[i + 1]
  OBVIOUS
<1>1. PICK r : IsReplay(r, f, t, s)
  BY <1>0, ReplayExists
<1> DEFINE q == [i \in 0..(n - 1) |-> r[i + 1]]
<1>2. Replay(f, t, s) = r[n]
  BY <1>0, <1>1, ReplayIs
<1>3. r[1] = f[<<t, Head(s)>>]
  <2>1. 1 \in 1..Len(s) /\ 1 - 1 = 0 /\ Head(s) = s[1]
    BY <1>0
  <2>2. r[1] = f[<<r[1 - 1], s[1]>>] /\ r[0] = t
    BY <1>1, <2>1 DEF IsReplay
  <2> QED
    BY <2>1, <2>2
<1> HIDE DEF u
<1>4. IsReplay(q, f, f[<<t, Head(s)>>], u)
  <2>1. q[0] = f[<<t, Head(s)>>]
    BY <1>0, <1>3
  <2>2. ASSUME NEW i \in 1..(n - 1) PROVE q[i] = f[<<q[i - 1], u[i]>>]
    <3>1. i + 1 \in 1..n /\ (i + 1) - 1 = i /\ i - 1 \in 0..(n - 1) /\ (i - 1) + 1 = i
      BY <1>0
    <3>2. r[i + 1] = f[<<r[(i + 1) - 1], s[i + 1]>>]
      BY <1>1, <3>1 DEF IsReplay
    <3>3. q[i] = r[i + 1] /\ q[i - 1] = r[(i - 1) + 1] /\ u[i] = s[i + 1]
      BY <1>0, <3>1
    <3> HIDE DEF q
    <3> QED
      BY <3>1, <3>2, <3>3
  <2> QED
    BY <1>0, <2>1, <2>2 DEF IsReplay
<1>5. Replay(f, f[<<t, Head(s)>>], u) = q[n - 1]
  BY <1>0, <1>4, ReplayIs
<1>6. q[n - 1] = r[n]
  BY <1>0
<1> QED
  BY <1>2, <1>5, <1>6 DEF u

LEMMA ReplayStays ==
  ASSUME NEW f, NEW D, NEW M, \A x \in D : \A m \in M : f[<<x, m>>] \in D,
         NEW t \in D, NEW s \in Seq(M)
  PROVE  Replay(f, t, s) \in D
<1>0. Len(s) \in Nat /\ \A i \in 1..Len(s) : s[i] \in M
  OBVIOUS
<1>1. PICK r : IsReplay(r, f, t, s)
  BY <1>0, ReplayExists
<1> DEFINE S == {n \in Nat : n =< Len(s) => r[n] \in D}
<1>2. 0 \in S
  BY <1>1 DEF IsReplay
<1>3. ASSUME NEW n \in Nat, n \in S PROVE n + 1 \in S
  <2> SUFFICES ASSUME n + 1 =< Len(s) PROVE r[n + 1] \in D
    OBVIOUS
  <2>1. n + 1 \in 1..Len(s) /\ (n + 1) - 1 = n /\ n =< Len(s)
    BY <1>0
  <2>2. r[n] \in D
    BY <1>3, <2>1
  <2>3. r[n + 1] = f[<<r[(n + 1) - 1], s[n + 1]>>]
    BY <1>1, <2>1 DEF IsReplay
  <2> QED
    BY <1>0, <2>1, <2>2, <2>3
<1> HIDE DEF S
<1>4. Len(s) \in S
  BY <1>0, <1>2, <1>3, Induction
<1> QED
  BY <1>0, <1>1, <1>4, ReplayIs DEF S
=============================================================================

------------------------------ MODULE Replaying ------------------------------
(* What a sequence of messages makes of a state, one after the other.  Only  *)
(* properties use it.  It is a fold; the folds of the community modules take *)
(* an operator as a parameter, which no prover here can instantiate, so this *)
(* one takes a function of <<state, message>>.                               *)
EXTENDS Integers, Sequences

\* What t becomes when f is applied to it and to each element of s in turn.
Replay(f, t, s) ==
  LET r[i \in 0..Len(s)] == IF i = 0 THEN t ELSE f[<<r[i - 1], s[i]>>]
  IN r[Len(s)]
=============================================================================

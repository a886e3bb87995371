---------------------------- MODULE MCTimerList -----------------------------
(* TimerList on a few connections and handlers. *)
EXTENDS TimerList, TLC

\* Once an expiry has been overwritten the properties say nothing, so TLC stops
\* at the first such state.
Unspoiled == ~ spoiled

\* At most one slot has the long expire_time, that of the keep-alive 0.
OneSlow == Cardinality({c \in Conns : expireTime[c] = ExpireTime(0)}) <= 1

Symmetry == Permutations(Conns) \cup Permutations(Handlers)
=============================================================================

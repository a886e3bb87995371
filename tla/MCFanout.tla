------------------------------ MODULE MCFanout ------------------------------
(* Fanout for TLC: threads and clients are interchangeable.                *)
EXTENDS Fanout, TLC

Interchange == Permutations(Threads) \cup Permutations(Clients)
=============================================================================

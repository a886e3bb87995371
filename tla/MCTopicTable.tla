---------------------------- MODULE MCTopicTable ----------------------------
(* TopicTable with two names in one bucket and one in another. *)
EXTENDS TopicTable, TLC

CONSTANTS n1, n2, n3

MCBucket == [n \in Names |-> IF n = n3 THEN 25 ELSE 0]
=============================================================================

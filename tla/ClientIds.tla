------------------------------ MODULE ClientIds ------------------------------
(***************************************************************************)
(* What the set of client ids in Redis promises, without threads, packets  *)
(* or commands: an id that is not taken is claimed by one CONNECT, becomes *)
(* the name of its connection or stays taken for ever, and is free again   *)
(* when the connection that has it leaves, and only then.  What Redis      *)
(* refuses to do is on record: an id that was not stored can be claimed    *)
(* again, and one that was not removed stays taken, unless it is removed   *)
(* once more when nobody has it.                                           *)
(*                                                                         *)
(* Session.tla is shown to implement this module when handlers run one at  *)
(* a time and descriptors are not reused.                                  *)
(***************************************************************************)

CONSTANTS Conns, Ids,
          Null       \* no id

VARIABLES taken,     \* the ids that are refused
          claims,    \* the ids for which a CONNECT is under way
          name,      \* the id of each connection
          usable,    \* can ids still be claimed and given back?
          unstored,  \* the ids that Redis has refused to store
          unfreed    \* the ids that Redis has refused to remove

vars == <<taken, claims, name, usable, unstored, unfreed>>

Init == /\ taken = {} /\ claims = {}
        /\ name = [c \in Conns |-> Null]
        /\ usable = TRUE
        /\ unstored = {} /\ unfreed = {}

\* SISMEMBER has found i free, and SADD takes it or is refused.
Claim(i) ==
    /\ usable /\ i \notin taken
    /\ claims' = claims \cup {i}
    /\ \/ taken' = taken \cup {i} /\ UNCHANGED unstored
       \/ unstored' = unstored \cup {i} /\ UNCHANGED taken
    /\ UNCHANGED <<name, usable, unfreed>>

\* CONNACK 0.  The id that c has had, if any, stays taken.
Grant(c, i) ==
    /\ i \in claims
    /\ name' = [name EXCEPT ![c] = i]
    /\ claims' = claims \ {i}
    /\ UNCHANGED <<taken, usable, unstored, unfreed>>

\* The CONNECT fails; its id stays taken.
Abandon(i) ==
    /\ i \in claims
    /\ claims' = claims \ {i}
    /\ UNCHANGED <<taken, name, usable, unstored, unfreed>>

\* i is removed, unless Redis is lost or refuses.
Free(i) ==
    \/ usable /\ taken' = taken \ {i} /\ unfreed' = unfreed \ {i}
    \/ usable /\ unfreed' = unfreed \cup ({i} \cap taken) /\ UNCHANGED taken
    \/ ~ usable /\ UNCHANGED <<taken, unfreed>>

\* c is shut.
Release(c) ==
    /\ name[c] # Null
    /\ name' = [name EXCEPT ![c] = Null]
    /\ Free(name[c])
    /\ UNCHANGED <<claims, usable, unstored>>

\* A removal that was refused is tried again; nobody has i.
FreeAgain(i) ==
    /\ i \in unfreed /\ i \notin claims
    /\ i \in unstored \/ \A c \in Conns : name[c] # i
    /\ Free(i)
    /\ UNCHANGED <<claims, name, usable, unstored>>

Lose == /\ usable /\ usable' = FALSE
        /\ UNCHANGED <<taken, claims, name, unstored, unfreed>>

Next == \/ \E i \in Ids : \/ Claim(i) \/ Abandon(i) \/ FreeAgain(i)
                          \/ \E c \in Conns : Grant(c, i)
        \/ \E c \in Conns : Release(c)
        \/ Lose

Spec == Init /\ [][Next]_vars
=============================================================================

------------------------------ MODULE TimerSet ------------------------------
(***************************************************************************)
(* What the timer list of mqtt_timer.c promises to the server, without     *)
(* pointers, threads or locks: a registered connection has one deadline,   *)
(* activity only ever moves a deadline to a later time, and a tick that    *)
(* finds an expired timer takes one whose deadline is the earliest.        *)
(* The promise ends when a deadline is overwritten from outside, after     *)
(* which the list may do anything.                                         *)
(* TimerList.tla is shown to implement this module.                        *)
(***************************************************************************)
EXTENDS Naturals

CONSTANTS Conns,        \* connection slots, each with one embedded timer
          Null          \* no connection

VARIABLES deadline,     \* registered connection -> deadline, in seconds
          due,          \* the expired connection a tick is shutting down
          now,          \* the clock, in seconds
          spoiled       \* has a deadline been overwritten from outside?

vars == <<deadline, due, now, spoiled>>

registered == DOMAIN deadline

\* A step leaves the deadline of every connection of S as it is.
Keeps(S) == \A c \in S : deadline'[c] = deadline[c]

Init == /\ registered = {}
        /\ due = Null
        /\ now = 0
        /\ spoiled = FALSE

\* add_timer: c gets a deadline, and had none.
Register(c) ==
    /\ c \notin registered
    /\ registered' = registered \cup {c}
    /\ deadline'[c] \in Nat
    /\ Keeps(registered)
    /\ UNCHANGED <<due, now, spoiled>>

\* inc_timer: activity of c, measured from the present.
Renew(c) ==
    /\ c \in registered
    /\ registered' = registered
    /\ deadline'[c] >= now
    /\ deadline'[c] >= deadline[c]
    /\ Keeps(registered \ {c})
    /\ UNCHANGED <<due, now, spoiled>>

\* remove_timer: c is being closed.
Drop(c) ==
    /\ c \in registered
    /\ registered' = registered \ {c}
    /\ Keeps(registered \ {c})
    /\ due' = IF due = c THEN Null ELSE due
    /\ UNCHANGED <<now, spoiled>>

\* timer_tick: the earliest deadline has passed.
Expire(c) ==
    /\ due = Null
    /\ c \in registered
    /\ deadline[c] <= now
    /\ \A d \in registered : deadline[c] <= deadline[d]
    /\ due' = c
    /\ UNCHANGED <<deadline, now, spoiled>>

Advance == /\ now' = now + 1
           /\ UNCHANGED <<deadline, due, spoiled>>

\* A deadline has been overwritten: nothing is promised of this step or of any
\* later one.
Overwritten == spoiled' = TRUE

Next == \/ Overwritten
        \/ Advance
        \/ \E c \in Conns : Renew(c) \/ Register(c) \/ Drop(c) \/ Expire(c)

Spec == Init /\ [][Next]_vars
=============================================================================

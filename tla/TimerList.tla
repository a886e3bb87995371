----------------------------- MODULE TimerList ------------------------------
(***************************************************************************)
(* The keep-alive timers of the server: the doubly linked list of          *)
(* mqtt_timer.c, sorted by expiry, and the calls server.c and              *)
(* mqtt_handler.c make on it.                                              *)
(*                                                                         *)
(* Every slot of env->clients embeds one timer, so a slot c \in Conns is   *)
(* also its timer.  The threads are the main thread (accept and the tick)  *)
(* and the handlers.  A handler works on the slot packet->fd->sockfd, and  *)
(* packet->fd is a pointer to fds_arg on the stack of et, which the next   *)
(* event overwrites: a handler's operation may fall on any connection that *)
(* was ever accepted, open, closed or reused, and several handlers may be  *)
(* at work on one slot.  An error shut that conn_handler repeats on the    *)
(* closed descriptor is one more Shut.  (Session.tla models how fds_arg    *)
(* comes to its value; here it is any.)                                    *)
(*                                                                         *)
(* The code between lock and unlock is one step, except the search loop of *)
(* add_timer_after, which is one step per iteration.  The mutex is a       *)
(* default one (timer_init passes no attributes), so a thread that locks   *)
(* it twice waits for itself.                                              *)
(*                                                                         *)
(* registered, crossed and spoiled are history: they record what has       *)
(* happened and steer nothing.                                             *)
(***************************************************************************)
EXTENDS Naturals, FiniteSets

CONSTANTS Conns,         \* slots of env->clients
          Handlers,      \* handler threads
          Main,          \* the thread of the epoll loop
          Null,          \* the null pointer
          Free,          \* value of the mutex when nobody holds it
          KeepAlives,    \* alive_timer values a CONNECT may carry, seconds
          MaxTime        \* bound on the clock

Threads == Handlers \cup {Main}
Pointers == Conns \cup {Null}

ASSUME ConstantsOK ==
    /\ IsFiniteSet(Conns)
    /\ Main \notin Handlers
    /\ Null \notin Conns
    /\ Free \notin Threads
    /\ KeepAlives \subseteq Nat
    /\ MaxTime \in Nat

TIMESLOT == 1

UINT16 == 65536    \* values of a uint16_t

\* mqtt_handler_connect: an absent keep-alive counts as 30 seconds, and the
\* uint16_t expire_time is one and a half times the keep-alive.
ExpireTime(alive) ==
    LET a == IF alive = 0 THEN 30 ELSE alive
    IN  (a + a \div 2) % UINT16

VARIABLES
    head, tail,    \* list->head, list->tail
    next, prev,    \* the links of each timer
    expire,        \* timer.expire of each slot
    expireTime,    \* client->expire_time of each slot
    conn,          \* of each slot: "unused", "open" or "closed"
    mutex,         \* holder of list->mutex
    pc,            \* where each thread stands
    timer,         \* the slot each handler works on, Null between operations
    cur,           \* tmp in the search loop of add_timer_after
    tickTime,      \* cur in timer_tick
    sigalrm,       \* "armed", "pending" in the pipe, "handling"
    now,           \* time(NULL)
    registered,    \* timers that add_timer has taken and remove_timer has not
    crossed,       \* slots two handlers have met on and not both left
    spoiled        \* has an expiry been overwritten in or on its way to the list?

links == <<head, tail, next, prev>>
slots == <<expire, expireTime, conn>>
timing == <<tickTime, sigalrm, now>>
history == <<registered, crossed, spoiled>>
vars == <<links, slots, mutex, pc, timer, cur, timing, history>>

HandlerPC == {"idle", "add_lock", "walk", "inc_lock", "rm_lock", "removefd",
              "crashed", "dead"}
MainPC == {"idle", "tick_lock", "rm_lock", "dead"}

\* main zeroes the list; the slots of a fresh heap block read as zero.
Init ==
    /\ head = Null /\ tail = Null
    /\ next = [c \in Conns |-> Null]
    /\ prev = [c \in Conns |-> Null]
    /\ expire = [c \in Conns |-> 0]
    /\ expireTime = [c \in Conns |-> 0]
    /\ conn = [c \in Conns |-> "unused"]
    /\ mutex = Free
    /\ pc = [t \in Threads |-> "idle"]
    /\ timer = [h \in Handlers |-> Null]
    /\ cur = [h \in Handlers |-> Null]
    /\ tickTime = 0
    /\ sigalrm = "armed"
    /\ now = 0
    /\ registered = {}
    /\ crossed = {}
    /\ spoiled = FALSE

Goto(t, label) == pc' = [pc EXCEPT ![t] = label]

\* A handler is on its way into the list with the timer of c.
Adding(h, c) == timer[h] = c /\ pc[h] \in {"add_lock", "walk"}

\* The expiry of c is overwritten without the mutex.
Overwrites(c) ==
    spoiled' = IF c \in registered \/ \E h \in Handlers : Adding(h, c)
               THEN TRUE ELSE spoiled

-----------------------------------------------------------------------------
(* Accepting a connection and reading its packets.                         *)

\* et, listening socket: a new connection gets a deadline but no list entry.
Accept(c) ==
    /\ pc[Main] = "idle"
    /\ conn[c] # "open"
    /\ conn' = [conn EXCEPT ![c] = "open"]
    /\ expire' = [expire EXCEPT ![c] = now + 20 * TIMESLOT]
    /\ Overwrites(c)
    /\ UNCHANGED <<links, expireTime, mutex, pc, timer, cur, timing, registered,
                   crossed>>

\* Handler h reads packet->fd->sockfd for an operation and finds c.
Takes(h, c, label) ==
    /\ pc[h] = "idle" /\ conn[c] # "unused"
    /\ timer' = [timer EXCEPT ![h] = c]
    /\ Goto(h, label)
    /\ crossed' = IF \E g \in Handlers : timer[g] = c
                  THEN crossed \cup {c} ELSE crossed

\* mqtt_handler_connect up to its call of add_timer; the expiry is written
\* before the mutex is taken.
Connect(h, c) ==
    /\ Takes(h, c, "add_lock")
    /\ \E alive \in KeepAlives :
          /\ expireTime' = [expireTime EXCEPT ![c] = ExpireTime(alive)]
          /\ expire' = [expire EXCEPT ![c] = now + ExpireTime(alive)]
    /\ Overwrites(c)
    /\ UNCHANGED <<links, conn, mutex, cur, timing, registered>>

\* PUBLISH or PINGREQ: update_conn_timer.
Activity(h, c) ==
    /\ Takes(h, c, "inc_lock")
    /\ UNCHANGED <<links, slots, mutex, cur, timing, registered, spoiled>>

\* Variant: remove_timer skipped for a timer without a successor.
ShutIfLinked(h, c) ==
    /\ Takes(h, c, IF next[c] = Null THEN "removefd" ELSE "rm_lock")
    /\ UNCHANGED <<links, slots, mutex, cur, timing, registered, spoiled>>

\* shut_dead_conn after DISCONNECT, an error or the peer's close: remove_timer
\* looks at list->head before it takes the mutex.
Shut(h, c) ==
    /\ Takes(h, c, IF head = Null THEN "removefd" ELSE "rm_lock")
    /\ UNCHANGED <<links, slots, mutex, cur, timing, registered, spoiled>>

\* Handler h is done with its slot; its next operation may be on another.
Done(h) ==
    /\ Goto(h, "idle")
    /\ timer' = [timer EXCEPT ![h] = Null]
    /\ crossed' = IF \E g \in Handlers \ {h} : timer[g] = timer[h]
                  THEN crossed ELSE crossed \ {timer[h]}

\* shut_dead_conn: removefd closes the descriptor; the slot can be reused.
RemoveFd(h) ==
    /\ pc[h] = "removefd"
    /\ conn' = [conn EXCEPT ![timer[h]] = "closed"]
    /\ Done(h)
    /\ UNCHANGED <<links, expire, expireTime, mutex, cur, timing, registered,
                   spoiled>>

-----------------------------------------------------------------------------
(* add_timer and add_timer_after.                                          *)

\* add_timer on an empty list, or in front of a later head.
AddFirst(h) ==
    LET c == timer[h]
    IN  /\ pc[h] = "add_lock" /\ mutex = Free
        /\ \/ /\ head = Null
              /\ tail' = c
              /\ UNCHANGED <<next, prev>>
           \/ /\ head # Null
              /\ expire[c] < expire[head]
              /\ next' = [next EXCEPT ![c] = head]
              /\ prev' = [prev EXCEPT ![head] = c]
              /\ UNCHANGED tail
        /\ head' = c
        /\ registered' = registered \cup {c}
        /\ Done(h)
        /\ UNCHANGED <<slots, mutex, cur, timing, spoiled>>

\* Variant: the search starts behind the head, which may be the last timer.
AddAfterSecond(h) ==
    /\ pc[h] = "add_lock" /\ mutex = Free
    /\ head # Null
    /\ expire[timer[h]] >= expire[head]
    /\ mutex' = h
    /\ cur' = [cur EXCEPT ![h] = next[head]]
    /\ Goto(h, "walk")
    /\ UNCHANGED <<links, slots, timer, timing, history>>

\* add_timer otherwise: search from the head, with the mutex held.
AddAfterHead(h) ==
    /\ pc[h] = "add_lock" /\ mutex = Free
    /\ head # Null
    /\ expire[timer[h]] >= expire[head]
    /\ mutex' = h
    /\ cur' = [cur EXCEPT ![h] = head]
    /\ Goto(h, "walk")
    /\ UNCHANGED <<links, slots, timer, timing, history>>

\* The loop condition of add_timer_after.
WalksOn(h) == /\ next[cur[h]] # Null
              /\ expire[timer[h]] > expire[next[cur[h]]]

Walk(h) ==
    /\ pc[h] = "walk"
    /\ WalksOn(h)
    /\ cur' = [cur EXCEPT ![h] = next[cur[h]]]
    /\ UNCHANGED <<links, slots, mutex, pc, timer, timing, history>>

\* add_timer_after once the place is found, and the unlock of its caller.
InsertAfter(h) ==
    LET c == timer[h]
        t == cur[h]
        n == next[t]
    IN  /\ pc[h] = "walk"
        /\ ~ WalksOn(h)
        /\ next' = [next EXCEPT ![c] = n, ![t] = c]
        /\ \/ /\ n = Null
              /\ prev' = [prev EXCEPT ![c] = t]
              /\ tail' = c
           \/ /\ n # Null
              /\ prev' = [prev EXCEPT ![c] = t, ![n] = c]
              /\ UNCHANGED tail
        /\ mutex' = Free
        /\ cur' = [cur EXCEPT ![h] = Null]
        /\ registered' = registered \cup {c}
        /\ Done(h)
        /\ UNCHANGED <<head, slots, timing, spoiled>>

-----------------------------------------------------------------------------
(* inc_timer and adjust_timer.                                             *)

\* Variant: the present time is not added.
RelativeExpiry(c) == expireTime[c]

NewExpiry(c) == now + expireTime[c]

\* Variant: inc_timer does not take the mutex.
RenewingUnlocked(h) ==
    /\ pc[h] = "inc_lock"
    /\ expire' = [expire EXCEPT ![timer[h]] = NewExpiry(timer[h])]
    /\ UNCHANGED <<expireTime, conn, timing, registered, spoiled>>

\* inc_timer takes the mutex and moves the expiry.
Renewing(h) ==
    /\ pc[h] = "inc_lock" /\ mutex = Free
    /\ expire' = [expire EXCEPT ![timer[h]] = NewExpiry(timer[h])]
    /\ UNCHANGED <<expireTime, conn, timing, registered, spoiled>>

\* adjust_timer returns at once: c is the tail, or still before its next.
RenewInPlace(h) ==
    LET c == timer[h]
    IN  /\ Renewing(h)
        /\ \/ c = tail
           \/ /\ c # tail /\ next[c] # Null
              /\ NewExpiry(c) < expire[next[c]]
        /\ Done(h)
        /\ UNCHANGED <<links, mutex, cur>>

\* adjust_timer, head branch: c leaves the list and add_timer locks the mutex
\* again, which h holds.
RenewHead(h) ==
    LET c == timer[h]
    IN  /\ Renewing(h)
        /\ c = head /\ c # tail /\ next[c] # Null
        /\ NewExpiry(c) >= expire[next[c]]
        /\ head' = next[c]
        /\ prev' = [prev EXCEPT ![next[c]] = Null]
        /\ next' = [next EXCEPT ![c] = Null]
        /\ mutex' = h
        /\ Goto(h, "add_lock")
        /\ UNCHANGED <<tail, timer, cur, crossed>>

\* adjust_timer, last branch: c is unlinked and placed again from its next.
RenewMiddle(h) ==
    LET c == timer[h]
    IN  /\ Renewing(h)
        /\ c # head /\ c # tail /\ next[c] # Null /\ prev[c] # Null
        /\ NewExpiry(c) >= expire[next[c]]
        /\ next' = [next EXCEPT ![prev[c]] = next[c], ![c] = Null]
        /\ prev' = [prev EXCEPT ![next[c]] = prev[c], ![c] = Null]
        /\ mutex' = h
        /\ cur' = [cur EXCEPT ![h] = next[c]]
        /\ Goto(h, "walk")
        /\ UNCHANGED <<head, tail, timer, crossed>>

-----------------------------------------------------------------------------
(* remove_timer.                                                           *)

\* The timer's own links are cleared in every branch.
Removing(h) ==
    /\ pc[h] = "rm_lock" /\ mutex = Free
    /\ registered' = registered \ {timer[h]}
    /\ Goto(h, "removefd")
    /\ UNCHANGED <<slots, mutex, timer, cur, timing, crossed, spoiled>>

RemoveHead(h) ==
    LET c == timer[h]
    IN  /\ Removing(h)
        /\ c = head
        /\ head' = next[c]
        /\ tail' = IF next[c] = Null THEN Null ELSE tail
        /\ prev' = [x \in Conns |-> IF x \in {c, next[c]} THEN Null ELSE prev[x]]
        /\ next' = [next EXCEPT ![c] = Null]

\* Variant: list->tail->next is not cleared.
RemoveTailOnly(h) ==
    LET c == timer[h]
    IN  /\ Removing(h)
        /\ c # head /\ c = tail /\ prev[c] # Null
        /\ tail' = prev[c]
        /\ next' = [next EXCEPT ![c] = Null]
        /\ prev' = [prev EXCEPT ![c] = Null]
        /\ UNCHANGED head

RemoveTail(h) ==
    LET c == timer[h]
    IN  /\ Removing(h)
        /\ c # head /\ c = tail /\ prev[c] # Null
        /\ tail' = prev[c]
        /\ next' = [x \in Conns |-> IF x \in {c, prev[c]} THEN Null ELSE next[x]]
        /\ prev' = [prev EXCEPT ![c] = Null]
        /\ UNCHANGED head

RemoveMiddle(h) ==
    LET c == timer[h]
    IN  /\ Removing(h)
        /\ c # head /\ c # tail
        /\ next[c] # Null /\ prev[c] # Null
        /\ next' = [next EXCEPT ![prev[c]] = next[c], ![c] = Null]
        /\ prev' = [prev EXCEPT ![next[c]] = prev[c], ![c] = Null]
        /\ UNCHANGED <<head, tail>>

\* The timer is not listed: CONNECT never came, an earlier shut has removed it,
\* or the list emptied meanwhile.
RemoveUnlisted(h) ==
    LET c == timer[h]
    IN  /\ Removing(h)
        /\ c # head /\ c # tail
        /\ next[c] = Null \/ prev[c] = Null
        /\ next' = [next EXCEPT ![c] = Null]
        /\ prev' = [prev EXCEPT ![c] = Null]
        /\ UNCHANGED <<head, tail>>

-----------------------------------------------------------------------------
(* The links inc_timer and remove_timer follow without a test.             *)

\* Variant: adjust_timer does not ask first whether the timer is the tail.
FollowsNullAtTail(h) ==
    LET c == timer[h]
    IN  IF pc[h] = "inc_lock"
        THEN next[c] # Null => /\ c # head /\ prev[c] = Null
                               /\ NewExpiry(c) >= expire[next[c]]
        ELSE pc[h] = "rm_lock" /\ c # head /\ c = tail /\ prev[c] = Null

\* adjust_timer reads timer->next and, away from the head, writes through
\* timer->prev; remove_timer writes through timer->prev at the tail.
FollowsNull(h) ==
    LET c == timer[h]
    IN  IF pc[h] = "inc_lock"
        THEN /\ c # tail
             /\ next[c] # Null => /\ c # head /\ prev[c] = Null
                                 /\ NewExpiry(c) >= expire[next[c]]
        ELSE pc[h] = "rm_lock" /\ c # head /\ c = tail /\ prev[c] = Null

\* The signal ends every thread of the process.
NullDereference(h) ==
    /\ mutex = Free
    /\ FollowsNull(h)
    /\ pc' = [t \in Threads |-> IF t = h THEN "crashed" ELSE "dead"]
    /\ UNCHANGED <<links, slots, mutex, timer, cur, timing, history>>

-----------------------------------------------------------------------------
(* SIGALRM and timer_tick, in the main thread.                             *)

\* The alarm rings and sig_handler puts the signal in the pipe.
Alarm ==
    /\ sigalrm = "armed" /\ pc[Main] # "dead"
    /\ sigalrm' = "pending"
    /\ UNCHANGED <<links, slots, mutex, pc, timer, cur, tickTime, now, history>>

\* et reads the pipe and timer_handler calls timer_tick: an empty list, read
\* without the mutex, ends it and the alarm is set again; otherwise the clock
\* is read before the mutex is taken.
TimerHandler ==
    /\ pc[Main] = "idle" /\ sigalrm = "pending"
    /\ \/ /\ head = Null
          /\ sigalrm' = "armed"
          /\ UNCHANGED <<pc, tickTime>>
       \/ /\ head # Null
          /\ sigalrm' = "handling"
          /\ tickTime' = now
          /\ Goto(Main, "tick_lock")
    /\ UNCHANGED <<links, slots, mutex, timer, cur, now, history>>

\* timer_tick with nothing expired, and the alarm(TIMESLOT) of timer_handler.
TickQuiet ==
    /\ pc[Main] = "tick_lock" /\ mutex = Free
    /\ head # Null => tickTime < expire[head]
    /\ sigalrm' = "armed"
    /\ tickTime' = 0
    /\ Goto(Main, "idle")
    /\ UNCHANGED <<links, slots, mutex, timer, cur, now, history>>

\* timer_tick with an expired head: data->dead_clean is shut_dead_conn, whose
\* remove_timer locks the mutex the tick holds.  That lock never returns, so
\* no step of Main follows.
TickExpired ==
    /\ pc[Main] = "tick_lock" /\ mutex = Free
    /\ head # Null /\ tickTime >= expire[head]
    /\ mutex' = Main
    /\ Goto(Main, "rm_lock")
    /\ UNCHANGED <<links, slots, timer, cur, timing, history>>

Advance ==
    /\ now < MaxTime /\ pc[Main] # "dead"
    /\ now' = now + 1
    /\ UNCHANGED <<links, slots, mutex, pc, timer, cur, tickTime, sigalrm,
                   history>>

-----------------------------------------------------------------------------
Client(h, c) == Connect(h, c) \/ Activity(h, c) \/ Shut(h, c)

AddTimer(h) == AddFirst(h) \/ AddAfterHead(h)

Search(h) == Walk(h) \/ InsertAfter(h)

IncTimer(h) == RenewInPlace(h) \/ RenewHead(h) \/ RenewMiddle(h)

RemoveTimer(h) == \/ RemoveHead(h) \/ RemoveTail(h)
                  \/ RemoveMiddle(h) \/ RemoveUnlisted(h)

Handler(h) == \/ AddTimer(h) \/ Search(h) \/ IncTimer(h)
              \/ RemoveTimer(h) \/ RemoveFd(h) \/ NullDereference(h)

Tick == Alarm \/ TimerHandler \/ TickQuiet \/ TickExpired

Next == \/ \E c \in Conns : Accept(c)
        \/ \E h \in Handlers, c \in Conns : Client(h, c)
        \/ \E h \in Handlers : Handler(h)
        \/ Tick
        \/ Advance

Spec == Init /\ [][Next]_vars

\* Every thread runs and the alarm rings.  Strong fairness where a thread waits
\* for the mutex: no waiter is starved for ever.  Clients owe nothing.
Fairness ==
    /\ \A h \in Handlers : /\ SF_vars(AddTimer(h))
                           /\ SF_vars(IncTimer(h) \/ RemoveTimer(h))
                           /\ WF_vars(Search(h) \/ RemoveFd(h))
    /\ SF_vars(TickQuiet \/ TickExpired)
    /\ WF_vars(Alarm \/ TimerHandler)

FairSpec == Spec /\ Fairness

-----------------------------------------------------------------------------
(* Properties.                                                             *)

\* Every variable has its type, and a search stands on a timer.
TypeOK ==
    /\ head \in Pointers /\ tail \in Pointers
    /\ next \in [Conns -> Pointers] /\ prev \in [Conns -> Pointers]
    /\ expire \in [Conns -> Nat] /\ expireTime \in [Conns -> 0 .. UINT16 - 1]
    /\ conn \in [Conns -> {"unused", "open", "closed"}]
    /\ mutex \in Threads \cup {Free}
    /\ pc \in [Threads -> HandlerPC \cup MainPC]
    /\ \A h \in Handlers : pc[h] \in HandlerPC
    /\ pc[Main] \in MainPC
    /\ timer \in [Handlers -> Pointers]
    /\ \A h \in Handlers : pc[h] \notin {"idle", "dead"} => timer[h] \in Conns
    /\ cur \in [Handlers -> Pointers]
    /\ \A h \in Handlers : pc[h] = "walk" => cur[h] \in Conns
    /\ tickTime \in Nat
    /\ sigalrm \in {"armed", "pending", "handling"}
    /\ now \in Nat
    /\ registered \subseteq Conns
    /\ crossed \subseteq Conns
    /\ spoiled \in BOOLEAN

\* The timer whose handler holds the mutex is between two places of the list.
Placing == {c \in Conns : \E h \in Handlers : mutex = h /\ timer[h] = c}

\* The pointers spell the sequence s of n timers: head and tail are its ends,
\* next and prev its neighbours, no timer occurs twice, the expiries never
\* fall, and a timer that is not in s has no links.
Spells(n, s) ==
    /\ head = IF n = 0 THEN Null ELSE s[1]
    /\ tail = IF n = 0 THEN Null ELSE s[n]
    /\ \A i \in 1 .. n :
          /\ prev[s[i]] = IF i = 1 THEN Null ELSE s[i - 1]
          /\ next[s[i]] = IF i = n THEN Null ELSE s[i + 1]
    /\ \A i, j \in 1 .. n :
          i < j => s[i] # s[j] /\ expire[s[i]] <= expire[s[j]]
    /\ \A c \in Conns \ {s[i] : i \in 1 .. n} : next[c] = Null /\ prev[c] = Null

\* Whatever the handlers do, on whatever slots, the list is exactly the
\* registered timers in order of expiry.  What breaks it is an expiry written
\* without the mutex over a timer that is in the list or on its way there: by
\* a second CONNECT, or by accept over a timer that a shut has left behind.
ListOK ==
    ~ spoiled =>
        \E n \in 0 .. Cardinality(Conns) : \E s \in [1 .. n -> Conns] :
            /\ Spells(n, s)
            /\ registered \ Placing = {s[i] : i \in 1 .. n}

\* What a thread may rely on between two of its steps.  The mutex is held by a
\* search, or by a thread that waits for itself, and every search holds it.
\* While no expiry is overwritten a search stands on a listed timer that does
\* not expire later than its own, and only one handler at a time is placing a
\* given timer.
ThreadsOK ==
    \A h \in Handlers :
        /\ pc[h] = "walk" => mutex = h
        /\ mutex = h => pc[h] \in {"walk", "add_lock"}
        /\ pc[h] = "walk" /\ ~ spoiled =>
              /\ cur[h] \in registered \ Placing
              /\ expire[cur[h]] <= expire[timer[h]]
        /\ ~ spoiled => \A g \in Handlers : \A c \in Conns :
              Adding(g, c) /\ Adding(h, c) => g = h

\* Renewing a timer follows timer->next without a test.  The process dies of it
\* only when PUBLISH or PINGREQ falls on a timer that is not registered: before
\* CONNECT, or after another handler's shut of the slot.
CrashOnlyUnlisted ==
    ~ spoiled => \A h \in Handlers : pc[h] = "crashed" => timer[h] \notin registered

\* When the handler that shuts a slot comes to close the descriptor, and has
\* been alone on the slot since it began, the timer is off the list, so whoever
\* gets the slot next starts with a timer that is in nobody's list.
ClosedOffList ==
    ~ spoiled => \A h \in Handlers :
        pc[h] = "removefd" /\ timer[h] \notin crossed =>
            LET c == timer[h]
            IN  c # head /\ c # tail /\ next[c] = Null /\ prev[c] = Null

\* client_ds.h says dead_clean shuts down a connection that has been inactive
\* for long: an expired connection is closed, unless its client speaks again.
ExpiredIsShut ==
    \A c \in Conns :
        conn[c] = "open" /\ c \in registered /\ now >= expire[c]
            ~> conn[c] = "closed" \/ now < expire[c] \/ pc[Main] = "dead"

\* What the list promises: see TimerSet.  A timer whose handler holds the mutex
\* is between two places of the list and still registered.
Listed == {c \in Conns : c = head \/ prev[c] # Null \/ c \in Placing}

Abstract == INSTANCE TimerSet WITH
    deadline <- [c \in Listed |-> expire[c]],
    due <- IF pc[Main] = "rm_lock" THEN head ELSE Null

ImplementsTimerSet == Abstract!Spec
=============================================================================

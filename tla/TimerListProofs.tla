-------------------------- MODULE TimerListProofs ---------------------------
(***************************************************************************)
(* Proofs about TimerList, for any number of connections and handlers, any *)
(* keep-alives and an unbounded clock (MaxTime is any natural number).     *)
(***************************************************************************)
EXTENDS TimerList, FiniteSetTheorems, TLAPS

-----------------------------------------------------------------------------
(* Types.                                                                  *)

\* A remainder is below its divisor.
LEMMA RemainderType == \A a \in Nat, m \in Nat \ {0} : a % m \in 0 .. m - 1
  BY SMT

LEMMA WidthType == UINT16 \in Nat \ {0}
  BY SMT DEF UINT16

\* expire_time is a uint16_t whatever the keep-alive.
LEMMA ExpireTimeType == \A a \in Nat : ExpireTime(a) \in 0 .. UINT16 - 1
<1> SUFFICES ASSUME NEW a \in Nat PROVE ExpireTime(a) \in 0 .. UINT16 - 1
  OBVIOUS
<1> DEFINE x == IF a = 0 THEN 30 ELSE a
<1>1. x + x \div 2 \in Nat
  BY SMT
<1> QED BY <1>1, WidthType, RemainderType DEF ExpireTime

\* Every overwriting of an expiry leaves a Boolean.
LEMMA OverwritesType ==
    ASSUME TypeOK, NEW c, Overwrites(c)
    PROVE  spoiled' \in BOOLEAN /\ (~ spoiled' => ~ spoiled)
<1> DEFINE X == c \in registered \/ \E h \in Handlers : Adding(h, c)
<1>1. spoiled \in BOOLEAN
  BY DEF TypeOK
<1>2. spoiled' = IF X THEN TRUE ELSE spoiled
  BY DEF Overwrites
<1> HIDE DEF X
<1>3. CASE X
  <2>1. spoiled' = TRUE
    BY <1>2, <1>3
  <2> QED BY <2>1, Zenon
<1>4. CASE ~ X
  <2>1. spoiled' = spoiled
    BY <1>2, <1>4
  <2>2. spoiled' \in BOOLEAN
    BY <1>1, <2>1, Zenon
  <2>3. ~ spoiled' => ~ spoiled
    BY <2>1, Zenon
  <2> QED BY <2>2, <2>3, Zenon
<1> QED BY <1>3, <1>4, Zenon

\* TypeOK needs no help: each action assigns values of the right kind.
THEOREM TypeCorrect == Spec => []TypeOK
<1>1. Init => TypeOK
  <2> SUFFICES ASSUME Init PROVE TypeOK
    OBVIOUS
  <2>1. spoiled \in BOOLEAN
    BY Zenon DEF Init
  <2> QED BY <2>1, ConstantsOK, WidthType
          DEF Init, TypeOK, HandlerPC, MainPC, Threads, Pointers
<1>2. TypeOK /\ [Next]_vars => TypeOK'
  <2> SUFFICES ASSUME TypeOK, [Next]_vars PROVE TypeOK'
    OBVIOUS
  <2>0. TypeOK
    OBVIOUS
  <2> USE ConstantsOK DEF HandlerPC, MainPC, Threads, Pointers, Goto
  <2>1. ASSUME NEW c \in Conns, Accept(c) PROVE TypeOK'
    <3>1. spoiled' \in BOOLEAN
      BY <2>0, <2>1, OverwritesType DEF Accept
    <3> QED BY <2>0, <2>1, <3>1 DEF Accept, links, timing, TIMESLOT, TypeOK
  <2>2. ASSUME NEW h \in Handlers, NEW c \in Conns, Client(h, c) PROVE TypeOK'
    <3>1. CASE Connect(h, c)
      <4>1. spoiled' \in BOOLEAN
        BY <2>0, <3>1, OverwritesType DEF Connect
      <4>2. crossed' \subseteq Conns
        BY <2>0, <3>1 DEF Connect, Takes, TypeOK
      <4>3. /\ expireTime' \in [Conns -> 0 .. UINT16 - 1]
            /\ expire' \in [Conns -> Nat]
        BY <2>0, <3>1, ExpireTimeType, WidthType DEF Connect, TypeOK
      <4>4. /\ timer' = [timer EXCEPT ![h] = c]
            /\ pc' = [pc EXCEPT ![h] = "add_lock"]
            /\ UNCHANGED <<head, tail, next, prev, conn, mutex, cur, tickTime,
                           sigalrm, now, registered>>
        BY <3>1 DEF Connect, Takes, links, timing
      <4> HIDE DEF Goto
      <4> QED BY <2>0, <4>1, <4>2, <4>3, <4>4 DEF TypeOK
    <3>2. ASSUME NEW label \in {"inc_lock", "rm_lock", "removefd"},
                 Takes(h, c, label),
                 UNCHANGED <<links, slots, mutex, cur, timing, registered, spoiled>>
          PROVE  TypeOK'
      <4>1. crossed' \subseteq Conns
        BY <2>0, <3>2 DEF Takes, TypeOK
      <4>2. spoiled' \in BOOLEAN
        BY <2>0, <3>2, Zenon DEF TypeOK
      <4>3. /\ timer' = [timer EXCEPT ![h] = c]
            /\ pc' = [pc EXCEPT ![h] = label]
            /\ UNCHANGED <<head, tail, next, prev, expire, expireTime, conn,
                           mutex, cur, tickTime, sigalrm, now, registered>>
        BY <3>2 DEF Takes, links, slots, timing
      <4> QED BY <2>0, <4>1, <4>2, <4>3 DEF TypeOK
    <3>3. CASE Activity(h, c)
      BY <3>2, <3>3 DEF Activity
    <3>4. CASE Shut(h, c)
      BY <3>2, <3>4 DEF Shut
    <3> QED BY <2>2, <3>1, <3>3, <3>4 DEF Client
  <2>3. ASSUME NEW h \in Handlers, Handler(h), spoiled' = spoiled,
               crossed' \subseteq Conns, registered' \subseteq Conns
        PROVE  TypeOK'
    <3>0. spoiled' \in BOOLEAN
      BY <2>0, <2>3, Zenon DEF TypeOK
    <3> USE <2>0, <2>3, <3>0 DEF TypeOK
    <3>1. CASE AddFirst(h)
      BY <3>1 DEF AddFirst, Done, slots, timing
    <3>2. CASE AddAfterHead(h)
      BY <3>2 DEF AddAfterHead, slots, links, timing
    <3>3. CASE Walk(h)
      BY <3>3 DEF Walk, WalksOn, slots, links, timing
    <3>4. CASE InsertAfter(h)
      BY <3>4 DEF InsertAfter, Done, slots, timing
    <3>5. CASE IncTimer(h)
      <4>1. Renewing(h)
        BY <3>5 DEF IncTimer, RenewInPlace, RenewHead, RenewMiddle
      <4>2. /\ expire' \in [Conns -> Nat] /\ timer[h] \in Conns
            /\ UNCHANGED <<expireTime, conn, tickTime, sigalrm, now>>
        BY <4>1 DEF Renewing, NewExpiry, timing
      <4>3. CASE RenewInPlace(h)
        BY <4>2, <4>3 DEF RenewInPlace, Done, links
      <4>4. CASE RenewHead(h)
        BY <4>2, <4>4 DEF RenewHead
      <4>5. CASE RenewMiddle(h)
        BY <4>2, <4>5 DEF RenewMiddle
      <4> QED BY <3>5, <4>3, <4>4, <4>5 DEF IncTimer
    <3>6. CASE RemoveTimer(h)
      <4>1. Removing(h)
        BY <3>6 DEF RemoveTimer, RemoveHead, RemoveTail, RemoveMiddle,
                    RemoveUnlisted
      <4>2. /\ pc' = [pc EXCEPT ![h] = "removefd"] /\ timer[h] \in Conns
            /\ UNCHANGED <<expire, expireTime, conn, mutex, timer, cur,
                           tickTime, sigalrm, now>>
        BY <4>1 DEF Removing, slots, timing
      <4>3. CASE RemoveHead(h)
        BY <4>2, <4>3 DEF RemoveHead
      <4>4. CASE RemoveTail(h)
        BY <4>2, <4>4 DEF RemoveTail
      <4>5. CASE RemoveMiddle(h)
        BY <4>2, <4>5 DEF RemoveMiddle
      <4>6. CASE RemoveUnlisted(h)
        BY <4>2, <4>6 DEF RemoveUnlisted
      <4> QED BY <3>6, <4>3, <4>4, <4>5, <4>6 DEF RemoveTimer
    <3>7. CASE RemoveFd(h)
      BY <3>7 DEF RemoveFd, Done, links, timing
    <3>8. CASE NullDereference(h)
      BY <3>8 DEF NullDereference, FollowsNull, links, slots, timing
    <3> QED BY <3>1, <3>2, <3>3, <3>4, <3>5, <3>6, <3>7, <3>8
            DEF Handler, AddTimer, Search
  <2>4. ASSUME NEW h \in Handlers, Handler(h) PROVE TypeOK'
    <3>1. CASE AddFirst(h) \/ InsertAfter(h)
      <4>1. /\ spoiled' = spoiled /\ timer[h] \in Conns
            /\ registered' = registered \cup {timer[h]} /\ crossed' \subseteq crossed
        BY <2>0, <3>1 DEF AddFirst, InsertAfter, Done, TypeOK
      <4> QED BY <2>0, <2>3, <2>4, <4>1 DEF TypeOK
    <3>2. CASE ~ (AddFirst(h) \/ InsertAfter(h))
      <4>1. /\ spoiled' = spoiled
            /\ registered' \subseteq registered /\ crossed' \subseteq crossed
        BY <2>4, <3>2 DEF Handler, AddTimer, AddAfterHead, Search, Walk, IncTimer,
           RenewInPlace, RenewHead, RenewMiddle, Renewing, RemoveTimer,
           RemoveHead, RemoveTail, RemoveMiddle, RemoveUnlisted, Removing,
           RemoveFd, NullDereference, Done, history
      <4> QED BY <2>0, <2>3, <2>4, <4>1 DEF TypeOK
    <3> QED BY <3>1, <3>2
  <2>5. CASE Tick \/ Advance \/ UNCHANGED vars
    <3>1. spoiled' = spoiled /\ UNCHANGED <<registered, crossed>>
      BY <2>5 DEF Tick, Alarm, TimerHandler, TickQuiet, TickExpired, Advance,
                  vars, history
    <3>2. spoiled' \in BOOLEAN
      BY <2>0, <3>1, Zenon DEF TypeOK
    <3> USE <2>0, <3>1, <3>2 DEF TypeOK, links, slots, timing
    <3>3. CASE Alarm
      BY <3>3 DEF Alarm
    <3>4. CASE TimerHandler
      BY <3>4 DEF TimerHandler
    <3>5. CASE TickQuiet
      BY <3>5 DEF TickQuiet
    <3>6. CASE TickExpired
      BY <3>6 DEF TickExpired
    <3>7. CASE Advance
      BY <3>7 DEF Advance
    <3>8. CASE UNCHANGED vars
      BY <3>8 DEF vars
    <3> QED BY <2>5, <3>3, <3>4, <3>5, <3>6, <3>7, <3>8 DEF Tick
  <2> QED BY <2>1, <2>2, <2>4, <2>5 DEF Next
<1> QED BY <1>1, <1>2, PTL DEF Spec

-----------------------------------------------------------------------------
(* Sequences of timers as functions on 1 .. n, and what inserting or       *)
(* removing one does to the pointers that spell them.                      *)

Timers(s, n) == {s[i] : i \in 1 .. n}

\* c behind the first k of the n timers of s.
Inserted(s, n, k, c) ==
    [i \in 1 .. n + 1 |-> IF i <= k THEN s[i] ELSE IF i = k + 1 THEN c ELSE s[i - 1]]

\* The n timers of s without the k-th.
Removed(s, n, k) == [i \in 1 .. n - 1 |-> IF i < k THEN s[i] ELSE s[i + 1]]

\* Spells, for any values of the variables it reads.
Spelled(n, s, hd, tl, nx, pv, ex) ==
    /\ hd = IF n = 0 THEN Null ELSE s[1]
    /\ tl = IF n = 0 THEN Null ELSE s[n]
    /\ \A i \in 1 .. n :
          /\ pv[s[i]] = IF i = 1 THEN Null ELSE s[i - 1]
          /\ nx[s[i]] = IF i = n THEN Null ELSE s[i + 1]
    /\ \A i, j \in 1 .. n : i < j => s[i] # s[j] /\ ex[s[i]] <= ex[s[j]]
    /\ \A c \in Conns \ Timers(s, n) : nx[c] = Null /\ pv[c] = Null

LEMMA InsertedType ==
    ASSUME NEW n \in Nat, NEW s \in [1 .. n -> Conns], NEW k \in 0 .. n,
           NEW c \in Conns
    PROVE  /\ Inserted(s, n, k, c) \in [1 .. n + 1 -> Conns]
           /\ Timers(Inserted(s, n, k, c), n + 1) = Timers(s, n) \cup {c}
<1> DEFINE t == Inserted(s, n, k, c)
<1>1. t \in [1 .. n + 1 -> Conns]
  BY DEF Inserted
<1>2. Timers(t, n + 1) \subseteq Timers(s, n) \cup {c}
  BY DEF Inserted, Timers
<1>3. c \in Timers(t, n + 1)
  <2>1. k + 1 \in 1 .. n + 1 /\ t[k + 1] = c
    BY DEF Inserted
  <2> QED BY <2>1 DEF Timers
<1>4. ASSUME NEW i \in 1 .. n PROVE s[i] \in Timers(t, n + 1)
  <2>1. CASE i <= k
    <3>1. i \in 1 .. n + 1 /\ t[i] = s[i]
      BY <2>1 DEF Inserted
    <3> QED BY <3>1 DEF Timers
  <2>2. CASE i > k
    <3>1. i + 1 \in 1 .. n + 1 /\ t[i + 1] = s[i]
      BY <2>2 DEF Inserted
    <3> QED BY <3>1 DEF Timers
  <2> QED BY <2>1, <2>2
<1> QED BY <1>1, <1>2, <1>3, <1>4 DEF Timers

LEMMA RemovedType ==
    ASSUME NEW n \in Nat, NEW s \in [1 .. n -> Conns], NEW k \in 1 .. n,
           \A i, j \in 1 .. n : i < j => s[i] # s[j]
    PROVE  /\ n - 1 \in Nat
           /\ Removed(s, n, k) \in [1 .. n - 1 -> Conns]
           /\ Timers(Removed(s, n, k), n - 1) = Timers(s, n) \ {s[k]}
<1> DEFINE t == Removed(s, n, k)
<1>1. n - 1 \in Nat /\ t \in [1 .. n - 1 -> Conns]
  BY DEF Removed
<1>2. \A i, j \in 1 .. n : i # j => s[i] # s[j]
  OBVIOUS
<1>3. ASSUME NEW i \in 1 .. n - 1 PROVE t[i] \in Timers(s, n) \ {s[k]}
  <2>1. CASE i < k
    BY <2>1, <1>2 DEF Removed, Timers
  <2>2. CASE i >= k
    <3>1. i + 1 \in 1 .. n /\ i + 1 # k /\ t[i] = s[i + 1]
      BY <2>2 DEF Removed
    <3> QED BY <3>1, <1>2 DEF Timers
  <2> QED BY <2>1, <2>2
<1>4. ASSUME NEW i \in 1 .. n, i # k PROVE s[i] \in Timers(t, n - 1)
  <2>1. CASE i < k
    <3>1. i \in 1 .. n - 1 /\ t[i] = s[i]
      BY <2>1 DEF Removed
    <3> QED BY <3>1 DEF Timers
  <2>2. CASE i > k
    <3>1. i - 1 \in 1 .. n - 1 /\ t[i - 1] = s[i]
      BY <2>2 DEF Removed
    <3> QED BY <3>1 DEF Timers
  <2> QED BY <1>4, <2>1, <2>2
<1> HIDE DEF t
<1>5. Timers(t, n - 1) \subseteq Timers(s, n) \ {s[k]}
  BY <1>3 DEF Timers
<1>6. Timers(s, n) \ {s[k]} \subseteq Timers(t, n - 1)
  BY <1>4 DEF Timers
<1>7. t = Removed(s, n, k)
  BY DEF t
<1> QED BY <1>1, <1>5, <1>6, <1>7

\* c expires no earlier than the k-th timer and no later than the one behind.
Fits(n, s, k, c, ex) == /\ k > 0 => ex[s[k]] <= ex[c]
                        /\ k < n => ex[c] <= ex[s[k + 1]]

\* The assignments of add_timer and add_timer_after: c goes behind the k-th.
LinksIn(n, s, k, c, nx, pv, nx1, pv1) ==
    /\ nx1[c] = IF k = n THEN Null ELSE s[k + 1]
    /\ pv1[c] = IF k = 0 THEN Null ELSE s[k]
    /\ k > 0 => nx1[s[k]] = c
    /\ k < n => pv1[s[k + 1]] = c
    /\ \A d \in Conns : d # c /\ (k > 0 => d # s[k]) => nx1[d] = nx[d]
    /\ \A d \in Conns : d # c /\ (k < n => d # s[k + 1]) => pv1[d] = pv[d]

\* The assignments of remove_timer and of adjust_timer: the k-th leaves.
LinksOut(n, s, k, nx, pv, nx1, pv1) ==
    /\ nx1[s[k]] = Null /\ pv1[s[k]] = Null
    /\ k > 1 => nx1[s[k - 1]] = nx[s[k]]
    /\ k < n => pv1[s[k + 1]] = pv[s[k]]
    /\ \A d \in Conns :
          d # s[k] /\ (k > 1 => d # s[k - 1]) => nx1[d] = nx[d]
    /\ \A d \in Conns :
          d # s[k] /\ (k < n => d # s[k + 1]) => pv1[d] = pv[d]

\* Inserting c where its expiry belongs.
LEMMA InsertedSpelled ==
    ASSUME NEW n \in Nat, NEW s \in [1 .. n -> Conns], NEW k \in 0 .. n,
           NEW hd, NEW tl, NEW nx, NEW pv, NEW ex \in [Conns -> Nat],
           Spelled(n, s, hd, tl, nx, pv, ex),
           NEW c \in Conns, c \notin Timers(s, n),
           Fits(n, s, k, c, ex),
           NEW nx1, NEW pv1, LinksIn(n, s, k, c, nx, pv, nx1, pv1)
    PROVE  Spelled(n + 1, Inserted(s, n, k, c), IF k = 0 THEN c ELSE hd,
                   IF k = n THEN c ELSE tl, nx1, pv1, ex)
<1> DEFINE t == Inserted(s, n, k, c)
<1>1. t \in [1 .. n + 1 -> Conns]
  BY InsertedType
<1>2. \A i \in 1 .. n + 1 : t[i] = IF i <= k THEN s[i]
                                ELSE IF i = k + 1 THEN c ELSE s[i - 1]
  BY DEF Inserted
<1>3. Timers(t, n + 1) = Timers(s, n) \cup {c}
  BY InsertedType
<1>4. \A i, j \in 1 .. n : i # j => s[i] # s[j]
  BY DEF Spelled
<1>5. \A i \in 1 .. n : s[i] # c
  BY DEF Timers
<1> HIDE DEF t
<1>6. t[1] = IF k = 0 THEN c ELSE hd
  <2>1. k > 0 => hd = s[1]
    BY DEF Spelled
  <2> QED BY <2>1, <1>2
<1>7. t[n + 1] = IF k = n THEN c ELSE tl
  <2>1. k < n => tl = s[n]
    BY DEF Spelled
  <2> QED BY <2>1, <1>2
<1>8. ASSUME NEW i \in 1 .. n + 1
      PROVE  /\ pv1[t[i]] = IF i = 1 THEN Null ELSE t[i - 1]
             /\ nx1[t[i]] = IF i = n + 1 THEN Null ELSE t[i + 1]
  <2>1. CASE i <= k
    <3>1. /\ i \in 1 .. n /\ t[i] = s[i] /\ (i > 1 => t[i - 1] = s[i - 1])
          /\ t[i + 1] = IF i = k THEN c ELSE s[i + 1]
      <4>1. i \in 1 .. n /\ t[i] = s[i]
        BY <2>1, <1>2
      <4>2. i > 1 => t[i - 1] = s[i - 1]
        BY <2>1, <1>2
      <4>3. i + 1 \in 1 .. n + 1 /\ (i + 1 <= k <=> i # k) /\ (i + 1) - 1 = i
        BY <2>1
      <4>4. t[i + 1] = IF i = k THEN c ELSE s[i + 1]
        BY <2>1, <4>3, <1>2
      <4> QED BY <4>1, <4>2, <4>4
    <3>2. pv1[s[i]] = pv[s[i]]
      BY <2>1, <1>4, <1>5 DEF LinksIn
    <3>3. nx1[s[i]] = IF i = k THEN c ELSE nx[s[i]]
      BY <2>1, <1>4, <1>5 DEF LinksIn
    <3>4. /\ pv[s[i]] = IF i = 1 THEN Null ELSE s[i - 1]
          /\ nx[s[i]] = IF i = n THEN Null ELSE s[i + 1]
      BY <3>1 DEF Spelled
    <3>5. i # n + 1 /\ (i # k => i < n) /\ (i # 1 => i > 1)
      BY <2>1
    <3>6. pv1[t[i]] = IF i = 1 THEN Null ELSE t[i - 1]
      BY <3>1, <3>2, <3>4, <3>5
    <3>7. nx1[t[i]] = IF i = n + 1 THEN Null ELSE t[i + 1]
      BY <3>1, <3>3, <3>4, <3>5
    <3> QED BY <3>6, <3>7
  <2>2. CASE i = k + 1
    <3>1. /\ t[i] = c
          /\ k > 0 => t[i - 1] = s[k]
          /\ k < n => t[i + 1] = s[k + 1]
      BY <2>2, <1>2
    <3> QED BY <2>2, <3>1 DEF LinksIn
  <2>3. CASE i > k + 1
    <3> DEFINE a == i - 1
    <3>1. /\ a \in 1 .. n /\ t[i] = s[a]
          /\ t[a] = IF a = k + 1 THEN c ELSE s[a - 1]
          /\ i < n + 1 => t[i + 1] = s[a + 1]
      BY <2>3, <1>2
    <3>2. nx1[s[a]] = nx[s[a]]
      BY <2>3, <3>1, <1>4, <1>5 DEF LinksIn
    <3>3. pv1[s[a]] = IF a = k + 1 THEN c ELSE pv[s[a]]
      BY <2>3, <3>1, <1>4, <1>5 DEF LinksIn
    <3>4. /\ pv[s[a]] = IF a = 1 THEN Null ELSE s[a - 1]
          /\ nx[s[a]] = IF a = n THEN Null ELSE s[a + 1]
      BY <3>1 DEF Spelled
    <3>5. (a = n <=> i = n + 1) /\ i # 1 /\ (a = 1 => a = k + 1)
      BY <2>3
    <3> QED BY <3>1, <3>2, <3>3, <3>4, <3>5
  <2> QED BY <2>1, <2>2, <2>3
<1>9. ASSUME NEW a \in 1 .. k PROVE a \in 1 .. n /\ ex[s[a]] <= ex[c]
  <2>1. a < k => ex[s[a]] <= ex[s[k]]
    BY DEF Spelled
  <2>2. ex[s[k]] <= ex[c]
    BY DEF Fits
  <2> QED BY <2>1, <2>2
<1>10. ASSUME NEW a \in k + 1 .. n PROVE a \in 1 .. n /\ ex[c] <= ex[s[a]]
  <2>1. k + 1 < a => ex[s[k + 1]] <= ex[s[a]]
    BY DEF Spelled
  <2>2. ex[c] <= ex[s[k + 1]]
    BY DEF Fits
  <2> QED BY <2>1, <2>2
<1>11. ASSUME NEW i \in 1 .. n + 1, NEW j \in 1 .. n + 1, i < j
       PROVE  t[i] # t[j] /\ ex[t[i]] <= ex[t[j]]
  <2>1. CASE i # k + 1 /\ j # k + 1
    <3>1. PICK a \in 1 .. n : a = (IF i <= k THEN i ELSE i - 1) /\ t[i] = s[a]
      BY <2>1, <1>2
    <3>2. PICK b \in 1 .. n : b = (IF j <= k THEN j ELSE j - 1) /\ t[j] = s[b]
      BY <2>1, <1>2
    <3>3. a < b
      BY <1>11, <2>1, <3>1, <3>2
    <3> QED BY <3>1, <3>2, <3>3 DEF Spelled
  <2>2. CASE j = k + 1
    <3>1. t[j] = c /\ t[i] = s[i] /\ i \in 1 .. k
      BY <1>11, <2>2, <1>2
    <3> QED BY <3>1, <1>5, <1>9
  <2>3. CASE i = k + 1
    <3>1. t[i] = c /\ t[j] = s[j - 1] /\ j - 1 \in k + 1 .. n
      BY <1>11, <2>3, <1>2
    <3> QED BY <3>1, <1>5, <1>10
  <2> QED BY <2>1, <2>2, <2>3
<1>12. ASSUME NEW d \in Conns \ Timers(t, n + 1)
       PROVE  nx1[d] = Null /\ pv1[d] = Null
  <2>1. d # c /\ d \notin Timers(s, n)
    BY <1>3
  <2>2. \A i \in 1 .. n : s[i] # d
    BY <2>1 DEF Timers
  <2>3. nx1[d] = nx[d] /\ pv1[d] = pv[d]
    BY <2>1, <2>2 DEF LinksIn
  <2> QED BY <2>1, <2>3 DEF Spelled
<1>13. Spelled(n + 1, t, IF k = 0 THEN c ELSE hd, IF k = n THEN c ELSE tl,
               nx1, pv1, ex)
  BY <1>6, <1>7, <1>8, <1>11, <1>12 DEF Spelled
<1> QED BY <1>13 DEF t

\* Unlinking the k-th timer, whose own expiry may change with it.
LEMMA RemovedSpelled ==
    ASSUME NEW n \in Nat, NEW s \in [1 .. n -> Conns], NEW k \in 1 .. n,
           NEW hd, NEW tl, NEW nx, NEW pv, NEW ex \in [Conns -> Nat],
           Spelled(n, s, hd, tl, nx, pv, ex),
           NEW nx1, NEW pv1, NEW ex1,
           LinksOut(n, s, k, nx, pv, nx1, pv1),
           \A d \in Conns : d # s[k] => ex1[d] = ex[d]
    PROVE  Spelled(n - 1, Removed(s, n, k), IF k = 1 THEN nx[hd] ELSE hd,
                   IF k = n THEN pv[tl] ELSE tl, nx1, pv1, ex1)
<1> DEFINE t == Removed(s, n, k)
<1>1. t \in [1 .. n - 1 -> Conns]
  BY DEF Removed
<1>2. \A i \in 1 .. n - 1 : t[i] = IF i < k THEN s[i] ELSE s[i + 1]
  BY DEF Removed
<1>3. \A i, j \in 1 .. n : i < j => s[i] # s[j]
  BY DEF Spelled
<1>4. \A i, j \in 1 .. n : i # j => s[i] # s[j]
  BY <1>3
<1>5. Timers(t, n - 1) = Timers(s, n) \ {s[k]}
  BY <1>3, RemovedType
<1> HIDE DEF t
<1>6. (IF k = 1 THEN nx[hd] ELSE hd) = IF n - 1 = 0 THEN Null ELSE t[1]
  BY <1>2 DEF Spelled
<1>7. (IF k = n THEN pv[tl] ELSE tl) = IF n - 1 = 0 THEN Null ELSE t[n - 1]
  BY <1>2 DEF Spelled
<1>8. ASSUME NEW i \in 1 .. n - 1
      PROVE  /\ pv1[t[i]] = IF i = 1 THEN Null ELSE t[i - 1]
             /\ nx1[t[i]] = IF i = n - 1 THEN Null ELSE t[i + 1]
  <2>1. CASE i < k
    <3>1. /\ i \in 1 .. n /\ t[i] = s[i] /\ (i > 1 => t[i - 1] = s[i - 1])
          /\ i < n - 1 => t[i + 1] = IF i + 1 = k THEN s[k + 1] ELSE s[i + 1]
      <4>1. i \in 1 .. n /\ t[i] = s[i]
        BY <2>1, <1>2
      <4>2. i > 1 => t[i - 1] = s[i - 1]
        BY <2>1, <1>2
      <4>3. ASSUME i < n - 1, i + 1 = k PROVE t[i + 1] = s[k + 1]
        BY <4>3, <1>2
      <4>4. ASSUME i < n - 1, i + 1 # k PROVE t[i + 1] = s[i + 1]
        BY <2>1, <4>4, <1>2
      <4> QED BY <4>1, <4>2, <4>3, <4>4
    <3>2. pv1[s[i]] = pv[s[i]]
      BY <2>1, <1>4 DEF LinksOut
    <3>3. CASE i + 1 = k
      <4>1. s[k - 1] = s[i] /\ k > 1
        BY <3>3
      <4>2. nx1[s[i]] = nx[s[k]]
        BY <4>1 DEF LinksOut
      <4>3. /\ pv[s[i]] = IF i = 1 THEN Null ELSE s[i - 1]
            /\ nx[s[k]] = IF k = n THEN Null ELSE s[k + 1]
        BY <3>1 DEF Spelled
      <4> QED BY <3>1, <3>2, <3>3, <4>2, <4>3
    <3>4. CASE i + 1 # k
      <4>1. nx1[s[i]] = nx[s[i]]
        BY <2>1, <3>1, <3>4, <1>4 DEF LinksOut
      <4>2. /\ pv[s[i]] = IF i = 1 THEN Null ELSE s[i - 1]
            /\ nx[s[i]] = IF i = n THEN Null ELSE s[i + 1]
        BY <3>1 DEF Spelled
      <4> QED BY <2>1, <3>1, <3>2, <3>4, <4>1, <4>2
    <3> QED BY <3>3, <3>4
  <2>2. CASE i >= k
    <3> DEFINE a == i + 1
    <3>1. a \in 1 .. n /\ a # k /\ t[i] = s[a]
      BY <2>2, <1>2
    <3>2. i < n - 1 => t[i + 1] = s[a + 1]
      BY <2>2, <1>2
    <3>3. nx1[s[a]] = nx[s[a]]
      <4>1. s[a] # s[k] /\ (k > 1 => k - 1 \in 1 .. n /\ s[a] # s[k - 1])
        BY <2>2, <3>1, <1>4
      <4> QED BY <3>1, <4>1 DEF LinksOut
    <3>4. nx[s[a]] = IF a = n THEN Null ELSE s[a + 1]
      BY <3>1 DEF Spelled
    <3>5. nx1[t[i]] = IF i = n - 1 THEN Null ELSE t[i + 1]
      BY <3>1, <3>2, <3>3, <3>4
    <3>6. CASE i = k
      <4>1. i > 1 => t[i - 1] = s[k - 1]
        BY <3>6, <1>2
      <4>2. pv1[s[a]] = pv[s[k]]
        BY <3>6, <3>1 DEF LinksOut
      <4>3. pv[s[k]] = IF k = 1 THEN Null ELSE s[k - 1]
        BY DEF Spelled
      <4> QED BY <3>1, <3>5, <3>6, <4>1, <4>2, <4>3
    <3>7. CASE i # k
      <4>1. i > 1 /\ t[i - 1] = s[i]
        BY <2>2, <3>7, <1>2
      <4>2. s[a] # s[k] /\ (k < n => k + 1 \in 1 .. n /\ s[a] # s[k + 1])
        BY <2>2, <3>1, <3>7, <1>4
      <4>3. pv1[s[a]] = pv[s[a]]
        BY <3>1, <4>2 DEF LinksOut
      <4>4. pv[s[a]] = IF a = 1 THEN Null ELSE s[a - 1]
        BY <3>1 DEF Spelled
      <4> QED BY <3>1, <3>5, <4>1, <4>3, <4>4
    <3> QED BY <3>6, <3>7
  <2> QED BY <2>1, <2>2
<1>9. ASSUME NEW i \in 1 .. n - 1, NEW j \in 1 .. n - 1, i < j
      PROVE  t[i] # t[j] /\ ex1[t[i]] <= ex1[t[j]]
  <2> DEFINE a == IF i < k THEN i ELSE i + 1
             b == IF j < k THEN j ELSE j + 1
  <2>1. a \in 1 .. n /\ t[i] = s[a] /\ a # k
    BY <1>2
  <2>2. b \in 1 .. n /\ t[j] = s[b] /\ b # k
    BY <1>2
  <2>3. a < b
    BY <1>9
  <2> HIDE DEF a, b
  <2>4. ex1[s[a]] = ex[s[a]] /\ ex1[s[b]] = ex[s[b]]
    BY <2>1, <2>2, <1>4
  <2> QED BY <2>1, <2>2, <2>3, <2>4 DEF Spelled
<1>10. ASSUME NEW d \in Conns \ Timers(t, n - 1)
       PROVE  nx1[d] = Null /\ pv1[d] = Null
  <2>1. CASE d = s[k]
    BY <2>1 DEF LinksOut
  <2>2. CASE d # s[k]
    <3>1. d \notin Timers(s, n)
      BY <2>2, <1>5
    <3>2. \A i \in 1 .. n : s[i] # d
      BY <3>1 DEF Timers
    <3>3. nx1[d] = nx[d] /\ pv1[d] = pv[d]
      BY <2>2, <3>2 DEF LinksOut
    <3> QED BY <3>1, <3>3 DEF Spelled
  <2> QED BY <2>1, <2>2
<1>11. Spelled(n - 1, t, IF k = 1 THEN nx[hd] ELSE hd,
               IF k = n THEN pv[tl] ELSE tl, nx1, pv1, ex1)
  BY <1>6, <1>7, <1>8, <1>9, <1>10 DEF Spelled
<1> QED BY <1>11 DEF t

-----------------------------------------------------------------------------
(* The inductive invariant.  ListOK bounds the length of the sequence so   *)
(* that TLC can look for it; the induction does not.                       *)

OnList == registered \ Placing

HasList ==
    \E n \in Nat : \E s \in [1 .. n -> Conns] :
        /\ Spelled(n, s, head, tail, next, prev, expire)
        /\ OnList = Timers(s, n)

\* Who may hold the mutex, the clock the tick has read, and what a crash is.
MutexOK ==
    /\ \A h \in Handlers : pc[h] = "walk" => mutex = h
    /\ \A h \in Handlers : mutex = h => pc[h] \in {"walk", "add_lock"}
    /\ pc[Main] = "rm_lock" => mutex = Main
    /\ tickTime <= now
    /\ \A g, h \in Handlers : pc[h] = "crashed" /\ g # h => pc[g] = "dead"

\* Two handlers at work on one slot are known to be.
CrossOK ==
    \A g, h \in Handlers :
        g # h /\ timer[g] = timer[h] /\ timer[h] \in Conns => timer[h] \in crossed

SearchOK ==
    \A h \in Handlers : pc[h] = "walk" => /\ cur[h] \in OnList
                                         /\ expire[cur[h]] <= expire[timer[h]]

\* A handler that waits to enter the list has an unregistered timer.
EntersOK ==
    \A h \in Handlers :
        pc[h] = "add_lock" /\ mutex # h => timer[h] \notin registered

AloneOK ==
    \A g, h \in Handlers : \A c \in Conns : Adding(g, c) /\ Adding(h, c) => g = h

\* A renewal never moves the expiry of a listed timer back.
ExpiryOK ==
    \A c \in Conns : c \in registered \/ (\E h \in Handlers : Adding(h, c))
        => expire[c] <= now + expireTime[c]

\* A timer that is being placed is never the only one.
NotEmptyOK == \A h \in Handlers : mutex = h => head # Null

ShutOK ==
    \A h \in Handlers :
        pc[h] = "removefd" /\ timer[h] \notin crossed => timer[h] \notin registered

CrashOK == \A h \in Handlers : pc[h] = "crashed" => timer[h] \notin registered

HandlersOK == /\ SearchOK /\ EntersOK /\ AloneOK /\ ExpiryOK
              /\ NotEmptyOK /\ ShutOK /\ CrashOK

Base == TypeOK /\ MutexOK /\ CrossOK

IndInv == Base /\ (~ spoiled => HasList /\ HandlersOK)

-----------------------------------------------------------------------------
(* What a step does to the list.                                           *)

\* A step that touches neither the links nor the expiry of a listed timer, and
\* lists or unlists nobody, keeps the list.
LEMMA ListKept ==
    ASSUME HasList, UNCHANGED links, OnList' = OnList,
           \A c \in OnList : expire'[c] = expire[c]
    PROVE  HasList'
<1>0. PICK n \in Nat : \E s \in [1 .. n -> Conns] :
          /\ Spelled(n, s, head, tail, next, prev, expire)
          /\ OnList = Timers(s, n)
  BY DEF HasList
<1>1. PICK s \in [1 .. n -> Conns] :
          /\ Spelled(n, s, head, tail, next, prev, expire)
          /\ OnList = Timers(s, n)
  BY <1>0
<1>2. \A i \in 1 .. n : expire'[s[i]] = expire[s[i]]
  BY <1>1 DEF Timers
<1>3. Spelled(n, s, head, tail, next, prev, expire')
  BY <1>1, <1>2 DEF Spelled
<1> QED BY <1>1, <1>3 DEF HasList, links

\* A step that places the unlisted timer c in the list keeps it.
LEMMA ListGrows ==
    ASSUME TypeOK, NEW c \in Conns \ OnList,
           NEW n \in Nat, NEW s \in [1 .. n -> Conns], NEW k \in 0 .. n,
           Spelled(n, s, head, tail, next, prev, expire),
           OnList = Timers(s, n),
           Fits(n, s, k, c, expire),
           LinksIn(n, s, k, c, next, prev, next', prev'),
           head' = IF k = 0 THEN c ELSE head,
           tail' = IF k = n THEN c ELSE tail,
           expire' = expire,
           OnList' = OnList \cup {c}
    PROVE  HasList'
<1> DEFINE t == Inserted(s, n, k, c)
<1>1. expire \in [Conns -> Nat] /\ c \in Conns /\ c \notin Timers(s, n)
  BY DEF TypeOK
<1>2. Spelled(n + 1, t, head', tail', next', prev', expire')
  BY <1>1, InsertedSpelled
<1>3. \A k1 \in 0 .. n : \A c1 \in Conns :
         /\ Inserted(s, n, k1, c1) \in [1 .. n + 1 -> Conns]
         /\ Timers(Inserted(s, n, k1, c1), n + 1) = Timers(s, n) \cup {c1}
  BY InsertedType
<1>4. n + 1 \in Nat
  OBVIOUS
<1> QED BY <1>2, <1>3, <1>4 DEF HasList

\* A step that takes the k-th timer off the list keeps the rest.
LEMMA ListShrinks ==
    ASSUME TypeOK, NEW n \in Nat, NEW s \in [1 .. n -> Conns],
           NEW k \in 1 .. n,
           Spelled(n, s, head, tail, next, prev, expire),
           OnList = Timers(s, n),
           LinksOut(n, s, k, next, prev, next', prev'),
           head' = IF k = 1 THEN next[head] ELSE head,
           tail' = IF k = n THEN prev[tail] ELSE tail,
           \A d \in Conns : d # s[k] => expire'[d] = expire[d],
           OnList' = OnList \ {s[k]}
    PROVE  HasList'
<1> DEFINE t == Removed(s, n, k)
<1>1. expire \in [Conns -> Nat]
  BY DEF TypeOK
<1>2. Spelled(n - 1, t, head', tail', next', prev', expire')
  BY <1>1, RemovedSpelled
<1>3. \A i, j \in 1 .. n : i < j => s[i] # s[j]
  BY DEF Spelled
<1>4. /\ n - 1 \in Nat
      /\ t \in [1 .. n - 1 -> Conns] /\ OnList' = Timers(t, n - 1)
  BY <1>3, RemovedType
<1> QED BY <1>2, <1>4 DEF HasList

\* The timer being placed is that of the handler which holds the mutex.
LEMMA PlacingIs ==
    ASSUME TypeOK, MutexOK
    PROVE  /\ mutex \notin Handlers => Placing = {}
           /\ \A h \in Handlers : mutex = h => Placing = {timer[h]}
<1>1. \A h \in Handlers : mutex = h => timer[h] \in Conns
  BY DEF TypeOK, MutexOK
<1> QED BY <1>1 DEF Placing

LEMMA PlacingIsPrimed ==
    ASSUME TypeOK', MutexOK'
    PROVE  /\ mutex' \notin Handlers => Placing' = {}
           /\ \A h \in Handlers : mutex' = h => Placing' = {timer'[h]}
<1>1. \A h \in Handlers : mutex' = h => timer'[h] \in Conns
  BY DEF TypeOK, MutexOK
<1> QED BY <1>1 DEF Placing

\* An empty list has nothing registered.
LEMMA EmptyIs ==
    ASSUME Base, HasList, HandlersOK, head = Null PROVE registered = {}
<1>1. PICK n \in Nat : \E s \in [1 .. n -> Conns] :
         /\ Spelled(n, s, head, tail, next, prev, expire)
         /\ OnList = Timers(s, n)
  BY DEF HasList
<1>2. PICK s \in [1 .. n -> Conns] :
         /\ Spelled(n, s, head, tail, next, prev, expire)
         /\ OnList = Timers(s, n)
  BY <1>1
<1>3. n = 0
  BY <1>2, ConstantsOK DEF Spelled
<1>4. OnList = {}
  BY <1>2, <1>3 DEF Timers
<1>5. mutex \notin Handlers
  BY DEF HandlersOK, NotEmptyOK
<1>6. Placing = {}
  BY <1>5, PlacingIs DEF Base
<1> QED BY <1>4, <1>6 DEF OnList

-----------------------------------------------------------------------------
(* The facts about the mutex and about handlers that meet hold of every    *)
(* state, spoiled or not.                                                  *)

LEMMA BaseInit == Init => MutexOK /\ CrossOK
  BY ConstantsOK DEF Init, MutexOK, CrossOK, Threads

LEMMA MutexStep ==
    ASSUME TypeOK, MutexOK, [Next]_vars PROVE MutexOK'
<1> USE ConstantsOK DEF Threads
<1>1. CASE UNCHANGED vars
  BY <1>1 DEF vars, timing, MutexOK
<1>2. ASSUME NEW c \in Conns, Accept(c) PROVE MutexOK'
  BY <1>2 DEF Accept, timing, MutexOK
<1>3. ASSUME NEW h \in Handlers, NEW c \in Conns, Client(h, c) PROVE MutexOK'
  <2>1. /\ pc[h] = "idle" /\ pc'[h] \in {"add_lock", "inc_lock", "rm_lock", "removefd"}
        /\ \A t \in Threads \ {h} : pc'[t] = pc[t]
        /\ UNCHANGED <<mutex, tickTime, now>>
    BY <1>3 DEF Client, Connect, Activity, Shut, Takes, Goto, timing, TypeOK
  <2> QED BY <2>1 DEF MutexOK
<1>4. ASSUME NEW h \in Handlers, Handler(h), ~ NullDereference(h) PROVE MutexOK'
  <2>1. /\ pc[h] \notin {"idle", "crashed", "dead"}
        /\ pc'[h] \notin {"crashed", "dead"}
        /\ \A t \in Threads \ {h} : pc'[t] = pc[t]
        /\ UNCHANGED <<tickTime, now>>
    BY <1>4 DEF Handler, AddTimer, AddFirst, AddAfterHead, Search, Walk,
       InsertAfter, IncTimer, RenewInPlace, RenewHead, RenewMiddle, Renewing,
       RemoveTimer, RemoveHead, RemoveTail, RemoveMiddle, RemoveUnlisted,
       Removing, RemoveFd, Done, Goto, timing, TypeOK
  <2>2. CASE AddFirst(h) \/ RenewInPlace(h) \/ RemoveTimer(h) \/ RemoveFd(h)
    <3>1. pc'[h] \in {"idle", "removefd"} /\ mutex' = mutex /\ mutex # h
      BY <2>1, <2>2 DEF AddFirst, RenewInPlace, Renewing, RemoveTimer,
         RemoveHead, RemoveTail, RemoveMiddle, RemoveUnlisted, Removing,
         RemoveFd, Done, Goto, TypeOK, MutexOK
    <3> QED BY <2>1, <3>1 DEF MutexOK
  <2>3. CASE AddAfterHead(h) \/ RenewHead(h) \/ RenewMiddle(h)
    <3>1. mutex = Free /\ mutex' = h /\ pc'[h] \in {"walk", "add_lock"}
      BY <2>3 DEF AddAfterHead, RenewHead, RenewMiddle, Renewing, Goto, TypeOK
    <3> QED BY <2>1, <3>1 DEF MutexOK
  <2>4. CASE Walk(h)
    BY <2>4 DEF Walk, timing, MutexOK
  <2>5. CASE InsertAfter(h)
    <3>1. mutex = h /\ mutex' = Free /\ pc'[h] = "idle"
      BY <2>5 DEF InsertAfter, Done, Goto, TypeOK, MutexOK
    <3> QED BY <2>1, <3>1 DEF MutexOK
  <2> QED BY <1>4, <2>2, <2>3, <2>4, <2>5 DEF Handler, AddTimer, Search, IncTimer
<1>5. ASSUME NEW h \in Handlers, NullDereference(h) PROVE MutexOK'
  <2>1. /\ \A t \in Threads : pc'[t] = IF t = h THEN "crashed" ELSE "dead"
        /\ mutex = Free /\ mutex' = Free
        /\ UNCHANGED <<tickTime, now>>
    BY <1>5 DEF NullDereference, timing
  <2> QED BY <2>1 DEF MutexOK
<1>6. CASE Tick \/ Advance
  <2>1. /\ \A h \in Handlers : pc'[h] = pc[h]
        /\ mutex' = mutex \/ (mutex = Free /\ mutex' = Main)
        /\ pc'[Main] = "rm_lock" => mutex' = Main
    BY <1>6 DEF Tick, Alarm, TimerHandler, TickQuiet, TickExpired, Advance, Goto,
                TypeOK, MutexOK
  <2>2. tickTime' <= now'
    BY <1>6 DEF Tick, Alarm, TimerHandler, TickQuiet, TickExpired, Advance,
                timing, TypeOK, MutexOK
  <2> QED BY <2>1, <2>2 DEF MutexOK
<1> QED BY <1>1, <1>2, <1>3, <1>4, <1>5, <1>6 DEF Next

\* A handler that stays on its slot when h leaves is as crossed as before.
LEMMA DoneCrossed ==
    ASSUME CrossOK, NEW h \in Handlers, Done(h), NEW g \in Handlers \ {h},
           timer[g] \in Conns
    PROVE  /\ timer[g] \in crossed' <=> timer[g] \in crossed
           /\ timer[g] = timer[h] => timer[g] \in crossed'
  BY DEF CrossOK, Done

LEMMA CrossStep ==
    ASSUME TypeOK, CrossOK, [Next]_vars PROVE CrossOK'
<1>1. ASSUME UNCHANGED <<timer, crossed>> PROVE CrossOK'
  BY <1>1 DEF CrossOK
<1>2. ASSUME NEW h \in Handlers, NEW c \in Conns, Client(h, c) PROVE CrossOK'
  <2>1. /\ timer' = [timer EXCEPT ![h] = c]
        /\ crossed' = IF \E g \in Handlers : timer[g] = c
                      THEN crossed \cup {c} ELSE crossed
    BY <1>2 DEF Client, Connect, Activity, Shut, Takes
  <2> QED BY <2>1 DEF CrossOK, TypeOK
<1>3. ASSUME NEW h \in Handlers, Done(h) PROVE CrossOK'
  <2>1. /\ timer'[h] \notin Conns
        /\ \A g \in Handlers \ {h} : timer'[g] = timer[g]
    BY <1>3, ConstantsOK DEF Done, TypeOK
  <2> QED BY <1>3, <2>1, DoneCrossed DEF CrossOK
<1>4. ASSUME NEW h \in Handlers, Handler(h)
      PROVE  Done(h) \/ UNCHANGED <<timer, crossed>>
  BY <1>4 DEF Handler, AddTimer, AddFirst, AddAfterHead, Search, Walk,
     InsertAfter, IncTimer, RenewInPlace, RenewHead, RenewMiddle, Renewing,
     RemoveTimer, RemoveHead, RemoveTail, RemoveMiddle, RemoveUnlisted,
     Removing, RemoveFd, NullDereference, history
<1>5. ASSUME Tick \/ Advance \/ UNCHANGED vars \/ \E c \in Conns : Accept(c)
      PROVE  UNCHANGED <<timer, crossed>>
  BY <1>5 DEF Tick, Alarm, TimerHandler, TickQuiet, TickExpired, Advance, vars,
              Accept, history
<1> QED BY <1>1, <1>2, <1>3, <1>4, <1>5 DEF Next

-----------------------------------------------------------------------------
(* What the steps preserve while no expiry is overwritten.                 *)

LEMMA InitInd == Init => HasList /\ HandlersOK
<1> SUFFICES ASSUME Init PROVE HasList /\ HandlersOK
  OBVIOUS
<1> USE ConstantsOK DEF Threads
<1>1. HandlersOK
  BY DEF Init, HandlersOK, SearchOK, EntersOK, AloneOK, ExpiryOK, NotEmptyOK,
         ShutOK, CrashOK, Adding
<1>2. \A c \in Conns : next[c] = Null /\ prev[c] = Null
  BY DEF Init
<1>3. OnList = {}
  BY DEF Init, OnList
<1> DEFINE s == [i \in 1 .. 0 |-> Null]
<1>4. s \in [1 .. 0 -> Conns] /\ Timers(s, 0) = {}
  BY DEF Timers
<1>5. Spelled(0, s, head, tail, next, prev, expire)
  BY <1>2 DEF Spelled, Init
<1> QED BY <1>1, <1>3, <1>4, <1>5 DEF HasList

\* The tick and the clock touch nothing the handlers rely on.
LEMMA QuietStep ==
    ASSUME Base, Base', HasList, HandlersOK,
           UNCHANGED <<links, expire, expireTime, timer, cur, registered, crossed>>,
           \A h \in Handlers : pc'[h] = pc[h],
           mutex' = mutex \/ (mutex = Free /\ mutex' = Main),
           now <= now'
    PROVE  HasList' /\ HandlersOK'
<1> USE ConstantsOK DEF Threads
<1>1. Placing' = Placing
  BY DEF Placing
<1>2. OnList' = OnList
  BY <1>1 DEF OnList
<1>3. HasList'
  BY <1>2, ListKept
<1>4. SearchOK' /\ EntersOK' /\ NotEmptyOK' /\ ShutOK' /\ CrashOK'
  BY <1>2 DEF links, HandlersOK, SearchOK, EntersOK, NotEmptyOK, ShutOK, CrashOK
<1>5. AloneOK'
  BY DEF HandlersOK, AloneOK, Adding
<1>6. ExpiryOK'
  <2>1. \A h \in Handlers : \A c \in Conns : Adding(h, c)' <=> Adding(h, c)
    BY DEF Adding
  <2>2. \A c \in Conns : expire[c] \in Nat /\ expireTime[c] \in Nat
    BY WidthType DEF Base, TypeOK
  <2>3. now \in Nat /\ now' \in Nat
    BY DEF Base, TypeOK
  <2>4. \A c \in Conns : expire[c] <= now + expireTime[c]
                            => expire[c] <= now' + expireTime[c]
    BY <2>2, <2>3
  <2> QED BY <2>1, <2>4 DEF HandlersOK, ExpiryOK
<1> QED BY <1>3, <1>4, <1>5, <1>6 DEF HandlersOK

\* Accepting on a slot whose timer is neither listed nor on its way.
LEMMA AcceptStep ==
    ASSUME Base, Base', HasList, HandlersOK, NEW c \in Conns, Accept(c), ~ spoiled'
    PROVE  HasList' /\ HandlersOK'
<1> USE ConstantsOK DEF Threads
<1>1. /\ UNCHANGED links
      /\ UNCHANGED <<expireTime, mutex, pc, timer, cur, now, registered, crossed>>
      /\ \A d \in Conns \ {c} : expire'[d] = expire[d]
  BY DEF Accept, Base, TypeOK, timing
<1>2. c \notin registered /\ \A h \in Handlers : ~ Adding(h, c)
  BY DEF Accept, Overwrites
<1>3. OnList' = OnList /\ c \notin OnList /\ OnList \subseteq Conns
  BY <1>1, <1>2 DEF OnList, Placing, Base, TypeOK
<1>4. HasList'
  BY <1>1, <1>3, ListKept
<1>5. EntersOK' /\ NotEmptyOK' /\ ShutOK' /\ CrashOK' /\ AloneOK'
  BY <1>1 DEF HandlersOK, links, EntersOK, NotEmptyOK, ShutOK, CrashOK, AloneOK,
              Adding
<1>6. SearchOK'
  <2>1. \A h \in Handlers : pc[h] = "walk" => timer[h] \in Conns /\ timer[h] # c
    BY <1>2 DEF Adding, Base, TypeOK
  <2> QED BY <1>1, <1>3, <2>1 DEF HandlersOK, SearchOK
<1>7. ExpiryOK'
  BY <1>1, <1>2 DEF HandlersOK, ExpiryOK, Adding
<1> QED BY <1>4, <1>5, <1>6, <1>7 DEF HandlersOK

\* A handler begins: a CONNECT on a timer that is neither listed nor on its
\* way, a renewal or a shut.
LEMMA ClientStep ==
    ASSUME Base, Base', HasList, HandlersOK, NEW h \in Handlers, NEW c \in Conns,
           Client(h, c), ~ spoiled'
    PROVE  HasList' /\ HandlersOK'
<1> USE ConstantsOK DEF Threads
<1>1. /\ UNCHANGED links /\ UNCHANGED <<mutex, cur, now, registered>>
      /\ pc[h] = "idle" /\ mutex # h
      /\ timer'[h] = c
      /\ \A g \in Handlers \ {h} : timer'[g] = timer[g] /\ pc'[g] = pc[g]
      /\ crossed \subseteq crossed'
      /\ \A d \in Conns \ {c} : expire'[d] = expire[d]
      /\ \A d \in Conns \ {c} : expireTime'[d] = expireTime[d]
  <2>1. Takes(h, c, "add_lock") \/ Takes(h, c, "inc_lock")
        \/ Takes(h, c, "rm_lock") \/ Takes(h, c, "removefd")
    BY DEF Client, Connect, Activity, Shut
  <2>2. /\ pc[h] = "idle" /\ timer'[h] = c /\ crossed \subseteq crossed'
        /\ \A g \in Handlers \ {h} : timer'[g] = timer[g] /\ pc'[g] = pc[g]
    BY <2>1 DEF Takes, Goto, Base, TypeOK
  <2>3. /\ UNCHANGED links /\ UNCHANGED <<mutex, cur, now, registered>>
        /\ \A d \in Conns \ {c} : expire'[d] = expire[d]
        /\ \A d \in Conns \ {c} : expireTime'[d] = expireTime[d]
    BY DEF Client, Connect, Activity, Shut, slots, timing, Base, TypeOK
  <2>4. mutex # h
    BY <2>2 DEF Base, MutexOK
  <2> QED BY <2>2, <2>3, <2>4
<1>2. Placing' = Placing
  BY <1>1 DEF Placing
<1>3. OnList' = OnList /\ OnList \subseteq Conns /\ OnList \subseteq registered
  BY <1>1, <1>2 DEF OnList, Base, TypeOK
<1>4. NotEmptyOK'
  BY <1>1 DEF HandlersOK, NotEmptyOK, links
<1>5. CASE Connect(h, c)
  <2>1. pc'[h] = "add_lock" /\ expire'[c] = now + expireTime'[c]
    BY <1>5 DEF Connect, Takes, Goto, Base, TypeOK
  <2>2. c \notin registered /\ \A g \in Handlers : ~ Adding(g, c)
    BY <1>5 DEF Connect, Overwrites
  <2>3. HasList'
    BY <1>1, <1>3, <2>2, ListKept
  <2>4. SearchOK'
    <3>1. \A g \in Handlers : pc[g] = "walk" => timer[g] \in Conns /\ timer[g] # c
      BY <2>2 DEF Adding, Base, TypeOK
    <3> QED BY <1>1, <1>3, <2>1, <2>2, <3>1 DEF HandlersOK, SearchOK
  <2>5. EntersOK' /\ CrashOK' /\ ShutOK'
    BY <1>1, <2>1, <2>2 DEF HandlersOK, EntersOK, CrashOK, ShutOK
  <2>6. AloneOK'
    BY <1>1, <2>1, <2>2 DEF HandlersOK, AloneOK, Adding
  <2>7. ExpiryOK'
    <3>1. expire'[c] <= now' + expireTime'[c]
      BY <1>1, <2>1 DEF Base, TypeOK
    <3>2. ASSUME NEW d \in Conns \ {c}, NEW g \in Handlers, Adding(g, d)'
          PROVE  Adding(g, d)
      BY <1>1, <3>2 DEF Adding
    <3> QED BY <1>1, <3>1, <3>2 DEF HandlersOK, ExpiryOK
  <2> QED BY <1>4, <2>3, <2>4, <2>5, <2>6, <2>7 DEF HandlersOK
<1>6. CASE Activity(h, c) \/ Shut(h, c)
  <2>1. /\ UNCHANGED <<expire, expireTime>>
        /\ pc'[h] \in {"inc_lock", "rm_lock", "removefd"}
        /\ pc'[h] = "removefd" => head = Null
    BY <1>6 DEF Activity, Shut, Takes, Goto, slots, Base, TypeOK
  <2>2. HasList'
    BY <1>1, <1>3, <2>1, ListKept
  <2>3. SearchOK' /\ EntersOK' /\ CrashOK'
    BY <1>1, <1>3, <2>1 DEF HandlersOK, SearchOK, EntersOK, CrashOK
  <2>4. ShutOK'
    <3>1. pc'[h] = "removefd" => registered = {}
      BY <2>1, EmptyIs
    <3> QED BY <1>1, <3>1 DEF HandlersOK, ShutOK
  <2>5. ASSUME NEW d \in Conns, NEW g \in Handlers, Adding(g, d)'
        PROVE  Adding(g, d)
    BY <1>1, <2>1, <2>5 DEF Adding
  <2>6. AloneOK' /\ ExpiryOK'
    BY <1>1, <2>1, <2>5 DEF HandlersOK, AloneOK, ExpiryOK
  <2> QED BY <1>4, <2>2, <2>3, <2>4, <2>6 DEF HandlersOK
<1> QED BY <1>5, <1>6 DEF Client

\* What a handler leaves behind that ends its operation on c, having added at
\* most c to the registered timers.
LEMMA DoneStep ==
    ASSUME Base, Base', HandlersOK, NEW h \in Handlers, Done(h), timer[h] \in Conns,
           pc[h] \notin {"crashed", "dead"},
           registered' \subseteq registered \cup {timer[h]},
           registered' = registered \/ pc[h] \in {"add_lock", "walk"},
           mutex' = mutex \/ mutex = h
    PROVE  /\ ShutOK' /\ CrashOK' /\ AloneOK' /\ EntersOK'
           /\ pc'[h] = "idle"
           /\ \A g \in Handlers \ {h} : timer'[g] = timer[g] /\ pc'[g] = pc[g]
           /\ \A g \in Handlers : \A d \in Conns : Adding(g, d)' => Adding(g, d)
<1> USE ConstantsOK DEF Threads
<1>1. /\ pc'[h] = "idle"
      /\ \A g \in Handlers \ {h} : timer'[g] = timer[g] /\ pc'[g] = pc[g]
  BY DEF Done, Goto, Base, TypeOK
<1>2. ShutOK'
  <2> SUFFICES ASSUME NEW g \in Handlers, pc'[g] = "removefd",
                      timer'[g] \notin crossed'
               PROVE  timer'[g] \notin registered'
    BY DEF ShutOK
  <2>1. g # h /\ timer'[g] = timer[g] /\ pc[g] = "removefd"
    BY <1>1
  <2>2. timer[g] \in Conns
    BY <2>1 DEF Base, TypeOK
  <2>3. timer[g] \notin crossed /\ timer[g] # timer[h]
    BY <2>1, <2>2, DoneCrossed DEF Base
  <2> QED BY <2>1, <2>3 DEF HandlersOK, ShutOK
<1>3. CrashOK'
  <2>1. \A g \in Handlers : pc'[g] # "crashed"
    BY <1>1 DEF Base, MutexOK
  <2> QED BY <2>1 DEF CrashOK
<1>4. \A g \in Handlers : \A d \in Conns : Adding(g, d)' => Adding(g, d) /\ g # h
  BY <1>1 DEF Adding
<1>5. AloneOK'
  BY <1>4 DEF HandlersOK, AloneOK
<1>6. EntersOK'
  <2> SUFFICES ASSUME NEW g \in Handlers, pc'[g] = "add_lock", mutex' # g
               PROVE  timer'[g] \notin registered'
    BY DEF EntersOK
  <2>1. g # h /\ timer'[g] = timer[g] /\ pc[g] = "add_lock" /\ timer[g] \in Conns
    BY <1>1 DEF Base, TypeOK
  <2>2. mutex # g
    BY <2>1
  <2>3. timer[g] \notin registered
    BY <2>1, <2>2 DEF HandlersOK, EntersOK
  <2>4. pc[h] \in {"add_lock", "walk"} => timer[g] # timer[h]
    BY <2>1 DEF HandlersOK, AloneOK, Adding
  <2> QED BY <2>1, <2>3, <2>4
<1> QED BY <1>1, <1>2, <1>3, <1>4, <1>5, <1>6

\* add_timer: the timer enters at the head, or the search starts there.
LEMMA AddStep ==
    ASSUME Base, Base', HasList, HandlersOK, NEW h \in Handlers, AddTimer(h)
    PROVE  HasList' /\ HandlersOK'
<1> USE ConstantsOK DEF Threads
<1> DEFINE c == timer[h]
<1>1. /\ UNCHANGED <<expire, expireTime, now>>
      /\ pc[h] = "add_lock" /\ mutex = Free /\ c \in Conns
      /\ \A g \in Handlers \ {h} : pc'[g] = pc[g]
      /\ head # Null => head \in Conns
  BY DEF AddTimer, AddFirst, AddAfterHead, Base, TypeOK, Done, Goto, slots,
         timing, Pointers
<1>2. \A g \in Handlers : pc[g] # "walk"
  BY <1>1 DEF Base, MutexOK
<1>3. c \notin registered /\ Adding(h, c)
  BY <1>1 DEF HandlersOK, EntersOK, Adding
<1>4. Placing = {} /\ OnList = registered /\ registered \subseteq Conns
  BY <1>1, PlacingIs DEF Base, OnList, TypeOK
<1>5. PICK n \in Nat : \E s \in [1 .. n -> Conns] :
         /\ Spelled(n, s, head, tail, next, prev, expire)
         /\ OnList = Timers(s, n)
  BY DEF HasList
<1>6. PICK s \in [1 .. n -> Conns] :
         /\ Spelled(n, s, head, tail, next, prev, expire)
         /\ OnList = Timers(s, n)
  BY <1>5
<1>7. \A i \in 1 .. n : s[i] # c
  BY <1>3, <1>4, <1>6 DEF Timers
<1>8. next[c] = Null /\ prev[c] = Null
  BY <1>1, <1>3, <1>4, <1>6 DEF Spelled
<1>9. head = Null <=> n = 0
  BY <1>6 DEF Spelled
<1>10. n > 0 => head = s[1] /\ head \in OnList
  BY <1>6 DEF Spelled, Timers
<1>11. CASE AddFirst(h)
  <2>1. /\ registered' = registered \cup {c} /\ mutex' = Free /\ Done(h)
        /\ head' = c
    BY <1>1, <1>11 DEF AddFirst
  <2>2. OnList' = OnList \cup {c}
    BY <1>4, <2>1, PlacingIsPrimed DEF Base, OnList
  <2>3. Fits(n, s, 0, c, expire)
    BY <1>1, <1>9, <1>10, <1>11 DEF Fits, AddFirst, Base, TypeOK
  <2>4. LinksIn(n, s, 0, c, next, prev, next', prev')
    BY <1>1, <1>7, <1>8, <1>9, <1>10, <1>11 DEF LinksIn, AddFirst, Base, TypeOK
  <2>5. tail' = IF 0 = n THEN c ELSE tail
    BY <1>9, <1>11 DEF AddFirst
  <2>6. TypeOK /\ 0 \in 0 .. n /\ c \in Conns \ OnList
    BY <1>1, <1>3, <1>4 DEF Base
  <2>7. HasList'
    BY <1>1, <1>6, <2>1, <2>2, <2>3, <2>4, <2>5, <2>6, ListGrows
  <2>8. /\ ShutOK' /\ CrashOK' /\ AloneOK' /\ EntersOK'
        /\ pc'[h] = "idle"
        /\ \A g \in Handlers : \A d \in Conns : Adding(g, d)' => Adding(g, d)
    BY <1>1, <2>1, DoneStep
  <2>9. SearchOK' /\ NotEmptyOK'
    BY <1>1, <1>2, <2>1, <2>8 DEF SearchOK, NotEmptyOK
  <2>10. ExpiryOK'
    BY <1>1, <1>3, <2>1, <2>8 DEF HandlersOK, ExpiryOK
  <2> QED BY <2>7, <2>8, <2>9, <2>10 DEF HandlersOK
<1>12. CASE AddAfterHead(h)
  <2>1. /\ UNCHANGED links /\ UNCHANGED <<timer, registered, crossed>>
        /\ pc'[h] = "walk" /\ mutex' = h /\ cur'[h] = head
        /\ head # Null /\ expire[c] >= expire[head]
    BY <1>12 DEF AddAfterHead, Goto, Base, TypeOK, history
  <2>2. OnList' = OnList
    <3>1. Placing' = {c}
      BY <2>1, PlacingIsPrimed DEF Base
    <3> QED BY <1>3, <1>4, <2>1, <3>1 DEF OnList
  <2>3. HasList'
    BY <1>1, <2>1, <2>2, ListKept
  <2>4. SearchOK'
    <3>1. cur'[h] \in OnList' /\ expire'[cur'[h]] <= expire'[c]
      BY <1>1, <1>9, <1>10, <2>1, <2>2 DEF Base, TypeOK
    <3> QED BY <1>1, <1>2, <2>1, <3>1 DEF SearchOK
  <2>5. EntersOK' /\ ShutOK' /\ CrashOK' /\ NotEmptyOK'
    BY <1>1, <2>1 DEF HandlersOK, EntersOK, ShutOK, CrashOK, NotEmptyOK, links
  <2>6. \A g \in Handlers : \A d \in Conns : Adding(g, d)' <=> Adding(g, d)
    BY <1>1, <2>1 DEF Adding
  <2>7. AloneOK' /\ ExpiryOK'
    BY <1>1, <2>1, <2>6 DEF HandlersOK, AloneOK, ExpiryOK
  <2> QED BY <2>3, <2>4, <2>5, <2>7 DEF HandlersOK
<1> QED BY <1>11, <1>12 DEF AddTimer

\* add_timer_after: the search moves to a listed timer that expires earlier,
\* or the timer enters behind the one it has reached.
LEMMA SearchStep ==
    ASSUME Base, Base', HasList, HandlersOK, NEW h \in Handlers, Search(h)
    PROVE  HasList' /\ HandlersOK'
<1> USE ConstantsOK DEF Threads
<1> DEFINE c == timer[h]
<1>1. /\ UNCHANGED <<expire, expireTime, now>>
      /\ pc[h] = "walk" /\ mutex = h /\ c \in Conns
      /\ \A g \in Handlers \ {h} : pc'[g] = pc[g] /\ pc[g] # "walk"
  BY DEF Search, Walk, InsertAfter, Base, TypeOK, MutexOK, Done, Goto, slots,
         timing
<1>2. cur[h] \in OnList /\ expire[cur[h]] <= expire[c] /\ Adding(h, c)
  BY <1>1 DEF HandlersOK, SearchOK, Adding
<1>3. Placing = {c} /\ OnList = registered \ {c} /\ registered \subseteq Conns
  BY <1>1, PlacingIs DEF Base, OnList, TypeOK
<1>4. PICK n \in Nat : \E s \in [1 .. n -> Conns] :
         /\ Spelled(n, s, head, tail, next, prev, expire)
         /\ OnList = Timers(s, n)
  BY DEF HasList
<1>5. PICK s \in [1 .. n -> Conns] :
         /\ Spelled(n, s, head, tail, next, prev, expire)
         /\ OnList = Timers(s, n)
  BY <1>4
<1>6. PICK k \in 1 .. n : cur[h] = s[k]
  BY <1>2, <1>5 DEF Timers
<1>7. next[s[k]] = IF k = n THEN Null ELSE s[k + 1]
  BY <1>5 DEF Spelled
<1>8. k < n => s[k + 1] \in Conns
  OBVIOUS
<1>9. CASE Walk(h)
  <2>1. /\ UNCHANGED links /\ UNCHANGED <<pc, mutex, timer, registered, crossed>>
        /\ cur'[h] = next[s[k]] /\ next[s[k]] # Null
        /\ expire[c] > expire[next[s[k]]]
    BY <1>6, <1>9 DEF Walk, WalksOn, Base, TypeOK, history
  <2>2. OnList' = OnList
    BY <2>1 DEF OnList, Placing
  <2>3. HasList'
    BY <1>1, <2>1, <2>2, ListKept
  <2>4. cur'[h] = s[k + 1] /\ k + 1 \in 1 .. n
    BY <1>7, <2>1
  <2>5. cur'[h] \in OnList'
    BY <1>5, <2>2, <2>4 DEF Timers
  <2>6. expire'[cur'[h]] <= expire'[c]
    BY <1>1, <1>7, <1>8, <2>1, <2>4 DEF Base, TypeOK
  <2>7. SearchOK'
    BY <1>1, <2>1, <2>5, <2>6 DEF SearchOK
  <2>8. EntersOK' /\ ShutOK' /\ CrashOK' /\ NotEmptyOK'
    BY <2>1 DEF HandlersOK, EntersOK, ShutOK, CrashOK, NotEmptyOK, links
  <2>9. AloneOK' /\ ExpiryOK'
    BY <1>1, <2>1 DEF HandlersOK, AloneOK, ExpiryOK, Adding
  <2> QED BY <2>3, <2>7, <2>8, <2>9 DEF HandlersOK
<1>10. CASE InsertAfter(h)
  <2>1. /\ registered' = registered \cup {c} /\ mutex' = Free /\ Done(h)
    BY <1>10 DEF InsertAfter
  <2>2. OnList' = OnList \cup {c}
    BY <1>3, <2>1, PlacingIsPrimed DEF Base, OnList
  <2>3. \A i \in 1 .. n : s[i] # c
    BY <1>3, <1>5 DEF Timers
  <2>4. k < n => Null # s[k + 1] /\ expire[c] <= expire[s[k + 1]]
    BY <1>1, <1>6, <1>7, <1>8, <1>10 DEF InsertAfter, WalksOn, Base, TypeOK
  <2>5. Fits(n, s, k, c, expire)
    BY <1>2, <1>6, <2>4 DEF Fits
  <2>6. \A i, j \in 1 .. n : i # j => s[i] # s[j]
    BY <1>5 DEF Spelled
  <2>7. /\ next' = [next EXCEPT ![c] = next[s[k]], ![s[k]] = c]
        /\ next[s[k]] = Null => /\ prev' = [prev EXCEPT ![c] = s[k]]
                                /\ tail' = c
        /\ next[s[k]] # Null => /\ prev' = [prev EXCEPT ![c] = s[k], ![next[s[k]]] = c]
                                /\ tail' = tail
        /\ head' = head
    BY <1>6, <1>10 DEF InsertAfter
  <2>8. LinksIn(n, s, k, c, next, prev, next', prev')
    <3>1. /\ next'[c] = next[s[k]] /\ next'[s[k]] = c
          /\ \A d \in Conns : d # c /\ d # s[k] => next'[d] = next[d]
      BY <1>1, <2>3, <2>7 DEF Base, TypeOK
    <3>2. CASE k = n
      <4>1. /\ prev'[c] = s[k]
            /\ \A d \in Conns : d # c => prev'[d] = prev[d]
        BY <1>1, <1>7, <2>7, <3>2 DEF Base, TypeOK
      <4> QED BY <1>7, <3>1, <3>2, <4>1 DEF LinksIn
    <3>3. CASE k < n
      <4>1. s[k + 1] # c /\ s[k + 1] \in Conns /\ next[s[k]] = s[k + 1]
        BY <1>7, <1>8, <2>3, <3>3
      <4>2. prev' = [prev EXCEPT ![c] = s[k], ![s[k + 1]] = c]
        <5>1. next[s[k]] # Null
          BY <2>4, <3>3, <4>1
        <5> QED BY <2>7, <4>1, <5>1
      <4>3. prev \in [Conns -> Pointers]
        BY DEF Base, TypeOK
      <4>4. /\ prev'[c] = s[k] /\ prev'[s[k + 1]] = c
            /\ \A d \in Conns : d # c /\ d # s[k + 1] => prev'[d] = prev[d]
        BY <1>1, <4>1, <4>2, <4>3
      <4> QED BY <1>7, <3>1, <3>3, <4>1, <4>4 DEF LinksIn
    <3> QED BY <3>2, <3>3
  <2>9. head' = (IF k = 0 THEN c ELSE head) /\ tail' = IF k = n THEN c ELSE tail
    BY <1>7, <2>4, <2>7
  <2>10. TypeOK /\ k \in 0 .. n /\ c \in Conns \ OnList
    BY <1>1, <1>3 DEF Base
  <2>11. HasList'
    BY <1>1, <1>5, <2>2, <2>5, <2>8, <2>9, <2>10, ListGrows
  <2>12. /\ ShutOK' /\ CrashOK' /\ AloneOK' /\ EntersOK'
         /\ pc'[h] = "idle"
         /\ \A g \in Handlers : \A d \in Conns : Adding(g, d)' => Adding(g, d)
    BY <1>1, <2>1, DoneStep
  <2>13. SearchOK' /\ NotEmptyOK'
    BY <1>1, <2>1, <2>12 DEF SearchOK, NotEmptyOK
  <2>14. ExpiryOK'
    BY <1>1, <1>2, <2>1, <2>12 DEF HandlersOK, ExpiryOK
  <2> QED BY <2>11, <2>12, <2>13, <2>14 DEF HandlersOK
<1> QED BY <1>9, <1>10 DEF Search

\* inc_timer: the timer keeps its place, or leaves the list to be placed again.
LEMMA IncStep ==
    ASSUME Base, Base', HasList, HandlersOK, NEW h \in Handlers, IncTimer(h)
    PROVE  HasList' /\ HandlersOK'
<1> USE ConstantsOK DEF Threads
<1> DEFINE c == timer[h]
<1>1. /\ UNCHANGED <<expireTime, now, registered>>
      /\ pc[h] = "inc_lock" /\ mutex = Free /\ c \in Conns
      /\ expire'[c] = now + expireTime[c]
      /\ \A d \in Conns \ {c} : expire'[d] = expire[d]
      /\ \A g \in Handlers \ {h} : pc'[g] = pc[g]
  BY DEF IncTimer, RenewInPlace, RenewHead, RenewMiddle, Renewing, NewExpiry,
         Done, Base, TypeOK, Goto, timing
<1>2. \A g \in Handlers : pc[g] # "walk"
  BY <1>1 DEF Base, MutexOK
<1>3. Placing = {} /\ OnList = registered /\ registered \subseteq Conns
  BY <1>1, PlacingIs DEF Base, OnList, TypeOK
<1>4. PICK n \in Nat : \E s \in [1 .. n -> Conns] :
         /\ Spelled(n, s, head, tail, next, prev, expire)
         /\ OnList = Timers(s, n)
  BY DEF HasList
<1>5. PICK s \in [1 .. n -> Conns] :
         /\ Spelled(n, s, head, tail, next, prev, expire)
         /\ OnList = Timers(s, n)
  BY <1>4
<1>6. c \in OnList
  <2>1. c = tail \/ next[c] # Null
    BY DEF IncTimer, RenewInPlace, RenewHead, RenewMiddle
  <2>2. c = tail => c \in OnList
    BY <1>1, <1>5 DEF Spelled, Timers
  <2>3. next[c] # Null => c \in OnList
    BY <1>1, <1>5 DEF Spelled
  <2> QED BY <2>1, <2>2, <2>3
<1>7. PICK k \in 1 .. n : c = s[k]
  BY <1>5, <1>6 DEF Timers
<1>8. /\ expire[c] \in Nat /\ expire'[c] \in Nat
      /\ expire[c] <= expire'[c] /\ expire'[c] <= now' + expireTime'[c]
  BY <1>1, <1>3, <1>6, WidthType DEF HandlersOK, ExpiryOK, Base, TypeOK
<1>9. /\ next[c] = IF k = n THEN Null ELSE s[k + 1]
      /\ prev[c] = IF k = 1 THEN Null ELSE s[k - 1]
      /\ head = s[1] /\ tail = s[n]
      /\ \A i, j \in 1 .. n : i < j => s[i] # s[j] /\ expire[s[i]] <= expire[s[j]]
  BY <1>5, <1>7 DEF Spelled
<1>10. \A i, j \in 1 .. n : i # j => s[i] # s[j]
  BY <1>9
<1>11. TypeOK
  BY DEF Base
<1>12. CASE RenewInPlace(h)
  <2>1. UNCHANGED links /\ UNCHANGED <<mutex, cur>> /\ Done(h)
    BY <1>12 DEF RenewInPlace
  <2>2. OnList' = OnList
    BY <1>1, <1>3, <2>1, PlacingIsPrimed DEF OnList, Base
  <2>3. k < n => expire'[c] < expire[s[k + 1]]
    <3>1. k < n => c # tail
      BY <1>7, <1>9, <1>10
    <3> QED BY <1>1, <1>9, <1>12, <3>1 DEF RenewInPlace, NewExpiry
  <2>4. ASSUME NEW i \in 1 .. n, NEW j \in 1 .. n, i < j
        PROVE  expire'[s[i]] <= expire'[s[j]]
    <3>0. /\ expire[s[i]] \in Nat /\ expire[s[j]] \in Nat
          /\ expire[s[i]] <= expire[s[j]]
      BY <1>9, <1>11, <2>4 DEF TypeOK
    <3>1. CASE i # k /\ j # k
      BY <1>1, <1>7, <1>10, <3>0, <3>1
    <3>2. CASE j = k
      BY <1>1, <1>7, <1>8, <1>10, <2>4, <3>0, <3>2
    <3>3. CASE i = k
      <4>1. k < n /\ k + 1 \in 1 .. n /\ k + 1 <= j
        BY <2>4, <3>3
      <4>2. s[k + 1] \in Conns
        BY <4>1
      <4>3. expire[s[k + 1]] \in Nat
        BY <1>11, <4>2 DEF TypeOK
      <4>4. k + 1 = j \/ k + 1 < j
        BY <4>1
      <4>5. k + 1 < j => expire[s[k + 1]] <= expire[s[j]]
        BY <1>9, <4>1
      <4>6. expire[s[k + 1]] <= expire[s[j]]
        BY <3>0, <4>3, <4>4, <4>5
      <4>7. i # j
        BY <2>4
      <4>8. s[j] # c /\ s[i] = c
        BY <1>7, <1>10, <3>3, <4>7
      <4>9. expire'[s[j]] = expire[s[j]]
        BY <1>1, <4>8
      <4>10. expire'[c] < expire[s[k + 1]] /\ expire'[c] \in Nat
        BY <1>8, <2>3, <4>1
      <4>11. expire'[c] <= expire[s[j]]
        BY <3>0, <4>3, <4>6, <4>10
      <4> QED BY <4>8, <4>9, <4>11
    <3> QED BY <3>1, <3>2, <3>3
  <2>5. Spelled(n, s, head, tail, next, prev, expire')
    BY <1>5, <2>4 DEF Spelled
  <2>6. HasList'
    BY <1>5, <2>1, <2>2, <2>5 DEF HasList, links
  <2>7. /\ ShutOK' /\ CrashOK' /\ AloneOK' /\ EntersOK'
        /\ pc'[h] = "idle"
        /\ \A g \in Handlers : \A d \in Conns : Adding(g, d)' => Adding(g, d)
    BY <1>1, <2>1, DoneStep
  <2>8. SearchOK' /\ NotEmptyOK'
    BY <1>1, <1>2, <2>1, <2>7 DEF SearchOK, NotEmptyOK
  <2>9. ExpiryOK'
    BY <1>1, <1>8, <2>7 DEF HandlersOK, ExpiryOK
  <2> QED BY <2>6, <2>7, <2>8, <2>9 DEF HandlersOK
<1>13. CASE RenewHead(h) \/ RenewMiddle(h)
  <2>1. /\ pc'[h] \in {"add_lock", "walk"} /\ mutex' = h
        /\ UNCHANGED <<timer, crossed>>
    BY <1>11, <1>13 DEF RenewHead, RenewMiddle, Goto, TypeOK
  <2>2. OnList' = OnList \ {c}
    <3>1. Placing' = {c}
      BY <2>1, PlacingIsPrimed DEF Base
    <3> QED BY <1>1, <1>3, <3>1 DEF OnList
  <2>3. k < n /\ k + 1 \in 1 .. n /\ next[c] = s[k + 1] /\ s[k + 1] \in Conns
        /\ s[k + 1] # c
    BY <1>7, <1>9, <1>10, <1>13 DEF RenewHead, RenewMiddle
  <2>4. /\ next'[c] = Null /\ prev'[c] = Null
        /\ k > 1 => next'[s[k - 1]] = next[c]
        /\ prev'[s[k + 1]] = prev[c]
        /\ \A d \in Conns : d # c /\ (k > 1 => d # s[k - 1]) => next'[d] = next[d]
        /\ \A d \in Conns : d # c /\ d # s[k + 1] => prev'[d] = prev[d]
        /\ head' = IF k = 1 THEN next[head] ELSE head
        /\ tail' = tail
    <3>1. CASE RenewHead(h)
      <4>1. c = head
        BY <3>1 DEF RenewHead
      <4>2. k = 1
        <5>1. s[k] = s[1] /\ 1 \in 1 .. n
          BY <1>7, <1>9, <4>1
        <5> QED BY <5>1, <1>10
      <4> QED BY <1>1, <1>9, <1>11, <2>3, <3>1, <4>1, <4>2 DEF RenewHead, TypeOK
    <3>2. CASE RenewMiddle(h)
      <4>1. k > 1 /\ k - 1 \in 1 .. n /\ prev[c] = s[k - 1] /\ s[k - 1] \in Conns
            /\ s[k - 1] # c
        BY <1>7, <1>9, <1>10, <3>2 DEF RenewMiddle
      <4>2. /\ next' = [next EXCEPT ![s[k - 1]] = next[c], ![c] = Null]
            /\ prev' = [prev EXCEPT ![s[k + 1]] = prev[c], ![c] = Null]
            /\ UNCHANGED <<head, tail>>
        BY <2>3, <3>2, <4>1 DEF RenewMiddle
      <4>3. /\ next'[c] = Null /\ next'[s[k - 1]] = next[c]
            /\ \A d \in Conns : d # c /\ d # s[k - 1] => next'[d] = next[d]
        BY <1>1, <1>11, <4>1, <4>2 DEF TypeOK
      <4>4. /\ prev'[c] = Null /\ prev'[s[k + 1]] = prev[c]
            /\ \A d \in Conns : d # c /\ d # s[k + 1] => prev'[d] = prev[d]
        BY <1>1, <1>11, <2>3, <4>2 DEF TypeOK
      <4>5. head' = head /\ tail' = tail
        BY <4>2
      <4> QED BY <4>1, <4>3, <4>4, <4>5
    <3> QED BY <1>13, <3>1, <3>2
  <2>5. LinksOut(n, s, k, next, prev, next', prev')
    BY <1>7, <2>3, <2>4 DEF LinksOut
  <2>6. tail' = IF k = n THEN prev[tail] ELSE tail
    BY <2>3, <2>4
  <2>7. \A d \in Conns : d # s[k] => expire'[d] = expire[d]
    BY <1>1, <1>7
  <2>8. HasList'
    BY <1>5, <1>7, <1>11, <2>2, <2>4, <2>5, <2>6, <2>7, ListShrinks
  <2>9. SearchOK'
    <3> SUFFICES ASSUME pc'[h] = "walk" PROVE /\ cur'[h] \in OnList'
                                             /\ expire'[cur'[h]] <= expire'[c]
      BY <1>1, <1>2, <2>1 DEF SearchOK
    <3>1. RenewMiddle(h)
      BY <1>11, <1>13 DEF RenewHead, Goto, TypeOK
    <3>2. cur'[h] = s[k + 1] /\ expire[s[k + 1]] <= expire'[c]
      BY <1>1, <1>11, <2>3, <3>1 DEF RenewMiddle, NewExpiry, TypeOK
    <3>3. s[k + 1] \in OnList'
      BY <1>5, <2>2, <2>3 DEF Timers
    <3> QED BY <1>1, <2>3, <3>2, <3>3
  <2>10. EntersOK' /\ ShutOK' /\ CrashOK'
    BY <1>1, <2>1 DEF HandlersOK, EntersOK, ShutOK, CrashOK
  <2>11. NotEmptyOK'
    <3>1. head # Null /\ next[c] # Null
      BY <1>9, <2>3
    <3>2. head' # Null
      BY <1>13, <3>1 DEF RenewHead, RenewMiddle
    <3> QED BY <3>2 DEF NotEmptyOK
  <2>12. \A g \in Handlers \ {h} : \A d \in Conns : Adding(g, d)' <=> Adding(g, d)
    BY <1>1, <2>1 DEF Adding
  <2>13. \A d \in Conns : Adding(h, d)' <=> d = c
    BY <1>1, <2>1 DEF Adding
  <2>14. \A g \in Handlers : ~ Adding(g, c)
    BY <1>1, <1>2, <1>3, <1>6 DEF HandlersOK, EntersOK, Adding
  <2>15. AloneOK'
    BY <2>12, <2>13, <2>14 DEF HandlersOK, AloneOK
  <2>16. ExpiryOK'
    BY <1>1, <1>8, <2>12, <2>13 DEF HandlersOK, ExpiryOK
  <2> QED BY <2>8, <2>9, <2>10, <2>11, <2>15, <2>16 DEF HandlersOK
<1> QED BY <1>12, <1>13 DEF IncTimer

\* remove_timer: the timer is off the list, wherever it stood.
LEMMA RemoveStep ==
    ASSUME Base, Base', HasList, HandlersOK, NEW h \in Handlers, RemoveTimer(h)
    PROVE  HasList' /\ HandlersOK'
<1> USE ConstantsOK DEF Threads
<1> DEFINE c == timer[h]
<1>1. /\ UNCHANGED <<expire, expireTime, now, mutex, timer, cur, crossed>>
      /\ pc[h] = "rm_lock" /\ mutex = Free /\ c \in Conns
      /\ pc'[h] = "removefd"
      /\ registered' = registered \ {c}
      /\ \A g \in Handlers \ {h} : pc'[g] = pc[g]
  BY DEF RemoveTimer, RemoveHead, RemoveTail, RemoveMiddle, RemoveUnlisted,
         Removing, Base, TypeOK, Goto, slots, timing
<1>2. \A g \in Handlers : pc[g] # "walk"
  BY <1>1 DEF Base, MutexOK
<1>3. HandlersOK'
  <2>1. SearchOK' /\ NotEmptyOK' /\ EntersOK' /\ ShutOK' /\ CrashOK'
    BY <1>1, <1>2 DEF HandlersOK, SearchOK, NotEmptyOK, EntersOK, ShutOK, CrashOK
  <2>2. \A g \in Handlers : \A d \in Conns : Adding(g, d)' <=> Adding(g, d)
    BY <1>1 DEF Adding
  <2>3. AloneOK' /\ ExpiryOK'
    BY <1>1, <2>2 DEF HandlersOK, AloneOK, ExpiryOK
  <2> QED BY <2>1, <2>3 DEF HandlersOK
<1>4. OnList' = OnList \ {c}
  BY <1>1 DEF OnList, Placing
<1>5. PICK n \in Nat : \E s \in [1 .. n -> Conns] :
         /\ Spelled(n, s, head, tail, next, prev, expire)
         /\ OnList = Timers(s, n)
  BY DEF HasList
<1>6. PICK s \in [1 .. n -> Conns] :
         /\ Spelled(n, s, head, tail, next, prev, expire)
         /\ OnList = Timers(s, n)
  BY <1>5
<1>7. TypeOK
  BY DEF Base
<1>8. CASE c \notin OnList
  <2>1. next[c] = Null /\ prev[c] = Null /\ c # head /\ c # tail
    BY <1>1, <1>6, <1>8 DEF Spelled, Timers
  <2>2. RemoveUnlisted(h)
    BY <2>1 DEF RemoveTimer, RemoveHead, RemoveTail, RemoveMiddle
  <2>3. UNCHANGED links
    BY <1>7, <2>1, <2>2 DEF RemoveUnlisted, links, TypeOK
  <2>4. HasList'
    BY <1>1, <1>4, <1>8, <2>3, ListKept
  <2> QED BY <1>3, <2>4
<1>9. CASE c \in OnList
  <2>1. PICK k \in 1 .. n : c = s[k]
    BY <1>6, <1>9 DEF Timers
  <2>2. /\ next[c] = IF k = n THEN Null ELSE s[k + 1]
        /\ prev[c] = IF k = 1 THEN Null ELSE s[k - 1]
        /\ head = s[1] /\ tail = s[n]
        /\ \A i, j \in 1 .. n : i < j => s[i] # s[j]
    BY <1>6, <2>1 DEF Spelled
  <2>3. \A i, j \in 1 .. n : i # j => s[i] # s[j]
    BY <2>2
  <2>4. /\ k > 1 => k - 1 \in 1 .. n /\ s[k - 1] \in Conns /\ s[k - 1] # c
        /\ k < n => k + 1 \in 1 .. n /\ s[k + 1] \in Conns /\ s[k + 1] # c
        /\ k = 1 <=> c = head
        /\ k = n <=> c = tail
    BY <2>1, <2>2, <2>3
  <2>5. /\ next'[c] = Null /\ prev'[c] = Null
        /\ k > 1 => next'[s[k - 1]] = next[c]
        /\ k < n => prev'[s[k + 1]] = prev[c]
        /\ \A d \in Conns : d # c /\ (k > 1 => d # s[k - 1]) => next'[d] = next[d]
        /\ \A d \in Conns : d # c /\ (k < n => d # s[k + 1]) => prev'[d] = prev[d]
        /\ head' = IF k = 1 THEN next[head] ELSE head
        /\ tail' = IF k = n THEN prev[tail] ELSE tail
    <3>1. CASE RemoveHead(h)
      <4>1. k = 1
        BY <2>4, <3>1 DEF RemoveHead
      <4>2. /\ \A d \in Conns : next'[d] = IF d = c THEN Null ELSE next[d]
            /\ \A d \in Conns : prev'[d] = IF d \in {c, next[c]} THEN Null
                                          ELSE prev[d]
        BY <1>7, <3>1 DEF RemoveHead, TypeOK
      <4>3. head' = next[head] /\ tail' = IF k = n THEN prev[tail] ELSE tail
        <5>1. head' = next[c] /\ tail' = IF next[c] = Null THEN Null ELSE tail
          BY <3>1 DEF RemoveHead
        <5>2. k < n => next[c] # Null
          BY <2>2, <2>4
        <5> QED BY <2>1, <2>2, <2>4, <4>1, <5>1, <5>2
      <4> QED BY <1>1, <2>2, <2>4, <4>1, <4>2, <4>3
    <3>2. CASE RemoveTail(h)
      <4>1. k = n /\ k > 1
        BY <2>2, <2>4, <3>2 DEF RemoveTail
      <4>2. /\ \A d \in Conns : next'[d] = IF d \in {c, prev[c]} THEN Null
                                          ELSE next[d]
            /\ \A d \in Conns : prev'[d] = IF d = c THEN Null ELSE prev[d]
        BY <1>7, <3>2 DEF RemoveTail, TypeOK
      <4>3. head' = head /\ tail' = prev[tail]
        BY <2>1, <2>2, <4>1, <3>2 DEF RemoveTail
      <4> QED BY <1>1, <2>2, <2>4, <4>1, <4>2, <4>3
    <3>3. CASE RemoveMiddle(h)
      <4>1. k < n /\ k > 1 /\ next[c] = s[k + 1] /\ prev[c] = s[k - 1]
        BY <2>2, <2>4, <3>3 DEF RemoveMiddle
      <4>2. /\ next' = [next EXCEPT ![s[k - 1]] = next[c], ![c] = Null]
            /\ prev' = [prev EXCEPT ![s[k + 1]] = prev[c], ![c] = Null]
            /\ UNCHANGED <<head, tail>>
        BY <3>3, <4>1 DEF RemoveMiddle
      <4>3. /\ next'[c] = Null /\ next'[s[k - 1]] = next[c]
            /\ \A d \in Conns : d # c /\ d # s[k - 1] => next'[d] = next[d]
        BY <1>1, <1>7, <2>4, <4>1, <4>2 DEF TypeOK
      <4>4. /\ prev'[c] = Null /\ prev'[s[k + 1]] = prev[c]
            /\ \A d \in Conns : d # c /\ d # s[k + 1] => prev'[d] = prev[d]
        BY <1>1, <1>7, <2>4, <4>1, <4>2 DEF TypeOK
      <4>5. head' = head /\ tail' = tail
        BY <4>2
      <4> QED BY <4>1, <4>3, <4>4, <4>5
    <3>4. ~ RemoveUnlisted(h)
      BY <2>2, <2>4 DEF RemoveUnlisted
    <3> QED BY <3>1, <3>2, <3>3, <3>4 DEF RemoveTimer
  <2>6. LinksOut(n, s, k, next, prev, next', prev')
    BY <2>1, <2>5 DEF LinksOut
  <2>7. HasList'
    BY <1>1, <1>4, <1>6, <1>7, <2>1, <2>5, <2>6, ListShrinks
  <2> QED BY <1>3, <2>7
<1> QED BY <1>8, <1>9

\* A timer that is registered, and not being placed, has the links its place
\* asks for.
LEMMA ListedLinks ==
    ASSUME HasList, NEW c \in OnList
    PROVE  /\ c = head \/ prev[c] # Null
           /\ c = tail \/ next[c] # Null
<1>1. PICK n \in Nat : \E s \in [1 .. n -> Conns] :
         /\ Spelled(n, s, head, tail, next, prev, expire)
         /\ OnList = Timers(s, n)
  BY DEF HasList
<1>2. PICK s \in [1 .. n -> Conns] :
         /\ Spelled(n, s, head, tail, next, prev, expire)
         /\ OnList = Timers(s, n)
  BY <1>1
<1>3. PICK k \in 1 .. n : c = s[k]
  BY <1>2 DEF Timers
<1> QED BY <1>2, <1>3, ConstantsOK DEF Spelled

\* Closing the descriptor, and the crash.
LEMMA EndStep ==
    ASSUME Base, Base', HasList, HandlersOK, NEW h \in Handlers,
           RemoveFd(h) \/ NullDereference(h)
    PROVE  HasList' /\ HandlersOK'
<1> USE ConstantsOK DEF Threads
<1>1. CASE RemoveFd(h)
  <2>1. /\ UNCHANGED links
        /\ UNCHANGED <<expire, expireTime, mutex, cur, now, registered>>
        /\ Done(h) /\ pc[h] = "removefd" /\ timer[h] \in Conns
    BY <1>1 DEF RemoveFd, Base, TypeOK, timing
  <2>2. /\ ShutOK' /\ CrashOK' /\ AloneOK' /\ EntersOK'
        /\ pc'[h] = "idle"
        /\ \A g \in Handlers \ {h} : timer'[g] = timer[g] /\ pc'[g] = pc[g]
        /\ \A g \in Handlers : \A d \in Conns : Adding(g, d)' => Adding(g, d)
    BY <2>1, DoneStep
  <2>3. mutex # h
    BY <2>1 DEF Base, MutexOK
  <2>4. OnList' = OnList
    BY <2>1, <2>2, <2>3 DEF OnList, Placing
  <2>5. HasList'
    BY <2>1, <2>4, ListKept
  <2>6. SearchOK' /\ NotEmptyOK' /\ ExpiryOK'
    BY <2>1, <2>2, <2>4 DEF HandlersOK, SearchOK, NotEmptyOK, ExpiryOK, links
  <2> QED BY <2>2, <2>5, <2>6 DEF HandlersOK
<1>2. CASE NullDereference(h)
  <2>1. /\ UNCHANGED links
        /\ UNCHANGED <<expire, expireTime, mutex, timer, cur, now, registered>>
        /\ \A g \in Handlers : pc'[g] = IF g = h THEN "crashed" ELSE "dead"
        /\ mutex = Free /\ FollowsNull(h)
    BY <1>2 DEF NullDereference, slots, timing, history
  <2>2. OnList' = OnList /\ OnList = registered
    BY <2>1 DEF OnList, Placing
  <2>3. HasList'
    BY <2>1, <2>2, ListKept
  <2>4. timer[h] \notin registered
    BY <2>1, <2>2, ListedLinks DEF FollowsNull
  <2>5. HandlersOK'
    BY <2>1, <2>4 DEF HandlersOK, SearchOK, EntersOK, AloneOK, ExpiryOK,
                      NotEmptyOK, ShutOK, CrashOK, Adding
  <2> QED BY <2>3, <2>5
<1> QED BY <1>1, <1>2


LEMMA IndStep ==
    ASSUME IndInv, [Next]_vars, Base', ~ spoiled'
    PROVE  ~ spoiled /\ HasList' /\ HandlersOK'
<1> USE ConstantsOK DEF Threads
<1>0. Base
  BY DEF IndInv
<1>1. ~ spoiled
  <2>1. ASSUME NEW c, Overwrites(c) PROVE ~ spoiled
    BY <1>0, <2>1, OverwritesType DEF Base
  <2>2. ASSUME spoiled' = spoiled PROVE ~ spoiled
    BY <2>2, Zenon
  <2>3. ASSUME NEW h \in Handlers, NEW c \in Conns, Client(h, c)
        PROVE  Overwrites(c) \/ spoiled' = spoiled
    BY <2>3 DEF Client, Connect, Activity, Shut
  <2>4. ASSUME NEW h \in Handlers, Handler(h) PROVE spoiled' = spoiled
    BY <2>4, Zenon DEF Handler, AddTimer, AddFirst, AddAfterHead, Search, Walk,
       InsertAfter, IncTimer, RenewInPlace, RenewHead, RenewMiddle, Renewing,
       RemoveTimer, RemoveHead, RemoveTail, RemoveMiddle, RemoveUnlisted,
       Removing, RemoveFd, NullDereference, history
  <2>5. ASSUME Tick \/ Advance \/ UNCHANGED vars PROVE spoiled' = spoiled
    BY <2>5, Zenon DEF Tick, Alarm, TimerHandler, TickQuiet, TickExpired, Advance,
       vars, history
  <2>6. ASSUME NEW c \in Conns, Accept(c) PROVE Overwrites(c)
    BY <2>6 DEF Accept
  <2> QED BY <2>1, <2>2, <2>3, <2>4, <2>5, <2>6, Zenon DEF Next
<1>2. HasList /\ HandlersOK
  BY <1>1 DEF IndInv
<1>3. ASSUME Tick \/ Advance \/ UNCHANGED vars PROVE HasList' /\ HandlersOK'
  <2>1. /\ UNCHANGED <<links, expire, expireTime, timer, cur, registered, crossed>>
        /\ mutex' = mutex \/ (mutex = Free /\ mutex' = Main)
        /\ \A h \in Handlers : pc'[h] = pc[h]
    BY <1>0, <1>3 DEF Tick, Alarm, TimerHandler, TickQuiet, TickExpired, Advance,
       vars, history, slots, Goto, Base, TypeOK
  <2>2. now <= now'
    BY <1>0, <1>3 DEF Tick, Alarm, TimerHandler, TickQuiet, TickExpired, Advance,
       vars, timing, Base, TypeOK
  <2> QED BY <1>0, <1>2, <2>1, <2>2, QuietStep
<1>4. ASSUME NEW c \in Conns, Accept(c) PROVE HasList' /\ HandlersOK'
  BY <1>0, <1>2, <1>4, AcceptStep
<1>5. ASSUME NEW h \in Handlers, NEW c \in Conns, Client(h, c)
      PROVE  HasList' /\ HandlersOK'
  BY <1>0, <1>2, <1>5, ClientStep
<1>6. ASSUME NEW h \in Handlers, Handler(h) PROVE HasList' /\ HandlersOK'
  BY <1>0, <1>2, <1>6, AddStep, SearchStep, IncStep, RemoveStep, EndStep
     DEF Handler
<1> QED BY <1>1, <1>3, <1>4, <1>5, <1>6 DEF Next

\* The list of the induction is one that ListOK looks for.
LEMMA ListBound == ~ spoiled /\ HasList => ListOK
<1> SUFFICES ASSUME HasList
             PROVE  \E n \in 0 .. Cardinality(Conns) :
                       \E s \in [1 .. n -> Conns] :
                          /\ Spells(n, s)
                          /\ registered \ Placing = {s[i] : i \in 1 .. n}
  BY DEF ListOK
<1>1. PICK n \in Nat : \E s \in [1 .. n -> Conns] :
         /\ Spelled(n, s, head, tail, next, prev, expire)
         /\ OnList = Timers(s, n)
  BY DEF HasList
<1>2. PICK s \in [1 .. n -> Conns] :
         /\ Spelled(n, s, head, tail, next, prev, expire)
         /\ OnList = Timers(s, n)
  BY <1>1
<1>3. Spells(n, s) /\ registered \ Placing = {s[i] : i \in 1 .. n}
  BY <1>2 DEF Spelled, Spells, Timers, OnList
<1>4. n <= Cardinality(Conns)
  <2>1. \A i, j \in 1 .. n : i < j => s[i] # s[j]
    BY <1>2 DEF Spelled
  <2>2. \A i, j \in 1 .. n : s[i] = s[j] => i = j
    BY <2>1
  <2>3. s \in Injection(1 .. n, Conns)
    BY <2>2 DEF Injection, IsInjective
  <2>4. IsFiniteSet(Conns)
    BY ConstantsOK
  <2>5. Cardinality(1 .. n) <= Cardinality(Conns)
    BY <2>3, <2>4, FS_Injection DEF ExistsInjection
  <2>6. Cardinality(1 .. n) = n
    BY FS_Interval
  <2> QED BY <2>5, <2>6
<1>5. Cardinality(Conns) \in Nat
  BY ConstantsOK, FS_CardinalityType
<1> QED BY <1>3, <1>4, <1>5

LEMMA IndInvariant == Spec => []IndInv
<1>1. Init /\ TypeOK => IndInv
  BY BaseInit, InitInd DEF IndInv, Base
<1>2. IndInv /\ [Next]_vars /\ TypeOK' => IndInv'
  <2> SUFFICES ASSUME IndInv, [Next]_vars, TypeOK' PROVE IndInv'
    OBVIOUS
  <2>1. Base'
    BY MutexStep, CrossStep DEF IndInv, Base
  <2>2. ~ spoiled' => HasList' /\ HandlersOK'
    BY <2>1, IndStep
  <2> QED BY <2>1, <2>2 DEF IndInv
<1> QED BY <1>1, <1>2, TypeCorrect, PTL DEF Spec

-----------------------------------------------------------------------------
(* The properties.                                                         *)

\* Under every interleaving of handlers, ticks and accepts, on whatever slots
\* the handlers work, the timer list is exactly the registered timers, once
\* each, in order of expiry, until an expiry is overwritten without the mutex
\* (mqtt_timer.c add, adjust, remove).
THEOREM ListCorrect == Spec => []ListOK
<1>1. IndInv => ListOK
  BY ListBound DEF IndInv, ListOK
<1> QED BY <1>1, IndInvariant, PTL

\* The mutex is held by every search of add_timer_after, which never leaves
\* the list, and by nobody that has left the list's functions.
THEOREM ThreadsCorrect == Spec => []ThreadsOK
<1>1. IndInv => ThreadsOK
  BY DEF IndInv, Base, MutexOK, HandlersOK, SearchOK, AloneOK, OnList, ThreadsOK
<1> QED BY <1>1, IndInvariant, PTL

\* The untested timer->next of adjust_timer is null only for a timer that is
\* not registered.
THEOREM CrashesOnlyUnlisted == Spec => []CrashOnlyUnlisted
<1>1. IndInv => CrashOnlyUnlisted
  BY DEF IndInv, HandlersOK, CrashOK, CrashOnlyUnlisted
<1> QED BY <1>1, IndInvariant, PTL

\* A handler that has been alone on a slot closes the descriptor of a timer
\* that is off the list (shut_dead_conn, remove_timer with its unlocked test
\* of list->head).
THEOREM ClosedOff == Spec => []ClosedOffList
<1>1. ASSUME HasList, Base, NEW c \in Conns, c \notin registered
      PROVE  c # head /\ c # tail /\ next[c] = Null /\ prev[c] = Null
  <2>1. PICK n \in Nat : \E s \in [1 .. n -> Conns] :
           /\ Spelled(n, s, head, tail, next, prev, expire)
           /\ OnList = Timers(s, n)
    BY <1>1 DEF HasList
  <2>2. c \notin OnList
    BY <1>1 DEF OnList
  <2> QED BY <2>1, <2>2, ConstantsOK DEF Spelled, Timers
<1>2. IndInv => ClosedOffList
  <2> SUFFICES ASSUME IndInv, ~ spoiled, NEW h \in Handlers, pc[h] = "removefd",
                      timer[h] \notin crossed
               PROVE  /\ timer[h] # head /\ timer[h] # tail
                      /\ next[timer[h]] = Null /\ prev[timer[h]] = Null
    BY DEF ClosedOffList
  <2>1. timer[h] \in Conns /\ timer[h] \notin registered
    BY DEF IndInv, Base, TypeOK, HandlersOK, ShutOK
  <2> QED BY <1>1, <2>1 DEF IndInv
<1> QED BY <1>2, IndInvariant, PTL

-----------------------------------------------------------------------------
(* TimerList implements TimerSet.                                          *)

deadline == [c \in Listed |-> expire[c]]
due == IF pc[Main] = "rm_lock" THEN head ELSE Null

\* The listed timers are the registered ones and the one being placed.
LEMMA ListedIs == HasList => Listed = OnList \cup Placing
<1> SUFFICES ASSUME HasList PROVE Listed = OnList \cup Placing
  OBVIOUS
<1>1. PICK n \in Nat : \E s \in [1 .. n -> Conns] :
         /\ Spelled(n, s, head, tail, next, prev, expire)
         /\ OnList = Timers(s, n)
  BY DEF HasList
<1>2. PICK s \in [1 .. n -> Conns] :
         /\ Spelled(n, s, head, tail, next, prev, expire)
         /\ OnList = Timers(s, n)
  BY <1>1
<1>3. ASSUME NEW c \in Conns
      PROVE  c \in OnList <=> c = head \/ prev[c] # Null
  <2>1. CASE c \in OnList
    BY <2>1, ListedLinks
  <2>2. CASE c \notin OnList
    <3>1. ASSUME n > 0 PROVE head \in OnList
      <4>1. 1 \in 1 .. n /\ head = s[1]
        BY <1>2, <3>1 DEF Spelled
      <4> QED BY <1>2, <4>1, Zenon DEF Timers
    <3>2. n = 0 => head # c
      BY <1>2, ConstantsOK DEF Spelled
    <3> QED BY <1>2, <2>2, <3>1, <3>2 DEF Spelled
  <2> QED BY <2>1, <2>2
<1>4. OnList \subseteq Conns /\ Placing \subseteq Conns
  BY <1>2 DEF Timers, Placing
<1> QED BY <1>3, <1>4 DEF Listed

LEMMA ListedIsPrimed == (HasList => Listed = OnList \cup Placing)'
  BY ListedIs, PTL

\* The head is listed and nothing listed expires earlier.
LEMMA HeadFirst ==
    ASSUME Base, HasList, head # Null, mutex \notin Handlers
    PROVE  head \in Listed /\ \A d \in Listed : expire[head] <= expire[d]
<1>1. PICK n \in Nat : \E s \in [1 .. n -> Conns] :
         /\ Spelled(n, s, head, tail, next, prev, expire)
         /\ OnList = Timers(s, n)
  BY DEF HasList
<1>2. PICK s \in [1 .. n -> Conns] :
         /\ Spelled(n, s, head, tail, next, prev, expire)
         /\ OnList = Timers(s, n)
  BY <1>1
<1>3. n > 0 /\ head = s[1] /\ head \in Conns
  BY <1>2 DEF Spelled
<1>4. Listed = OnList
  BY ListedIs, PlacingIs DEF Base
<1>5. head \in OnList
  BY <1>2, <1>3 DEF Timers
<1>6. ASSUME NEW d \in OnList PROVE expire[head] <= expire[d]
  <2>1. PICK k \in 1 .. n : d = s[k]
    BY <1>2 DEF Timers
  <2>2. k > 1 => expire[s[1]] <= expire[s[k]]
    BY <1>2, <1>3 DEF Spelled
  <2>3. expire[head] \in Nat
    BY <1>3 DEF Base, TypeOK
  <2> QED BY <1>3, <2>1, <2>2, <2>3
<1> QED BY <1>4, <1>5, <1>6

\* What the abstract state is made of did not change.
LEMMA Stutters ==
    ASSUME Listed' = Listed, \A d \in Listed : expire'[d] = expire[d],
           due' = due, now' = now, spoiled' = spoiled
    PROVE  UNCHANGED Abstract!vars
<1>1. deadline' = deadline
  BY DEF deadline
<1> QED BY <1>1, Zenon DEF Abstract!vars, deadline, due

\* Accepting and beginning an operation touch no listed timer, unless they
\* spoil it.
LEMMA ClientRefines ==
    ASSUME Base, Base', HasList, NEW c \in Conns,
           Accept(c) \/ \E h \in Handlers : Client(h, c),
           ~ spoiled, ~ spoiled'
    PROVE  UNCHANGED Abstract!vars
<1> USE ConstantsOK DEF Threads
<1>0. spoiled' = spoiled
  <2>1. spoiled \in BOOLEAN /\ spoiled' \in BOOLEAN
    BY Zenon DEF Base, TypeOK
  <2> QED BY <2>1, Zenon
<1>1. /\ UNCHANGED links /\ UNCHANGED <<mutex, now, registered>>
      /\ \A d \in Conns \ {c} : expire'[d] = expire[d]
      /\ pc'[Main] = pc[Main]
  BY DEF Client, Accept, Connect, Activity, Shut, Takes, Base, TypeOK, Goto,
         slots, timing
<1>2. Placing' = Placing
  <2>1. CASE Accept(c)
    BY <2>1 DEF Accept, Placing
  <2>2. ASSUME NEW h \in Handlers, Client(h, c) PROVE Placing' = Placing
    <3>1. /\ mutex # h /\ mutex' = mutex
          /\ \A g \in Handlers \ {h} : timer'[g] = timer[g]
      BY <1>1, <2>2 DEF Client, Connect, Activity, Shut, Takes, Base, TypeOK,
                        MutexOK
    <3> QED BY <3>1 DEF Placing
  <2> QED BY <2>1, <2>2
<1>3. Listed' = Listed /\ due' = due
  BY <1>1, <1>2 DEF Listed, links, due
<1>4. c \in Listed => expire'[c] = expire[c]
  <2>1. c \in Listed => c \in registered \/ \E h \in Handlers : Adding(h, c)
    BY ListedIs DEF OnList, Placing, Base, MutexOK, Adding
  <2>2. expire' = expire \/ Overwrites(c)
    BY DEF Client, Accept, Connect, Activity, Shut, slots
  <2> QED BY <2>1, <2>2 DEF Overwrites
<1> QED BY <1>0, <1>1, <1>3, <1>4, Stutters DEF Listed

\* add_timer registers its timer, whether at once or by starting a search; a
\* timer that its renewal took from the head is still registered.
LEMMA AddRefines ==
    ASSUME Base, Base', HasList, HasList', HandlersOK, NEW h \in Handlers,
           AddTimer(h), NEW c \in Conns, timer[h] = c
    PROVE  Abstract!Register(c)
<1> USE ConstantsOK DEF Threads
<1>1. /\ expire' = expire /\ now' = now /\ spoiled' = spoiled
      /\ pc[h] = "add_lock" /\ mutex = Free /\ c \in Conns
      /\ pc'[Main] = pc[Main]
  BY DEF AddTimer, AddFirst, AddAfterHead, Base, TypeOK, Done, Goto, slots, timing,
         history
<1>2. Placing = {} /\ Listed = registered /\ c \notin registered
  <2>1. Placing = {} /\ mutex # h
    BY <1>1, PlacingIs DEF Base
  <2> QED BY <1>1, <2>1, ListedIs DEF OnList, HandlersOK, EntersOK
<1>3. Listed' = Listed \cup {c}
  <2>1. CASE AddFirst(h)
    <3>1. registered' = registered \cup {c} /\ mutex' = Free
      BY <1>1, <2>1 DEF AddFirst
    <3>2. Placing' = {}
      BY <3>1, PlacingIsPrimed DEF Base
    <3>3. Listed' = OnList' \cup Placing'
      BY ListedIsPrimed
    <3> QED BY <1>2, <3>1, <3>2, <3>3 DEF OnList
  <2>2. CASE AddAfterHead(h)
    <3>1. mutex' = h /\ timer' = timer /\ UNCHANGED links
      BY <2>2 DEF AddAfterHead
    <3>2. Placing' = {c}
      BY <3>1, PlacingIsPrimed DEF Base
    <3> QED BY <1>1, <1>2, <3>1, <3>2 DEF Listed, links
  <2> QED BY <2>1, <2>2 DEF AddTimer
<1>4. expire'[c] \in Nat
  BY <1>1 DEF Base, TypeOK
<1>5. due' = due
  BY <1>1 DEF Base, MutexOK, due
<1> QED
  BY <1>1, <1>2, <1>3, <1>4, <1>5, Zenon DEF Abstract!Register, Abstract!registered,
     Abstract!Keeps, due

\* A search moves no deadline and ends where it began: in the list.
LEMMA SearchRefines ==
    ASSUME Base, Base', HasList, HasList', NEW h \in Handlers, Search(h)
    PROVE  UNCHANGED Abstract!vars
<1> USE ConstantsOK DEF Threads
<1>1. /\ expire' = expire /\ now' = now /\ spoiled' = spoiled
      /\ pc[h] = "walk" /\ mutex = h /\ pc'[Main] = pc[Main]
      /\ timer[h] \in Conns
  BY DEF Search, Walk, InsertAfter, Base, TypeOK, MutexOK, Done, Goto, slots,
         timing, history
<1>2. due' = due
  BY <1>1 DEF Base, MutexOK, due
<1>3. Placing = {timer[h]}
  BY <1>1, PlacingIs DEF Base
<1>4. Listed' = Listed
  <2>1. CASE Walk(h)
    BY <2>1 DEF Walk, Listed, Placing, links
  <2>2. CASE InsertAfter(h)
    <3>1. registered' = registered \cup {timer[h]} /\ mutex' = Free
      BY <2>2 DEF InsertAfter
    <3>2. Placing' = {}
      BY <3>1, PlacingIsPrimed DEF Base
    <3>3. Listed' = OnList' \cup Placing'
      BY ListedIsPrimed
    <3>4. Listed = OnList \cup Placing
      BY ListedIs
    <3> QED BY <1>3, <3>1, <3>2, <3>3, <3>4 DEF OnList
  <2> QED BY <2>1, <2>2 DEF Search
<1> QED BY <1>1, <1>2, <1>4, Stutters

\* inc_timer renews: the new deadline is not before the old one.
LEMMA IncRefines ==
    ASSUME Base, Base', HasList, HasList', HandlersOK, NEW h \in Handlers,
           IncTimer(h), NEW c \in Conns, timer[h] = c
    PROVE  Abstract!Renew(c)
<1> USE ConstantsOK DEF Threads
<1>1. /\ now' = now /\ registered' = registered /\ spoiled' = spoiled
      /\ pc[h] = "inc_lock" /\ mutex = Free /\ c \in Conns
      /\ expire'[c] = now + expireTime[c]
      /\ \A d \in Conns \ {c} : expire'[d] = expire[d]
      /\ pc'[Main] = pc[Main]
  BY DEF IncTimer, RenewInPlace, RenewHead, RenewMiddle, Renewing, NewExpiry,
         Base, TypeOK, Done, Goto, timing
<1>2. due' = due
  BY <1>1 DEF Base, MutexOK, due
<1>3. c = tail \/ next[c] # Null
  BY DEF IncTimer, RenewInPlace, RenewHead, RenewMiddle
<1>4. Placing = {} /\ Listed = registered /\ OnList = registered
  <2>1. Placing = {}
    BY <1>1, PlacingIs DEF Base
  <2> QED BY <2>1, ListedIs DEF OnList
<1>5. PICK n \in Nat : \E s \in [1 .. n -> Conns] :
         /\ Spelled(n, s, head, tail, next, prev, expire)
         /\ OnList = Timers(s, n)
  BY DEF HasList
<1>6. c \in registered
  BY <1>1, <1>3, <1>4, <1>5 DEF Spelled, Timers
<1>7. Listed' = Listed
  <2>1. Placing' \subseteq {c}
    <3>1. mutex' \in {Free, h} /\ (mutex' = h => timer'[h] = c)
      BY <1>1 DEF IncTimer, RenewInPlace, RenewHead, RenewMiddle
    <3> QED BY <3>1, PlacingIsPrimed DEF Base
  <2>2. Listed' = OnList' \cup Placing'
    BY ListedIsPrimed
  <2> QED BY <1>1, <1>4, <1>6, <2>1, <2>2 DEF OnList
<1>8. expire'[c] >= now /\ expire'[c] >= expire[c]
  <2>1. expire[c] <= now + expireTime[c]
    BY <1>1, <1>6 DEF HandlersOK, ExpiryOK
  <2>2. expire[c] \in Nat /\ expireTime[c] \in Nat /\ now \in Nat
    BY <1>1, WidthType DEF Base, TypeOK
  <2> QED BY <1>1, <2>1, <2>2
<1>9. c \in Listed /\ \A d \in Listed \ {c} : expire'[d] = expire[d]
  BY <1>1, <1>4, <1>6 DEF Listed
<1> QED
  BY <1>1, <1>2, <1>7, <1>8, <1>9 DEF Abstract!Renew, Abstract!registered,
     Abstract!Keeps, due

\* remove_timer drops a listed timer and nothing else.
LEMMA RemoveRefines ==
    ASSUME Base, Base', HasList, HasList', NEW h \in Handlers, RemoveTimer(h),
           NEW c \in Conns, timer[h] = c
    PROVE  Abstract!Drop(c) \/ UNCHANGED Abstract!vars
<1> USE ConstantsOK DEF Threads
<1>1. /\ UNCHANGED <<expire, mutex, timer, now, spoiled>>
      /\ mutex = Free /\ c \in Conns /\ registered' = registered \ {c}
      /\ pc'[Main] = pc[Main]
  BY DEF RemoveTimer, RemoveHead, RemoveTail, RemoveMiddle, RemoveUnlisted,
         Removing, Goto, slots, timing, Base, TypeOK
<1>2. due = Null /\ due' = Null
  BY <1>1 DEF Base, MutexOK, due
<1>3. Placing = {} /\ Placing' = {}
  BY <1>1, PlacingIs, PlacingIsPrimed DEF Base
<1>4. Listed = registered /\ Listed' = registered \ {c} /\ c # Null
  BY <1>1, <1>3, ListedIs, ListedIsPrimed DEF OnList
<1>5. CASE c \in Listed
  BY <1>1, <1>2, <1>4, <1>5 DEF Abstract!Drop, Abstract!registered,
     Abstract!Keeps, due
<1>6. CASE c \notin Listed
  BY <1>1, <1>2, <1>4, <1>6, Stutters
<1> QED BY <1>5, <1>6

\* The tick expires the earliest deadline; the rest is silent.
LEMMA OtherRefines ==
    ASSUME Base, HasList,
           \/ \E h \in Handlers : RemoveFd(h) \/ NullDereference(h)
           \/ Tick \/ Advance \/ UNCHANGED vars
    PROVE  \/ \E c \in Conns : Abstract!Expire(c)
           \/ Abstract!Advance
           \/ UNCHANGED Abstract!vars
<1> USE ConstantsOK DEF Threads
<1>1. ASSUME NEW h \in Handlers, RemoveFd(h) \/ NullDereference(h)
      PROVE  UNCHANGED Abstract!vars
  <2>1. UNCHANGED <<links, expire, mutex, now, spoiled>>
    BY <1>1 DEF RemoveFd, NullDereference, slots, timing, history
  <2>2. due' = due
    BY <1>1, <2>1 DEF RemoveFd, NullDereference, Done, Goto, Base, TypeOK, MutexOK,
                      due, links
  <2>3. Placing' = Placing
    BY <1>1, <2>1 DEF RemoveFd, NullDereference, Done, Placing, Base, TypeOK, MutexOK
  <2> QED BY <2>1, <2>2, <2>3, Stutters DEF Listed, links
<1>2. CASE Alarm \/ TimerHandler \/ TickQuiet \/ UNCHANGED vars
  <2>1. UNCHANGED <<links, expire, mutex, timer, now, spoiled>>
    BY <1>2 DEF Alarm, TimerHandler, TickQuiet, vars, slots, timing, history
  <2>2. due' = due
    BY <1>2, <2>1 DEF Alarm, TimerHandler, TickQuiet, Goto, due, links,
                      Base, TypeOK, vars
  <2> QED BY <2>1, <2>2, Stutters DEF Listed, Placing, links
<1>3. CASE TickExpired
  <2>1. /\ UNCHANGED links /\ UNCHANGED <<expire, timer, now, spoiled>>
        /\ pc[Main] = "tick_lock" /\ pc'[Main] = "rm_lock"
        /\ mutex = Free /\ mutex' = Main
        /\ head # Null /\ tickTime >= expire[head]
    BY <1>3 DEF TickExpired, Goto, slots, timing, history, Base, TypeOK
  <2>2. Listed' = Listed
    BY <2>1 DEF Listed, Placing, links
  <2>3. head \in Listed /\ \A d \in Listed : expire[head] <= expire[d]
    BY <2>1, HeadFirst
  <2>4. head \in Conns /\ expire[head] <= now
    BY <2>1 DEF Base, MutexOK, TypeOK, Pointers
  <2>5. due = Null /\ due' = head
    BY <2>1 DEF due, links
  <2>6. Abstract!Expire(head)
    BY <2>1, <2>2, <2>3, <2>4, <2>5 DEF Abstract!Expire, Abstract!registered, due
  <2> QED BY <2>4, <2>6
<1>4. CASE Advance
  <2>1. UNCHANGED <<links, expire, mutex, timer, pc, spoiled>> /\ now' = now + 1
    BY <1>4 DEF Advance, slots, history
  <2>2. Listed' = Listed /\ head' = head
    BY <2>1 DEF Listed, Placing, links
  <2> QED BY <2>1, <2>2 DEF Abstract!Advance
<1> QED BY <1>1, <1>2, <1>3, <1>4 DEF Tick

LEMMA StepRefines ==
    ASSUME IndInv, IndInv', [Next]_vars
    PROVE  [Abstract!Next]_(Abstract!vars)
<1>1. CASE spoiled'
  <2>1. spoiled' \in BOOLEAN
    BY Zenon DEF IndInv, Base, TypeOK
  <2>2. spoiled' = TRUE
    BY <1>1, <2>1, Zenon
  <2> QED BY <2>2, Zenon DEF Abstract!Next, Abstract!Overwritten
<1>2. CASE ~ spoiled'
  <2>0. ~ spoiled /\ Base /\ Base'
    BY <1>2, IndStep DEF IndInv
  <2>1. HasList /\ HandlersOK /\ HasList'
    BY <1>2, <2>0 DEF IndInv
  <2>2. ASSUME NEW c \in Conns, Accept(c) \/ \E h \in Handlers : Client(h, c)
        PROVE  UNCHANGED Abstract!vars
    BY <1>2, <2>0, <2>1, <2>2, ClientRefines
  <2>3. ASSUME NEW h \in Handlers,
               AddTimer(h) \/ Search(h) \/ IncTimer(h) \/ RemoveTimer(h)
        PROVE  [Abstract!Next]_(Abstract!vars)
    <3>1. PICK c \in Conns : timer[h] = c
      BY <2>0, <2>3 DEF Base, TypeOK, AddTimer, AddFirst, AddAfterHead, Search,
         Walk, InsertAfter, IncTimer, RenewInPlace, RenewHead, RenewMiddle,
         Renewing, RemoveTimer, RemoveHead, RemoveTail, RemoveMiddle,
         RemoveUnlisted, Removing
    <3>2. CASE AddTimer(h)
      <4>1. Abstract!Register(c)
        BY <2>0, <2>1, <3>1, <3>2, AddRefines
      <4> QED BY <4>1 DEF Abstract!Next
    <3>3. CASE Search(h)
      BY <2>0, <2>1, <3>3, SearchRefines
    <3>4. CASE IncTimer(h)
      <4>1. Abstract!Renew(c)
        BY <2>0, <2>1, <3>1, <3>4, IncRefines
      <4> QED BY <4>1 DEF Abstract!Next
    <3>5. CASE RemoveTimer(h)
      <4>1. Abstract!Drop(c) \/ UNCHANGED Abstract!vars
        BY <2>0, <2>1, <3>1, <3>5, RemoveRefines
      <4> QED BY <4>1 DEF Abstract!Next
    <3> QED BY <2>3, <3>2, <3>3, <3>4, <3>5
  <2>4. ASSUME \/ \E h \in Handlers : RemoveFd(h) \/ NullDereference(h)
               \/ Tick \/ Advance \/ UNCHANGED vars
        PROVE  [Abstract!Next]_(Abstract!vars)
    BY <2>0, <2>1, <2>4, OtherRefines DEF Abstract!Next
  <2> QED BY <2>2, <2>3, <2>4 DEF Next, Handler
<1> QED BY <1>1, <1>2

\* The timer list keeps the promise of TimerSet until an expiry is overwritten
\* without the mutex: one deadline for each registered connection, moved only
\* by a renewal and only to a later time, and a tick takes the earliest.
THEOREM Implements == Spec => ImplementsTimerSet
<1>1. Init => Abstract!Init
  <2> SUFFICES ASSUME Init PROVE Abstract!Init
    OBVIOUS
  <2>1. Listed = {}
    BY ConstantsOK DEF Init, Listed, Placing, Threads
  <2>2. pc[Main] = "idle" /\ now = 0 /\ spoiled = FALSE
    BY DEF Init, Threads
  <2> QED BY <2>1, <2>2 DEF Abstract!Init, Abstract!registered
<1>2. IndInv /\ IndInv' /\ [Next]_vars => [Abstract!Next]_(Abstract!vars)
  BY StepRefines
<1> QED BY <1>1, <1>2, IndInvariant, PTL
        DEF Spec, ImplementsTimerSet, Abstract!Spec
=============================================================================

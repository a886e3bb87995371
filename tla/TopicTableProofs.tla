-------------------------- MODULE TopicTableProofs --------------------------
(***************************************************************************)
(* Proofs about TopicTable, for any number of threads, names and packets   *)
(* and any hash function: types, chains that stay in their bucket, topics  *)
(* of their own name, and when the table is a map.                         *)
(***************************************************************************)
EXTENDS TopicTable, WellFoundedInduction, TLAPS

Rec == [key : Names \cup {NoName}, state : {"blank", "sized", "full"},
        data : Nat, next : Nat]

\* What a thread needs to go on is there: a name, a node to stand on, its own
\* node.
ThreadsOK ==
    \A t \in Threads :
        /\ pc[t] # "idle" => name[t] \in Names
        /\ pc[t] \in {"walk", "append"} => cur[t] # NULL
        /\ pc[t] \in {"fill", "data", "clear"} => mine[t] # NULL

TypeInv == TypeOK /\ node \in Seq(Rec) /\ ThreadsOK

-----------------------------------------------------------------------------
(* What the statements do to the nodes.                                    *)

\* From s to u node i becomes r, and the others stay.
Changed(s, u, i, r) ==
    /\ u \in Seq(Rec) /\ Len(u) = Len(s)
    /\ \A j \in 1 .. Len(s) : u[j] = IF j = i THEN r ELSE s[j]

LEMMA Change ==
    ASSUME NEW s \in Seq(Rec), NEW i \in 1 .. Len(s), NEW r \in Rec
    PROVE  Changed(s, [s EXCEPT ![i] = r], i, r)
BY DEF Changed

\* A new node r, to which node i leads, or none does if i is NULL.
Added(s, u, i, r) ==
    /\ u \in Seq(Rec) /\ Len(u) = Len(s) + 1
    /\ u[Len(s) + 1] = r
    /\ \A j \in 1 .. Len(s) :
          u[j] = IF j = i THEN [s[j] EXCEPT !.next = Len(s) + 1] ELSE s[j]

LEMMA Fields ==
    ASSUME NEW x \in Rec
    PROVE  /\ \A n \in Nat : /\ [x EXCEPT !.next = n] \in Rec
                             /\ [x EXCEPT !.data = n] \in Rec
           /\ [x EXCEPT !.state = "sized"] \in Rec
           /\ \A k \in Names : [x EXCEPT !.state = "full", !.key = k] \in Rec
BY DEF Rec

LEMMA AddFirst ==
    ASSUME NEW s \in Seq(Rec), NEW r \in Rec
    PROVE  Added(s, Append(s, r), NULL, r)
BY DEF Added, NULL

LEMMA AddBehind ==
    ASSUME NEW s \in Seq(Rec), NEW i \in 1 .. Len(s), NEW r \in Rec
    PROVE  Added(s, [Append(s, r) EXCEPT ![i].next = Len(s) + 1], i, r)
<1> DEFINE a == Append(s, r)
           n == Len(s) + 1
           x == [a[i] EXCEPT !.next = n]
           u == [a EXCEPT ![i] = x]
<1>1. [Append(s, r) EXCEPT ![i].next = Len(s) + 1] = u
  OBVIOUS
<1>2. /\ a \in Seq(Rec) /\ Len(a) = n /\ a[n] = r
      /\ \A j \in 1 .. Len(s) : a[j] = s[j]
      /\ i \in 1 .. n /\ i # n /\ Len(s) \in Nat
  OBVIOUS
<1>3. a[i] \in Rec /\ a[i] = s[i] /\ n \in Nat
  BY <1>2
<1>4. x \in Rec
  BY ONLY <1>3, Fields
<1>5. x = [s[i] EXCEPT !.next = n]
  BY <1>3
<1> HIDE DEF a, x
<1>6. Changed(a, u, i, x)
  BY <1>2, <1>4, Change
<1> HIDE DEF u
<1>7. /\ u \in Seq(Rec) /\ Len(u) = n
      /\ \A j \in 1 .. n : u[j] = IF j = i THEN x ELSE a[j]
  BY <1>2, <1>6 DEF Changed
<1>8. \A j \in 1 .. Len(s) : u[j] = IF j = i THEN [s[j] EXCEPT !.next = n]
                                  ELSE s[j]
  BY <1>2, <1>5, <1>7
<1>9. u[n] = r
  BY <1>2, <1>7
<1> QED BY <1>1, <1>7, <1>8, <1>9 DEF Added

\* Node and record of each statement that changes a node.
LEMMA KeyChange ==
    ASSUME TypeInv, NEW t \in Threads, SetKey(t)
    PROVE  /\ mine[t] \in 1 .. Len(node)
           /\ \/ /\ node[mine[t]].state = "blank"
                 /\ Changed(node, node', mine[t],
                            [node[mine[t]] EXCEPT !.state = "sized"])
                 /\ UNCHANGED pc
              \/ /\ Changed(node, node', mine[t],
                            [node[mine[t]] EXCEPT !.state = "full",
                                                  !.key = name[t]])
                 /\ Goto(t, "data")
<1>1. mine[t] \in 1 .. Len(node) /\ name[t] \in Names /\ node \in Seq(Rec)
  BY DEF SetKey, At, TypeInv, TypeOK, ThreadsOK, Pointers, NULL
<1>2. node[mine[t]] \in Rec
  BY <1>1
<1>3. CASE node[mine[t]].state = "blank" /\ UNCHANGED pc
           /\ node' = [node EXCEPT ![mine[t]].state = "sized"]
  <2> DEFINE r == [node[mine[t]] EXCEPT !.state = "sized"]
  <2>1. r \in Rec
    BY <1>1, <1>2, Fields
  <2>2. node' = [node EXCEPT ![mine[t]] = r]
    BY <1>3
  <2> HIDE DEF r
  <2>3. Changed(node, node', mine[t], r)
    BY <1>1, <2>1, <2>2, Change
  <2> QED BY <1>1, <1>3, <2>3 DEF r
<1>4. CASE /\ Goto(t, "data")
           /\ node' = [node EXCEPT ![mine[t]].state = "full",
                                   ![mine[t]].key = name[t]]
  <2> DEFINE r == [node[mine[t]] EXCEPT !.state = "full", !.key = name[t]]
  <2>1. r \in Rec
    BY <1>1, <1>2, Fields
  <2>2. node' = [node EXCEPT ![mine[t]] = r]
    BY <1>1, <1>2, <1>4
  <2> HIDE DEF r
  <2>3. Changed(node, node', mine[t], r)
    BY <1>1, <2>1, <2>2, Change
  <2> QED BY <1>1, <1>4, <2>3 DEF r
<1> QED BY <1>3, <1>4 DEF SetKey

LEMMA FieldChanges ==
    ASSUME TypeInv, NEW t \in Threads
    PROVE  /\ SetData(t) => /\ mine[t] \in 1 .. Len(node)
                            /\ Changed(node, node', mine[t],
                                       [node[mine[t]] EXCEPT !.data = topic[t]])
           /\ SetReplace(t) => /\ cur[t] \in 1 .. Len(node)
                               /\ Changed(node, node', cur[t],
                                          [node[cur[t]] EXCEPT !.data = topic[t]])
           /\ SetClear(t) => /\ mine[t] \in 1 .. Len(node)
                             /\ Changed(node, node', mine[t],
                                        [node[mine[t]] EXCEPT !.next = NULL])
<1>1. /\ node \in Seq(Rec) /\ topic[t] \in Nat
      /\ \A i \in 1 .. Len(node) : node[i] \in Rec
  BY DEF TypeInv, TypeOK
<1>2. ASSUME SetData(t)
      PROVE  /\ mine[t] \in 1 .. Len(node)
             /\ Changed(node, node', mine[t],
                        [node[mine[t]] EXCEPT !.data = topic[t]])
  <2> DEFINE r == [node[mine[t]] EXCEPT !.data = topic[t]]
  <2>1. mine[t] \in 1 .. Len(node)
    BY <1>2 DEF SetData, At, TypeInv, TypeOK, ThreadsOK, Pointers, NULL
  <2>2. r \in Rec
    BY <1>1, <2>1, Fields
  <2>3. node' = [node EXCEPT ![mine[t]] = r]
    BY <1>2 DEF SetData
  <2> HIDE DEF r
  <2>4. Changed(node, node', mine[t], r)
    BY <1>1, <2>1, <2>2, <2>3, Change
  <2> QED BY <2>1, <2>4 DEF r
<1>3. ASSUME SetReplace(t)
      PROVE  /\ cur[t] \in 1 .. Len(node)
             /\ Changed(node, node', cur[t],
                        [node[cur[t]] EXCEPT !.data = topic[t]])
  <2> DEFINE r == [node[cur[t]] EXCEPT !.data = topic[t]]
  <2>1. cur[t] \in 1 .. Len(node)
    BY <1>3 DEF SetReplace, At, TypeInv, TypeOK, ThreadsOK, Pointers, NULL
  <2>2. r \in Rec
    BY <1>1, <2>1, Fields
  <2>3. node' = [node EXCEPT ![cur[t]] = r]
    BY <1>3 DEF SetReplace
  <2> HIDE DEF r
  <2>4. Changed(node, node', cur[t], r)
    BY <1>1, <2>1, <2>2, <2>3, Change
  <2> QED BY <2>1, <2>4 DEF r
<1>4. ASSUME SetClear(t)
      PROVE  /\ mine[t] \in 1 .. Len(node)
             /\ Changed(node, node', mine[t],
                        [node[mine[t]] EXCEPT !.next = NULL])
  <2> DEFINE r == [node[mine[t]] EXCEPT !.next = NULL]
  <2>1. mine[t] \in 1 .. Len(node)
    BY <1>4 DEF SetClear, At, TypeInv, TypeOK, ThreadsOK, Pointers, NULL
  <2>2. r \in Rec
    BY <1>1, <2>1, Fields DEF NULL
  <2>3. node' = [node EXCEPT ![mine[t]] = r]
    BY <1>4 DEF SetClear
  <2> HIDE DEF r
  <2>4. Changed(node, node', mine[t], r)
    BY <1>1, <2>1, <2>2, <2>3, Change
  <2> QED BY <2>1, <2>4 DEF r
<1> QED BY <1>2, <1>3, <1>4

LEMMA NewNodes ==
    ASSUME TypeInv, NEW t \in Threads
    PROVE  /\ SetFirst(t) =>
                Added(node, node', NULL, [key |-> NoName, state |-> "blank",
                             data |-> NULL, next |-> NULL])
           /\ SetAppend(t) =>
                /\ cur[t] \in 1 .. Len(node)
                /\ Added(node, node', cur[t], [key |-> name[t], state |-> "full",
                                  data |-> topic[t], next |-> NULL])
<1>1. /\ node \in Seq(Rec) /\ topic[t] \in Nat
      /\ \A i \in 1 .. Len(node) : node[i] \in Rec
  BY DEF TypeInv, TypeOK
<1>2. ASSUME SetFirst(t)
      PROVE  Added(node, node', NULL, [key |-> NoName, state |-> "blank",
                          data |-> NULL, next |-> NULL])
  <2>1. [key |-> NoName, state |-> "blank", data |-> NULL, next |-> NULL] \in Rec
    BY DEF Rec, NULL
  <2> QED BY <1>1, <1>2, <2>1, AddFirst DEF SetFirst
<1>3. ASSUME SetAppend(t)
      PROVE  /\ cur[t] \in 1 .. Len(node)
             /\ Added(node, node', cur[t], [key |-> name[t], state |-> "full",
                               data |-> topic[t], next |-> NULL])
  <2> DEFINE r == [key |-> name[t], state |-> "full", data |-> topic[t],
                   next |-> NULL]
  <2>1. cur[t] \in 1 .. Len(node) /\ name[t] \in Names
    BY <1>3 DEF SetAppend, At, TypeInv, TypeOK, ThreadsOK, Pointers, NULL
  <2>2. r \in Rec
    BY <1>1, <2>1 DEF Rec, NULL
  <2>3. node' = [Append(node, r) EXCEPT ![cur[t]].next = Len(node) + 1]
    BY <1>3 DEF SetAppend
  <2> HIDE DEF r
  <2>4. Added(node, node', cur[t], r)
    BY <1>1, <2>1, <2>2, <2>3, AddBehind
  <2> QED BY <2>1, <2>4 DEF r
<1> QED BY <1>2, <1>3

-----------------------------------------------------------------------------
(* Types.                                                                  *)

NodesTyped(s, l) ==
    /\ s \in Seq(Rec)
    /\ \A i \in 1 .. Len(s) : s[i].data \in 0 .. l /\ s[i].next \in 0 .. Len(s)

LEMMA NodesTypedOK ==
    ASSUME NEW s, NEW l \in Nat
    PROVE  NodesTyped(s, l) <=>
             /\ s \in Seq(Rec)
             /\ \A i \in DOMAIN s :
                   s[i] \in [key : Names \cup {NoName},
                             state : {"blank", "sized", "full"},
                             data : 0 .. l, next : 0 .. Len(s)]
<1> SUFFICES ASSUME s \in Seq(Rec)
             PROVE  \A i \in 1 .. Len(s) :
                      s[i].data \in 0 .. l /\ s[i].next \in 0 .. Len(s) <=>
                      s[i] \in [key : Names \cup {NoName},
                                state : {"blank", "sized", "full"},
                                data : 0 .. l, next : 0 .. Len(s)]
  BY DEF NodesTyped
<1> TAKE i \in 1 .. Len(s)
<1>1. s[i] \in Rec
  OBVIOUS
<1> QED BY <1>1 DEF Rec

LEMMA ChangedTyped ==
    ASSUME NEW s, NEW u, NEW l \in Nat, NodesTyped(s, l),
           NEW i \in 1 .. Len(s), NEW r, Changed(s, u, i, r),
           r.data \in 0 .. l, r.next \in 0 .. Len(s)
    PROVE  NodesTyped(u, l)
BY DEF NodesTyped, Changed

LEMMA AddedTyped ==
    ASSUME NEW s, NEW u, NEW l \in Nat, NodesTyped(s, l),
           NEW i \in 0 .. Len(s), NEW r, Added(s, u, i, r),
           r.data \in 0 .. l, r.next = NULL
    PROVE  NodesTyped(u, l)
<1>1. /\ u \in Seq(Rec) /\ Len(u) = Len(s) + 1 /\ Len(s) \in Nat
      /\ u[Len(s) + 1].data \in 0 .. l /\ u[Len(s) + 1].next \in 0 .. Len(u)
  BY DEF NodesTyped, Added, NULL
<1>2. ASSUME NEW j \in 1 .. Len(s)
      PROVE  u[j].data \in 0 .. l /\ u[j].next \in 0 .. Len(u)
  <2>1. s[j] \in Rec /\ s[j].data \in 0 .. l /\ s[j].next \in 0 .. Len(s)
    BY DEF NodesTyped
  <2>2. CASE j = i
    <3>1. u[j] = [s[j] EXCEPT !.next = Len(s) + 1]
      BY <2>2 DEF Added
    <3> QED BY <1>1, <2>1, <3>1 DEF Rec
  <2>3. CASE j # i
    <3>1. u[j] = s[j]
      BY <2>3 DEF Added
    <3> QED BY <1>1, <2>1, <3>1
  <2> QED BY <2>2, <2>3
<1> QED BY <1>1, <1>2 DEF NodesTyped

\* The other conjuncts of TypeInv.
RestTyped ==
    /\ iterms \in [Buckets -> Pointers]
    /\ topicName \in Seq(Names)
    /\ calls \in 0 .. MaxCalls
    /\ pc \in [Threads -> {"idle", "get_head", "get", "use", "set", "first",
                           "fill", "data", "walk", "append", "clear"}]
    /\ op \in [Threads -> {"publish", "subscribe"}]
    /\ name \in [Threads -> Names \cup {NoName}]
    /\ phase \in [Threads -> {"find", "add", "check"}]
    /\ cur \in [Threads -> Pointers]
    /\ topic \in [Threads -> 0 .. Len(topicName)]
    /\ mine \in [Threads -> Pointers]
    /\ fault \in {"none", "topic_null", "null_body"}
    /\ \A t \in Threads :
          pc[t] \notin {"idle", "get_head", "get"} => topic[t] # NULL
    /\ ThreadsOK

LEMMA Parts ==
    /\ TypeInv <=> /\ RestTyped /\ overlap \in BOOLEAN
                   /\ NodesTyped(node, Len(topicName))
    /\ TypeInv' <=> /\ RestTyped' /\ overlap' \in BOOLEAN
                    /\ NodesTyped(node', Len(topicName'))
<1>1. TypeInv <=> /\ RestTyped /\ overlap \in BOOLEAN
                  /\ NodesTyped(node, Len(topicName))
  <2>1. ASSUME topicName \in Seq(Names) PROVE Len(topicName) \in Nat
    BY <2>1
  <2> QED BY <2>1, NodesTypedOK DEF TypeInv, TypeOK, RestTyped, Pointers
<1>2. TypeInv' <=> /\ RestTyped' /\ overlap' \in BOOLEAN
                   /\ NodesTyped(node', Len(topicName'))
  <2>1. ASSUME topicName' \in Seq(Names) PROVE Len(topicName') \in Nat
    BY <2>1
  <2> QED BY <2>1, NodesTypedOK DEF TypeInv, TypeOK, RestTyped, Pointers
<1> QED BY <1>1, <1>2

LEMMA InitTyped == Init => TypeInv
<1> SUFFICES ASSUME Init PROVE TypeInv
  OBVIOUS
<1>1. node \in Seq(Rec) /\ topicName \in Seq(Names) /\ Len(node) = 0
      /\ Len(topicName) = 0
  <2>1. <<>> \in Seq(Rec) /\ <<>> \in Seq(Names) /\ Len(<<>>) = 0
    OBVIOUS
  <2> QED BY <2>1 DEF Init
<1>2. NodesTyped(node, Len(topicName))
  BY <1>1 DEF NodesTyped
<1>3. RestTyped
  BY <1>1, ConstantsOK DEF Init, RestTyped, ThreadsOK, Pointers, NULL
<1>4. overlap \in BOOLEAN
  BY DEF Init
<1> QED BY <1>2, <1>3, <1>4, Parts

\* The steps that leave the nodes and the topics alone.
LEMMA ControlTyped ==
    ASSUME RestTyped, NodesTyped(node, Len(topicName)), NEW t \in Threads,
           UNCHANGED shared,
           \/ Call(t) \/ GetHead(t) \/ GetNext(t) \/ GetBodiless(t)
           \/ Find(t) \/ Add(t) \/ Use(t) \/ Check(t)
           \/ SetStart(t) \/ SetWalk(t) \/ SetBodiless(t) \/ SetLast(t)
    PROVE  RestTyped'
<1>0. /\ \A i \in 1 .. Len(node) : node[i].next \in Pointers
                                  /\ node[i].data \in 0 .. Len(topicName)
      /\ Len(node) \in Nat /\ Len(topicName) \in Nat
  BY DEF NodesTyped, RestTyped, Pointers
<1>a. Pointers' = Pointers
  BY DEF shared, Pointers
<1>b. index(t) \in Buckets \/ pc[t] = "idle"
  BY DEF RestTyped, ThreadsOK, index, Buckets
<1>c. \A u \in Threads : cur[u] # NULL => cur[u] \in 1 .. Len(node)
  BY <1>0 DEF RestTyped, Pointers, NULL
<1>d. NULL \in Pointers /\ NULL \in 0 .. Len(topicName)
  BY <1>0 DEF Pointers, NULL
<1> USE DEF RestTyped, ThreadsOK, shared, job, At, Goto
<1>1. CASE Call(t)
  <2>1. PICK o \in {"publish", "subscribe"}, n \in Names :
            op' = [op EXCEPT ![t] = o] /\ name' = [name EXCEPT ![t] = n]
    BY <1>1 DEF Call
  <2>2. op' \in [Threads -> {"publish", "subscribe"}]
    BY <2>1
  <2>3. /\ name' \in [Threads -> Names \cup {NoName}] /\ name'[t] \in Names
        /\ \A u \in Threads \ {t} : name'[u] = name[u]
    BY <2>1
  <2>4. /\ phase' \in [Threads -> {"find", "add", "check"}]
        /\ pc[t] = "idle" /\ pc' = [pc EXCEPT ![t] = "get_head"]
        /\ calls' \in 0 .. MaxCalls
    BY <1>1, ConstantsOK DEF Call, StartGet
  <2> QED BY <1>1, <1>a, <2>2, <2>3, <2>4 DEF Call
<1>2. CASE GetHead(t)
  BY <1>2, <1>a, <1>b DEF GetHead
<1>3. CASE GetNext(t)
  BY <1>3, <1>a, <1>0, <1>c DEF GetNext
<1>4. CASE GetBodiless(t) \/ SetBodiless(t)
  BY <1>4, <1>a DEF GetBodiless, SetBodiless, Ends
<1>5. CASE Find(t)
  <2>1. PICK data \in 0 .. Len(topicName) :
          /\ topic' = [topic EXCEPT ![t] = data]
          /\ IF data = NULL THEN StartGet(t, "add")
                            ELSE Goto(t, "use") /\ UNCHANGED phase
    BY <1>5 DEF Find
  <2>2. pc[t] = "get" /\ UNCHANGED <<shared, job, cur, mine, fault>>
    BY <1>5 DEF Find, Gets
  <2>3. topic' \in [Threads -> 0 .. Len(topicName')]
    BY <2>1
  <2>4. /\ phase' \in [Threads -> {"find", "add", "check"}]
        /\ pc'[t] \in {"get_head", "use"} /\ pc' = [pc EXCEPT ![t] = pc'[t]]
        /\ pc'[t] = "use" => topic'[t] # NULL
    <3>1. CASE data = NULL
      BY <2>1, <2>2, <3>1 DEF StartGet
    <3>2. CASE data # NULL
      BY <2>1, <2>2, <3>2
    <3> QED BY <3>1, <3>2
  <2>5. \A u \in Threads \ {t} : pc'[u] = pc[u] /\ topic'[u] = topic[u]
    BY <2>1, <2>4
  <2>6. pc' \in [Threads -> {"idle", "get_head", "get", "use", "set", "first",
                             "fill", "data", "walk", "append", "clear"}]
    BY <2>4
  <2>7. ASSUME NEW u \in Threads
        PROVE  /\ pc'[u] # "idle" => name'[u] \in Names
               /\ pc'[u] \in {"walk", "append"} => cur'[u] # NULL
               /\ pc'[u] \in {"fill", "data", "clear"} => mine'[u] # NULL
    <3>1. UNCHANGED <<name, cur, mine>>
      BY <2>2
    <3>2. CASE u = t
      BY <2>2, <2>4, <3>1, <3>2
    <3>3. CASE u # t
      BY <2>5, <3>1, <3>3
    <3> QED BY <3>2, <3>3
  <2>8. \A u \in Threads :
           pc'[u] \notin {"idle", "get_head", "get"} => topic'[u] # NULL
    BY <2>4, <2>5
  <2> QED BY <1>a, <2>2, <2>3, <2>4, <2>6, <2>7, <2>8
<1>6. CASE Add(t)
  BY <1>6, <1>a, <1>0 DEF Add, Ends
<1>7. CASE Use(t)
  <2>1. CASE Return(t)
    BY <1>7, <1>a, <1>d, <2>1 DEF Use, Return
  <2>2. CASE StartGet(t, "check") /\ UNCHANGED <<cur, topic, mine>>
    BY <1>7, <1>a, <2>2 DEF Use, StartGet
  <2> QED BY <1>7, <2>1, <2>2 DEF Use
<1>8. CASE Check(t)
  <2>1. CASE Return(t) /\ UNCHANGED <<job, fault>>
    BY <1>a, <1>d, <2>1 DEF Return
  <2>2. CASE Ends("topic_null")
    BY <1>a, <2>2 DEF Ends
  <2> QED BY <1>8, <2>1, <2>2 DEF Check
<1>9. CASE SetStart(t)
  BY <1>9, <1>a, <1>b DEF SetStart
<1>10. CASE SetWalk(t)
  BY <1>10, <1>a, <1>0, <1>c DEF SetWalk
<1>11. CASE SetLast(t)
  BY <1>11, <1>a DEF SetLast
<1> QED BY <1>1, <1>2, <1>3, <1>4, <1>5, <1>6, <1>7, <1>8, <1>9, <1>10, <1>11

\* A topic is made.
LEMMA AddTyped ==
    ASSUME TypeInv, NEW t \in Threads, Add(t)
    PROVE  RestTyped' /\ NodesTyped(node', Len(topicName'))
<1>1. RestTyped /\ NodesTyped(node, Len(topicName))
  BY Parts
<1>2. CASE Ends("topic_null")
  <2>1. UNCHANGED shared
    BY <1>2 DEF Ends
  <2>2. RestTyped'
    BY <1>1, <2>1, ControlTyped
  <2> QED BY <1>1, <2>1, <2>2 DEF shared
<1>3. CASE /\ Gets(t, NULL)
           /\ topicName' = Append(topicName, name[t])
           /\ topic' = [topic EXCEPT ![t] = Len(topicName')]
           /\ Goto(t, "set")
           /\ UNCHANGED <<iterms, node, job, phase, cur, mine, fault>>
  <2>1. pc[t] = "get" /\ name[t] \in Names
    BY <1>1, <1>3 DEF Gets, At, RestTyped, ThreadsOK
  <2>2. /\ topicName \in Seq(Names) /\ topicName' \in Seq(Names)
        /\ Len(topicName') = Len(topicName) + 1 /\ Len(topicName) \in Nat
    BY <1>1, <1>3, <2>1 DEF RestTyped
  <2>3. NodesTyped(node', Len(topicName'))
    BY <1>1, <1>3, <2>2 DEF NodesTyped
  <2>4. /\ topic' \in [Threads -> 0 .. Len(topicName')] /\ topic'[t] # NULL
        /\ \A u \in Threads \ {t} : topic'[u] = topic[u]
    BY <1>1, <1>3, <2>2 DEF RestTyped, NULL
  <2>5. Pointers' = Pointers
    BY <1>3 DEF Pointers
  <2> QED BY <1>1, <1>3, <2>1, <2>2, <2>3, <2>4, <2>5
          DEF RestTyped, ThreadsOK, Goto, job
<1> QED BY <1>2, <1>3 DEF Add

\* The statements that change nodes leave the rest typed.
LEMMA NodeStepTyped ==
    ASSUME TypeInv, NEW t \in Threads,
           \/ SetFirst(t) \/ SetKey(t) \/ SetData(t) \/ SetReplace(t)
           \/ SetAppend(t) \/ SetClear(t)
    PROVE  RestTyped' /\ NodesTyped(node', Len(topicName'))
<1>1. /\ RestTyped /\ NodesTyped(node, Len(topicName))
      /\ Len(node) \in Nat /\ Len(topicName) \in Nat
      /\ \A i \in 1 .. Len(node) : node[i] \in Rec
  BY Parts DEF NodesTyped, RestTyped
<1>2. /\ \A i \in 1 .. Len(node) : /\ node[i].next \in 0 .. Len(node)
                                  /\ node[i].data \in 0 .. Len(topicName)
      /\ topic[t] \in 0 .. Len(topicName)
      /\ NULL \in 0 .. Len(node) /\ NULL \in 0 .. Len(topicName)
  <2>1. \A i \in 1 .. Len(node) : /\ node[i].next \in 0 .. Len(node)
                                  /\ node[i].data \in 0 .. Len(topicName)
    BY <1>1 DEF NodesTyped
  <2>2. topic[t] \in 0 .. Len(topicName)
    BY <1>1 DEF RestTyped
  <2> QED BY <1>1, <2>1, <2>2 DEF NULL
<1>3. CASE SetFirst(t)
  <2> DEFINE r == [key |-> NoName, state |-> "blank", data |-> NULL,
                   next |-> NULL]
  <2>1. Added(node, node', NULL, r)
    BY <1>3, NewNodes
  <2>2. r.data \in 0 .. Len(topicName) /\ r.next = NULL
    BY <1>2
  <2> HIDE DEF r
  <2>3. NodesTyped(node', Len(topicName))
    BY <1>1, <1>2, <2>1, <2>2, AddedTyped
  <2>4. Len(node') = Len(node) + 1
    BY <2>1 DEF Added
  <2>5. index(t) \in Buckets
    BY <1>1, <1>3 DEF SetFirst, At, RestTyped, ThreadsOK, index, Buckets
  <2> QED BY <1>1, <1>3, <2>3, <2>4, <2>5
          DEF SetFirst, RestTyped, ThreadsOK, Pointers, At, Goto, job, NULL
<1>4. CASE SetAppend(t)
  <2> DEFINE r == [key |-> name[t], state |-> "full", data |-> topic[t],
                   next |-> NULL]
  <2>1. Added(node, node', cur[t], r) /\ cur[t] \in 0 .. Len(node)
    BY <1>1, <1>4, NewNodes
  <2>2. r.data \in 0 .. Len(topicName) /\ r.next = NULL
    BY <1>2
  <2> HIDE DEF r
  <2>3. NodesTyped(node', Len(topicName))
    BY <1>1, <1>2, <2>1, <2>2, AddedTyped
  <2>4. Len(node') = Len(node) + 1
    BY <2>1 DEF Added
  <2>5. /\ pc[t] = "append" /\ pc' = [pc EXCEPT ![t] = "clear"]
        /\ mine' = [mine EXCEPT ![t] = Len(node) + 1]
        /\ UNCHANGED <<iterms, topicName, calls, op, name, phase, cur, topic, fault>>
    BY <1>4, <2>4 DEF SetAppend, At, Goto, job
  <2>6. Pointers \subseteq Pointers' /\ Len(node) + 1 \in Pointers'
        /\ Len(node) + 1 # NULL
    BY <1>1, <2>4 DEF Pointers, NULL
  <2>7. mine' \in [Threads -> Pointers'] /\ mine'[t] # NULL
        /\ \A u \in Threads \ {t} : mine'[u] = mine[u]
    BY <1>1, <2>5, <2>6 DEF RestTyped
  <2>8. iterms' \in [Buckets -> Pointers'] /\ cur' \in [Threads -> Pointers']
    BY <1>1, <2>5, <2>6 DEF RestTyped
  <2>9. RestTyped'
    BY <1>1, <2>5, <2>7, <2>8 DEF RestTyped, ThreadsOK
  <2> QED BY <2>3, <2>5, <2>9
<1>5. ASSUME NEW i \in 1 .. Len(node), NEW r, Changed(node, node', i, r),
             r.data \in 0 .. Len(topicName), r.next \in 0 .. Len(node)
      PROVE  NodesTyped(node', Len(topicName)) /\ Pointers' = Pointers
  <2>1. Len(node') = Len(node)
    BY <1>5 DEF Changed
  <2> QED BY <1>1, <1>5, <2>1, ChangedTyped DEF Pointers
<1>6. CASE SetKey(t)
  <2> DEFINE i == mine[t]
             q == [node[i] EXCEPT !.state = "sized"]
             r == [node[i] EXCEPT !.state = "full", !.key = name[t]]
  <2>1. /\ i \in 1 .. Len(node)
        /\ \/ Changed(node, node', i, q) /\ UNCHANGED pc
           \/ Changed(node, node', i, r) /\ Goto(t, "data")
    BY <1>6, KeyChange
  <2>2. /\ q.data = node[i].data /\ q.next = node[i].next
        /\ r.data = node[i].data /\ r.next = node[i].next
    BY <1>1, <2>1 DEF Rec
  <2> HIDE DEF q, r
  <2>3. NodesTyped(node', Len(topicName)) /\ Pointers' = Pointers
    BY <1>2, <1>5, <2>1, <2>2
  <2> QED BY <1>1, <1>6, <2>1, <2>3
          DEF SetKey, RestTyped, ThreadsOK, At, Goto, job
<1>7. CASE SetData(t)
  <2> DEFINE r == [node[mine[t]] EXCEPT !.data = topic[t]]
  <2>1. mine[t] \in 1 .. Len(node) /\ Changed(node, node', mine[t], r)
    BY <1>7, FieldChanges
  <2>2. r.data = topic[t] /\ r.next = node[mine[t]].next
    BY <1>1, <2>1 DEF Rec
  <2> HIDE DEF r
  <2>3. NodesTyped(node', Len(topicName)) /\ Pointers' = Pointers
    BY <1>2, <1>5, <2>1, <2>2
  <2> QED BY <1>1, <1>7, <2>3 DEF SetData, RestTyped, ThreadsOK, At, Goto, job
<1>8. CASE SetReplace(t)
  <2> DEFINE r == [node[cur[t]] EXCEPT !.data = topic[t]]
  <2>1. cur[t] \in 1 .. Len(node) /\ Changed(node, node', cur[t], r)
    BY <1>8, FieldChanges
  <2>2. r.data = topic[t] /\ r.next = node[cur[t]].next
    BY <1>1, <2>1 DEF Rec
  <2> HIDE DEF r
  <2>3. NodesTyped(node', Len(topicName)) /\ Pointers' = Pointers
    BY <1>2, <1>5, <2>1, <2>2
  <2> QED BY <1>1, <1>8, <2>3 DEF SetReplace, RestTyped, ThreadsOK, At, Goto, job
<1>9. CASE SetClear(t)
  <2> DEFINE r == [node[mine[t]] EXCEPT !.next = NULL]
  <2>1. mine[t] \in 1 .. Len(node) /\ Changed(node, node', mine[t], r)
    BY <1>9, FieldChanges
  <2>2. r.data = node[mine[t]].data /\ r.next = NULL
    BY <1>1, <2>1 DEF Rec
  <2> HIDE DEF r
  <2>3. NodesTyped(node', Len(topicName)) /\ Pointers' = Pointers
    BY <1>2, <1>5, <2>1, <2>2
  <2> QED BY <1>1, <1>9, <2>3 DEF SetClear, RestTyped, ThreadsOK, At, Goto, job
<1> QED BY <1>3, <1>4, <1>6, <1>7, <1>8, <1>9

LEMMA StepTyped == TypeInv /\ [Next]_vars => TypeInv'
<1> SUFFICES ASSUME TypeInv, [Next]_vars PROVE TypeInv'
  OBVIOUS
<1>1. RestTyped /\ overlap \in BOOLEAN /\ NodesTyped(node, Len(topicName))
  BY Parts
<1>2. CASE UNCHANGED vars
  <2>1. RestTyped'
    BY <1>1, <1>2 DEF vars, shared, job, RestTyped, ThreadsOK, Pointers
  <2> QED BY <1>1, <1>2, <2>1, Parts DEF vars, shared
<1>3. ASSUME NEW t \in Threads, Step(t) PROVE TypeInv'
  <2>1. overlap' \in BOOLEAN
    <3>1. overlap' = (overlap \/ Overlap')
      BY <1>3 DEF Step
    <3> QED BY ONLY <3>1, Zenon
  <2>2. CASE \/ Call(t) \/ GetHead(t) \/ GetNext(t) \/ GetBodiless(t)
             \/ Find(t) \/ Use(t) \/ Check(t)
             \/ SetStart(t) \/ SetWalk(t) \/ SetBodiless(t) \/ SetLast(t)
    <3>1. UNCHANGED shared
      BY <2>2 DEF Call, GetHead, GetNext, GetBodiless, Find, Use, Check, Ends,
                  SetStart, SetWalk, SetBodiless, SetLast
    <3>2. RestTyped'
      BY <1>1, <2>2, <3>1, ControlTyped
    <3> QED BY <1>1, <2>1, <3>1, <3>2, Parts DEF shared
  <2>3. CASE Add(t)
    BY <2>1, <2>3, AddTyped, Parts
  <2>4. CASE \/ SetFirst(t) \/ SetKey(t) \/ SetData(t) \/ SetReplace(t)
             \/ SetAppend(t) \/ SetClear(t)
    BY <2>1, <2>4, NodeStepTyped, Parts
  <2> QED BY <1>3, <2>2, <2>3, <2>4 DEF Step, Runs, Get, Set
<1> QED BY <1>2, <1>3 DEF Next

\* Every variable has its type, every pointer a thread follows is one, and
\* what it stores as a topic is one.
THEOREM TypeCorrect == Spec => []TypeOK
<1>1. TypeInv => TypeOK
  BY DEF TypeInv
<1> QED BY <1>1, InitTyped, StepTyped, PTL DEF Spec

-----------------------------------------------------------------------------
(* Chains.                                                                 *)

Nodes == 1 .. Len(node)

\* B says to which bucket each node belongs, those without a key included: the
\* one its thread works on.
Homes(B) ==
    /\ \A i \in Nodes :
          /\ node[i].key # NoName => Bucket[node[i].key] = B[i]
          /\ node[i].next # NULL => node[i].next > i /\ B[node[i].next] = B[i]
    /\ \A b \in Buckets : iterms[b] # NULL => B[iterms[b]] = b
    /\ \A t \in Threads :
          /\ pc[t] \in {"walk", "append"} => B[cur[t]] = index(t)
          /\ pc[t] = "fill" => B[mine[t]] = index(t)

HomeInv == \E B \in [Nodes -> Buckets] : Homes(B)

\* What the types say, in the form the steps need.
LEMMA NodeBasics ==
    ASSUME TypeInv
    PROVE  /\ Len(node) \in Nat
           /\ \A i \in Nodes : node[i] \in Rec
           /\ \A i \in Nodes : node[i].next # NULL => node[i].next \in Nodes
           /\ \A b \in Buckets : iterms[b] # NULL => iterms[b] \in Nodes
<1>1. RestTyped /\ NodesTyped(node, Len(topicName)) /\ Len(node) \in Nat
  BY Parts DEF NodesTyped
<1>2. \A i \in Nodes : node[i] \in Rec
  BY <1>1 DEF NodesTyped, Nodes
<1>3. \A i \in Nodes : node[i].next # NULL => node[i].next \in Nodes
  BY <1>1 DEF NodesTyped, Nodes, NULL
<1>4. \A b \in Buckets : iterms[b] # NULL => iterms[b] \in Nodes
  BY <1>1 DEF RestTyped, Pointers, Nodes, NULL
<1> QED BY <1>1, <1>2, <1>3, <1>4

LEMMA ThreadBasics ==
    ASSUME TypeInv, NEW t \in Threads
    PROVE  /\ pc[t] # "idle" => name[t] \in Names /\ index(t) \in Buckets
           /\ pc[t] \in {"walk", "append"} => cur[t] \in Nodes
           /\ pc[t] \in {"fill", "data", "clear"} => mine[t] \in Nodes
           /\ cur[t] # NULL => cur[t] \in Nodes
<1>1. RestTyped /\ Len(node) \in Nat
  BY Parts DEF NodesTyped
<1>2. /\ pc[t] # "idle" => name[t] \in Names
      /\ pc[t] \in {"walk", "append"} => cur[t] # NULL
      /\ pc[t] \in {"fill", "data", "clear"} => mine[t] # NULL
  BY <1>1 DEF RestTyped, ThreadsOK
<1>3. cur[t] \in Pointers /\ mine[t] \in Pointers
  BY <1>1 DEF RestTyped
<1>4. name[t] \in Names => index(t) \in Buckets
  BY DEF index, Buckets
<1>5. \A i \in Pointers : i # NULL => i \in Nodes
  BY <1>1 DEF Pointers, Nodes, NULL
<1> QED BY <1>2, <1>3, <1>4, <1>5

\* A changed node, field by field.
LEMMA ChangedNode ==
    ASSUME TypeInv, NEW i \in Nodes, NEW r, Changed(node, node', i, r)
    PROVE  /\ Len(node') = Len(node) /\ node'[i] = r
           /\ \A j \in Nodes \ {i} : node'[j] = node[j]
BY DEF Changed, Nodes

\* Steps that change no node and no bucket.
LEMMA ControlHomes ==
    ASSUME TypeInv, NEW B \in [Nodes -> Buckets], Homes(B),
           NEW t \in Threads, UNCHANGED <<iterms, node>>,
           \/ Call(t) \/ GetHead(t) \/ GetNext(t) \/ GetBodiless(t)
           \/ Find(t) \/ Add(t) \/ Use(t) \/ Check(t)
           \/ SetStart(t) \/ SetWalk(t) \/ SetBodiless(t) \/ SetLast(t)
    PROVE  Homes(B)'
<1>1. /\ \A u \in Threads \ {t} :
            /\ pc'[u] = pc[u] /\ cur'[u] = cur[u] /\ mine'[u] = mine[u]
            /\ name'[u] = name[u]
      /\ pc'[t] \in {"walk", "append", "fill"} =>
            /\ mine'[t] = mine[t] /\ name'[t] = name[t]
            /\ \/ pc'[t] = pc[t] /\ cur'[t] = cur[t]
               \/ pc'[t] = "walk" /\ cur'[t] = iterms[index(t)] /\ cur'[t] # NULL
                                  /\ pc[t] # "idle"
               \/ /\ pc'[t] = "walk" /\ pc[t] = "walk" /\ node[cur[t]].next # NULL
                  /\ cur'[t] = node[cur[t]].next
               \/ pc'[t] = "append" /\ pc[t] = "walk" /\ cur'[t] = cur[t]
  <2> USE DEF TypeInv, TypeOK, At, Goto, shared, job
  <2>1. CASE Call(t)
    BY <2>1 DEF Call, StartGet
  <2>2. CASE GetHead(t) \/ GetNext(t)
    BY <2>2 DEF GetHead, GetNext
  <2>3. CASE GetBodiless(t) \/ SetBodiless(t)
    BY <2>3 DEF GetBodiless, SetBodiless, Ends
  <2>4. CASE Find(t)
    BY <2>4 DEF Find, StartGet, Gets
  <2>5. CASE Add(t)
    BY <2>5 DEF Add, Ends
  <2>6. CASE Use(t)
    BY <2>6 DEF Use, StartGet, Return
  <2>7. CASE Check(t)
    BY <2>7 DEF Check, Ends, Return
  <2>8. CASE SetStart(t)
    BY <2>8 DEF SetStart
  <2>9. CASE SetWalk(t) \/ SetLast(t)
    BY <2>9 DEF SetWalk, SetLast
  <2> QED BY <2>1, <2>2, <2>3, <2>4, <2>5, <2>6, <2>7, <2>8, <2>9
<1>2. Nodes' = Nodes
  BY DEF Nodes
<1>3. ASSUME NEW u \in Threads
      PROVE  /\ pc'[u] \in {"walk", "append"} => B[cur'[u]] = Bucket[name'[u]]
             /\ pc'[u] = "fill" => B[mine'[u]] = Bucket[name'[u]]
  <2>1. CASE u # t
    BY <1>1, <2>1 DEF Homes, index
  <2>2. CASE u = t
    BY <1>1, <2>2, NodeBasics, ThreadBasics DEF Homes, index
  <2> QED BY <2>1, <2>2
<1> QED BY <1>2, <1>3 DEF Homes, index

LEMMA StepHomes ==
    ASSUME TypeInv, HomeInv, [Next]_vars
    PROVE  HomeInv'
<1> PICK B \in [Nodes -> Buckets] : Homes(B)
  BY DEF HomeInv
<1>1. ASSUME Nodes' = Nodes, Homes(B)' PROVE HomeInv'
  BY <1>1 DEF HomeInv
<1>2. CASE UNCHANGED vars
  BY <1>1, <1>2 DEF vars, shared, job, Homes, Nodes, index
<1>3. ASSUME NEW t \in Threads,
             \/ Call(t) \/ GetHead(t) \/ GetNext(t) \/ GetBodiless(t)
             \/ Find(t) \/ Add(t) \/ Use(t) \/ Check(t)
             \/ SetStart(t) \/ SetWalk(t) \/ SetBodiless(t) \/ SetLast(t)
      PROVE  HomeInv'
  <2>1. UNCHANGED <<iterms, node>>
    BY <1>3 DEF Call, GetHead, GetNext, GetBodiless, Find, Add, Use, Check, Ends,
                SetStart, SetWalk, SetBodiless, SetLast, shared
  <2>2. Homes(B)'
    BY <1>3, <2>1, ControlHomes
  <2> QED BY <1>1, <2>1, <2>2 DEF Nodes
<1>4. ASSUME NEW t \in Threads, SetFirst(t) PROVE HomeInv'
  <2> DEFINE n == Len(node) + 1
             C == [i \in 1 .. n |-> IF i = n THEN index(t) ELSE B[i]]
  <2>1. /\ Len(node') = n /\ node'[n].key = NoName /\ node'[n].next = NULL
        /\ \A i \in Nodes : node'[i] = node[i]
    <3> DEFINE r == [key |-> NoName, state |-> "blank", data |-> NULL,
                     next |-> NULL]
    <3>1. Added(node, node', NULL, r)
      BY <1>4, NewNodes
    <3>2. r.key = NoName /\ r.next = NULL
      OBVIOUS
    <3> HIDE DEF r
    <3>3. \A i \in Nodes : i # NULL
      BY DEF Nodes, NULL
    <3> QED BY <3>1, <3>2, <3>3 DEF Added, Nodes
  <2>2. /\ pc[t] = "first" /\ pc' = [pc EXCEPT ![t] = "fill"]
        /\ iterms' = [iterms EXCEPT ![index(t)] = n]
        /\ mine' = [mine EXCEPT ![t] = n] /\ UNCHANGED <<name, cur>>
    BY <1>4, <2>1 DEF SetFirst, At, Goto, job
  <2>3. n \in Nat /\ n \notin Nodes /\ index(t) \in Buckets /\ n # NULL
        /\ Nodes' = 1 .. n /\ Nodes' = Nodes \cup {n}
    BY <2>1, <2>2, NodeBasics, ThreadBasics DEF Nodes, NULL, index
  <2>4. C \in [Nodes' -> Buckets] /\ C[n] = index(t)
        /\ \A i \in Nodes : C[i] = B[i]
    BY <2>3 DEF Nodes
  <2> HIDE DEF C, n
  <2>5. ASSUME NEW i \in Nodes'
        PROVE  /\ node'[i].key # NoName => Bucket[node'[i].key] = C[i]
               /\ node'[i].next # NULL => node'[i].next > i /\ C[node'[i].next] = C[i]
    <3>1. CASE i = n
      BY <2>1, <3>1
    <3>2. CASE i \in Nodes
      <4>1. node'[i] = node[i] /\ C[i] = B[i]
        BY <2>1, <2>4, <3>2
      <4>2. /\ node[i].key # NoName => Bucket[node[i].key] = B[i]
            /\ node[i].next # NULL => node[i].next > i /\ B[node[i].next] = B[i]
        BY <3>2 DEF Homes
      <4>3. node[i].next # NULL => C[node[i].next] = B[node[i].next]
        BY <2>4, <3>2, NodeBasics
      <4> QED BY <4>1, <4>2, <4>3
    <3> QED BY <2>3, <3>1, <3>2
  <2>6. \A b \in Buckets : iterms'[b] # NULL => C[iterms'[b]] = b
    <3>1. ASSUME NEW b \in Buckets
          PROVE  iterms'[b] = IF b = index(t) THEN n ELSE iterms[b]
      BY <2>2, <2>3, <3>1 DEF TypeInv, TypeOK
    <3>2. ASSUME NEW b \in Buckets, iterms[b] # NULL PROVE C[iterms[b]] = b
      BY <2>4, <3>2, NodeBasics DEF Homes
    <3> QED BY <2>4, <3>1, <3>2
  <2>7. ASSUME NEW u \in Threads
        PROVE  /\ pc'[u] \in {"walk", "append"} => C[cur'[u]] = Bucket[name'[u]]
               /\ pc'[u] = "fill" => C[mine'[u]] = Bucket[name'[u]]
    BY <2>2, <2>4, NodeBasics, ThreadBasics DEF Homes, TypeInv, TypeOK, index
  <2> QED BY <2>4, <2>5, <2>6, <2>7 DEF HomeInv, Homes, index
<1>5. ASSUME NEW t \in Threads, SetAppend(t) PROVE HomeInv'
  <2> DEFINE n == Len(node) + 1
             C == [i \in 1 .. n |-> IF i = n THEN index(t) ELSE B[i]]
  <2>1. /\ Len(node') = n /\ node'[n].key = name[t] /\ node'[n].next = NULL
        /\ \A i \in Nodes : node'[i] = IF i = cur[t]
                                       THEN [node[i] EXCEPT !.next = n] ELSE node[i]
    <3> DEFINE r == [key |-> name[t], state |-> "full", data |-> topic[t],
                     next |-> NULL]
    <3>1. Added(node, node', cur[t], r)
      BY <1>5, NewNodes
    <3>2. r.key = name[t] /\ r.next = NULL
      OBVIOUS
    <3> HIDE DEF r
    <3> QED BY <3>1, <3>2 DEF Added, Nodes
  <2>2. /\ pc[t] = "append" /\ pc' = [pc EXCEPT ![t] = "clear"]
        /\ mine' = [mine EXCEPT ![t] = n] /\ UNCHANGED <<iterms, name, cur>>
    BY <1>5, <2>1 DEF SetAppend, At, Goto, job
  <2>3. /\ n \in Nat /\ index(t) \in Buckets /\ n # NULL
        /\ Nodes' = 1 .. n /\ Nodes' = Nodes \cup {n} /\ \A i \in Nodes : i < n
        /\ cur[t] \in Nodes
    BY <2>1, <2>2, NodeBasics, ThreadBasics DEF Nodes, NULL, index
  <2>4. C \in [Nodes' -> Buckets] /\ C[n] = index(t)
        /\ \A i \in Nodes : C[i] = B[i]
    BY <2>3 DEF Nodes
  <2> HIDE DEF C, n
  <2>5. ASSUME NEW i \in Nodes'
        PROVE  /\ node'[i].key # NoName => Bucket[node'[i].key] = C[i]
               /\ node'[i].next # NULL => node'[i].next > i /\ C[node'[i].next] = C[i]
    <3>1. CASE i = n
      BY <2>1, <2>4, <3>1 DEF index
    <3>2. CASE i = cur[t]
      <4>1. node'[i].key = node[i].key /\ node'[i].next = n /\ i \in Nodes
        BY <2>1, <2>3, <3>2, NodeBasics, ThreadBasics DEF Rec
      <4>2. B[i] = index(t)
        BY <2>2, <3>2 DEF Homes
      <4> QED BY <2>3, <2>4, <4>1, <4>2 DEF Homes
    <3>3. CASE i \in Nodes /\ i # cur[t]
      <4>1. node'[i] = node[i] /\ C[i] = B[i]
        BY <2>1, <2>4, <3>3
      <4>2. /\ node[i].key # NoName => Bucket[node[i].key] = B[i]
            /\ node[i].next # NULL => node[i].next > i /\ B[node[i].next] = B[i]
        BY <3>3 DEF Homes
      <4>3. node[i].next # NULL => C[node[i].next] = B[node[i].next]
        BY <2>4, <3>3, NodeBasics, ThreadBasics
      <4> QED BY <4>1, <4>2, <4>3
    <3> QED BY <2>3, <3>1, <3>2, <3>3
  <2>6. \A b \in Buckets : iterms'[b] # NULL => C[iterms'[b]] = b
    BY <2>2, <2>4, NodeBasics, ThreadBasics DEF Homes
  <2>7. ASSUME NEW u \in Threads
        PROVE  /\ pc'[u] \in {"walk", "append"} => C[cur'[u]] = Bucket[name'[u]]
               /\ pc'[u] = "fill" => C[mine'[u]] = Bucket[name'[u]]
    BY <2>2, <2>4, NodeBasics, ThreadBasics DEF Homes, TypeInv, TypeOK, index
  <2> QED BY <2>4, <2>5, <2>6, <2>7 DEF HomeInv, Homes, index
<1>6. ASSUME NEW t \in Threads, NEW i \in Nodes,
             Len(node') = Len(node),
             \A j \in Nodes \ {i} : node'[j] = node[j],
             node'[i].key \in {node[i].key, NoName} \/ Bucket[node'[i].key] = B[i],
             node'[i].next \in {node[i].next, NULL},
             UNCHANGED <<iterms, name, cur, mine>>,
             \A u \in Threads : pc'[u] = pc[u] \/ pc'[u] \in {"data", "use"}
      PROVE  HomeInv'
  <2>1. Nodes' = Nodes
    BY <1>6 DEF Nodes
  <2>2. \A j \in Nodes :
          /\ node'[j].key # NoName => Bucket[node'[j].key] = B[j]
          /\ node'[j].next # NULL => node'[j].next > j /\ B[node'[j].next] = B[j]
    BY <1>6 DEF Homes
  <2>3. Homes(B)'
    BY <1>6, <2>1, <2>2 DEF Homes, index
  <2> QED BY <1>1, <2>1, <2>3
<1>7. ASSUME NEW t \in Threads, SetKey(t) PROVE HomeInv'
  <2>1. /\ mine[t] \in Nodes /\ Len(node') = Len(node)
        /\ \A j \in Nodes \ {mine[t]} : node'[j] = node[j]
        /\ node'[mine[t]].key \in {node[mine[t]].key, name[t]}
        /\ node'[mine[t]].next = node[mine[t]].next
        /\ \A u \in Threads : pc'[u] = pc[u] \/ pc'[u] \in {"data", "use"}
    <3> DEFINE i == mine[t]
               q == [node[i] EXCEPT !.state = "sized"]
               r == [node[i] EXCEPT !.state = "full", !.key = name[t]]
    <3>1. /\ i \in Nodes
          /\ \/ Changed(node, node', i, q) /\ UNCHANGED pc
             \/ Changed(node, node', i, r) /\ Goto(t, "data")
      BY <1>7, KeyChange DEF Nodes
    <3>2. node[i] \in Rec
      BY <3>1, NodeBasics, ThreadBasics
    <3>3. /\ q.key = node[i].key /\ q.next = node[i].next
          /\ r.key = name[t] /\ r.next = node[i].next
      BY <3>2 DEF Rec
    <3>4. \A u \in Threads : pc'[u] = pc[u] \/ pc'[u] \in {"data", "use"}
      BY <3>1 DEF Goto, TypeInv, TypeOK
    <3> HIDE DEF q, r
    <3> QED BY <3>1, <3>3, <3>4, ChangedNode
  <2>2. pc[t] = "fill" /\ UNCHANGED <<iterms, name, cur, mine>>
    BY <1>7 DEF SetKey, At, job
  <2>3. Bucket[name[t]] = B[mine[t]]
    BY <2>2 DEF Homes, index
  <2> QED BY <1>6, <2>1, <2>2, <2>3
<1>8. ASSUME NEW t \in Threads, SetData(t) PROVE HomeInv'
  <2>1. /\ mine[t] \in Nodes /\ Len(node') = Len(node)
        /\ \A j \in Nodes \ {mine[t]} : node'[j] = node[j]
        /\ node'[mine[t]].key = node[mine[t]].key
        /\ node'[mine[t]].next = node[mine[t]].next
    <3> DEFINE i == mine[t]
               r == [node[i] EXCEPT !.data = topic[t]]
    <3>1. i \in Nodes /\ Changed(node, node', i, r)
      BY <1>8, FieldChanges DEF Nodes
    <3>2. node[i] \in Rec
      BY <3>1, NodeBasics, ThreadBasics
    <3>3. r.key = node[i].key /\ r.next = node[i].next
      BY <3>2 DEF Rec
    <3> HIDE DEF r
    <3> QED BY <3>1, <3>3, ChangedNode
  <2>2. UNCHANGED <<iterms, name, cur, mine>>
        /\ \A u \in Threads : pc'[u] = pc[u] \/ pc'[u] \in {"data", "use"}
    BY <1>8 DEF SetData, Goto, job, TypeInv, TypeOK
  <2> QED BY <1>6, <2>1, <2>2
<1>9. ASSUME NEW t \in Threads, SetReplace(t) PROVE HomeInv'
  <2>1. /\ cur[t] \in Nodes /\ Len(node') = Len(node)
        /\ \A j \in Nodes \ {cur[t]} : node'[j] = node[j]
        /\ node'[cur[t]].key = node[cur[t]].key
        /\ node'[cur[t]].next = node[cur[t]].next
    <3> DEFINE i == cur[t]
               r == [node[i] EXCEPT !.data = topic[t]]
    <3>1. i \in Nodes /\ Changed(node, node', i, r)
      BY <1>9, FieldChanges DEF Nodes
    <3>2. node[i] \in Rec
      BY <3>1, NodeBasics, ThreadBasics
    <3>3. r.key = node[i].key /\ r.next = node[i].next
      BY <3>2 DEF Rec
    <3> HIDE DEF r
    <3> QED BY <3>1, <3>3, ChangedNode
  <2>2. UNCHANGED <<iterms, name, cur, mine>>
        /\ \A u \in Threads : pc'[u] = pc[u] \/ pc'[u] \in {"data", "use"}
    BY <1>9 DEF SetReplace, Goto, job, TypeInv, TypeOK
  <2> QED BY <1>6, <2>1, <2>2
<1>10. ASSUME NEW t \in Threads, SetClear(t) PROVE HomeInv'
  <2>1. /\ mine[t] \in Nodes /\ Len(node') = Len(node)
        /\ \A j \in Nodes \ {mine[t]} : node'[j] = node[j]
        /\ node'[mine[t]].key = node[mine[t]].key
        /\ node'[mine[t]].next = NULL
    <3> DEFINE i == mine[t]
               r == [node[i] EXCEPT !.next = NULL]
    <3>1. i \in Nodes /\ Changed(node, node', i, r)
      BY <1>10, FieldChanges DEF Nodes
    <3>2. node[i] \in Rec
      BY <3>1, NodeBasics, ThreadBasics
    <3>3. r.key = node[i].key /\ r.next = NULL
      BY <3>2 DEF Rec
    <3> HIDE DEF r
    <3> QED BY <3>1, <3>3, ChangedNode
  <2>2. UNCHANGED <<iterms, name, cur, mine>>
        /\ \A u \in Threads : pc'[u] = pc[u] \/ pc'[u] \in {"data", "use"}
    BY <1>10 DEF SetClear, Goto, job, TypeInv, TypeOK
  <2> QED BY <1>6, <2>1, <2>2
<1>11. ASSUME NEW t \in Threads, Step(t) PROVE HomeInv'
  BY <1>3, <1>4, <1>5, <1>7, <1>8, <1>9, <1>10, <1>11 DEF Step, Runs, Get, Set
<1> QED BY <1>2, <1>11 DEF Next

\* Without any lock, for any number of threads: chains lead forward and never
\* from one bucket to another.
THEOREM ChainsHold == Spec => []ChainsOK
<1>1. Init => HomeInv
  <2> SUFFICES ASSUME Init PROVE HomeInv
    OBVIOUS
  <2>1. Nodes = {} /\ \A b \in Buckets : iterms[b] = NULL
    BY DEF Init, Nodes
  <2>2. \A t \in Threads : pc[t] = "idle"
    BY DEF Init
  <2> DEFINE B == [i \in Nodes |-> 0]
  <2>3. B \in [Nodes -> Buckets]
    BY <2>1
  <2>4. Homes(B)
    BY <2>1, <2>2 DEF Homes
  <2> QED BY <2>3, <2>4 DEF HomeInv
<1>2. TypeInv /\ HomeInv => ChainsOK
  <2> SUFFICES ASSUME TypeInv, NEW B \in [Nodes -> Buckets], Homes(B) PROVE ChainsOK
    BY DEF HomeInv
  <2>1. DOMAIN node = Nodes
    BY DEF TypeInv, Nodes
  <2> QED BY <2>1 DEF Homes, ChainsOK, NULL, Nodes
<1> QED BY <1>1, <1>2, InitTyped, StepTyped, StepHomes, PTL DEF Spec

-----------------------------------------------------------------------------
(* Topics and names.                                                       *)

\* The data of a node is a topic of its key, a node being filled belongs to one
\* thread and has no key, and an idle thread has no topic.
OwnInv ==
    /\ OwnTopic
    /\ \A t \in Threads : pc[t] = "idle" => topic[t] = NULL
    /\ \A i \in Nodes : node[i].data # NULL =>
          node[i].key # NoName /\ topicName[node[i].data] = node[i].key
    /\ \A t \in Threads : /\ pc[t] = "fill" => node[mine[t]].key = NoName
                          /\ pc[t] = "data" => node[mine[t]].key = name[t]
    /\ \A t, u \in Threads :
          pc[t] = "fill" /\ pc[u] = "fill" /\ mine[t] = mine[u] => t = u

\* What mqtt_hash_get returns is a topic of the name.
LEMMA GetsOwn ==
    ASSUME TypeInv, OwnInv, NEW t \in Threads, NEW data, Gets(t, data), data # NULL
    PROVE  topicName[data] = name[t]
<1>1. cur[t] # NULL /\ node[cur[t]].key = name[t] /\ data = node[cur[t]].data
  BY DEF Gets, Matches
<1>2. cur[t] \in Nodes
  BY <1>1, ThreadBasics
<1> QED BY <1>1, <1>2 DEF OwnInv

\* Steps that change no node and make no topic.
LEMMA ControlOwn ==
    ASSUME TypeInv, OwnInv, NEW t \in Threads, UNCHANGED <<node, topicName>>,
           \/ Call(t) \/ GetHead(t) \/ GetNext(t) \/ GetBodiless(t)
           \/ Find(t) \/ Use(t) \/ Check(t)
           \/ SetStart(t) \/ SetWalk(t) \/ SetBodiless(t) \/ SetLast(t)
    PROVE  OwnInv'
<1>1. /\ \A u \in Threads \ {t} :
            /\ pc'[u] = pc[u] /\ topic'[u] = topic[u] /\ mine'[u] = mine[u]
            /\ name'[u] = name[u]
      /\ \/ pc'[t] = "idle" /\ topic'[t] = NULL
         \/ /\ pc'[t] = pc[t] /\ topic'[t] = topic[t] /\ mine'[t] = mine[t]
            /\ name'[t] = name[t]
         \/ /\ pc'[t] \notin {"idle", "fill", "data"}
            /\ topic'[t] # NULL => topicName[topic'[t]] = name'[t]
  <2> USE DEF TypeInv, TypeOK, At, Goto, shared, job
  <2>1. CASE Call(t)
    BY <2>1 DEF Call, StartGet, OwnInv
  <2>2. CASE GetHead(t) \/ GetNext(t)
    BY <2>2 DEF GetHead, GetNext, OwnInv, OwnTopic
  <2>3. CASE GetBodiless(t) \/ SetBodiless(t)
    BY <2>3 DEF GetBodiless, SetBodiless, Ends
  <2>4. CASE Find(t)
    <3>1. PICK data : /\ Gets(t, data) /\ topic' = [topic EXCEPT ![t] = data]
                      /\ IF data = NULL THEN StartGet(t, "add")
                                        ELSE Goto(t, "use") /\ UNCHANGED phase
                      /\ UNCHANGED <<job, mine>>
      BY <2>4 DEF Find
    <3>2. data # NULL => topicName[data] = name[t]
      BY <3>1, GetsOwn
    <3> QED BY <3>1, <3>2 DEF StartGet
  <2>5. CASE Use(t)
    BY <2>5 DEF Use, StartGet, Return, OwnInv, OwnTopic
  <2>6. CASE Check(t)
    BY <2>6 DEF Check, Ends, Return
  <2>7. CASE SetStart(t)
    BY <2>7 DEF SetStart, OwnInv, OwnTopic
  <2>8. CASE SetWalk(t)
    BY <2>8 DEF SetWalk
  <2>9. CASE SetLast(t)
    BY <2>9 DEF SetLast, OwnInv, OwnTopic
  <2> QED BY <2>1, <2>2, <2>3, <2>4, <2>5, <2>6, <2>7, <2>8, <2>9
<1>2. Nodes' = Nodes
  BY DEF Nodes
<1>3. OwnTopic'
  BY <1>1 DEF OwnInv, OwnTopic, NULL
<1>4. \A u \in Threads :
        /\ pc'[u] = "idle" => topic'[u] = NULL
        /\ pc'[u] = "fill" => pc[u] = "fill" /\ mine'[u] = mine[u]
        /\ pc'[u] = "data" => pc[u] = "data" /\ mine'[u] = mine[u] /\ name'[u] = name[u]
  BY <1>1 DEF OwnInv
<1> QED BY <1>2, <1>3, <1>4 DEF OwnInv, NULL

\* The statements that change a node, or add one behind the others.
LEMMA NodeOwn ==
    ASSUME TypeInv, OwnInv, NEW t \in Threads,
           \/ SetFirst(t) \/ SetKey(t) \/ SetData(t) \/ SetReplace(t)
           \/ SetAppend(t) \/ SetClear(t)
    PROVE  OwnInv'
<1>1. /\ UNCHANGED <<topicName, name, topic>>
      /\ pc[t] # "idle" /\ name[t] \in Names /\ name[t] # NoName
  BY ThreadBasics, ConstantsOK
     DEF SetFirst, SetKey, SetData, SetReplace, SetAppend, SetClear, At, job
<1>2. topic[t] # NULL => topicName[topic[t]] = name[t]
  BY DEF OwnInv, OwnTopic
<1>3. ASSUME Nodes \subseteq Nodes',
             \A u \in Threads \ {t} : pc'[u] = pc[u] /\ mine'[u] = mine[u],
             pc'[t] # "idle",
             \A i \in Nodes' : node'[i].data # NULL =>
                node'[i].key # NoName /\ topicName[node'[i].data] = node'[i].key,
             \A u \in Threads \ {t} :
                pc[u] \in {"fill", "data"} => node'[mine[u]].key = node[mine[u]].key,
             pc'[t] = "fill" => /\ node'[mine'[t]].key = NoName
                                /\ \A u \in Threads \ {t} :
                                      pc[u] = "fill" => mine[u] # mine'[t],
             pc'[t] = "data" => node'[mine'[t]].key = name[t]
      PROVE  OwnInv'
  <2>1. OwnTopic'
    BY <1>1 DEF OwnInv, OwnTopic
  <2>2. \A u \in Threads : pc'[u] = "idle" => topic'[u] = NULL
    BY <1>1, <1>3 DEF OwnInv
  <2>3. \A u \in Threads : /\ pc'[u] = "fill" => node'[mine'[u]].key = NoName
                           /\ pc'[u] = "data" => node'[mine'[u]].key = name[u]
    BY <1>3 DEF OwnInv
  <2>4. \A u, v \in Threads :
          pc'[u] = "fill" /\ pc'[v] = "fill" /\ mine'[u] = mine'[v] => u = v
    BY <1>3 DEF OwnInv
  <2> QED BY <1>1, <1>3, <2>1, <2>2, <2>3, <2>4 DEF OwnInv, NULL
<1>4. ASSUME NEW i \in Nodes, NEW r, Changed(node, node', i, r),
             \A u \in Threads \ {t} : pc'[u] = pc[u],
             pc'[t] \in {"fill", "data", "use"},
             pc'[t] = "fill" => pc[t] = "fill" /\ r.key = NoName /\ i = mine[t],
             pc'[t] = "data" => r.key = name[t] /\ i = mine[t],
             r.key = node[i].key \/ (pc[t] = "fill" /\ i = mine[t]),
             r.data # NULL => r.key # NoName /\ topicName[r.data] = r.key,
             mine' = mine
      PROVE  OwnInv'
  <2>1. /\ Nodes' = Nodes /\ node'[i] = r
        /\ \A j \in Nodes \ {i} : node'[j] = node[j]
    BY <1>4, ChangedNode DEF Nodes
  <2>2. \A j \in Nodes' : node'[j].data # NULL =>
           node'[j].key # NoName /\ topicName[node'[j].data] = node'[j].key
    BY <1>4, <2>1 DEF OwnInv
  <2>3. ASSUME NEW u \in Threads \ {t}, pc[u] \in {"fill", "data"}
        PROVE  node'[mine[u]].key = node[mine[u]].key
    <3>1. mine[u] \in Nodes
      BY <2>3, ThreadBasics
    <3>2. CASE pc[t] = "fill" /\ i = mine[t]
      <4>1. node[mine[t]].key = NoName
        BY <3>2 DEF OwnInv
      <4>2. mine[u] # mine[t]
        <5>1. CASE pc[u] = "fill"
          BY <3>2, <5>1 DEF OwnInv
        <5>2. CASE pc[u] = "data"
          <6>1. node[mine[u]].key = name[u] /\ name[u] \in Names
            BY <5>2, ThreadBasics DEF OwnInv
          <6> QED BY <4>1, <6>1, ConstantsOK
        <5> QED BY <2>3, <5>1, <5>2
      <4> QED BY <2>1, <3>1, <3>2, <4>2
    <3> QED BY <1>4, <2>1, <3>1, <3>2
  <2>4. ASSUME NEW u \in Threads \ {t}, pc[u] = "fill", pc'[t] = "fill"
        PROVE  mine[u] # mine'[t]
    BY <1>4, <2>4 DEF OwnInv
  <2> QED BY <1>3, <1>4, <2>1, <2>2, <2>3, <2>4
<1>5. ASSUME NEW i, NEW r, Added(node, node', i, r),
             r.data = NULL \/ (r.data = topic[t] /\ r.key = name[t]),
             \A u \in Threads \ {t} : pc'[u] = pc[u] /\ mine'[u] = mine[u],
             mine'[t] = Len(node) + 1,
             (pc'[t] = "fill" /\ r.key = NoName) \/ pc'[t] = "clear"
      PROVE  OwnInv'
  <2> DEFINE n == Len(node) + 1
  <2>1. /\ Len(node') = n /\ node'[n] = r
        /\ \A j \in Nodes : /\ node'[j].key = node[j].key
                            /\ node'[j].data = node[j].data
    <3>1. Len(node') = n /\ node'[n] = r
      BY <1>5 DEF Added
    <3>2. ASSUME NEW j \in Nodes
          PROVE  node'[j].key = node[j].key /\ node'[j].data = node[j].data
      <4>1. node[j] \in Rec
        BY NodeBasics
      <4>2. node'[j] = IF j = i THEN [node[j] EXCEPT !.next = n] ELSE node[j]
        BY <1>5 DEF Added, Nodes
      <4> QED BY <4>1, <4>2 DEF Rec
    <3> QED BY <3>1, <3>2
  <2>2. /\ Nodes' = Nodes \cup {n} /\ n \notin Nodes
    BY <2>1, NodeBasics DEF Nodes
  <2> HIDE DEF n
  <2>3. \A j \in Nodes' : node'[j].data # NULL =>
           node'[j].key # NoName /\ topicName[node'[j].data] = node'[j].key
    BY <1>1, <1>2, <1>5, <2>1, <2>2 DEF OwnInv
  <2>4. \A u \in Threads \ {t} :
           pc[u] \in {"fill", "data"} => mine[u] \in Nodes
    BY ThreadBasics
  <2>5. mine'[t] = n
    BY <1>5 DEF n
  <2> QED BY <1>3, <1>5, <2>1, <2>2, <2>3, <2>4, <2>5
<1>6. CASE SetFirst(t)
  <2> DEFINE r == [key |-> NoName, state |-> "blank", data |-> NULL,
                   next |-> NULL]
  <2>1. Added(node, node', NULL, r)
    BY <1>6, NewNodes
  <2>2. r.key = NoName /\ r.data = NULL
    OBVIOUS
  <2> HIDE DEF r
  <2>3. Len(node') = Len(node) + 1
    BY <2>1 DEF Added
  <2>4. /\ \A u \in Threads \ {t} : pc'[u] = pc[u] /\ mine'[u] = mine[u]
        /\ mine'[t] = Len(node) + 1 /\ pc'[t] = "fill"
    BY <1>6, <2>3 DEF SetFirst, Goto, TypeInv, TypeOK
  <2>5. /\ r.data = NULL \/ (r.data = topic[t] /\ r.key = name[t])
        /\ (pc'[t] = "fill" /\ r.key = NoName) \/ pc'[t] = "clear"
    BY <2>2, <2>4
  <2> QED BY ONLY <1>5, <2>1, <2>4, <2>5
<1>7. CASE SetAppend(t)
  <2> DEFINE r == [key |-> name[t], state |-> "full", data |-> topic[t],
                   next |-> NULL]
  <2>1. Added(node, node', cur[t], r)
    BY <1>7, NewNodes
  <2>2. r.key = name[t] /\ r.data = topic[t]
    OBVIOUS
  <2> HIDE DEF r
  <2>3. Len(node') = Len(node) + 1
    BY <2>1 DEF Added
  <2>4. /\ \A u \in Threads \ {t} : pc'[u] = pc[u] /\ mine'[u] = mine[u]
        /\ mine'[t] = Len(node) + 1 /\ pc'[t] = "clear"
    BY <1>7, <2>3 DEF SetAppend, Goto, TypeInv, TypeOK
  <2> QED BY <1>5, <2>1, <2>2, <2>4
<1>8. CASE SetKey(t)
  <2> DEFINE i == mine[t]
             q == [node[i] EXCEPT !.state = "sized"]
             r == [node[i] EXCEPT !.state = "full", !.key = name[t]]
  <2>1. /\ i \in Nodes
        /\ \/ Changed(node, node', i, q) /\ UNCHANGED pc
           \/ Changed(node, node', i, r) /\ Goto(t, "data")
    BY <1>8, KeyChange DEF Nodes
  <2>2. node[i] \in Rec /\ pc[t] = "fill" /\ mine' = mine
    BY <1>8, <2>1, NodeBasics DEF SetKey, At
  <2>3. node[i].key = NoName /\ node[i].data = NULL
    BY <2>1, <2>2 DEF OwnInv
  <2>4. /\ q.key = NoName /\ q.data = NULL
        /\ r.key = name[t] /\ r.data = NULL
    BY <2>2, <2>3 DEF Rec
  <2> HIDE DEF q, r
  <2>5. CASE Changed(node, node', i, q) /\ UNCHANGED pc
    BY <1>4, <2>1, <2>2, <2>3, <2>4, <2>5
  <2>6. CASE Changed(node, node', i, r) /\ Goto(t, "data")
    <3>1. pc'[t] = "data" /\ \A u \in Threads \ {t} : pc'[u] = pc[u]
      BY <2>6 DEF Goto, TypeInv, TypeOK
    <3> QED BY <1>4, <2>1, <2>2, <2>3, <2>4, <2>6, <3>1
  <2> QED BY <2>1, <2>5, <2>6
<1>9. CASE SetData(t)
  <2> DEFINE i == mine[t]
             r == [node[i] EXCEPT !.data = topic[t]]
  <2>1. i \in Nodes /\ Changed(node, node', i, r)
    BY <1>9, FieldChanges DEF Nodes
  <2>2. node[i] \in Rec /\ node[i].key = name[t]
    BY <1>9, <2>1, NodeBasics DEF SetData, At, OwnInv
  <2>3. r.key = node[i].key /\ r.data = topic[t]
    BY <2>2 DEF Rec
  <2> HIDE DEF r
  <2>4. /\ mine' = mine /\ pc'[t] = "use"
        /\ \A u \in Threads \ {t} : pc'[u] = pc[u]
    BY <1>9 DEF SetData, Goto, TypeInv, TypeOK
  <2>5. r.data # NULL => r.key # NoName /\ topicName[r.data] = r.key
    BY <1>1, <1>2, <2>2, <2>3
  <2>6. pc'[t] \in {"fill", "data", "use"} /\ pc'[t] # "fill" /\ pc'[t] # "data"
    BY <2>4
  <2> QED BY <1>4, <2>1, <2>3, <2>4, <2>5, <2>6
<1>10. CASE SetReplace(t)
  <2> DEFINE i == cur[t]
             r == [node[i] EXCEPT !.data = topic[t]]
  <2>1. i \in Nodes /\ Changed(node, node', i, r)
    BY <1>10, FieldChanges DEF Nodes
  <2>2. node[i] \in Rec /\ node[i].key = name[t]
    BY <1>10, <2>1, NodeBasics DEF SetReplace, Matches
  <2>3. r.key = node[i].key /\ r.data = topic[t]
    BY <2>2 DEF Rec
  <2> HIDE DEF r
  <2>4. /\ mine' = mine /\ pc'[t] = "use"
        /\ \A u \in Threads \ {t} : pc'[u] = pc[u]
    BY <1>10 DEF SetReplace, Goto, TypeInv, TypeOK
  <2>5. r.data # NULL => r.key # NoName /\ topicName[r.data] = r.key
    BY <1>1, <1>2, <2>2, <2>3
  <2>6. pc'[t] \in {"fill", "data", "use"} /\ pc'[t] # "fill" /\ pc'[t] # "data"
    BY <2>4
  <2> QED BY <1>4, <2>1, <2>3, <2>4, <2>5, <2>6
<1>11. CASE SetClear(t)
  <2> DEFINE i == mine[t]
             r == [node[i] EXCEPT !.next = NULL]
  <2>1. i \in Nodes /\ Changed(node, node', i, r)
    BY <1>11, FieldChanges DEF Nodes
  <2>2. node[i] \in Rec
    BY <2>1, NodeBasics
  <2>3. r.key = node[i].key /\ r.data = node[i].data
    BY <2>2 DEF Rec
  <2> HIDE DEF r
  <2>4. /\ mine' = mine /\ pc'[t] = "use"
        /\ \A u \in Threads \ {t} : pc'[u] = pc[u]
    BY <1>11 DEF SetClear, Goto, TypeInv, TypeOK
  <2>5. r.data # NULL => r.key # NoName /\ topicName[r.data] = r.key
    BY <2>1, <2>3 DEF OwnInv
  <2> QED BY <1>4, <2>1, <2>3, <2>4, <2>5
<1> QED BY <1>6, <1>7, <1>8, <1>9, <1>10, <1>11

\* A new topic is one of its maker's name.
LEMMA AddOwn ==
    ASSUME TypeInv, OwnInv, NEW t \in Threads, Add(t)
    PROVE  OwnInv'
<1>1. CASE Ends("topic_null")
  BY <1>1 DEF Ends, shared, job, OwnInv, OwnTopic, Nodes
<1>2. CASE /\ Gets(t, NULL)
           /\ topicName' = Append(topicName, name[t])
           /\ topic' = [topic EXCEPT ![t] = Len(topicName')]
           /\ Goto(t, "set")
           /\ UNCHANGED <<iterms, node, job, phase, cur, mine, fault>>
  <2>1. /\ topicName \in Seq(Names) /\ name[t] \in Names
        /\ node \in Seq(Rec) /\ RestTyped /\ NodesTyped(node, Len(topicName))
    BY <1>2, Parts DEF Gets, At, TypeInv, TypeOK, ThreadsOK
  <2>2. /\ Len(topicName') = Len(topicName) + 1 /\ Len(topicName) \in Nat
        /\ topicName'[Len(topicName')] = name[t]
        /\ \A k \in 0 .. Len(topicName) :
              k # NULL => topicName'[k] = topicName[k]
    BY <1>2, <2>1 DEF NULL
  <2>3. /\ Nodes' = Nodes /\ UNCHANGED <<node, name, mine>>
        /\ topic'[t] = Len(topicName') /\ pc'[t] = "set"
        /\ \A u \in Threads \ {t} : topic'[u] = topic[u] /\ pc'[u] = pc[u]
    BY <1>2 DEF Nodes, job, Goto, TypeInv, TypeOK
  <2>4. /\ \A i \in Nodes : node[i].data \in 0 .. Len(topicName)
        /\ \A u \in Threads : topic[u] \in 0 .. Len(topicName)
    BY <2>1 DEF NodesTyped, RestTyped, Nodes
  <2>5. OwnTopic'
    BY <2>2, <2>3, <2>4 DEF OwnInv, OwnTopic, NULL
  <2>6. \A i \in Nodes' : node'[i].data # NULL =>
           node'[i].key # NoName /\ topicName'[node'[i].data] = node'[i].key
    BY <2>2, <2>3, <2>4 DEF OwnInv
  <2>7. \A u \in Threads :
           /\ pc'[u] = "idle" => topic'[u] = NULL
           /\ pc'[u] = "fill" => pc[u] = "fill"
           /\ pc'[u] = "data" => pc[u] = "data"
    BY <2>3 DEF OwnInv
  <2> QED BY <2>3, <2>5, <2>6, <2>7 DEF OwnInv, NULL
<1> QED BY <1>1, <1>2 DEF Add

LEMMA InitOwn == Init => OwnInv
BY DEF Init, OwnInv, OwnTopic, Nodes

LEMMA StepOwn == TypeInv /\ OwnInv /\ [Next]_vars => OwnInv'
<1> SUFFICES ASSUME TypeInv, OwnInv, [Next]_vars PROVE OwnInv'
  OBVIOUS
<1>1. CASE UNCHANGED vars
  BY <1>1 DEF vars, shared, job, OwnInv, OwnTopic, Nodes
<1>2. ASSUME NEW t \in Threads,
             \/ Call(t) \/ GetHead(t) \/ GetNext(t) \/ GetBodiless(t)
             \/ Find(t) \/ Use(t) \/ Check(t)
             \/ SetStart(t) \/ SetWalk(t) \/ SetBodiless(t) \/ SetLast(t)
      PROVE  OwnInv'
  <2>1. UNCHANGED <<node, topicName>>
    BY <1>2 DEF Call, GetHead, GetNext, GetBodiless, Find, Use, Check, Ends,
                SetStart, SetWalk, SetBodiless, SetLast, shared
  <2> QED BY <1>2, <2>1, ControlOwn
<1>3. ASSUME NEW t \in Threads, Step(t) PROVE OwnInv'
  BY <1>2, <1>3, AddOwn, NodeOwn DEF Step, Runs, Get, Set
<1> QED BY <1>1, <1>3 DEF Next

\* Whatever the threads overwrite or lose, no thread ever holds a topic of
\* another name than its packet's.
THEOREM OwnTopicHolds == Spec => []OwnTopic
<1>1. OwnInv => OwnTopic
  BY DEF OwnInv
<1> QED BY <1>1, InitTyped, StepTyped, InitOwn, StepOwn, PTL DEF Spec

-----------------------------------------------------------------------------
(* The table, while no two calls have overlapped on a bucket, one of them  *)
(* adding.                                                                 *)

\* The nodes of a bucket that have their key, and those with a given key.
Members(b) == {i \in Nodes : node[i].key \in Names /\ Bucket[node[i].key] = b}

Named(n) == {i \in Nodes : node[i].key = n}

\* In their order, each leads to the next; they are complete, and have
\* different keys.
Chained(b) ==
    /\ \A i \in Members(b) :
          /\ node[i].state = "full"
          /\ node[i].next # NULL => node[i].next \in Members(b) /\ node[i].next > i
    /\ \A i, j \in Members(b) :
          /\ i < j => node[i].next # NULL /\ node[i].next <= j
          /\ node[i].key = node[j].key => i = j

\* The bucket leads to the first of them, and from there to the others.
Headed(b) ==
    /\ Members(b) = {} => iterms[b] = NULL
    /\ Members(b) # {} => iterms[b] \in Members(b)
    /\ \A j \in Members(b) : /\ iterms[b] <= j
                             /\ iterms[b] # j => \E i \in Members(b) : node[i].next = j

\* A node that has no data, or a bucket with a node that has no key, is the work
\* of a thread that is not through with it.
BucketOK(b) ==
    /\ Chained(b)
    /\ Headed(b) \/ \E t \in Threads : pc[t] = "fill" /\ Bucket[name[t]] = b
    /\ \A i \in Members(b) :
          node[i].data # NULL \/ \E t \in Threads : pc[t] = "data" /\ mine[t] = i

\* How far t has come with the name n, to whose bucket nobody else adds.
Stage(t, n) ==
    /\ pc[t] = "get" => /\ cur[t] \in Members(Bucket[n]) \cup {NULL}
                        /\ \A i \in Named(n) : cur[t] # NULL /\ cur[t] <= i
    /\ phase[t] = "add" /\ pc[t] \notin {"data", "clear", "use"} => Named(n) = {}
    /\ pc[t] \in {"first", "fill"} => Members(Bucket[n]) = {}
    /\ pc[t] = "fill" => iterms[Bucket[n]] = mine[t]
    /\ pc[t] \in {"fill", "data"} => node[mine[t]].data = NULL
    /\ pc[t] \in {"fill", "data", "clear"} => node[mine[t]].next = NULL
    /\ pc[t] \in {"data", "clear"} => mine[t] \in Named(n)
    /\ pc[t] \in {"walk", "append"} => cur[t] \in Members(Bucket[n])
    /\ pc[t] = "append" => \A j \in Members(Bucket[n]) : j <= cur[t]
    /\ pc[t] = "use" \/ phase[t] = "check" => Named(n) # {}

StagesOK == \A t \in Threads : \A n \in Names :
                pc[t] # "idle" /\ name[t] = n => Stage(t, n)

\* A topic is in the table, or the thread that has made it is on the way there.
Held(i) == \E k \in Nodes : node[k].key = topicName[i] /\ node[k].data = i

Storing == {"set", "first", "fill", "data", "walk", "append"}

Carried(i) == \E t \in Threads : pc[t] \in Storing /\ topic[t] = i

Good == /\ fault = "none"
        /\ \A b \in Buckets : BucketOK(b)
        /\ StagesOK
        /\ \A i \in DOMAIN topicName : Held(i) \/ Carried(i)

PhasesOK == \A t \in Threads :
    /\ pc[t] \in Storing \cup {"clear"} => phase[t] = "add"
    /\ phase[t] = "check" => pc[t] \in {"get_head", "get"}

MapInv == /\ PhasesOK
          /\ Overlap => overlap
          /\ ~ overlap => Good

\* The nodes go by the name of a bucket, and are not NULL.
LEMMA MemberBasics ==
    ASSUME TypeInv
    PROVE  /\ \A i \in Nodes : i \in Nat /\ i # NULL
           /\ \A b : \A i \in Members(b) : i \in Nodes /\ node[i].key \in Names
           /\ \A n \in Names : Named(n) = {i \in Members(Bucket[n]) : node[i].key = n}
           /\ \A n \in Names : Bucket[n] \in Buckets
BY NodeBasics DEF Members, Named, Nodes, NULL, Buckets

\* The threads but t are as they were.
LEMMA OthersSame ==
    ASSUME TypeInv, NEW t \in Threads, Call(t) \/ Runs(t)
    PROVE  \A u \in Threads \ {t} :
              /\ pc'[u] = pc[u] /\ phase'[u] = phase[u] /\ name'[u] = name[u]
              /\ cur'[u] = cur[u] /\ topic'[u] = topic[u] /\ mine'[u] = mine[u]
<1> USE DEF TypeInv, TypeOK, At, Goto, shared, job
<1>1. CASE Call(t)
  BY <1>1 DEF Call, StartGet
<1>2. CASE Get(t)
  BY <1>2 DEF Get, GetHead, GetNext, GetBodiless, Ends
<1>3. CASE Find(t)
  BY <1>3 DEF Find, StartGet
<1>4. CASE Add(t)
  BY <1>4 DEF Add, Ends
<1>5. CASE Use(t)
  BY <1>5 DEF Use, StartGet, Return
<1>6. CASE Check(t)
  BY <1>6 DEF Check, Ends, Return
<1>7. CASE \/ SetStart(t) \/ SetWalk(t) \/ SetBodiless(t) \/ SetLast(t)
  BY <1>7 DEF SetStart, SetWalk, SetBodiless, SetLast, Ends
<1>8. CASE \/ SetFirst(t) \/ SetKey(t) \/ SetData(t) \/ SetReplace(t)
           \/ SetAppend(t) \/ SetClear(t)
  BY <1>8 DEF SetFirst, SetKey, SetData, SetReplace, SetAppend, SetClear
<1> QED BY <1>1, <1>2, <1>3, <1>4, <1>5, <1>6, <1>7, <1>8 DEF Runs, Set

LEMMA PhasesStep ==
    ASSUME TypeInv, PhasesOK, NEW t \in Threads, Call(t) \/ Runs(t)
    PROVE  PhasesOK'
<1>1. /\ pc'[t] \in Storing \cup {"clear"} => phase'[t] = "add"
      /\ phase'[t] = "check" => pc'[t] \in {"get_head", "get"}
  <2> USE DEF TypeInv, TypeOK, At, Goto, shared, job, PhasesOK, Storing
  <2>1. CASE Call(t)
    BY <2>1 DEF Call, StartGet
  <2>2. CASE Get(t)
    BY <2>2 DEF Get, GetHead, GetNext, GetBodiless, Ends
  <2>3. CASE Find(t)
    BY <2>3 DEF Find, StartGet, Gets
  <2>4. CASE Add(t)
    BY <2>4 DEF Add, Ends
  <2>5. CASE Use(t)
    BY <2>5 DEF Use, StartGet, Return
  <2>6. CASE Check(t)
    BY <2>6 DEF Check, Ends, Return
  <2>7. CASE \/ SetStart(t) \/ SetWalk(t) \/ SetBodiless(t) \/ SetLast(t)
    BY <2>7 DEF SetStart, SetWalk, SetBodiless, SetLast, Ends
  <2>8. CASE \/ SetFirst(t) \/ SetKey(t) \/ SetData(t) \/ SetReplace(t)
             \/ SetAppend(t) \/ SetClear(t)
    BY <2>8 DEF SetFirst, SetKey, SetData, SetReplace, SetAppend, SetClear
  <2> QED BY <2>1, <2>2, <2>3, <2>4, <2>5, <2>6, <2>7, <2>8 DEF Runs, Set
<1> QED BY <1>1, OthersSame DEF PhasesOK

\* Nobody but t is at a bucket to which t adds, and nobody adds to a bucket at
\* which t is.
LEMMA Alone ==
    ASSUME TypeInv, PhasesOK, ~ Overlap, NEW t \in Threads, NEW u \in Threads \ {t},
           pc[t] # "idle", pc[u] # "idle", name[u] \in Names, name[t] \in Names,
           Bucket[name[t]] = Bucket[name[u]]
    PROVE  /\ phase[t] # "add" /\ phase[u] # "add"
           /\ pc[u] \notin Storing \cup {"clear"}
BY DEF Overlap, Adds, Busy, index, PhasesOK

-----------------------------------------------------------------------------
(* What a step leaves alone.                                               *)

\* The bucket, its nodes and what they hold stay.
Kept(b) ==
    /\ Members(b)' = Members(b) /\ iterms'[b] = iterms[b]
    /\ \A i \in Members(b) :
          /\ node'[i].key = node[i].key /\ node'[i].state = node[i].state
          /\ node'[i].data = node[i].data /\ node'[i].next = node[i].next

LEMMA KeptAll ==
    ASSUME TypeInv, UNCHANGED <<iterms, node>>
    PROVE  \A b : Kept(b)
BY DEF Kept, Members, Nodes

\* The nodes with a name of the bucket are the same then.
LEMMA KeptNamed ==
    ASSUME TypeInv, TypeInv', NEW n \in Names, Kept(Bucket[n])
    PROVE  Named(n)' = Named(n)
<1>1. Named(n) = {i \in Members(Bucket[n]) : node[i].key = n}
  BY MemberBasics
<1>2. Named(n)' = {i \in Members(Bucket[n])' : node'[i].key = n}
  BY DEF Named, Members
<1> QED BY <1>1, <1>2 DEF Kept

\* So are the stages of a thread that is as it was.
LEMMA KeptStage ==
    ASSUME TypeInv, TypeInv', NEW u \in Threads, NEW n \in Names, Kept(Bucket[n]),
           Stage(u, n), pc'[u] = pc[u], phase'[u] = phase[u], cur'[u] = cur[u],
           mine'[u] = mine[u],
           pc[u] = "fill" => /\ node'[mine[u]].next = node[mine[u]].next
                             /\ node'[mine[u]].data = node[mine[u]].data
    PROVE  Stage(u, n)'
<1> DEFINE b == Bucket[n]
<1>1. Named(n)' = Named(n) /\ Named(n) \subseteq Members(b)
  BY KeptNamed, MemberBasics
<1>2. Members(b)' = Members(b) /\ iterms'[b] = iterms[b]
  BY DEF Kept
<1>3. pc[u] \in {"data", "clear"} => /\ node'[mine[u]].next = node[mine[u]].next
                                     /\ node'[mine[u]].data = node[mine[u]].data
  BY <1>1 DEF Stage, Kept
<1> QED BY <1>1, <1>2, <1>3 DEF Stage

\* And the bucket is right, if nobody who was to go on with it has left it.
LEMMA KeptBucket ==
    ASSUME TypeInv, NEW b, Kept(b), BucketOK(b),
           \A u \in Threads : pc[u] = "fill" /\ Bucket[name[u]] = b =>
              pc'[u] = "fill" /\ name'[u] = name[u],
           \A u \in Threads : pc[u] = "data" /\ mine[u] \in Members(b) =>
              pc'[u] = "data" /\ mine'[u] = mine[u]
    PROVE  BucketOK(b)'
<1>1. Chained(b)'
  BY DEF Kept, BucketOK, Chained
<1>2. Headed(b) => Headed(b)'
  BY DEF Kept, Headed
<1>3. \A i \in Members(b)' :
         node'[i].data # NULL \/ \E t \in Threads : pc'[t] = "data" /\ mine'[t] = i
  BY DEF Kept, BucketOK
<1> QED BY <1>1, <1>2, <1>3 DEF BucketOK

\* A node with the name of a thread has its data, unless that thread is storing.
LEMMA HasData ==
    ASSUME TypeInv, PhasesOK, Good, ~ Overlap, NEW t \in Threads,
           pc[t] # "idle", pc[t] \notin Storing \cup {"clear"},
           NEW i \in Members(Bucket[name[t]])
    PROVE  node[i].data # NULL
<1>0. name[t] \in Names /\ Bucket[name[t]] \in Buckets
  BY ThreadBasics, MemberBasics
<1> SUFFICES ASSUME node[i].data = NULL PROVE FALSE
  OBVIOUS
<1>1. PICK u \in Threads : pc[u] = "data" /\ mine[u] = i
  BY <1>0 DEF Good, BucketOK
<1>2. name[u] \in Names /\ i \in Named(name[u])
  BY <1>1, ThreadBasics DEF Good, StagesOK, Stage
<1>3. Bucket[name[u]] = Bucket[name[t]]
  BY <1>2, MemberBasics DEF Named, Members
<1>4. u # t
  BY <1>1 DEF Storing
<1> QED BY <1>0, <1>1, <1>2, <1>3, <1>4, Alone DEF Storing

-----------------------------------------------------------------------------
(* Steps that change no node and no bucket.                                *)

\* They are the first step of mqtt_hash_get, of mqtt_hash_set, or follow a link,
\* or go from one to the next, or end the process.
Control(t) == \/ Call(t) \/ GetHead(t) \/ GetNext(t) \/ GetBodiless(t)
              \/ Find(t) \/ Add(t) \/ Use(t) \/ Check(t)
              \/ SetStart(t) \/ SetWalk(t) \/ SetBodiless(t) \/ SetLast(t)

\* A bucket without a node that has no key leads to its nodes.
LEMMA HeadedHere ==
    ASSUME TypeInv, PhasesOK, Good, ~ Overlap, NEW t \in Threads,
           pc[t] \notin {"idle", "fill"}
    PROVE  Headed(Bucket[name[t]])
<1>1. name[t] \in Names /\ Bucket[name[t]] \in Buckets
  BY ThreadBasics, MemberBasics
<1>2. ASSUME NEW u \in Threads, pc[u] = "fill", Bucket[name[u]] = Bucket[name[t]]
      PROVE  FALSE
  <2>1. u # t /\ name[u] \in Names
    BY <1>2, ThreadBasics
  <2> QED BY <1>1, <1>2, <2>1, Alone DEF Storing
<1> QED BY <1>1, <1>2 DEF Good, BucketOK

\* What mqtt_hash_get returns: NULL if and only if no node has the name.
LEMMA GetsRight ==
    ASSUME TypeInv, PhasesOK, Good, ~ Overlap, NEW t \in Threads, NEW data, Gets(t, data)
    PROVE  data = NULL <=> Named(name[t]) = {}
<1>1. pc[t] = "get" /\ name[t] \in Names /\ Stage(t, name[t])
  BY ThreadBasics DEF Gets, At, Good, StagesOK
<1>2. CASE cur[t] = NULL /\ data = NULL
  BY <1>1, <1>2 DEF Stage
<1>3. CASE cur[t] # NULL /\ Matches(t) /\ data = node[cur[t]].data
  <2>1. cur[t] \in Members(Bucket[name[t]]) /\ cur[t] \in Named(name[t])
    BY <1>1, <1>3, MemberBasics DEF Stage, Matches
  <2>2. data # NULL
    BY <1>1, <1>3, <2>1, HasData DEF Storing
  <2> QED BY <2>1, <2>2
<1> QED BY <1>2, <1>3 DEF Gets

\* No null pointer is followed and no assertion fails.
LEMMA ControlFault ==
    ASSUME TypeInv, PhasesOK, Good, ~ Overlap, NEW t \in Threads, Control(t)
    PROVE  /\ fault' = "none" /\ ~ GetBodiless(t) /\ ~ SetBodiless(t)
           /\ Add(t) => ~ Ends("topic_null")
           /\ Check(t) => ~ Ends("topic_null")
<1>0. fault = "none" /\ (pc[t] # "idle" => name[t] \in Names /\ Stage(t, name[t]))
  BY ThreadBasics DEF Good, StagesOK
<1>1. \A n \in Names : \A i \in Members(Bucket[n]) : node[i].state = "full"
  BY MemberBasics DEF Good, BucketOK, Chained
<1>2. ~ GetBodiless(t)
  BY <1>0, <1>1 DEF GetBodiless, Bodiless, At, Stage
<1>3. ~ SetBodiless(t)
  BY <1>0, <1>1 DEF SetBodiless, Bodiless, At, Stage
<1>4. ASSUME Add(t) PROVE ~ Ends("topic_null") /\ fault' = "none"
  <2>1. phase[t] = "add" /\ pc[t] = "get"
    BY <1>4 DEF Add, Gets, At
  <2>2. Named(name[t]) = {}
    BY <1>0, <2>1 DEF Stage
  <2>3. ~ \E data \in 1 .. Len(topicName) : Gets(t, data)
    BY <2>2, GetsRight DEF NULL
  <2> QED BY <1>0, <1>4, <2>3 DEF Add, Ends
<1>5. ASSUME Check(t) PROVE ~ Ends("topic_null") /\ fault' = "none"
  <2>1. phase[t] = "check" /\ pc[t] = "get"
    BY <1>5 DEF Check, Gets, At
  <2>2. Named(name[t]) # {}
    BY <1>0, <2>1 DEF Stage
  <2>3. ~ Gets(t, NULL)
    BY <2>2, GetsRight
  <2> QED BY <1>0, <1>5, <2>3 DEF Check, Ends
<1> QED BY <1>0, <1>2, <1>3, <1>4, <1>5
        DEF Control, Call, GetHead, GetNext, Find, Use, SetStart, SetWalk, SetLast

\* The thread itself is at its next stage.
LEMMA ControlStage ==
    ASSUME TypeInv, TypeInv', PhasesOK, Good, ~ Overlap, NEW t \in Threads, Control(t),
           UNCHANGED <<iterms, node>>, NEW n \in Names, name'[t] = n, pc'[t] # "idle"
    PROVE  Stage(t, n)'
<1> DEFINE b == Bucket[n]
<1>0. /\ pc \in [Threads -> {"idle", "get_head", "get", "use", "set", "first",
                             "fill", "data", "walk", "append", "clear"}]
      /\ phase \in [Threads -> {"find", "add", "check"}]
      /\ name \in [Threads -> Names \cup {NoName}]
      /\ cur \in [Threads -> Pointers]
  BY DEF TypeInv, TypeOK
<1>1. Named(n)' = Named(n) /\ Members(b)' = Members(b) /\ Named(n) \subseteq Members(b)
  BY KeptAll, KeptNamed, MemberBasics DEF Kept
<1>2. ASSUME pc[t] # "idle", UNCHANGED name
      PROVE  name[t] = n /\ Stage(t, n) /\ Chained(b) /\ b \in Buckets
  BY <1>2, MemberBasics DEF Good, StagesOK, BucketOK
<1>3. CASE Call(t)
  <2>1. pc'[t] = "get_head" /\ phase'[t] = "find"
    BY <1>0, <1>3 DEF Call, StartGet, Goto
  <2> QED BY <2>1 DEF Stage
<1>4. CASE GetHead(t)
  <2>1. /\ pc[t] = "get_head" /\ pc'[t] = "get" /\ UNCHANGED <<name, phase>>
        /\ name[t] = n /\ cur'[t] = iterms[b]
    BY <1>0, <1>2, <1>4 DEF GetHead, At, Goto, job, index
  <2>2. Headed(b) /\ Stage(t, n)
    BY <1>2, <2>1, HeadedHere
  <2>3. cur'[t] \in Members(b) \cup {NULL}
        /\ \A i \in Named(n) : cur'[t] # NULL /\ cur'[t] <= i
    BY <1>1, <2>1, <2>2, MemberBasics DEF Headed
  <2> QED BY <1>1, <2>1, <2>2, <2>3 DEF Stage
<1>5. CASE GetNext(t)
  <2>1. /\ pc[t] = "get" /\ cur[t] # NULL /\ UNCHANGED <<name, phase, pc>>
        /\ cur'[t] = node[cur[t]].next /\ node[cur[t]].key # n
    BY <1>0, <1>2, <1>5 DEF GetNext, At, job, Matches
  <2>2. /\ Stage(t, n) /\ Chained(b) /\ cur[t] \in Members(b)
    BY <1>2, <2>1 DEF Stage
  <2>3. cur'[t] \in Members(b) \cup {NULL}
    BY <2>1, <2>2 DEF Chained
  <2>4. ASSUME NEW i \in Named(n) PROVE cur'[t] # NULL /\ cur'[t] <= i
    <3>1. i \in Members(b) /\ cur[t] <= i /\ cur[t] # i
      BY <1>1, <2>1, <2>2 DEF Stage, Named
    <3>2. cur[t] < i
      BY <2>2, <3>1, MemberBasics
    <3> QED BY <2>1, <2>2, <3>1, <3>2 DEF Chained
  <2> QED BY <1>1, <2>1, <2>2, <2>3, <2>4 DEF Stage
<1>6. CASE Find(t)
  <2>1. PICK data \in 0 .. Len(topicName) :
           /\ Gets(t, data)
           /\ IF data = NULL THEN StartGet(t, "add")
                             ELSE Goto(t, "use") /\ UNCHANGED phase
    BY <1>6 DEF Find
  <2>2. pc[t] = "get" /\ phase[t] = "find" /\ UNCHANGED name /\ name[t] = n
    BY <1>2, <1>6, <2>1 DEF Find, Gets, At, job
  <2>3. data = NULL <=> Named(n) = {}
    BY <2>1, <2>2, GetsRight
  <2>4. CASE data = NULL
    <3>1. pc'[t] = "get_head" /\ phase'[t] = "add"
      BY <1>0, <2>1, <2>4 DEF StartGet, Goto
    <3> QED BY <1>1, <2>3, <2>4, <3>1 DEF Stage
  <2>5. CASE data # NULL
    <3>1. pc'[t] = "use" /\ phase'[t] = "find"
      BY <1>0, <2>1, <2>2, <2>5 DEF Goto
    <3> QED BY <1>1, <2>3, <2>5, <3>1 DEF Stage
  <2> QED BY <2>4, <2>5
<1>7. CASE Add(t)
  <2>1. /\ pc[t] = "get" /\ phase[t] = "add" /\ UNCHANGED <<name, phase>>
        /\ pc' = [pc EXCEPT ![t] = "set"]
    BY <1>7, ControlFault DEF Add, Gets, At, Goto, job
  <2>2. pc'[t] = "set" /\ Stage(t, n)
    BY <1>0, <1>2, <2>1
  <2> QED BY <1>1, <2>1, <2>2 DEF Stage
<1>8. CASE Use(t)
  <2>1. pc[t] = "use" /\ UNCHANGED name
    BY <1>8 DEF Use, At, job
  <2>2. Named(n) # {}
    BY <1>2, <2>1 DEF Stage
  <2>3. pc'[t] = "get_head" /\ phase'[t] = "check"
    BY <1>0, <1>8 DEF Use, Return, StartGet, Goto
  <2> QED BY <1>1, <2>2, <2>3 DEF Stage
<1>9. CASE Check(t)
  <2>1. pc'[t] = "idle"
    BY <1>0, <1>9, ControlFault DEF Check, Return, Goto
  <2> QED BY <2>1
<1>10. CASE SetStart(t)
  <2>1. /\ pc[t] = "set" /\ UNCHANGED <<name, phase>> /\ name[t] = n /\ phase[t] = "add"
        /\ cur'[t] = iterms[b] /\ pc'[t] = IF iterms[b] = NULL THEN "first" ELSE "walk"
    BY <1>0, <1>2, <1>10 DEF SetStart, At, Goto, job, index, PhasesOK, Storing
  <2>2. Headed(b) /\ Stage(t, n)
    BY <1>2, <2>1, HeadedHere
  <2>3. Named(n) = {} /\ (iterms[b] = NULL => Members(b) = {})
        /\ (iterms[b] # NULL => iterms[b] \in Members(b))
    BY <2>1, <2>2, MemberBasics DEF Stage, Headed
  <2> QED BY <1>1, <2>1, <2>3 DEF Stage
<1>11. CASE SetWalk(t)
  <2>1. /\ pc[t] = "walk" /\ node[cur[t]].next # NULL /\ UNCHANGED <<name, phase, pc>>
        /\ cur'[t] = node[cur[t]].next /\ phase[t] = "add"
    BY <1>0, <1>11 DEF SetWalk, At, job, PhasesOK, Storing
  <2>2. /\ Stage(t, n) /\ cur'[t] \in Members(b)
    BY <1>2, <2>1 DEF Stage, Chained
  <2> QED BY <1>1, <2>1, <2>2 DEF Stage
<1>12. CASE SetLast(t)
  <2>1. /\ pc[t] = "walk" /\ node[cur[t]].next = NULL /\ UNCHANGED <<name, phase, cur>>
        /\ pc'[t] = "append" /\ phase[t] = "add"
    BY <1>0, <1>12 DEF SetLast, At, Goto, job, PhasesOK, Storing
  <2>2. /\ Stage(t, n) /\ Chained(b) /\ cur[t] \in Members(b)
    BY <1>2, <2>1 DEF Stage
  <2>3. \A j \in Members(b) : j <= cur[t]
    BY <2>1, <2>2, MemberBasics DEF Chained
  <2> QED BY <1>1, <2>1, <2>2, <2>3 DEF Stage
<1> QED BY <1>3, <1>4, <1>5, <1>6, <1>7, <1>8, <1>9, <1>10, <1>11, <1>12, ControlFault
        DEF Control

LEMMA ControlTopics ==
    ASSUME TypeInv, PhasesOK, Good, ~ Overlap, NEW t \in Threads, Control(t),
           UNCHANGED <<iterms, node>>
    PROVE  \A i \in DOMAIN topicName' : Held(i)' \/ Carried(i)'
<1>0. /\ TypeOK /\ topicName \in Seq(Names)
      /\ \A u \in Threads \ {t} : pc'[u] = pc[u] /\ topic'[u] = topic[u]
  BY OthersSame DEF TypeInv, TypeOK, Control, Runs, Get, Set
<1>1. ASSUME NEW i \in DOMAIN topicName, topicName'[i] = topicName[i],
             pc[t] \in Storing => pc'[t] \in Storing /\ topic'[t] = topic[t]
      PROVE  Held(i)' \/ Carried(i)'
  <2>1. Held(i) => Held(i)'
    BY <1>1 DEF Held, Nodes
  <2>2. Carried(i) => Carried(i)'
    BY <1>0, <1>1 DEF Carried
  <2> QED BY <2>1, <2>2 DEF Good
<1>2. CASE Add(t)
  <2>1. /\ pc[t] = "get" /\ topicName' = Append(topicName, name[t])
        /\ topic' = [topic EXCEPT ![t] = Len(topicName')]
        /\ pc' = [pc EXCEPT ![t] = "set"] /\ name[t] \in Names
    BY <1>2, ControlFault, ThreadBasics DEF Add, Gets, At, Goto
  <2>2. /\ Len(topicName') = Len(topicName) + 1 /\ Len(topicName) \in Nat
        /\ DOMAIN topicName' = 1 .. Len(topicName) + 1 /\ DOMAIN topicName = 1 .. Len(topicName)
        /\ \A i \in DOMAIN topicName : topicName'[i] = topicName[i]
    BY <1>0, <2>1
  <2>3. pc'[t] = "set" /\ topic'[t] = Len(topicName) + 1
    BY <1>0, <2>1, <2>2 DEF TypeOK
  <2>4. ASSUME NEW i, i = Len(topicName) + 1 PROVE Carried(i)'
    BY <2>3, <2>4 DEF Carried, Storing
  <2>5. \A i \in DOMAIN topicName : Held(i)' \/ Carried(i)'
    BY <1>1, <2>1, <2>2 DEF Storing
  <2> QED BY <2>2, <2>4, <2>5
<1>3. CASE ~ Add(t)
  <2>1. UNCHANGED topicName
    BY <1>3 DEF Control, Call, GetHead, GetNext, GetBodiless, Find, Use, Check, Ends,
                SetStart, SetWalk, SetBodiless, SetLast, shared
  <2>2. pc[t] \in Storing => pc'[t] \in Storing /\ topic'[t] = topic[t]
    BY <1>0, <1>3 DEF Control, Call, GetHead, GetNext, GetBodiless, Find, Gets, Use, Check,
          Ends, SetStart, SetWalk, SetBodiless, SetLast, At, Goto, Storing, TypeOK
  <2> QED BY <1>1, <2>1, <2>2
<1> QED BY <1>2, <1>3

LEMMA ControlGood ==
    ASSUME TypeInv, TypeInv', PhasesOK, Good, ~ Overlap, NEW t \in Threads, Control(t)
    PROVE  Good'
<1>0. UNCHANGED <<iterms, node>> /\ (Call(t) \/ Runs(t)) /\ TypeOK
  BY DEF Control, Call, GetHead, GetNext, GetBodiless, Find, Add, Use, Check, Ends,
         SetStart, SetWalk, SetBodiless, SetLast, shared, Runs, Get, Set, TypeInv
<1>1. \A u \in Threads \ {t} :
         /\ pc'[u] = pc[u] /\ phase'[u] = phase[u] /\ name'[u] = name[u]
         /\ cur'[u] = cur[u] /\ topic'[u] = topic[u] /\ mine'[u] = mine[u]
  BY <1>0, OthersSame
<1>2. pc[t] \notin {"fill", "data"}
  BY DEF Control, Call, GetHead, GetNext, GetBodiless, Find, Add, Gets, Use, Check,
         SetStart, SetWalk, SetBodiless, SetLast, At
<1>3. \A b : Kept(b)
  BY <1>0, KeptAll
<1>4. \A b \in Buckets : BucketOK(b)'
  BY <1>1, <1>2, <1>3, KeptBucket DEF Good
<1>5. ASSUME NEW u \in Threads, NEW n \in Names, pc'[u] # "idle", name'[u] = n
      PROVE  Stage(u, n)'
  <2>1. CASE u = t
    BY <1>0, <1>5, <2>1, ControlStage
  <2>2. CASE u # t
    <3>1. Stage(u, n)
      BY <1>1, <1>5, <2>2 DEF Good, StagesOK
    <3> QED BY <1>0, <1>1, <1>3, <2>2, <3>1, KeptStage
  <2> QED BY <2>1, <2>2
<1>6. fault' = "none" /\ \A i \in DOMAIN topicName' : Held(i)' \/ Carried(i)'
  BY <1>0, ControlFault, ControlTopics
<1> QED BY <1>4, <1>5, <1>6 DEF Good, StagesOK

-----------------------------------------------------------------------------
(* Steps that change a node or a bucket.                                   *)

\* It suffices to look at the bucket of t, at t, and at the topics.
LEMMA OneBucket ==
    ASSUME TypeInv, TypeInv', PhasesOK, Good, ~ Overlap, NEW t \in Threads, Set(t),
           pc[t] \in Storing \cup {"clear"}, UNCHANGED <<name, fault>>,
           NEW b, b = Bucket[name[t]],
           \A c \in Buckets \ {b} : Kept(c),
           \A u \in Threads \ {t} : pc[u] = "fill" =>
              /\ node'[mine[u]].next = node[mine[u]].next
              /\ node'[mine[u]].data = node[mine[u]].data,
           BucketOK(b)',
           \A n \in Names : n = name[t] => Stage(t, n)',
           \A i \in DOMAIN topicName' : Held(i)' \/ Carried(i)'
    PROVE  Good'
<1>0. name[t] \in Names /\ pc[t] # "idle"
  BY ThreadBasics DEF Storing
<1>1. \A u \in Threads \ {t} :
         /\ pc'[u] = pc[u] /\ phase'[u] = phase[u] /\ name'[u] = name[u]
         /\ cur'[u] = cur[u] /\ topic'[u] = topic[u] /\ mine'[u] = mine[u]
  BY OthersSame DEF Runs
<1>2. ASSUME NEW c \in Buckets \ {b} PROVE BucketOK(c)'
  <2>1. ASSUME NEW u \in Threads, pc[u] = "data", mine[u] \in Members(c) PROVE u # t
    <3>1. pc[t] = "data" => mine[t] \in Named(name[t])
      BY <1>0 DEF Good, StagesOK, Stage
    <3> QED BY <2>1, <3>1 DEF Named, Members
  <2> QED BY <1>1, <1>2, <2>1, KeptBucket DEF Good
<1>3. ASSUME NEW u \in Threads \ {t}, NEW m \in Names, pc'[u] # "idle", name'[u] = m
      PROVE  Stage(u, m)'
  <2>1. pc[u] # "idle" /\ name[u] = m /\ Stage(u, m) /\ Bucket[m] \in Buckets
    BY <1>1, <1>3, MemberBasics DEF Good, StagesOK
  <2>2. Bucket[m] # b
    BY <1>0, <2>1, Alone DEF PhasesOK
  <2> QED BY <1>1, <2>1, <2>2, KeptStage
<1>4. StagesOK'
  BY <1>3 DEF StagesOK
<1> QED BY <1>2, <1>4 DEF Good, Buckets

\* A topic stays held when no node loses its name or its data, and what a thread
\* carries it carries on.
LEMMA StaysHeld ==
    ASSUME TypeInv, Good, UNCHANGED topicName, NEW i \in DOMAIN topicName,
           Nodes \subseteq Nodes',
           \A k \in Nodes : node[k].data = i =>
              node'[k].key = node[k].key /\ node'[k].data = i,
           NEW t \in Threads, Set(t),
           pc[t] \in Storing /\ topic[t] = i => Held(i)' \/ (pc'[t] \in Storing /\ topic'[t] = i)
    PROVE  Held(i)' \/ Carried(i)'
<1>1. CASE Held(i)
  BY <1>1 DEF Held
<1>2. CASE Carried(i)
  BY <1>2, OthersSame DEF Carried, Runs
<1> QED BY <1>1, <1>2 DEF Good

LEMMA FirstGood ==
    ASSUME TypeInv, TypeInv', PhasesOK, Good, ~ Overlap, NEW t \in Threads, SetFirst(t)
    PROVE  Good'
<1> DEFINE n == Len(node) + 1
<1>0. PICK b : b = Bucket[name[t]]
  OBVIOUS
<1>1. /\ node'[n].key = NoName /\ node'[n].next = NULL /\ node'[n].data = NULL
      /\ \A i \in Nodes : node'[i] = node[i]
      /\ Len(node') = n /\ Nodes' = Nodes \cup {n} /\ n \in Nat
  <2> DEFINE r == [key |-> NoName, state |-> "blank", data |-> NULL, next |-> NULL]
  <2>1. Added(node, node', NULL, r)
    BY NewNodes
  <2>2. r.key = NoName /\ r.next = NULL /\ r.data = NULL
    OBVIOUS
  <2> HIDE DEF r
  <2>3. Len(node) \in Nat /\ \A i \in Nodes : i # NULL
    BY NodeBasics, MemberBasics
  <2>4. Len(node') = n /\ Nodes' = Nodes \cup {n} /\ n \in Nat
    BY <2>1, <2>3 DEF Added, Nodes
  <2> QED BY <2>1, <2>2, <2>3, <2>4 DEF Added, Nodes
<1>2. /\ pc[t] = "first" /\ pc' = [pc EXCEPT ![t] = "fill"]
      /\ iterms' = [iterms EXCEPT ![b] = n] /\ mine' = [mine EXCEPT ![t] = n]
      /\ UNCHANGED <<name, cur, topic, topicName, phase, fault>>
  BY <1>0, <1>1 DEF SetFirst, At, Goto, job, index
<1> HIDE DEF n
<1>3. /\ name[t] \in Names /\ b \in Buckets /\ Stage(t, name[t]) /\ phase[t] = "add"
      /\ pc'[t] = "fill" /\ mine'[t] = n
      /\ \A c \in Buckets : iterms'[c] = IF c = b THEN n ELSE iterms[c]
  BY <1>0, <1>2, ThreadBasics, MemberBasics
     DEF Good, StagesOK, TypeInv, TypeOK, PhasesOK, Storing
<1>4. \A c : Members(c)' = Members(c)
  BY <1>1, ConstantsOK DEF Members
<1>5. \A m \in Names : Named(m)' = Named(m)
  BY <1>1, ConstantsOK DEF Named
<1>6. \A c \in Buckets \ {b} : Kept(c)
  BY <1>1, <1>3, <1>4 DEF Kept, Members
<1>7. Members(b) = {} /\ Named(name[t]) = {}
  BY <1>0, <1>2, <1>3 DEF Stage
<1>8. BucketOK(b)'
  <2>1. Members(b)' = {}
    BY <1>4, <1>7
  <2>2. \E u \in Threads : pc'[u] = "fill" /\ Bucket[name'[u]] = b
    BY <1>0, <1>2, <1>3
  <2> QED BY <2>1, <2>2 DEF BucketOK, Chained
<1>9. ASSUME NEW m \in Names, m = name[t] PROVE Stage(t, m)'
  <2>1. Members(Bucket[m])' = {} /\ Named(m)' = {} /\ iterms'[Bucket[m]] = n
    BY <1>0, <1>3, <1>4, <1>5, <1>7, <1>9
  <2> QED BY <1>1, <1>2, <1>3, <2>1 DEF Stage
<1>10. \A i \in DOMAIN topicName' : Held(i)' \/ Carried(i)'
  BY <1>1, <1>2, <1>3, StaysHeld DEF Set, Storing
<1>11. \A u \in Threads \ {t} : pc[u] = "fill" => node'[mine[u]] = node[mine[u]]
  BY <1>1, ThreadBasics
<1> QED BY <1>0, <1>2, <1>6, <1>8, <1>9, <1>10, <1>11, OneBucket DEF Set, Storing

\* The key: its length, which changes nothing yet, and then the whole node.
LEMMA KeyGood ==
    ASSUME TypeInv, TypeInv', OwnInv, PhasesOK, Good, ~ Overlap, NEW t \in Threads,
           SetKey(t)
    PROVE  Good'
<1>0. PICK i, b : i = mine[t] /\ b = Bucket[name[t]]
  OBVIOUS
<1> DEFINE q == [node[i] EXCEPT !.state = "sized"]
           r == [node[i] EXCEPT !.state = "full", !.key = name[t]]
<1>1. /\ i \in Nodes
      /\ \/ Changed(node, node', i, q) /\ UNCHANGED pc
         \/ Changed(node, node', i, r) /\ Goto(t, "data")
  BY <1>0, KeyChange DEF Nodes
<1>2. node[i] \in Rec
  BY <1>1, NodeBasics
<1>3. /\ q.key = node[i].key /\ q.next = node[i].next /\ q.data = node[i].data
      /\ r.key = name[t] /\ r.next = node[i].next /\ r.data = node[i].data
      /\ r.state = "full"
  BY <1>2 DEF Rec
<1> HIDE DEF q, r
<1>4. /\ pc[t] = "fill"
      /\ UNCHANGED <<iterms, name, cur, mine, topic, topicName, phase, fault>>
  BY DEF SetKey, At, job
<1>5. /\ name[t] \in Names /\ b \in Buckets /\ Stage(t, name[t]) /\ phase[t] = "add"
      /\ node[i].key = NoName
  BY <1>0, <1>4, ThreadBasics, MemberBasics
     DEF Good, StagesOK, TypeInv, TypeOK, PhasesOK, Storing, OwnInv
<1>6. /\ Nodes' = Nodes /\ \A j \in Nodes \ {i} : node'[j] = node[j]
      /\ node'[i].next = node[i].next /\ node'[i].data = node[i].data
      /\ node'[i].next = NULL /\ node'[i].data = NULL
  BY <1>0, <1>1, <1>3, <1>4, <1>5, ChangedNode DEF Nodes, Stage
<1>7. \A u \in Threads \ {t} : pc[u] = "fill" => node'[mine[u]] = node[mine[u]]
  BY <1>0, <1>4, <1>6, ThreadBasics DEF OwnInv
<1>8. Members(b) = {} /\ iterms[b] = i /\ Named(name[t]) = {}
  BY <1>0, <1>4, <1>5 DEF Stage
<1>9. CASE Changed(node, node', i, q) /\ UNCHANGED pc
  <2>1. node'[i].key = NoName
    BY <1>0, <1>1, <1>3, <1>5, <1>9, ChangedNode
  <2>2. \A c : Members(c)' = Members(c)
    BY <1>0, <1>5, <1>6, <2>1, ConstantsOK DEF Members
  <2>3. \A m \in Names : Named(m)' = Named(m)
    BY <1>0, <1>5, <1>6, <2>1, ConstantsOK DEF Named
  <2>4. i \notin UNION {Members(c) : c \in Buckets}
    BY <1>0, <1>5, ConstantsOK DEF Members
  <2>5. \A c \in Buckets : Kept(c)
    BY <1>0, <1>4, <1>6, <2>2, <2>4 DEF Kept, Members
  <2>6. BucketOK(b)'
    BY <1>0, <1>4, <1>5, <1>9, <2>5, KeptBucket DEF Good
  <2>7. ASSUME NEW m \in Names, m = name[t] PROVE Stage(t, m)'
    BY <1>0, <1>4, <1>5, <1>6, <1>9, <2>2, <2>3, <2>7 DEF Stage
  <2>8. \A k \in DOMAIN topicName' : Held(k)' \/ Carried(k)'
    BY <1>0, <1>4, <1>6, <1>9, <2>1, <1>5, StaysHeld DEF Set
  <2> QED BY <1>0, <1>4, <1>7, <2>5, <2>6, <2>7, <2>8, OneBucket DEF Set, Storing
<1>10. CASE Changed(node, node', i, r) /\ Goto(t, "data")
  <2>1. node'[i].key = name[t] /\ node'[i].state = "full" /\ pc'[t] = "data"
    BY <1>0, <1>1, <1>3, <1>5, <1>10, ChangedNode DEF Goto, TypeInv, TypeOK
  <2>2. Members(b)' = {i}
    BY <1>0, <1>1, <1>5, <1>6, <1>8, <2>1 DEF Members
  <2>3. \A c \in Buckets \ {b} : Members(c)' = Members(c)
    BY <1>0, <1>5, <1>6, <2>1, ConstantsOK DEF Members
  <2>4. \A c \in Buckets \ {b} : Kept(c)
    <3>1. i \notin UNION {Members(c) : c \in Buckets}
      BY <1>0, <1>5, ConstantsOK DEF Members
    <3> QED BY <1>0, <1>4, <1>6, <2>3, <3>1 DEF Kept, Members
  <2>5. \A m \in Names : m = name[t] => Named(m)' = {i}
    BY <1>0, <1>1, <1>6, <1>8, <2>1 DEF Named
  <2>6. BucketOK(b)'
    <3>1. Chained(b)'
      BY <1>0, <1>1, <1>6, <2>1, <2>2, MemberBasics DEF Chained
    <3>2. Headed(b)'
      BY <1>0, <1>1, <1>4, <1>8, <2>2, MemberBasics DEF Headed
    <3>3. \A j \in Members(b)' : \E u \in Threads : pc'[u] = "data" /\ mine'[u] = j
      BY <1>0, <1>4, <2>1, <2>2
    <3> QED BY <1>0, <3>1, <3>2, <3>3 DEF BucketOK
  <2>7. ASSUME NEW m \in Names, m = name[t] PROVE Stage(t, m)'
    <3>1. phase'[t] = "add" /\ mine'[t] \in Named(m)' /\ mine'[t] = i
      BY <1>0, <1>4, <1>5, <2>5, <2>7
    <3> QED BY <1>0, <1>6, <2>1, <3>1 DEF Stage
  <2>8. ASSUME NEW k \in DOMAIN topicName PROVE Held(k)' \/ Carried(k)'
    <3>1. k # NULL
      BY <1>0, <2>8 DEF NULL, TypeInv, TypeOK
    <3>2. \A j \in Nodes : node[j].data = k => node'[j] = node[j]
      BY <1>0, <1>4, <1>5, <1>6, <3>1 DEF Stage
    <3> QED BY <1>0, <1>4, <1>6, <2>1, <3>2, StaysHeld DEF Set, Storing
  <2> QED BY <1>0, <1>4, <1>7, <2>4, <2>6, <2>7, <2>8, OneBucket DEF Set, Storing
<1> QED BY <1>0, <1>1, <1>9, <1>10

LEMMA DataGood ==
    ASSUME TypeInv, TypeInv', OwnInv, PhasesOK, Good, ~ Overlap, NEW t \in Threads,
           SetData(t)
    PROVE  Good'
<1>0. PICK i, b : i = mine[t] /\ b = Bucket[name[t]]
  OBVIOUS
<1>1. /\ i \in Nodes /\ Nodes' = Nodes /\ \A j \in Nodes \ {i} : node'[j] = node[j]
      /\ node'[i].key = node[i].key /\ node'[i].state = node[i].state
      /\ node'[i].next = node[i].next /\ node'[i].data = topic[t]
  <2> DEFINE r == [node[i] EXCEPT !.data = topic[t]]
  <2>1. i \in Nodes /\ Changed(node, node', i, r)
    BY <1>0, FieldChanges DEF Nodes
  <2>2. node[i] \in Rec
    BY <2>1, NodeBasics
  <2>3. /\ r.key = node[i].key /\ r.state = node[i].state /\ r.next = node[i].next
        /\ r.data = topic[t]
    BY <2>2 DEF Rec
  <2> HIDE DEF r
  <2> QED BY <2>1, <2>3, ChangedNode DEF Nodes
<1>2. /\ pc[t] = "data" /\ pc'[t] = "use"
      /\ UNCHANGED <<iterms, name, cur, mine, topic, topicName, phase, fault>>
  BY DEF SetData, At, Goto, job, TypeInv, TypeOK
<1>3. /\ name[t] \in Names /\ b \in Buckets /\ Stage(t, name[t]) /\ BucketOK(b)
      /\ topic[t] # NULL
  BY <1>0, <1>2, ThreadBasics, MemberBasics DEF Good, StagesOK, TypeInv, TypeOK
<1>4. /\ i \in Named(name[t]) /\ i \in Members(b) /\ node[i].data = NULL
      /\ topicName[topic[t]] = node[i].key
  BY <1>0, <1>2, <1>3, MemberBasics DEF Stage, OwnInv, OwnTopic, Named
<1>5. /\ \A c : Members(c)' = Members(c)
      /\ \A m : Named(m)' = Named(m)
  BY <1>1 DEF Members, Named
<1>6. \A c \in Buckets \ {b} : Kept(c)
  <2>1. \A c \in Buckets \ {b} : i \notin Members(c)
    BY <1>4 DEF Members
  <2> QED BY <1>1, <1>2, <1>5, <2>1 DEF Kept, Members
<1>7. BucketOK(b)'
  <2>1. \A j \in Members(b) : /\ node'[j].key = node[j].key
                              /\ node'[j].state = node[j].state
                              /\ node'[j].next = node[j].next
    BY <1>1 DEF Members
  <2>2. Chained(b)'
    BY <1>3, <1>5, <2>1 DEF BucketOK, Chained
  <2>3. Headed(b)'
    <3>1. Headed(b)
      BY <1>0, <1>2, HeadedHere
    <3> QED BY <1>2, <1>5, <2>1, <3>1 DEF Headed
  <2>4. ASSUME NEW j \in Members(b)
        PROVE  node'[j].data # NULL \/ \E u \in Threads : pc'[u] = "data" /\ mine'[u] = j
    <3>1. CASE j = i
      BY <1>1, <1>3, <3>1
    <3>2. CASE j # i
      <4>1. node'[j] = node[j]
        BY <1>1, <3>2 DEF Members
      <4>2. ASSUME NEW u \in Threads, pc[u] = "data", mine[u] = j
            PROVE  pc'[u] = "data" /\ mine'[u] = j
        BY <1>0, <3>2, <4>2, OthersSame DEF Runs, Set
      <4> QED BY <1>3, <4>1, <4>2 DEF BucketOK
    <3> QED BY <3>1, <3>2
  <2> QED BY <1>5, <2>2, <2>3, <2>4 DEF BucketOK
<1>8. ASSUME NEW m \in Names, m = name[t] PROVE Stage(t, m)'
  <2>1. Named(m)' # {}
    BY <1>4, <1>5, <1>8
  <2> QED BY <1>2, <2>1 DEF Stage
<1>9. ASSUME NEW k \in DOMAIN topicName PROVE Held(k)' \/ Carried(k)'
  <2>1. k # NULL
    BY <1>9 DEF NULL, TypeInv, TypeOK
  <2>2. \A j \in Nodes : node[j].data = k => node'[j] = node[j]
    BY <1>1, <1>4, <2>1
  <2>3. topic[t] = k => Held(k)'
    BY <1>1, <1>2, <1>4 DEF Held
  <2> QED BY <1>1, <1>2, <2>2, <2>3, StaysHeld DEF Set
<1>10. \A u \in Threads \ {t} : pc[u] = "fill" => node'[mine[u]] = node[mine[u]]
  BY <1>1, <1>3, <1>4, ThreadBasics, ConstantsOK DEF OwnInv, Named
<1> QED BY <1>0, <1>2, <1>6, <1>7, <1>8, <1>9, <1>10, OneBucket DEF Set, Storing

\* A topic that is added has no node yet.
LEMMA NoReplace ==
    ASSUME TypeInv, PhasesOK, Good, NEW t \in Threads PROVE ~ SetReplace(t)
<1> SUFFICES ASSUME SetReplace(t) PROVE FALSE
  OBVIOUS
<1>1. /\ pc[t] = "walk" /\ node[cur[t]].key = name[t] /\ phase[t] = "add"
      /\ name[t] \in Names
  BY ThreadBasics DEF SetReplace, At, Matches, PhasesOK, Storing
<1>2. Stage(t, name[t])
  BY <1>1 DEF Good, StagesOK
<1>3. cur[t] \in Named(name[t])
  BY <1>1, <1>2, MemberBasics DEF Stage
<1> QED BY <1>1, <1>2, <1>3 DEF Stage

LEMMA AppendGood ==
    ASSUME TypeInv, TypeInv', OwnInv, PhasesOK, Good, ~ Overlap, NEW t \in Threads,
           SetAppend(t)
    PROVE  Good'
<1>0. PICK n, i, b, w : n = Len(node) + 1 /\ i = cur[t] /\ b = Bucket[name[t]] /\ w = name[t]
  OBVIOUS
<1>1. /\ pc[t] = "append" /\ pc'[t] = "clear" /\ mine'[t] = n
      /\ UNCHANGED <<iterms, name, cur, topic, topicName, phase, fault>>
  <2>1. Len(node') = n
    BY <1>0, NewNodes DEF Added
  <2> QED BY <1>0, <2>1 DEF SetAppend, At, Goto, job, TypeInv, TypeOK
<1>2. /\ w \in Names /\ b \in Buckets /\ Stage(t, w) /\ BucketOK(b)
      /\ topic[t] # NULL /\ phase[t] = "add"
  BY <1>0, <1>1, ThreadBasics, MemberBasics
     DEF Good, StagesOK, TypeInv, TypeOK, PhasesOK, Storing
<1>3. /\ i \in Members(b) /\ i \in Nodes /\ node[i].key \in Names /\ Named(w) = {}
      /\ \A j \in Members(b) : j <= i
  BY <1>0, <1>1, <1>2, MemberBasics DEF Stage
<1>4. /\ Nodes' = Nodes \cup {n} /\ n \in Nat /\ \A j \in Nodes : j < n
      /\ \A j \in Nodes \ {i} : node'[j] = node[j]
      /\ node'[i].key = node[i].key /\ node'[i].state = node[i].state
      /\ node'[i].data = node[i].data /\ node'[i].next = n
      /\ node'[n].key = w /\ node'[n].state = "full"
      /\ node'[n].data = topic[t] /\ node'[n].next = NULL
  <2> DEFINE r == [key |-> w, state |-> "full", data |-> topic[t], next |-> NULL]
             x == [node[i] EXCEPT !.next = n]
  <2>1. Added(node, node', i, r)
    BY <1>0, NewNodes
  <2>2. /\ r.key = w /\ r.state = "full" /\ r.data = topic[t] /\ r.next = NULL
    OBVIOUS
  <2>3. node[i] \in Rec /\ Len(node) \in Nat
    BY <1>3, NodeBasics
  <2>4. x.key = node[i].key /\ x.state = node[i].state /\ x.data = node[i].data /\ x.next = n
    BY <2>3 DEF Rec
  <2>5. node'[n] = r /\ node'[i] = x /\ \A j \in Nodes \ {i} : node'[j] = node[j]
    BY <1>0, <1>3, <2>1 DEF Added, Nodes
  <2>6. Nodes' = Nodes \cup {n} /\ n \in Nat /\ \A j \in Nodes : j < n
    BY <1>0, <2>1, <2>3 DEF Added, Nodes
  <2> HIDE DEF r, x
  <2> QED BY <2>2, <2>4, <2>5, <2>6
<1>5. /\ Members(b)' = Members(b) \cup {n} /\ n \notin Members(b)
      /\ \A c \in Buckets \ {b} : Members(c)' = Members(c) /\ n \notin Members(c) /\ i \notin Members(c)
  <2>1. n \notin Nodes /\ Bucket[w] = b /\ Bucket[node[i].key] = b
    BY <1>0, <1>3, <1>4 DEF Members
  <2> QED BY <1>2, <1>3, <1>4, <2>1 DEF Members
<1>6. \A c \in Buckets \ {b} : Kept(c)
  BY <1>1, <1>4, <1>5 DEF Kept, Members
<1>7. n \in Named(w)' /\ n # NULL
  BY <1>4 DEF Named, Nodes, NULL
<1>8. node[i].next = NULL
  BY <1>2, <1>3, MemberBasics DEF BucketOK, Chained
<1>9. BucketOK(b)'
  <2>1. \A j \in Members(b) : /\ j \in Nodes /\ j < n /\ j \in Nat /\ node[j].key # w
                              /\ node'[j].key = node[j].key
                              /\ node'[j].state = node[j].state
                              /\ node'[j].data = node[j].data
                              /\ node'[j].next = IF j = i THEN n ELSE node[j].next
    BY <1>3, <1>4, MemberBasics DEF Members, Named
  <2>2. Chained(b)'
    <3>1. ASSUME NEW j \in Members(b)'
          PROVE  /\ node'[j].state = "full"
                 /\ node'[j].next # NULL => node'[j].next \in Members(b)' /\ node'[j].next > j
      BY <1>2, <1>4, <1>5, <2>1 DEF BucketOK, Chained
    <3>2. ASSUME NEW j \in Members(b)', NEW k \in Members(b)', j < k
          PROVE  node'[j].next # NULL /\ node'[j].next <= k
      <4>1. j \in Members(b)
        BY <1>4, <1>5, <2>1, <3>2
      <4>2. CASE j = i
        <5>1. k = n
          BY <1>3, <1>5, <2>1, <3>2, <4>2
        <5> QED BY <1>4, <1>7, <4>2, <5>1
      <4>3. CASE j # i
        <5>1. j < i /\ node[j].next # NULL /\ node[j].next <= i
          BY <1>2, <1>3, <2>1, <4>1, <4>3 DEF BucketOK, Chained
        <5>2. CASE k \in Members(b)
          BY <1>2, <2>1, <3>2, <4>1, <4>3, <5>2 DEF BucketOK, Chained
        <5>3. CASE k = n
          <6>1. node[j].next \in Members(b)
            BY <1>2, <4>1, <5>1 DEF BucketOK, Chained
          <6> QED BY <1>4, <2>1, <4>1, <4>3, <5>1, <5>3, <6>1
        <5> QED BY <1>5, <5>2, <5>3
      <4> QED BY <4>2, <4>3
    <3>3. ASSUME NEW j \in Members(b)', NEW k \in Members(b)', node'[j].key = node'[k].key
          PROVE  j = k
      BY <1>2, <1>4, <1>5, <2>1, <3>3 DEF BucketOK, Chained
    <3> QED BY <3>1, <3>2, <3>3 DEF Chained
  <2>3. Headed(b)'
    <3>1. Headed(b) /\ iterms'[b] = iterms[b] /\ iterms[b] \in Members(b)
      BY <1>0, <1>1, <1>3, HeadedHere DEF Headed
    <3>2. ASSUME NEW j \in Members(b)
          PROVE  iterms'[b] <= j /\ (iterms'[b] # j => \E k \in Members(b)' : node'[k].next = j)
      <4>1. iterms[b] <= j /\ (iterms[b] # j => \E k \in Members(b) : node[k].next = j)
        BY <3>1 DEF Headed
      <4>2. \A k \in Members(b) : node[k].next = j => node'[k].next = j
        BY <1>8, <2>1, MemberBasics
      <4> QED BY <1>5, <3>1, <4>1, <4>2
    <3>3. iterms'[b] <= n /\ node'[i].next = n /\ i \in Members(b)'
      BY <1>3, <1>4, <1>5, <2>1, <3>1
    <3> QED BY <1>5, <3>1, <3>2, <3>3 DEF Headed
  <2>4. ASSUME NEW j \in Members(b)'
        PROVE  node'[j].data # NULL \/ \E u \in Threads : pc'[u] = "data" /\ mine'[u] = j
    <3>1. CASE j = n
      BY <1>2, <1>4, <3>1
    <3>2. CASE j \in Members(b)
      <4>1. \A u \in Threads : pc[u] = "data" => pc'[u] = "data" /\ mine'[u] = mine[u]
        BY <1>1, OthersSame DEF Runs, Set
      <4> QED BY <1>2, <2>1, <3>2, <4>1 DEF BucketOK
    <3> QED BY <1>5, <3>1, <3>2
  <2> QED BY <2>2, <2>3, <2>4 DEF BucketOK
<1>10. ASSUME NEW m \in Names, m = name[t] PROVE Stage(t, m)'
  <2>1. mine'[t] \in Named(m)' /\ node'[mine'[t]].next = NULL
    BY <1>0, <1>1, <1>4, <1>7, <1>10
  <2> QED BY <1>1, <1>2, <2>1 DEF Stage
<1>11. ASSUME NEW k \in DOMAIN topicName PROVE Held(k)' \/ Carried(k)'
  <2>1. topic[t] = k => Held(k)'
    <3>1. topic[t] = k => topicName[k] = w
      BY <1>0, <1>2 DEF OwnInv, OwnTopic
    <3> QED BY <1>1, <1>4, <3>1 DEF Held
  <2> QED BY <1>1, <1>4, <2>1, StaysHeld DEF Set
<1>12. \A u \in Threads \ {t} : pc[u] = "fill" => node'[mine[u]] = node[mine[u]]
  BY <1>3, <1>4, ThreadBasics, ConstantsOK DEF OwnInv
<1> QED BY <1>0, <1>1, <1>6, <1>9, <1>10, <1>11, <1>12, OneBucket DEF Set, Storing

LEMMA ClearGood ==
    ASSUME TypeInv, TypeInv', OwnInv, PhasesOK, Good, ~ Overlap, NEW t \in Threads,
           SetClear(t)
    PROVE  Good'
<1>0. PICK i, b : i = mine[t] /\ b = Bucket[name[t]]
  OBVIOUS
<1>1. /\ pc[t] = "clear" /\ pc'[t] = "use"
      /\ UNCHANGED <<iterms, name, cur, mine, topic, topicName, phase, fault>>
  BY DEF SetClear, At, Goto, job, TypeInv, TypeOK
<1>2. /\ name[t] \in Names /\ b \in Buckets /\ Stage(t, name[t]) /\ BucketOK(b)
  BY <1>0, <1>1, ThreadBasics, MemberBasics DEF Good, StagesOK
<1>3. /\ i \in Named(name[t]) /\ node[i].next = NULL
  BY <1>0, <1>1, <1>2 DEF Stage
<1>4. /\ Nodes' = Nodes /\ \A j \in Nodes : /\ node'[j].key = node[j].key
                                            /\ node'[j].state = node[j].state
                                            /\ node'[j].data = node[j].data
                                            /\ node'[j].next = node[j].next
  <2> DEFINE r == [node[i] EXCEPT !.next = NULL]
  <2>1. i \in Nodes /\ Changed(node, node', i, r)
    BY <1>0, FieldChanges DEF Nodes
  <2>2. node[i] \in Rec
    BY <2>1, NodeBasics
  <2>3. /\ r.key = node[i].key /\ r.state = node[i].state /\ r.data = node[i].data
        /\ r.next = NULL
    BY <2>2 DEF Rec
  <2> HIDE DEF r
  <2> QED BY <1>3, <2>1, <2>3, ChangedNode DEF Nodes
<1>5. /\ \A c : Members(c)' = Members(c)
      /\ \A m : Named(m)' = Named(m)
  BY <1>4 DEF Members, Named
<1>6. \A c : Kept(c)
  BY <1>1, <1>4, <1>5 DEF Kept, Members
<1>7. \A u \in Threads \ {t} : pc'[u] = pc[u] /\ mine'[u] = mine[u] /\ name'[u] = name[u]
  BY OthersSame DEF Runs, Set
<1>8. BucketOK(b)'
  BY <1>1, <1>2, <1>6, <1>7, KeptBucket
<1>9. ASSUME NEW m \in Names, m = name[t] PROVE Stage(t, m)'
  <2>1. Named(m)' # {}
    BY <1>3, <1>5, <1>9
  <2> QED BY <1>1, <1>2, <2>1 DEF Stage, PhasesOK
<1>10. \A k \in DOMAIN topicName' : Held(k)' \/ Carried(k)'
  BY <1>1, <1>4, StaysHeld DEF Set, Storing
<1>11. \A u \in Threads \ {t} : pc[u] = "fill" =>
          node'[mine[u]].next = node[mine[u]].next /\ node'[mine[u]].data = node[mine[u]].data
  BY <1>4, ThreadBasics
<1> QED BY <1>0, <1>1, <1>6, <1>8, <1>9, <1>10, <1>11, OneBucket DEF Set, Storing

-----------------------------------------------------------------------------
(* The table as a map.                                                     *)

LEMMA MapInit == Init => MapInv
<1> SUFFICES ASSUME Init PROVE PhasesOK /\ ~ Overlap /\ Good
  BY DEF MapInv
<1>1. /\ Nodes = {} /\ DOMAIN topicName = {} /\ fault = "none"
      /\ \A t \in Threads : pc[t] = "idle" /\ phase[t] = "find"
      /\ \A b \in Buckets : iterms[b] = NULL
  BY DEF Init, Nodes
<1>2. \A b \in Buckets : Members(b) = {} /\ BucketOK(b)
  BY <1>1 DEF Members, BucketOK, Chained, Headed
<1> QED BY <1>1, <1>2 DEF PhasesOK, Storing, Overlap, Adds, Busy, Good, StagesOK

LEMMA MapStep ==
    ASSUME TypeInv, TypeInv', OwnInv, MapInv, [Next]_vars PROVE MapInv'
<1>1. CASE UNCHANGED vars
  <2>1. /\ UNCHANGED <<iterms, node, topicName, name, pc, phase>>
        /\ UNCHANGED <<cur, topic, mine, fault, overlap>>
    BY <1>1 DEF vars, shared, job
  <2>2. /\ Nodes' = Nodes /\ (Overlap' <=> Overlap) /\ (PhasesOK' <=> PhasesOK)
        /\ \A b : Members(b)' = Members(b)
        /\ \A n : Named(n)' = Named(n)
    BY <2>1 DEF Nodes, Overlap, Adds, Busy, index, PhasesOK, Members, Named
  <2>3. \A b : BucketOK(b)' <=> BucketOK(b)
    BY <2>1, <2>2 DEF BucketOK, Chained, Headed
  <2>4. \A t \in Threads : \A n \in Names : Stage(t, n)' <=> Stage(t, n)
    BY <2>1, <2>2 DEF Stage
  <2>5. \A i : (Held(i)' <=> Held(i)) /\ (Carried(i)' <=> Carried(i))
    BY <2>1, <2>2 DEF Held, Carried
  <2>6. StagesOK' <=> StagesOK
    BY <2>1, <2>4 DEF StagesOK
  <2>7. Buckets' = Buckets
    BY DEF Buckets
  <2> QED BY <2>1, <2>2, <2>3, <2>5, <2>6, <2>7 DEF MapInv, Good
<1>2. CASE Next
  <2>1. PICK t \in Threads : (Call(t) \/ Runs(t)) /\ overlap' = (overlap \/ Overlap')
    BY <1>2 DEF Next, Step
  <2>2. PhasesOK'
    BY <2>1, PhasesStep DEF MapInv
  <2>3. Overlap' => overlap'
    BY <2>1
  <2>4. ASSUME ~ overlap' PROVE Good'
    <3>1. ~ overlap /\ ~ Overlap /\ PhasesOK /\ Good
      BY <2>1, <2>4 DEF MapInv
    <3>2. CASE Control(t)
      BY <3>1, <3>2, ControlGood
    <3>3. CASE ~ Control(t)
      <4>1. \/ SetFirst(t) \/ SetKey(t) \/ SetData(t) \/ SetReplace(t)
            \/ SetAppend(t) \/ SetClear(t)
        BY <2>1, <3>3 DEF Control, Runs, Get, Set
      <4> QED BY <3>1, <4>1, FirstGood, KeyGood, DataGood, NoReplace, AppendGood, ClearGood
    <3> QED BY <3>2, <3>3
  <2> QED BY <2>2, <2>3, <2>4 DEF MapInv
<1> QED BY <1>1, <1>2

LEMMA Smallest ==
    ASSUME NEW T \in SUBSET Nat, T # {}
    PROVE  \E x \in T : \A y \in T : x <= y
<1>1. PICK x \in T : \A y \in T : <<y, x>> \notin OpToRel(<, Nat)
  BY NatLessThanWellFounded, WFMin, Zenon
<1>2. \A y \in T : ~ (y < x)
  BY <1>1 DEF OpToRel
<1> QED BY <1>2

\* A lookup that follows the links from the bucket comes to every node.
LEMMA ChainCovers ==
    ASSUME TypeInv, Good, NEW b \in Buckets, NEW j \in Members(b)
    PROVE  j \in Chain(iterms[b])
<1>1. BucketOK(b) /\ DOMAIN node = Nodes
  BY DEF Good, TypeInv, Nodes
<1>2. Headed(b)
  <2>1. ASSUME NEW t \in Threads, pc[t] = "fill", Bucket[name[t]] = b PROVE FALSE
    <3>1. Stage(t, name[t])
      BY <2>1, ThreadBasics DEF Good, StagesOK
    <3> QED BY <2>1, <3>1 DEF Stage
  <2> QED BY <1>1, <2>1 DEF BucketOK
<1> SUFFICES ASSUME NEW S \in SUBSET Nodes, iterms[b] \in S, j \notin S,
                    \A k \in S : node[k].next \in S \cup {NULL}
             PROVE  FALSE
  BY <1>1, MemberBasics DEF Chain
<1> DEFINE T == Members(b) \ S
<1>3. T \in SUBSET Nat /\ T # {}
  BY MemberBasics
<1>4. PICK x \in T : \A y \in T : x <= y
  BY <1>3, Smallest
<1>5. PICK i \in Members(b) : node[i].next = x
  BY <1>2, <1>4 DEF Headed
<1>6. i < x /\ i \in Nat /\ x \in Nat /\ x # NULL
  BY <1>1, <1>4, <1>5, MemberBasics DEF BucketOK, Chained
<1>7. i \in S
  BY <1>4, <1>5, <1>6
<1> QED BY <1>4, <1>5, <1>6, <1>7

\* The table is a map, for any number of threads, names and packets and any hash
\* function: it keeps exactly one topic for each name that was ever added, and
\* fails nobody, unless two calls on a bucket have overlapped, one of them
\* adding.
THEOREM MapHolds == Spec => []MapUnlessOverlap
<1>1. ASSUME TypeInv, OwnInv, MapInv PROVE MapUnlessOverlap
  <2> SUFFICES ASSUME ~ overlap
               PROVE  /\ fault = "none"
                      /\ \A i \in DOMAIN topicName :
                            BeingAdded(topicName[i]) \/ Stored(topicName[i]) = {i}
    BY DEF MapUnlessOverlap
  <2>1. Good /\ PhasesOK
    BY <1>1 DEF MapInv
  <2>2. ASSUME NEW i \in DOMAIN topicName, ~ BeingAdded(topicName[i])
        PROVE  Stored(topicName[i]) = {i}
    <3>0. PICK n \in Names : n = topicName[i]
      BY <1>1 DEF TypeInv, TypeOK
    <3>1. i # NULL
      BY <1>1 DEF NULL, TypeInv, TypeOK
    <3>2. ~ Carried(i)
      <4>1. ASSUME NEW t \in Threads, pc[t] \in Storing, topic[t] = i PROVE FALSE
        <5>1. name[t] = n /\ phase[t] = "add" /\ pc[t] # "idle"
          BY <1>1, <2>1, <3>0, <3>1, <4>1 DEF OwnInv, OwnTopic, PhasesOK, Storing
        <5> QED BY <2>2, <3>0, <5>1 DEF BeingAdded, Adds, Busy
      <4> QED BY <4>1 DEF Carried
    <3>3. PICK k \in Nodes : node[k].key = n /\ node[k].data = i
      BY <2>1, <3>0, <3>2 DEF Good, Held
    <3>4. PICK b \in Buckets : b = Bucket[n]
      BY MemberBasics, <1>1
    <3>5. k \in Members(b) /\ k \in Chain(iterms[b])
      BY <1>1, <2>1, <3>3, <3>4, ChainCovers DEF Members
    <3>6. ASSUME NEW j \in Chain(iterms[b]), node[j].key = n PROVE j = k
      <4>1. j \in Members(b)
        BY <1>1, <3>4, <3>6 DEF Chain, Members, Nodes, TypeInv
      <4> QED BY <2>1, <3>3, <3>5, <3>6, <4>1 DEF Good, BucketOK, Chained
    <3>7. {j \in Chain(iterms[b]) : node[j].key = n} = {k}
      BY <3>3, <3>5, <3>6
    <3> QED BY <3>0, <3>1, <3>3, <3>4, <3>7 DEF Stored
  <2> QED BY <2>1, <2>2 DEF Good
<1> QED BY <1>1, InitTyped, StepTyped, InitOwn, StepOwn, MapInit, MapStep, PTL DEF Spec
=============================================================================

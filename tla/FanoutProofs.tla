---------------------------- MODULE FanoutProofs ----------------------------
(***************************************************************************)
(* Proofs about Fanout, for any numbers of threads, clients and packets:   *)
(* types, links that lead forward within their list, what a queue on which *)
(* no two threads have met gives its client, and whom a PUBLISH reaches.   *)
(***************************************************************************)
EXTENDS Fanout, SequenceTheorems, TLAPS

Rec == [list : Lists, val : Clients \cup Nat, next : Nat]

Nodes == 1 .. Len(node)

\* The nodes of each list, and NULL.
Of == [l \in Lists |-> {0} \cup {i \in Nodes : node[i].list = l}]

Appending == {"test", "first", "reread", "head", "link", "tail"}

Draining == {"drain", "send", "rereset", "reset"}

Labels == {"idle", "next"} \cup Buffering \cup Appending \cup Draining

\* Where a thread stands agrees with its packet, and what it goes by is of the
\* list it works on: pc, op, list, val, new, at and cur of the thread, the nodes
\* of each list, and the number of messages.
ThreadOK(p, o, l, v, n, a, c, of, pub) ==
    /\ p \in Buffering \cup {"next"} => o = "publish"
    /\ o = "none" => p = "idle"
    /\ o = "publish" /\ p # "idle" => v \in 1 .. pub
    /\ o = "publish" /\ p \notin Buffering \cup {"idle"} =>
          l \in Clients /\ a \in of[Topic] /\ a # 0
    /\ o = "subscribe" /\ p # "idle" => l = Topic /\ v \in Clients /\ p \in Appending
    /\ o = "connect" /\ p # "idle" => l \in Clients /\ p \in Draining
    /\ p \in {"reread", "head", "tail"} => n \in of[l]
    /\ p \in {"send", "rereset", "reset"} => c \in of[l]

ThreadsOK == \A t \in Threads :
    ThreadOK(pc[t], op[t], list[t], val[t], new[t], at[t], cur[t], Of, published)

\* Every link and every end of a list is of the list, and what a node holds is
\* what its list is for.
NodesOK ==
    /\ node \in Seq(Rec)
    /\ \A i \in Nodes :
          /\ node[i].next \in Of[node[i].list]
          /\ node[i].next # 0 => node[i].next > i
          /\ node[i].list = Topic => node[i].val \in Clients
          /\ node[i].list # Topic => node[i].val \in 1 .. published

ListsOK ==
    /\ head \in [Lists -> Nat] /\ tail \in [Lists -> Nat]
    /\ \A l \in Lists : head[l] \in Of[l] /\ tail[l] \in Of[l]

LocalsOK ==
    /\ op \in [Threads -> {"none", "subscribe", "connect", "publish"}]
    /\ pc \in [Threads -> Labels]
    /\ list \in [Threads -> Lists]
    /\ val \in [Threads -> Clients \cup Nat]
    /\ new \in [Threads -> Pointers]
    /\ at \in [Threads -> Pointers]
    /\ cur \in [Threads -> Pointers]

CountsOK == calls \in 0 .. MaxCalls /\ published \in 0 .. calls

HistoryOK ==
    /\ buffer \in {"none", "raw", "ready"}
    /\ fault \in {"none", "null_tail", "raw_buffer"}
    /\ given \in [Clients -> Seq(1 .. published)]
    /\ sent \in [Clients -> Seq(1 .. published)]
    /\ joined \subseteq Clients
    /\ known \in [Threads -> SUBSET Clients]

Inv == /\ NodesOK /\ ListsOK /\ ThreadsOK /\ LocalsOK /\ CountsOK /\ HistoryOK
       /\ mixed \subseteq Lists \cup {Buffer}

-----------------------------------------------------------------------------
(* Threads.                                                                *)

\* What is right for a thread stays right when lists grow and messages are
\* published.
LEMMA Grown ==
    ASSUME NEW p, NEW o, NEW l \in Lists, NEW v, NEW n, NEW a, NEW c,
           NEW of, NEW of2, \A m \in Lists : of[m] \subseteq of2[m],
           NEW pub \in Nat, NEW pub2 \in Nat, pub <= pub2,
           ThreadOK(p, o, l, v, n, a, c, of, pub)
    PROVE  ThreadOK(p, o, l, v, n, a, c, of2, pub2)
<1>1. Topic \in Lists /\ 1 .. pub \subseteq 1 .. pub2
  BY DEF Lists
<1> QED BY <1>1 DEF ThreadOK, Buffering

LEMMA OfFacts ==
    ASSUME Inv
    PROVE  /\ \A l \in Lists : /\ Of[l] \subseteq Pointers /\ 0 \in Of[l]
                               /\ \A i \in Of[l] \ {0} : i \in Nodes /\ node[i].list = l
           /\ Len(node) \in Nat /\ 0 \in Pointers
<1>1. Len(node) \in Nat
  BY DEF Inv, NodesOK
<1> QED BY <1>1 DEF Of, Nodes, Pointers

LEMMA NodeLists ==
    ASSUME Inv, NEW i \in Nodes
    PROVE  node[i].list \in Lists
<1>1. node \in Seq(Rec) /\ i \in 1 .. Len(node)
  BY DEF Inv, NodesOK, Nodes
<1>2. node[i] \in Rec
  BY <1>1, ElementOfSeq
<1> QED BY <1>2 DEF Rec

LEMMA InitOK == Init => Inv
<1> SUFFICES ASSUME Init PROVE Inv
  OBVIOUS
<1>1. Len(node) = 0 /\ node \in Seq(Rec) /\ Nodes = {} /\ Pointers = {0}
  BY DEF Init, Nodes, Pointers
<1>2. NodesOK /\ ListsOK
  BY <1>1 DEF Init, NodesOK, ListsOK, Of
<1>3. LocalsOK
  BY <1>1 DEF Init, LocalsOK, Lists, Labels, Buffering
<1>6. ThreadsOK
  BY DEF Init, ThreadsOK, ThreadOK, Buffering
<1>4. <<>> \in Seq(1 .. 0)
  OBVIOUS
<1>5. CountsOK /\ HistoryOK
  BY <1>4, ConstantsOK DEF Init, CountsOK, HistoryOK
<1> QED BY <1>2, <1>3, <1>5, <1>6 DEF Init, Inv

\* The threads but t are as they were; t is right where it is.
LEMMA OneThread ==
    ASSUME Inv, NEW t \in Threads, LocalsOK', published' \in Nat, published <= published',
           \A l \in Lists : Of[l] \subseteq Of'[l],
           \A u \in Threads \ {t} :
              /\ pc'[u] = pc[u] /\ op'[u] = op[u] /\ list'[u] = list[u]
              /\ val'[u] = val[u] /\ new'[u] = new[u] /\ at'[u] = at[u]
              /\ cur'[u] = cur[u],
           ThreadOK(pc'[t], op'[t], list'[t], val'[t], new'[t], at'[t], cur'[t],
                    Of', published')
    PROVE  ThreadsOK'
<1>1. published \in Nat /\ \A u \in Threads : list[u] \in Lists
  BY DEF Inv, CountsOK, LocalsOK
<1>2. ASSUME NEW u \in Threads \ {t}
      PROVE  ThreadOK(pc'[u], op'[u], list'[u], val'[u], new'[u], at'[u], cur'[u],
                      Of', published')
  <2>1. ThreadOK(pc[u], op[u], list[u], val[u], new[u], at[u], cur[u], Of, published)
    BY DEF Inv, ThreadsOK
  <2>2. ThreadOK(pc[u], op[u], list[u], val[u], new[u], at[u], cur[u], Of', published')
    BY <1>1, <2>1, Grown
  <2> QED BY <2>2
<1> QED BY <1>2 DEF ThreadsOK

-----------------------------------------------------------------------------
(* Steps that leave the nodes as they are.                                 *)

LEMMA SameNodes ==
    ASSUME Inv, UNCHANGED <<node, published>>
    PROVE  Of' = Of /\ Pointers' = Pointers /\ NodesOK'
<1>1. Of' = Of /\ Nodes' = Nodes /\ Pointers' = Pointers
  BY DEF Of, Nodes, Pointers
<1> QED BY <1>1 DEF Inv, NodesOK

\* The new head or tail of a list is of the list.
LEMMA NewEnd ==
    ASSUME Inv, UNCHANGED <<node, published>>,
           NEW l \in Lists, NEW n \in Of[l],
           \/ head' = head
           \/ head' = [head EXCEPT ![l] = n],
           \/ tail' = tail
           \/ tail' = [tail EXCEPT ![l] = n]
    PROVE  ListsOK'
<1>1. Of' = Of /\ n \in Nat
  BY SameNodes, OfFacts DEF Pointers
<1>2. /\ head \in [Lists -> Nat] /\ tail \in [Lists -> Nat]
      /\ \A k \in Lists : head[k] \in Of[k] /\ tail[k] \in Of[k]
  BY DEF Inv, ListsOK
<1>3. head' \in [Lists -> Nat] /\ \A k \in Lists : head'[k] \in Of[k]
  BY <1>1, <1>2
<1>4. tail' \in [Lists -> Nat] /\ \A k \in Lists : tail'[k] \in Of[k]
  BY <1>1, <1>2
<1> QED BY <1>1, <1>3, <1>4 DEF ListsOK

\* mqtt_topic_sub and mqtt_distribute_msg but for the node itself.
LEMMA AppendsOK ==
    ASSUME Inv, NEW t \in Threads,
           Test(t) \/ Reread(t) \/ SetHead(t) \/ SetTail(t), UNCHANGED count
    PROVE  NodesOK' /\ ListsOK' /\ ThreadsOK' /\ LocalsOK' /\ CountsOK' /\ HistoryOK'
<1>0. /\ LocalsOK /\ ListsOK /\ HistoryOK /\ CountsOK
      /\ ThreadOK(pc[t], op[t], list[t], val[t], new[t], at[t], cur[t], Of, published)
      /\ list[t] \in Lists /\ published \in Nat
  BY DEF Inv, ThreadsOK, LocalsOK, CountsOK
<1>1. /\ UNCHANGED <<node, published, calls, buffer, given, sent, known, fault>>
      /\ UNCHANGED <<op, list, val, at, cur>> /\ CountsOK'
  BY <1>0 DEF Test, Reread, SetHead, SetTail, Appended, shared, local, count, history,
              CountsOK
<1>2. Of' = Of /\ Pointers' = Pointers /\ NodesOK'
  BY <1>1, SameNodes
<1>3. CASE Test(t)
  <2>1. /\ pc[t] = "test" /\ pc' = [pc EXCEPT ![t] = pc'[t]]
        /\ pc'[t] \in {"first", "link"} /\ UNCHANGED <<new, head, tail, joined>>
    BY <1>0, <1>3 DEF Test, At, Goto, shared, local, history, LocalsOK
  <2>2. LocalsOK'
    BY <1>0, <1>1, <1>2, <2>1 DEF LocalsOK, Labels, Appending, Buffering
  <2>3. ThreadOK(pc'[t], op'[t], list'[t], val'[t], new'[t], at'[t], cur'[t],
                 Of', published')
    BY <1>0, <1>1, <1>2, <2>1 DEF ThreadOK, Appending, Draining, Buffering
  <2>4. ThreadsOK'
    BY <1>0, <1>1, <1>2, <2>1, <2>2, <2>3, OneThread DEF LocalsOK
  <2>5. ListsOK' /\ HistoryOK'
    BY <1>0, <1>1, <1>2, <2>1 DEF ListsOK, HistoryOK
  <2> QED BY <1>1, <1>2, <2>2, <2>4, <2>5
<1>4. CASE Reread(t)
  <2>1. /\ pc[t] = "reread" /\ pc' = [pc EXCEPT ![t] = "head"]
        /\ new' = [new EXCEPT ![t] = tail[list[t]]] /\ UNCHANGED <<head, tail, joined>>
    BY <1>4 DEF Reread, At, Goto, shared, history
  <2>2. tail[list[t]] \in Of[list[t]] /\ tail[list[t]] \in Pointers
    BY <1>0, OfFacts DEF ListsOK
  <2>3. LocalsOK'
    BY <1>0, <1>1, <1>2, <2>1, <2>2 DEF LocalsOK, Labels, Appending, Buffering
  <2>4. ThreadOK(pc'[t], op'[t], list'[t], val'[t], new'[t], at'[t], cur'[t],
                 Of', published')
    BY <1>0, <1>1, <1>2, <2>1, <2>2 DEF ThreadOK, Appending, Draining, LocalsOK, Buffering
  <2>5. ThreadsOK'
    BY <1>0, <1>1, <1>2, <2>1, <2>3, <2>4, OneThread DEF LocalsOK
  <2>6. ListsOK' /\ HistoryOK'
    BY <1>0, <1>1, <1>2, <2>1 DEF ListsOK, HistoryOK
  <2> QED BY <1>1, <1>2, <2>3, <2>5, <2>6
<1>5. CASE SetHead(t) \/ SetTail(t)
  <2>1. /\ pc[t] \in {"head", "tail"} /\ pc' = [pc EXCEPT ![t] = pc'[t]]
        /\ pc'[t] = IF list[t] = Topic THEN "idle" ELSE "drain"
        /\ new' = [new EXCEPT ![t] = 0]
        /\ joined' = IF list[t] = Topic THEN joined \cup {val[t]} ELSE joined
        /\ head' = head \/ head' = [head EXCEPT ![list[t]] = new[t]]
        /\ tail' = tail \/ tail' = [tail EXCEPT ![list[t]] = new[t]]
    BY <1>0, <1>5 DEF SetHead, SetTail, Appended, At, Goto, LocalsOK
  <2>2. new[t] \in Of[list[t]]
    BY <1>0, <2>1 DEF ThreadOK, Buffering
  <2>3. ListsOK'
    BY <1>0, <1>1, <2>1, <2>2, NewEnd
  <2>4. LocalsOK'
    BY <1>0, <1>1, <1>2, <2>1, OfFacts DEF LocalsOK, Labels, Draining, Buffering
  <2>5. op[t] \in {"none", "subscribe", "connect", "publish"}
        /\ (op[t] = "subscribe" => list[t] = Topic /\ val[t] \in Clients)
        /\ (op[t] = "publish" => list[t] \in Clients) /\ op[t] # "connect" /\ op[t] # "none"
    BY <1>0, <2>1 DEF ThreadOK, Draining, LocalsOK, Buffering
  <2>6. list[t] = Topic => op[t] = "subscribe"
    BY <2>5, ConstantsOK
  <2>7. ThreadOK(pc'[t], op'[t], list'[t], val'[t], new'[t], at'[t], cur'[t],
                 Of', published')
    <3>1. CASE list[t] = Topic
      BY <1>0, <1>1, <1>2, <2>1, <2>5, <2>6, <3>1 DEF ThreadOK, Buffering
    <3>2. CASE list[t] # Topic
      <4>1. pc'[t] = "drain" /\ op[t] = "publish"
        BY <2>1, <2>5, <3>2
      <4> QED BY <1>0, <1>1, <1>2, <2>1, <4>1 DEF ThreadOK, Buffering
    <3> QED BY <3>1, <3>2
  <2>8. ThreadsOK'
    BY <1>0, <1>1, <1>2, <2>1, <2>4, <2>7, OneThread DEF LocalsOK
  <2>9. HistoryOK'
    BY <1>0, <1>1, <2>1, <2>5, <2>6 DEF HistoryOK
  <2> QED BY <1>1, <1>2, <2>3, <2>4, <2>8, <2>9
<1> QED BY <1>3, <1>4, <1>5

\* mqtt_send_client_msg.
LEMMA SendsOK ==
    ASSUME Inv, NEW t \in Threads, UNCHANGED count,
           Drain(t) \/ Send(t) \/ ResetTail(t) \/ RereadReset(t) \/ ResetHead(t)
    PROVE  NodesOK' /\ ListsOK' /\ ThreadsOK' /\ LocalsOK' /\ CountsOK' /\ HistoryOK'
<1>0. /\ LocalsOK /\ ListsOK /\ HistoryOK /\ CountsOK
      /\ ThreadOK(pc[t], op[t], list[t], val[t], new[t], at[t], cur[t], Of, published)
      /\ list[t] \in Lists /\ published \in Nat
  BY DEF Inv, ThreadsOK, LocalsOK, CountsOK
<1>1. /\ UNCHANGED <<node, published, calls, buffer, given, joined, known, fault>>
      /\ UNCHANGED <<op, list, val, new, at>> /\ CountsOK'
  BY <1>0 DEF Drain, Send, ResetTail, RereadReset, ResetHead, shared, local, count,
              history, CountsOK
<1>2. Of' = Of /\ Pointers' = Pointers /\ NodesOK'
  BY <1>1, SameNodes
<1>3. /\ pc[t] \in Draining /\ 0 \in Of[list[t]] /\ Of[list[t]] \subseteq Pointers
      /\ head[list[t]] \in Of[list[t]] /\ tail[list[t]] \in Of[list[t]]
  BY <1>0, OfFacts
     DEF Drain, Send, ResetTail, RereadReset, ResetHead, At, Draining, ListsOK, Buffering
<1>4. ASSUME NEW p \in Labels, NEW c \in Of[list[t]],
             p \in {"send", "rereset", "reset"} \/ p = "idle"
                \/ (p = "next" /\ op[t] = "publish"),
             p = "idle" => op[t] # "publish",
             pc' = [pc EXCEPT ![t] = p], cur' = [cur EXCEPT ![t] = c]
      PROVE  LocalsOK' /\ ThreadsOK'
  <2>1. LocalsOK'
    BY <1>0, <1>1, <1>2, <1>3, <1>4 DEF LocalsOK
  <2>2. pc'[t] = p /\ cur'[t] = c
    BY <1>0, <1>4 DEF LocalsOK
  <2>3. ThreadOK(p, op[t], list[t], val[t], new[t], at[t], c, Of, published)
    BY <1>0, <1>3, <1>4 DEF ThreadOK, Draining, Appending, Buffering
  <2>4. ThreadOK(pc'[t], op'[t], list'[t], val'[t], new'[t], at'[t], cur'[t],
                 Of', published')
    BY <1>1, <1>2, <2>2, <2>3
  <2> QED BY <1>0, <1>1, <1>2, <1>4, <2>1, <2>4, OneThread DEF LocalsOK
<1>5. CASE Drain(t)
  <2>1. /\ pc' = [pc EXCEPT ![t] = "send"]
        /\ cur' = [cur EXCEPT ![t] = head[list[t]]] /\ UNCHANGED <<head, tail, sent>>
    BY <1>5 DEF Drain, Goto, shared, history
  <2>2. ListsOK' /\ HistoryOK'
    BY <1>0, <1>1, <1>2, <2>1 DEF ListsOK, HistoryOK
  <2> QED BY <1>1, <1>2, <1>3, <1>4, <2>1, <2>2 DEF Labels, Draining, Buffering
<1>6. CASE Send(t)
  <2>1. /\ pc[t] = "send" /\ cur[t] # 0 /\ UNCHANGED <<pc, head, tail>>
        /\ sent' = [sent EXCEPT ![list[t]] = Append(@, node[cur[t]].val)]
        /\ cur' = [cur EXCEPT ![t] = node[cur[t]].next]
    BY <1>6 DEF Send, At, shared
  <2>2. cur[t] \in Of[list[t]] /\ list[t] \in Clients
    BY <1>0, <2>1 DEF ThreadOK, LocalsOK, Appending, Buffering
  <2>3. cur[t] \in Nodes /\ node[cur[t]].list = list[t]
    BY <1>0, <2>1, <2>2, OfFacts
  <2>4. node[cur[t]].next \in Of[list[t]] /\ node[cur[t]].val \in 1 .. published
    BY <2>2, <2>3, ConstantsOK DEF Inv, NodesOK
  <2>5. sent' \in [Clients -> Seq(1 .. published)]
    BY <1>0, <2>1, <2>2, <2>4 DEF HistoryOK
  <2>6. ListsOK' /\ HistoryOK'
    BY <1>0, <1>1, <1>2, <2>1, <2>5 DEF ListsOK, HistoryOK
  <2>7. pc' = [pc EXCEPT ![t] = "send"]
    BY <1>0, <2>1 DEF LocalsOK
  <2> QED BY <1>1, <1>2, <1>4, <2>1, <2>4, <2>6, <2>7 DEF Labels, Draining, Buffering
<1>7. CASE ResetTail(t)
  <2>1. /\ pc' = [pc EXCEPT ![t] = "rereset"] /\ UNCHANGED <<cur, head, sent>>
        /\ tail' = [tail EXCEPT ![list[t]] = 0] /\ pc[t] = "send"
    BY <1>7 DEF ResetTail, At, Goto, local, history
  <2>2. ListsOK' /\ HistoryOK'
    BY <1>0, <1>1, <1>3, <2>1, NewEnd DEF HistoryOK
  <2>3. cur[t] \in Of[list[t]] /\ cur' = [cur EXCEPT ![t] = cur[t]]
    BY <1>0, <2>1 DEF ThreadOK, LocalsOK, Buffering
  <2> QED BY <1>1, <1>2, <1>4, <2>1, <2>2, <2>3 DEF Labels, Draining, Buffering
<1>8. CASE RereadReset(t)
  <2>1. /\ pc' = [pc EXCEPT ![t] = "reset"] /\ UNCHANGED <<head, tail, sent>>
        /\ cur' = [cur EXCEPT ![t] = tail[list[t]]]
    BY <1>8 DEF RereadReset, Goto, shared, history
  <2>2. ListsOK' /\ HistoryOK'
    BY <1>0, <1>1, <1>2, <2>1 DEF ListsOK, HistoryOK
  <2> QED BY <1>1, <1>2, <1>3, <1>4, <2>1, <2>2 DEF Labels, Draining, Buffering
<1>9. CASE ResetHead(t)
  <2>1. /\ pc' = [pc EXCEPT ![t] = IF op[t] = "publish" THEN "next" ELSE "idle"]
        /\ head' = [head EXCEPT ![list[t]] = cur[t]] /\ pc[t] = "reset"
        /\ cur' = [cur EXCEPT ![t] = 0] /\ UNCHANGED <<tail, sent>>
    BY <1>9 DEF ResetHead, At, Goto, history
  <2>2. cur[t] \in Of[list[t]]
    BY <1>0, <2>1 DEF ThreadOK, Buffering
  <2>3. ListsOK' /\ HistoryOK'
    BY <1>0, <1>1, <2>1, <2>2, NewEnd DEF HistoryOK
  <2>4. CASE op[t] = "publish"
    BY <1>1, <1>2, <1>3, <1>4, <2>1, <2>3, <2>4 DEF Labels, Buffering
  <2>5. CASE op[t] # "publish"
    BY <1>1, <1>2, <1>3, <1>4, <2>1, <2>3, <2>5 DEF Labels, Buffering
  <2> QED BY <2>4, <2>5
<1> QED BY <1>5, <1>6, <1>7, <1>8, <1>9

\* Packets that arrive.
LEMMA BeginsOK ==
    ASSUME Inv, NEW t \in Threads, Begins(t)
    PROVE  NodesOK' /\ ListsOK' /\ ThreadsOK' /\ LocalsOK' /\ CountsOK' /\ HistoryOK'
<1>0. /\ LocalsOK /\ ListsOK /\ HistoryOK /\ CountsOK /\ NodesOK
      /\ published \in Nat /\ calls \in Nat
  BY ConstantsOK DEF Inv, CountsOK
<1>1. /\ pc[t] = "idle" /\ calls' = calls + 1 /\ calls < MaxCalls
      /\ UNCHANGED <<shared, new, at, cur, fault, given, sent, joined>>
  BY DEF Begins, Subscribe, Connect, Publish, Call, At, history
<1>2. Of' = Of /\ Pointers' = Pointers
  BY <1>1 DEF Of, Nodes, Pointers, shared
<1>3. CASE \E c \in Clients : Subscribe(t, c) \/ Connect(t, c)
  <2>1. PICK c \in Clients : Subscribe(t, c) \/ Connect(t, c)
    BY <1>3
  <2>2. UNCHANGED <<published, known>>
    BY <2>1 DEF Subscribe, Connect, history
  <2>3. /\ \/ /\ op' = [op EXCEPT ![t] = "subscribe"]
              /\ list' = [list EXCEPT ![t] = Topic]
              /\ val' = [val EXCEPT ![t] = c]
              /\ pc' = [pc EXCEPT ![t] = "test"]
           \/ /\ op' = [op EXCEPT ![t] = "connect"]
              /\ list' = [list EXCEPT ![t] = c]
              /\ UNCHANGED val
              /\ pc' = [pc EXCEPT ![t] = "drain"]
    BY <2>1 DEF Subscribe, Connect, Call, Goto
  <2>4. LocalsOK'
    BY <1>0, <1>1, <1>2, <2>3 DEF LocalsOK, Lists, Labels, Appending, Draining, Buffering
  <2>5. ThreadOK(pc'[t], op'[t], list'[t], val'[t], new'[t], at'[t], cur'[t],
                 Of', published')
    BY <1>0, <2>3 DEF LocalsOK, ThreadOK, Appending, Draining, Buffering
  <2>6. ThreadsOK'
    BY <1>0, <1>1, <1>2, <2>2, <2>3, <2>4, <2>5, OneThread DEF LocalsOK
  <2>7. NodesOK' /\ ListsOK' /\ CountsOK' /\ HistoryOK'
    BY <1>0, <1>1, <1>2, <2>2, SameNodes, ConstantsOK
       DEF ListsOK, CountsOK, HistoryOK, shared
  <2> QED BY <2>4, <2>6, <2>7
<1>4. CASE Publish(t)
  <2>1. /\ op' = [op EXCEPT ![t] = "publish"]
        /\ val' = [val EXCEPT ![t] = published'] /\ UNCHANGED list
        /\ pc' = [pc EXCEPT ![t] = "buffer"]
        /\ published' = published + 1 /\ known' = [known EXCEPT ![t] = joined]
    BY <1>4 DEF Publish, Call, Goto
  <2>2. published' \in Nat /\ 1 .. published \subseteq 1 .. published' /\ published' > 0
    BY <1>0, <2>1
  <2>3. Seq(1 .. published) \subseteq Seq(1 .. published')
    BY <2>2, SeqMonotonic
  <2>4. LocalsOK'
    BY <1>0, <1>1, <1>2, <2>1, <2>2 DEF LocalsOK, Labels, Buffering
  <2>5. ThreadOK(pc'[t], op'[t], list'[t], val'[t], new'[t], at'[t], cur'[t],
                 Of', published')
    BY <1>0, <2>1, <2>2 DEF LocalsOK, ThreadOK, Appending, Draining, Buffering
  <2>6. ThreadsOK'
    BY <1>0, <1>1, <1>2, <2>1, <2>4, <2>5, OneThread DEF LocalsOK
  <2>7. UNCHANGED <<node, head, tail, buffer>> /\ Nodes' = Nodes
    BY <1>1 DEF shared, Nodes
  <2>8. NodesOK' /\ ListsOK'
    BY <1>0, <1>2, <2>2, <2>7 DEF NodesOK, ListsOK
  <2>9. CountsOK'
    BY <1>0, <1>1, <2>1, ConstantsOK DEF CountsOK
  <2>10. HistoryOK'
    BY <1>0, <1>1, <2>1, <2>3, <2>7 DEF HistoryOK
  <2> QED BY <2>4, <2>6, <2>8, <2>9, <2>10
<1> QED BY <1>3, <1>4 DEF Begins

\* _mqtt_topic_add_msg, up to the call of mqtt_distribute_msg.
LEMMA VisitsOK ==
    ASSUME Inv, NEW t \in Threads, UNCHANGED count,
           Buffers(t) \/ NextSubscriber(t)
    PROVE  NodesOK' /\ ListsOK' /\ ThreadsOK' /\ LocalsOK' /\ CountsOK' /\ HistoryOK'
<1>0. /\ LocalsOK /\ ListsOK /\ HistoryOK /\ CountsOK /\ NodesOK
      /\ ThreadOK(pc[t], op[t], list[t], val[t], new[t], at[t], cur[t], Of, published)
      /\ published \in Nat /\ Topic \in Lists
  BY DEF Inv, ThreadsOK, CountsOK, Lists
<1>1. /\ UNCHANGED <<node, head, tail, published, calls>>
      /\ UNCHANGED <<op, val, new, cur, sent, joined, known>>
      /\ buffer' \in {"none", "raw", "ready"} /\ fault' \in {"none", "null_tail", "raw_buffer"}
      /\ pc[t] \in Buffering \cup {"next"}
  BY <1>0 DEF Buffering, Buffers, Buffered, Extend, Store, Clear, MakeBuffer,
              NextSubscriber, Visit, Ends, At, shared, local,
              count, history, HistoryOK
<1>2. Of' = Of /\ Pointers' = Pointers /\ NodesOK' /\ CountsOK' /\ ListsOK'
  BY <1>0, <1>1, SameNodes DEF CountsOK, ListsOK
<1>3. op[t] = "publish" /\ val[t] \in 1 .. published
  BY <1>0, <1>1 DEF ThreadOK, Buffering
<1>4. CASE UNCHANGED <<local, given>> /\ (UNCHANGED pc \/ \E p \in Buffering : pc' = [pc EXCEPT ![t] = p])
  <2>1. LocalsOK' /\ HistoryOK'
    BY <1>0, <1>1, <1>2, <1>4 DEF LocalsOK, HistoryOK, Labels, local, Buffering
  <2>2. ThreadOK(pc'[t], op'[t], list'[t], val'[t], new'[t], at'[t], cur'[t],
                 Of', published')
    BY <1>0, <1>1, <1>2, <1>3, <1>4 DEF LocalsOK, ThreadOK, local, Appending, Draining,
                                        Buffering
  <2>3. ThreadsOK'
    BY <1>0, <1>1, <1>2, <1>4, <2>1, <2>2, OneThread DEF LocalsOK, local
  <2> QED BY <1>2, <2>1, <2>3
<1>5. ASSUME NEW n \in Of[Topic], Visit(t, n)
      PROVE  NodesOK' /\ ListsOK' /\ ThreadsOK' /\ LocalsOK' /\ CountsOK' /\ HistoryOK'
  <2>1. n \in Pointers /\ at' = [at EXCEPT ![t] = n]
    BY <1>0, <1>5, OfFacts DEF Visit
  <2>2. CASE n = 0
    <3>1. pc' = [pc EXCEPT ![t] = "idle"] /\ UNCHANGED <<list, given>>
      BY <1>5, <2>2 DEF Visit, Goto
    <3>2. LocalsOK' /\ HistoryOK'
      BY <1>0, <1>1, <1>2, <2>1, <3>1 DEF LocalsOK, HistoryOK, Labels, Buffering
    <3>3. ThreadOK(pc'[t], op'[t], list'[t], val'[t], new'[t], at'[t], cur'[t],
                   Of', published')
      BY <1>0, <1>1, <1>3, <3>1 DEF LocalsOK, ThreadOK, Buffering
    <3>4. ThreadsOK'
      BY <1>0, <1>1, <1>2, <2>1, <3>1, <3>2, <3>3, OneThread DEF LocalsOK
    <3> QED BY <1>2, <3>2, <3>4
  <2>3. CASE n # 0
    <3>1. n \in Nodes /\ node[n].list = Topic
      BY <1>0, <1>5, <2>3, OfFacts
    <3>2. node[n].val \in Clients
      BY <1>0, <3>1 DEF NodesOK
    <3> DEFINE c == node[n].val
    <3>3. /\ pc' = [pc EXCEPT ![t] = "test"] /\ list' = [list EXCEPT ![t] = c]
          /\ given' = [given EXCEPT ![c] = Append(@, val[t])]
      BY <1>5, <2>3 DEF Visit, Goto
    <3>4. c \in Clients
      BY <3>2
    <3> HIDE DEF c
    <3>5. LocalsOK'
      BY <1>0, <1>1, <1>2, <2>1, <3>3, <3>4 DEF LocalsOK, Labels, Appending, Lists,
                                                Buffering
    <3>6. HistoryOK'
      <4>1. Append(given[c], val[t]) \in Seq(1 .. published)
        BY <1>0, <1>3, <3>4 DEF HistoryOK
      <4>2. given' \in [Clients -> Seq(1 .. published)]
        BY <1>0, <3>3, <3>4, <4>1 DEF HistoryOK
      <4> QED BY <1>0, <1>1, <4>2 DEF HistoryOK
    <3>7. pc'[t] = "test" /\ list'[t] = c /\ at'[t] = n
      BY <1>0, <2>1, <3>3 DEF LocalsOK
    <3>8. ThreadOK(pc'[t], op'[t], list'[t], val'[t], new'[t], at'[t], cur'[t],
                   Of', published')
      BY <1>1, <1>2, <1>3, <1>5, <2>3, <3>4, <3>7 DEF ThreadOK, Buffering
    <3>9. ThreadsOK'
      BY <1>0, <1>1, <1>2, <2>1, <3>3, <3>5, <3>8, OneThread DEF LocalsOK
    <3> QED BY <1>2, <3>5, <3>6, <3>9
  <2> QED BY <2>2, <2>3
<1>6. head[Topic] \in Of[Topic]
  BY <1>0 DEF ListsOK
<1>7. CASE Buffered(t) \/ Store(t) \/ Clear(t)
  BY <1>4, <1>7 DEF Buffered, Store, Clear, Goto, Buffering, history
<1>10. CASE Extend(t)
  BY <1>4, <1>5, <1>6, <1>10 DEF Extend, Ends, history
<1>8. CASE MakeBuffer(t)
  BY <1>5, <1>6, <1>8 DEF MakeBuffer
<1>9. CASE NextSubscriber(t)
  <2>1. pc[t] = "next" /\ Visit(t, node[at[t]].next)
    BY <1>9 DEF NextSubscriber, At
  <2>2. at[t] \in Of[Topic] /\ at[t] # 0
    BY <1>0, <1>3, <2>1 DEF ThreadOK, Buffering
  <2>3. at[t] \in Nodes /\ node[at[t]].list = Topic
    BY <1>0, <2>2, OfFacts
  <2>4. node[at[t]].next \in Of[Topic]
    BY <1>0, <2>3 DEF NodesOK
  <2> QED BY <1>5, <2>1, <2>4
<1> QED BY <1>7, <1>8, <1>9, <1>10 DEF Buffers

-----------------------------------------------------------------------------
(* The steps that put a node into a list.                                  *)

\* A node r, to which node i leads, or none does if i is 0.
Added(s, u, i, r) ==
    /\ u \in Seq(Rec) /\ Len(u) = Len(s) + 1 /\ u[Len(s) + 1] = r
    /\ \A j \in 1 .. Len(s) :
          /\ u[j].list = s[j].list /\ u[j].val = s[j].val
          /\ u[j].next = IF j = i THEN Len(s) + 1 ELSE s[j].next

LEMMA AddFirst ==
    ASSUME NEW s \in Seq(Rec), NEW r \in Rec
    PROVE  Added(s, Append(s, r), 0, r)
BY DEF Added

LEMMA AddBehind ==
    ASSUME NEW s \in Seq(Rec), NEW i \in 1 .. Len(s), NEW r \in Rec
    PROVE  Added(s, [Append(s, r) EXCEPT ![i].next = Len(s) + 1], i, r)
<1> DEFINE a == Append(s, r)
           n == Len(s) + 1
           x == [a[i] EXCEPT !.next = n]
           u == [a EXCEPT ![i] = x]
<1>1. [Append(s, r) EXCEPT ![i].next = Len(s) + 1] = u
  OBVIOUS
<1>2. /\ a \in Seq(Rec) /\ Len(a) = n /\ a[n] = r
      /\ \A j \in 1 .. Len(s) : a[j] = s[j]
      /\ i \in 1 .. n /\ i # n /\ Len(s) \in Nat
  OBVIOUS
<1>3. a[i] \in Rec /\ a[i] = s[i] /\ n \in Nat
  BY <1>2
<1> HIDE DEF a
<1>4. x \in Rec /\ x.list = s[i].list /\ x.val = s[i].val /\ x.next = n
  BY <1>3 DEF Rec
<1> HIDE DEF x
<1>5. /\ u \in Seq(Rec) /\ Len(u) = n
      /\ \A j \in 1 .. n : u[j] = IF j = i THEN x ELSE a[j]
  BY <1>2, <1>4
<1> HIDE DEF u
<1>6. u[n] = r /\ \A j \in 1 .. Len(s) \ {i} : u[j] = s[j]
  BY <1>2, <1>5
<1>7. u[i] = x
  BY <1>2, <1>5
<1> QED BY <1>1, <1>4, <1>5, <1>6, <1>7 DEF Added

\* The new node is of the thread's list, and is its last.
LEMMA NewNodeOK ==
    ASSUME Inv, UNCHANGED published, NEW l \in Lists, NEW i \in Of[l],
           NEW r \in Rec, r.list = l, r.next = 0,
           l = Topic => r.val \in Clients,
           l # Topic => r.val \in 1 .. published,
           Added(node, node', i, r)
    PROVE  /\ NodesOK' /\ Len(node') = Len(node) + 1 /\ Len(node) \in Nat
           /\ Len(node) + 1 \in Of'[l]
           /\ \A k \in Lists : Of[k] \subseteq Of'[k]
<1> DEFINE n == Len(node) + 1
<1>1. /\ Len(node') = n /\ node' \in Seq(Rec) /\ node'[n] = r /\ Len(node) \in Nat
      /\ \A j \in Nodes : /\ node'[j].list = node[j].list /\ node'[j].val = node[j].val
                          /\ node'[j].next = IF j = i THEN n ELSE node[j].next
  BY OfFacts DEF Added, Nodes
<1>2. n \in Nat /\ n # 0 /\ Nodes' = Nodes \cup {n} /\ n \notin Nodes
      /\ \A j \in Nodes : j < n
  BY <1>1 DEF Nodes
<1> HIDE DEF n
<1>3. \A k \in Lists : Of[k] \subseteq Of'[k]
  BY <1>1, <1>2 DEF Of
<1>4. n \in Of'[l] /\ \A k \in Lists : 0 \in Of'[k]
  BY <1>1, <1>2 DEF Of
<1>5. ASSUME NEW j \in Nodes
      PROVE  /\ node'[j].next \in Of'[node'[j].list]
             /\ node'[j].next # 0 => node'[j].next > j
             /\ node'[j].list = Topic => node'[j].val \in Clients
             /\ node'[j].list # Topic => node'[j].val \in 1 .. published
  <2>1. node[j].list \in Lists
    BY NodeLists
  <2>2. /\ node[j].next \in Of[node[j].list]
        /\ node[j].next # 0 => node[j].next > j
        /\ node[j].list = Topic => node[j].val \in Clients
        /\ node[j].list # Topic => node[j].val \in 1 .. published
    BY DEF Inv, NodesOK
  <2>3. CASE j = i
    <3>1. node[j].list = l
      BY <1>2, <2>3, OfFacts DEF Nodes
    <3> QED BY <1>1, <1>2, <1>4, <2>2, <2>3, <3>1
  <2>4. CASE j # i
    BY <1>1, <1>3, <2>1, <2>2, <2>4
  <2> QED BY <2>3, <2>4
<1>6. /\ node'[n].next \in Of'[node'[n].list]
      /\ node'[n].next = 0
      /\ node'[n].list = Topic => node'[n].val \in Clients
      /\ node'[n].list # Topic => node'[n].val \in 1 .. published
  BY <1>1, <1>4
<1>7. NodesOK'
  BY <1>1, <1>2, <1>5, <1>6 DEF NodesOK
<1> QED BY <1>1, <1>3, <1>4, <1>7 DEF n

LEMMA AddsOK ==
    ASSUME Inv, NEW t \in Threads, UNCHANGED count, First(t) \/ Link(t)
    PROVE  NodesOK' /\ ListsOK' /\ ThreadsOK' /\ LocalsOK' /\ CountsOK' /\ HistoryOK'
<1>0. /\ LocalsOK /\ ListsOK /\ HistoryOK /\ CountsOK /\ NodesOK
      /\ ThreadOK(pc[t], op[t], list[t], val[t], new[t], at[t], cur[t], Of, published)
      /\ published \in Nat /\ list[t] \in Lists
  BY DEF Inv, ThreadsOK, CountsOK, LocalsOK
<1>1. UNCHANGED <<calls, published>> /\ CountsOK' /\ pc[t] \in {"first", "link"}
  BY <1>0 DEF First, Link, At, count, CountsOK
<1>2. CASE Ends("null_tail")
  <2>1. UNCHANGED <<node, head, tail, pc, op, list, val, new, at, cur>>
        /\ UNCHANGED <<buffer, given, sent, joined, known>> /\ fault' = "null_tail"
    BY <1>2 DEF Ends, shared, local, history
  <2>2. Of' = Of /\ Pointers' = Pointers /\ NodesOK'
    BY <1>1, <2>1, SameNodes
  <2> QED BY <1>0, <1>1, <2>1, <2>2 DEF Inv, ListsOK, ThreadsOK, LocalsOK, HistoryOK
<1> DEFINE r == Node(t)
           l == list[t]
           n == Len(node) + 1
<1>3. ASSUME NEW i \in Of[l], Added(node, node', i, r),
             new' = [new EXCEPT ![t] = n],
             tail' = tail \/ tail' = [tail EXCEPT ![l] = n],
             pc' = [pc EXCEPT ![t] = "reread"] \/ pc' = [pc EXCEPT ![t] = "tail"],
             UNCHANGED <<op, list, val, at, cur, head, buffer, fault, history>>
      PROVE  NodesOK' /\ ListsOK' /\ ThreadsOK' /\ LocalsOK' /\ CountsOK' /\ HistoryOK'
  <2>1. /\ l = Topic => val[t] \in Clients
        /\ l # Topic => val[t] \in 1 .. published
        /\ op[t] # "connect" /\ op[t] # "none"
    BY <1>0, <1>1, ConstantsOK DEF ThreadOK, LocalsOK, Draining, Buffering
  <2>2. r \in Rec /\ r.list = l /\ r.next = 0 /\ r.val = val[t]
    BY <1>0 DEF Rec, Node, LocalsOK
  <2> HIDE DEF r
  <2>3. /\ NodesOK' /\ Len(node') = n /\ Len(node) \in Nat
        /\ n \in Of'[l] /\ \A k \in Lists : Of[k] \subseteq Of'[k]
    BY <1>0, <1>1, <1>3, <2>1, <2>2, NewNodeOK
  <2>4. Pointers \subseteq Pointers' /\ n \in Pointers'
    BY <2>3 DEF Pointers
  <2> HIDE DEF n
  <2>5. LocalsOK'
    BY <1>0, <1>3, <2>4 DEF LocalsOK, Labels, Appending, Buffering
  <2>6. pc'[t] \in {"reread", "tail"} /\ new'[t] = n
    BY <1>0, <1>3 DEF LocalsOK
  <2>7. ThreadOK(pc'[t], op[t], list[t], val[t], n, at[t], cur[t], Of', published)
    <3>1. ThreadOK(pc[t], op[t], list[t], val[t], new[t], at[t], cur[t], Of', published)
      BY <1>0, <2>3, Grown
    <3> QED BY <1>1, <2>1, <2>3, <2>6, <3>1 DEF ThreadOK, Appending, Draining, Buffering
  <2>8. ThreadsOK'
    <3>1. ThreadOK(pc'[t], op'[t], list'[t], val'[t], new'[t], at'[t], cur'[t],
                   Of', published')
      BY <1>1, <1>3, <2>6, <2>7
    <3>2. \A u \in Threads \ {t} : pc'[u] = pc[u] /\ new'[u] = new[u]
      BY <1>0, <1>3 DEF LocalsOK
    <3> QED BY <1>0, <1>1, <1>3, <2>3, <2>5, <3>1, <3>2, OneThread
  <2>9. ListsOK'
    <3>1. n \in Nat
      BY <2>3 DEF n
    <3>2. tail' \in [Lists -> Nat] /\ \A k \in Lists : tail'[k] \in Of'[k]
      BY <1>0, <1>3, <2>3, <3>1 DEF ListsOK
    <3> QED BY <1>0, <1>3, <2>3, <3>2 DEF ListsOK
  <2>10. HistoryOK'
    BY <1>0, <1>1, <1>3 DEF HistoryOK, history
  <2> QED BY <1>1, <2>3, <2>5, <2>8, <2>9, <2>10
<1>4. CASE First(t)
  <2>1. /\ new' = [new EXCEPT ![t] = n] /\ tail' = [tail EXCEPT ![l] = new'[t]]
        /\ pc' = [pc EXCEPT ![t] = "reread"] /\ node' = Append(node, r)
        /\ UNCHANGED <<op, list, val, at, cur, head, buffer, fault, history>>
    BY <1>4 DEF First, Fresh, Goto
  <2>2. r \in Rec /\ node \in Seq(Rec)
    BY <1>0 DEF Rec, Node, LocalsOK, NodesOK
  <2>3. Added(node, node', 0, r) /\ 0 \in Of[l] /\ new'[t] = n
    <3> HIDE DEF r, n
    <3>1. Added(node, node', 0, r)
      BY <2>1, <2>2, AddFirst
    <3>2. new'[t] = n
      BY <1>0, <2>1 DEF LocalsOK
    <3> QED BY <1>0, <3>1, <3>2, OfFacts
  <2> HIDE DEF r, n
  <2> QED BY <1>3, <2>1, <2>3
<1>5. CASE Link(t) /\ tail[l] # 0
  <2>1. /\ new' = [new EXCEPT ![t] = n] /\ tail' = tail
        /\ pc' = [pc EXCEPT ![t] = "tail"]
        /\ node' = [Append(node, r) EXCEPT ![tail[l]].next = n]
        /\ UNCHANGED <<op, list, val, at, cur, head, buffer, fault, history>>
    BY <1>5 DEF Link, Fresh, Goto
  <2>2. r \in Rec /\ node \in Seq(Rec)
    BY <1>0 DEF Rec, Node, LocalsOK, NodesOK
  <2>3. tail[l] \in Of[l] /\ tail[l] \in 1 .. Len(node)
    BY <1>0, <1>5, OfFacts DEF ListsOK, Nodes
  <2>4. Added(node, node', tail[l], r)
    <3> HIDE DEF r
    <3> QED BY <2>1, <2>2, <2>3, AddBehind
  <2> HIDE DEF r, n
  <2> QED BY <1>3, <2>1, <2>3, <2>4
<1> QED BY <1>2, <1>4, <1>5 DEF Link

-----------------------------------------------------------------------------
LEMMA StepOK == Inv /\ [Next]_vars => Inv'
<1> SUFFICES ASSUME Inv, [Next]_vars PROVE Inv'
  OBVIOUS
<1>1. CASE UNCHANGED vars
  <2>1. UNCHANGED <<node, published>>
    BY <1>1 DEF vars, shared, count
  <2>2. Of' = Of /\ Pointers' = Pointers /\ NodesOK'
    BY <2>1, SameNodes
  <2> QED BY <1>1, <2>2 DEF vars, shared, local, count, history, Inv, ListsOK,
                            ThreadsOK, LocalsOK, CountsOK, HistoryOK
<1>2. CASE Next
  <2>1. PICK t \in Threads : \/ Begins(t)
                             \/ Appends(t) /\ UNCHANGED count
                             \/ Walks(t)
    BY <1>2 DEF Next
  <2>2. NodesOK' /\ ListsOK' /\ ThreadsOK' /\ LocalsOK' /\ CountsOK' /\ HistoryOK'
    BY <2>1, BeginsOK, AppendsOK, AddsOK, VisitsOK, SendsOK DEF Appends, Walks
  <2>3. mixed' \subseteq Lists \cup {Buffer}
    BY <1>2 DEF Next, Mixing, Inv
  <2> QED BY <2>2, <2>3 DEF Inv
<1> QED BY <1>1, <1>2

\* Every variable has its type; a node holds what its list is for, and what a
\* thread goes by is of the list it works on.
THEOREM TypeCorrect == Spec => []TypeOK
<1>1. Inv => TypeOK
  <2> SUFFICES ASSUME Inv PROVE TypeOK
    OBVIOUS
  <2>1. NodesOK /\ ListsOK /\ LocalsOK /\ CountsOK /\ HistoryOK
    BY DEF Inv
  <2>2. \A i \in DOMAIN node :
          /\ node[i].list \in Lists /\ node[i].next \in Pointers
          /\ node[i].val \in IF node[i].list = Topic THEN Clients
                             ELSE 1 .. published
    <3> SUFFICES ASSUME NEW i \in Nodes
                 PROVE  /\ node[i].list \in Lists /\ node[i].next \in Pointers
                        /\ node[i].val \in IF node[i].list = Topic THEN Clients
                                           ELSE 1 .. published
      BY <2>1 DEF NodesOK, Nodes
    <3>1. node[i].list \in Lists
      BY NodeLists
    <3> QED BY <2>1, <3>1, OfFacts DEF NodesOK
  <2>3. head \in [Lists -> Pointers] /\ tail \in [Lists -> Pointers]
    BY <2>1, OfFacts DEF ListsOK
  <2> QED BY <2>1, <2>2, <2>3
          DEF Inv, TypeOK, LocalsOK, CountsOK, HistoryOK, Labels, Appending, Draining,
              Buffering
<1> QED BY <1>1, InitOK, StepOK, PTL DEF Spec

\* However many threads overlap, links lead to later nodes of the same list.
THEOREM ChainsHold == Spec => []ChainsOK
<1>1. Inv => ChainsOK
  <2> SUFFICES ASSUME Inv PROVE ChainsOK
    OBVIOUS
  <2>1. NodesOK /\ ListsOK /\ DOMAIN node = Nodes
    BY DEF Inv, NodesOK, Nodes
  <2>2. ASSUME NEW i \in Nodes, node[i].next # 0
        PROVE  node[i].next > i /\ node[node[i].next].list = node[i].list
    <3>1. node[i].list \in Lists /\ node[i].next \in Of[node[i].list]
      BY <2>1, NodeLists DEF NodesOK
    <3> QED BY <2>1, <2>2, <3>1, OfFacts DEF NodesOK
  <2>3. ASSUME NEW l \in Lists
        PROVE  /\ head[l] # 0 => node[head[l]].list = l
               /\ tail[l] # 0 => node[tail[l]].list = l
    BY <2>1, OfFacts DEF ListsOK
  <2> QED BY <2>1, <2>2, <2>3 DEF ChainsOK
<1> QED BY <1>1, InitOK, StepOK, PTL DEF Spec

-----------------------------------------------------------------------------
(* Queues on which no two threads have met: exactly once and in order.     *)

\* A queue nobody is at is empty, and all that was given has been sent.
Quiet(c) == head[c] = 0 /\ tail[c] = 0 /\ sent[c] = given[c]

\* Node i ends the queue of c, and its message is all that is to be sent.
Only(c, i) == /\ i # 0 /\ node[i].next = 0
              /\ given[c] = Append(sent[c], node[i].val)

\* How far a thread that is alone on the queue of c has come.
Stage(t, c) ==
    /\ pc[t] \notin {"link", "tail"}
    /\ pc[t] \in {"test", "first"} =>
          head[c] = 0 /\ tail[c] = 0 /\ given[c] = Append(sent[c], val[t])
    /\ pc[t] \in {"reread", "head"} => head[c] = 0 /\ Only(c, tail[c])
    /\ pc[t] = "head" => new[t] = tail[c]
    /\ pc[t] = "drain" => \/ Quiet(c)
                          \/ tail[c] = head[c] /\ Only(c, head[c])
    /\ pc[t] = "send" => \/ cur[t] = 0 /\ sent[c] = given[c]
                         \/ Only(c, cur[t])
    /\ pc[t] \in {"rereset", "reset"} => tail[c] = 0 /\ sent[c] = given[c]
    /\ pc[t] = "reset" => cur[t] = 0

QueueOK(c) == /\ (\A t \in Threads : ~ In(t, c)) => Quiet(c)
              /\ \A t \in Threads : In(t, c) => Stage(t, c)

\* An unfinished msg_bf_list has a thread that is making it, and a thread that
\* links a subscriber has a tail to link it to.
Making == buffer = "raw" => \E t \in Threads : pc[t] \in {"clear", "raw"}

LinksOK ==
    \A t \in Threads :
       /\ pc[t] = "tail" => new[t] # 0
       /\ pc[t] \in {"reread", "link"} /\ list[t] = Topic => tail[Topic] # 0

Faults == /\ fault = "null_tail" => mixed \cap Clients # {}
          /\ fault = "raw_buffer" => Buffer \in mixed

\* Where two threads are at once is on record.
ExactInv ==
    /\ Mixing \subseteq mixed
    /\ \A c \in Clients \ mixed : QueueOK(c)
    /\ Making /\ LinksOK /\ Faults

LEMMA ExactInit == Init => ExactInv
<1> SUFFICES ASSUME Init PROVE ExactInv
  OBVIOUS
<1>1. \A t \in Threads, l \in Lists \cup {Buffer} : ~ In(t, l)
  BY DEF Init, In, Buffering
<1>2. Mixing = {}
  BY <1>1 DEF Mixing
<1>3. \A c \in Clients : Quiet(c)
  BY DEF Init, Quiet, Lists
<1>4. \A c \in Clients : QueueOK(c)
  BY <1>1, <1>3 DEF QueueOK, Lists
<1>5. Making /\ LinksOK /\ Faults
  BY DEF Init, Making, LinksOK, Faults
<1> QED BY <1>2, <1>4, <1>5 DEF ExactInv

\* A thread's step leaves the others where they are.
LEMMA Others ==
    ASSUME Inv, NEW t \in Threads, Begins(t) \/ Appends(t) \/ Walks(t)
    PROVE  \A u \in Threads \ {t} :
              /\ pc'[u] = pc[u] /\ op'[u] = op[u] /\ list'[u] = list[u]
              /\ val'[u] = val[u] /\ new'[u] = new[u] /\ at'[u] = at[u]
              /\ cur'[u] = cur[u] /\ known'[u] = known[u]
<1>0. LocalsOK /\ known \in [Threads -> SUBSET Clients]
  BY DEF Inv, HistoryOK
<1>1. CASE Begins(t)
  BY <1>0, <1>1 DEF LocalsOK, Begins, Subscribe, Connect, Publish, Call, Goto, history
<1>2. CASE Test(t) \/ First(t) \/ Reread(t)
  BY <1>0, <1>2 DEF LocalsOK, Test, First, Fresh, Reread, Goto, local, history
<1>3. CASE SetHead(t) \/ SetTail(t)
  BY <1>0, <1>3 DEF LocalsOK, SetHead, SetTail, Appended, Goto
<1>4. CASE Link(t)
  BY <1>0, <1>4 DEF LocalsOK, Link, Fresh, Goto, Ends, local, history
<1>5. CASE Buffered(t) \/ Extend(t) \/ Store(t) \/ Clear(t)
  BY <1>0, <1>5 DEF LocalsOK, Buffered, Extend, Store, Clear, Visit, Goto, Ends, local,
                    history
<1>6. CASE NextSubscriber(t)
  BY <1>0, <1>6 DEF LocalsOK, NextSubscriber, Visit, Goto, Ends, local, history
<1>7. CASE MakeBuffer(t)
  BY <1>0, <1>7 DEF LocalsOK, MakeBuffer, Visit, Goto, Ends, local, history
<1>8. CASE Drain(t) \/ Send(t) \/ ResetTail(t)
  BY <1>0, <1>8 DEF LocalsOK, Drain, Send, ResetTail, Goto, local, history
<1>9. CASE RereadReset(t) \/ ResetHead(t)
  BY <1>0, <1>9 DEF LocalsOK, RereadReset, ResetHead, Goto, local, history
<1> QED BY <1>1, <1>2, <1>3, <1>4, <1>5, <1>6, <1>7, <1>8, <1>9 DEF Appends, Walks, Buffers

\* A node is put into the thread's list, behind node i of that list.
LEMMA AddStep ==
    ASSUME Inv, NEW t \in Threads, First(t) \/ Link(t), node' # node
    PROVE  LET i == IF pc[t] = "first" THEN 0 ELSE tail[list[t]]
               n == Len(node) + 1
           IN  /\ pc[t] = "first" => First(t)
               /\ pc[t] # "first" => Link(t) /\ pc[t] = "link" /\ i # 0
               /\ i \in Of[list[t]] /\ Added(node, node', i, Node(t))
               /\ new'[t] = n /\ n \in Nat \ {0} /\ Len(node') = n
               /\ tail' = IF pc[t] = "first" THEN [tail EXCEPT ![list[t]] = n] ELSE tail
               /\ pc'[t] = IF pc[t] = "first" THEN "reread" ELSE "tail"
               /\ UNCHANGED <<op, list, val, at, cur, head, buffer, fault, history>>
<1> DEFINE r == Node(t)
           n == Len(node) + 1
<1>0. /\ LocalsOK /\ ListsOK /\ list[t] \in Lists
      /\ node \in Seq(Rec) /\ Len(node) \in Nat
  BY OfFacts DEF Inv, LocalsOK, NodesOK
<1>1. r \in Rec
  BY <1>0 DEF Rec, Node, LocalsOK
<1>2. n \in Nat \ {0}
  BY <1>0
<1>3. ASSUME NEW i \in Pointers, Added(node, node', i, r) PROVE Len(node') = n
  BY <1>3 DEF Added
<1>4. CASE First(t)
  <2>1. /\ pc[t] = "first" /\ node' = Append(node, r)
        /\ new' = [new EXCEPT ![t] = n] /\ tail' = [tail EXCEPT ![list[t]] = new'[t]]
        /\ pc' = [pc EXCEPT ![t] = "reread"]
        /\ UNCHANGED <<op, list, val, at, cur, head, buffer, fault, history>>
    BY <1>4 DEF First, Fresh, Goto, At
  <2> HIDE DEF r, n
  <2>2. Added(node, node', 0, r) /\ 0 \in Of[list[t]] /\ 0 \in Pointers
    BY <1>0, <1>1, <2>1, AddFirst, OfFacts
  <2>3. new'[t] = n /\ pc'[t] = "reread"
    BY <1>0, <2>1 DEF LocalsOK
  <2> QED BY <1>2, <1>3, <1>4, <2>1, <2>2, <2>3 DEF r, n
<1>5. CASE Link(t) /\ tail[list[t]] # 0
  <2>1. /\ pc[t] = "link"
        /\ node' = [Append(node, r) EXCEPT ![tail[list[t]]].next = n]
        /\ new' = [new EXCEPT ![t] = n] /\ UNCHANGED tail
        /\ pc' = [pc EXCEPT ![t] = "tail"]
        /\ UNCHANGED <<op, list, val, at, cur, head, buffer, fault, history>>
    BY <1>5 DEF Link, Fresh, Goto, At
  <2>2. /\ tail[list[t]] \in Of[list[t]] /\ tail[list[t]] \in 1 .. Len(node)
        /\ tail[list[t]] \in Pointers
    BY <1>0, <1>5, OfFacts DEF ListsOK, Nodes
  <2> HIDE DEF r
  <2>3. Added(node, node', tail[list[t]], r)
    BY <1>0, <1>1, <2>1, <2>2, AddBehind
  <2>4. new'[t] = n /\ pc'[t] = "tail"
    BY <1>0, <2>1 DEF LocalsOK
  <2> HIDE DEF n
  <2> QED BY <1>2, <1>3, <1>5, <2>1, <2>2, <2>3, <2>4 DEF r, n
<1> QED BY <1>4, <1>5 DEF Link, Ends, shared

LEMMA FirstAdds ==
    ASSUME Inv, NEW t \in Threads, First(t) PROVE node' # node
<1>1. node \in Seq(Rec) /\ Node(t) \in Rec
  BY DEF Inv, NodesOK, LocalsOK, Rec, Node
<1>2. node # Append(node, Node(t))
  BY <1>1, AppendProperties
<1> QED BY <1>2 DEF First

\* A list that the thread is not at keeps its ends and its nodes.
LEMMA OtherLists ==
    ASSUME Inv, NEW t \in Threads, Begins(t) \/ Appends(t) \/ Walks(t),
           NEW l \in Lists, ~ In(t, l)
    PROVE  /\ head'[l] = head[l] /\ tail'[l] = tail[l] /\ Of'[l] = Of[l]
           /\ \A i \in Of[l] \ {0} : /\ node'[i].next = node[i].next
                                     /\ node'[i].val = node[i].val
<1>0. /\ LocalsOK /\ ListsOK /\ list[t] \in Lists /\ l # Buffer
      /\ head \in [Lists -> Nat] /\ tail \in [Lists -> Nat]
  BY ConstantsOK DEF Inv, Lists, LocalsOK, ListsOK
<1>1. pc[t] \in Appending \cup Draining => list[t] # l
  BY <1>0 DEF In, Appending, Draining, Buffering
<1>2. ASSUME UNCHANGED node PROVE Of' = Of
  BY <1>2 DEF Of, Nodes
<1>3. CASE (First(t) \/ Link(t)) /\ node' # node
  <2> DEFINE i == IF pc[t] = "first" THEN 0 ELSE tail[list[t]]
             n == Len(node) + 1
  <2>1. /\ i \in Of[list[t]] /\ Added(node, node', i, Node(t))
        /\ tail' = tail \/ tail' = [tail EXCEPT ![list[t]] = n]
        /\ UNCHANGED head /\ pc[t] \in {"first", "link"}
        /\ Len(node') = n /\ Len(node) \in Nat
    BY <1>3, AddStep, OfFacts
  <2> HIDE DEF i
  <2>2. list[t] # l
    BY <1>1, <2>1 DEF Appending, Buffering
  <2>3. \A j \in Of[l] \ {0} : j \in 1 .. Len(node) /\ j # i
    BY <1>0, <2>1, <2>2, OfFacts DEF Nodes
  <2>4. \A j \in Of[l] \ {0} : node'[j].next = node[j].next /\ node'[j].val = node[j].val
    BY <2>1, <2>3 DEF Added
  <2>5. node'[n].list # l /\ \A j \in Nodes : node'[j].list = node[j].list
    BY <2>1, <2>2 DEF Added, Node, Nodes
  <2>6. Nodes' = Nodes \cup {n}
    BY <2>1 DEF Nodes
  <2> HIDE DEF n
  <2>7. Of'[l] = Of[l]
    BY <2>5, <2>6 DEF Of
  <2> QED BY <1>0, <2>1, <2>2, <2>4, <2>7
<1>4. CASE First(t) /\ node' = node
  BY <1>4, FirstAdds
<1>5. CASE Link(t) /\ node' = node
  <2>1. UNCHANGED <<head, tail>>
    BY <1>5 DEF Link, Ends, shared
  <2> QED BY <1>2, <1>5, <2>1
<1>6. CASE Begins(t) \/ Test(t) \/ Reread(t)
  <2>1. UNCHANGED <<node, head, tail>>
    BY <1>6 DEF Begins, Subscribe, Connect, Publish, Call, Test, Reread, shared
  <2> QED BY <1>2, <2>1
<1>7. CASE SetHead(t) \/ SetTail(t)
  <2>1. /\ pc[t] \in Appending /\ UNCHANGED node
        /\ head' = head \/ head' = [head EXCEPT ![list[t]] = new[t]]
        /\ tail' = tail \/ tail' = [tail EXCEPT ![list[t]] = new[t]]
    BY <1>7 DEF SetHead, SetTail, Appended, At, Appending, Buffering
  <2> QED BY <1>0, <1>1, <1>2, <2>1
<1>8. CASE \/ Buffers(t) \/ NextSubscriber(t)
           \/ Drain(t) \/ Send(t) \/ RereadReset(t)
  <2>1. UNCHANGED <<node, head, tail>>
    BY <1>8 DEF Buffering, Buffers, Buffered, Extend, Store, Clear, MakeBuffer,
                NextSubscriber, Visit, Ends, Drain, Send,
                RereadReset, shared
  <2> QED BY <1>2, <2>1
<1>9. CASE ResetTail(t) \/ ResetHead(t)
  <2>1. /\ pc[t] \in Draining /\ UNCHANGED node
        /\ head' = head \/ head' = [head EXCEPT ![list[t]] = cur[t]]
        /\ tail' = tail \/ tail' = [tail EXCEPT ![list[t]] = 0]
    BY <1>9 DEF ResetTail, ResetHead, At, Draining, Buffering
  <2> QED BY <1>0, <1>1, <1>2, <2>1
<1> QED BY <1>3, <1>4, <1>5, <1>6, <1>7, <1>8, <1>9 DEF Appends, Walks

\* A queue that the thread is not at stays as it is.
LEMMA Elsewhere ==
    ASSUME Inv, NEW t \in Threads, Begins(t) \/ Appends(t) \/ Walks(t),
           NEW c \in Clients, ~ In(t, c), ~ In(t, c)'
    PROVE  /\ head'[c] = head[c] /\ tail'[c] = tail[c]
           /\ given'[c] = given[c] /\ sent'[c] = sent[c]
           /\ \A i \in Of[c] \ {0} : /\ node'[i].next = node[i].next
                                     /\ node'[i].val = node[i].val
<1>0. LocalsOK /\ HistoryOK /\ c \in Lists
  BY DEF Inv, Lists
<1>1. /\ head'[c] = head[c] /\ tail'[c] = tail[c]
      /\ \A i \in Of[c] \ {0} : /\ node'[i].next = node[i].next
                                /\ node'[i].val = node[i].val
  BY <1>0, OtherLists
<1>2. sent'[c] = sent[c]
  <2>1. CASE Send(t)
    <3>1. list[t] # c /\ sent' = [sent EXCEPT ![list[t]] = Append(@, node[cur[t]].val)]
      BY <2>1 DEF Send, At, In, Buffering
    <3> QED BY <1>0, <3>1 DEF HistoryOK
  <2>2. CASE ~ Send(t)
    <3>1. UNCHANGED sent
      BY <2>2 DEF Begins, Subscribe, Connect, Publish, Appends, Test, First, Reread,
                  SetHead, SetTail, Appended, Link, Ends, Walks, Buffers, Buffered,
                  Extend, Store, Clear, MakeBuffer,
                  NextSubscriber, Visit, Drain, ResetTail, RereadReset, ResetHead, history
    <3> QED BY <3>1
  <2> QED BY <2>1, <2>2
<1>3. ASSUME NEW n, Visit(t, n) PROVE given'[c] = given[c]
  <2>1. CASE n = 0
    BY <1>3, <2>1 DEF Visit
  <2>2. CASE n # 0
    <3>1. /\ pc' = [pc EXCEPT ![t] = "test"] /\ list' = [list EXCEPT ![t] = node[n].val]
          /\ given' = [given EXCEPT ![node[n].val] = Append(@, val[t])]
      BY <1>3, <2>2 DEF Visit, Goto
    <3>2. pc'[t] = "test" /\ list'[t] = node[n].val
      BY <1>0, <3>1 DEF LocalsOK
    <3>3. node[n].val # c
      BY <3>2 DEF In, Buffering
    <3> QED BY <1>0, <3>1, <3>3 DEF HistoryOK
  <2> QED BY <2>1, <2>2
<1>4. given' = given \/ \E n : Visit(t, n)
  BY DEF Begins, Subscribe, Connect, Publish, Appends, Test, First, Reread, SetHead,
         SetTail, Appended, Link, Ends, Walks, Buffers, Buffered, Extend, Store, Clear,
         MakeBuffer, NextSubscriber,
         Drain, Send, ResetTail, RereadReset, ResetHead, history
<1> QED BY <1>1, <1>2, <1>3, <1>4

\* A thread alone on a queue goes from stage to stage, and leaves it quiet.
LEMMA OwnQueue ==
    ASSUME Inv, NEW t \in Threads, Appends(t) \/ Walks(t),
           NEW c \in Clients, In(t, c), Stage(t, c)
    PROVE  /\ In(t, c)' => Stage(t, c)'
           /\ ~ In(t, c)' => Quiet(c)'
<1>0. /\ LocalsOK /\ ListsOK /\ HistoryOK /\ c \in Lists /\ c # Topic /\ c # Buffer
      /\ head \in [Lists -> Nat] /\ tail \in [Lists -> Nat]
  BY ConstantsOK DEF Inv, Lists, ListsOK
<1>1. list[t] = c /\ pc[t] \in Appending \cup Draining
  BY <1>0 DEF In, Appending, Draining, Buffering
<1>2. CASE Test(t)
  <2>1. /\ pc[t] = "test" /\ pc' = [pc EXCEPT ![t] = IF Empty(list[t]) THEN "first" ELSE "link"]
        /\ UNCHANGED <<node, head, tail, list, val, new, cur, given, sent>>
    BY <1>2 DEF Test, At, Goto, shared, local, history
  <2>2. Empty(c)
    BY <2>1 DEF Stage, Empty
  <2>3. pc'[t] = "first"
    BY <1>0, <1>1, <2>1, <2>2 DEF LocalsOK
  <2>4. In(t, c)' /\ Stage(t, c)'
    BY <1>1, <2>1, <2>3 DEF In, Stage, Buffering
  <2> QED BY <2>4
<1>3. CASE First(t)
  <2>1. /\ pc[t] = "first" /\ node' = Append(node, Node(t))
        /\ new' = [new EXCEPT ![t] = Len(node) + 1]
        /\ tail' = [tail EXCEPT ![c] = new'[t]]
        /\ pc' = [pc EXCEPT ![t] = "reread"]
        /\ UNCHANGED <<head, list, given, sent>>
    BY <1>1, <1>3 DEF First, Fresh, Goto, At, history
  <2>2. /\ pc'[t] = "reread" /\ tail'[c] = Len(node) + 1
    BY <1>0, <2>1 DEF LocalsOK
  <2>3. node' # node /\ Len(node) + 1 # 0 /\ node'[Len(node) + 1] = Node(t)
    <3>1. node \in Seq(Rec) /\ Node(t) \in Rec
      BY <1>0 DEF Inv, NodesOK, Rec, Node, LocalsOK
    <3> QED BY <2>1, <3>1, AppendProperties
  <2>4. Node(t).next = 0 /\ Node(t).val = val[t]
    BY DEF Node
  <2>5. Only(c, tail[c])' /\ head'[c] = 0
    BY <2>1, <2>2, <2>3, <2>4 DEF Only, Stage
  <2>6. In(t, c)' /\ Stage(t, c)'
    BY <1>1, <2>1, <2>2, <2>5 DEF In, Stage, Buffering
  <2> QED BY <2>6
<1>4. CASE Reread(t)
  <2>1. /\ pc[t] = "reread" /\ pc' = [pc EXCEPT ![t] = "head"]
        /\ new' = [new EXCEPT ![t] = tail[c]]
        /\ UNCHANGED <<node, head, tail, list, given, sent>>
    BY <1>1, <1>4 DEF Reread, At, Goto, shared, history
  <2>2. pc'[t] = "head" /\ new'[t] = tail[c]
    BY <1>0, <2>1 DEF LocalsOK
  <2>3. In(t, c)' /\ Stage(t, c)'
    BY <1>1, <2>1, <2>2 DEF In, Stage, Only, Buffering
  <2> QED BY <2>3
<1>5. CASE SetHead(t)
  <2>1. /\ pc[t] = "head" /\ head' = [head EXCEPT ![c] = new[t]]
        /\ pc' = [pc EXCEPT ![t] = "drain"]
        /\ UNCHANGED <<node, tail, list, given, sent>>
    BY <1>0, <1>1, <1>5 DEF SetHead, Appended, At, Goto
  <2>2. pc'[t] = "drain" /\ head'[c] = tail[c]
    BY <1>0, <2>1 DEF LocalsOK, Stage
  <2>3. In(t, c)' /\ Stage(t, c)'
    BY <1>1, <2>1, <2>2 DEF In, Stage, Only, Buffering
  <2> QED BY <2>3
<1>6. CASE Link(t) \/ SetTail(t)
  BY <1>6 DEF Link, SetTail, At, Stage
<1>7. CASE Buffers(t) \/ NextSubscriber(t)
  BY <1>1, <1>7 DEF Buffering, Buffers, Buffered, Extend, Store, Clear, MakeBuffer,
                    NextSubscriber, At, Appending, Draining
<1>8. CASE Drain(t)
  <2>1. /\ pc[t] = "drain" /\ pc' = [pc EXCEPT ![t] = "send"]
        /\ cur' = [cur EXCEPT ![t] = head[c]]
        /\ UNCHANGED <<node, head, tail, list, given, sent>>
    BY <1>1, <1>8 DEF Drain, At, Goto, shared, history
  <2>2. pc'[t] = "send" /\ cur'[t] = head[c]
    BY <1>0, <2>1 DEF LocalsOK
  <2>3. In(t, c)' /\ Stage(t, c)'
    BY <1>1, <2>1, <2>2 DEF In, Stage, Only, Quiet, Buffering
  <2> QED BY <2>3
<1>9. CASE Send(t)
  <2>1. /\ pc[t] = "send" /\ cur[t] # 0
        /\ sent' = [sent EXCEPT ![c] = Append(@, node[cur[t]].val)]
        /\ cur' = [cur EXCEPT ![t] = node[cur[t]].next]
        /\ UNCHANGED <<pc, node, head, tail, list, given>>
    BY <1>1, <1>9 DEF Send, At, shared
  <2>2. Only(c, cur[t])
    BY <2>1 DEF Stage
  <2>3. cur'[t] = 0 /\ sent'[c] = given[c]
    BY <1>0, <2>1, <2>2 DEF LocalsOK, HistoryOK, Only
  <2>4. In(t, c)' /\ Stage(t, c)'
    BY <1>1, <2>1, <2>3 DEF In, Stage, Buffering
  <2> QED BY <2>4
<1>10. CASE ResetTail(t)
  <2>1. /\ pc[t] = "send" /\ cur[t] = 0 /\ pc' = [pc EXCEPT ![t] = "rereset"]
        /\ tail' = [tail EXCEPT ![c] = 0]
        /\ UNCHANGED <<node, head, list, given, sent>>
    BY <1>1, <1>10 DEF ResetTail, At, Goto, local, history
  <2>2. pc'[t] = "rereset" /\ tail'[c] = 0 /\ sent[c] = given[c]
    BY <1>0, <2>1 DEF LocalsOK, Stage, Only
  <2>3. In(t, c)' /\ Stage(t, c)'
    BY <1>1, <2>1, <2>2 DEF In, Stage, Buffering
  <2> QED BY <2>3
<1>11. CASE RereadReset(t)
  <2>1. /\ pc[t] = "rereset" /\ pc' = [pc EXCEPT ![t] = "reset"]
        /\ cur' = [cur EXCEPT ![t] = tail[c]]
        /\ UNCHANGED <<node, head, tail, list, given, sent>>
    BY <1>1, <1>11 DEF RereadReset, At, Goto, shared, history
  <2>2. pc'[t] = "reset" /\ cur'[t] = 0 /\ tail[c] = 0 /\ sent[c] = given[c]
    BY <1>0, <2>1 DEF LocalsOK, Stage
  <2>3. In(t, c)' /\ Stage(t, c)'
    BY <1>1, <2>1, <2>2 DEF In, Stage, Buffering
  <2> QED BY <2>3
<1>12. CASE ResetHead(t)
  <2>1. /\ pc[t] = "reset" /\ head' = [head EXCEPT ![c] = cur[t]]
        /\ pc' = [pc EXCEPT ![t] = IF op[t] = "publish" THEN "next" ELSE "idle"]
        /\ UNCHANGED <<node, tail, list, given, sent>>
    BY <1>1, <1>12 DEF ResetHead, At, Goto, history
  <2>2. pc'[t] \in {"next", "idle"} /\ head'[c] = 0 /\ tail[c] = 0 /\ sent[c] = given[c]
    BY <1>0, <2>1 DEF LocalsOK, Stage
  <2>3. ~ In(t, c)' /\ Quiet(c)'
    BY <1>0, <2>1, <2>2 DEF In, Quiet, Buffering
  <2> QED BY <2>3
<1> QED BY <1>2, <1>3, <1>4, <1>5, <1>6, <1>7, <1>8, <1>9, <1>10, <1>11, <1>12
        DEF Appends, Walks

\* A thread comes to a quiet queue.
LEMMA Enters ==
    ASSUME Inv, NEW t \in Threads, Begins(t) \/ Appends(t) \/ Walks(t),
           NEW c \in Clients, ~ In(t, c), In(t, c)', Quiet(c)
    PROVE  Stage(t, c)'
<1>0. /\ LocalsOK /\ HistoryOK /\ c # Topic /\ c # Buffer
  BY ConstantsOK DEF Inv
<1>1. CASE \E d \in Clients : Connect(t, d)
  <2>1. /\ pc' = [pc EXCEPT ![t] = "drain"]
        /\ UNCHANGED <<head, tail, given, sent>>
    BY <1>1 DEF Connect, Call, Goto, shared, history
  <2>2. pc'[t] = "drain"
    BY <1>0, <2>1 DEF LocalsOK
  <2> QED BY <2>1, <2>2 DEF Stage, Quiet
<1>2. CASE \E d \in Clients : Subscribe(t, d)
  <2>1. list' = [list EXCEPT ![t] = Topic]
    BY <1>2 DEF Subscribe
  <2> QED BY <1>0, <2>1 DEF In, LocalsOK, Buffering
<1>3. CASE Publish(t)
  <2>1. pc' = [pc EXCEPT ![t] = "buffer"]
    BY <1>3 DEF Publish, Goto
  <2> QED BY <1>0, <2>1 DEF In, LocalsOK, Buffering
<1>4. CASE Appends(t)
  <2>1. list' = list /\ pc[t] \in Appending
    BY <1>4 DEF Appends, Test, First, Fresh, Reread, SetHead, SetTail, Appended, Link,
                Ends, local, At, Appending, Buffering
  <2> QED BY <1>0, <2>1 DEF In, Appending, Buffering
<1>5. CASE Drain(t) \/ Send(t) \/ ResetTail(t) \/ RereadReset(t) \/ ResetHead(t)
  <2>1. list' = list /\ pc[t] \in Draining
    BY <1>5 DEF Drain, Send, ResetTail, RereadReset, ResetHead, local, At, Draining,
                Buffering
  <2> QED BY <1>0, <2>1 DEF In, Draining, Buffering
<1>6. CASE Buffers(t) \/ NextSubscriber(t)
  <2>1. UNCHANGED <<head, tail, val, sent>> /\ pc[t] \in Buffering \cup {"next"}
    BY <1>6 DEF Buffering, Buffers, Buffered, Extend, Store, Clear, MakeBuffer,
                NextSubscriber, Visit, Ends, At, shared, local,
                history
  <2>2. ASSUME NEW n, Visit(t, n) PROVE Stage(t, c)'
    <3>1. CASE n = 0
      <4>1. pc' = [pc EXCEPT ![t] = "idle"]
        BY <2>2, <3>1 DEF Visit, Goto
      <4> QED BY <1>0, <4>1 DEF In, LocalsOK, Buffering
    <3>2. CASE n # 0
      <4>1. /\ pc' = [pc EXCEPT ![t] = "test"] /\ list' = [list EXCEPT ![t] = node[n].val]
            /\ given' = [given EXCEPT ![node[n].val] = Append(@, val[t])]
        BY <2>2, <3>2 DEF Visit, Goto
      <4>2. pc'[t] = "test" /\ list'[t] = node[n].val
        BY <1>0, <4>1 DEF LocalsOK
      <4>3. node[n].val = c
        BY <1>0, <4>2 DEF In, Buffering
      <4>4. given'[c] = Append(given[c], val[t])
        BY <1>0, <4>1, <4>3 DEF HistoryOK
      <4> QED BY <2>1, <4>2, <4>4 DEF Stage, Quiet
    <3> QED BY <3>1, <3>2
  <2>3. CASE \E n : Visit(t, n)
    BY <2>2, <2>3
  <2>4. CASE pc' = pc \/ \E p \in Buffering : pc' = [pc EXCEPT ![t] = p]
    <3>1. pc'[t] \in Buffering \cup {"next"}
      BY <1>0, <2>1, <2>4 DEF LocalsOK
    <3> QED BY <1>0, <3>1 DEF In, Buffering
  <2> QED BY <1>6, <2>3, <2>4 DEF Buffering, Buffers, Buffered, Extend, Store, Clear,
                                  MakeBuffer, NextSubscriber, Ends, Goto
<1> QED BY <1>1, <1>2, <1>3, <1>4, <1>5, <1>6 DEF Begins, Walks

\* What a thread other than t is at stays as it is.
LEMMA OthersIn ==
    ASSUME Inv, NEW t \in Threads, Begins(t) \/ Appends(t) \/ Walks(t),
           NEW u \in Threads \ {t}, NEW l
    PROVE  In(u, l)' <=> In(u, l)
  BY Others DEF In, Buffering

LEMMA QueuesStep ==
    ASSUME Inv, ExactInv, NEW t \in Threads, Begins(t) \/ Appends(t) \/ Walks(t),
           mixed' = mixed \cup Mixing', NEW c \in Clients \ mixed'
    PROVE  QueueOK(c)'
<1>0. /\ c \in Lists /\ c \notin Mixing /\ c \notin Mixing' /\ c \in Clients \ mixed
      /\ QueueOK(c) /\ LocalsOK /\ ListsOK
  BY DEF ExactInv, Lists, Inv
<1>1. /\ \A u, w \in Threads : u # w => ~ (In(u, c) /\ In(w, c))
      /\ \A u, w \in Threads : u # w => ~ (In(u, c)' /\ In(w, c)')
  BY <1>0 DEF Mixing
<1>2. \A u \in Threads \ {t} : In(u, c)' <=> In(u, c)
  BY OthersIn
<1>3. CASE In(t, c)
  <2>1. Stage(t, c) /\ \A u \in Threads \ {t} : ~ In(u, c) /\ ~ In(u, c)'
    BY <1>0, <1>1, <1>2, <1>3 DEF QueueOK
  <2>2. ~ Begins(t)
    BY <1>0, <1>3, ConstantsOK
       DEF Begins, Publish, Subscribe, Connect, Call, At, In, Buffering
  <2>3. /\ In(t, c)' => Stage(t, c)'
        /\ ~ In(t, c)' => Quiet(c)'
    BY <1>3, <2>1, <2>2, OwnQueue
  <2> QED BY <2>1, <2>3 DEF QueueOK
<1>4. CASE ~ In(t, c) /\ In(t, c)'
  <2>1. \A u \in Threads : ~ In(u, c)
    BY <1>1, <1>2, <1>4
  <2>2. \A u \in Threads \ {t} : ~ In(u, c)'
    BY <1>2, <2>1
  <2>3. Stage(t, c)'
    BY <1>0, <1>4, <2>1, Enters DEF QueueOK
  <2> QED BY <1>4, <2>2, <2>3 DEF QueueOK
<1>5. CASE ~ In(t, c) /\ ~ In(t, c)'
  <2>1. /\ head'[c] = head[c] /\ tail'[c] = tail[c]
        /\ given'[c] = given[c] /\ sent'[c] = sent[c]
        /\ \A i \in Of[c] \ {0} : /\ node'[i].next = node[i].next
                                  /\ node'[i].val = node[i].val
    BY <1>0, <1>5, Elsewhere
  <2>2. Quiet(c)' <=> Quiet(c)
    BY <2>1 DEF Quiet
  <2>3. \A i \in Of[c] : /\ given'[c] = Append(sent'[c], node'[i].val) /\ i # 0
                            <=> given[c] = Append(sent[c], node[i].val) /\ i # 0
                         /\ i # 0 => node'[i].next = node[i].next
    BY <2>1
  <2>4. tail[c] \in Of[c] /\ head[c] \in Of[c]
    BY <1>0 DEF ListsOK
  <2>5. ASSUME NEW u \in Threads \ {t}, In(u, c) PROVE Stage(u, c)'
    <3>1. Stage(u, c)
      BY <1>0, <2>5 DEF QueueOK
    <3>2. /\ pc'[u] = pc[u] /\ val'[u] = val[u] /\ new'[u] = new[u] /\ cur'[u] = cur[u]
      BY Others
    <3>3. list[u] = c
      BY <1>0, <2>5, ConstantsOK DEF In, Buffering
    <3>4. pc[u] = "send" => cur[u] \in Of[c]
      BY <3>3 DEF Inv, ThreadsOK, ThreadOK, Buffering
    <3> QED BY <2>1, <2>2, <2>3, <2>4, <3>1, <3>2, <3>4 DEF Stage, Only
  <2> QED BY <1>0, <1>2, <1>5, <2>2, <2>5 DEF QueueOK
<1> QED BY <1>3, <1>4, <1>5

LEMMA MakingStep ==
    ASSUME Inv, Making, NEW t \in Threads, Begins(t) \/ Appends(t) \/ Walks(t)
    PROVE  Making'
<1>0. LocalsOK /\ \A u \in Threads \ {t} : pc'[u] = pc[u]
  BY Others DEF Inv
<1>1. CASE Store(t) \/ Clear(t)
  <2>1. \E p \in {"clear", "raw"} : pc' = [pc EXCEPT ![t] = p]
    BY <1>1 DEF Store, Clear, Goto
  <2> QED BY <1>0, <2>1 DEF Making, LocalsOK
<1>2. CASE MakeBuffer(t)
  BY <1>2 DEF MakeBuffer, Making
<1>3. CASE ~ Store(t) /\ ~ Clear(t) /\ ~ MakeBuffer(t)
  <2>1. UNCHANGED buffer /\ pc[t] \notin {"clear", "raw"}
    BY <1>3 DEF Buffers, Buffered, Extend, Visit, Begins, Subscribe, Connect, Publish,
                Call, Appends, Test, First, Reread,
                SetHead, SetTail, Appended, Link, Ends, Walks, NextSubscriber, Drain,
                Send, ResetTail, RereadReset, ResetHead, At, shared
  <2> QED BY <1>0, <2>1 DEF Making
<1> QED BY <1>1, <1>2, <1>3

\* A step of a thread that puts nothing into a list: it keeps the nodes, and
\* only a reset clears a tail, that of a client.
LEMMA TopicTail ==
    ASSUME Inv, LinksOK, NEW t \in Threads, Begins(t) \/ Appends(t) \/ Walks(t),
           tail[Topic] # 0
    PROVE  tail'[Topic] # 0
<1>0. /\ LocalsOK /\ ListsOK /\ Topic \in Lists /\ tail \in [Lists -> Nat]
      /\ ThreadOK(pc[t], op[t], list[t], val[t], new[t], at[t], cur[t], Of, published)
  BY DEF Inv, Lists, ListsOK, ThreadsOK
<1>1. CASE Begins(t)
  BY <1>1 DEF Begins, Subscribe, Connect, Publish, Call, shared
<1>2. CASE First(t) /\ node' # node
  BY <1>0, <1>2, AddStep
<1>3. CASE First(t) /\ node' = node
  BY <1>3, FirstAdds
<1>4. CASE SetTail(t)
  BY <1>0, <1>4 DEF SetTail, At, LinksOK
<1>5. CASE ResetTail(t)
  <2>1. tail' = [tail EXCEPT ![list[t]] = 0] /\ pc[t] = "send"
    BY <1>5 DEF ResetTail, At
  <2>2. list[t] # Topic
    BY <1>0, <2>1, ConstantsOK DEF ThreadOK, LocalsOK, Appending, Buffering
  <2> QED BY <1>0, <2>1, <2>2
<1>6. CASE Test(t) \/ Reread(t) \/ SetHead(t) \/ Link(t)
  BY <1>6 DEF Test, Reread, SetHead, Link, Ends, shared
<1>7. CASE \/ Buffers(t) \/ NextSubscriber(t)
           \/ Drain(t) \/ Send(t) \/ RereadReset(t) \/ ResetHead(t)
  BY <1>7 DEF Buffering, Buffers, Buffered, Extend, Store, Clear, MakeBuffer,
              NextSubscriber, Visit, Ends, Drain, Send,
              RereadReset, ResetHead, shared
<1> QED BY <1>1, <1>2, <1>3, <1>4, <1>5, <1>6, <1>7 DEF Appends, Walks

LEMMA LinksStep ==
    ASSUME Inv, LinksOK, NEW t \in Threads, Begins(t) \/ Appends(t) \/ Walks(t)
    PROVE  LinksOK'
<1>0. LocalsOK /\ list[t] \in Lists
  BY DEF Inv, LocalsOK
<1>1. ASSUME NEW u \in Threads \ {t}
      PROVE  /\ pc'[u] = "tail" => new'[u] # 0
             /\ pc'[u] \in {"reread", "link"} /\ list'[u] = Topic => tail'[Topic] # 0
  <2>1. pc'[u] = pc[u] /\ list'[u] = list[u] /\ new'[u] = new[u]
    BY Others
  <2> QED BY <2>1, TopicTail DEF LinksOK
\* It suffices to look where t is after the step.
<1>2. ASSUME pc'[t] = "tail" => new'[t] # 0,
             pc'[t] \in {"reread", "link"} /\ list'[t] = Topic => tail'[Topic] # 0
      PROVE  LinksOK'
  BY <1>1, <1>2 DEF LinksOK
<1>3. CASE pc'[t] \notin {"tail", "reread", "link"}
  BY <1>2, <1>3
<1>4. CASE Begins(t)
  BY <1>0, <1>3, <1>4 DEF Begins, Subscribe, Connect, Publish, Call, Goto, LocalsOK
<1>5. CASE Test(t)
  <2>1. /\ pc' = [pc EXCEPT ![t] = IF Empty(list[t]) THEN "first" ELSE "link"]
        /\ UNCHANGED <<tail, list>>
    BY <1>5 DEF Test, Goto, shared, local
  <2>2. pc'[t] = IF Empty(list[t]) THEN "first" ELSE "link"
    BY <1>0, <2>1 DEF LocalsOK
  <2> QED BY <1>2, <2>1, <2>2 DEF Empty
<1>6. CASE (First(t) \/ Link(t)) /\ node' # node
  BY <1>0, <1>2, <1>6, AddStep DEF ListsOK, Inv
<1>7. CASE First(t) /\ node' = node
  BY <1>7, FirstAdds
<1>8. CASE Link(t) /\ node' = node
  <2>1. CASE Ends("null_tail")
    BY <1>2, <2>1, LinksOK DEF Ends, LinksOK, shared, local
  <2>2. CASE ~ Ends("null_tail")
    <3>1. /\ pc' = [pc EXCEPT ![t] = "tail"] /\ new' = [new EXCEPT ![t] = Len(node) + 1]
      BY <1>8, <2>2 DEF Link, Fresh, Goto
    <3>2. pc'[t] = "tail" /\ new'[t] = Len(node) + 1 /\ Len(node) \in Nat
      BY <1>0, <3>1, OfFacts DEF LocalsOK
    <3> QED BY <1>2, <3>2
  <2> QED BY <2>1, <2>2
<1>9. CASE Reread(t) \/ SetHead(t) \/ SetTail(t)
  BY <1>0, <1>3, <1>9 DEF Reread, SetHead, SetTail, Appended, Goto, LocalsOK
<1>10. CASE Buffers(t) \/ NextSubscriber(t)
  BY <1>0, <1>3, <1>10 DEF Buffering, Buffers, Buffered, Extend, Store, Clear,
                           MakeBuffer, NextSubscriber, Visit, Ends, Goto, At,
                           LocalsOK
<1>11. CASE Drain(t) \/ Send(t) \/ ResetTail(t) \/ RereadReset(t) \/ ResetHead(t)
  BY <1>0, <1>3, <1>11 DEF Drain, Send, ResetTail, RereadReset, ResetHead, Goto, At,
                           LocalsOK
<1> QED BY <1>4, <1>5, <1>6, <1>7, <1>8, <1>9, <1>10, <1>11 DEF Appends, Walks

\* Why a thread follows a null pointer.
LEMMA FaultsStep ==
    ASSUME Inv, ExactInv, NEW t \in Threads, Begins(t) \/ Appends(t) \/ Walks(t),
           mixed' = mixed \cup Mixing'
    PROVE  Faults'
<1>0. /\ Mixing \subseteq mixed /\ LinksOK /\ Making /\ Faults /\ mixed \subseteq mixed'
      /\ list[t] \in Clients \cup {Topic} /\ Topic # Buffer
  BY ConstantsOK DEF ExactInv, Inv, LocalsOK, Lists
<1>1. CASE UNCHANGED fault
  BY <1>0, <1>1 DEF Faults
<1>2. CASE Link(t) /\ tail[list[t]] = 0
  <2>1. fault' = "null_tail" /\ pc[t] = "link" /\ In(t, list[t])
    BY <1>2 DEF Link, Ends, At, In, Buffering
  <2>2. list[t] \in Clients
    BY <1>0, <1>2, <2>1 DEF LinksOK
  <2>3. ~ QueueOK(list[t])
    BY <2>1 DEF QueueOK, Stage
  <2>4. list[t] \in mixed
    BY <2>2, <2>3 DEF ExactInv
  <2> QED BY <1>0, <2>1, <2>2, <2>4 DEF Faults
<1>3. CASE Extend(t) /\ Ends("raw_buffer") /\ buffer = "raw"
  <2>1. fault' = "raw_buffer" /\ pc[t] = "extend" /\ In(t, Buffer)
    BY <1>3 DEF Extend, Ends, At, In, Buffering
  <2>2. PICK u \in Threads : pc[u] \in {"clear", "raw"}
    BY <1>0, <1>3 DEF Making
  <2>3. In(u, Buffer) /\ u # t
    BY <2>1, <2>2 DEF In, Buffering
  <2>4. Buffer \in mixed
    BY <1>0, <2>1, <2>3 DEF Mixing
  <2> QED BY <1>0, <2>1, <2>4 DEF Faults
<1>4. UNCHANGED fault \/ (Link(t) /\ tail[list[t]] = 0)
        \/ (Extend(t) /\ Ends("raw_buffer") /\ buffer = "raw")
  <2>1. CASE Begins(t)
    BY <2>1 DEF Begins, Subscribe, Connect, Publish
  <2>2. CASE Appends(t)
    BY <2>2 DEF Appends, Test, First, Reread, SetHead, SetTail, Appended, Link
  <2>3. CASE Walks(t)
    BY <2>3 DEF Walks, Buffering, Buffers, Buffered, Extend, Store, Clear, MakeBuffer,
                NextSubscriber, Visit, Drain, Send,
                ResetTail, RereadReset, ResetHead
  <2> QED BY <2>1, <2>2, <2>3
<1> QED BY <1>1, <1>2, <1>3, <1>4

LEMMA ExactStep ==
    ASSUME Inv, ExactInv, [Next]_vars PROVE ExactInv'
<1>1. CASE UNCHANGED vars
  <2>1. /\ UNCHANGED <<node, head, tail, buffer, pc, list, val, new, cur, fault>>
        /\ UNCHANGED <<given, sent, mixed>>
    BY <1>1 DEF vars, shared, local, history
  <2>2. \A t \in Threads : \A l : In(t, l)' <=> In(t, l)
    BY <2>1 DEF In, Buffering
  <2>3. Mixing' = Mixing
    BY <2>2 DEF Mixing
  <2>4. ASSUME NEW c \in Clients, QueueOK(c) PROVE QueueOK(c)'
    BY <2>1, <2>4 DEF QueueOK, In, Stage, Quiet, Only, Buffering
  <2> QED BY <2>1, <2>3, <2>4 DEF ExactInv, Making, LinksOK, Faults
<1>2. CASE Next
  <2>1. PICK t \in Threads : Begins(t) \/ Appends(t) \/ Walks(t)
    BY <1>2 DEF Next
  <2>2. mixed' = mixed \cup Mixing'
    BY <1>2 DEF Next
  <2>3. \A c \in Clients \ mixed' : QueueOK(c)'
    BY <2>1, <2>2, QueuesStep
  <2>4. Making' /\ LinksOK' /\ Faults'
    BY <2>1, <2>2, MakingStep, LinksStep, FaultsStep DEF ExactInv
  <2> QED BY <2>2, <2>3, <2>4 DEF ExactInv
<1> QED BY <1>1, <1>2

\* A client on whose queue two threads have never been at once gets every
\* message once and in order, however many threads there are and whatever
\* happens to the other queues; and only such a meeting makes a thread follow a
\* null pointer.
THEOREM ExactHolds == Spec => []ExactUnlessMixed
<1>1. ExactInv => ExactUnlessMixed
  BY DEF ExactInv, QueueOK, Quiet, Faults, ExactUnlessMixed
<1>2. Inv /\ ExactInv /\ [Next]_vars => ExactInv'
  BY ExactStep
<1> QED BY <1>1, <1>2, InitOK, StepOK, ExactInit, PTL DEF Spec

-----------------------------------------------------------------------------
(* Subscribers, while no two threads have met on the list of subscribers.  *)

\* The nodes of the list; in their order, each leads to the next or before it.
Members == Of[Topic] \ {0}

Chained == \A i, j \in Members : i < j => node[i].next # 0 /\ node[i].next <= j

\* Head and tail are the first and the last node.
Whole ==
    IF Members = {} THEN head[Topic] = 0 /\ tail[Topic] = 0
    ELSE /\ head[Topic] # 0 /\ tail[Topic] # 0
         /\ \A j \in Members : head[Topic] <= j /\ j <= tail[Topic]

\* Node i is the last of the list, and is for the client of t.
Last(t, i) == /\ i # 0 /\ node[i].val = val[t]
              /\ \A j \in Members : j <= i

\* How far a SUBSCRIBE that is alone on the list has come.
Joining(t) ==
    /\ pc[t] \in {"test", "first", "link"} => Whole
    /\ pc[t] = "first" => Members = {}
    /\ pc[t] = "link" => Members # {}
    /\ pc[t] \in {"reread", "head"} =>
          head[Topic] = 0 /\ Members = {tail[Topic]} /\ Last(t, tail[Topic])
    /\ pc[t] = "head" => new[t] = tail[Topic]
    /\ pc[t] = "tail" => /\ head[Topic] # 0 /\ Last(t, new[t])
                         /\ \A j \in Members : head[Topic] <= j

Shape == /\ Chained
         /\ (\A t \in Threads : ~ In(t, Topic)) => Whole
         /\ \A t \in Threads : In(t, Topic) => Joining(t)

\* A client whose SUBSCRIBE has been handled is in the list.
JoinedOK == \A c \in joined : /\ head[Topic] # 0
                              /\ \E j \in Members : node[j].val = c

\* Client c has been given the message of t, or t is still to come to a node
\* of c.
Due(t, c) ==
    \/ \E k \in DOMAIN given[c] : given[c][k] = val[t]
    \/ \E j \in Members : /\ node[j].val = c
                          /\ pc[t] \notin Buffering => j > at[t]

DueOK == \A t \in Threads :
            /\ known[t] \subseteq joined
            /\ op[t] = "publish" /\ pc[t] # "idle" => \A c \in known[t] : Due(t, c)

ReachInv == Topic \notin mixed => Shape /\ JoinedOK /\ DueOK

\* Only a SUBSCRIBE is ever at the list of subscribers.
LEMMA InTopic ==
    ASSUME Inv, NEW t \in Threads, In(t, Topic)
    PROVE  list[t] = Topic /\ pc[t] \in Appending /\ op[t] = "subscribe"
<1>1. list[t] = Topic /\ pc[t] \in Appending \cup Draining
  BY ConstantsOK DEF In, Appending, Draining, Buffering
<1>2. /\ ThreadOK(pc[t], op[t], list[t], val[t], new[t], at[t], cur[t], Of, published)
      /\ op[t] \in {"none", "subscribe", "connect", "publish"}
  BY DEF Inv, ThreadsOK, LocalsOK
<1> QED BY <1>1, <1>2, ConstantsOK DEF ThreadOK, Appending, Draining, Buffering

LEMMA MembersFacts ==
    ASSUME Inv
    PROVE  /\ \A j \in Members : j \in Nat \ {0} /\ j \in Nodes /\ node[j].val \in Clients
           /\ head[Topic] \in Nat /\ tail[Topic] \in Nat
           /\ head[Topic] # 0 => head[Topic] \in Members
           /\ tail[Topic] # 0 => tail[Topic] \in Members
<1>1. Topic \in Lists /\ NodesOK /\ ListsOK /\ Len(node) \in Nat
  BY OfFacts DEF Lists, Inv
<1>2. \A j \in Members : j \in Nodes /\ node[j].list = Topic /\ j # 0
  BY <1>1, OfFacts DEF Members
<1> QED BY <1>1, <1>2 DEF NodesOK, ListsOK, Members, Nodes

\* A new node of the list is its last.
LEMMA MembersGrow ==
    ASSUME Inv, NEW t \in Threads, list[t] = Topic, NEW i, Len(node') = Len(node) + 1,
           Added(node, node', i, Node(t))
    PROVE  LET n == Len(node) + 1
           IN  /\ Members' = Members \cup {n} /\ n \notin Members /\ n \in Nat \ {0}
               /\ \A j \in Members :
                     /\ j < n /\ node'[j].val = node[j].val
                     /\ node'[j].next = IF j = i THEN n ELSE node[j].next
               /\ node'[n].val = val[t] /\ node'[n].next = 0
<1> DEFINE n == Len(node) + 1
<1>1. Len(node) \in Nat /\ n \in Nat \ {0} /\ Nodes' = Nodes \cup {n} /\ n \notin Nodes
  BY OfFacts DEF Nodes
<1>2. /\ node'[n] = Node(t)
      /\ \A j \in Nodes : /\ node'[j].list = node[j].list /\ node'[j].val = node[j].val
                          /\ node'[j].next = IF j = i THEN n ELSE node[j].next
  BY DEF Added, Nodes
<1>3. Node(t).list = Topic /\ Node(t).val = val[t] /\ Node(t).next = 0
  BY DEF Node
<1>4. \A j \in Members : j \in Nodes /\ j < n
  BY <1>1, MembersFacts DEF Nodes
<1> HIDE DEF n
<1>5. Members' = {j \in Nodes' : node'[j].list = Topic} \ {0}
      /\ Members = {j \in Nodes : node[j].list = Topic} \ {0}
  BY DEF Members, Of, Lists
<1>6. Members' = Members \cup {n} /\ n \notin Members
  BY <1>1, <1>2, <1>3, <1>5
<1> QED BY <1>1, <1>2, <1>3, <1>4, <1>6 DEF n

\* A SUBSCRIBE that is alone on the list goes from stage to stage.
LEMMA OwnTopic ==
    ASSUME Inv, NEW t \in Threads, Appends(t) \/ Walks(t),
           In(t, Topic), Joining(t), Chained
    PROVE  /\ Chained'
           /\ In(t, Topic)' => Joining(t)'
           /\ ~ In(t, Topic)' => Whole'
<1>0. /\ LocalsOK /\ ListsOK /\ Topic \in Lists /\ Topic # Buffer
      /\ head \in [Lists -> Nat] /\ tail \in [Lists -> Nat]
      /\ list[t] = Topic /\ pc[t] \in Appending
  BY ConstantsOK, InTopic DEF Inv, Lists, ListsOK
<1>1. ASSUME UNCHANGED node PROVE Members' = Members /\ Chained'
  <2>1. Members' = Members
    BY <1>1 DEF Members, Of, Nodes
  <2> QED BY <1>1, <2>1 DEF Chained
<1>2. CASE Test(t)
  <2>1. /\ pc[t] = "test" /\ pc' = [pc EXCEPT ![t] = IF Empty(list[t]) THEN "first" ELSE "link"]
        /\ UNCHANGED <<node, head, tail, list>>
    BY <1>2 DEF Test, At, Goto, shared, local
  <2>2. /\ pc'[t] = IF Empty(Topic) THEN "first" ELSE "link"
        /\ Whole
    BY <1>0, <2>1 DEF LocalsOK, Joining
  <2>3. Empty(Topic) <=> Members = {}
    BY <2>2 DEF Whole, Empty
  <2>4. Whole' /\ Members' = Members
    BY <1>1, <2>1, <2>2 DEF Whole
  <2>5. In(t, Topic)' /\ Joining(t)'
    BY <1>0, <2>1, <2>2, <2>3, <2>4 DEF In, Joining, Buffering
  <2> QED BY <1>1, <2>1, <2>5
<1>3. CASE First(t)
  <2> DEFINE n == Len(node) + 1
  <2>1. /\ node' # node /\ pc[t] = "first" /\ Members = {} /\ head[Topic] = 0
    BY <1>3, FirstAdds DEF First, At, Joining, Whole
  <2>2. /\ Added(node, node', 0, Node(t)) /\ Len(node') = n /\ n \in Nat \ {0}
        /\ tail' = [tail EXCEPT ![Topic] = n] /\ UNCHANGED <<head, list, val>>
        /\ pc'[t] = "reread"
    BY <1>0, <1>3, <2>1, AddStep
  <2>3. Members' = {n} /\ node'[n].val = val[t]
    BY <1>0, <2>1, <2>2, MembersGrow
  <2> HIDE DEF n
  <2>4. tail'[Topic] = n /\ Last(t, tail[Topic])'
    BY <1>0, <2>2, <2>3 DEF Last
  <2>5. In(t, Topic)' /\ Joining(t)'
    BY <1>0, <2>1, <2>2, <2>3, <2>4 DEF In, Joining, Last, Buffering
  <2>6. Chained'
    BY <2>2, <2>3 DEF Chained
  <2> QED BY <2>5, <2>6
<1>4. CASE Reread(t)
  <2>1. /\ pc[t] = "reread" /\ pc' = [pc EXCEPT ![t] = "head"]
        /\ new' = [new EXCEPT ![t] = tail[list[t]]]
        /\ UNCHANGED <<node, head, tail, list, val>>
    BY <1>4 DEF Reread, At, Goto, shared
  <2>2. pc'[t] = "head" /\ new'[t] = tail[Topic] /\ Members' = Members
    BY <1>0, <1>1, <2>1 DEF LocalsOK
  <2>3. In(t, Topic)' /\ Joining(t)'
    BY <1>0, <2>1, <2>2 DEF In, Joining, Last, Buffering
  <2> QED BY <1>1, <2>1, <2>3
<1>5. CASE SetHead(t)
  <2>1. /\ pc[t] = "head" /\ head' = [head EXCEPT ![Topic] = new[t]]
        /\ pc' = [pc EXCEPT ![t] = "idle"] /\ UNCHANGED <<node, tail, list>>
    BY <1>0, <1>5 DEF SetHead, Appended, At, Goto
  <2>2. /\ pc'[t] = "idle" /\ head'[Topic] = tail[Topic] /\ Members' = Members
        /\ Members = {tail[Topic]} /\ tail[Topic] # 0 /\ tail[Topic] \in Nat
    BY <1>0, <1>1, <2>1 DEF LocalsOK, Joining, Last
  <2>3. ~ In(t, Topic)' /\ Whole'
    BY <1>0, <2>1, <2>2 DEF In, Whole, Buffering
  <2> QED BY <1>1, <2>1, <2>3
<1>6. CASE Link(t)
  <2> DEFINE n == Len(node) + 1
             m == tail[Topic]
  <2>1. /\ pc[t] = "link" /\ m # 0 /\ head[Topic] # 0 /\ Whole /\ Members # {}
        /\ m \in Members
        /\ \A j \in Members : head[Topic] <= j /\ j <= m
    BY <1>6, MembersFacts DEF Link, At, Joining, Whole
  <2>2. node' # node
    <3>1. m \in 1 .. Len(node) /\ node \in Seq(Rec) /\ Node(t) \in Rec
      BY <1>0, <2>1, MembersFacts DEF Inv, NodesOK, Nodes, Rec, Node, LocalsOK
    <3>2. node' = [Append(node, Node(t)) EXCEPT ![m].next = n]
      BY <1>0, <1>6, <2>1 DEF Link
    <3>3. Added(node, node', m, Node(t))
      BY <3>1, <3>2, AddBehind
    <3> QED BY <3>1, <3>3, LenProperties DEF Added
  <2>3. /\ Added(node, node', m, Node(t)) /\ Len(node') = n
        /\ UNCHANGED <<head, tail, list, val>> /\ pc'[t] = "tail" /\ new'[t] = n
    BY <1>0, <1>6, <2>1, <2>2, AddStep
  <2>4. /\ Members' = Members \cup {n} /\ n \notin Members /\ n \in Nat \ {0}
        /\ \A j \in Members :
              /\ j < n /\ node'[j].val = node[j].val
              /\ node'[j].next = IF j = m THEN n ELSE node[j].next
        /\ node'[n].val = val[t] /\ node'[n].next = 0
    BY <1>0, <2>3, MembersGrow
  <2> HIDE DEF n, m
  <2>5. \A j \in Members : j \in Nat
    BY MembersFacts
  <2>6. Chained'
    <3> SUFFICES ASSUME NEW i \in Members', NEW j \in Members', i < j
                 PROVE  node'[i].next # 0 /\ node'[i].next <= j
      BY DEF Chained
    <3>1. i \in Members
      BY <2>4, <2>5
    <3>2. CASE i = m
      <4>1. j = n
        BY <2>1, <2>4, <2>5, <3>2
      <4> QED BY <2>4, <3>1, <3>2, <4>1
    <3>3. CASE i # m
      <4>1. i < m /\ node[i].next # 0 /\ node[i].next <= m
        BY <2>1, <2>5, <3>1, <3>3 DEF Chained
      <4>2. CASE j \in Members
        BY <2>4, <3>1, <3>3, <4>2 DEF Chained
      <4>3. CASE j = n
        <5>1. node[i].next \in Nat
          <6>1. i \in Nodes /\ node[i].list = Topic
            BY <3>1, OfFacts, <1>0 DEF Members
          <6>2. node[i].next \in Of[Topic]
            BY <6>1 DEF Inv, NodesOK
          <6> QED BY <1>0, <6>2, OfFacts DEF Pointers
        <5> QED BY <2>1, <2>4, <2>5, <3>1, <3>3, <4>1, <4>3, <5>1
      <4> QED BY <2>4, <4>2, <4>3
    <3> QED BY <3>2, <3>3
  <2>7. Last(t, new[t])' /\ \A j \in Members' : head'[Topic] <= j
    <3>1. head[Topic] \in Members
      BY <2>1, MembersFacts
    <3> QED BY <2>1, <2>3, <2>4, <2>5, <3>1 DEF Last
  <2>8. In(t, Topic)' /\ Joining(t)'
    BY <1>0, <2>1, <2>3, <2>7 DEF In, Joining, Last, Buffering
  <2> QED BY <2>6, <2>8
<1>7. CASE SetTail(t)
  <2>1. /\ pc[t] = "tail" /\ tail' = [tail EXCEPT ![Topic] = new[t]]
        /\ pc' = [pc EXCEPT ![t] = "idle"] /\ UNCHANGED <<node, head, list>>
    BY <1>0, <1>7 DEF SetTail, Appended, At, Goto
  <2>2. new[t] \in Of[Topic]
    BY <1>0, <2>1 DEF Inv, ThreadsOK, ThreadOK, Buffering
  <2>3. /\ pc'[t] = "idle" /\ tail'[Topic] = new[t] /\ Members' = Members
        /\ head[Topic] # 0 /\ new[t] # 0 /\ new[t] \in Members
        /\ \A j \in Members : head[Topic] <= j /\ j <= new[t]
    BY <1>0, <1>1, <2>1, <2>2 DEF LocalsOK, Joining, Last, Members
  <2>4. ~ In(t, Topic)' /\ Whole'
    BY <1>0, <2>1, <2>3 DEF In, Whole, Buffering
  <2> QED BY <1>1, <2>1, <2>4
<1>8. ~ Walks(t)
  BY <1>0 DEF Walks, Buffering, Buffers, Buffered, Extend, Store, Clear, MakeBuffer,
              NextSubscriber, Drain, Send, ResetTail,
              RereadReset, ResetHead, At, Appending
<1> QED BY <1>2, <1>3, <1>4, <1>5, <1>6, <1>7, <1>8 DEF Appends

LEMMA ShapeStep ==
    ASSUME Inv, Shape, NEW t \in Threads, Begins(t) \/ Appends(t) \/ Walks(t),
           Topic \notin Mixing, Topic \notin Mixing'
    PROVE  Shape'
<1>0. /\ Topic \in Lists /\ LocalsOK /\ Chained
      /\ \A u, w \in Threads : u # w => ~ (In(u, Topic) /\ In(w, Topic))
      /\ \A u, w \in Threads : u # w => ~ (In(u, Topic)' /\ In(w, Topic)')
  BY DEF Lists, Inv, Shape, Mixing
<1>1. \A u \in Threads \ {t} : In(u, Topic)' <=> In(u, Topic)
  BY OthersIn
<1>2. CASE In(t, Topic)
  <2>1. Joining(t) /\ \A u \in Threads \ {t} : ~ In(u, Topic)'
    BY <1>0, <1>1, <1>2 DEF Shape
  <2>2. ~ Begins(t)
    BY <1>2, InTopic DEF Begins, Subscribe, Connect, Publish, Call, At, Appending, Buffering
  <2>3. /\ Chained' /\ (In(t, Topic)' => Joining(t)')
        /\ (~ In(t, Topic)' => Whole')
    BY <1>0, <1>2, <2>1, <2>2, OwnTopic
  <2> QED BY <2>1, <2>3 DEF Shape
<1>3. CASE ~ In(t, Topic)
  <2>1. /\ head'[Topic] = head[Topic] /\ tail'[Topic] = tail[Topic] /\ Members' = Members
        /\ \A i \in Members : node'[i].next = node[i].next /\ node'[i].val = node[i].val
    BY <1>0, <1>3, OtherLists DEF Members
  <2>2. Chained' /\ (Whole => Whole')
    BY <1>0, <2>1 DEF Chained, Whole
  <2>3. CASE In(t, Topic)'
    <3>1. \A u \in Threads : ~ In(u, Topic)
      BY <1>0, <1>1, <1>3, <2>3
    <3>2. Whole' /\ Members' = Members
      BY <2>1, <2>2, <3>1 DEF Shape
    <3>3. pc'[t] = "test"
      <4>1. CASE Begins(t)
        <5>1. pc' = [pc EXCEPT ![t] = pc'[t]] /\ pc'[t] \in {"test", "drain", "buffer"}
              /\ (pc'[t] = "drain" => \E c \in Clients : list' = [list EXCEPT ![t] = c])
          BY <1>0, <4>1 DEF Begins, Subscribe, Connect, Publish, Call, Goto, LocalsOK
        <5> QED BY <1>0, <2>3, <5>1, ConstantsOK DEF In, LocalsOK, Buffering
      <4>2. CASE Appends(t)
        <5>1. UNCHANGED list /\ pc[t] \in Appending
          BY <4>2 DEF Appends, Test, First, Fresh, Reread, SetHead, SetTail, Appended,
                      Link, Ends, local, At, Appending, Buffering
        <5> QED BY <1>3, <2>3, <5>1, ConstantsOK DEF In, Appending, Buffering
      <4>3. CASE Drain(t) \/ Send(t) \/ ResetTail(t) \/ RereadReset(t) \/ ResetHead(t)
        <5>1. UNCHANGED list /\ pc[t] \in Draining
          BY <4>3 DEF Drain, Send, ResetTail, RereadReset, ResetHead, local, At,
                      Draining, Buffering
        <5> QED BY <1>3, <2>3, <5>1, ConstantsOK DEF In, Draining, Buffering
      <4>4. CASE Buffers(t) \/ NextSubscriber(t)
        <5>1. /\ pc[t] \in Buffering \cup {"next"}
              /\ \/ pc' = pc
                 \/ \E p \in Buffering : pc' = [pc EXCEPT ![t] = p]
                 \/ pc' = [pc EXCEPT ![t] = "idle"]
                 \/ pc' = [pc EXCEPT ![t] = "test"]
          BY <4>4 DEF Buffering, Buffers, Buffered, Extend, Store, Clear, MakeBuffer,
                      NextSubscriber, Visit, Ends, Goto, At
        <5> QED BY <1>0, <2>3, <5>1, ConstantsOK DEF In, LocalsOK, Buffering
      <4> QED BY <4>1, <4>2, <4>3, <4>4 DEF Walks
    <3>4. Joining(t)'
      BY <3>2, <3>3 DEF Joining
    <3>5. \A u \in Threads \ {t} : ~ In(u, Topic)'
      BY <1>1, <3>1
    <3> QED BY <2>2, <2>3, <3>4, <3>5 DEF Shape
  <2>4. CASE ~ In(t, Topic)'
    <3>1. ASSUME NEW u \in Threads \ {t}, In(u, Topic) PROVE Joining(u)'
      <4>1. Joining(u) /\ pc'[u] = pc[u] /\ val'[u] = val[u] /\ new'[u] = new[u]
        BY <3>1, Others DEF Shape
      <4>2. list[u] = Topic /\ pc[u] \in Appending
        BY <3>1, InTopic
      <4>3. pc[u] \in {"reread", "head"} => tail[Topic] \in Members
        BY <4>1 DEF Joining
      <4>4. pc[u] = "tail" => new[u] \in Members
        BY <4>1, <4>2 DEF Inv, ThreadsOK, ThreadOK, Members, Joining, Last, Buffering
      <4> QED BY <2>1, <2>2, <4>1, <4>3, <4>4 DEF Joining, Last
    <3>2. (\A u \in Threads : ~ In(u, Topic)') => Whole'
      BY <1>1, <1>3, <2>2 DEF Shape
    <3> QED BY <1>1, <2>2, <2>4, <3>1, <3>2 DEF Shape
  <2> QED BY <2>3, <2>4
<1> QED BY <1>2, <1>3

\* The first node is the head, once there is one.
LEMMA HeadFirst ==
    ASSUME Inv, Shape, head[Topic] # 0, NEW j \in Members PROVE head[Topic] <= j
<1>1. CASE \A t \in Threads : ~ In(t, Topic)
  BY <1>1 DEF Shape, Whole
<1>2. CASE \E t \in Threads : In(t, Topic)
  <2>1. PICK t \in Threads : In(t, Topic)
    BY <1>2
  <2>2. Joining(t) /\ pc[t] \in Appending
    BY <2>1, InTopic DEF Shape
  <2> QED BY <2>2 DEF Joining, Whole, Appending, Buffering
<1> QED BY <1>1, <1>2

\* Nodes stay in the list with what they hold, and it keeps its head.
LEMMA MembersStay ==
    ASSUME Inv, Shape, NEW t \in Threads, Begins(t) \/ Appends(t) \/ Walks(t)
    PROVE  /\ \A j \in Members : j \in Members' /\ node'[j].val = node[j].val
           /\ head[Topic] # 0 => head'[Topic] # 0
<1>0. Topic \in Lists /\ ListsOK
  BY DEF Lists, Inv
<1>1. CASE ~ In(t, Topic)
  BY <1>0, <1>1, OtherLists DEF Members
<1>2. CASE In(t, Topic)
  <2>1. list[t] = Topic /\ pc[t] \in Appending /\ Joining(t)
    BY <1>2, InTopic DEF Shape
  <2>2. CASE (First(t) \/ Link(t)) /\ node' # node
    <3> DEFINE i == IF pc[t] = "first" THEN 0 ELSE tail[list[t]]
    <3>1. Added(node, node', i, Node(t)) /\ Len(node') = Len(node) + 1 /\ UNCHANGED head
      BY <2>2, AddStep
    <3> HIDE DEF i
    <3>2. \A j \in Members : j \in Members' /\ node'[j].val = node[j].val
      BY <2>1, <3>1, MembersGrow
    <3> QED BY <3>1, <3>2
  <2>3. CASE ~ ((First(t) \/ Link(t)) /\ node' # node)
    <3>1. UNCHANGED node
      BY <2>1, <2>3 DEF Begins, Subscribe, Connect, Publish, Call, Appends, Test, Reread,
            SetHead, SetTail, Appended, Walks, Buffers, Buffered, Extend, Store, Clear,
            MakeBuffer, NextSubscriber,
            Drain, Send, ResetTail, RereadReset, ResetHead, At, Appending, shared, Buffering
    <3>2. Members' = Members
      BY <3>1 DEF Members, Of, Nodes
    <3>3. head' = head \/ SetHead(t)
      BY <2>1 DEF Begins, Subscribe, Connect, Publish, Call, Appends, Test, First, Reread,
            Link, Ends, SetTail, Walks, Buffers, Buffered, Extend, Store, Clear,
            MakeBuffer, NextSubscriber,
            Drain, Send, ResetTail, RereadReset, ResetHead, At, Appending, shared, Buffering
    <3>4. SetHead(t) => head[Topic] = 0
      BY <2>1 DEF SetHead, At, Joining
    <3> QED BY <3>1, <3>2, <3>3, <3>4
  <2> QED BY <2>2, <2>3
<1> QED BY <1>1, <1>2

\* What has been given stays given.
LEMMA GivenStays ==
    ASSUME Inv, NEW t \in Threads, Begins(t) \/ Appends(t) \/ Walks(t),
           NEW c \in Clients, NEW k \in DOMAIN given[c]
    PROVE  k \in DOMAIN given'[c] /\ given'[c][k] = given[c][k]
<1>1. given \in [Clients -> Seq(1 .. published)]
  BY DEF Inv, HistoryOK
<1>2. CASE given' = given
  BY <1>2
<1>3. CASE \E n : n # 0 /\ Visit(t, n)
  <2>1. PICK n : n # 0 /\ Visit(t, n)
    BY <1>3
  <2> DEFINE d == node[n].val
  <2>2. given' = [given EXCEPT ![d] = Append(@, val[t])]
    BY <2>1 DEF Visit
  <2> HIDE DEF d
  <2>3. CASE d = c
    <3>1. given'[c] = Append(given[c], val[t])
      BY <1>1, <2>2, <2>3
    <3> QED BY <1>1, <3>1
  <2>4. CASE d # c
    BY <1>1, <2>2, <2>4
  <2> QED BY <2>3, <2>4
<1>4. given' = given \/ \E n : n # 0 /\ Visit(t, n)
  <2>1. \A n : Visit(t, n) => n # 0 \/ given' = given
    BY DEF Visit
  <2> QED BY <2>1 DEF Begins, Subscribe, Connect, Publish, Appends, Test, First, Reread,
         SetHead, SetTail, Appended, Link, Ends, Walks, Buffers, Buffered, Extend, Store,
         Clear, MakeBuffer,
         NextSubscriber, Drain, Send, ResetTail, RereadReset, ResetHead, history
<1> QED BY <1>2, <1>3, <1>4

LEMMA JoinedStep ==
    ASSUME Inv, Shape, JoinedOK, NEW t \in Threads, Begins(t) \/ Appends(t) \/ Walks(t)
    PROVE  JoinedOK' /\ joined \subseteq joined'
<1>0. /\ LocalsOK /\ Topic \in Lists /\ head \in [Lists -> Nat]
  BY DEF Inv, Lists, ListsOK
<1>1. ASSUME NEW c \in joined
      PROVE  head'[Topic] # 0 /\ \E j \in Members' : node'[j].val = c
  BY <1>1, MembersStay DEF JoinedOK
<1>2. CASE joined' = joined
  BY <1>1, <1>2 DEF JoinedOK
<1>3. CASE (SetHead(t) \/ SetTail(t)) /\ list[t] = Topic
  <2>1. /\ joined' = joined \cup {val[t]} /\ pc[t] \in {"head", "tail"}
        /\ UNCHANGED node
    BY <1>3 DEF SetHead, SetTail, Appended, At
  <2>2. Joining(t) /\ Members' = Members
    BY <1>3, <2>1 DEF Shape, In, Members, Of, Nodes, Buffering
  <2>3. new[t] \in Members /\ node[new[t]].val = val[t]
    <3>1. new[t] \in Of[Topic]
      BY <1>3, <2>1 DEF Inv, ThreadsOK, ThreadOK, Buffering
    <3> QED BY <2>1, <2>2, <3>1 DEF Joining, Last, Members
  <2>4. head'[Topic] # 0
    <3>1. CASE SetHead(t)
      <4>1. head' = [head EXCEPT ![Topic] = new[t]]
        BY <1>3, <3>1 DEF SetHead
      <4> QED BY <1>0, <2>3, <4>1 DEF Members
    <3>2. CASE SetTail(t)
      BY <2>2, <3>2 DEF SetTail, At, Joining
    <3> QED BY <1>3, <3>1, <3>2
  <2> QED BY <1>1, <2>1, <2>2, <2>3, <2>4 DEF JoinedOK
<1>4. joined' = joined \/ ((SetHead(t) \/ SetTail(t)) /\ list[t] = Topic)
  BY DEF Begins, Subscribe, Connect, Publish, Appends, Test, First, Reread, SetHead,
         SetTail, Appended, Link, Ends, Walks, Buffers, Buffered, Extend, Store, Clear,
         MakeBuffer, NextSubscriber,
         Visit, Drain, Send, ResetTail, RereadReset, ResetHead, history
<1> QED BY <1>2, <1>3, <1>4 DEF JoinedOK

\* No walk goes past a node that is still due.
LEMMA Reaches ==
    ASSUME Inv, Shape, JoinedOK, NEW t \in Threads, known[t] \subseteq joined,
           NEW c \in known[t], Due(t, c),
           NEW n, \/ pc[t] \in Buffering /\ n = head[Topic]
                  \/ pc[t] = "next" /\ n = node[at[t]].next
    PROVE  \/ \E k \in DOMAIN given[c] : given[c][k] = val[t]
           \/ n # 0 /\ \E j \in Members : node[j].val = c /\ n <= j
<1> SUFFICES ASSUME ~ \E k \in DOMAIN given[c] : given[c][k] = val[t]
             PROVE  n # 0 /\ \E j \in Members : node[j].val = c /\ n <= j
  OBVIOUS
<1>1. PICK j \in Members : /\ node[j].val = c
                           /\ pc[t] \notin Buffering => j > at[t]
  BY DEF Due, Buffering
<1>2. CASE pc[t] \in Buffering /\ n = head[Topic]
  BY <1>1, <1>2, HeadFirst DEF JoinedOK
<1>3. CASE pc[t] = "next" /\ n = node[at[t]].next
  <2>1. at[t] \in Members
    BY <1>3 DEF Inv, ThreadsOK, ThreadOK, Members, Buffering
  <2>2. at[t] < j
    BY <1>1, <1>3, <2>1, MembersFacts DEF Buffering
  <2> QED BY <1>1, <1>3, <2>1, <2>2 DEF Shape, Chained
<1> QED BY <1>2, <1>3

LEMMA DueStep ==
    ASSUME Inv, Shape, JoinedOK, DueOK, NEW t \in Threads,
           Begins(t) \/ Appends(t) \/ Walks(t)
    PROVE  DueOK'
<1>0. /\ LocalsOK /\ HistoryOK /\ joined \subseteq joined' /\ joined \subseteq Clients
      /\ known \in [Threads -> SUBSET Clients]
  BY JoinedStep DEF Inv, HistoryOK
<1>1. ASSUME NEW u \in Threads, NEW c \in known[u], Due(u, c), val'[u] = val[u],
             at'[u] = at[u], pc'[u] \notin Buffering => pc[u] \notin Buffering
      PROVE  Due(u, c)'
  <2>1. c \in Clients
    BY <1>0
  <2>2. CASE \E k \in DOMAIN given[c] : given[c][k] = val[u]
    BY <1>1, <2>1, <2>2, GivenStays DEF Due, Buffering
  <2>3. CASE \E j \in Members : /\ node[j].val = c
                                /\ pc[u] \notin Buffering => j > at[u]
    BY <1>1, <2>3, MembersStay DEF Due, Buffering
  <2> QED BY <1>1, <2>2, <2>3 DEF Due, Buffering
<1>2. ASSUME NEW u \in Threads \ {t}
      PROVE  /\ known'[u] \subseteq joined'
             /\ op'[u] = "publish" /\ pc'[u] # "idle" => \A c \in known'[u] : Due(u, c)'
  BY <1>0, <1>1, Others DEF DueOK
\* It suffices to look at t.
<1>3. ASSUME known'[t] \subseteq joined',
             op'[t] = "publish" /\ pc'[t] # "idle" => \A c \in known'[t] : Due(t, c)'
      PROVE  DueOK'
  BY <1>2, <1>3 DEF DueOK
<1>4. known[t] \subseteq joined /\ known[t] \subseteq joined'
  BY <1>0 DEF DueOK
<1>5. CASE Publish(t)
  <2>1. /\ op' = [op EXCEPT ![t] = "publish"] /\ known' = [known EXCEPT ![t] = joined]
        /\ pc' = [pc EXCEPT ![t] = "buffer"] /\ UNCHANGED node
    BY <1>5 DEF Publish, Call, Goto, shared
  <2>2. known'[t] = joined /\ pc'[t] = "buffer" /\ Members' = Members
    BY <1>0, <2>1 DEF LocalsOK, Members, Of, Nodes
  <2>3. \A c \in known'[t] : Due(t, c)'
    BY <2>1, <2>2 DEF JoinedOK, Due, Buffering
  <2> QED BY <1>0, <1>3, <2>2, <2>3
<1>6. CASE \E c \in Clients : Subscribe(t, c) \/ Connect(t, c)
  <2>1. /\ op' = [op EXCEPT ![t] = op'[t]] /\ op'[t] \in {"subscribe", "connect"}
        /\ UNCHANGED known
    BY <1>0, <1>6 DEF Subscribe, Connect, Call, LocalsOK, history
  <2> QED BY <1>3, <1>4, <2>1
<1>7. ASSUME NEW n, n # 0, Visit(t, n), UNCHANGED node,
             \/ pc[t] \in Buffering /\ n = head[Topic]
             \/ pc[t] = "next" /\ n = node[at[t]].next
      PROVE  DueOK'
  <2>1. /\ at' = [at EXCEPT ![t] = n] /\ UNCHANGED <<op, val, known>>
        /\ given' = [given EXCEPT ![node[n].val] = Append(@, val[t])]
    BY <1>7 DEF Visit
  <2>2. op[t] = "publish" /\ pc[t] # "idle"
    BY <1>7 DEF Inv, ThreadsOK, ThreadOK, Buffering
  <2>3. Members' = Members /\ at'[t] = n
    BY <1>0, <1>7, <2>1 DEF LocalsOK, Members, Of, Nodes
  <2>4. ASSUME NEW c \in known[t] PROVE Due(t, c)'
    <3>1. Due(t, c) /\ c \in Clients
      BY <1>0, <2>2 DEF DueOK
    <3>2. \/ \E k \in DOMAIN given[c] : given[c][k] = val[t]
          \/ \E j \in Members : node[j].val = c /\ n <= j
      BY <1>4, <1>7, <3>1, Reaches
    <3>3. CASE \E k \in DOMAIN given[c] : given[c][k] = val[t]
      BY <2>1, <3>1, <3>3, GivenStays DEF Due, Buffering
    <3>4. CASE \E j \in Members : node[j].val = c /\ n <= j
      <4>1. PICK j \in Members : node[j].val = c /\ n <= j
        BY <3>4
      <4>2. CASE j = n
        <5>1. given'[c] = Append(given[c], val[t]) /\ given[c] \in Seq(1 .. published)
          BY <1>0, <2>1, <3>1, <4>1, <4>2 DEF HistoryOK
        <5>2. Len(given[c]) + 1 \in DOMAIN given'[c]
              /\ given'[c][Len(given[c]) + 1] = val[t]
          BY <5>1
        <5> QED BY <2>1, <5>2 DEF Due, Buffering
      <4>3. CASE j # n
        <5>1. n \in Nat /\ j \in Nat
          <6>1. head[Topic] \in Nat
            BY MembersFacts
          <6>2. pc[t] = "next" => node[at[t]].next \in Nat
            <7>1. SUFFICES ASSUME pc[t] = "next" PROVE node[at[t]].next \in Nat
              OBVIOUS
            <7>2. at[t] \in Nodes /\ node[at[t]].list = Topic /\ Topic \in Lists
              BY <2>2, <7>1, OfFacts DEF Inv, ThreadsOK, ThreadOK, Lists, Buffering
            <7>3. node[at[t]].next \in Of[Topic]
              BY <7>2 DEF Inv, NodesOK
            <7> QED BY <7>2, <7>3, OfFacts DEF Pointers
          <6> QED BY <1>7, <4>1, <6>1, <6>2, MembersFacts
        <5>2. j > n
          BY <4>1, <4>3, <5>1
        <5>3. node'[j].val = c /\ j \in Members' /\ j > at'[t]
          BY <1>7, <2>3, <4>1, <5>2
        <5> QED BY <5>3 DEF Due, Buffering
      <4> QED BY <4>2, <4>3
    <3> QED BY <3>2, <3>3, <3>4
  <2> QED BY <1>3, <1>4, <2>1, <2>4
<1>8. CASE /\ op'[t] = op[t] /\ val'[t] = val[t] /\ at'[t] = at[t] /\ known'[t] = known[t]
           /\ pc'[t] # "idle" => pc[t] # "idle"
           /\ pc'[t] \notin Buffering => pc[t] \notin Buffering
  <2>1. op'[t] = "publish" /\ pc'[t] # "idle" => \A c \in known'[t] : Due(t, c)'
    BY <1>1, <1>8 DEF DueOK
  <2> QED BY <1>3, <1>4, <1>8, <2>1
<1>9. CASE Appends(t) \/ Drain(t) \/ Send(t) \/ ResetTail(t) \/ RereadReset(t) \/ ResetHead(t)
  <2>1. /\ UNCHANGED <<op, val, at, known>> /\ pc[t] \in Appending \cup Draining
    BY <1>9 DEF Appends, Test, First, Fresh, Reread, SetHead, SetTail, Appended, Link,
                Ends, Drain, Send, ResetTail, RereadReset, ResetHead, At, local, history,
                Appending, Draining, Buffering
  <2> QED BY <1>8, <2>1 DEF Appending, Draining, Buffering
<1>10. CASE Buffers(t) \/ NextSubscriber(t)
  <2>1. \/ pc[t] = "extend" /\ Ends("raw_buffer")
        \/ /\ pc[t] \in Buffering /\ \E p \in Buffering : pc' = [pc EXCEPT ![t] = p]
           /\ UNCHANGED <<local, history>>
        \/ /\ UNCHANGED node
           /\ \/ pc[t] \in Buffering /\ Visit(t, head[Topic])
              \/ pc[t] = "next" /\ Visit(t, node[at[t]].next)
    BY <1>10 DEF Buffering, Buffers, Buffered, Extend, Store, Clear, MakeBuffer,
                 NextSubscriber, Visit, Goto, At
  <2>2. CASE pc[t] = "extend" /\ Ends("raw_buffer")
    BY <1>8, <2>2 DEF Ends, local, history
  <2>3. CASE /\ pc[t] \in Buffering /\ \E p \in Buffering : pc' = [pc EXCEPT ![t] = p]
             /\ UNCHANGED <<local, history>>
    <3>1. pc'[t] \in Buffering /\ UNCHANGED <<op, val, at, known>>
      BY <1>0, <2>3 DEF LocalsOK, local, history
    <3> QED BY <1>8, <2>3, <3>1 DEF Buffering
  <2>4. ASSUME Visit(t, 0) PROVE DueOK'
    <3>1. pc' = [pc EXCEPT ![t] = "idle"] /\ UNCHANGED known
      BY <2>4 DEF Visit, Goto
    <3>2. pc'[t] = "idle"
      BY <1>0, <3>1 DEF LocalsOK
    <3> QED BY <1>3, <1>4, <3>1, <3>2
  <2> QED BY <1>7, <2>1, <2>2, <2>3, <2>4
<1> QED BY <1>5, <1>6, <1>9, <1>10 DEF Begins, Walks

LEMMA ReachInit == Init => ReachInv
<1> SUFFICES ASSUME Init PROVE Shape /\ JoinedOK /\ DueOK
  BY DEF ReachInv
<1>1. Nodes = {} /\ Topic \in Lists
  BY DEF Init, Nodes, Lists
<1>2. Members = {}
  BY <1>1 DEF Members, Of
<1>3. Shape
  BY <1>1, <1>2, ConstantsOK DEF Init, Shape, Chained, Whole, In, Buffering
<1> QED BY <1>3 DEF Init, JoinedOK, DueOK

LEMMA ReachStep ==
    ASSUME Inv, ExactInv, ReachInv, [Next]_vars PROVE ReachInv'
<1>1. CASE UNCHANGED vars
  <2>1. /\ UNCHANGED <<node, head, tail, pc, op, list, val, new, at>>
        /\ UNCHANGED <<given, joined, known, mixed>>
    BY <1>1 DEF vars, shared, local, history
  <2>2. Members' = Members
    BY <2>1 DEF Members, Of, Nodes
  <2>3. \A t \in Threads : (In(t, Topic)' <=> In(t, Topic)) /\ (Joining(t)' <=> Joining(t))
    BY <2>1, <2>2 DEF In, Joining, Whole, Last, Buffering
  <2>4. (Shape' <=> Shape) /\ (JoinedOK' <=> JoinedOK) /\ (DueOK' <=> DueOK)
    BY <2>1, <2>2, <2>3 DEF Shape, Chained, Whole, JoinedOK, DueOK, Due, Buffering
  <2> QED BY <2>1, <2>4 DEF ReachInv
<1>2. CASE Next
  <2> SUFFICES ASSUME Topic \notin mixed' PROVE (Shape /\ JoinedOK /\ DueOK)'
    BY DEF ReachInv
  <2>1. PICK t \in Threads : Begins(t) \/ Appends(t) \/ Walks(t)
    BY <1>2 DEF Next
  <2>2. Topic \notin mixed /\ Topic \notin Mixing /\ Topic \notin Mixing'
    BY <1>2 DEF Next, ExactInv
  <2>3. Shape /\ JoinedOK /\ DueOK
    BY <2>2 DEF ReachInv
  <2> QED BY <2>1, <2>2, <2>3, ShapeStep, JoinedStep, DueStep
<1> QED BY <1>1, <1>2

\* Whoever was subscribed when a PUBLISH began has been given the message when
\* it ends, for any numbers of threads, clients and packets, if no two
\* SUBSCRIBEs have ever overlapped: the walk passes no node.
THEOREM EarlierReachedHolds == Spec => EarlierSubscribersReached
<1> DEFINE Ended == \A t \in Threads :
               op[t] = "publish" /\ pc[t] # "idle" /\ pc'[t] = "idle"
                                 /\ Topic \notin mixed
                   => \A c \in known[t] :
                         \E i \in DOMAIN given'[c] : given'[c][i] = val[t]
<1>1. ASSUME Inv, ReachInv, [Next]_vars PROVE [Ended]_vars
  <2> SUFFICES ASSUME Next, NEW u \in Threads, NEW c \in known[u],
                      op[u] = "publish", pc[u] # "idle", pc'[u] = "idle",
                      Topic \notin mixed
               PROVE  \E i \in DOMAIN given'[c] : given'[c][i] = val[u]
    BY <1>1
  <2>1. PICK t \in Threads : Begins(t) \/ Appends(t) \/ Walks(t)
    BY DEF Next
  <2>2. t = u /\ LocalsOK
    BY <1>1, <2>1, Others DEF Inv
  <2>3. /\ Shape /\ JoinedOK /\ known[u] \subseteq joined /\ Due(u, c) /\ c \in Clients
    BY <1>1 DEF ReachInv, DueOK, Inv, HistoryOK
  <2>4. list[u] # Topic \/ pc[u] \notin Appending
    BY <1>1, InTopic DEF In, Appending, Buffering
  <2>5. \/ pc[u] \in Buffering /\ head[Topic] = 0
        \/ pc[u] = "next" /\ node[at[u]].next = 0
    <3>1. CASE Begins(u)
      BY <3>1 DEF Begins, Subscribe, Connect, Publish, Call, At
    <3>2. CASE Appends(u)
      BY <2>2, <2>4, <3>2 DEF Appends, Test, First, Reread, SetHead, SetTail, Appended,
            Link, Ends, At, Goto, Appending, LocalsOK, Buffering
    <3>3. CASE Drain(u) \/ Send(u) \/ ResetTail(u) \/ RereadReset(u) \/ ResetHead(u)
      BY <2>2, <3>3 DEF Drain, Send, ResetTail, RereadReset, ResetHead, At, Goto, LocalsOK
    <3>4. CASE Buffers(u) \/ NextSubscriber(u)
      BY <2>2, <3>4 DEF Buffering, Buffers, Buffered, Extend, Store, Clear, MakeBuffer,
                        NextSubscriber, Visit, Ends, At, Goto, LocalsOK
    <3> QED BY <2>1, <2>2, <3>1, <3>2, <3>3, <3>4 DEF Walks
  <2>6. \E k \in DOMAIN given[c] : given[c][k] = val[u]
    BY <1>1, <2>3, <2>5, Reaches
  <2> QED BY <1>1, <2>1, <2>3, <2>6, GivenStays
<1>2. Inv /\ ExactInv /\ [Next]_vars => ExactInv'
  BY ExactStep
<1>3. Inv /\ ExactInv /\ ReachInv /\ [Next]_vars => ReachInv'
  BY ReachStep
<1> QED BY <1>1, <1>2, <1>3, InitOK, StepOK, ExactInit, ReachInit, PTL
        DEF Spec, EarlierSubscribersReached
=============================================================================

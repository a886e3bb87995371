------------------------------- MODULE Fanout -------------------------------
(***************************************************************************)
(* The lists of mqtt_message.c under concurrent handler threads: the       *)
(* subscribers of one topic (clients_head, clients_tail), the queue of     *)
(* each client (head_nsend, tail_nsend), and the making of msg_bf_list.    *)
(* None of them has a lock.  Each access another thread can see is a step. *)
(*                                                                         *)
(* A list is named by whose it is, Topic or a client.  A node is its       *)
(* number, in the order in which nodes are put into lists; 0 is NULL, and  *)
(* a node not yet in a list is its thread's own.  A message is its number. *)
(* Clients keep their descriptors; what reused ones do is in Delivery.     *)
(***************************************************************************)
EXTENDS Naturals, Sequences

CONSTANTS Threads,   \* handler threads
          Clients,   \* clients with a node in the client table
          Topic,     \* the list of subscribers
          Buffer,    \* msg_bf_list, as something two threads can be at
          MaxCalls   \* bound on the packets handled

ASSUME ConstantsOK ==
    /\ Topic \notin Clients /\ Buffer \notin Clients /\ Topic # Buffer
    /\ MaxCalls \in Nat

Lists == Clients \cup {Topic}

VARIABLES
    node,       \* the nodes: their list, what they hold, next
    head,       \* of each list
    tail,
    buffer,     \* msg_bf_list: "none", "raw" (no tail yet), or "ready"
    pc,         \* where each thread stands
    op,         \* the packet it handles
    list,       \* the list it appends to or drains
    val,        \* what it appends
    new,        \* its node, once in the list, or what becomes the head
    at,         \* node of _mqtt_topic_add_msg, the subscriber it is at
    cur,        \* n of mqtt_send_client_msg, or what becomes the head
    calls,      \* packets handled so far
    published,  \* messages published so far
    fault,      \* why the process has ended, "none" while it runs
    given,      \* history: the messages distributed to each client
    sent,       \* history: the messages sent to each client
    joined,     \* history: the clients whose SUBSCRIBE has been handled
    known,      \* history: joined, when the thread's PUBLISH began
    mixed       \* history: where two threads have been at the same time

shared == <<node, head, tail, buffer>>
local == <<op, list, val, new, at, cur>>
count == <<calls, published>>
history == <<given, sent, joined, known>>
vars == <<shared, pc, local, count, fault, history, mixed>>

Init ==
    /\ node = <<>>
    /\ head = [l \in Lists |-> 0] /\ tail = [l \in Lists |-> 0]
    /\ buffer = "none"
    /\ pc = [t \in Threads |-> "idle"]
    /\ op = [t \in Threads |-> "none"]
    /\ list = [t \in Threads |-> Topic]
    /\ val = [t \in Threads |-> 0]
    /\ new = [t \in Threads |-> 0]
    /\ at = [t \in Threads |-> 0]
    /\ cur = [t \in Threads |-> 0]
    /\ calls = 0 /\ published = 0
    /\ fault = "none"
    /\ given = [c \in Clients |-> <<>>]
    /\ sent = [c \in Clients |-> <<>>]
    /\ joined = {}
    /\ known = [t \in Threads |-> {}]
    /\ mixed = {}

At(t, label) == fault = "none" /\ pc[t] = label

Goto(t, label) == pc' = [pc EXCEPT ![t] = label]

\* A null pointer is followed.
Ends(why) == /\ fault' = why
             /\ UNCHANGED <<shared, pc, local, history>>

-----------------------------------------------------------------------------
(* Appending to a list.  mqtt_topic_sub and mqtt_distribute_msg do it with *)
(* the same statements; mqtt_topic_sub looks at the tail as well, which is *)
(* set before the head.  The makefile builds without optimisation: in      *)
(* head = tail = node the tail is written, read again, and then the head   *)
(* is written.                                                             *)

Empty(l) == head[l] = 0 \/ (l = Topic /\ tail[l] = 0)

\* The test for an empty list.
Test(t) ==
    /\ At(t, "test")
    /\ Goto(t, IF Empty(list[t]) THEN "first" ELSE "link")
    /\ UNCHANGED <<shared, local, fault, history>>

\* The node's number, when t puts it into its list.
Fresh(t) == /\ new' = [new EXCEPT ![t] = Len(node) + 1]
            /\ UNCHANGED <<op, list, val, at, cur>>

Node(t) == [list |-> list[t], val |-> val[t], next |-> 0]

\* head = tail = node: the tail is written.
First(t) ==
    /\ At(t, "first")
    /\ node' = Append(node, Node(t))
    /\ Fresh(t)
    /\ tail' = [tail EXCEPT ![list[t]] = new'[t]]
    /\ Goto(t, "reread")
    /\ UNCHANGED <<head, buffer, fault, history>>

\* The tail is read again, which another thread may have set.
Reread(t) ==
    /\ At(t, "reread")
    /\ new' = [new EXCEPT ![t] = tail[list[t]]]
    /\ Goto(t, "head")
    /\ UNCHANGED <<shared, op, list, val, at, cur, fault, history>>

\* Where the thread goes when its node is in the list.
Appended(t) ==
    /\ Goto(t, IF list[t] = Topic THEN "idle" ELSE "drain")
    /\ joined' = IF list[t] = Topic THEN joined \cup {val[t]} ELSE joined
    /\ new' = [new EXCEPT ![t] = 0]
    /\ UNCHANGED <<node, buffer, op, list, val, at, cur, fault, given, sent,
                   known>>

SetHead(t) ==
    /\ At(t, "head")
    /\ head' = [head EXCEPT ![list[t]] = new[t]]
    /\ UNCHANGED tail
    /\ Appended(t)

\* Variant: the new node leads back to the head.
LinkCircular(t) ==
    /\ At(t, "link")
    /\ IF tail[list[t]] = 0 THEN Ends("null_tail")
       ELSE /\ node' = [Append(node, [Node(t) EXCEPT !.next = head[list[t]]])
                          EXCEPT ![tail[list[t]]].next = Len(node) + 1]
            /\ Fresh(t)
            /\ Goto(t, "tail")
            /\ UNCHANGED <<head, tail, buffer, fault, history>>

\* tail->next = node.
Link(t) ==
    /\ At(t, "link")
    /\ IF tail[list[t]] = 0 THEN Ends("null_tail")
       ELSE /\ node' = [Append(node, Node(t))
                          EXCEPT ![tail[list[t]]].next = Len(node) + 1]
            /\ Fresh(t)
            /\ Goto(t, "tail")
            /\ UNCHANGED <<head, tail, buffer, fault, history>>

SetTail(t) ==
    /\ At(t, "tail")
    /\ tail' = [tail EXCEPT ![list[t]] = new[t]]
    /\ UNCHANGED head
    /\ Appended(t)

-----------------------------------------------------------------------------
(* The packets.                                                            *)

Call(t, what) ==
    /\ At(t, "idle")
    /\ calls < MaxCalls
    /\ calls' = calls + 1
    /\ op' = [op EXCEPT ![t] = what]

\* Variant: pclient is not set.
SubscribeUnset(t, c) ==
    /\ Call(t, "subscribe")
    /\ list' = [list EXCEPT ![t] = Topic]
    /\ Goto(t, "test")
    /\ UNCHANGED <<shared, val, new, at, cur, published, fault, history>>

\* mqtt_topic_sub for the client of the connection.
Subscribe(t, c) ==
    /\ Call(t, "subscribe")
    /\ list' = [list EXCEPT ![t] = Topic]
    /\ val' = [val EXCEPT ![t] = c]
    /\ Goto(t, "test")
    /\ UNCHANGED <<shared, new, at, cur, published, fault, history>>

\* CONNECT ends with mqtt_send_client_msg for the client.
Connect(t, c) ==
    /\ Call(t, "connect")
    /\ list' = [list EXCEPT ![t] = c]
    /\ Goto(t, "drain")
    /\ UNCHANGED <<shared, val, new, at, cur, published, fault, history>>

\* _mqtt_topic_add_msg begins.
Publish(t) ==
    /\ Call(t, "publish")
    /\ published' = published + 1
    /\ val' = [val EXCEPT ![t] = published']
    /\ known' = [known EXCEPT ![t] = joined]
    /\ Goto(t, "buffer")
    /\ UNCHANGED <<shared, list, new, at, cur, fault, given, sent, joined>>

\* _mqtt_topic_add_msg comes to the subscriber n: mqtt_distribute_msg for it.
Visit(t, n) ==
    /\ at' = [at EXCEPT ![t] = n]
    /\ IF n = 0
       THEN Goto(t, "idle") /\ UNCHANGED <<list, given>>
       ELSE /\ list' = [list EXCEPT ![t] = node[n].val]
            /\ given' = [given EXCEPT ![node[n].val] = Append(@, val[t])]
            /\ Goto(t, "test")
    /\ UNCHANGED <<node, head, tail, op, val, new, cur, fault, sent, joined,
                   known>>

\* msg_bf_list is tested,
Buffered(t) ==
    /\ At(t, "buffer")
    /\ Goto(t, IF buffer = "none" THEN "store" ELSE "extend")
    /\ UNCHANGED <<shared, local, fault, history>>

\* and read again: a list that is there gets the message at its tail, which
\* nobody else reads.  The first subscriber is read.
Extend(t) ==
    /\ At(t, "extend")
    /\ \/ buffer = "raw" /\ Ends("raw_buffer")
       \/ buffer = "ready" /\ UNCHANGED buffer /\ Visit(t, head[Topic])

\* A new list is stored, which may not be the first.
Store(t) ==
    /\ At(t, "store")
    /\ buffer' = "raw"
    /\ Goto(t, "clear")
    /\ UNCHANGED <<node, head, tail, local, fault, history>>

\* memset clears the list that is stored by now.
Clear(t) ==
    /\ At(t, "clear")
    /\ buffer' = "raw"
    /\ Goto(t, "raw")
    /\ UNCHANGED <<node, head, tail, local, fault, history>>

\* Variant: the walk starts at the tail.
MakeBufferTail(t) ==
    /\ At(t, "raw")
    /\ buffer' = "ready"
    /\ Visit(t, tail[Topic])

\* The list that is stored by now gets its head and tail.
MakeBuffer(t) ==
    /\ At(t, "raw")
    /\ buffer' = "ready"
    /\ Visit(t, head[Topic])

\* node = node->next.
NextSubscriber(t) ==
    /\ At(t, "next")
    /\ UNCHANGED buffer
    /\ Visit(t, node[at[t]].next)

-----------------------------------------------------------------------------
(* mqtt_send_client_msg.                                                   *)

Drain(t) ==
    /\ At(t, "drain")
    /\ cur' = [cur EXCEPT ![t] = head[list[t]]]
    /\ Goto(t, "send")
    /\ UNCHANGED <<shared, op, list, val, new, at, fault, history>>

\* A message is sent; n = n->next.
Send(t) ==
    /\ At(t, "send") /\ cur[t] # 0
    /\ sent' = [sent EXCEPT ![list[t]] = Append(@, node[cur[t]].val)]
    /\ cur' = [cur EXCEPT ![t] = node[cur[t]].next]
    /\ UNCHANGED <<shared, pc, op, list, val, new, at, fault, given, joined,
                   known>>

\* head_nsend = tail_nsend = NULL: the tail is written,
ResetTail(t) ==
    /\ At(t, "send") /\ cur[t] = 0
    /\ tail' = [tail EXCEPT ![list[t]] = 0]
    /\ Goto(t, "rereset")
    /\ UNCHANGED <<node, head, buffer, local, fault, history>>

\* read again,
RereadReset(t) ==
    /\ At(t, "rereset")
    /\ cur' = [cur EXCEPT ![t] = tail[list[t]]]
    /\ Goto(t, "reset")
    /\ UNCHANGED <<shared, op, list, val, new, at, fault, history>>

\* Variant: head_nsend is not reset.
ResetNothing(t) ==
    /\ At(t, "reset")
    /\ Goto(t, IF op[t] = "publish" THEN "next" ELSE "idle")
    /\ UNCHANGED <<shared, local, fault, history>>

\* and what was read becomes the head.
ResetHead(t) ==
    /\ At(t, "reset")
    /\ head' = [head EXCEPT ![list[t]] = cur[t]]
    /\ cur' = [cur EXCEPT ![t] = 0]
    /\ Goto(t, IF op[t] = "publish" THEN "next" ELSE "idle")
    /\ UNCHANGED <<node, tail, buffer, op, list, val, new, at, fault, history>>

-----------------------------------------------------------------------------
Begins(t) == Publish(t) \/ \E c \in Clients : Subscribe(t, c) \/ Connect(t, c)

Appends(t) == \/ Test(t) \/ First(t) \/ Reread(t) \/ SetHead(t) \/ Link(t)
              \/ SetTail(t)

Buffers(t) == Buffered(t) \/ Extend(t) \/ Store(t) \/ Clear(t) \/ MakeBuffer(t)

Walks(t) == /\ \/ Buffers(t) \/ NextSubscriber(t)
               \/ Drain(t) \/ Send(t)
               \/ ResetTail(t) \/ RereadReset(t) \/ ResetHead(t)
            /\ UNCHANGED count

\* Where a thread works on msg_bf_list.
Buffering == {"buffer", "extend", "store", "clear", "raw"}

\* Is t in the midst of working on l?
In(t, l) ==
    \/ l = Buffer /\ pc[t] \in Buffering
    \/ /\ pc[t] \in {"test", "first", "reread", "head", "link", "tail",
                     "drain", "send", "rereset", "reset"}
       /\ l = list[t]

Mixing == {l \in Lists \cup {Buffer} :
             \E t, u \in Threads : t # u /\ In(t, l) /\ In(u, l)}

Next == /\ \E t \in Threads : \/ Begins(t)
                              \/ Appends(t) /\ UNCHANGED count
                              \/ Walks(t)
        /\ mixed' = mixed \cup Mixing'

Spec == Init /\ [][Next]_vars

-----------------------------------------------------------------------------
(* Properties.                                                             *)

Pointers == 0 .. Len(node)

\* Every variable has its type.  What a thread goes by is of its list.
TypeOK ==
    /\ \A i \in DOMAIN node :
          /\ node[i].list \in Lists /\ node[i].next \in Pointers
          /\ node[i].val \in IF node[i].list = Topic THEN Clients
                             ELSE 1 .. published
    /\ head \in [Lists -> Pointers] /\ tail \in [Lists -> Pointers]
    /\ buffer \in {"none", "raw", "ready"}
    /\ pc \in [Threads -> Buffering \cup
                  {"idle", "next", "test", "first", "reread", "head", "link",
                   "tail", "drain", "send", "rereset", "reset"}]
    /\ op \in [Threads -> {"none", "subscribe", "connect", "publish"}]
    /\ list \in [Threads -> Lists]
    /\ new \in [Threads -> Pointers]
    /\ at \in [Threads -> Pointers]
    /\ cur \in [Threads -> Pointers]
    /\ calls \in 0 .. MaxCalls /\ published \in 0 .. calls
    /\ fault \in {"none", "null_tail", "raw_buffer"}
    /\ \A c \in Clients : given[c] \in Seq(1 .. published)
                          /\ sent[c] \in Seq(1 .. published)
    /\ joined \subseteq Clients
    /\ known \in [Threads -> SUBSET Clients]
    /\ mixed \subseteq Lists \cup {Buffer}

\* However the threads overlap, links lead to nodes that came later, so that
\* every walk ends, and to nodes of the same list, so that no message gets
\* into the queue of another client.
ChainsOK ==
    /\ \A i \in DOMAIN node : LET j == node[i].next IN
          j # 0 => j > i /\ node[j].list = node[i].list
    /\ \A l \in Lists : /\ head[l] # 0 => node[head[l]].list = l
                        /\ tail[l] # 0 => node[tail[l]].list = l

\* A client on whose queue two threads have never been at the same time gets
\* every message once and in order, whatever happens to the other queues and
\* to the subscribers; and without such meetings no null pointer is followed.
ExactUnlessMixed ==
    /\ \A c \in Clients \ mixed :
          (\A t \in Threads : ~ In(t, c)) => sent[c] = given[c] /\ head[c] = 0
    /\ fault = "null_tail" => mixed \cap Clients # {}
    /\ fault = "raw_buffer" => Buffer \in mixed

\* A client whose SUBSCRIBE was handled before a PUBLISH began has been given
\* the message when the PUBLISH has been handled, even if others subscribe
\* meanwhile, unless two SUBSCRIBEs to the topic have ever overlapped.
EarlierSubscribersReached ==
    [][\A t \in Threads :
          op[t] = "publish" /\ pc[t] # "idle" /\ pc'[t] = "idle"
                            /\ Topic \notin mixed
              => \A c \in known[t] :
                    \E i \in DOMAIN given'[c] : given'[c][i] = val[t]]_vars
=============================================================================

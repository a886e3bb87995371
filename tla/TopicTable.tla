----------------------------- MODULE TopicTable -----------------------------
(***************************************************************************)
(* The topic table, a chained hash table without locks (mqtt_hash.c), under*)
(* the handler threads that look up a topic and add it when it is missing: *)
(* mqtt_handler_publish and mqtt_parse_subtopices.                         *)
(*                                                                         *)
(* A node or a topic is its number, in order of allocation; 0 is NULL.  A  *)
(* name stands for a string; all names have the same length, so comparing  *)
(* one with a node whose key has its length but no body yet reads through  *)
(* NULL.  Each access another thread can see is a step.                    *)
(***************************************************************************)
EXTENDS Naturals, Sequences, FiniteSets

CONSTANTS Threads,    \* handler threads
          Names,      \* topic names
          Bucket,     \* the index of each name, _mqtt_hash_calinx
          NoName,     \* the key of a node that has none yet
          MaxCalls    \* bound on the packets handled

HASH_LEN == 26

NULL == 0

ASSUME ConstantsOK ==
    /\ Bucket \in [Names -> 0 .. HASH_LEN - 1]
    /\ NoName \notin Names
    /\ MaxCalls \in Nat

VARIABLES
    iterms,     \* the first node of each bucket
    node,       \* the nodes: key, state of the key, data, next
    topicName,  \* the topics: name
    calls,      \* packets handled so far
    pc,         \* where each thread stands
    op,         \* "publish" or "subscribe"
    name,       \* the topic name of the packet
    phase,      \* which mqtt_topic_get it is in: "find", "add", or "check"
    cur,        \* node or tmp, the walking pointer
    topic,      \* the local variable topic
    mine,       \* the node the thread has allocated
    fault,      \* why the process has ended, "none" while it runs
    overlap     \* have two calls on a bucket overlapped, one of them adding?

shared == <<iterms, node, topicName>>
job == <<calls, op, name>>
vars == <<shared, job, pc, phase, cur, topic, mine, fault, overlap>>

Buckets == {Bucket[n] : n \in Names}

Init ==
    /\ iterms = [b \in Buckets |-> NULL]
    /\ node = <<>>
    /\ topicName = <<>>
    /\ calls = 0
    /\ pc = [t \in Threads |-> "idle"]
    /\ op = [t \in Threads |-> "publish"]
    /\ name = [t \in Threads |-> NoName]
    /\ phase = [t \in Threads |-> "find"]
    /\ cur = [t \in Threads |-> NULL]
    /\ topic = [t \in Threads |-> NULL]
    /\ mine = [t \in Threads |-> NULL]
    /\ fault = "none"
    /\ overlap = FALSE

At(t, label) == fault = "none" /\ pc[t] = label

Goto(t, label) == pc' = [pc EXCEPT ![t] = label]

Ends(why) == /\ fault' = why
             /\ UNCHANGED <<shared, job, pc, phase, cur, topic, mine>>

\* The packet is done with; the locals are gone.
Return(t) == /\ Goto(t, "idle")
             /\ phase' = [phase EXCEPT ![t] = "find"]
             /\ cur' = [cur EXCEPT ![t] = NULL]
             /\ topic' = [topic EXCEPT ![t] = NULL]
             /\ mine' = [mine EXCEPT ![t] = NULL]

index(t) == Bucket[name[t]]

\* Variant: only the lengths are compared.
MatchesLength(t) == node[cur[t]].key # NoName

\* mqtt_string_cmp(node->key, key) == 0
Matches(t) == node[cur[t]].key = name[t]

\* The key has its length, and its body is still NULL.
Bodiless(t) == node[cur[t]].state = "sized"

-----------------------------------------------------------------------------
(* mqtt_hash_get.                                                          *)

StartGet(t, ph) ==
    /\ phase' = [phase EXCEPT ![t] = ph]
    /\ Goto(t, "get_head")

\* The bucket is read.
GetHead(t) ==
    /\ At(t, "get_head")
    /\ cur' = [cur EXCEPT ![t] = iterms[index(t)]]
    /\ Goto(t, "get")
    /\ UNCHANGED <<shared, job, phase, topic, mine, fault>>

\* Variant: node is not moved on.
GetStays(t) ==
    /\ At(t, "get") /\ cur[t] # NULL
    /\ ~ Bodiless(t) /\ ~ Matches(t)
    /\ UNCHANGED <<shared, job, pc, phase, cur, topic, mine, fault>>

\* A node with another key is passed.
GetNext(t) ==
    /\ At(t, "get") /\ cur[t] # NULL
    /\ ~ Bodiless(t) /\ ~ Matches(t)
    /\ cur' = [cur EXCEPT ![t] = node[cur[t]].next]
    /\ UNCHANGED <<shared, job, pc, phase, topic, mine, fault>>

\* mqtt_string_cmp reads through the NULL body.
GetBodiless(t) ==
    /\ At(t, "get") /\ cur[t] # NULL
    /\ Bodiless(t)
    /\ Ends("null_body")

\* What mqtt_hash_get returns: node->data, which may not be set yet.
Gets(t, data) ==
    /\ At(t, "get")
    /\ \/ cur[t] = NULL /\ data = NULL
       \/ /\ cur[t] # NULL
          /\ ~ Bodiless(t) /\ Matches(t)
          /\ data = node[cur[t]].data

-----------------------------------------------------------------------------
(* mqtt_handler_publish and mqtt_parse_subtopices.                         *)

\* A packet with a topic arrives.
Call(t) ==
    /\ At(t, "idle")
    /\ calls < MaxCalls
    /\ calls' = calls + 1
    /\ \E o \in {"publish", "subscribe"} : op' = [op EXCEPT ![t] = o]
    /\ \E n \in Names : name' = [name EXCEPT ![t] = n]
    /\ StartGet(t, "find")
    /\ UNCHANGED <<shared, cur, topic, mine, fault>>

\* The first mqtt_topic_get; if it finds nothing mqtt_topic_add does another.
Find(t) ==
    /\ phase[t] = "find"
    /\ \E data \in 0 .. Len(topicName) :
          /\ Gets(t, data)
          /\ topic' = [topic EXCEPT ![t] = data]
          /\ IF data = NULL THEN StartGet(t, "add")
                            ELSE Goto(t, "use") /\ UNCHANGED phase
    /\ UNCHANGED <<shared, job, cur, mine, fault>>

\* Variant: *t is not set.
AddUnset(t) ==
    /\ phase[t] = "add"
    /\ Gets(t, NULL)
    /\ topicName' = Append(topicName, name[t])
    /\ Goto(t, "set")
    /\ UNCHANGED <<iterms, node, job, phase, cur, topic, mine, fault>>

\* mqtt_topic_add: the topic is made and goes into the table.  If another
\* thread has added it meanwhile *t stays NULL, and the caller's assertion
\* that topic is not NULL fails.
Add(t) ==
    /\ phase[t] = "add"
    /\ \/ /\ Gets(t, NULL)
          /\ topicName' = Append(topicName, name[t])
          /\ topic' = [topic EXCEPT ![t] = Len(topicName')]
          /\ Goto(t, "set")
          /\ UNCHANGED <<iterms, node, job, phase, cur, mine, fault>>
       \/ /\ \E data \in 1 .. Len(topicName) : Gets(t, data)
          /\ Ends("topic_null")

\* The message or the subscriber is added to the topic; mqtt_parse_subtopices
\* then looks the topic up again.
Use(t) ==
    /\ At(t, "use")
    /\ \/ /\ op[t] = "publish"
          /\ Return(t)
       \/ /\ op[t] = "subscribe"
          /\ StartGet(t, "check")
          /\ UNCHANGED <<cur, topic, mine>>
    /\ UNCHANGED <<shared, job, fault>>

\* mqtt_parse_subtopices asserts that it is found.
Check(t) ==
    /\ phase[t] = "check"
    /\ \/ /\ \E data \in 1 .. Len(topicName) : Gets(t, data)
          /\ Return(t)
          /\ UNCHANGED <<shared, job, fault>>
       \/ /\ Gets(t, NULL)
          /\ Ends("topic_null")

-----------------------------------------------------------------------------
(* mqtt_hash_set.                                                          *)

\* Variant: the bucket is taken to be empty.
SetStartEmpty(t) ==
    /\ At(t, "set")
    /\ Goto(t, "first")
    /\ UNCHANGED <<shared, job, phase, cur, topic, mine, fault>>

\* The test for an empty bucket; the walk starts at the first node.
SetStart(t) ==
    /\ At(t, "set")
    /\ cur' = [cur EXCEPT ![t] = iterms[index(t)]]
    /\ Goto(t, IF iterms[index(t)] = NULL THEN "first" ELSE "walk")
    /\ UNCHANGED <<shared, job, phase, topic, mine, fault>>

\* An empty bucket gets a node that has no key yet.
SetFirst(t) ==
    /\ At(t, "first")
    /\ node' = Append(node, [key |-> NoName, state |-> "blank",
                             data |-> NULL, next |-> NULL])
    /\ iterms' = [iterms EXCEPT ![index(t)] = Len(node')]
    /\ mine' = [mine EXCEPT ![t] = Len(node')]
    /\ Goto(t, "fill")
    /\ UNCHANGED <<topicName, job, phase, cur, topic, fault>>

\* mqtt_string_copy: the length, then the body.
SetKey(t) ==
    /\ At(t, "fill")
    /\ \/ /\ node[mine[t]].state = "blank"
          /\ node' = [node EXCEPT ![mine[t]].state = "sized"]
          /\ UNCHANGED pc
       \/ /\ node[mine[t]].state = "sized"
          /\ node' = [node EXCEPT ![mine[t]].state = "full",
                                  ![mine[t]].key = name[t]]
          /\ Goto(t, "data")
    /\ UNCHANGED <<iterms, topicName, job, phase, cur, topic, mine, fault>>

SetData(t) ==
    /\ At(t, "data")
    /\ node' = [node EXCEPT ![mine[t]].data = topic[t]]
    /\ Goto(t, "use")
    /\ UNCHANGED <<iterms, topicName, job, phase, cur, topic, mine, fault>>

\* The loop: to the last node or the one with the key.
SetWalk(t) ==
    /\ At(t, "walk")
    /\ node[cur[t]].next # NULL
    /\ ~ Bodiless(t) /\ ~ Matches(t)
    /\ cur' = [cur EXCEPT ![t] = node[cur[t]].next]
    /\ UNCHANGED <<shared, job, pc, phase, topic, mine, fault>>

\* The comparison of the loop or of the if after it.
SetBodiless(t) ==
    /\ At(t, "walk")
    /\ Bodiless(t)
    /\ Ends("null_body")

\* The node with the key gets the new data.
SetReplace(t) ==
    /\ At(t, "walk")
    /\ ~ Bodiless(t) /\ Matches(t)
    /\ node' = [node EXCEPT ![cur[t]].data = topic[t]]
    /\ Goto(t, "use")
    /\ UNCHANGED <<iterms, topicName, job, phase, cur, topic, mine, fault>>

\* The loop has stopped at a node without the key.
SetLast(t) ==
    /\ At(t, "walk")
    /\ node[cur[t]].next = NULL
    /\ ~ Bodiless(t) /\ ~ Matches(t)
    /\ Goto(t, "append")
    /\ UNCHANGED <<shared, job, phase, cur, topic, mine, fault>>

\* Variant: the new node goes in front of the last one, as its successor.
AppendLoop(t) ==
    /\ At(t, "append")
    /\ node' = [Append(node, [key |-> name[t], state |-> "full",
                              data |-> topic[t], next |-> cur[t]])
                  EXCEPT ![cur[t]].next = Len(node) + 1]
    /\ mine' = [mine EXCEPT ![t] = Len(node')]
    /\ Goto(t, "clear")
    /\ UNCHANGED <<iterms, topicName, job, phase, cur, topic, fault>>

\* tmp->next = node, with a complete node.
SetAppend(t) ==
    /\ At(t, "append")
    /\ node' = [Append(node, [key |-> name[t], state |-> "full",
                              data |-> topic[t], next |-> NULL])
                  EXCEPT ![cur[t]].next = Len(node) + 1]
    /\ mine' = [mine EXCEPT ![t] = Len(node')]
    /\ Goto(t, "clear")
    /\ UNCHANGED <<iterms, topicName, job, phase, cur, topic, fault>>

\* node->next = NULL, once others can see the node.
SetClear(t) ==
    /\ At(t, "clear")
    /\ node' = [node EXCEPT ![mine[t]].next = NULL]
    /\ Goto(t, "use")
    /\ UNCHANGED <<iterms, topicName, job, phase, cur, topic, mine, fault>>

-----------------------------------------------------------------------------
Get(t) == GetHead(t) \/ GetNext(t) \/ GetBodiless(t)

Set(t) == \/ SetStart(t) \/ SetFirst(t) \/ SetKey(t) \/ SetData(t)
          \/ SetWalk(t) \/ SetBodiless(t) \/ SetReplace(t)
          \/ SetLast(t) \/ SetAppend(t) \/ SetClear(t)

Runs(t) == Get(t) \/ Set(t) \/ Find(t) \/ Add(t) \/ Use(t) \/ Check(t)

\* t is between its first look at the table and its last.
Busy(t) == pc[t] # "idle"

Adds(t) == Busy(t) /\ phase[t] = "add"

Overlap == \E t, u \in Threads :
              t # u /\ Adds(t) /\ Busy(u) /\ index(t) = index(u)

Step(t) == /\ Call(t) \/ Runs(t)
           /\ overlap' = (overlap \/ Overlap')

Next == \E t \in Threads : Step(t)

Spec == Init /\ [][Next]_vars
             /\ \A t \in Threads : WF_vars(Step(t) /\ Busy(t))

-----------------------------------------------------------------------------
(* Properties.                                                             *)

Pointers == 0 .. Len(node)

\* Every variable has its type; a thread that has found or made a topic has it.
TypeOK ==
    /\ iterms \in [Buckets -> Pointers]
    /\ \A i \in DOMAIN node :
          node[i] \in [key : Names \cup {NoName},
                      state : {"blank", "sized", "full"},
                      data : 0 .. Len(topicName), next : Pointers]
    /\ topicName \in Seq(Names)
    /\ calls \in 0 .. MaxCalls
    /\ pc \in [Threads -> {"idle", "get_head", "get", "use", "set", "first",
                           "fill", "data", "walk", "append", "clear"}]
    /\ op \in [Threads -> {"publish", "subscribe"}]
    /\ name \in [Threads -> Names \cup {NoName}]
    /\ phase \in [Threads -> {"find", "add", "check"}]
    /\ cur \in [Threads -> Pointers]
    /\ topic \in [Threads -> 0 .. Len(topicName)]
    /\ mine \in [Threads -> Pointers]
    /\ fault \in {"none", "topic_null", "null_body"}
    /\ overlap \in BOOLEAN
    /\ \A t \in Threads :
          pc[t] \notin {"idle", "get_head", "get"} => topic[t] # NULL

\* Without any lock the chains stay chains: every link leads to a newer node
\* and to one of the same bucket, so no walk can go round for ever.
ChainsOK ==
    /\ \A i \in DOMAIN node : node[i].next # NULL => node[i].next > i
    /\ \A i, j \in DOMAIN node :
          node[i].next = j /\ NoName \notin {node[i].key, node[j].key}
              => Bucket[node[i].key] = Bucket[node[j].key]
    /\ \A b \in Buckets : \A i \in DOMAIN node :
          iterms[b] = i /\ node[i].key # NoName => Bucket[node[i].key] = b

\* Whatever is lost on the way, a message or a subscriber never goes to the
\* topic of another name.
OwnTopic ==
    \A t \in Threads : topic[t] # NULL => topicName[topic[t]] = name[t]

\* The nodes of a chain, from i on: those in every set that has i and what
\* its members lead to.
Chain(i) ==
    {j \in DOMAIN node : \A S \in SUBSET DOMAIN node :
        i \in S /\ (\A k \in S : node[k].next \in S \cup {NULL}) => j \in S}

\* The table, read at one moment: the topics it holds for a name.
Stored(n) == {node[i].data : i \in {j \in Chain(iterms[Bucket[n]]) :
                                      node[j].key = n}} \ {NULL}

\* A name whose topic is being stored right now.
BeingAdded(n) == \E t \in Threads : Adds(t) /\ name[t] = n

\* The table loses nothing, keeps one topic for each name that was ever added
\* and fails nobody, unless two calls on the same bucket overlap and one adds a
\* name: lookups, and additions to other buckets, disturb nobody.
MapUnlessOverlap ==
    ~ overlap =>
        /\ fault = "none"
        /\ \A i \in DOMAIN topicName :
              BeingAdded(topicName[i]) \/ Stored(topicName[i]) = {i}

\* No thread is kept in a walk by what the others append.
WalksEnd ==
    \A t \in Threads :
        pc[t] \in {"get", "walk"}
            ~> pc[t] \notin {"get", "walk"} \/ fault # "none"
=============================================================================

------------------------------ MODULE Delivery ------------------------------
(***************************************************************************)
(* How a published message finds its subscribers: the subscriber list of a *)
(* topic and the per-client queues of mqtt_message.c, the client nodes of  *)
(* the client table, and the slots of env->clients.                        *)
(*                                                                         *)
(* One packet is handled at a time, by the handler.  Meanwhile the main     *)
(* thread takes what is registered for output from epoll_wait and sends it *)
(* later, whoever is at the descriptor by then.  What concurrent handlers  *)
(* do to each other is in Session, TopicTable and EpollConn.  There is one *)
(* topic, and a message is its number.                                     *)
(***************************************************************************)
EXTENDS Naturals, Sequences, FiniteSets

CONSTANTS Fds,         \* descriptors; env->clients has a slot for each
          Clients,     \* client ids; the client table has a node for each
          Null,        \* NULL, and no peer
          Anon,        \* a peer that has not been acknowledged
          Connack,     \* the answer to CONNECT
          MaxAccepts,  \* how often accept may return the same descriptor
          MaxMsgs,     \* messages published
          MaxSubs      \* SUBSCRIBE packets

ASSUME ConstantsOK ==
    /\ {Null, Anon, Connack} \cap (Fds \cup Clients \cup Nat) = {}
    /\ Null # Anon /\ Null # Connack
    /\ MaxAccepts \in Nat /\ MaxMsgs \in Nat /\ MaxSubs \in Nat

VARIABLES
    accepts,    \* how often each descriptor has been accepted
    peer,       \* who is at the other end: Null (closed), Anon, or a client
    ids,        \* the set clientIDs in Redis
    slot,       \* client_id and client_hash_node of the slot
    sockfd,     \* client_in_hash.sockfd, Null while there is no node
    queue,      \* client_in_hash.head_nsend
    subs,       \* the subscribers of the topic, clients_head
    published,  \* messages published so far
    out,        \* what the descriptor is registered to send
    held,       \* what et has taken from epoll_wait and not sent yet
    got,        \* the messages the peer has received since its last CONNECT
    early,      \* the descriptors for which et held a message at that CONNECT,
                \* or at the accept (no variable of the code)
    pc,         \* "idle", "distribute" or "send"
    at,         \* position of node in the subscriber list
    target,     \* the argument of mqtt_send_client_msg
    pos         \* position of n in the queue it walks

net == <<accepts, peer, ids>>
tables == <<slot, sockfd, subs>>
received == <<got, early>>
handler == <<pc, at, target, pos>>
vars == <<net, tables, queue, published, out, held, received, handler>>

Init ==
    /\ accepts = [fd \in Fds |-> 0]
    /\ peer = [fd \in Fds |-> Null]
    /\ ids = {}
    /\ slot = [fd \in Fds |-> Null]
    /\ sockfd = [c \in Clients |-> Null]
    /\ queue = [c \in Clients |-> <<>>]
    /\ subs = <<>>
    /\ published = 0
    /\ out = [fd \in Fds |-> Null]
    /\ held = [fd \in Fds |-> Null]
    /\ got = [fd \in Fds |-> <<>>] /\ early = {}
    /\ pc = "idle" /\ at = 0 /\ target = Null /\ pos = 0

open == {fd \in Fds : peer[fd] # Null}

Message(data) == data \notin {Null, Connack}

\* Somebody new is at fd, to whom et may send what it holds already.
Renew(fd) ==
    /\ got' = [got EXCEPT ![fd] = <<>>]
    /\ early' = IF Message(held[fd]) THEN early \cup {fd} ELSE early \ {fd}

-----------------------------------------------------------------------------
(* Connections.                                                            *)

\* et, listening socket: the slot keeps client_id and client_hash_node.
Accept(fd) ==
    /\ fd \notin open /\ accepts[fd] < MaxAccepts
    /\ accepts' = [accepts EXCEPT ![fd] = @ + 1]
    /\ peer' = [peer EXCEPT ![fd] = Anon]
    /\ Renew(fd)
    /\ UNCHANGED <<ids, tables, queue, published, out, held, handler>>

\* A call of mqtt_send_client_msg(fd) begins.
StartSend(fd) == pc' = "send" /\ target' = fd /\ pos' = 1

\* Variant: the slot keeps its client_hash_node.
ConnectKeepsNode(fd, c) ==
    /\ pc = "idle"
    /\ fd \in open /\ c \notin ids
    /\ ids' = ids \cup {c}
    /\ peer' = [peer EXCEPT ![fd] = c]
    /\ out' = [out EXCEPT ![fd] = Connack]
    /\ sockfd' = [sockfd EXCEPT ![c] = IF @ = Null THEN fd ELSE @]
    /\ slot' = [slot EXCEPT ![fd] = IF @ = Null THEN c ELSE @]
    /\ Renew(fd)
    /\ StartSend(fd)
    /\ UNCHANGED <<accepts, subs, queue, published, held, at>>

\* Variant: client_hash_node is not set.
ConnectSetsNoNode(fd, c) ==
    /\ pc = "idle"
    /\ fd \in open /\ c \notin ids
    /\ ids' = ids \cup {c}
    /\ peer' = [peer EXCEPT ![fd] = c]
    /\ out' = [out EXCEPT ![fd] = Connack]
    /\ sockfd' = [sockfd EXCEPT ![c] = IF @ = Null THEN fd ELSE @]
    /\ Renew(fd)
    /\ StartSend(fd)
    /\ UNCHANGED <<accepts, slot, subs, queue, published, held, at>>

\* mqtt_handler_connect with an id that is not in use, up to mqtt_set_env: the
\* client's node is made, with this descriptor, unless it has one from before.
Connect(fd, c) ==
    /\ pc = "idle"
    /\ fd \in open /\ c \notin ids
    /\ ids' = ids \cup {c}
    /\ peer' = [peer EXCEPT ![fd] = c]
    /\ out' = [out EXCEPT ![fd] = Connack]
    /\ sockfd' = [sockfd EXCEPT ![c] = IF @ = Null THEN fd ELSE @]
    /\ slot' = [slot EXCEPT ![fd] = c]
    /\ Renew(fd)
    /\ StartSend(fd)
    /\ UNCHANGED <<accepts, subs, queue, published, held, at>>

\* shut_dead_conn: nothing happens to the node, the queue or the subscriptions,
\* clean session or not (rm_client_node is empty).
Close(fd) ==
    /\ pc = "idle" /\ fd \in open
    /\ ids' = ids \ {slot[fd]}
    /\ peer' = [peer EXCEPT ![fd] = Null]
    /\ out' = [out EXCEPT ![fd] = Null]
    /\ UNCHANGED <<accepts, tables, queue, published, held, received, handler>>

\* The client table has a node for c.
mqtt_get_client_s(c) == sockfd[c] # Null

\* mqtt_parse_subtopices: the subscriber is the node of the client of the slot.
Subscribe(fd) ==
    /\ pc = "idle"
    /\ fd \in open /\ slot[fd] # Null
    /\ mqtt_get_client_s(slot[fd])
    /\ Len(subs) < MaxSubs
    /\ subs' = Append(subs, slot[fd])
    /\ UNCHANGED <<net, slot, sockfd, queue, published, out, held, received, handler>>

\* conn_handler after EAGAIN: reset_oneshot takes what was registered.
Reset(fd) ==
    /\ pc = "idle" /\ fd \in open
    /\ out' = [out EXCEPT ![fd] = Null]
    /\ UNCHANGED <<net, tables, queue, published, held, received, handler>>

-----------------------------------------------------------------------------
(* Publishing.                                                             *)

\* mqtt_handler_publish: the walk over the subscribers begins.
Publish(fd) ==
    /\ pc = "idle"
    /\ fd \in open
    /\ published < MaxMsgs
    /\ published' = published + 1
    /\ pc' = "distribute" /\ at' = 1
    /\ UNCHANGED <<net, tables, queue, out, held, received, target, pos>>

\* Variant: the message goes to the front of the queue.
DistributeFirst ==
    /\ pc = "distribute" /\ at <= Len(subs)
    /\ queue' = [queue EXCEPT ![subs[at]] = <<published>> \o @]
    /\ at' = at + 1
    /\ StartSend(sockfd[subs[at]])
    /\ UNCHANGED <<net, tables, published, out, held, received>>

\* mqtt_distribute_msg: the message goes into the subscriber's queue, and the
\* queue of whoever has the recorded descriptor now is sent.
Distribute ==
    /\ pc = "distribute" /\ at <= Len(subs)
    /\ queue' = [queue EXCEPT ![subs[at]] = Append(@, published)]
    /\ at' = at + 1
    /\ StartSend(sockfd[subs[at]])
    /\ UNCHANGED <<net, tables, published, out, held, received>>

\* The end of the subscriber list.
Distributed ==
    /\ pc = "distribute" /\ at > Len(subs)
    /\ pc' = "idle" /\ at' = 0
    /\ UNCHANGED <<net, tables, queue, published, out, held, received, target, pos>>

client == slot[target]

\* mqtt_send_client_msg: each message takes the place of what the descriptor
\* was registered to send.  A closed descriptor cannot be registered.
Send ==
    /\ pc = "send" /\ pos <= Len(queue[client])
    /\ out' = [out EXCEPT ![target] =
                 IF target \in open THEN queue[client][pos] ELSE @]
    /\ pos' = pos + 1
    /\ UNCHANGED <<net, tables, queue, published, held, received, pc, at, target>>

SendDone == /\ pc' = IF at = 0 THEN "idle" ELSE "distribute"
            /\ target' = Null /\ pos' = 0

\* Variant: head_nsend is not reset.
SentKept ==
    /\ pc = "send" /\ pos > Len(queue[client])
    /\ SendDone
    /\ UNCHANGED <<net, tables, queue, published, out, held, received, at>>

\* head_nsend = tail_nsend = NULL.
Sent ==
    /\ pc = "send" /\ pos > Len(queue[client])
    /\ queue' = [queue EXCEPT ![client] = <<>>]
    /\ SendDone
    /\ UNCHANGED <<net, tables, published, out, held, received, at>>

-----------------------------------------------------------------------------
(* The main thread.                                                        *)

\* epoll_wait returns registrations for output with their data, when et is done
\* with those that it returned before.
EpollWait(ready) ==
    /\ ready # {} /\ \A fd \in ready : out[fd] # Null
    /\ \A fd \in Fds : held[fd] = Null
    /\ held' = [fd \in Fds |-> IF fd \in ready THEN out[fd] ELSE Null]
    /\ out' = [fd \in Fds |-> IF fd \in ready THEN Null ELSE out[fd]]
    /\ UNCHANGED <<net, tables, queue, published, received, handler>>

\* et, EPOLLOUT: the data is sent to whoever is at the descriptor, and set_fd_in
\* takes what has been registered since.
EventOut(fd) ==
    /\ held[fd] # Null
    /\ held' = [held EXCEPT ![fd] = Null]
    /\ out' = [out EXCEPT ![fd] = Null]
    /\ got' = IF fd \in open /\ Message(held[fd])
              THEN [got EXCEPT ![fd] = Append(@, held[fd])] ELSE got
    /\ UNCHANGED <<net, tables, queue, published, early, handler>>

-----------------------------------------------------------------------------
Packet(fd) == \/ \E c \in Clients : Connect(fd, c)
              \/ Close(fd) \/ Subscribe(fd) \/ Publish(fd) \/ Reset(fd)

Next == \/ \E fd \in Fds : Accept(fd) \/ Packet(fd) \/ EventOut(fd)
        \/ \E ready \in SUBSET Fds : EpollWait(ready)
        \/ Distribute \/ Distributed \/ Send \/ Sent

Spec == Init /\ [][Next]_vars

-----------------------------------------------------------------------------
(* Properties.                                                             *)

Subscribed(c) == {i \in DOMAIN subs : subs[i] = c}

\* Every variable has its type; a subscriber has a node and a send has a client.
TypeOK ==
    /\ accepts \in [Fds -> 0 .. MaxAccepts]
    /\ peer \in [Fds -> Clients \cup {Null, Anon}]
    /\ ids \subseteq Clients
    /\ slot \in [Fds -> Clients \cup {Null}]
    /\ sockfd \in [Clients -> Fds \cup {Null}]
    /\ queue \in [Clients -> Seq(1 .. MaxMsgs)]
    /\ subs \in Seq(Clients) /\ Len(subs) <= MaxSubs
    /\ \A c \in Clients : Subscribed(c) # {} => sockfd[c] # Null
    /\ published \in 0 .. MaxMsgs
    /\ out \in [Fds -> 1 .. MaxMsgs \cup {Null, Connack}]
    /\ held \in [Fds -> 1 .. MaxMsgs \cup {Null, Connack}]
    /\ got \in [Fds -> Seq(1 .. MaxMsgs)]
    /\ early \subseteq Fds
    /\ pc \in {"idle", "distribute", "send"}
    /\ pc = "send" => target \in Fds /\ client \in Clients
    /\ at \in 0 .. MaxSubs + 1
    /\ pos \in Nat

\* Between packets a message waits in a client's queue only when another client
\* has taken the descriptor that is recorded for it.
WaitsOnlyIfTaken ==
    pc = "idle" =>
        \A c \in Clients : queue[c] # <<>> => slot[sockfd[c]] # c

\* However often descriptors are reused and clients come back, a connection
\* gets the messages in the order of their publication, and one of them twice
\* only when a client has subscribed twice; but for the first one, when et held
\* it before the CONNECT.
GotInOrder ==
    \A fd \in Fds : \A i, j \in DOMAIN got[fd] :
        i < j => \/ got[fd][i] < got[fd][j]
                 \/ /\ got[fd][i] = got[fd][j]
                    /\ \E c \in Clients : Cardinality(Subscribed(c)) > 1
                 \/ i = 1 /\ fd \in early

\* An acknowledged client never gets the messages of another one: it has itself
\* subscribed to the topic of what it gets; but for a first message that et held
\* before the CONNECT.
ClientsGetTheirOwn ==
    [][\A fd \in Fds :
          Len(got'[fd]) > Len(got[fd]) /\ peer[fd] \in Clients
              => Subscribed(peer[fd]) # {} \/ (got[fd] = <<>> /\ fd \in early)]_vars
=============================================================================

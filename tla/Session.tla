------------------------------ MODULE Session -------------------------------
(***************************************************************************)
(* Who is connected under which client id: the handler threads of          *)
(* conn_handler, the id set they keep in Redis (redis_com.c), and the      *)
(* slots of env->clients.                                                  *)
(*                                                                         *)
(* A slot is named by its descriptor.  et starts a handler with a pointer  *)
(* to a variable on its own stack, fds_arg, which the next event           *)
(* overwrites; packet->fd is that pointer, so "the connection of the       *)
(* packet" is whatever fds_arg says when it is read.  A Redis command is   *)
(* one step, its answer goes to the static variable reply of redis_com.c,  *)
(* and reading reply is a step of its own.  Redis may answer any command   *)
(* with an error, having done nothing; the code looks at that nowhere.     *)
(*                                                                         *)
(* The expiry of a connection, which stops the main thread for good, is in *)
(* TimerList.                                                              *)
(***************************************************************************)
EXTENDS Naturals

CONSTANTS Fds,         \* descriptors accept may return
          Ids,         \* client ids a CONNECT may carry
          Handlers,    \* threads that may run conn_handler at the same time
          Null,        \* no id, no descriptor
          MaxAccepts   \* how often accept may return the same descriptor

ASSUME ConstantsOK ==
    /\ Null \notin Fds
    /\ Null \notin Ids
    /\ MaxAccepts \in Nat

VARIABLES
    open,        \* is the descriptor open?
    accepts,     \* how often it has been accepted
    armed,       \* its EPOLLIN: "no", "once" (EPOLLONESHOT), or "always"
    clientId,    \* env->clients[fd].client_id
    acked,       \* the id for which the peer has received CONNACK 0
    fdsArg,      \* fds_arg.sockfd on the stack of et
    pc,          \* where each handler stands
    sock,        \* its local sockfd
    ident,       \* packet->identifier
    doomed,      \* the argument of shut_dead_conn
    leaving,     \* does it leave the loop after shut_dead_conn?
    ids,         \* the set clientIDs in Redis
    reply,       \* the static reply of redis_com.c
    redis,       \* "up" or "down": a failed context stays so
    fault,       \* why the process has ended, "none" while it runs
    unstored,    \* history: the ids whose SADD has been answered with an error
    unfreed      \* history: the ids that an SREM answered with an error left there

refused == <<unstored, unfreed>>
local == <<sock, ident, doomed, leaving>>
slots == <<open, accepts, armed, clientId, acked>>
store == <<ids, reply, redis, refused>>
vars == <<slots, fdsArg, pc, local, store, fault>>

PCs == {"none", "start", "loop", "had_id", "had_reply", "add_id", "added",
        "auth", "auth_reply", "ack", "set_env", "subtopics", "rm_id",
        "removefd"}

\* main empties the id set before the first epoll_wait.
Init ==
    /\ open = [fd \in Fds |-> FALSE]
    /\ accepts = [fd \in Fds |-> 0]
    /\ armed = [fd \in Fds |-> "no"]
    /\ clientId = [fd \in Fds |-> Null]
    /\ acked = [fd \in Fds |-> Null]
    /\ fdsArg = Null
    /\ pc = [h \in Handlers |-> "none"]
    /\ sock = [h \in Handlers |-> Null]
    /\ ident = [h \in Handlers |-> Null]
    /\ doomed = [h \in Handlers |-> Null]
    /\ leaving = [h \in Handlers |-> FALSE]
    /\ ids = {}
    /\ reply = "integer"
    /\ redis = "up"
    /\ fault = "none"
    /\ unstored = {} /\ unfreed = {}

running == fault = "none"

At(h, label) == running /\ pc[h] = label

Goto(h, label) == pc' = [pc EXCEPT ![h] = label]

\* A step of h that only moves it on.
Moves(h, label) == /\ Goto(h, label)
                   /\ UNCHANGED <<slots, fdsArg, local, store, fault>>

\* An assertion or exit ends the process.
Ends(why) == /\ fault' = why
             /\ UNCHANGED <<slots, fdsArg, pc, local, store>>

-----------------------------------------------------------------------------
(* The main thread.                                                        *)

\* et, listening socket: the slot keeps the client_id of its last user.
Accept(fd) ==
    /\ running
    /\ ~ open[fd] /\ accepts[fd] < MaxAccepts
    /\ open' = [open EXCEPT ![fd] = TRUE]
    /\ accepts' = [accepts EXCEPT ![fd] = @ + 1]
    /\ armed' = [armed EXCEPT ![fd] = "once"]
    /\ UNCHANGED <<clientId, acked, fdsArg, pc, local, store, fault>>

\* Variant: the thread is created before fds_arg is written.
DispatchUnwritten(h, fd) ==
    /\ At(h, "none")
    /\ open[fd] /\ armed[fd] # "no"
    /\ armed' = [armed EXCEPT ![fd] = IF @ = "once" THEN "no" ELSE @]
    /\ Goto(h, "start")
    /\ UNCHANGED <<open, accepts, clientId, acked, fdsArg, local, store, fault>>

\* et, EPOLLIN: fds_arg is written and the thread created.
Dispatch(h, fd) ==
    /\ At(h, "none")
    /\ open[fd] /\ armed[fd] # "no"
    /\ armed' = [armed EXCEPT ![fd] = IF @ = "once" THEN "no" ELSE @]
    /\ fdsArg' = fd
    /\ Goto(h, "start")
    /\ UNCHANGED <<open, accepts, clientId, acked, local, store, fault>>

-----------------------------------------------------------------------------
(* conn_handler.                                                           *)

\* The new thread reads its descriptor from fds_arg.
Start(h) ==
    /\ At(h, "start")
    /\ sock' = [sock EXCEPT ![h] = fdsArg]
    /\ Goto(h, "loop")
    /\ UNCHANGED <<slots, fdsArg, ident, doomed, leaving, store, fault>>

\* A call of shut_dead_conn(fd) begins.
Shut(h, fd, leave) ==
    /\ doomed' = [doomed EXCEPT ![h] = fd]
    /\ leaving' = [leaving EXCEPT ![h] = leave]
    /\ Goto(h, "rm_id")
    /\ UNCHANGED <<slots, fdsArg, sock, ident, store, fault>>

\* A packet handler has returned an error: the loop goes on after the shut.
Fails(h) == Shut(h, fdsArg, FALSE)

\* The main thread sends an answer and then set_fd_in leaves EPOLLIN on without
\* EPOLLONESHOT; an answer for a closed descriptor is lost.
Answered(fd) ==
    armed' = [armed EXCEPT ![fd] = IF open[fd] THEN "always" ELSE @]

\* Variant: the loop is not left when recv fails.
GoneOn(h) == At(h, "loop") /\ Shut(h, sock[h], FALSE)

\* The peer has closed (recv returns 0), or the descriptor is closed already
\* (recv fails).
Gone(h) == At(h, "loop") /\ Shut(h, sock[h], TRUE)

\* Nothing more to read: reset_oneshot, and the thread ends.
WouldBlock(h) ==
    /\ At(h, "loop") /\ open[sock[h]]
    /\ armed' = [armed EXCEPT ![sock[h]] = "once"]
    /\ Goto(h, "none")
    /\ UNCHANGED <<open, accepts, clientId, acked, fdsArg, local, store, fault>>

\* A packet whose handler fails before it changes anything: a malformed one, a
\* CONNECT with a long id, a SUBSCRIBE without a client_id in the slot.
BadPacket(h) ==
    /\ At(h, "loop") /\ open[sock[h]]
    /\ Fails(h)

Disconnect(h) ==
    /\ At(h, "loop") /\ open[sock[h]]
    /\ Shut(h, fdsArg, TRUE)

Ping(h) ==
    /\ At(h, "loop") /\ open[sock[h]]
    /\ Answered(fdsArg)
    /\ UNCHANGED <<open, accepts, clientId, acked, fdsArg, pc, local, store,
                   fault>>

\* mqtt_handler_subscribe finds a client_id in the slot.
Subscribe(h) ==
    /\ At(h, "loop") /\ open[sock[h]]
    /\ clientId[fdsArg] # Null
    /\ Moves(h, "subtopics")

\* mqtt_parse_subtopices reads the slot again and asserts that it is not NULL.
SubTopics(h) ==
    /\ At(h, "subtopics")
    /\ IF clientId[fdsArg] = Null THEN Ends("client_id") ELSE Moves(h, "loop")

-----------------------------------------------------------------------------
(* mqtt_handler_connect, from the id on.                                   *)

Connect(h) ==
    /\ At(h, "loop") /\ open[sock[h]]
    /\ \E i \in Ids : ident' = [ident EXCEPT ![h] = i]
    /\ Goto(h, "had_id")
    /\ UNCHANGED <<slots, fdsArg, sock, doomed, leaving, store, fault>>

\* An integer reply is 0 or not; a string reply, which an error is as well, is
\* neither NIL nor an integer.
Replies(r) == reply' = r

Bit(b) == IF b THEN "integer" ELSE "zero"

\* had_client_id: SISMEMBER.  Without a reply the process exits.
HadId(h) ==
    /\ At(h, "had_id")
    /\ \/ /\ redis = "down"
          /\ Ends("redis")
       \/ /\ redis = "up"
          /\ Replies("string") \/ Replies(Bit(ident[h] \in ids))
          /\ Goto(h, "had_reply")
          /\ UNCHANGED <<slots, fdsArg, local, ids, redis, refused, fault>>

\* Variant: the reply is not looked at.
HadReplyIgnored(h) == At(h, "had_reply") /\ Moves(h, "add_id")

\* had_client_id reads reply: anything but the integer 0 means "is a member".
\* Another handler's command may have had no reply.
HadReply(h) ==
    /\ At(h, "had_reply")
    /\ \/ reply = "zero" /\ Moves(h, "add_id")
       \/ reply = "none" /\ Ends("redis")
       \/ reply \notin {"zero", "none"} /\ Fails(h)

\* Variant: the id is not stored.
AddIdForgotten(h) ==
    /\ At(h, "add_id")
    /\ Moves(h, "added")

\* add_client_id: SADD.  Without a reply the process exits; an error is taken
\* for success.
AddId(h) ==
    /\ At(h, "add_id")
    /\ \/ /\ redis = "down"
          /\ Ends("redis")
       \/ /\ redis = "up"
          /\ \/ /\ ids' = ids \cup {ident[h]}
                /\ Replies(Bit(ident[h] \notin ids))
                /\ UNCHANGED unstored
             \/ /\ unstored' = unstored \cup {ident[h]}
                /\ Replies("string")
                /\ UNCHANGED ids
          /\ Goto(h, "added")
          /\ UNCHANGED <<slots, fdsArg, local, redis, unfreed, fault>>

\* The will, the username and the password are parsed.  A CONNECT without a
\* username runs off the end of the function: no answer, and no return value.
\* check_auth asserts that there is a password.
Added(h) ==
    /\ At(h, "added")
    /\ Fails(h) \/ Moves(h, "loop") \/ Ends("password") \/ Moves(h, "auth")

\* check_auth: GET.  Without a reply it prints the error number as a string,
\* which ends the process.
Auth(h) ==
    /\ At(h, "auth")
    /\ \/ /\ redis = "down"
          /\ Ends("redis")
       \/ /\ redis = "up"
          /\ \E r \in {"string", "nil"} : Replies(r)
          /\ Goto(h, "auth_reply")
          /\ UNCHANGED <<slots, fdsArg, local, ids, redis, refused, fault>>

\* check_auth reads reply and prints its string, which the integer for another
\* thread's command does not have.  A user whose GET is an error is let in.  A
\* refused user gets CONNACK 4, and stays connected.
AuthReply(h) ==
    /\ At(h, "auth_reply")
    /\ \/ /\ reply = "nil"
          /\ Answered(fdsArg)
          /\ Goto(h, "loop")
          /\ UNCHANGED <<open, accepts, clientId, acked, fdsArg, local, store,
                         fault>>
       \/ /\ reply = "string"
          /\ Moves(h, "ack")
       \/ /\ reply \in {"integer", "zero", "none"}
          /\ Ends("reply")

\* mqtt_conn_ack(packet, 0) sends CONNACK to packet->fd->sockfd.
Ack(h) ==
    /\ At(h, "ack")
    /\ Answered(fdsArg)
    /\ acked' = [acked EXCEPT ![fdsArg] = IF open[fdsArg] THEN ident[h] ELSE @]
    /\ Goto(h, "set_env")
    /\ UNCHANGED <<open, accepts, clientId, fdsArg, local, store, fault>>

\* Variant: an id in the slot is kept.
SetEnvOnce(h) ==
    /\ At(h, "set_env")
    /\ clientId' = [clientId EXCEPT ![fdsArg] = IF @ = Null THEN ident[h] ELSE @]
    /\ Goto(h, "loop")
    /\ UNCHANGED <<open, accepts, armed, acked, fdsArg, local, store, fault>>

\* mqtt_set_env writes the slot that fds_arg names by now.
SetEnv(h) ==
    /\ At(h, "set_env")
    /\ clientId' = [clientId EXCEPT ![fdsArg] = ident[h]]
    /\ Goto(h, "loop")
    /\ UNCHANGED <<open, accepts, armed, acked, fdsArg, local, store, fault>>

-----------------------------------------------------------------------------
(* shut_dead_conn.                                                         *)

\* SREM.  Without a reply, or with an error, the id stays.
Srem(i) ==
    \/ redis = "down" /\ Replies("none") /\ UNCHANGED <<ids, unfreed>>
    \/ /\ redis = "up"
       /\ ids' = ids \ {i}
       /\ unfreed' = unfreed \ {i}
       /\ Replies(Bit(i \in ids))
    \/ /\ redis = "up"
       /\ unfreed' = unfreed \cup ({i} \cap ids)
       /\ Replies("string")
       /\ UNCHANGED ids

Removes(h, i) ==
    /\ At(h, "rm_id")
    /\ \/ i # Null /\ Srem(i)
       \/ i = Null /\ UNCHANGED <<ids, reply, unfreed>>
    /\ Goto(h, "removefd")
    /\ UNCHANGED <<slots, fdsArg, local, redis, unstored, fault>>

\* Variant: the id of the packet is removed instead of the one in the slot.
RmIdOfPacket(h) == Removes(h, ident[h])

\* rm_client_id of the id in the slot, if there is one: a missing reply is only
\* logged, and an error reply not even that.  rm_client_node, for a clean
\* session, does nothing.
RmId(h) == Removes(h, clientId[doomed[h]])

\* removefd closes the descriptor, which may be closed already; client_id stays
\* in the slot.
RemoveFd(h) ==
    /\ At(h, "removefd")
    /\ open' = [open EXCEPT ![doomed[h]] = FALSE]
    /\ armed' = [armed EXCEPT ![doomed[h]] = "no"]
    /\ acked' = [acked EXCEPT ![doomed[h]] = Null]
    /\ Goto(h, IF leaving[h] THEN "none" ELSE "loop")
    /\ UNCHANGED <<accepts, clientId, fdsArg, local, store, fault>>

\* Once a command has failed, the Redis context cannot be used again.
RedisDown == /\ running /\ redis = "up"
             /\ redis' = "down"
             /\ UNCHANGED <<slots, fdsArg, pc, local, ids, reply, refused, fault>>

-----------------------------------------------------------------------------
Reads(h) == \/ Gone(h) \/ WouldBlock(h) \/ BadPacket(h) \/ Disconnect(h)
            \/ Ping(h) \/ Subscribe(h) \/ Connect(h)

\* What a handler does without waiting for its peer.
Works(h) == \/ Start(h) \/ SubTopics(h)
            \/ HadId(h) \/ HadReply(h) \/ AddId(h) \/ Added(h)
            \/ Auth(h) \/ AuthReply(h) \/ Ack(h) \/ SetEnv(h)
            \/ RmId(h) \/ RemoveFd(h)

Next == \/ \E fd \in Fds : Accept(fd) \/ \E h \in Handlers : Dispatch(h, fd)
        \/ \E h \in Handlers : Reads(h) \/ Works(h)
        \/ RedisDown

Spec == Init /\ [][Next]_vars

\* Threads run, and recv on a closed descriptor returns.  Peers owe nothing.
Fairness == \A h \in Handlers : /\ WF_vars(Works(h))
                                /\ WF_vars(Gone(h) /\ ~ open[sock[h]])

FairSpec == Spec /\ Fairness

-----------------------------------------------------------------------------
(* Properties.  With one handler at a time and descriptors that are not    *)
(* reused they hold; UniqueIds fails without either restriction.           *)

\* Every variable has its type, and a running handler has a descriptor.
TypeOK ==
    /\ open \in [Fds -> BOOLEAN]
    /\ accepts \in [Fds -> 0 .. MaxAccepts]
    /\ armed \in [Fds -> {"no", "once", "always"}]
    /\ clientId \in [Fds -> Ids \cup {Null}]
    /\ acked \in [Fds -> Ids \cup {Null}]
    /\ fdsArg \in Fds \cup {Null}
    /\ pc \in [Handlers -> PCs]
    /\ sock \in [Handlers -> Fds \cup {Null}]
    /\ ident \in [Handlers -> Ids \cup {Null}]
    /\ doomed \in [Handlers -> Fds \cup {Null}]
    /\ leaving \in [Handlers -> BOOLEAN]
    /\ ids \subseteq Ids
    /\ reply \in {"integer", "zero", "nil", "string", "none"}
    /\ redis \in {"up", "down"}
    /\ fault \in {"none", "client_id", "password", "redis", "reply"}
    /\ unstored \subseteq Ids /\ unfreed \subseteq Ids
    /\ \A h \in Handlers :
          /\ pc[h] # "none" => fdsArg \in Fds
          /\ pc[h] \notin {"none", "start"} => sock[h] \in Fds
          /\ pc[h] \in {"rm_id", "removefd"} => doomed[h] \in Fds

Closing(fd) == \E h \in Handlers : pc[h] = "removefd" /\ doomed[h] = fd

\* The id of an acknowledged connection is in Redis for as long as the
\* connection is open, so that whoever else presents it is refused, unless
\* Redis has answered its SADD with an error.
AckedRegistered ==
    \A fd \in Fds : acked[fd] # Null /\ ~ Closing(fd)
                       => acked[fd] \in ids \cup unstored

\* What mqtt_handler_connect checks the set for: no two open connections are
\* acknowledged under the same client id, unless Redis has answered its SADD
\* with an error.
UniqueIds ==
    \A fd, other \in Fds :
        fd # other /\ acked[fd] \notin unstored \cup {Null}
            => acked[fd] # acked[other]

\* When an acknowledged connection has been closed its id is free again, so
\* that the client can come back under it, unless Redis is lost or has answered
\* the SREM with an error.
ClosedIdFree ==
    [][\A fd \in Fds :
          acked[fd] # Null /\ acked'[fd] = Null /\ redis = "up"
              => acked[fd] \notin ids \/ acked[fd] \in unfreed]_vars

\* mqtt_parse_subtopices asserts that the slot has a client_id, which
\* mqtt_handler_subscribe has checked several reads earlier.
SubscriberKnown == fault # "client_id"

\* What the ids promise: see ClientIds.  A CONNECT has claimed its id from SADD
\* to CONNACK, and a connection has none from SREM on.
Claimed == {ident[h] : h \in {g \in Handlers :
                pc[g] \in {"added", "auth", "auth_reply", "ack"}}}

Named == [fd \in Fds |-> IF Closing(fd) THEN Null ELSE acked[fd]]

Registry == INSTANCE ClientIds WITH
    Conns <- Fds,
    taken <- ids,
    claims <- Claimed,
    name <- Named,
    usable <- redis = "up",
    unstored <- unstored,
    unfreed <- unfreed

ImplementsClientIds == Registry!Spec

\* A handler whose descriptor has been closed, by its own shut_dead_conn after
\* an error or by another thread's, finds out and ends.
ClosedHandlerEnds ==
    \A h \in Handlers :
        pc[h] = "loop" /\ ~ open[sock[h]] ~> pc[h] = "none" \/ ~ running
=============================================================================

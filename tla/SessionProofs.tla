--------------------------- MODULE SessionProofs ----------------------------
(***************************************************************************)
(* Proofs about Session, for any sets of descriptors, ids and handlers:    *)
(* type correctness always; and, when no two handlers run at the same time *)
(* and accept never returns the same descriptor twice, the properties that *)
(* Session.cfg checks on two descriptors and two ids.  SessionReuse.cfg  *)
(* shows that less is not enough.                                          *)
(***************************************************************************)
EXTENDS Session, TLAPS

\* A handler inside mqtt_handler_connect has read an id.
Naming == {"had_id", "had_reply", "add_id", "added", "auth", "auth_reply",
           "ack", "set_env"}

TypeInv == TypeOK /\ \A h \in Handlers : pc[h] \in Naming => ident[h] \in Ids

-----------------------------------------------------------------------------
LEMMA InitTyped == Init => TypeInv
<1> SUFFICES ASSUME Init PROVE TypeInv
  OBVIOUS
<1> QED BY ConstantsOK DEF Init, TypeInv, TypeOK, PCs, Naming

LEMMA MainTyped ==
    ASSUME TypeInv, NEW fd \in Fds,
           Accept(fd) \/ (\E h \in Handlers : Dispatch(h, fd)) \/ RedisDown
    PROVE  TypeInv'
<1> USE ConstantsOK DEF TypeInv, TypeOK, PCs, Naming, slots, store, refused, local
<1>1. CASE Accept(fd)
  BY <1>1 DEF Accept
<1>2. CASE \E h \in Handlers : Dispatch(h, fd)
  BY <1>2 DEF Dispatch, Goto, At
<1>3. CASE RedisDown
  BY <1>3 DEF RedisDown
<1> QED BY <1>1, <1>2, <1>3

LEMMA ReadsTyped ==
    ASSUME TypeInv, NEW h \in Handlers, Reads(h)
    PROVE  TypeInv'
<1> USE ConstantsOK DEF TypeInv, TypeOK, PCs, Naming, slots, store, refused, local, At,
                        Goto, Moves, Shut, Fails, Answered
<1>1. CASE Gone(h)
  BY <1>1 DEF Gone
<1>2. CASE WouldBlock(h)
  BY <1>2 DEF WouldBlock
<1>3. CASE BadPacket(h)
  BY <1>3 DEF BadPacket
<1>4. CASE Disconnect(h)
  BY <1>4 DEF Disconnect
<1>5. CASE Ping(h)
  BY <1>5 DEF Ping
<1>6. CASE Subscribe(h)
  BY <1>6 DEF Subscribe
<1>7. CASE Connect(h)
  BY <1>7 DEF Connect
<1> QED BY <1>1, <1>2, <1>3, <1>4, <1>5, <1>6, <1>7 DEF Reads

LEMMA WorksTyped ==
    ASSUME TypeInv, NEW h \in Handlers, Works(h)
    PROVE  TypeInv'
<1> USE ConstantsOK DEF TypeInv, TypeOK, PCs, Naming, slots, store, refused, local, At,
                        Goto, Moves, Ends, Shut, Fails, Answered, Replies
<1>1. CASE Start(h)
  BY <1>1 DEF Start
<1>2. CASE SubTopics(h)
  <2>1. CASE clientId[fdsArg] = Null
    BY <1>2, <2>1 DEF SubTopics
  <2>2. CASE clientId[fdsArg] # Null
    BY <1>2, <2>2 DEF SubTopics
  <2> QED BY <2>1, <2>2
<1>3. CASE HadId(h)
  <2>1. CASE redis = "down"
    BY <1>3, <2>1 DEF HadId
  <2>2. CASE redis = "up"
    BY <1>3, <2>2 DEF HadId, Bit
  <2> QED BY <2>1, <2>2
<1>4. CASE HadReply(h)
  <2>1. CASE reply = "zero"
    BY <1>4, <2>1 DEF HadReply
  <2>2. CASE reply = "none"
    BY <1>4, <2>2 DEF HadReply
  <2>3. CASE reply \notin {"zero", "none"}
    <3>1. pc[h] = "had_reply" /\ Shut(h, fdsArg, FALSE)
      BY <1>4, <2>3 DEF HadReply
    <3> QED BY <3>1
  <2> QED BY <2>1, <2>2, <2>3
<1>5. CASE AddId(h)
  <2>1. CASE redis = "down"
    BY <1>5, <2>1 DEF AddId
  <2>2. CASE redis = "up"
    BY <1>5, <2>2 DEF AddId, Bit
  <2> QED BY <2>1, <2>2
<1>6. CASE Added(h)
  <2>1. CASE Shut(h, fdsArg, FALSE)
    BY <1>6, <2>1 DEF Added
  <2>2. CASE Moves(h, "loop") \/ Moves(h, "auth")
    BY <1>6, <2>2 DEF Added
  <2>3. CASE Ends("password")
    BY <2>3
  <2> QED BY <1>6, <2>1, <2>2, <2>3 DEF Added
<1>7. CASE Auth(h)
  BY <1>7 DEF Auth
<1>8. CASE AuthReply(h)
  BY <1>8 DEF AuthReply
<1>9. CASE Ack(h)
  BY <1>9 DEF Ack
<1>10. CASE SetEnv(h)
  BY <1>10 DEF SetEnv
<1>11. CASE RmId(h)
  BY <1>11 DEF RmId, Removes, Srem, Bit
<1>12. CASE RemoveFd(h)
  BY <1>12 DEF RemoveFd
<1> QED BY <1>1, <1>2, <1>3, <1>4, <1>5, <1>6, <1>7, <1>8, <1>9, <1>10,
           <1>11, <1>12 DEF Works

LEMMA StepTyped == TypeInv /\ [Next]_vars => TypeInv'
<1> SUFFICES ASSUME TypeInv, [Next]_vars PROVE TypeInv'
  OBVIOUS
<1>1. CASE UNCHANGED vars
  BY <1>1 DEF TypeInv, TypeOK, vars, slots, local, store, refused
<1>2. ASSUME NEW fd \in Fds, Accept(fd) \/ \E h \in Handlers : Dispatch(h, fd)
      PROVE  TypeInv'
  BY <1>2, MainTyped
<1>3. ASSUME NEW h \in Handlers, Reads(h) \/ Works(h)
      PROVE  TypeInv'
  BY <1>3, ReadsTyped, WorksTyped
<1>4. CASE RedisDown
  BY <1>4 DEF RedisDown, TypeInv, TypeOK, slots, local, refused
<1> QED BY <1>1, <1>2, <1>3, <1>4 DEF Next

\* Whatever the handlers do, every variable has its type, and a handler that
\* runs has a descriptor in fds_arg and, once started, in sockfd.
THEOREM TypeCorrect == Spec => []TypeOK
<1>1. TypeInv => TypeOK
  BY DEF TypeInv
<1> QED BY <1>1, InitTyped, StepTyped, PTL DEF Spec

-----------------------------------------------------------------------------
(* One handler at a time, no descriptor accepted twice.                    *)

Serial == MaxAccepts \in {0, 1} /\ \E h \in Handlers : Handlers = {h}

\* A descriptor that accept has not returned has nothing in its slot, and only
\* an open one is acknowledged.
SlotsFresh ==
    /\ \A fd \in Fds : accepts[fd] = 0 => ~ open[fd] /\ clientId[fd] = Null
    /\ \A fd \in Fds : acked[fd] # Null => open[fd]

\* fds_arg, sockfd and the argument of shut_dead_conn are one descriptor, and
\* it is open until removefd has closed it.
OneFd(h) ==
    /\ pc[h] \notin {"none", "start"} => sock[h] = fdsArg
    /\ pc[h] \in {"rm_id", "removefd"} => doomed[h] = fdsArg
    /\ pc[h] \in Naming \cup {"start", "subtopics"} => open[fdsArg]

\* The slot of an open descriptor names the id its peer was acknowledged
\* under, except between the CONNACK and mqtt_set_env.
SlotNamesPeer(h) ==
    /\ \A fd \in Fds : open[fd] => \/ clientId[fd] = acked[fd]
                                   \/ pc[h] = "set_env" /\ fd = fdsArg
    /\ pc[h] = "set_env" => acked[fdsArg] = ident[h]
    /\ pc[h] = "subtopics" => clientId[fdsArg] # Null

\* The id in the slot that the handler may be about to give up is nobody
\* else's, even when the slot's descriptor has been closed, unless it has not
\* been stored.
SlotIsOwn(h) ==
    pc[h] \notin {"none", "start"} =>
        \A fd \in Fds \ {fdsArg} : acked[fd] \notin unstored \cup {Null}
                                       => acked[fd] # clientId[fdsArg]

\* An id found free stays free until it is added; from then on it is in Redis,
\* and nobody else is acknowledged under it, unless it has not been stored.
IdClaimed(h) ==
    /\ pc[h] = "had_reply" /\ reply = "zero" => ident[h] \notin ids
    /\ pc[h] = "add_id" => ident[h] \notin ids
    /\ pc[h] \in {"added", "auth", "auth_reply", "ack", "set_env"} =>
          /\ ident[h] \in ids \cup unstored
          /\ \A fd \in Fds \ {fdsArg} :
                acked[fd] = ident[h] => ident[h] \in unstored

\* Past SREM the id of the slot is out of the set, and stays out while the
\* handler goes on with the closed descriptor, unless SREM was refused.
IdGivenUp(h) ==
    pc[h] \notin {"none", "start"} /\ (pc[h] = "removefd" \/ ~ open[fdsArg])
        /\ redis = "up" => clientId[fdsArg] \notin ids \/ clientId[fdsArg] \in unfreed

\* What every step of Session preserves when handlers run one at a time.
SerialInv ==
    /\ TypeInv
    /\ SlotsFresh
    /\ \A h \in Handlers : /\ OneFd(h) /\ SlotNamesPeer(h) /\ SlotIsOwn(h)
                           /\ IdClaimed(h) /\ IdGivenUp(h)
    /\ AckedRegistered
    /\ UniqueIds
    /\ SubscriberKnown

LEMMA InitSerial == Init => SerialInv
<1> SUFFICES ASSUME Init PROVE SerialInv
  OBVIOUS
<1>1. TypeInv
  BY InitTyped
<1> QED BY <1>1 DEF Init, SerialInv, SlotsFresh, OneFd, SlotNamesPeer, SlotIsOwn,
                    IdClaimed, IdGivenUp, AckedRegistered, UniqueIds,
                    SubscriberKnown, Naming

\* accept returns a fresh slot; et names the connection of the one handler.
LEMMA MainSerial ==
    ASSUME NEW h \in Handlers, Handlers = {h}, MaxAccepts \in {0, 1},
           SerialInv, TypeInv', NEW fd \in Fds,
           Accept(fd) \/ Dispatch(h, fd)
    PROVE  SerialInv'
<1> USE ConstantsOK DEF TypeInv, TypeOK, Naming, slots, store, refused, local, At, Goto,
                        running, SlotsFresh, OneFd, SlotNamesPeer, SlotIsOwn,
                        IdClaimed, IdGivenUp, AckedRegistered, UniqueIds,
                        SubscriberKnown, Closing, SerialInv
<1>1. CASE Accept(fd)
  BY <1>1 DEF Accept
<1>2. CASE Dispatch(h, fd)
  BY <1>2 DEF Dispatch
<1> QED BY <1>1, <1>2

\* What the handler reads from its peer.
LEMMA ReadsSerial ==
    ASSUME NEW h \in Handlers, Handlers = {h}, SerialInv, TypeInv', Reads(h)
    PROVE  SerialInv'
<1> USE ConstantsOK DEF TypeInv, TypeOK, Naming, slots, store, refused, local, At, Goto,
                        Moves, Ends, Shut, Fails, Answered, Replies, running,
                        SlotsFresh, OneFd, SlotNamesPeer, SlotIsOwn, IdClaimed,
                        IdGivenUp, AckedRegistered, UniqueIds, SubscriberKnown,
                        Closing
<1>0. /\ SlotsFresh /\ OneFd(h) /\ SlotNamesPeer(h) /\ SlotIsOwn(h)
      /\ IdClaimed(h) /\ IdGivenUp(h) /\ AckedRegistered /\ UniqueIds
      /\ SubscriberKnown
  BY DEF SerialInv
<1>1. CASE Gone(h)
  BY <1>0, <1>1 DEF Gone, SerialInv
<1>2. CASE WouldBlock(h)
  BY <1>0, <1>2 DEF WouldBlock, SerialInv
<1>3. CASE BadPacket(h)
  BY <1>0, <1>3 DEF BadPacket, SerialInv
<1>4. CASE Disconnect(h)
  BY <1>0, <1>4 DEF Disconnect, SerialInv
<1>5. CASE Ping(h)
  BY <1>0, <1>5 DEF Ping, SerialInv
<1>6. CASE Subscribe(h)
  BY <1>0, <1>6 DEF Subscribe, SerialInv
<1>7. CASE Connect(h)
  BY <1>0, <1>7 DEF Connect, SerialInv
<1> QED BY <1>1, <1>2, <1>3, <1>4, <1>5, <1>6, <1>7 DEF Reads

\* What it does by itself.
LEMMA WorksSerial ==
    ASSUME NEW h \in Handlers, Handlers = {h}, SerialInv, TypeInv', Works(h)
    PROVE  SerialInv'
<1> USE ConstantsOK DEF TypeInv, TypeOK, Naming, slots, store, refused, local, At, Goto,
                        Moves, Ends, Shut, Fails, Answered, Replies, running,
                        SlotsFresh, OneFd, SlotNamesPeer, SlotIsOwn, IdClaimed,
                        IdGivenUp, AckedRegistered, UniqueIds, SubscriberKnown,
                        Closing
<1>0. /\ SlotsFresh /\ OneFd(h) /\ SlotNamesPeer(h) /\ SlotIsOwn(h)
      /\ IdClaimed(h) /\ IdGivenUp(h) /\ AckedRegistered /\ UniqueIds
      /\ SubscriberKnown
  BY DEF SerialInv
<1>1. CASE Start(h)
  BY <1>0, <1>1 DEF Start, SerialInv
<1>2. CASE SubTopics(h)
  BY <1>0, <1>2 DEF SubTopics, SerialInv
<1>3. CASE HadId(h)
  BY <1>0, <1>3 DEF HadId, Bit, SerialInv
<1>4. CASE HadReply(h)
  BY <1>0, <1>4 DEF HadReply, SerialInv
<1>5. CASE AddId(h)
  BY <1>0, <1>5 DEF AddId, Bit, SerialInv
<1>6. CASE Added(h)
  BY <1>0, <1>6 DEF Added, SerialInv
<1>7. CASE Auth(h)
  BY <1>0, <1>7 DEF Auth, SerialInv
<1>8. CASE AuthReply(h)
  BY <1>0, <1>8 DEF AuthReply, SerialInv
<1>9. CASE Ack(h)
  BY <1>0, <1>9 DEF Ack, SerialInv
<1>10. CASE SetEnv(h)
  BY <1>0, <1>10 DEF SetEnv, SerialInv
<1>11. CASE RmId(h)
  BY <1>0, <1>11 DEF RmId, Removes, Srem, Bit, SerialInv
<1>12. CASE RemoveFd(h)
  BY <1>0, <1>12 DEF RemoveFd, SerialInv
<1> QED BY <1>1, <1>2, <1>3, <1>4, <1>5, <1>6, <1>7, <1>8, <1>9, <1>10, <1>11, <1>12 DEF Works

LEMMA StepSerial ==
    ASSUME Serial, SerialInv, [Next]_vars
    PROVE  SerialInv'
<1>1. TypeInv'
  BY StepTyped DEF SerialInv
<1>2. PICK h \in Handlers : Handlers = {h}
  BY DEF Serial
<1>3. CASE UNCHANGED vars
  BY <1>1, <1>3 DEF vars, slots, store, refused, local, SerialInv, SlotsFresh, OneFd,
                    SlotNamesPeer, SlotIsOwn, IdClaimed, IdGivenUp,
                    AckedRegistered, UniqueIds, SubscriberKnown, Closing
<1>4. CASE \E fd \in Fds : Accept(fd) \/ \E g \in Handlers : Dispatch(g, fd)
  BY <1>1, <1>2, <1>4, MainSerial DEF Serial
<1>5. CASE \E g \in Handlers : Reads(g) \/ Works(g)
  BY <1>1, <1>2, <1>5, ReadsSerial, WorksSerial
<1>6. CASE RedisDown
  BY <1>1, <1>6 DEF RedisDown, slots, local, refused, SerialInv, SlotsFresh, OneFd,
                    SlotNamesPeer, SlotIsOwn, IdClaimed, IdGivenUp,
                    AckedRegistered, UniqueIds, SubscriberKnown, Closing
<1> QED BY <1>3, <1>4, <1>5, <1>6 DEF Next

LEMMA SerialAlways == ASSUME Serial PROVE Spec => []SerialInv
<1>1. SerialInv /\ [Next]_vars => SerialInv'
  BY StepSerial
<1> QED BY <1>1, InitSerial, PTL DEF Spec

\* With one handler at a time no two open connections are ever acknowledged
\* under one client id, whenever packets fail, peers close or Redis is lost,
\* unless Redis has refused to store it: what the check in mqtt_handler_connect is for.
THEOREM UniqueIdsHold == ASSUME Serial PROVE Spec => []UniqueIds
<1>1. SerialInv => UniqueIds
  BY DEF SerialInv
<1> QED BY <1>1, SerialAlways, PTL

\* ... the id of an acknowledged connection stays in the set while it is open.
THEOREM AckedRegisteredHolds == ASSUME Serial PROVE Spec => []AckedRegistered
<1>1. SerialInv => AckedRegistered
  BY DEF SerialInv
<1> QED BY <1>1, SerialAlways, PTL

\* ... and the assertion of mqtt_parse_subtopices never fails: the slot still
\* has the client_id that mqtt_handler_subscribe saw.
THEOREM SubscriberKnownHolds == ASSUME Serial PROVE Spec => []SubscriberKnown
<1>1. SerialInv => SubscriberKnown
  BY DEF SerialInv
<1> QED BY <1>1, SerialAlways, PTL

\* A step that ends an acknowledgement is removefd, and SREM came before it.
LEMMA ClosedStep ==
    ASSUME Serial, SerialInv, [Next]_vars, NEW fd \in Fds,
           acked[fd] # Null, acked'[fd] = Null, redis = "up"
    PROVE  acked[fd] \notin ids \/ acked[fd] \in unfreed
<1> USE ConstantsOK
<1>1. PICK h \in Handlers : Handlers = {h}
  BY DEF Serial
<1>2. TypeInv /\ OneFd(h) /\ SlotNamesPeer(h) /\ IdGivenUp(h) /\ SlotsFresh
  BY DEF SerialInv
<1>3. RemoveFd(h)
  <2>1. ASSUME UNCHANGED acked PROVE FALSE
    BY <2>1
  <2>2. ~ Reads(h)
    BY <2>1 DEF Reads, Gone, WouldBlock, BadPacket, Disconnect, Ping, Subscribe,
                Connect, Shut, Fails, Moves, slots
  <2>3. Works(h) => Ack(h) \/ RemoveFd(h)
    BY <2>1 DEF Works, Start, SubTopics, HadId, HadReply, AddId, Added, Auth,
                AuthReply, SetEnv, RmId, Removes, Shut, Fails, Moves, Ends, slots
  <2>4. ~ Ack(h)
    BY <1>2 DEF Ack, At, TypeInv, TypeOK, Naming
  <2> QED BY <1>1, <2>1, <2>2, <2>3, <2>4
          DEF Next, Accept, Dispatch, RedisDown, slots, vars
<1>4. fd = fdsArg /\ pc[h] = "removefd"
  BY <1>2, <1>3 DEF RemoveFd, At, OneFd, TypeInv, TypeOK, store, refused
<1>5. clientId[fd] = acked[fd]
  BY <1>2, <1>4 DEF SlotsFresh, SlotNamesPeer
<1> QED BY <1>2, <1>4, <1>5 DEF IdGivenUp

\* With one handler at a time a closed connection has given its id back, so
\* that its client can come back under it.
THEOREM ClosedIdFreeHolds == ASSUME Serial PROVE Spec => ClosedIdFree
<1>1. SerialInv /\ [Next]_vars =>
        [\A fd \in Fds : acked[fd] # Null /\ acked'[fd] = Null /\ redis = "up"
                            => acked[fd] \notin ids \/ acked[fd] \in unfreed]_vars
  BY ClosedStep
<1> QED BY <1>1, SerialAlways, PTL DEF Spec, ClosedIdFree
-----------------------------------------------------------------------------
(* Session implements ClientIds.                                           *)

\* From SADD to CONNACK.
Claiming == {"added", "auth", "auth_reply", "ack"}

\* The id the handler is getting.
ClaimOf(h) == IF pc[h] \in Claiming THEN {ident[h]} ELSE {}

\* The id of a connection, until SREM.
NameOf(h, fd) == IF pc[h] = "removefd" /\ doomed[h] = fd THEN Null ELSE acked[fd]

\* What ClientIds speaks of, with one handler.
LEMMA OneClaim ==
    ASSUME NEW h \in Handlers, Handlers = {h}
    PROVE  /\ Claimed = ClaimOf(h) /\ Claimed' = ClaimOf(h)'
           /\ Named = [fd \in Fds |-> NameOf(h, fd)]
           /\ Named' = [fd \in Fds |-> NameOf(h, fd)']
<1>1. Claimed = ClaimOf(h) /\ Claimed' = ClaimOf(h)'
  BY DEF Claimed, ClaimOf, Claiming
<1>2. ASSUME NEW fd \in Fds
      PROVE  /\ (IF Closing(fd) THEN Null ELSE acked[fd]) = NameOf(h, fd)
             /\ (IF Closing(fd) THEN Null ELSE acked[fd])' = NameOf(h, fd)'
  BY DEF Closing, NameOf
<1> QED BY <1>1, <1>2 DEF Named

\* Steps that change neither the set nor who is known by which id.
LEMMA Aside ==
    ASSUME NEW h \in Handlers, Handlers = {h},
           UNCHANGED <<ids, redis, unstored, unfreed>>, ClaimOf(h)' = ClaimOf(h),
           \A fd \in Fds : NameOf(h, fd)' = NameOf(h, fd)
    PROVE  UNCHANGED Registry!vars
<1>1. Claimed' = Claimed /\ Named' = Named
  BY OneClaim
<1> QED BY <1>1 DEF Registry!vars

\* The main thread, and what the handler does besides ids.
LEMMA MostAside ==
    ASSUME NEW h \in Handlers, Handlers = {h}, SerialInv,
           \/ \E fd \in Fds : Accept(fd) \/ Dispatch(h, fd)
           \/ Reads(h) \/ Start(h) \/ SubTopics(h) \/ HadId(h) \/ HadReply(h)
           \/ Auth(h) \/ SetEnv(h) \/ RemoveFd(h)
    PROVE  UNCHANGED Registry!vars
<1> USE DEF ClaimOf, NameOf, Claiming, TypeInv, TypeOK, Naming, slots, store, refused,
            local, At, Goto, Moves, Ends, Shut, Fails, Answered, Replies, running
<1>0. TypeInv
  BY DEF SerialInv
<1>1. ASSUME NEW fd \in Fds, Accept(fd) \/ Dispatch(h, fd)
      PROVE  UNCHANGED Registry!vars
  BY <1>0, <1>1, Aside DEF Accept, Dispatch
<1>2. CASE Reads(h)
  BY <1>0, <1>2, Aside DEF Reads, Gone, WouldBlock, BadPacket, Disconnect, Ping,
                           Subscribe, Connect
<1>3. CASE Start(h) \/ SubTopics(h) \/ HadId(h) \/ HadReply(h) \/ Auth(h) \/ SetEnv(h)
  BY <1>0, <1>3, Aside DEF Start, SubTopics, HadId, HadReply, Auth, SetEnv
<1>4. CASE RemoveFd(h)
  BY <1>0, <1>4, Aside DEF RemoveFd
<1> QED BY <1>1, <1>2, <1>3, <1>4

\* SADD takes an id that is free.
LEMMA AddClaims ==
    ASSUME NEW h \in Handlers, Handlers = {h}, SerialInv, AddId(h)
    PROVE  [Registry!Next]_(Registry!vars)
<1> USE DEF ClaimOf, NameOf, Claiming, At, Goto, Ends, Replies, store, refused, local
<1>1. TypeInv /\ IdClaimed(h) /\ pc[h] = "add_id" /\ ident[h] \in Ids
  BY DEF SerialInv, AddId, TypeInv, Naming
<1>2. CASE redis = "down"
  BY <1>2, Aside DEF AddId, slots
<1>3. CASE redis = "up"
  <2>1. /\ \/ ids' = ids \cup {ident[h]} /\ UNCHANGED unstored
           \/ unstored' = unstored \cup {ident[h]} /\ UNCHANGED ids
        /\ pc' = [pc EXCEPT ![h] = "added"]
        /\ UNCHANGED <<slots, local, redis, unfreed>>
    BY <1>3 DEF AddId
  <2>2. Claimed' = Claimed \cup {ident[h]} /\ Named' = Named
    BY <1>1, <2>1, OneClaim DEF TypeInv, TypeOK, slots
  <2>3. Registry!Claim(ident[h])
    BY <1>1, <1>3, <2>1, <2>2 DEF Registry!Claim, IdClaimed
  <2> QED BY <1>1, <2>3 DEF Registry!Next
<1> QED BY <1>2, <1>3 DEF AddId

\* A CONNECT fails after SADD, or goes on.
LEMMA ClaimEnds ==
    ASSUME NEW h \in Handlers, Handlers = {h}, SerialInv,
           Added(h) \/ AuthReply(h)
    PROVE  [Registry!Next]_(Registry!vars)
<1> USE DEF ClaimOf, NameOf, Claiming, At, Goto, Ends, Moves, Shut, Fails, Answered,
            store, refused, local, slots
<1>1. /\ TypeInv /\ pc[h] \in {"added", "auth_reply"} /\ ident[h] \in Ids
      /\ UNCHANGED <<ids, redis, acked, ident, unstored, unfreed>>
  BY DEF SerialInv, Added, AuthReply, TypeInv, Naming
<1>2. CASE pc'[h] \in Claiming
  <2>1. ClaimOf(h)' = ClaimOf(h)
    BY <1>1, <1>2
  <2>2. \A fd \in Fds : NameOf(h, fd)' = NameOf(h, fd)
    BY <1>1, <1>2
  <2> QED BY <1>1, <2>1, <2>2, Aside
<1>3. CASE pc'[h] \notin Claiming
  <2>1. pc'[h] # "removefd"
    BY <1>1, <1>3 DEF Added, AuthReply, TypeInv, TypeOK
  <2>2. Claimed = {ident[h]} /\ Claimed' = {} /\ Named' = Named
    BY <1>1, <1>3, <2>1, OneClaim
  <2>3. Registry!Abandon(ident[h])
    BY <1>1, <2>2 DEF Registry!Abandon
  <2> QED BY <1>1, <2>3 DEF Registry!Next
<1> QED BY <1>2, <1>3

\* CONNACK 0.
LEMMA AckGrants ==
    ASSUME NEW h \in Handlers, Handlers = {h}, SerialInv, Ack(h)
    PROVE  Registry!Next
<1> USE DEF At, Goto, store, refused, local
<1>1. /\ TypeInv /\ pc[h] = "ack" /\ ident[h] \in Ids /\ fdsArg \in Fds
      /\ open[fdsArg]
  BY DEF SerialInv, Ack, TypeInv, TypeOK, Naming, OneFd
<1>2. /\ acked' = [acked EXCEPT ![fdsArg] = ident[h]]
      /\ pc' = [pc EXCEPT ![h] = "set_env"]
      /\ UNCHANGED <<ids, redis, ident, doomed, unstored, unfreed>>
  BY <1>1 DEF Ack
<1>3. Claimed = {ident[h]} /\ Claimed' = {}
  BY <1>1, <1>2, OneClaim DEF ClaimOf, Claiming, TypeInv, TypeOK
<1>4. Named' = [Named EXCEPT ![fdsArg] = ident[h]]
  <2>1. \A fd \in Fds : /\ NameOf(h, fd) = acked[fd]
                        /\ NameOf(h, fd)' = IF fd = fdsArg THEN ident[h] ELSE acked[fd]
    BY <1>1, <1>2 DEF NameOf, TypeInv, TypeOK
  <2> QED BY <1>1, <2>1, OneClaim
<1>5. Registry!Grant(fdsArg, ident[h])
  BY <1>2, <1>3, <1>4 DEF Registry!Grant
<1> QED BY <1>1, <1>5 DEF Registry!Next

\* SREM gives back the id of the connection, or none.
LEMMA RmReleases ==
    ASSUME NEW h \in Handlers, Handlers = {h}, SerialInv, RmId(h)
    PROVE  [Registry!Next]_(Registry!vars)
<1> USE DEF At, Goto, store, refused, local, slots, Replies
<1>1. /\ TypeInv /\ pc[h] = "rm_id" /\ doomed[h] = fdsArg /\ fdsArg \in Fds
      /\ SlotsFresh /\ SlotNamesPeer(h) /\ IdGivenUp(h) /\ SlotIsOwn(h)
  BY DEF SerialInv, RmId, Removes, TypeInv, TypeOK, OneFd
<1> DEFINE i == clientId[fdsArg]
<1>2. /\ UNCHANGED <<redis, acked, ident, doomed, unstored>>
      /\ pc' = [pc EXCEPT ![h] = "removefd"]
      /\ \/ i # Null /\ Registry!Free(i)
         \/ i = Null /\ UNCHANGED <<ids, unfreed>>
  BY <1>1 DEF RmId, Removes, Srem, Registry!Free, TypeInv, TypeOK
<1>3. Claimed = {} /\ Claimed' = {}
  BY <1>1, <1>2, OneClaim DEF ClaimOf, Claiming, TypeInv, TypeOK
<1>4. Named' = [Named EXCEPT ![fdsArg] = Null] /\ Named[fdsArg] = acked[fdsArg]
  BY <1>1, <1>2, OneClaim DEF NameOf, TypeInv, TypeOK
<1>5. CASE acked[fdsArg] # Null
  <2>1. i = acked[fdsArg]
    BY <1>1, <1>5 DEF SlotsFresh, SlotNamesPeer
  <2>2. Registry!Free(Named[fdsArg])
    BY <1>2, <1>4, <1>5, <2>1
  <2>3. Registry!Release(fdsArg)
    BY <1>2, <1>3, <1>4, <1>5, <2>2 DEF Registry!Release
  <2> QED BY <1>1, <2>3 DEF Registry!Next
<1>6. CASE acked[fdsArg] = Null
  <2>1. Named' = Named
    BY <1>4, <1>6, OneClaim
  <2>2. CASE UNCHANGED <<ids, unfreed>>
    BY <1>2, <1>3, <2>1, <2>2 DEF Registry!vars
  <2>3. CASE ~ UNCHANGED <<ids, unfreed>>
    <3>1. i # Null /\ i \in Ids /\ Registry!Free(i)
      BY <1>1, <1>2, <2>3 DEF TypeInv, TypeOK
    <3>2. ~ open[fdsArg]
      BY <1>1, <1>6, <3>1 DEF SlotNamesPeer
    <3>3. i \in unfreed
      BY <1>1, <2>3, <3>1, <3>2 DEF IdGivenUp, Registry!Free
    <3>4. i \in unstored \/ \A fd \in Fds : Named[fd] # i
      BY <1>1, <1>6, <3>1, OneClaim DEF SlotIsOwn, NameOf
    <3>5. Registry!FreeAgain(i)
      BY <1>2, <1>3, <2>1, <3>1, <3>3, <3>4 DEF Registry!FreeAgain
    <3> QED BY <3>1, <3>5 DEF Registry!Next
  <2> QED BY <2>2, <2>3
<1> QED BY <1>5, <1>6

LEMMA StepImplements ==
    ASSUME Serial, SerialInv, [Next]_vars
    PROVE  [Registry!Next]_(Registry!vars)
<1>1. PICK h \in Handlers : Handlers = {h}
  BY DEF Serial
<1>2. CASE UNCHANGED vars
  BY <1>1, <1>2, Aside DEF vars, slots, local, store, refused, ClaimOf, NameOf
<1>3. CASE \/ \E fd \in Fds : Accept(fd) \/ Dispatch(h, fd)
           \/ Reads(h) \/ Works(h)
  BY <1>1, <1>3, MostAside, AddClaims, ClaimEnds, AckGrants, RmReleases DEF Works
<1>4. CASE RedisDown
  <2>1. Claimed' = Claimed /\ Named' = Named /\ UNCHANGED ids
    BY <1>1, <1>4, OneClaim DEF RedisDown, slots, local, ClaimOf, NameOf
  <2>2. Registry!Lose
    BY <1>4, <2>1 DEF RedisDown, Registry!Lose, refused
  <2> QED BY <2>2 DEF Registry!Next
<1> QED BY <1>1, <1>2, <1>3, <1>4 DEF Next

\* With one handler at a time and no descriptor accepted twice, the handlers'
\* Redis commands keep the promise of ClientIds: an id is taken by one
\* connection and is free again exactly when that connection has left.
THEOREM Implements == ASSUME Serial PROVE Spec => ImplementsClientIds
<1>1. Init => Registry!Init
  <2> SUFFICES ASSUME Init PROVE Registry!Init
    OBVIOUS
  <2>1. Claimed = {} /\ \A fd \in Fds : ~ Closing(fd) /\ acked[fd] = Null
    BY DEF Init, Claimed, Closing
  <2> QED BY <2>1 DEF Init, Registry!Init, Named
<1>2. SerialInv /\ [Next]_vars => [Registry!Next]_(Registry!vars)
  BY StepImplements
<1> QED BY <1>1, <1>2, SerialAlways, PTL
        DEF Spec, ImplementsClientIds, Registry!Spec
=============================================================================

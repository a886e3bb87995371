----------------------------- MODULE EpollConn ------------------------------
(***************************************************************************)
(* One open connection between the epoll loop and its handler threads: who *)
(* is woken for its input, and what becomes of the server's answers.       *)
(*                                                                         *)
(* A descriptor has one registration, which input and output share.  addfd *)
(* and reset_oneshot register it for input once, set_fd_out for output     *)
(* with the answer to send, set_fd_in for input without EPOLLONESHOT.      *)
(* Every registration is edge-triggered.  EPOLL_CTL_MOD looks at the       *)
(* descriptor at once, so input that is waiting becomes an event, and the  *)
(* socket's buffer always has room for an answer.                          *)
(*                                                                         *)
(* Packets are read whole; a packet that arrives in parts is in            *)
(* PacketReader.  Handlers of other connections push messages to the peer. *)
(* Closing the descriptor is in Session.                                   *)
(***************************************************************************)
EXTENDS Naturals, Sequences

CONSTANTS Handlers,    \* threads that may serve the connection at once
          MaxPackets,  \* packets the peer sends
          MaxPushes,   \* messages other connections publish for the peer
          None         \* no answer

ASSUME ConstantsOK ==
    /\ MaxPackets \in Nat
    /\ MaxPushes \in Nat
    /\ None \notin Nat

VARIABLES
    reg,         \* events of the registration: "in_once", "in", "out", or
                 \* "off" after an EPOLLONESHOT event
    outData,     \* the answer in the registration's epoll_data
    edge,        \* an event that epoll_wait has not returned yet
    event,       \* what et is about to handle: "none", "in", or "out"
    eventData,   \* its epoll_data
    arrived,     \* packets the peer has sent
    unread,      \* those in the socket's buffer
    pushes,      \* messages published for the peer
    answers,     \* answers and messages made so far, each is its number
    sent,        \* answers sent to the peer
    pc           \* "none", "loop", "answer", or "blocked" (EAGAIN)

kernel == <<reg, outData, edge>>
main == <<event, eventData>>
peer == <<arrived, unread, sent>>
made == <<pushes, answers>>
vars == <<kernel, main, peer, made, pc>>

Init ==
    /\ reg = "in_once" /\ outData = None /\ edge = FALSE
    /\ event = "none" /\ eventData = None
    /\ arrived = 0 /\ unread = 0 /\ sent = <<>>
    /\ pushes = 0 /\ answers = 0
    /\ pc = [h \in Handlers |-> "none"]

Goto(h, label) == pc' = [pc EXCEPT ![h] = label]

\* epoll_ctl with EPOLL_CTL_MOD: the last call wins.
Register(events, data) ==
    /\ reg' = events
    /\ outData' = data
    /\ edge' = (events = "out" \/ unread > 0)

reset_oneshot == Register("in_once", None)

\* Variant: the epoll_data of the last registration is kept.
KeepsData == Register("in", outData)

set_fd_in == Register("in", None)

set_fd_out(answer) == Register("out", answer)

-----------------------------------------------------------------------------
\* A packet arrives: an event, if the registration asks for input.
Arrive ==
    /\ arrived < MaxPackets
    /\ arrived' = arrived + 1
    /\ unread' = unread + 1
    /\ edge' = (edge \/ reg \in {"in_once", "in"})
    /\ UNCHANGED <<reg, outData, main, sent, made, pc>>

\* epoll_wait returns the event with the data of the registration, and turns
\* an EPOLLONESHOT registration off.
EpollWait ==
    /\ event = "none" /\ edge
    /\ event' = IF reg = "out" THEN "out" ELSE "in"
    /\ eventData' = outData
    /\ reg' = IF reg = "in_once" THEN "off" ELSE reg
    /\ edge' = FALSE
    /\ UNCHANGED <<outData, peer, made, pc>>

\* et, EPOLLIN: a thread is created.
EventIn(h) ==
    /\ event = "in" /\ pc[h] = "none"
    /\ event' = "none"
    /\ Goto(h, "loop")
    /\ UNCHANGED <<kernel, eventData, peer, made>>

\* Variant: set_fd_out in the place of set_fd_in.
EventOutAgain ==
    /\ event = "out"
    /\ sent' = Append(sent, eventData)
    /\ event' = "none" /\ eventData' = None
    /\ set_fd_out(eventData)
    /\ UNCHANGED <<arrived, unread, made, pc>>

\* Variant: et does not go back to input after the answer.
EventOutOnly ==
    /\ event = "out"
    /\ sent' = Append(sent, eventData)
    /\ event' = "none" /\ eventData' = None
    /\ UNCHANGED <<kernel, arrived, unread, made, pc>>

\* et, EPOLLOUT: the answer is sent, then set_fd_in.
EventOut ==
    /\ event = "out"
    /\ sent' = Append(sent, eventData)
    /\ event' = "none" /\ eventData' = None
    /\ set_fd_in
    /\ UNCHANGED <<arrived, unread, made, pc>>

\* conn_handler reads a packet, which gets an answer or does not.
Read(h) ==
    /\ pc[h] = "loop" /\ unread > 0
    /\ unread' = unread - 1
    /\ Goto(h, "answer") \/ UNCHANGED pc
    /\ UNCHANGED <<kernel, main, arrived, sent, made>>

\* mqtt_send_payload: one more answer or message for the peer.
Send == /\ answers' = answers + 1
        /\ set_fd_out(answers + 1)

Answer(h) ==
    /\ pc[h] = "answer"
    /\ Send
    /\ Goto(h, "loop")
    /\ UNCHANGED <<main, peer, pushes>>

\* The handler of another connection publishes to the peer.
Push ==
    /\ pushes < MaxPushes
    /\ pushes' = pushes + 1
    /\ Send
    /\ UNCHANGED <<main, peer, pc>>

\* recv finds nothing: EAGAIN.
WouldBlock(h) ==
    /\ pc[h] = "loop" /\ unread = 0
    /\ Goto(h, "blocked")
    /\ UNCHANGED <<kernel, main, peer, made>>

\* Variant: the registration is renewed without EPOLLONESHOT.
ResetAlways(h) ==
    /\ pc[h] = "blocked"
    /\ set_fd_in
    /\ Goto(h, "none")
    /\ UNCHANGED <<main, peer, made>>

\* conn_handler after EAGAIN: reset_oneshot, and the thread ends.
Reset(h) ==
    /\ pc[h] = "blocked"
    /\ reset_oneshot
    /\ Goto(h, "none")
    /\ UNCHANGED <<main, peer, made>>

-----------------------------------------------------------------------------
Main == EpollWait \/ EventOut \/ \E h \in Handlers : EventIn(h)

Handler(h) == Read(h) \/ Answer(h) \/ WouldBlock(h) \/ Reset(h)

Next == Arrive \/ Push \/ Main \/ \E h \in Handlers : Handler(h)

\* Every thread runs.
Fairness == WF_vars(Main) /\ \A h \in Handlers : WF_vars(Handler(h))

Spec == Init /\ [][Next]_vars /\ Fairness

-----------------------------------------------------------------------------
Active == {h \in Handlers : pc[h] # "none"}

\* Every variable has its type; only an output registration has an answer.
TypeOK ==
    /\ reg \in {"in_once", "in", "out", "off"}
    /\ outData \in 1 .. answers \cup {None}
    /\ outData # None <=> reg = "out"
    /\ edge \in BOOLEAN
    /\ event \in {"none", "in", "out"}
    /\ event = "out" => eventData \in 1 .. answers
    /\ arrived \in 0 .. MaxPackets /\ unread \in 0 .. arrived
    /\ pushes \in 0 .. MaxPushes
    /\ answers \in Nat
    /\ sent \in Seq(1 .. answers)
    /\ pc \in [Handlers -> {"none", "loop", "answer", "blocked"}]

\* Although every registration is edge-triggered and input and output take it
\* from each other, every packet of the peer is read.
InputIsRead == unread > 0 ~> unread = 0

\* The peer never gets an answer twice, nor an older one after a newer one.
SentInOrder ==
    \A i, j \in DOMAIN sent : i < j => sent[i] < sent[j]

\* EPOLLONESHOT gives the connection one reader at a time until an answer has
\* been sent.  From then on set_fd_in has turned it off, and two handlers can
\* read one connection.
OneReaderUntilAnswer ==
    \A g, h \in Active : g # h => sent # <<>>

\* mqtt_conn_ack logs "send a ret_code [%d] to client [%s]": an answer that has
\* been made is sent.
AnswerIsSent ==
    \A a \in 1 .. MaxPackets + MaxPushes :
        answers >= a ~> \E i \in DOMAIN sent : sent[i] = a
=============================================================================

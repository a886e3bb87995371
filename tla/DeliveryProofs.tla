--------------------------- MODULE DeliveryProofs ---------------------------
(***************************************************************************)
(* Proofs about Delivery, for any sets of descriptors and clients and any  *)
(* number of packets: type correctness and what the runs of Delivery.cfg   *)
(* check on two of each.                                                   *)
(***************************************************************************)
EXTENDS Delivery, FiniteSetTheorems, SequenceTheorems, TLAPS

\* The types, with messages that have been published.
Types ==
    /\ accepts \in [Fds -> 0 .. MaxAccepts]
    /\ peer \in [Fds -> Clients \cup {Null, Anon}]
    /\ ids \subseteq Clients
    /\ slot \in [Fds -> Clients \cup {Null}]
    /\ sockfd \in [Clients -> Fds \cup {Null}]
    /\ queue \in [Clients -> Seq(1 .. published)]
    /\ subs \in Seq(Clients) /\ Len(subs) <= MaxSubs
    /\ published \in 0 .. MaxMsgs
    /\ out \in [Fds -> 1 .. published \cup {Null, Connack}]
    /\ held \in [Fds -> 1 .. published \cup {Null, Connack}]
    /\ got \in [Fds -> Seq(1 .. published)]
    /\ early \subseteq Fds

\* Where the handler is.  A subscriber has a node, and the descriptor of a node
\* has a slot that some client took.
Control ==
    /\ pc \in {"idle", "distribute", "send"}
    /\ at \in 0 .. Len(subs) + 1 /\ pos \in Nat
    /\ pc = "idle" => at = 0
    /\ pc = "distribute" => at # 0
    /\ at # 0 => published # 0
    /\ pc = "send" => pos # 0 /\ target \in Fds /\ slot[target] \in Clients
    /\ \A i \in DOMAIN subs : sockfd[subs[i]] # Null
    /\ \A c \in Clients : sockfd[c] # Null => slot[sockfd[c]] # Null

TypeInv == Types /\ Control

-----------------------------------------------------------------------------
(* Types.                                                                  *)

LEMMA NullApart == /\ Null \notin Fds /\ Null \notin Clients /\ Null \notin Nat
                   /\ Anon \notin Clients /\ Connack \notin Nat
                   /\ Connack # Null /\ Anon # Null
BY ConstantsOK

LEMMA InitTyped == Init => TypeInv
<1> SUFFICES ASSUME Init PROVE TypeInv
  OBVIOUS
<1>1. <<>> \in Seq(Clients) /\ <<>> \in Seq(1 .. 0) /\ Len(<<>>) = 0
  OBVIOUS
<1>2. Types
  BY <1>1, ConstantsOK DEF Init, Types
<1>3. Control
  BY <1>1 DEF Init, Control
<1> QED BY <1>2, <1>3 DEF TypeInv

LEMMA StepTyped == TypeInv /\ [Next]_vars => TypeInv'
<1> SUFFICES ASSUME TypeInv, [Next]_vars PROVE TypeInv'
  OBVIOUS
<1> USE NullApart, ConstantsOK DEF net, tables, received, handler
<1>0. Types /\ Control /\ Len(subs) \in Nat
  BY DEF TypeInv, Types
<1>1. CASE UNCHANGED vars
  BY <1>1 DEF vars, TypeInv, Types, Control
<1>2. ASSUME NEW fd \in Fds, Accept(fd) PROVE TypeInv'
  <2>1. <<>> \in Seq(1 .. published)
    OBVIOUS
  <2>2. /\ accepts' \in [Fds -> 0 .. MaxAccepts]
        /\ peer' \in [Fds -> Clients \cup {Null, Anon}]
        /\ got' \in [Fds -> Seq(1 .. published)] /\ early' \subseteq Fds
    BY <1>0, <1>2, <2>1 DEF Accept, Renew, Types
  <2> QED BY <1>0, <1>2, <2>2 DEF Accept, TypeInv, Types, Control
<1>3. ASSUME NEW fd \in Fds, NEW c \in Clients, Connect(fd, c) PROVE TypeInv'
  <2>1. <<>> \in Seq(1 .. published)
    OBVIOUS
  <2>2. /\ ids' \subseteq Clients
        /\ peer' \in [Fds -> Clients \cup {Null, Anon}]
        /\ out' \in [Fds -> 1 .. published \cup {Null, Connack}]
    BY <1>0, <1>3 DEF Connect, Types
  <2>3. /\ sockfd' \in [Clients -> Fds \cup {Null}]
        /\ sockfd'[c] \in {sockfd[c], fd} /\ sockfd'[c] # Null
        /\ \A d \in Clients \ {c} : sockfd'[d] = sockfd[d]
    BY <1>0, <1>3 DEF Connect, Types
  <2>4. /\ slot' \in [Fds -> Clients \cup {Null}] /\ slot'[fd] = c
        /\ \A g \in Fds \ {fd} : slot'[g] = slot[g]
        /\ got' \in [Fds -> Seq(1 .. published)] /\ early' \subseteq Fds
    BY <1>0, <1>3, <2>1 DEF Connect, Renew, Types
  <2>5. Types'
    BY <1>0, <1>3, <2>2, <2>3, <2>4 DEF Connect, Types
  <2>6. /\ pc' = "send" /\ target' = fd /\ pos' = 1
        /\ UNCHANGED <<subs, at, published>>
    BY <1>3 DEF Connect, StartSend
  <2>7. \A i \in DOMAIN subs : sockfd'[subs[i]] # Null
    BY <1>0, <2>3 DEF Control, Types
  <2>8. \A d \in Clients : sockfd'[d] # Null => slot'[sockfd'[d]] # Null
    <3> SUFFICES ASSUME NEW d \in Clients, sockfd'[d] # Null
                 PROVE  slot'[sockfd'[d]] # Null
      OBVIOUS
    <3>1. CASE sockfd'[d] = fd
      BY <2>4, <3>1
    <3>2. CASE sockfd'[d] # fd
      <4>1. sockfd'[d] = sockfd[d] /\ sockfd[d] \in Fds
        BY <1>0, <2>3, <3>2 DEF Types
      <4> QED BY <1>0, <2>4, <3>2, <4>1 DEF Control
    <3> QED BY <3>1, <3>2
  <2>9. Control'
    BY <1>0, <2>4, <2>6, <2>7, <2>8 DEF Control
  <2> QED BY <2>5, <2>9 DEF TypeInv
<1>4. ASSUME NEW fd \in Fds, Close(fd) PROVE TypeInv'
  <2>1. /\ ids' \subseteq Clients
        /\ peer' \in [Fds -> Clients \cup {Null, Anon}]
        /\ out' \in [Fds -> 1 .. published \cup {Null, Connack}]
    BY <1>0, <1>4 DEF Close, Types
  <2> QED BY <1>0, <1>4, <2>1 DEF Close, TypeInv, Types, Control
<1>5. ASSUME NEW fd \in Fds, Subscribe(fd) PROVE TypeInv'
  <2>1. slot[fd] \in Clients /\ sockfd[slot[fd]] # Null
    BY <1>0, <1>5 DEF Subscribe, mqtt_get_client_s, Types
  <2>2. /\ subs' \in Seq(Clients) /\ Len(subs') = Len(subs) + 1
        /\ Len(subs') <= MaxSubs
        /\ \A i \in DOMAIN subs' : \/ i \in DOMAIN subs /\ subs'[i] = subs[i]
                                   \/ subs'[i] = slot[fd]
    BY <1>0, <1>5, <2>1 DEF Subscribe, Types
  <2>3. Types'
    BY <1>0, <1>5, <2>2 DEF Subscribe, Types
  <2>4. Control'
    BY <1>0, <1>5, <2>1, <2>2 DEF Subscribe, Control
  <2> QED BY <2>3, <2>4 DEF TypeInv
<1>6. ASSUME NEW fd \in Fds, Publish(fd) PROVE TypeInv'
  <2>1. /\ published' \in 0 .. MaxMsgs /\ published' # 0
        /\ 1 .. published \subseteq 1 .. published'
    BY <1>0, <1>6 DEF Publish, Types
  <2>2. Seq(1 .. published) \subseteq Seq(1 .. published')
    BY <2>1, SeqMonotonic
  <2>3. Types'
    BY <1>0, <1>6, <2>1, <2>2 DEF Publish, Types
  <2>4. Control'
    BY <1>0, <1>6, <2>1 DEF Publish, Control
  <2> QED BY <2>3, <2>4 DEF TypeInv
<1>7. CASE Distribute
  <2>1. at \in 1 .. Len(subs) /\ published \in 1 .. published
    BY <1>0, <1>7 DEF Distribute, Control, Types
  <2>2. subs[at] \in Clients /\ sockfd[subs[at]] # Null
    BY <1>0, <2>1 DEF Control, Types
  <2>3. sockfd[subs[at]] \in Fds /\ slot[sockfd[subs[at]]] \in Clients
    BY <1>0, <2>2 DEF Control, Types
  <2>4. queue' \in [Clients -> Seq(1 .. published)]
    <3> DEFINE s == subs[at]
    <3>1. queue' = [queue EXCEPT ![s] = Append(@, published)]
      BY <1>7 DEF Distribute
    <3>2. s \in Clients
      BY <2>2
    <3> HIDE DEF s
    <3>3. Append(queue[s], published) \in Seq(1 .. published)
      BY <1>0, <2>1, <3>2 DEF Types
    <3> QED BY <1>0, <3>1, <3>3 DEF Types
  <2>5. Types'
    BY <1>0, <1>7, <2>4 DEF Distribute, Types
  <2>6. Control'
    BY <1>0, <1>7, <2>1, <2>3 DEF Distribute, StartSend, Control
  <2> QED BY <2>5, <2>6 DEF TypeInv
<1>8. CASE Distributed
  BY <1>0, <1>8 DEF Distributed, TypeInv, Types, Control
<1>9. CASE Send
  <2>1. target \in Fds /\ slot[target] \in Clients
    BY <1>0, <1>9 DEF Send, Control
  <2>2. queue[client] \in Seq(1 .. published)
    BY <1>0, <2>1 DEF Types, client
  <2>3. queue[client][pos] \in 1 .. published
    <3>1. pos \in Nat /\ pos # 0 /\ pos <= Len(queue[client])
      BY <1>0, <1>9 DEF Send, Control
    <3> DEFINE q == queue[client]
    <3>2. q \in Seq(1 .. published) /\ Len(q) \in Nat
      BY <2>2
    <3>3. pos \in 1 .. Len(q)
      BY <3>1, <3>2
    <3> HIDE DEF q
    <3>4. q[pos] \in 1 .. published
      BY ONLY <3>2, <3>3, ElementOfSeq
    <3> QED BY <3>4 DEF q
  <2>4. out' \in [Fds -> 1 .. published \cup {Null, Connack}]
    BY <1>0, <1>9, <2>3 DEF Send, Types
  <2>5. UNCHANGED <<net, tables, queue, published, held, received, pc, at, target>>
        /\ pos' = pos + 1
    BY <1>9 DEF Send
  <2>6. Types'
    BY <1>0, <2>4, <2>5 DEF Types
  <2>7. Control'
    BY <1>0, <2>5 DEF Control
  <2> QED BY <2>6, <2>7 DEF TypeInv
<1>10. CASE Sent
  <2>1. <<>> \in Seq(1 .. published)
    OBVIOUS
  <2>2. queue' \in [Clients -> Seq(1 .. published)]
    BY <1>0, <1>10, <2>1 DEF Sent, Types
  <2>3. Types'
    BY <1>0, <1>10, <2>2 DEF Sent, Types
  <2>4. at # 0 => published # 0
    BY <1>0, <1>10 DEF Sent, Control
  <2>5. Control'
    BY <1>0, <1>10, <2>4 DEF Sent, SendDone, Control
  <2> QED BY <2>3, <2>5 DEF TypeInv
<1>11. ASSUME NEW fd \in Fds, EventOut(fd) PROVE TypeInv'
  <2>1. /\ out' \in [Fds -> 1 .. published \cup {Null, Connack}]
        /\ held' \in [Fds -> 1 .. published \cup {Null, Connack}]
    BY <1>0, <1>11 DEF EventOut, Types
  <2>2. got' \in [Fds -> Seq(1 .. published)]
    <3>1. CASE ~ (fd \in open /\ Message(held[fd]))
      BY <1>0, <1>11, <3>1 DEF EventOut, Types
    <3>2. CASE fd \in open /\ Message(held[fd])
      <4>1. held[fd] \in 1 .. published
        BY <1>0, <3>2 DEF Message, Types
      <4> QED BY <1>0, <1>11, <3>2, <4>1 DEF EventOut, Types
    <3> QED BY <3>1, <3>2
  <2> QED BY <1>0, <1>11, <2>1, <2>2 DEF EventOut, TypeInv, Types, Control
<1>12. ASSUME NEW ready \in SUBSET Fds, EpollWait(ready) PROVE TypeInv'
  <2>1. /\ out' \in [Fds -> 1 .. published \cup {Null, Connack}]
        /\ held' \in [Fds -> 1 .. published \cup {Null, Connack}]
    BY <1>0, <1>12 DEF EpollWait, Types
  <2> QED BY <1>0, <1>12, <2>1 DEF EpollWait, TypeInv, Types, Control
<1>13. ASSUME NEW fd \in Fds, Reset(fd) PROVE TypeInv'
  <2>1. out' \in [Fds -> 1 .. published \cup {Null, Connack}]
    BY <1>0, <1>13 DEF Reset, Types
  <2> QED BY <1>0, <1>13, <2>1 DEF Reset, TypeInv, Types, Control
<1> QED BY <1>1, <1>2, <1>3, <1>4, <1>5, <1>6, <1>7, <1>8, <1>9, <1>10, <1>11, <1>12,
           <1>13
        DEF Next, Packet

\* Every variable has its type, a subscriber has a node, and a send goes to a
\* slot with a client.
THEOREM TypeCorrect == Spec => []TypeOK
<1>1. TypeInv => TypeOK
  <2> SUFFICES ASSUME TypeInv PROVE TypeOK
    OBVIOUS
  <2>1. Types /\ Control
    BY DEF TypeInv
  <2>2. 1 .. published \subseteq 1 .. MaxMsgs /\ Len(subs) \in Nat
    BY <2>1, ConstantsOK DEF Types
  <2>3. Seq(1 .. published) \subseteq Seq(1 .. MaxMsgs)
    BY <2>2, SeqMonotonic
  <2>4. \A c \in Clients : Subscribed(c) # {} => sockfd[c] # Null
    BY <2>1 DEF Control, Subscribed
  <2>5. at \in 0 .. MaxSubs + 1
    BY <2>1, <2>2, ConstantsOK DEF Control, Types
  <2> QED BY <2>1, <2>2, <2>3, <2>4, <2>5 DEF TypeOK, Types, Control, client
<1> QED BY <1>1, InitTyped, StepTyped, PTL DEF Spec

-----------------------------------------------------------------------------
(* Waiting messages.                                                       *)

\* The client of the slot of a client's own recorded descriptor is served at
\* once: only during that send has it messages in its queue.
WaitInv ==
    \A c \in Clients : queue[c] # <<>> =>
        /\ \E i \in DOMAIN subs : subs[i] = c
        /\ slot[sockfd[c]] = c => pc = "send" /\ client = c

LEMMA StepWaits == TypeInv /\ WaitInv /\ [Next]_vars => WaitInv'
<1> SUFFICES ASSUME TypeInv, WaitInv, [Next]_vars PROVE WaitInv'
  OBVIOUS
<1>0. Types /\ Control
  BY DEF TypeInv
<1> USE DEF net, tables, received, handler
<1>1. ASSUME UNCHANGED <<tables, queue>>, pc' = pc \/ pc # "send",
             target' = target \/ pc # "send"
      PROVE  WaitInv'
  BY <1>1 DEF WaitInv, client
<1>2. CASE UNCHANGED vars
  BY <1>1, <1>2 DEF vars
<1>3. ASSUME NEW fd \in Fds,
             Accept(fd) \/ Close(fd) \/ Publish(fd) \/ Reset(fd) \/ EventOut(fd)
      PROVE  WaitInv'
  BY <1>1, <1>3 DEF Accept, Close, Publish, Reset, EventOut
<1>a. ASSUME NEW ready \in SUBSET Fds, EpollWait(ready) PROVE WaitInv'
  BY <1>1, <1>a DEF EpollWait
<1>4. CASE Distributed
  BY <1>1, <1>4 DEF Distributed
<1>5. CASE Send
  BY <1>1, <1>5 DEF Send
<1>6. ASSUME NEW fd \in Fds, NEW c \in Clients, Connect(fd, c) PROVE WaitInv'
  <2>1. /\ pc = "idle" /\ pc' = "send" /\ target' = fd /\ UNCHANGED <<queue, subs>>
        /\ slot'[fd] = c /\ \A g \in Fds \ {fd} : slot'[g] = slot[g]
    BY <1>0, <1>6 DEF Connect, StartSend, Types
  <2>2. \A d \in Clients : sockfd[d] # Null => sockfd'[d] = sockfd[d]
    BY <1>0, <1>6 DEF Connect, Types
  <2>3. ASSUME NEW d \in Clients, queue[d] # <<>>, slot'[sockfd'[d]] = d
        PROVE  slot'[target'] = d
    <3>1. /\ sockfd[d] # Null /\ slot[sockfd[d]] # d
      BY <1>0, <2>1, <2>3 DEF WaitInv, Control
    <3>2. sockfd'[d] = sockfd[d] /\ sockfd[d] \in Fds
      BY <1>0, <2>2, <3>1 DEF Types
    <3> QED BY <2>1, <2>3, <3>1, <3>2
  <2> QED BY <2>1, <2>3 DEF WaitInv, client
<1>7. ASSUME NEW fd \in Fds, Subscribe(fd) PROVE WaitInv'
  <2>1. /\ UNCHANGED <<queue, slot, sockfd, pc, target>>
        /\ \A i \in DOMAIN subs : i \in DOMAIN subs' /\ subs'[i] = subs[i]
    BY <1>0, <1>7, SMTT(30) DEF Subscribe, Types
  <2> QED BY <2>1 DEF WaitInv, client
<1>8. CASE Distribute
  <2>1. /\ pc = "distribute" /\ pc' = "send" /\ target' = sockfd[subs[at]]
        /\ UNCHANGED <<slot, sockfd, subs>> /\ at \in DOMAIN subs
    BY <1>0, <1>8 DEF Distribute, StartSend, Control, Types
  <2>2. \A d \in Clients \ {subs[at]} : queue'[d] = queue[d]
    BY <1>0, <1>8 DEF Distribute, Types
  <2>3. ASSUME NEW d \in Clients, queue'[d] # <<>>
        PROVE  /\ \E i \in DOMAIN subs : subs[i] = d
               /\ slot[sockfd[d]] = d => slot[target'] = d
    BY <2>1, <2>2, <2>3 DEF WaitInv
  <2> QED BY <2>1, <2>3 DEF WaitInv, client
<1>9. CASE Sent
  <2>1. /\ pc = "send" /\ client \in Clients /\ UNCHANGED tables
        /\ queue'[client] = <<>>
        /\ \A d \in Clients \ {client} : queue'[d] = queue[d]
    BY <1>0, <1>9 DEF Sent, Control, Types, client
  <2>2. ASSUME NEW d \in Clients, queue'[d] # <<>>
        PROVE  (\E i \in DOMAIN subs : subs[i] = d) /\ slot[sockfd[d]] # d
    BY <2>1, <2>2 DEF WaitInv
  <2> QED BY <2>1, <2>2 DEF WaitInv
<1> QED BY <1>2, <1>3, <1>a, <1>4, <1>5, <1>6, <1>7, <1>8, <1>9 DEF Next, Packet

\* Between packets a message waits only in the queue of a client whose recorded
\* descriptor another one has taken.
THEOREM WaitsHolds == Spec => []WaitsOnlyIfTaken
<1>1. Init => WaitInv
  BY DEF Init, WaitInv
<1>2. WaitInv => WaitsOnlyIfTaken
  BY DEF WaitInv, WaitsOnlyIfTaken
<1> QED BY <1>1, <1>2, InitTyped, StepTyped, StepWaits, PTL DEF Spec

-----------------------------------------------------------------------------
(* Whose messages.                                                         *)

\* What et held before the last CONNECT or accept may still be to be sent.
Late(fd) == got[fd] = <<>> /\ fd \in early

\* An acknowledged connection's slot is its own client's, and what it is about
\* to be sent that client subscribed to, unless it is late.
OwnInv ==
    \A fd \in Fds : peer[fd] \in Clients =>
        /\ slot[fd] = peer[fd]
        /\ out[fd] \in Nat => \E i \in DOMAIN subs : subs[i] = peer[fd]
        /\ held[fd] \in Nat /\ ~ Late(fd) => \E i \in DOMAIN subs : subs[i] = peer[fd]

LEMMA StepOwns == TypeInv /\ WaitInv /\ OwnInv /\ [Next]_vars => OwnInv'
<1> SUFFICES ASSUME TypeInv, WaitInv, OwnInv, [Next]_vars PROVE OwnInv'
  OBVIOUS
<1>0. Types /\ Control
  BY DEF TypeInv
<1> USE NullApart DEF net, tables, received, handler
<1>1. ASSUME UNCHANGED <<slot, subs>>,
             \A g \in Fds : /\ peer'[g] = peer[g] \/ peer'[g] \notin Clients
                            /\ out'[g] = out[g] \/ out'[g] \notin Nat
                            /\ \/ held'[g] \notin Nat \/ peer'[g] \notin Clients
                               \/ held'[g] = held[g] /\ (Late(g) => Late(g)')
      PROVE  OwnInv'
  BY <1>1 DEF OwnInv
<1>2. CASE UNCHANGED vars
  <2>1. UNCHANGED <<slot, subs, peer, out, held, got, early>>
    BY <1>2 DEF vars
  <2> QED BY <1>1, <2>1 DEF Late
<1>3. ASSUME NEW fd \in Fds, Accept(fd) PROVE OwnInv'
  <2>1. /\ UNCHANGED <<slot, subs, out, held>> /\ peer'[fd] = Anon
        /\ \A g \in Fds \ {fd} : peer'[g] = peer[g] /\ got'[g] = got[g]
        /\ \A g \in Fds \ {fd} : g \in early' <=> g \in early
    BY <1>0, <1>3 DEF Accept, Renew, Types
  <2> QED BY <1>1, <2>1 DEF Late
<1>4. ASSUME NEW fd \in Fds, Close(fd) PROVE OwnInv'
  <2>1. /\ UNCHANGED <<slot, subs, held, got, early>> /\ out'[fd] = Null /\ peer'[fd] = Null
        /\ \A g \in Fds \ {fd} : peer'[g] = peer[g] /\ out'[g] = out[g]
    BY <1>0, <1>4 DEF Close, Types
  <2> QED BY <1>1, <2>1 DEF Late
<1>5. ASSUME NEW fd \in Fds, Publish(fd) \/ Reset(fd) PROVE OwnInv'
  <2>1. /\ UNCHANGED <<slot, subs, peer, held, got, early>>
        /\ \A g \in Fds : out'[g] = out[g] \/ out'[g] = Null
    BY <1>0, <1>5 DEF Publish, Reset, Types
  <2> QED BY <1>1, <2>1 DEF Late
<1>6. ASSUME NEW fd \in Fds, EventOut(fd) PROVE OwnInv'
  <2>1. /\ UNCHANGED <<slot, subs, peer, early>> /\ out'[fd] = Null /\ held'[fd] = Null
        /\ \A g \in Fds \ {fd} : out'[g] = out[g] /\ held'[g] = held[g] /\ got'[g] = got[g]
    BY <1>0, <1>6 DEF EventOut, Types
  <2> QED BY <1>1, <2>1 DEF Late
<1>a. ASSUME NEW ready \in SUBSET Fds, EpollWait(ready) PROVE OwnInv'
  <2>1. /\ UNCHANGED <<slot, subs, peer, got, early>>
        /\ \A g \in Fds : out'[g] \in {out[g], Null} /\ held'[g] \in {out[g], Null}
    BY <1>0, <1>a DEF EpollWait, Types
  <2> QED BY <2>1 DEF OwnInv
<1>7. CASE Distribute \/ Distributed \/ Sent
  <2>1. UNCHANGED <<slot, subs, peer, out, held, got, early>>
    BY <1>7 DEF Distribute, Distributed, Sent
  <2> QED BY <1>1, <2>1 DEF Late
<1>8. ASSUME NEW fd \in Fds, NEW c \in Clients, Connect(fd, c) PROVE OwnInv'
  <2>1. /\ UNCHANGED <<subs, held>>
        /\ slot'[fd] = c /\ peer'[fd] = c /\ out'[fd] \notin Nat
        /\ \A g \in Fds \ {fd} :
              slot'[g] = slot[g] /\ peer'[g] = peer[g] /\ out'[g] = out[g]
    BY <1>0, <1>8 DEF Connect, Types
  <2>2. /\ \A g \in Fds \ {fd} : got'[g] = got[g] /\ (g \in early' <=> g \in early)
        /\ held[fd] \in Nat => Late(fd)'
    BY <1>0, <1>8 DEF Connect, Renew, Late, Message, Types
  <2> QED BY <2>1, <2>2 DEF OwnInv, Late
<1>9. ASSUME NEW fd \in Fds, Subscribe(fd) PROVE OwnInv'
  <2>1. /\ UNCHANGED <<peer, slot, out, held, got, early>>
        /\ \A i \in DOMAIN subs : i \in DOMAIN subs' /\ subs'[i] = subs[i]
    BY <1>0, <1>9 DEF Subscribe, Types
  <2> QED BY <2>1 DEF OwnInv, Late
<1>10. CASE Send
  <2>1. /\ target \in Fds /\ client \in Clients /\ queue[client] # <<>>
        /\ UNCHANGED <<peer, slot, subs, held, got, early>>
        /\ \A g \in Fds \ {target} : out'[g] = out[g]
    <3>1. target \in Fds /\ client \in Clients
      BY <1>0, <1>10 DEF Send, Control, client
    <3>2. queue[client] # <<>>
      BY <1>0, <1>10, <3>1 DEF Send, Control
    <3> QED BY <1>0, <1>10, <3>1, <3>2 DEF Send, Types
  <2>2. \E i \in DOMAIN subs : subs[i] = slot[target]
    BY <2>1 DEF WaitInv, client
  <2> QED BY <2>1, <2>2 DEF OwnInv, Late
<1> QED BY <1>2, <1>3, <1>4, <1>5, <1>6, <1>a, <1>7, <1>8, <1>9, <1>10 DEF Next, Packet

\* An acknowledged client receives only what it has itself subscribed to, but for
\* a first message that et held when the client sent CONNECT.
THEOREM ClientsGetTheirOwnHolds == Spec => ClientsGetTheirOwn
<1>1. Init => WaitInv /\ OwnInv
  BY NullApart DEF Init, WaitInv, OwnInv
<1>2. TypeInv /\ OwnInv /\ [Next]_vars =>
         [\A fd \in Fds :
             Len(got'[fd]) > Len(got[fd]) /\ peer[fd] \in Clients
                 => Subscribed(peer[fd]) # {} \/ (got[fd] = <<>> /\ fd \in early)]_vars
  <2> SUFFICES ASSUME TypeInv, OwnInv, Next, NEW fd \in Fds,
                      Len(got'[fd]) > Len(got[fd]), peer[fd] \in Clients, ~ Late(fd)
               PROVE  Subscribed(peer[fd]) # {}
    BY DEF vars, received, Late
  <2>1. Types
    BY DEF TypeInv
  <2>2. Len(got[fd]) \in Nat /\ Len(<<>>) = 0
    BY <2>1 DEF Types
  <2>3. \E g \in Fds : EventOut(g)
    <3>1. CASE \E g \in Fds : Accept(g) \/ \E c \in Clients : Connect(g, c)
      <4>1. PICK g \in Fds : got' = [got EXCEPT ![g] = <<>>]
        BY <3>1 DEF Accept, Connect, Renew
      <4>2. got'[fd] \in {got[fd], <<>>}
        BY <2>1, <4>1 DEF Types
      <4> QED BY <2>2, <4>2
    <3>2. CASE \/ \E g \in Fds : Close(g) \/ Subscribe(g) \/ Publish(g) \/ Reset(g)
               \/ \E ready \in SUBSET Fds : EpollWait(ready)
               \/ Distribute \/ Distributed \/ Send \/ Sent
      <4>1. UNCHANGED got
        BY <3>2 DEF Close, Subscribe, Publish, Reset, EpollWait, Distribute, Distributed,
                    Send, Sent, received
      <4> QED BY <2>2, <4>1
    <3> QED BY <3>1, <3>2 DEF Next, Packet
  <2>4. PICK g \in Fds : EventOut(g)
    BY <2>3
  <2>5. g = fd /\ held[fd] # Connack /\ held[fd] # Null
    BY <2>1, <2>2, <2>4 DEF EventOut, Message, Types
  <2>6. held[fd] \in Nat
    BY <2>1, <2>5 DEF Types
  <2> QED BY <2>6 DEF OwnInv, Subscribed
<1> QED BY <1>1, <1>2, InitTyped, StepTyped, StepWaits, StepOwns, PTL
        DEF Spec, ClientsGetTheirOwn

-----------------------------------------------------------------------------
(* Order.                                                                  *)

\* Some client is on the subscriber list twice.
Twice == \E i, j \in DOMAIN subs : i # j /\ subs[i] = subs[j]

\* x may come before y.
Before(x, y) == x < y \/ (x = y /\ Twice)

\* Who has been given the message that is being distributed.
Given == {c \in Clients : \E i \in DOMAIN subs : i < at /\ subs[i] = c}

\* What the peer has got, but for a late one.
Own(fd) == {i \in DOMAIN got[fd] : i > 1 \/ fd \notin early}

\* What et holds, unless it is late.
Fresh(fd) == held[fd] \in Nat /\ ~ Late(fd)

\* x comes after all that the peer has got, and is still to get.
AfterGot(fd, x)  == \A i \in Own(fd) : Before(got[fd][i], x)
AfterHeld(fd, x) == AfterGot(fd, x) /\ (Fresh(fd) => Before(held[fd], x))
AfterOut(fd, x)  == AfterHeld(fd, x) /\ (out[fd] \in Nat => Before(out[fd], x))

\* What the peer has, what et holds for it, what it is about to be sent, and
\* what waits for the client of its slot come one before the other.  During a
\* send the part of the queue that is done with does not count.
OrderInv ==
    /\ \A c \in Clients : \A i, j \in DOMAIN queue[c] :
          i < j => Before(queue[c][i], queue[c][j])
    /\ \A fd \in Fds : \A i, j \in Own(fd) : i < j => Before(got[fd][i], got[fd][j])
    /\ \A fd \in Fds : Fresh(fd) => AfterGot(fd, held[fd])
    /\ \A fd \in Fds : out[fd] \in Nat => AfterHeld(fd, out[fd])
    /\ \A fd \in Fds : slot[fd] # Null => \A k \in DOMAIN queue[slot[fd]] :
          (pc = "send" /\ target = fd => k >= pos) => AfterOut(fd, queue[slot[fd]][k])

\* During a distribution the newest message is only where it has been given.
NewestInv ==
    at # 0 =>
       /\ \A c \in Clients : \A i \in DOMAIN queue[c] :
             queue[c][i] = published => c \in Given
       /\ \A fd \in Fds :
             /\ out[fd] = published => slot[fd] \in Given
             /\ held[fd] = published => slot[fd] \in Given
             /\ \A i \in DOMAIN got[fd] :
                   got[fd][i] = published => slot[fd] \in Given

LEMMA StepNewest == TypeInv /\ NewestInv /\ [Next]_vars => NewestInv'
<1> SUFFICES ASSUME TypeInv, NewestInv, [Next]_vars PROVE NewestInv'
  OBVIOUS
<1>0. Types /\ Control
  BY DEF TypeInv
<1> USE NullApart DEF net, tables, received, handler
<1>1. CASE UNCHANGED vars
  BY <1>1 DEF vars, NewestInv, Given
<1>2. ASSUME NEW fd \in Fds, Accept(fd) PROVE NewestInv'
  <2>1. /\ UNCHANGED <<slot, queue, subs, published, out, held, at>>
        /\ got'[fd] = <<>> /\ \A g \in Fds \ {fd} : got'[g] = got[g]
    BY <1>0, <1>2 DEF Accept, Renew, Types
  <2> QED BY <2>1 DEF NewestInv, Given
<1>3. ASSUME NEW fd \in Fds,
             \/ \E c \in Clients : Connect(fd, c)
             \/ Close(fd) \/ Subscribe(fd) \/ Reset(fd)
      PROVE  NewestInv'
  BY <1>0, <1>3 DEF Connect, Close, Subscribe, Reset, Control, NewestInv
<1>4. ASSUME NEW fd \in Fds, Publish(fd) PROVE NewestInv'
  <2>1. /\ published' > published /\ UNCHANGED <<queue, out, held, got>>
    BY <1>0, <1>4 DEF Publish, Types
  <2>2. /\ \A c \in Clients : \A i \in DOMAIN queue[c] : queue[c][i] \in 1 .. published
        /\ \A g \in Fds : /\ out[g] = Null \/ out[g] = Connack \/ out[g] \in 1 .. published
                          /\ held[g] = Null \/ held[g] = Connack \/ held[g] \in 1 .. published
                          /\ \A i \in DOMAIN got[g] : got[g][i] \in 1 .. published
    BY <1>0, SMTT(30) DEF Types
  <2>3. published \in Nat /\ published' \in Nat
    BY <1>0, <1>4 DEF Publish, Types
  <2> QED BY <2>1, <2>2, <2>3 DEF NewestInv
<1>5. CASE Distribute
  <2>1. /\ at \in DOMAIN subs /\ at \in Nat /\ at' = at + 1 /\ at # 0
        /\ subs[at] \in Clients
        /\ UNCHANGED <<slot, subs, published, out, held, got>>
    BY <1>0, <1>5 DEF Distribute, Control, Types
  <2>2. \A c \in Clients \ {subs[at]} : queue'[c] = queue[c]
    BY <1>0, <1>5 DEF Distribute, Types
  <2>3. subs[at] \in Given'
    BY <2>1 DEF Given
  <2>4. ASSUME NEW c, c \in Given PROVE c \in Given'
    BY <1>0, <2>1, <2>4 DEF Given, Types
  <2>5. \A c \in Clients : \A i \in DOMAIN queue'[c] :
           queue'[c][i] = published' => c \in Given'
    BY <2>1, <2>2, <2>3, <2>4 DEF NewestInv
  <2>6. ASSUME NEW fd \in Fds
        PROVE  /\ out'[fd] = published' => slot'[fd] \in Given'
               /\ held'[fd] = published' => slot'[fd] \in Given'
               /\ \A i \in DOMAIN got'[fd] :
                     got'[fd][i] = published' => slot'[fd] \in Given'
    BY <2>1, <2>4 DEF NewestInv
  <2> QED BY <2>5, <2>6 DEF NewestInv
<1>6. CASE Distributed
  BY <1>6 DEF Distributed, NewestInv
<1>7. CASE Send
  <2>1. /\ target \in Fds /\ slot[target] \in Clients
        /\ UNCHANGED <<slot, queue, subs, published, held, got, at>>
        /\ \A g \in Fds \ {target} : out'[g] = out[g]
        /\ out'[target] \in {out[target], queue[slot[target]][pos]}
    BY <1>0, <1>7 DEF Send, Control, Types, client
  <2>2. pos \in DOMAIN queue[slot[target]]
    BY <1>0, <1>7, <2>1 DEF Send, Control, Types, client
  <2> QED BY <2>1, <2>2 DEF NewestInv, Given
<1>8. CASE Sent
  <2>1. /\ UNCHANGED <<slot, subs, published, out, held, got, at>>
        /\ \A c \in Clients : queue'[c] \in {queue[c], <<>>}
    BY <1>0, <1>8 DEF Sent, Types
  <2> QED BY <2>1 DEF NewestInv, Given
<1>9. ASSUME NEW fd \in Fds, EventOut(fd) PROVE NewestInv'
  <2>1. /\ UNCHANGED <<slot, queue, subs, published, at>>
        /\ out'[fd] = Null /\ \A g \in Fds \ {fd} : out'[g] = out[g]
        /\ held'[fd] = Null /\ \A g \in Fds \ {fd} : held'[g] = held[g]
        /\ \A g \in Fds \ {fd} : got'[g] = got[g]
        /\ got'[fd] = got[fd] \/ got'[fd] = Append(got[fd], held[fd])
    BY <1>0, <1>9 DEF EventOut, Types
  <2>2. ASSUME NEW i \in DOMAIN got'[fd]
        PROVE  (i \in DOMAIN got[fd] /\ got'[fd][i] = got[fd][i]) \/ got'[fd][i] = held[fd]
    <3> DEFINE g == got[fd]
    <3>1. g \in Seq(1 .. published)
      BY <1>0 DEF Types
    <3>2. got'[fd] = g \/ got'[fd] = Append(g, held[fd])
      BY <2>1
    <3> HIDE DEF g
    <3>3. (i \in DOMAIN g /\ got'[fd][i] = g[i]) \/ got'[fd][i] = held[fd]
      BY <2>2, <3>1, <3>2
    <3> QED BY <3>3 DEF g
  <2>3. published \in Nat
    BY <1>0 DEF Types
  <2> QED BY <2>1, <2>2, <2>3 DEF NewestInv, Given
<1>10. ASSUME NEW ready \in SUBSET Fds, EpollWait(ready) PROVE NewestInv'
  <2>1. /\ UNCHANGED <<slot, queue, subs, published, got, at>>
        /\ \A g \in Fds : out'[g] \in {out[g], Null} /\ held'[g] \in {out[g], Null}
    BY <1>0, <1>10 DEF EpollWait, Types
  <2>2. Null # published
    BY <1>0 DEF Types
  <2> QED BY <2>1, <2>2 DEF NewestInv, Given
<1> QED BY <1>1, <1>2, <1>3, <1>4, <1>5, <1>6, <1>7, <1>8, <1>9, <1>10 DEF Next, Packet

LEMMA StepOrder == TypeInv /\ NewestInv /\ OrderInv /\ [Next]_vars => OrderInv'
<1> SUFFICES ASSUME TypeInv, NewestInv, OrderInv, [Next]_vars PROVE OrderInv'
  OBVIOUS
<1>0. Types /\ Control
  BY DEF TypeInv
<1> USE NullApart DEF net, tables, received, handler
<1>1. ASSUME NEW fd \in Fds, got'[fd] = <<>>, held'[fd] \in Nat => fd \in early'
      PROVE  Own(fd)' = {} /\ ~ Fresh(fd)'
  BY <1>1 DEF Own, Fresh, Late
<1>2. ASSUME NEW fd \in Fds, got'[fd] = got[fd], fd \in early' <=> fd \in early
      PROVE  /\ Own(fd)' = Own(fd) /\ Late(fd)' = Late(fd)
             /\ held'[fd] = held[fd] => Fresh(fd)' = Fresh(fd)
  BY <1>2 DEF Own, Fresh, Late
<1>a. ASSUME NEW fd \in Fds, NEW x, Twice => Twice',
             out'[fd] = out[fd] \/ out'[fd] \notin Nat,
             \/ Own(fd)' = {} /\ ~ Fresh(fd)'
             \/ /\ Own(fd)' = Own(fd) /\ got'[fd] = got[fd]
                /\ Fresh(fd)' => Fresh(fd) /\ held'[fd] = held[fd]
      PROVE  /\ AfterGot(fd, x) => AfterGot(fd, x)'
             /\ AfterHeld(fd, x) => AfterHeld(fd, x)'
             /\ AfterOut(fd, x) => AfterOut(fd, x)'
  <2>1. AfterGot(fd, x) => AfterGot(fd, x)'
    BY <1>a DEF AfterGot, Before
  <2>2. ASSUME AfterHeld(fd, x) PROVE AfterHeld(fd, x)'
    <3>1. ASSUME Fresh(fd)' PROVE Before(held[fd], x)'
      <4>1. Fresh(fd) /\ held'[fd] = held[fd]
        BY <1>a, <3>1
      <4>2. Before(held[fd], x)
        BY <2>2, <4>1 DEF AfterHeld
      <4> QED BY <1>a, <4>1, <4>2 DEF Before
    <3>2. AfterGot(fd, x)'
      BY <2>1, <2>2 DEF AfterHeld
    <3> QED BY <3>1, <3>2 DEF AfterHeld
  <2> QED BY <1>a, <2>1, <2>2 DEF AfterOut, Before
\* The chain of a descriptor that keeps what it has and what et has for it.
<1>c. ASSUME Twice => Twice', NEW fd \in Fds,
             out'[fd] = out[fd] \/ out'[fd] \notin Nat,
             \/ Own(fd)' = {} /\ ~ Fresh(fd)'
             \/ /\ Own(fd)' = Own(fd) /\ got'[fd] = got[fd]
                /\ Fresh(fd)' => Fresh(fd) /\ held'[fd] = held[fd]
      PROVE  /\ \A i, j \in Own(fd)' : i < j => Before(got[fd][i], got[fd][j])'
             /\ Fresh(fd)' => AfterGot(fd, held[fd])'
             /\ out'[fd] \in Nat => AfterHeld(fd, out[fd])'
  <2>1. \A i, j \in Own(fd)' : i < j => Before(got[fd][i], got[fd][j])'
    BY <1>c DEF OrderInv, Before
  <2>2. ASSUME Fresh(fd)' PROVE AfterGot(fd, held[fd])'
    <3>1. Fresh(fd) /\ held'[fd] = held[fd] /\ AfterGot(fd, held[fd])
      BY <1>c, <2>2 DEF OrderInv
    <3>2. PICK x : x = held[fd]
      OBVIOUS
    <3>3. AfterGot(fd, x)'
      BY <1>a, <1>c, <3>1, <3>2
    <3> QED BY <3>1, <3>2, <3>3 DEF AfterGot
  <2>3. ASSUME out'[fd] \in Nat PROVE AfterHeld(fd, out[fd])'
    <3>1. out'[fd] = out[fd] /\ AfterHeld(fd, out[fd])
      BY <1>c, <2>3 DEF OrderInv
    <3>2. PICK x : x = out[fd]
      OBVIOUS
    <3>3. AfterHeld(fd, x)'
      BY <1>a, <1>c, <3>1, <3>2
    <3> QED BY <3>1, <3>2, <3>3 DEF AfterHeld, AfterGot
  <2> QED BY <2>1, <2>2, <2>3
<1>3. ASSUME UNCHANGED <<slot, queue, subs>>,
             pc' # "send" \/ (pc' = pc /\ target' = target /\ pos' = pos),
             pc # "send" \/ pc' = "send",
             \A fd \in Fds :
                /\ out'[fd] = out[fd] \/ out'[fd] \notin Nat
                /\ \/ Own(fd)' = {} /\ ~ Fresh(fd)'
                   \/ /\ Own(fd)' = Own(fd) /\ got'[fd] = got[fd]
                      /\ Fresh(fd)' => Fresh(fd) /\ held'[fd] = held[fd]
      PROVE  OrderInv'
  <2>1. Twice' = Twice
    BY <1>3 DEF Twice
  <2>2. \A c \in Clients : \A i, j \in DOMAIN queue'[c] :
           i < j => Before(queue[c][i], queue[c][j])'
    BY <1>3, <2>1 DEF OrderInv, Before
  <2>3. ASSUME NEW fd \in Fds
        PROVE  /\ \A i, j \in Own(fd)' : i < j => Before(got[fd][i], got[fd][j])'
               /\ Fresh(fd)' => AfterGot(fd, held[fd])'
               /\ out'[fd] \in Nat => AfterHeld(fd, out[fd])'
    BY <1>3, <1>c, <2>1
  <2>7. ASSUME NEW fd \in Fds, slot[fd] # Null, NEW k \in DOMAIN queue[slot[fd]],
               pc' = "send" /\ target' = fd => k >= pos'
        PROVE  AfterOut(fd, queue[slot[fd]][k])'
    <3>1. AfterOut(fd, queue[slot[fd]][k])
      BY <1>3, <2>7 DEF OrderInv
    <3>2. PICK x : x = queue[slot[fd]][k]
      OBVIOUS
    <3>3. AfterOut(fd, x)'
      BY <1>3, <1>a, <2>1, <3>1, <3>2
    <3>4. queue'[slot'[fd]][k] = x
      BY <1>3, <3>2
    <3> QED BY <3>3, <3>4 DEF AfterOut, AfterHeld, AfterGot
  <2> QED BY <1>3, <2>2, <2>3, <2>7 DEF OrderInv
<1>4. CASE UNCHANGED vars
  <2>1. UNCHANGED <<slot, queue, subs, pc, target, pos, got, early, held, out>>
    BY <1>4 DEF vars
  <2> QED BY <1>2, <1>3, <2>1
<1>5. ASSUME NEW fd \in Fds, Accept(fd) PROVE OrderInv'
  <2>1. /\ UNCHANGED <<slot, queue, subs, pc, target, pos, held, out>>
        /\ got'[fd] = <<>> /\ (held'[fd] \in Nat => fd \in early')
        /\ \A g \in Fds \ {fd} : got'[g] = got[g] /\ (g \in early' <=> g \in early)
    BY <1>0, <1>5 DEF Accept, Renew, Message, Types
  <2> QED BY <1>1, <1>2, <1>3, <2>1
<1>6. ASSUME NEW fd \in Fds, Close(fd) \/ Publish(fd) \/ Reset(fd) PROVE OrderInv'
  <2>1. /\ UNCHANGED <<slot, queue, subs, got, early, held>> /\ pc # "send" /\ pc' # "send"
        /\ \A g \in Fds : out'[g] = out[g] \/ out'[g] \notin Nat
    BY <1>0, <1>6 DEF Close, Publish, Reset, Types
  <2> QED BY <1>2, <1>3, <2>1
<1>7. CASE Distributed
  <2>1. /\ UNCHANGED <<slot, queue, subs, got, early, held, out>>
        /\ pc # "send" /\ pc' # "send"
    BY <1>7 DEF Distributed
  <2> QED BY <1>2, <1>3, <2>1
<1>8. ASSUME NEW fd \in Fds, NEW c \in Clients, Connect(fd, c) PROVE OrderInv'
  <2>1. /\ UNCHANGED <<queue, subs, held>>
        /\ pc' = "send" /\ target' = fd /\ pc # "send"
        /\ got'[fd] = <<>> /\ out'[fd] \notin Nat /\ (held'[fd] \in Nat => fd \in early')
        /\ \A g \in Fds \ {fd} :
              /\ slot'[g] = slot[g] /\ got'[g] = got[g] /\ out'[g] = out[g]
              /\ g \in early' <=> g \in early
    BY <1>0, <1>8 DEF Connect, StartSend, Renew, Message, Types
  <2>2. Twice' = Twice
    BY <2>1 DEF Twice
  <2>3. Own(fd)' = {} /\ ~ Fresh(fd)'
    BY <1>1, <2>1
  <2>4. ASSUME NEW g \in Fds \ {fd}
        PROVE  /\ Own(g)' = Own(g) /\ got'[g] = got[g]
               /\ Fresh(g)' => Fresh(g) /\ held'[g] = held[g]
    <3>1. got'[g] = got[g] /\ (g \in early' <=> g \in early) /\ held'[g] = held[g]
      BY <2>1
    <3>2. Own(g)' = Own(g) /\ (Fresh(g)' <=> Fresh(g))
      BY <1>2, <3>1
    <3> QED BY <3>1, <3>2
  <2>5. ASSUME NEW g \in Fds
        PROVE  /\ \A i, j \in Own(g)' : i < j => Before(got[g][i], got[g][j])'
               /\ Fresh(g)' => AfterGot(g, held[g])'
               /\ out'[g] \in Nat => AfterHeld(g, out[g])'
    <3>1. out'[g] = out[g] \/ out'[g] \notin Nat
      BY <2>1
    <3>2. CASE g = fd
      BY <1>c, <2>2, <2>3, <3>1, <3>2
    <3>3. CASE g # fd
      BY <1>c, <2>2, <2>4, <3>1, <3>3
    <3> QED BY <3>2, <3>3
  <2>6. \A d \in Clients : \A i, j \in DOMAIN queue'[d] :
           i < j => Before(queue[d][i], queue[d][j])'
    BY <2>1, <2>2 DEF OrderInv, Before
  <2>7. ASSUME NEW g \in Fds \ {fd}, slot'[g] # Null, NEW k \in DOMAIN queue'[slot'[g]]
        PROVE  AfterOut(g, queue[slot[g]][k])'
    <3>0. slot'[g] = slot[g] /\ slot[g] # Null /\ k \in DOMAIN queue[slot[g]] /\ pc # "send"
      BY <2>1, <2>7
    <3>1. AfterOut(g, queue[slot[g]][k])
      BY <3>0 DEF OrderInv
    <3>2. PICK x : x = queue[slot[g]][k]
      OBVIOUS
    <3>3. AfterOut(g, x)'
      <4>1. out'[g] = out[g]
        BY <2>1
      <4> QED BY <1>a, <2>2, <2>4, <3>1, <3>2, <4>1
    <3>4. queue'[slot'[g]][k] = x
      BY <2>1, <3>0, <3>2
    <3> QED BY <3>3, <3>4 DEF AfterOut, AfterHeld, AfterGot
  <2>8. \A k \in DOMAIN queue'[slot'[fd]] : AfterOut(fd, queue[slot[fd]][k])'
    BY <2>1, <2>3 DEF AfterOut, AfterHeld, AfterGot
  <2> QED BY <2>5, <2>6, <2>7, <2>8 DEF OrderInv
<1>9. ASSUME NEW fd \in Fds, Subscribe(fd) PROVE OrderInv'
  <2>1. /\ UNCHANGED <<slot, queue, out, held, got, early, pc, target, pos>>
        /\ \A i \in DOMAIN subs : i \in DOMAIN subs' /\ subs'[i] = subs[i]
    BY <1>0, <1>9 DEF Subscribe, Types
  <2>2. Twice => Twice'
    BY <2>1 DEF Twice
  <2> QED BY <2>1, <2>2
          DEF OrderInv, AfterOut, AfterHeld, AfterGot, Before, Own, Fresh, Late
<1>10. CASE Distribute
  <2> DEFINE s == subs[at]
             q == queue[s]
  <2>1. /\ at \in DOMAIN subs /\ at # 0 /\ s \in Clients /\ pc # "send"
        /\ UNCHANGED <<slot, subs, out, held, got, early>> /\ pos' = 1
        /\ queue'[s] = Append(q, published)
        /\ \A c \in Clients \ {s} : queue'[c] = queue[c]
    <3>1. /\ pc = "distribute" /\ at \in Nat /\ at # 0 /\ at <= Len(subs)
          /\ pos' = 1 /\ UNCHANGED <<slot, subs, out, held, got, early>>
          /\ queue' = [queue EXCEPT ![s] = Append(@, published)]
      BY <1>0, <1>10 DEF Distribute, StartSend, Control
    <3>2. at \in DOMAIN subs /\ s \in Clients
      BY <1>0, <3>1 DEF Types
    <3> HIDE DEF s
    <3> QED BY <1>0, <3>1, <3>2 DEF Types
  <2>2. s \in Given => Twice
    BY <1>0, <2>1 DEF Given, Twice, Types
  <2>3. /\ published \in Nat /\ q \in Seq(1 .. published) /\ Len(q) \in Nat
    BY <1>0, <2>1 DEF Types
  <2> HIDE DEF q
  <2>4. /\ \A k \in DOMAIN queue'[s] : \/ k \in DOMAIN q /\ queue'[s][k] = q[k]
                                       \/ k = Len(q) + 1 /\ queue'[s][k] = published
        /\ \A k \in DOMAIN q : k \in 1 .. Len(q) /\ q[k] \in 1 .. published
        /\ DOMAIN q = 1 .. Len(q)
    BY <2>1, <2>3
  <2>a. \A x \in 1 .. published : x = published \/ x < published
    BY <2>3
  <2>5. \A k \in DOMAIN q : Before(q[k], published)
    BY <2>1, <2>2, <2>4, <2>a DEF Before, NewestInv, q
  <2>6. ASSUME NEW c \in Clients, NEW i \in DOMAIN queue'[c],
               NEW j \in DOMAIN queue'[c], i < j
        PROVE  Before(queue'[c][i], queue'[c][j])
    <3>1. CASE c # s
      BY <2>1, <2>6, <3>1 DEF OrderInv
    <3>2. CASE c = s
      <4>1. i \in DOMAIN q /\ queue'[c][i] = q[i]
        BY <2>3, <2>4, <2>6, <3>2
      <4>2. CASE j \in DOMAIN q /\ queue'[c][j] = q[j]
        BY <2>1, <2>6, <4>1, <4>2 DEF OrderInv, q
      <4>3. CASE queue'[c][j] = published
        BY <2>5, <4>1, <4>3
      <4> QED BY <2>4, <3>2, <4>2, <4>3
    <3> QED BY <3>1, <3>2
  <2>7. ASSUME NEW fd \in Fds, slot[fd] = s PROVE AfterOut(fd, published)
    <3>1. /\ \A i \in DOMAIN got[fd] : got[fd][i] \in 1 .. published
          /\ out[fd] \in Nat => out[fd] \in 1 .. published
          /\ held[fd] \in Nat => held[fd] \in 1 .. published
      <4>1. got[fd] \in Seq(1 .. published)
        BY <1>0 DEF Types
      <4>2. \A i \in DOMAIN got[fd] : got[fd][i] \in 1 .. published
        <5>1. PICK z : z = got[fd]
          OBVIOUS
        <5>2. PICK S : S = 1 .. published
          OBVIOUS
        <5>3. z \in Seq(S) /\ DOMAIN z = 1 .. Len(z)
          BY <4>1, <5>1, <5>2
        <5>4. \A i \in DOMAIN z : z[i] \in S
          BY <5>3, ElementOfSeq
        <5> QED BY <5>1, <5>2, <5>4
      <4>3. /\ out[fd] \in 1 .. published \cup {Null, Connack}
            /\ held[fd] \in 1 .. published \cup {Null, Connack}
        BY <1>0 DEF Types
      <4> QED BY <4>2, <4>3
    <3>2. /\ \A i \in DOMAIN got[fd] : got[fd][i] = published => s \in Given
          /\ out[fd] = published => s \in Given
          /\ held[fd] = published => s \in Given
      BY <2>1, <2>7 DEF NewestInv
    <3>3. \A i \in DOMAIN got[fd] : Before(got[fd][i], published)
      BY <2>2, <2>a, <3>1, <3>2 DEF Before
    <3>4. /\ out[fd] \in Nat => Before(out[fd], published)
          /\ held[fd] \in Nat => Before(held[fd], published)
      BY <2>2, <2>a, <3>1, <3>2 DEF Before
    <3> QED BY <3>3, <3>4 DEF AfterOut, AfterHeld, AfterGot, Own, Fresh
  <2>8. ASSUME NEW fd \in Fds, slot[fd] # Null, NEW k \in DOMAIN queue'[slot[fd]]
        PROVE  AfterOut(fd, queue'[slot[fd]][k])
    <3>0. \A j \in DOMAIN queue[slot[fd]] : AfterOut(fd, queue[slot[fd]][j])
      BY <2>1, <2>8 DEF OrderInv
    <3>1. CASE slot[fd] # s
      <4>1. slot[fd] \in Clients
        BY <1>0, <2>8 DEF Types
      <4>2. queue'[slot[fd]] = queue[slot[fd]]
        BY <2>1, <3>1, <4>1
      <4> QED BY <2>8, <3>0, <4>2
    <3>2. CASE slot[fd] = s /\ k \in DOMAIN q /\ queue'[s][k] = q[k]
      BY <3>0, <3>2 DEF q
    <3>3. CASE slot[fd] = s /\ queue'[s][k] = published
      BY <2>7, <3>3
    <3> QED BY <2>4, <2>8, <3>1, <3>2, <3>3
  <2>9. (Twice <=> Twice') /\ UNCHANGED <<slot, out, held, got, early>>
    BY <2>1 DEF Twice
  <2> HIDE DEF s
  <2> QED BY <2>6, <2>8, <2>9
          DEF OrderInv, AfterOut, AfterHeld, AfterGot, Before, Own, Fresh, Late
<1>11. CASE Send
  <2> DEFINE c == slot[target]
             q == queue[c]
  <2>1. /\ target \in Fds /\ c \in Clients /\ c # Null /\ pc = "send" /\ pos \in Nat
        /\ UNCHANGED <<slot, queue, subs, held, got, early, pc, target>> /\ pos' = pos + 1
        /\ \A g \in Fds \ {target} : out'[g] = out[g]
        /\ out'[target] = out[target] \/ out'[target] = q[pos]
    BY <1>0, <1>11 DEF Send, Control, Types, client
  <2>2. pos \in DOMAIN q
    BY <1>0, <1>11, <2>1 DEF Send, Control, Types, client
  <2>3. \A k \in DOMAIN q : k \in Nat
    BY <1>0, <2>1 DEF Types
  <2>4. \A k \in DOMAIN q : k >= pos => AfterOut(target, q[k])
    BY <2>1 DEF OrderInv
  <2>5. \A k \in DOMAIN q : k > pos => Before(q[pos], q[k])
    BY <2>1, <2>2 DEF OrderInv
  <2>6. Twice <=> Twice'
    BY <2>1 DEF Twice
  <2>7. ASSUME NEW x, NEW g \in Fds
        PROVE  AfterGot(g, x)' = AfterGot(g, x) /\ AfterHeld(g, x)' = AfterHeld(g, x)
    <3>1. Own(g)' = Own(g) /\ (Fresh(g)' <=> Fresh(g)) /\ UNCHANGED <<got, held>>
      BY <2>1 DEF Own, Fresh, Late
    <3>2. AfterGot(g, x)' = AfterGot(g, x)
      BY <2>6, <3>1 DEF AfterGot, Before
    <3>3. (Fresh(g) => Before(held[g], x))' = (Fresh(g) => Before(held[g], x))
      BY <2>6, <3>1 DEF Before
    <3> QED BY <3>2, <3>3 DEF AfterHeld
  <2>8. ASSUME out'[target] \in Nat PROVE AfterHeld(target, out[target])'
    <3>1. PICK x : x = out'[target]
      OBVIOUS
    <3>2. CASE x = out[target]
      <4>1. AfterHeld(target, x)
        BY <2>1, <2>8, <3>1, <3>2 DEF OrderInv
      <4>2. AfterHeld(target, x)'
        BY <2>1, <2>7, <4>1
      <4> QED BY <2>1, <3>1, <4>2 DEF AfterHeld, AfterGot
    <3>3. CASE x = q[pos]
      <4>1. AfterHeld(target, x)
        BY <2>1, <2>2, <2>3, <2>4, <3>3 DEF AfterOut
      <4>2. AfterHeld(target, x)'
        BY <2>1, <2>7, <4>1
      <4> QED BY <2>1, <3>1, <4>2 DEF AfterHeld, AfterGot
    <3> QED BY <2>1, <3>1, <3>2, <3>3
  <2>9. ASSUME NEW k \in DOMAIN q, k >= pos' PROVE AfterOut(target, q[k])'
    <3>1. k >= pos /\ k > pos
      BY <2>1, <2>3, <2>9
    <3>2. PICK x : x = q[k]
      OBVIOUS
    <3>3. AfterOut(target, x) /\ Before(q[pos], x)
      BY <2>4, <2>5, <3>1, <3>2
    <3>4. AfterHeld(target, x)'
      BY <2>1, <2>7, <3>3 DEF AfterOut
    <3>5. out'[target] \in Nat => Before(out'[target], x)
      BY <2>1, <3>3 DEF AfterOut
    <3>6. AfterOut(target, x)' /\ q' = q
      BY <2>1, <2>6, <3>4, <3>5 DEF AfterOut, Before
    <3> QED BY <2>1, <3>2, <3>6 DEF AfterOut, AfterHeld, AfterGot
  <2>10. ASSUME NEW g \in Fds \ {target}
         PROVE  /\ out'[g] \in Nat => AfterHeld(g, out[g])'
                /\ slot[g] # Null => \A k \in DOMAIN queue[slot[g]] :
                                        AfterOut(g, queue[slot[g]][k])'
    BY <2>1, <2>6 DEF OrderInv, AfterOut, AfterHeld, AfterGot, Before, Own, Fresh, Late
  <2>11. ASSUME NEW g \in Fds
         PROVE  /\ \A i, j \in Own(g)' : i < j => Before(got[g][i], got[g][j])'
                /\ Fresh(g)' => AfterGot(g, held[g])'
    BY <2>1, <2>6 DEF OrderInv, AfterGot, Before, Own, Fresh, Late
  <2>12. \A d \in Clients : \A i, j \in DOMAIN queue'[d] :
            i < j => Before(queue[d][i], queue[d][j])'
    BY <2>1, <2>6 DEF OrderInv, Before
  <2> QED BY <2>1, <2>8, <2>9, <2>10, <2>11, <2>12, ZenonT(30) DEF OrderInv
<1>12. CASE Sent
  <2>1. /\ UNCHANGED <<slot, subs, out, held, got, early>> /\ pc' # "send"
        /\ pc = "send" /\ slot[target] \in Clients
        /\ queue'[slot[target]] = <<>>
        /\ \A c \in Clients \ {slot[target]} : queue'[c] = queue[c]
    BY <1>0, <1>12 DEF Sent, SendDone, Control, Types, client
  <2>2. \A fd \in Fds : slot[fd] # Null => slot[fd] \in Clients
    BY <1>0 DEF Types
  <2>3. \A c \in Clients : \A i, j \in DOMAIN queue'[c] :
           i < j => Before(queue'[c][i], queue'[c][j])
    BY <2>1 DEF OrderInv
  <2>4. ASSUME NEW fd \in Fds, slot[fd] # Null, NEW k \in DOMAIN queue'[slot[fd]]
        PROVE  AfterOut(fd, queue'[slot[fd]][k])
    <3>1. slot[fd] # slot[target] /\ fd # target
      BY <2>1, <2>4
    <3>2. queue'[slot[fd]] = queue[slot[fd]]
      BY <2>1, <2>2, <2>4, <3>1
    <3> QED BY <2>4, <3>1, <3>2 DEF OrderInv
  <2>5. (Twice <=> Twice') /\ UNCHANGED <<slot, out, held, got, early>>
    BY <2>1 DEF Twice
  <2> QED BY <2>3, <2>4, <2>5
          DEF OrderInv, AfterOut, AfterHeld, AfterGot, Before, Own, Fresh, Late
<1>13. ASSUME NEW ready \in SUBSET Fds, EpollWait(ready) PROVE OrderInv'
  <2>1. /\ UNCHANGED <<slot, queue, subs, got, early, pc, target, pos>>
        /\ \A g \in Fds : \/ out'[g] = out[g] /\ held'[g] = Null
                          \/ out'[g] = Null /\ held'[g] = out[g]
    BY <1>0, <1>13 DEF EpollWait, Types
  <2>2. Twice' = Twice
    BY <2>1 DEF Twice
  <2> QED BY <2>1, <2>2
          DEF OrderInv, AfterOut, AfterHeld, AfterGot, Before, Own, Fresh, Late
<1>14. ASSUME NEW fd \in Fds, EventOut(fd) PROVE OrderInv'
  <2>1. /\ UNCHANGED <<slot, queue, subs, early, pc, target, pos>>
        /\ out'[fd] = Null /\ held'[fd] = Null
        /\ \A g \in Fds \ {fd} : out'[g] = out[g] /\ held'[g] = held[g] /\ got'[g] = got[g]
        /\ \/ got'[fd] = got[fd]
           \/ got'[fd] = Append(got[fd], held[fd]) /\ held[fd] \in Nat
    BY <1>0, <1>14 DEF EventOut, Message, Types
  <2>2. ASSUME NEW g \in Fds, g # fd \/ got'[fd] = got[fd]
        PROVE  /\ Own(g)' = Own(g) /\ got'[g] = got[g]
               /\ Fresh(g)' => Fresh(g) /\ held'[g] = held[g]
               /\ out'[g] = out[g] \/ out'[g] \notin Nat
    BY <1>2, <2>1, <2>2 DEF Fresh
  <2>3. CASE got'[fd] = got[fd]
    <3>1. ASSUME NEW g \in Fds
          PROVE  /\ out'[g] = out[g] \/ out'[g] \notin Nat
                 /\ Own(g)' = Own(g) /\ got'[g] = got[g]
                 /\ Fresh(g)' => Fresh(g) /\ held'[g] = held[g]
      BY <2>2, <2>3
    <3> QED BY <1>3, <2>1, <3>1
  <2>4. CASE got'[fd] = Append(got[fd], held[fd]) /\ held[fd] \in Nat
    <3> DEFINE g == got[fd]
               o == held[fd]
    <3>1. o \in Nat /\ g \in Seq(1 .. published)
      BY <1>0, <2>4 DEF Types
    <3> HIDE DEF g, o
    <3>2. /\ DOMAIN g = 1 .. Len(g) /\ Len(g) \in Nat
          /\ \A i \in DOMAIN got'[fd] : \/ i \in DOMAIN g /\ got'[fd][i] = g[i]
                                        \/ i = Len(g) + 1 /\ got'[fd][i] = o
      BY <2>4, <3>1 DEF g, o
    <3>3. \A i \in Own(fd)' : \/ i \in Own(fd) /\ got'[fd][i] = got[fd][i]
                              \/ Fresh(fd) /\ i = Len(g) + 1 /\ got'[fd][i] = o
      <4>1. g = <<>> => Len(g) = 0
        OBVIOUS
      <4>2. g # <<>> => Len(g) # 0
        BY <3>1
      <4> QED BY <2>1, <3>1, <3>2, <4>1, <4>2 DEF Own, Fresh, Late, g, o
    <3>4. Fresh(fd) => AfterGot(fd, o)
      BY DEF OrderInv, o
    <3>5. ASSUME NEW x, AfterHeld(fd, x) PROVE AfterGot(fd, x)'
      <4>1. \A i \in Own(fd)' : Before(got'[fd][i], x)
        BY <3>3, <3>5 DEF AfterHeld, AfterGot, o
      <4> QED BY <2>1, <4>1 DEF AfterGot, Before, Twice
    <3>6. \A i, j \in Own(fd)' : i < j => Before(got'[fd][i], got'[fd][j])
      <4> SUFFICES ASSUME NEW i \in Own(fd)', NEW j \in Own(fd)', i < j
                   PROVE  Before(got'[fd][i], got'[fd][j])
        OBVIOUS
      <4>1. i \in Nat /\ j \in Nat /\ i <= Len(g) /\ j <= Len(g) + 1
        <5>1. i \in Nat /\ j \in Nat /\ i <= Len(g) + 1 /\ j <= Len(g) + 1
          BY <3>2 DEF Own
        <5> QED BY <3>2, <5>1
      <4>2. i \in Own(fd) /\ got'[fd][i] = got[fd][i]
        BY <3>2, <3>3, <4>1
      <4>3. CASE j \in Own(fd) /\ got'[fd][j] = got[fd][j]
        BY <4>2, <4>3 DEF OrderInv
      <4>4. CASE Fresh(fd) /\ got'[fd][j] = o
        BY <3>4, <4>2, <4>4 DEF AfterGot
      <4> QED BY <3>3, <4>3, <4>4
    <3>7. Twice' = Twice
      BY <2>1 DEF Twice
    <3>8. out'[fd] \notin Nat /\ ~ Fresh(fd)'
      BY <2>1 DEF Fresh
    <3>9. ASSUME slot[fd] # Null, NEW k \in DOMAIN queue[slot[fd]],
                 pc = "send" /\ target = fd => k >= pos
          PROVE  AfterOut(fd, queue[slot[fd]][k])'
      <4>1. AfterHeld(fd, queue[slot[fd]][k])
        BY <3>9 DEF OrderInv, AfterOut
      <4>2. PICK x : x = queue[slot[fd]][k]
        OBVIOUS
      <4>3. AfterGot(fd, x)'
        BY <3>5, <4>1, <4>2
      <4>4. AfterOut(fd, x)'
        BY <3>8, <4>3 DEF AfterOut, AfterHeld
      <4> QED BY <2>1, <4>2, <4>4 DEF AfterOut, AfterHeld, AfterGot
    <3>10. ASSUME NEW h \in Fds \ {fd}, NEW x
           PROVE  /\ AfterGot(h, x) => AfterGot(h, x)'
                  /\ AfterHeld(h, x) => AfterHeld(h, x)'
                  /\ AfterOut(h, x) => AfterOut(h, x)'
      BY <1>a, <2>1, <2>2, <3>7
    <3>11. ASSUME NEW h \in Fds \ {fd}
           PROVE  /\ \A i, j \in Own(h)' : i < j => Before(got[h][i], got[h][j])'
                  /\ Fresh(h)' => AfterGot(h, held[h])'
                  /\ out'[h] \in Nat => AfterHeld(h, out[h])'
      BY <1>c, <2>1, <2>2, <3>7
    <3>12. ASSUME NEW h \in Fds \ {fd}, slot[h] # Null, NEW k \in DOMAIN queue[slot[h]],
                  pc = "send" /\ target = h => k >= pos
           PROVE  AfterOut(h, queue[slot[h]][k])'
      <4>1. AfterOut(h, queue[slot[h]][k])
        BY <3>12 DEF OrderInv
      <4>2. PICK x : x = queue[slot[h]][k]
        OBVIOUS
      <4>3. AfterOut(h, x)'
        BY <3>10, <4>1, <4>2
      <4> QED BY <2>1, <4>2, <4>3 DEF AfterOut, AfterHeld, AfterGot
    <3>13. \A d \in Clients : \A i, j \in DOMAIN queue'[d] :
              i < j => Before(queue[d][i], queue[d][j])'
      BY <2>1, <3>7 DEF OrderInv, Before
    <3>14. \A i, j \in Own(fd)' : i < j => Before(got[fd][i], got[fd][j])'
      BY <3>6, <3>7 DEF Before
    <3> QED BY <2>1, <3>8, <3>9, <3>11, <3>12, <3>13, <3>14, ZenonT(30) DEF OrderInv
  <2> QED BY <2>1, <2>3, <2>4
<1> QED BY <1>4, <1>5, <1>6, <1>7, <1>8, <1>9, <1>10, <1>11, <1>12, <1>13, <1>14
        DEF Next, Packet

\* A connection gets the messages in the order of publication, and one twice
\* only when a client is on the subscriber list twice; but for a first one that
\* et held at the CONNECT.
THEOREM GotInOrderHolds == Spec => []GotInOrder
<1>1. Init => NewestInv /\ OrderInv
  BY NullApart DEF Init, NewestInv, OrderInv, Own, Fresh
<1>2. TypeInv /\ OrderInv => GotInOrder
  <2> SUFFICES ASSUME TypeInv, OrderInv,
                      NEW fd \in Fds, NEW i \in DOMAIN got[fd], NEW j \in DOMAIN got[fd],
                      i < j, ~ (got[fd][i] < got[fd][j]), ~ (i = 1 /\ fd \in early)
               PROVE  /\ got[fd][i] = got[fd][j]
                      /\ \E c \in Clients : Cardinality(Subscribed(c)) > 1
    BY DEF GotInOrder
  <2>1. got[fd][i] = got[fd][j] /\ Twice
    <3>1. got[fd] \in Seq(1 .. published)
      BY DEF TypeInv, Types
    <3>2. i \in Nat /\ j \in Nat /\ i >= 1
      BY <3>1
    <3>3. i \in Own(fd) /\ j \in Own(fd)
      BY <3>2 DEF Own
    <3> QED BY <3>3 DEF OrderInv, Before
  <2>2. PICK a, b \in DOMAIN subs : a # b /\ subs[a] = subs[b]
    BY <2>1 DEF Twice
  <2> DEFINE c == subs[a]
             S == Subscribed(c)
  <2>3. subs \in Seq(Clients) /\ Len(subs) \in Nat
    BY DEF TypeInv, Types
  <2>4. c \in Clients /\ {a, b} \subseteq S /\ S \subseteq 1 .. Len(subs)
    BY <2>2, <2>3 DEF Subscribed
  <2> HIDE DEF S
  <2>5. IsFiniteSet(S) /\ Cardinality(S) \in Nat
    <3>1. IsFiniteSet(1 .. Len(subs))
      <4> DEFINE n == Len(subs)
      <4>1. 1 \in Int /\ n \in Int
        BY <2>3
      <4> HIDE DEF n
      <4>2. IsFiniteSet(1 .. n)
        BY <4>1, FS_Interval
      <4> QED BY <4>2 DEF n
    <3> QED BY <2>4, <3>1, FS_Subset, FS_CardinalityType
  <2>6. Cardinality({a, b}) = 2
    <3>1. IsFiniteSet({b}) /\ Cardinality({b}) = 1 /\ a \notin {b}
      BY <2>2, FS_Singleton
    <3>2. {a, b} = {b} \cup {a}
      OBVIOUS
    <3> DEFINE B == {b}
    <3>3. IsFiniteSet(B) /\ Cardinality(B) = 1 /\ a \notin B /\ {a, b} = B \cup {a}
      BY <3>1, <3>2
    <3> HIDE DEF B
    <3>4. Cardinality(B \cup {a}) = Cardinality(B) + 1
      BY <3>3, FS_AddElement
    <3> QED BY <3>3, <3>4
  <2>7. Cardinality(S) >= 2
    BY <2>4, <2>5, <2>6, FS_Subset
  <2> QED BY <2>1, <2>4, <2>5, <2>7 DEF S
<1> QED BY <1>1, <1>2, InitTyped, StepTyped, StepNewest, StepOrder, PTL DEF Spec
=============================================================================

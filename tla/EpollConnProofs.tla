-------------------------- MODULE EpollConnProofs ---------------------------
(***************************************************************************)
(* Proofs about EpollConn, for any number of handlers, packets and pushed  *)
(* messages.                                                               *)
(***************************************************************************)
EXTENDS EpollConn, TLAPS

\* An EPOLLONESHOT registration that has fired has no event.
TypeInv == TypeOK /\ (reg = "off" => ~ edge)

LEMMA InitTyped == Init => TypeInv
<1> SUFFICES ASSUME Init PROVE TypeInv
  OBVIOUS
<1>1. sent \in Seq(1 .. answers)
  <2>1. <<>> \in Seq(1 .. answers)
    OBVIOUS
  <2> QED BY <2>1 DEF Init
<1>2. /\ arrived \in 0 .. MaxPackets /\ unread \in 0 .. arrived
      /\ pushes \in 0 .. MaxPushes /\ answers \in Nat
  BY ConstantsOK DEF Init
<1>3. /\ reg = "in_once" /\ outData = None /\ ~ edge /\ edge \in BOOLEAN
      /\ event = "none"
  BY DEF Init
<1>4. pc \in [Handlers -> {"none", "loop", "answer", "blocked"}]
  BY DEF Init
<1> QED BY <1>1, <1>2, <1>3, <1>4 DEF TypeInv, TypeOK

\* More answers: what has been sent is among them.
LEMMA MoreAnswers ==
    ASSUME answers \in Nat, NEW s \in Seq(1 .. answers)
    PROVE  s \in Seq(1 .. answers + 1)
<1>1. 1 .. answers \subseteq 1 .. answers + 1
  OBVIOUS
<1> QED BY <1>1

LEMMA SendTyped ==
    ASSUME TypeInv, Send, UNCHANGED <<main, peer>>
    PROVE  /\ reg' = "out" /\ outData' = answers + 1 /\ edge' = TRUE
           /\ answers' = answers + 1
           /\ answers' \in Nat /\ outData' \in 1 .. answers' /\ outData' # None
           /\ event' = "out" => eventData' \in 1 .. answers'
           /\ sent' \in Seq(1 .. answers')
<1>1. /\ reg' = "out" /\ outData' = answers + 1 /\ edge' = TRUE
      /\ answers' = answers + 1
  BY DEF Send, set_fd_out, Register
<1>2. sent' = sent /\ sent \in Seq(1 .. answers + 1)
  BY MoreAnswers DEF TypeInv, TypeOK, peer
<1> QED BY <1>1, <1>2, ConstantsOK DEF TypeInv, TypeOK, main

LEMMA StepTyped == TypeInv /\ [Next]_vars => TypeInv'
<1> SUFFICES ASSUME TypeInv, [Next]_vars PROVE TypeInv'
  OBVIOUS
<1> USE ConstantsOK DEF TypeInv, TypeOK, kernel, main, peer, made, Goto
<1>1. CASE UNCHANGED vars
  BY <1>1 DEF vars
<1>2. CASE Arrive
  BY <1>2 DEF Arrive
<1>3. CASE Push
  <2>1. Send /\ UNCHANGED <<main, peer, pc>> /\ pushes' \in 0 .. MaxPushes
    BY <1>3 DEF Push
  <2> HIDE DEF TypeInv
  <2>2. /\ reg' = "out" /\ edge' = TRUE /\ answers' \in Nat
        /\ outData' \in 1 .. answers' /\ outData' # None
        /\ event' = "out" => eventData' \in 1 .. answers'
        /\ sent' \in Seq(1 .. answers')
    BY <2>1, SendTyped
  <2> QED BY <2>1, <2>2 DEF TypeInv
<1>4. CASE EpollWait
  BY <1>4 DEF EpollWait
<1>5. CASE EventOut
  <2>1. sent' \in Seq(1 .. answers)
    BY <1>5 DEF EventOut
  <2>2. reg' = "in" /\ outData' = None /\ edge' \in BOOLEAN
    BY <1>5 DEF EventOut, set_fd_in, Register
  <2> QED BY <1>5, <2>1, <2>2 DEF EventOut
<1>6. ASSUME NEW h \in Handlers, EventIn(h) PROVE TypeInv'
  BY <1>6 DEF EventIn
<1>7. ASSUME NEW h \in Handlers, Read(h) PROVE TypeInv'
  BY <1>7 DEF Read
<1>8. ASSUME NEW h \in Handlers, Answer(h) PROVE TypeInv'
  <2>1. Send /\ UNCHANGED <<main, peer, pushes>>
        /\ pc' \in [Handlers -> {"none", "loop", "answer", "blocked"}]
    BY <1>8 DEF Answer
  <2> HIDE DEF TypeInv
  <2>2. /\ reg' = "out" /\ edge' = TRUE /\ answers' \in Nat
        /\ outData' \in 1 .. answers' /\ outData' # None
        /\ event' = "out" => eventData' \in 1 .. answers'
        /\ sent' \in Seq(1 .. answers')
    BY <2>1, SendTyped
  <2> QED BY <2>1, <2>2 DEF TypeInv
<1>9. ASSUME NEW h \in Handlers, WouldBlock(h) PROVE TypeInv'
  BY <1>9 DEF WouldBlock
<1>10. ASSUME NEW h \in Handlers, Reset(h) PROVE TypeInv'
  <2>1. reg' = "in_once" /\ outData' = None /\ edge' \in BOOLEAN
    BY <1>10 DEF Reset, reset_oneshot, Register
  <2> QED BY <1>10, <2>1 DEF Reset
<1> QED BY <1>1, <1>2, <1>3, <1>4, <1>5, <1>6, <1>7, <1>8, <1>9, <1>10
        DEF Next, Main, Handler

\* Every variable has its type, and the registration for output, and only that
\* one, carries an answer.
THEOREM TypeCorrect == Spec => []TypeOK
<1>1. TypeInv => TypeOK
  BY DEF TypeInv
<1> QED BY <1>1, InitTyped, StepTyped, PTL DEF Spec
-----------------------------------------------------------------------------
(* The order of the answers.                                               *)

\* Answer x is newer than all that have been sent.
Newer(x) == \A i \in DOMAIN sent : sent[i] < x

\* The answer in et's hands is newer than all that have been sent, and the one
\* in the registration, unless its event has been taken, is newer still.
OrderInv ==
    /\ SentInOrder
    /\ event = "out" => Newer(eventData)
    /\ reg = "out" /\ edge =>
          Newer(outData) /\ (event = "out" => eventData < outData)
    /\ reg = "out" /\ ~ edge => event = "out" /\ eventData = outData

LEMMA SendOrder ==
    ASSUME TypeInv, OrderInv, Send, UNCHANGED <<main, peer>>
    PROVE  OrderInv'
<1>1. Newer(answers + 1) /\ (event = "out" => eventData < answers + 1)
  BY DEF TypeInv, TypeOK, Newer
<1> QED BY <1>1, SendTyped DEF OrderInv, SentInOrder, Newer, main, peer

LEMMA SendingOrder ==
    ASSUME TypeInv, OrderInv, EventOut
    PROVE  SentInOrder'
<1>1. /\ Newer(eventData) /\ sent' = Append(sent, eventData)
      /\ sent \in Seq(1 .. answers) /\ eventData \in 1 .. answers /\ answers \in Nat
  BY DEF EventOut, OrderInv, TypeInv, TypeOK
<1>2. /\ DOMAIN sent = 1 .. Len(sent) /\ DOMAIN sent' = 1 .. Len(sent) + 1
      /\ Len(sent) \in Nat
      /\ \A i \in DOMAIN sent : sent'[i] = sent[i]
      /\ sent'[Len(sent) + 1] = eventData
  BY <1>1
<1> SUFFICES ASSUME NEW i \in DOMAIN sent', NEW j \in DOMAIN sent', i < j
             PROVE  sent'[i] < sent'[j]
  BY DEF SentInOrder
<1>3. i \in DOMAIN sent
  BY <1>2
<1>4. CASE j \in DOMAIN sent
  BY <1>2, <1>3, <1>4 DEF OrderInv, SentInOrder
<1>5. CASE j = Len(sent) + 1
  BY <1>1, <1>2, <1>3, <1>5 DEF Newer
<1> QED BY <1>2, <1>4, <1>5

LEMMA StepOrder ==
    ASSUME TypeInv, OrderInv, [Next]_vars
    PROVE  OrderInv'
<1> USE DEF OrderInv, SentInOrder, Newer, kernel, main, peer, made
<1>1. CASE UNCHANGED vars
  BY <1>1 DEF vars
<1>2. CASE Arrive
  <2>1. UNCHANGED <<reg, outData, sent, event, eventData>>
    BY <1>2 DEF Arrive
  <2>2. reg = "out" => edge' = edge
    BY <1>2 DEF Arrive, TypeInv, TypeOK
  <2> QED BY <2>1, <2>2
<1>3. CASE Push
  BY <1>3, SendOrder DEF Push
<1>4. CASE EpollWait
  BY <1>4 DEF EpollWait
<1>5. CASE EventOut
  BY <1>5, SendingOrder DEF EventOut, set_fd_in, Register
<1>6. ASSUME NEW h \in Handlers, EventIn(h) PROVE OrderInv'
  BY <1>6 DEF EventIn
<1>7. ASSUME NEW h \in Handlers, Read(h) \/ WouldBlock(h) PROVE OrderInv'
  BY <1>7 DEF Read, WouldBlock
<1>8. ASSUME NEW h \in Handlers, Answer(h) PROVE OrderInv'
  BY <1>8, SendOrder DEF Answer
<1>9. ASSUME NEW h \in Handlers, Reset(h) PROVE OrderInv'
  BY <1>9 DEF Reset, reset_oneshot, Register
<1> QED BY <1>1, <1>2, <1>3, <1>4, <1>5, <1>6, <1>7, <1>8, <1>9
        DEF Next, Main, Handler

\* However the answers overwrite each other in the registration: none is sent
\* twice, and none after a newer one.
THEOREM SentInOrderHolds == Spec => []SentInOrder
<1>1. Init => OrderInv
  BY DEF Init, OrderInv, SentInOrder, Newer
<1>2. OrderInv => SentInOrder
  BY DEF OrderInv
<1> QED BY <1>1, <1>2, InitTyped, StepTyped, StepOrder, PTL DEF Spec

-----------------------------------------------------------------------------
(* Readers.                                                                *)

\* Until an answer has been sent the registration is EPOLLONESHOT or for
\* output, and an event for input means that nobody reads.
ReaderInv ==
    sent = <<>> =>
        /\ \A g, h \in Active : g = h
        /\ reg # "in"
        /\ reg = "in_once" => Active = {} /\ event # "in"
        /\ event = "in" => Active = {}

LEMMA StepReader ==
    ASSUME TypeInv, ReaderInv, [Next]_vars
    PROVE  ReaderInv'
<1> USE DEF ReaderInv, kernel, main, peer, made
<1>1. ASSUME UNCHANGED pc PROVE Active' = Active
  BY <1>1 DEF Active
<1>2. ASSUME NEW h \in Handlers, NEW label \in {"loop", "answer", "blocked"},
             pc[h] # "none", Goto(h, label)
      PROVE  Active' = Active
  BY <1>2 DEF Active, Goto, TypeInv, TypeOK
<1>3. ASSUME Send, UNCHANGED <<main, peer>>, Active' = Active PROVE ReaderInv'
  BY <1>3, SendTyped
<1>4. CASE UNCHANGED vars
  BY <1>1, <1>4 DEF vars
<1>5. CASE Arrive
  BY <1>1, <1>5 DEF Arrive
<1>6. CASE Push
  BY <1>1, <1>3, <1>6 DEF Push
<1>7. CASE EpollWait
  BY <1>1, <1>7 DEF EpollWait, TypeInv, TypeOK
<1>8. CASE EventOut
  <2>1. sent' # <<>>
    BY <1>8 DEF EventOut, TypeInv, TypeOK
  <2> QED BY <2>1
<1>9. ASSUME NEW h \in Handlers, EventIn(h) PROVE ReaderInv'
  <2>1. Active' = Active \cup {h}
    BY <1>9 DEF EventIn, Goto, Active, TypeInv, TypeOK
  <2> QED BY <1>9, <2>1 DEF EventIn
<1>10. ASSUME NEW h \in Handlers, Read(h) PROVE ReaderInv'
  <2>1. Active' = Active
    BY <1>1, <1>2, <1>10 DEF Read
  <2> QED BY <1>10, <2>1 DEF Read
<1>11. ASSUME NEW h \in Handlers, WouldBlock(h) PROVE ReaderInv'
  <2>1. Active' = Active
    BY <1>2, <1>11 DEF WouldBlock
  <2> QED BY <1>11, <2>1 DEF WouldBlock
<1>12. ASSUME NEW h \in Handlers, Answer(h) PROVE ReaderInv'
  <2>1. Active' = Active
    BY <1>2, <1>12 DEF Answer
  <2> QED BY <1>3, <1>12, <2>1 DEF Answer
<1>13. ASSUME NEW h \in Handlers, Reset(h) PROVE ReaderInv'
  <2>1. Active' = Active \ {h} /\ h \in Active
    BY <1>13 DEF Reset, Goto, Active, TypeInv, TypeOK
  <2>2. reg' = "in_once" /\ UNCHANGED <<event, sent>>
    BY <1>13 DEF Reset, reset_oneshot, Register
  <2> QED BY <2>1, <2>2
<1> QED BY <1>4, <1>5, <1>6, <1>7, <1>8, <1>9, <1>10, <1>11, <1>12, <1>13
        DEF Next, Main, Handler

\* Two handlers read one connection only after an answer has been sent on it:
\* until then EPOLLONESHOT and reset_oneshot admit one.
THEOREM OneReaderHolds == Spec => []OneReaderUntilAnswer
<1>1. Init => ReaderInv
  BY DEF Init, ReaderInv, Active
<1>2. ReaderInv => OneReaderUntilAnswer
  BY DEF ReaderInv, OneReaderUntilAnswer
<1> QED BY <1>1, <1>2, InitTyped, StepTyped, StepReader, PTL DEF Spec
=============================================================================

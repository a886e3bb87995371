---------------------------- MODULE PacketReader ----------------------------
(***************************************************************************)
(* The packet codec of mqtt_packet.c on one connection: the handler reads  *)
(* a command byte, the remaining length, the payload and the fields in it, *)
(* from a byte stream that TCP delivers in pieces, and forwards a PUBLISH  *)
(* to a subscriber.  A packet is abstracted to its kind, its flags and the *)
(* lengths of its strings; its bytes follow from these (Encoding), and a   *)
(* byte of text is TEXT.  Strings have no NUL byte in them, which the      *)
(* protocol forbids; the content of a PUBLISH may, and C's strlen ends at  *)
(* it.  The handler's cursor and buffer are offsets into the stream.       *)
(*                                                                         *)
(* There is one reader, and it reads its own descriptor.  The code reads   *)
(* all but the command byte from packet->fd->sockfd, which is its own only *)
(* until et handles the next event: EpollConn says how long a connection   *)
(* has one reader, Session what else goes wrong with the shared fds_arg.   *)
(* Nor do other connections spoil the list of timers: see TimerList.       *)
(***************************************************************************)
EXTENDS Naturals, Sequences, SequencesExt, FiniteSetsExt

CONSTANTS
    Packets,     \* the packets the client may send: records [kind, qos,
                 \* flags, strs, content, plain], see Payload
    MaxPackets,  \* bound on the packets it sends on the connection
    Cuts         \* how many bytes of a packet may have arrived while the rest
                 \* has not

VARIABLES
    sent,     \* the packets the client has sent
    arrived,  \* number of bytes of the stream that have arrived
    read,     \* number of bytes the handler has read with recv
    pc,       \* where the handler is
    command,  \* packet->command
    length,   \* packet->remain_length (value, while it is being read)
    digits,   \* byte_num
    base,     \* where in the stream packet->payload begins
    pos,      \* packet->pos
    todo,     \* the fields the handler has still to read
    got,      \* the strings it has read: <<offset in the payload, length>>
    known,    \* the client has been acknowledged (client_id is set)
    listed,   \* how often its timer has been put in the list, 2 for more
    out,      \* what was sent to the subscriber of the last PUBLISH
    begun,    \* where in the stream the last command byte was (history)
    cut       \* a packet was begun before all of it had arrived (history)

stream_vars == <<sent, arrived>>
field_vars  == <<base, pos, todo, got>>
vars == <<sent, arrived, read, pc, command, length, digits, base, pos, todo,
          got, known, listed, out, begun, cut>>

TEXT == 97                \* a byte of text
ID   == <<0, 16>>         \* a message id; its second byte is also CONNECT
NAME == <<77, 81, 73, 115, 100, 112>>   \* "MQIsdp"
None == <<>>              \* nothing was forwarded

(***************************************************************************)
(* What a client sends: the MQTT 3.1 encoding of a packet.                 *)
(***************************************************************************)
Code == [CONNECT |-> 16, PUBLISH |-> 48, PUBACK |-> 64, SUBSCRIBE |-> 128,
         UNSUBSCRIBE |-> 160, PINGREQ |-> 192, DISCONNECT |-> 224]

Text(n)   == [i \in 1..n |-> TEXT]
String(n) == <<n \div 256, n % 256>> \o Text(n)
MsgId(p)  == IF p.qos > 0 THEN ID ELSE <<>>
Flag(p, f, value) == IF f \in p.flags THEN value ELSE 0

\* The strings of a packet, each with what follows it, and what comes before
\* and after them.
Pieces(p) ==
    [i \in DOMAIN p.strs |->
        IF p.kind = "SUBSCRIBE" THEN String(p.strs[i]) \o <<0>> ELSE String(p.strs[i])]

Header(p) ==
    CASE p.kind = "CONNECT" ->
            <<0, 6>> \o NAME
              \o <<3, Flag(p, "uname", 128) + Flag(p, "pwd", 64) + Flag(p, "will", 4)>>
              \o <<0, 30>>
      [] p.kind \in {"SUBSCRIBE", "UNSUBSCRIBE"} -> MsgId(p)
      [] p.kind = "PUBACK"                       -> ID
      [] OTHER                                   -> <<>>

\* plain bytes of the content come before its first NUL.
Content(p) == [i \in 1..p.content |-> IF i <= p.plain THEN TEXT ELSE 0]
Trailer(p) == IF p.kind = "PUBLISH" THEN MsgId(p) \o Content(p) ELSE <<>>
Payload(p) == Header(p) \o FlattenSeq(Pieces(p)) \o Trailer(p)

\* The remaining length n of a packet as the protocol has it.
Length(n) ==
    IF n < 128 THEN <<n>>
    ELSE IF n < 16384 THEN <<(n % 128) + 128, n \div 128>>
    ELSE IF n < 2097152
    THEN <<(n % 128) + 128, ((n \div 128) % 128) + 128, n \div 16384>>
    ELSE <<(n % 128) + 128, ((n \div 128) % 128) + 128,
           ((n \div 16384) % 128) + 128, n \div 2097152>>

Bytes(p) == <<Code[p.kind] + 2 * p.qos>> \o Length(Len(Payload(p))) \o Payload(p)
Encoding == [p \in Packets |-> Bytes(p)]

\* The stream, and where in it packet i starts.
Stream   == FlattenSeq([i \in DOMAIN sent |-> Encoding[sent[i]]])
Start(i) == Len(FlattenSeq([j \in 1..(i - 1) |-> Encoding[sent[j]]]))

\* What the protocol says of a packet: how long it and its strings may be; the
\* strings of a CONNECT are those that its flags announce, a PUBLISH has one
\* topic, a SUBSCRIBE has no qos above 1, and some kinds have no strings.
MaxString == 65535
MaxLength == 268435455
Count(b)  == IF b THEN 1 ELSE 0
WellFormed(p) ==
    /\ p.kind \in DOMAIN Code /\ p.qos \in 0..3
    /\ p.flags \subseteq {"uname", "pwd", "will"} /\ ("pwd" \in p.flags => "uname" \in p.flags)
    /\ p.strs \in Seq(0..MaxString) /\ p.content \in Nat /\ p.plain \in 0..p.content
    /\ p.kind = "CONNECT" =>
          Len(p.strs) = 1 + 2 * Count("will" \in p.flags) + Count("uname" \in p.flags)
                          + Count("pwd" \in p.flags)
    /\ p.kind = "PUBLISH" => Len(p.strs) = 1
    /\ p.kind = "SUBSCRIBE" => p.qos < 2
    /\ p.kind \in {"PUBACK", "PINGREQ", "DISCONNECT"} => p.strs = <<>>
    /\ Len(Payload(p)) <= MaxLength

ASSUME ConstantsOK ==
    /\ MaxPackets \in Nat /\ Cuts \subseteq Nat
    /\ \A p \in Packets : WellFormed(p)

Init ==
    /\ sent = <<>> /\ arrived = 0 /\ read = 0
    /\ pc = "command" /\ command = 0 /\ length = 0 /\ digits = 0
    /\ base = 0 /\ pos = 0 /\ todo = <<>> /\ got = <<>>
    /\ known = FALSE /\ listed = 0 /\ out = None /\ begun = 0 /\ cut = FALSE

-----------------------------------------------------------------------------
(***************************************************************************)
(* The client and TCP.                                                     *)
(***************************************************************************)
Send(p) ==
    /\ Len(sent) < MaxPackets
    /\ sent' = Append(sent, p)
    /\ UNCHANGED <<arrived, read, pc, command, length, digits, field_vars, known,
                   listed, out, begun, cut>>

Arrive(end) ==
    /\ arrived < end /\ end <= Len(Stream)
    /\ arrived' = end
    /\ UNCHANGED <<sent, read, pc, command, length, digits, field_vars, known,
                   listed, out, begun, cut>>

-----------------------------------------------------------------------------
(***************************************************************************)
(* The first bytes of a packet, read one at a time.                        *)
(***************************************************************************)
Kind(c) == (c \div 16) * 16                  \* packet->command&0xF0
qosflag == (command \div 2) % 4              \* mqtt_parse_flags
Is(kind) == Kind(command) = Code[kind]

\* The command byte.  An unknown command is one byte long; a PUBLISH,
\* SUBSCRIBE or UNSUBSCRIBE with qos 3, and a SUBSCRIBE before CONNACK, end
\* the connection.  Without a byte the handler leaves, and a later one goes on.
Refused(c) ==
    LET flagged == Kind(c) \in {Code["PUBLISH"], Code["SUBSCRIBE"], Code["UNSUBSCRIBE"]} IN
    \/ flagged /\ (c \div 2) % 4 = 3
    \/ Kind(c) = Code["SUBSCRIBE"] /\ ~known

Complete(i) == \E k \in DOMAIN sent : i = Start(k) /\ arrived >= Start(k + 1)

ReadCommand ==
    /\ pc = "command" /\ read < arrived
    /\ LET c == Stream[read + 1] IN
       /\ command' = c
       /\ pc' = IF Refused(c) THEN "shut"
                ELSE IF \E k \in DOMAIN Code \ {"PUBACK"} : Kind(c) = Code[k]
                THEN "length" ELSE "command"
    /\ read' = read + 1 /\ begun' = read
    /\ cut' = (cut \/ ~Complete(read))
    /\ length' = 0 /\ digits' = 0
    /\ base' = 0 /\ pos' = 0 /\ todo' = <<>> /\ got' = <<>> /\ out' = None
    /\ UNCHANGED <<stream_vars, known, listed>>

\* update_conn_timer: adjust_timer follows the links of a timer that may not be
\* in the list, or may be in it twice.
Renewed == IF listed = 1 THEN {"command"} ELSE {"command", "crash"}

\* What may follow the remaining length n.  UNSUBSCRIBE goes on without reading
\* the payload: its first field is looked up through a null pointer.
AfterLength(n) ==
    CASE Is("PINGREQ")     -> Renewed
      [] Is("DISCONNECT")  -> {"shut"}
      [] Is("UNSUBSCRIBE") -> IF n > 0 THEN {"crash"}
                              ELSE IF qosflag > 0 THEN {"shut"} ELSE {"command"}
      [] OTHER             -> {"payload"}

\* Variant: the continuation bit is not looked at.
MoreNever(d) == FALSE

\* multiplier, for each byte_num.
Weight == <<1, 128, 16384, 2097152, 268435456>>

\* mqtt_remain_length: one byte, the lowest seven bits first.
Digit(d) == (d % 128) * Weight[digits + 1]

More(d)  == d >= 128 /\ digits + 1 <= 4

ReadDigit ==
    /\ pc = "length" /\ read < arrived
    /\ LET d == Stream[read + 1] IN
       /\ length' = length + Digit(d)
       /\ digits' = digits + 1
       /\ pc' \in IF More(d) THEN {"length"} ELSE AfterLength(length')
    /\ read' = read + 1
    /\ base' = read + 1
    /\ UNCHANGED <<stream_vars, command, pos, todo, got, known, listed, out,
                   begun, cut>>

\* recv has nothing: MQTT_ERR_PROTOCOL, and the caller shuts the connection.
NoDigit ==
    /\ pc = "length" /\ read = arrived
    /\ pc' = "shut"
    /\ UNCHANGED <<stream_vars, read, command, length, digits, field_vars, known,
                   listed, out, begun, cut>>

(***************************************************************************)
(* mqtt_read_payload: recv until everything is there or nothing comes; in  *)
(* the second case its assert fails.                                       *)
(***************************************************************************)
Fields ==
    LET id == IF qosflag > 0 THEN <<"msgid">> ELSE <<>> IN
    CASE Is("CONNECT") -> <<"name", "version", "flags", "timer", "id">>
      [] Is("PUBLISH") -> <<"str">> \o id \o <<"content">>
      [] OTHER         -> (IF qosflag = 1 THEN id ELSE <<>>) \o <<"topics">>

Recv ==
    /\ pc = "payload" /\ read < arrived /\ read < base + length
    /\ read' = Min({arrived, base + length})
    /\ UNCHANGED <<stream_vars, pc, command, length, digits, field_vars, known,
                   listed, out, begun, cut>>

RecvEnds ==
    /\ pc = "payload"
    /\ \/ read = base + length /\ pc' = "fields" /\ todo' = Fields
       \/ read < base + length /\ read = arrived /\ pc' = "crash" /\ UNCHANGED todo
    /\ UNCHANGED <<stream_vars, read, command, length, digits, base, pos, got,
                   known, listed, out, begun, cut>>

(***************************************************************************)
(* The fields.  The cursor moves on past a good one; a field that does not *)
(* fit, or is not what it should be, ends the connection.                  *)
(***************************************************************************)
Byte(i) == Stream[base + i + 1]              \* packet->payload[i]
Fits(n) == pos + n <= length                 \* mqtt_payload_byte, n times

\* Variant: the two length bytes are swapped.
StrLenSwapped(i) == Byte(i + 1) * 16 + Byte(i)

\* mqtt_str, its length bytes at i.
StrLen(i) == Byte(i) * 16 + Byte(i + 1)

StrFits   == Fits(2) /\ Fits(2 + StrLen(pos))

At(field) == pc = "fields" /\ todo # <<>> /\ Head(todo) = field

Fail ==
    /\ pc' = "shut"
    /\ UNCHANGED <<stream_vars, read, command, length, digits, field_vars, known,
                   listed, out, begun, cut>>

\* The field was good: n bytes further, and the fields in more are to come.
Good(n, more) ==
    /\ pos' = pos + n
    /\ todo' = Tail(todo) \o more
    /\ UNCHANGED <<stream_vars, read, pc, command, length, digits, base, known,
                   out, begun, cut>>

ReadBytes(field, n) ==
    /\ At(field)
    /\ IF Fits(n) THEN Good(n, <<>>) /\ UNCHANGED <<got, listed>> ELSE Fail

ReadMsgId == ReadBytes("msgid", 2)

\* add_timer follows at once.  A timer that is listed already makes the list
\* circular, and a search in it may never end.
ReadTimer ==
    /\ At("timer")
    /\ IF Fits(2)
       THEN Good(2, <<>>) /\ listed' = Min({2, listed + 1}) /\ UNCHANGED got
       ELSE Fail

ReadVersion ==
    /\ At("version")
    /\ IF Fits(1) /\ Byte(pos) = 3
       THEN Good(1, <<>>) /\ UNCHANGED <<got, listed>>
       ELSE Fail

ReadName ==
    /\ At("name")
    /\ IF StrFits /\ StrLen(pos) >= 6 /\ (\A i \in 1..6 : Byte(pos + 1 + i) = NAME[i])
       THEN Good(2 + StrLen(pos), <<>>) /\ UNCHANGED <<got, listed>>
       ELSE Fail

\* The flags say which strings follow the identifier.
StringsOf(byte) ==
    LET bit(b) == (byte \div b) % 2 = 1 IN
    (IF bit(4) THEN <<"str", "str">> ELSE <<>>)
      \o (IF bit(128) THEN <<"str">> \o (IF bit(64) THEN <<"str">> ELSE <<>>) ELSE <<>>)

ReadFlags ==
    /\ At("flags")
    /\ IF Fits(1)
       THEN Good(1, StringsOf(Byte(pos))) /\ UNCHANGED <<got, listed>>
       ELSE Fail

ReadStr ==
    /\ At("str")
    /\ IF StrFits
       THEN /\ Good(2 + StrLen(pos), <<>>) /\ UNCHANGED listed
            /\ got' = Append(got, <<pos + 2, StrLen(pos)>>)
       ELSE Fail

\* An identifier of more than 23 bytes is refused, and one that is in use.
ReadId ==
    /\ At("id")
    /\ \/ /\ StrFits /\ StrLen(pos) <= 23
          /\ Good(2 + StrLen(pos), <<>>) /\ UNCHANGED listed
          /\ got' = Append(got, <<pos + 2, StrLen(pos)>>)
       \/ Fail

-----------------------------------------------------------------------------
(***************************************************************************)
(* The ends of the three handlers.                                         *)
(***************************************************************************)
\* CONNECT.  Without a user name the function returns nothing, which its
\* caller may take for success or for an error.  Without a password the assert
\* of check_auth fails.  With both, CONNACK 0 makes the client known, unless its
\* empty identifier fails the assert of mqtt_string_alloc, and CONNACK 4 keeps
\* the connection too.
Connected ==
    /\ pc = "fields" /\ todo = <<>>
    /\ LET flags == Byte(StrLen(0) + 3)
           uname == flags >= 128
           pwd   == (flags \div 64) % 2 = 1
           empty == got[1][2] = 0
       IN  \/ ~uname /\ pc' \in {"command", "shut"} /\ UNCHANGED known
           \/ uname /\ ~pwd /\ pc' = "crash" /\ UNCHANGED known
           \/ uname /\ pwd /\ ~empty /\ pc' = "command" /\ known' = TRUE
           \/ uname /\ pwd /\ empty /\ pc' = "crash" /\ UNCHANGED known
           \/ uname /\ pwd /\ pc' = "command" /\ UNCHANGED known
    /\ UNCHANGED <<stream_vars, read, command, length, digits, field_vars, listed,
                   out, begun, cut>>

\* mqtt_packet_alloc: the bytes of the remaining length n, as long as there is
\* something left of it and at most 5.
remain_count(n) ==
    CHOOSE i \in 1..5 : (i = 1 \/ n >= Weight[i]) /\ (i = 5 \/ n < Weight[i + 1])
remain_bytes(n) == [i \in 1..remain_count(n) |->
    ((n \div Weight[i]) % 128) + (IF n \div Weight[i] >= 128 THEN 128 ELSE 0)]

\* mqtt_send_client_msg: the PUBLISH for a topic and a content that long.
Forward(topic, content) ==
    [length |-> remain_bytes(topic + 2 + content),
     msb |-> 0, lsb |-> topic % 16, text |-> topic + content]

\* Variant: the cursor is off by one.
HasContentTwo == pos + 1 < length

\* mqtt_publish_content: an empty content fails its assert.
HasContent == pos < length

\* Variant: the content is as long as the packet says.
ContentLenLeft == length - pos

\* strlen of the content: up to its first NUL.
ContentLen ==
    Min({i \in 0..(length - pos) : i = length - pos \/ Byte(pos + i) = 0})

\* PUBLISH: what strlen takes for an empty content or an empty topic fails the
\* assert of mqtt_string_alloc.  The timer is renewed last.
ReadContent ==
    /\ At("content")
    /\ IF HasContent /\ ContentLen > 0 /\ got[1][2] > 0
       THEN /\ out' = Forward(got[1][2], ContentLen)
            /\ pc' \in Renewed /\ pos' = length /\ todo' = <<>>
       ELSE pc' = "crash" /\ UNCHANGED <<out, pos, todo>>
    /\ UNCHANGED <<stream_vars, read, command, length, digits, base, got, known,
                   listed, begun, cut>>

\* Variant: the cursor is moved without a check.
PastTopicUnchecked == pos + 2 + StrLen(pos) + 1

\* Where the cursor is after a topic and its qos.
PastTopic == Min({length, pos + 2 + StrLen(pos) + 1})

\* SUBSCRIBE: topics until the payload ends; what mqtt_str and
\* mqtt_payload_byte return is ignored.  A topic cut short takes the cursor to
\* the end, one without its second length byte leaves p_topic unset, and an
\* empty one fails the assert of mqtt_string_alloc.
ReadTopic ==
    /\ At("topics") /\ pos < length
    /\ LET n == Min({StrLen(pos), length - pos - 2}) IN
       \/ /\ Fits(2) /\ n > 0
          /\ got' = Append(got, <<pos + 2, n>>)
          /\ pos' = PastTopic
          /\ UNCHANGED pc
       \/ /\ Fits(2) => StrLen(pos) = 0
          /\ pc' = "crash" /\ UNCHANGED <<got, pos>>
       \/ /\ Fits(2) /\ n = 0 /\ StrLen(pos) > 0
          /\ pc' \in {"crash", "fields"}
          /\ pos' = length /\ UNCHANGED got
       \/ /\ ~Fits(2)
          /\ pos' = length /\ UNCHANGED <<pc, got>>
    /\ UNCHANGED <<stream_vars, read, command, length, digits, base, todo, known,
                   listed, out, begun, cut>>

Subscribed ==
    /\ At("topics") /\ pos = length
    /\ pc' = "command" /\ todo' = <<>>
    /\ UNCHANGED <<stream_vars, read, command, length, digits, base, pos, got,
                   known, listed, out, begun, cut>>

Client ==
    \/ \E p \in Packets : Send(p)
    \/ \E i \in DOMAIN sent, k \in Cuts : Arrive(Start(i) + k)
    \/ Arrive(Len(Stream))

Field ==
    \/ ReadName \/ ReadVersion \/ ReadFlags \/ ReadTimer \/ ReadId
    \/ ReadMsgId \/ ReadStr \/ ReadContent \/ ReadTopic \/ Subscribed
    \/ Connected

Handler == ReadCommand \/ ReadDigit \/ NoDigit \/ Recv \/ RecvEnds \/ Field

Next == Client \/ Handler

Spec == Init /\ [][Next]_vars

-----------------------------------------------------------------------------
(***************************************************************************)
(* Properties.                                                             *)
(***************************************************************************)
\* Every variable has its type, and neither the cursor nor a string goes past
\* the remaining length, whatever the bytes are.
TypeOK ==
    /\ sent \in Seq(Packets) /\ Len(sent) <= MaxPackets
    /\ read <= arrived /\ arrived <= Len(Stream)
    /\ pc \in {"command", "length", "payload", "fields", "shut", "crash"}
    /\ command \in 0..255
    /\ length \in Nat /\ digits \in 0..5
    /\ base <= read
    /\ pos \in 0..length
    /\ todo \in Seq({"name", "version", "flags", "timer", "id", "str", "msgid",
                     "content", "topics"})
    /\ \A i \in DOMAIN got : got[i][1] + got[i][2] <= length
    /\ known \in BOOLEAN /\ listed \in 0..2 /\ cut \in BOOLEAN

Acks == \E i \in DOMAIN sent : sent[i].kind = "PUBACK"
Long == \E i \in DOMAIN sent : \E k \in DOMAIN sent[i].strs : sent[i].strs[k] >= 256

\* Whatever pieces the bytes arrive in, the handler takes a packet's first byte
\* for its command, as long as the client sends no PUBACK: that packet is
\* unknown to conn_handler, and its payload is read as commands.
InStep ==
    pc = "command" /\ ~Acks => \E i \in 1..(Len(sent) + 1) : read = Start(i)

\* The strings of packet p, where they are in its payload.
Strings(p) ==
    [i \in DOMAIN p.strs |->
        <<Len(Header(p)) + Len(FlattenSeq([j \in 1..(i - 1) |-> Pieces(p)[j]])) + 2,
          p.strs[i]>>]

\* The fields of a packet are read in the order and with the lengths in which
\* the client sent them, and all of them before the next packet, while no
\* string has 256 bytes: mqtt_str takes the first length byte times 16.
AsSent ==
    \A i \in DOMAIN sent :
       begun = Start(i) /\ command = Encoding[sent[i]][1] /\ ~Acks /\ ~Long
         => /\ IsPrefix(got, Strings(sent[i]))
            /\ pc = "command" /\ read > begun
                 => got = IF sent[i].kind \in {"CONNECT", "PUBLISH", "SUBSCRIBE"}
                          THEN Strings(sent[i]) ELSE <<>>

\* The CONNECTs before packet i.
Connects(i) == {j \in 1..(i - 1) : sent[j].kind = "CONNECT"}

\* A packet that renews the timer when its client has not sent CONNECT, or has
\* sent it more than once.
Unlisted(i) ==
    sent[i].kind \in {"PUBLISH", "PINGREQ"} /\ ~ \E j \in DOMAIN sent : Connects(i) = {j}

\* A packet stops the server only if not all of it was there when it was begun,
\* or if a packet is an UNSUBSCRIBE, has an empty string, a content that is
\* empty or begins with NUL, or a user name without a password, or has a string
\* so long that the fields are lost; or if the timer is renewed other than
\* after one CONNECT.
Stops(p) ==
    \/ p.kind = "UNSUBSCRIBE" \/ 0 \in ToSet(p.strs)
    \/ p.kind = "PUBLISH" /\ p.plain = 0
    \/ p.kind = "CONNECT" /\ "uname" \in p.flags /\ "pwd" \notin p.flags
StopsOnlyOn ==
    pc = "crash" =>
        cut \/ Acks \/ Long \/ \E i \in DOMAIN sent : Stops(sent[i]) \/ Unlisted(i)

\* What a client reads of a PUBLISH: the length of the payload, of at most four
\* bytes, and how many bytes of its text are the topic.
Decoded(bytes) ==
    LET part(i) == IF i \in DOMAIN bytes THEN (bytes[i] % 128) * Weight[i] ELSE 0
    IN  part(1) + part(2) + part(3) + part(4)

\* A subscriber gets the topic and the content that were published, the latter
\* up to its first NUL, in a packet as long as its remaining length says, while
\* the topic is shorter than 16 bytes: only four bits of its length are sent.
Forwarded ==
    \A i \in DOMAIN sent :
       out # None /\ begun = Start(i) /\ ~Acks /\ sent[i].strs[1] < 16
         => /\ Decoded(out.length) = 2 + out.text
            /\ \A k \in DOMAIN out.length :
                  (out.length[k] >= 128) <=> k < Len(out.length)
            /\ 256 * out.msb + out.lsb = sent[i].strs[1]
            /\ out.text = sent[i].strs[1] + sent[i].plain

=============================================================================

--------------------------- MODULE MCPacketReader ---------------------------
EXTENDS PacketReader

Packet(kind, qos, flags, strs, content, plain) ==
    [kind |-> kind, qos |-> qos, flags |-> flags, strs |-> strs,
     content |-> content, plain |-> plain]

\* Without a NUL in its content.
P(kind, qos, flags, strs, content) ==
    Packet(kind, qos, flags, strs, content, content)

\* Packets at the boundaries of the code: identifiers of 23 and 24 bytes, topics
\* of 15, 16 and 256, remaining lengths of 127 and 128, the empty ones, contents
\* with a NUL, and a user name without a password.
MCPackets ==
    { P("CONNECT", 0, {"uname", "pwd"}, <<n, 2, 2>>, 0) : n \in {0, 1, 23, 24} }
    \cup { P("CONNECT", 0, {}, <<1>>, 0), P("CONNECT", 0, {"uname"}, <<1, 2>>, 0),
           P("CONNECT", 0, {"will", "uname", "pwd"}, <<1, 1, 2, 3, 1>>, 0) }
    \cup { P("PUBLISH", q, {}, <<1>>, c) : q \in {0, 1}, c \in {0, 1, 122, 123, 124, 125} }
    \cup { P("PUBLISH", 0, {}, <<t>>, 1) : t \in {0, 15, 16, 256} }
    \cup { P("PUBLISH", 3, {}, <<1>>, 1) }
    \cup { Packet("PUBLISH", q, {}, <<1>>, 130, n) : q \in {0, 1}, n \in {0, 3} }
    \cup { P("SUBSCRIBE", 1, {}, s, 0) : s \in {<<1>>, <<1, 2>>, <<0>>, <<256>>, <<1, 257>>} }
    \cup { P("UNSUBSCRIBE", 1, {}, <<1>>, 0), P("UNSUBSCRIBE", 0, {}, <<>>, 0) }
    \cup { P(k, 0, {}, <<>>, 0) : k \in {"PINGREQ", "DISCONNECT", "PUBACK"} }
=============================================================================

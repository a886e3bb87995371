------------------------- MODULE PacketReaderProofs -------------------------
(***************************************************************************)
(* Proofs about PacketReader, for any packets, any number of them and any  *)
(* pieces in which they arrive.  All five properties rest on TypeInv, what *)
(* the handler's variables may be, and on StepInv: where in which packet   *)
(* the handler stands, what it has read of it and what it has still to     *)
(* read.                                                                   *)
(***************************************************************************)
EXTENDS PacketReader, WellFoundedInduction, SequenceTheorems, TLAPS

\* A set of numbers that is not empty has a smallest element.
LEMMA Smallest ==
    ASSUME NEW T \in SUBSET Nat, T # {}
    PROVE  \E x \in T : \A y \in T : x <= y
<1>1. PICK x \in T : \A y \in T : <<y, x>> \notin OpToRel(<, Nat)
  BY NatLessThanWellFounded, WFMin, Zenon
<1>2. \A y \in T : ~ (y < x)
  BY <1>1 DEF OpToRel
<1> QED BY <1>2

\* f concatenates the first k sequences of s, for each k up to n.
Flattens(f, s, n) ==
    \A i \in 1 .. n : f[i] = IF i = 1 THEN s[i] ELSE f[i - 1] \o s[i]

\* One function only does that ...
LEMMA FlattensUnique ==
    ASSUME NEW s, NEW n \in Nat, NEW f, NEW g, Flattens(f, s, n), Flattens(g, s, n)
    PROVE  \A i \in 1 .. n : f[i] = g[i]
<1> DEFINE T == {i \in 1 .. n : f[i] # g[i]}
<1>1. SUFFICES ASSUME T # {} PROVE FALSE
  OBVIOUS
<1>a. T \in SUBSET Nat
  OBVIOUS
<1>2. PICK x \in T : \A y \in T : x <= y
  BY <1>1, <1>a, Smallest
<1>3. x = 1 \/ x - 1 \in 1 .. n
  BY <1>2
<1>4. x # 1 => f[x - 1] = g[x - 1]
  BY <1>2, <1>3
<1>5. /\ f[x] = IF x = 1 THEN s[x] ELSE f[x - 1] \o s[x]
      /\ g[x] = IF x = 1 THEN s[x] ELSE g[x - 1] \o s[x]
  BY <1>2 DEF Flattens
<1>6. f[x] = g[x]
  BY <1>4, <1>5, Zenon
<1> QED BY <1>2, <1>6

\* ... and there is one.
LEMMA FlattensExists ==
    ASSUME NEW S, NEW s \in Seq(Seq(S))
    PROVE  \A n \in 0 .. Len(s) : \E f \in [1 .. n -> Seq(S)] : Flattens(f, s, n)
<1> DEFINE Has(n) == \E f \in [1 .. n -> Seq(S)] : Flattens(f, s, n)
           T == {n \in 0 .. Len(s) : ~ Has(n)}
<1>1. SUFFICES ASSUME T # {} PROVE FALSE
  OBVIOUS
<1>2. T \in SUBSET Nat
  OBVIOUS
<1>3. PICK n \in T : \A y \in T : n <= y
  BY <1>1, <1>2, Smallest
<1>4. Has(0)
  <2>1. PICK f : f = [i \in 1 .. 0 |-> <<>>]
    OBVIOUS
  <2>2. 1 .. 0 = {}
    OBVIOUS
  <2>3. f \in [1 .. 0 -> Seq(S)] /\ Flattens(f, s, 0)
    BY <2>1, <2>2 DEF Flattens
  <2> QED BY <2>3
<1> HIDE DEF Has
<1>5. n \in 1 .. Len(s) /\ n - 1 \in 0 .. Len(s)
  BY <1>3, <1>4
<1>6. Has(n - 1)
  BY <1>3, <1>5
<1>7. PICK f \in [1 .. n - 1 -> Seq(S)] : Flattens(f, s, n - 1)
  BY <1>6 DEF Has
<1> DEFINE e == IF n = 1 THEN s[1] ELSE f[n - 1] \o s[n]
           g == [i \in 1 .. n |-> IF i = n THEN e ELSE f[i]]
<1>8. e \in Seq(S)
  <2>1. s[n] \in Seq(S)
    BY <1>5
  <2>2. CASE n = 1
    BY <2>1, <2>2
  <2>3. CASE n # 1
    <3>1. f[n - 1] \in Seq(S)
      BY <1>5, <1>7, <2>3
    <3> QED BY <2>1, <2>3, <3>1
  <2> QED BY <2>2, <2>3
<1>9. g \in [1 .. n -> Seq(S)]
  BY <1>5, <1>7, <1>8
<1>10. Flattens(g, s, n)
  <2>1. SUFFICES ASSUME NEW i \in 1 .. n PROVE g[i] = IF i = 1 THEN s[i] ELSE g[i - 1] \o s[i]
    BY DEF Flattens
  <2>2. i # 1 => i - 1 \in 1 .. n - 1 /\ g[i - 1] = f[i - 1]
    BY <1>5, <2>1
  <2>3. CASE i = n
    BY <2>1, <2>2, <2>3
  <2>4. CASE i # n
    <3>1. i \in 1 .. n - 1 /\ g[i] = f[i]
      BY <1>5, <2>1, <2>4
    <3>2. f[i] = IF i = 1 THEN s[i] ELSE f[i - 1] \o s[i]
      BY <1>7, <3>1 DEF Flattens
    <3> QED BY <2>2, <3>1, <3>2, Zenon
  <2> QED BY <2>3, <2>4
<1>11. Has(n)
  BY <1>9, <1>10 DEF Has
<1> QED BY <1>3, <1>11

\* FlattenSeq(s) is the last value of that function.
LEMMA FlattenIs ==
    ASSUME NEW S, NEW s \in Seq(Seq(S)), Len(s) # 0
    PROVE  \E f \in [1 .. Len(s) -> Seq(S)] :
              Flattens(f, s, Len(s)) /\ FlattenSeq(s) = f[Len(s)]
<1> DEFINE G(f) == f = [i \in 1 .. Len(s) |-> IF i = 1 THEN s[i] ELSE f[i - 1] \o s[i]]
<1>1. PICK h \in [1 .. Len(s) -> Seq(S)] : Flattens(h, s, Len(s))
  BY FlattensExists
<1>2. G(h)
  BY <1>1 DEF Flattens
<1> DEFINE f == CHOOSE f : G(f)
<1>3. G(f)
  BY <1>2
<1>4. Flattens(f, s, Len(s))
  BY <1>3 DEF Flattens
<1>5. \A i \in 1 .. Len(s) : f[i] = h[i]
  BY <1>1, <1>4, FlattensUnique
<1>6. Len(s) \in 1 .. Len(s)
  OBVIOUS
<1>7. FlattenSeq(s) = f[Len(s)]
  BY DEF FlattenSeq
<1> QED BY <1>1, <1>5, <1>6, <1>7

LEMMA FlattenTyped ==
    ASSUME NEW S, NEW s \in Seq(Seq(S))
    PROVE  FlattenSeq(s) \in Seq(S)
<1>1. CASE Len(s) = 0
  BY <1>1 DEF FlattenSeq
<1>2. CASE Len(s) # 0
  <2>1. PICK f \in [1 .. Len(s) -> Seq(S)] : FlattenSeq(s) = f[Len(s)]
    BY <1>2, FlattenIs
  <2>2. Len(s) \in 1 .. Len(s)
    BY <1>2
  <2> QED BY <2>1, <2>2
<1> QED BY <1>1, <1>2

\* One sequence more is concatenated at the end.
LEMMA FlattenAppend ==
    ASSUME NEW S, NEW s \in Seq(Seq(S)), NEW x \in Seq(S)
    PROVE  FlattenSeq(Append(s, x)) = FlattenSeq(s) \o x
<1> DEFINE t == Append(s, x)
           n == Len(s)
<1>1. t \in Seq(Seq(S)) /\ Len(t) = n + 1 /\ t[n + 1] = x /\ \A i \in 1 .. n : t[i] = s[i]
  OBVIOUS
<1> HIDE DEF t
<1>2. PICK f \in [1 .. n + 1 -> Seq(S)] : Flattens(f, t, n + 1) /\ FlattenSeq(t) = f[n + 1]
  BY <1>1, FlattenIs
<1>3. CASE n = 0
  <2>1. s = <<>> /\ FlattenSeq(s) = <<>>
    BY <1>3 DEF FlattenSeq
  <2>2. FlattenSeq(t) = x
    BY <1>1, <1>2, <1>3 DEF Flattens
  <2> QED BY <2>1, <2>2 DEF t
<1>4. CASE n # 0
  <2>1. PICK g \in [1 .. n -> Seq(S)] : Flattens(g, s, n) /\ FlattenSeq(s) = g[n]
    BY <1>4, FlattenIs
  <2>2. Flattens(f, s, n)
    <3>1. SUFFICES ASSUME NEW i \in 1 .. n
                   PROVE  f[i] = IF i = 1 THEN s[i] ELSE f[i - 1] \o s[i]
      BY DEF Flattens
    <3>2. i \in 1 .. n + 1
      OBVIOUS
    <3>3. f[i] = IF i = 1 THEN t[i] ELSE f[i - 1] \o t[i]
      BY <1>2, <3>2 DEF Flattens
    <3> QED BY <1>1, <3>3, Zenon
  <2>3. f[n] = g[n]
    BY <1>4, <2>1, <2>2, FlattensUnique
  <2>4. f[n + 1] = f[n] \o x
    <3>1. PICK m : m = n + 1
      OBVIOUS
    <3>2. m \in 1 .. n + 1 /\ m # 1 /\ m - 1 = n
      BY <1>4, <3>1
    <3>3. f[m] = IF m = 1 THEN t[m] ELSE f[m - 1] \o t[m]
      BY <1>2, <3>2, Zenon DEF Flattens
    <3> QED BY <1>1, <3>1, <3>2, <3>3
  <2> QED BY <1>2, <2>1, <2>3, <2>4 DEF t
<1> QED BY <1>3, <1>4

\* The first m elements of a sequence.
First(s, m) == [j \in 1 .. m |-> s[j]]

LEMMA FirstTyped ==
    ASSUME NEW S, NEW s \in Seq(S), NEW m \in 0 .. Len(s)
    PROVE  /\ First(s, m) \in Seq(S) /\ Len(First(s, m)) = m
           /\ \A i \in 1 .. m : First(s, m)[i] = s[i]
           /\ First(s, Len(s)) = s /\ First(s, 0) = <<>>
           /\ m < Len(s) => First(s, m + 1) = Append(First(s, m), s[m + 1])
BY SMTT(30) DEF First

\* What the first m sequences of s make together.
Upto(s, m) == FlattenSeq(First(s, m))

LEMMA UptoStep ==
    ASSUME NEW S, NEW s \in Seq(Seq(S)), NEW m \in 0 .. Len(s)
    PROVE  /\ Upto(s, m) \in Seq(S)
           /\ m < Len(s) => Upto(s, m + 1) = Upto(s, m) \o s[m + 1]
           /\ Upto(s, 0) = <<>> /\ Upto(s, Len(s)) = FlattenSeq(s)
<1>1. First(s, m) \in Seq(Seq(S))
  BY FirstTyped
<1>2. Upto(s, m) \in Seq(S)
  BY <1>1, FlattenTyped DEF Upto
<1>3. ASSUME m < Len(s) PROVE Upto(s, m + 1) = Upto(s, m) \o s[m + 1]
  <2>1. s[m + 1] \in Seq(S)
    BY <1>3
  <2>2. First(s, m + 1) = Append(First(s, m), s[m + 1])
    BY <1>3, FirstTyped
  <2> QED BY <1>1, <2>1, <2>2, FlattenAppend DEF Upto
<1>4. Upto(s, 0) = <<>>
  BY FirstTyped DEF Upto, FlattenSeq
<1>5. Upto(s, Len(s)) = FlattenSeq(s)
  BY FirstTyped DEF Upto
<1> QED BY <1>2, <1>3, <1>4, <1>5

\* What the first m sequences make is a prefix of what more of them make.
LEMMA UptoPrefix ==
    ASSUME NEW S, NEW s \in Seq(Seq(S)), NEW m \in 0 .. Len(s)
    PROVE  \A n \in m .. Len(s) :
              /\ Len(Upto(s, m)) <= Len(Upto(s, n))
              /\ \A i \in 1 .. Len(Upto(s, m)) : Upto(s, n)[i] = Upto(s, m)[i]
<1> DEFINE Has(n) == /\ Len(Upto(s, m)) <= Len(Upto(s, n))
                     /\ \A i \in 1 .. Len(Upto(s, m)) : Upto(s, n)[i] = Upto(s, m)[i]
           T == {n \in m .. Len(s) : ~ Has(n)}
<1>1. SUFFICES ASSUME T # {} PROVE FALSE
  OBVIOUS
<1>2. Has(m)
  BY UptoStep
<1> HIDE DEF Has
<1>3. T \in SUBSET Nat
  OBVIOUS
<1>4. PICK n \in T : \A y \in T : n <= y
  BY <1>1, <1>3, Smallest
<1>5. n # m
  BY <1>2, <1>4
<1>6. PICK k : k = n - 1
  OBVIOUS
<1>7. k \in m .. Len(s) /\ k < Len(s) /\ n = k + 1
  BY <1>4, <1>5, <1>6
<1>8. Has(k)
  BY <1>4, <1>7
<1>9. /\ Upto(s, m) \in Seq(S) /\ Upto(s, k) \in Seq(S) /\ s[k + 1] \in Seq(S)
      /\ Upto(s, n) = Upto(s, k) \o s[k + 1]
  BY <1>7, UptoStep
<1>10. /\ Len(Upto(s, n)) = Len(Upto(s, k)) + Len(s[k + 1])
       /\ \A i \in 1 .. Len(Upto(s, k)) : Upto(s, n)[i] = Upto(s, k)[i]
  BY <1>9
<1>11. Has(n)
  BY <1>8, <1>9, <1>10 DEF Has
<1> QED BY <1>4, <1>11

\* Sequence m of s is where it should be in what all of them make together.
LEMMA FlattenAt ==
    ASSUME NEW S, NEW s \in Seq(Seq(S)), NEW m \in 1 .. Len(s)
    PROVE  /\ Len(Upto(s, m)) = Len(Upto(s, m - 1)) + Len(s[m])
           /\ Len(Upto(s, m)) <= Len(FlattenSeq(s))
           /\ \A i \in 1 .. Len(s[m]) :
                 FlattenSeq(s)[Len(Upto(s, m - 1)) + i] = s[m][i]
<1>1. PICK k : k = m - 1
  OBVIOUS
<1>2. k \in 0 .. Len(s) /\ k < Len(s) /\ m = k + 1
  BY <1>1
<1>3. /\ Upto(s, k) \in Seq(S) /\ Upto(s, m) \in Seq(S) /\ s[m] \in Seq(S)
      /\ Upto(s, m) = Upto(s, k) \o s[m] /\ Upto(s, Len(s)) = FlattenSeq(s)
  BY <1>2, UptoStep
<1>4. /\ Len(Upto(s, m)) = Len(Upto(s, k)) + Len(s[m])
      /\ \A i \in 1 .. Len(s[m]) : Upto(s, m)[Len(Upto(s, k)) + i] = s[m][i]
  BY <1>3
<1>5. /\ Len(Upto(s, m)) <= Len(FlattenSeq(s))
      /\ \A i \in 1 .. Len(Upto(s, m)) : FlattenSeq(s)[i] = Upto(s, m)[i]
  <2>1. m \in 0 .. Len(s) /\ Len(s) \in m .. Len(s)
    OBVIOUS
  <2>2. /\ Len(Upto(s, m)) <= Len(Upto(s, Len(s)))
        /\ \A i \in 1 .. Len(Upto(s, m)) : Upto(s, Len(s))[i] = Upto(s, m)[i]
    BY <2>1, UptoPrefix, Zenon
  <2> QED BY <1>3, <2>2, Zenon
<1>6. ASSUME NEW i \in 1 .. Len(s[m])
      PROVE  FlattenSeq(s)[Len(Upto(s, k)) + i] = s[m][i]
  <2>1. PICK x : x = Len(Upto(s, k)) + i
    OBVIOUS
  <2>2. x \in 1 .. Len(Upto(s, m))
    BY <1>3, <1>4, <2>1
  <2>3. FlattenSeq(s)[x] = Upto(s, m)[x]
    BY <1>5, <2>2
  <2> QED BY <1>4, <2>1, <2>3
<1> QED BY <1>1, <1>4, <1>5, <1>6

-----------------------------------------------------------------------------
(* What the client sends.                                                  *)

Octet == 0 .. 255

LEMMA Bounds == MaxString \in Nat /\ MaxLength \in Nat
BY SMT DEF MaxString, MaxLength

\* A string in a packet: two bytes of length, then the text.
LEMMA StringOctets ==
    ASSUME NEW n \in Nat, n <= MaxString
    PROVE  /\ String(n) \in Seq(Octet) /\ Len(String(n)) = 2 + n
           /\ String(n)[1] = n \div 256 /\ String(n)[2] = n % 256
<1>1. Text(n) \in Seq(Octet) /\ Len(Text(n)) = n
  BY SMT DEF Text, TEXT, Octet, MaxString
<1>2. n \div 256 \in Octet /\ n % 256 \in Octet
  BY SMT DEF Octet, MaxString
<1>3. <<n \div 256, n % 256>> \in Seq(Octet)
  BY <1>2
<1> QED BY <1>1, <1>3, SMT DEF String

\* The length in bytes of what a packet has for each string.
LEMMA PieceOctets ==
    ASSUME NEW p \in Packets
    PROVE  /\ Pieces(p) \in Seq(Seq(Octet)) /\ Len(Pieces(p)) = Len(p.strs)
           /\ \A i \in 1 .. Len(p.strs) :
                 LET s == Pieces(p)[i] IN
                 /\ Len(s) = 2 + p.strs[i] + (IF p.kind = "SUBSCRIBE" THEN 1 ELSE 0)
                 /\ s[1] = p.strs[i] \div 256 /\ s[2] = p.strs[i] % 256
<1>1. p.strs \in Seq(0 .. MaxString)
  BY ConstantsOK DEF WellFormed
<1>2. ASSUME NEW i \in 1 .. Len(p.strs)
      PROVE  LET s == Pieces(p)[i] IN
             /\ s \in Seq(Octet)
             /\ Len(s) = 2 + p.strs[i] + (IF p.kind = "SUBSCRIBE" THEN 1 ELSE 0)
             /\ s[1] = p.strs[i] \div 256 /\ s[2] = p.strs[i] % 256
  <2>1. PICK n \in Nat : n = p.strs[i] /\ n <= MaxString
    BY <1>1, Bounds
  <2>2. PICK t : t = String(n)
    OBVIOUS
  <2>3. t \in Seq(Octet) /\ Len(t) = 2 + n /\ t[1] = n \div 256 /\ t[2] = n % 256
    BY <2>1, <2>2, StringOctets, ZenonT(30)
  <2>4. Pieces(p)[i] = IF p.kind = "SUBSCRIBE" THEN t \o <<0>> ELSE t
    BY <1>1, <2>1, <2>2 DEF Pieces
  <2>5. <<0>> \in Seq(Octet)
    BY DEF Octet
  <2>6. CASE p.kind = "SUBSCRIBE"
    BY <2>1, <2>3, <2>4, <2>5, <2>6, SMTT(30)
  <2>7. CASE p.kind # "SUBSCRIBE"
    BY <2>1, <2>3, <2>4, <2>7
  <2> QED BY <2>6, <2>7
<1>3. DOMAIN Pieces(p) = 1 .. Len(p.strs)
  BY <1>1 DEF Pieces
<1>4. Pieces(p) \in Seq(Seq(Octet)) /\ Len(Pieces(p)) = Len(p.strs)
  <2>1. PICK f : f = Pieces(p)
    OBVIOUS
  <2>2. f \in [1 .. Len(p.strs) -> Seq(Octet)] /\ Len(p.strs) \in Nat
    <3>1. \A i \in 1 .. Len(p.strs) : f[i] \in Seq(Octet)
      BY <1>2, <2>1
    <3>2. DOMAIN p.strs = 1 .. Len(p.strs) /\ Len(p.strs) \in Nat
      BY <1>1
    <3>3. f = [i \in 1 .. Len(p.strs) |-> f[i]]
      BY <2>1, <3>2, Zenon DEF Pieces
    <3> QED BY <3>1, <3>2, <3>3
  <2> QED BY <2>1, <2>2
<1> QED BY <1>2, <1>4

Flags(p) == Flag(p, "uname", 128) + Flag(p, "pwd", 64) + Flag(p, "will", 4)

\* The header of a CONNECT, byte for byte.
LEMMA ConnectHeader ==
    ASSUME NEW p \in Packets, p.kind = "CONNECT"
    PROVE  LET h == Header(p) IN
           /\ h \in Seq(Octet) /\ Len(h) = 12
           /\ h[1] = 0 /\ h[2] = 6 /\ h[9] = 3 /\ h[10] = Flags(p)
           /\ \A i \in 1 .. 6 : h[2 + i] = NAME[i]
<1>1. Flags(p) \in Octet
  BY DEF Flags, Flag, Octet
<1>2. Header(p) = <<0, 6>> \o NAME \o <<3, Flags(p)>> \o <<0, 30>>
  BY DEF Header, Flags
<1>3. PICK a, b : a = <<0, 6>> \o NAME /\ b = <<3, Flags(p)>> \o <<0, 30>>
  OBVIOUS
<1>4. /\ a \in Seq(Octet) /\ Len(a) = 8 /\ a[1] = 0 /\ a[2] = 6
      /\ \A i \in 1 .. 6 : a[2 + i] = NAME[i]
  BY <1>3 DEF NAME, Octet
<1>5. b \in Seq(Octet) /\ Len(b) = 4 /\ b[1] = 3 /\ b[2] = Flags(p)
  BY <1>1, <1>3 DEF Octet
<1>6. PICK h : h = a \o b
  OBVIOUS
<1>7. /\ h \in Seq(Octet) /\ Len(h) = 12
      /\ \A i \in 1 .. 8 : h[i] = a[i]
      /\ h[8 + 1] = b[1] /\ h[8 + 2] = b[2]
  <2>1. /\ h \in Seq(Octet) /\ Len(h) = Len(a) + Len(b)
        /\ \A i \in 1 .. Len(a) : h[i] = a[i]
        /\ \A i \in 1 .. Len(b) : h[Len(a) + i] = b[i]
    <3>1. a \in Seq(Octet) /\ b \in Seq(Octet)
      BY <1>4, <1>5
    <3> QED BY <1>6, <3>1
  <2> QED BY <1>4, <1>5, <2>1
<1>8. h = Header(p)
  BY <1>2, <1>3, <1>6 DEF NAME
<1> QED BY <1>4, <1>5, <1>7, <1>8

\* What comes before and after the strings of a packet.
LEMMA HeaderOctets ==
    ASSUME NEW p \in Packets
    PROVE  /\ Header(p) \in Seq(Octet) /\ Trailer(p) \in Seq(Octet)
           /\ p.kind = "PUBLISH" => /\ Header(p) = <<>>
                                    /\ Len(Trailer(p)) = Len(MsgId(p)) + p.content
                                    /\ \A i \in 1 .. p.content :
                                          Trailer(p)[Len(MsgId(p)) + i] = Content(p)[i]
           /\ p.kind = "SUBSCRIBE" => Header(p) = MsgId(p)
           /\ p.kind # "PUBLISH" => Trailer(p) = <<>>
           /\ p.kind \in {"PINGREQ", "DISCONNECT"} => Header(p) = <<>>
           /\ MsgId(p) \in Seq(Octet)
           /\ Len(MsgId(p)) = IF p.qos > 0 THEN 2 ELSE 0
<1>1. /\ MsgId(p) \in Seq(Octet) /\ ID \in Seq(Octet) /\ <<>> \in Seq(Octet)
      /\ Len(MsgId(p)) = IF p.qos > 0 THEN 2 ELSE 0
  <2>1. ID \in Seq(Octet) /\ <<>> \in Seq(Octet) /\ Len(ID) = 2 /\ Len(<<>>) = 0
    BY DEF ID, Octet
  <2>2. CASE p.qos > 0
    BY <2>1, <2>2 DEF MsgId
  <2>3. CASE ~ (p.qos > 0)
    BY <2>1, <2>3 DEF MsgId
  <2> QED BY <2>2, <2>3
<1>2. p.kind \in DOMAIN Code /\ p.content \in Nat
  BY ConstantsOK DEF WellFormed
<1>3. Content(p) \in Seq(Octet) /\ Len(Content(p)) = p.content
  <2>1. PICK n, q, c : n = p.content /\ q = p.plain /\ c = Content(p)
    OBVIOUS
  <2>2. c = [i \in 1 .. n |-> IF i <= q THEN TEXT ELSE 0]
    BY <2>1 DEF Content
  <2>3. TEXT \in Octet /\ 0 \in Octet
    BY DEF TEXT, Octet
  <2>4. c \in [1 .. n -> Octet]
    BY <2>2, <2>3
  <2>5. c \in Seq(Octet) /\ Len(c) = n
    BY <1>2, <2>1, <2>4
  <2> QED BY <2>1, <2>5
<1>4. /\ Trailer(p) \in Seq(Octet)
      /\ p.kind = "PUBLISH" => /\ Len(Trailer(p)) = Len(MsgId(p)) + p.content
                               /\ \A i \in 1 .. p.content :
                                     Trailer(p)[Len(MsgId(p)) + i] = Content(p)[i]
      /\ p.kind # "PUBLISH" => Trailer(p) = <<>>
  <2>1. PICK a, b : a = MsgId(p) /\ b = Content(p)
    OBVIOUS
  <2>2. /\ a \o b \in Seq(Octet) /\ Len(a \o b) = Len(a) + p.content
        /\ \A i \in 1 .. p.content : (a \o b)[Len(a) + i] = b[i]
    BY <1>1, <1>3, <2>1
  <2>3. CASE p.kind = "PUBLISH"
    BY <2>1, <2>2, <2>3 DEF Trailer
  <2>4. CASE p.kind # "PUBLISH"
    BY <1>1, <2>4 DEF Trailer
  <2> QED BY <2>3, <2>4
<1>5. /\ p.kind \in {"PUBLISH", "PINGREQ", "DISCONNECT"} => Header(p) = <<>>
      /\ p.kind \in {"SUBSCRIBE", "UNSUBSCRIBE"} => Header(p) = MsgId(p)
      /\ p.kind = "PUBACK" => Header(p) = ID
  BY DEF Header
<1>6. Header(p) \in Seq(Octet)
  BY <1>1, <1>2, <1>5, ConnectHeader DEF Code
<1> QED BY <1>1, <1>4, <1>5, <1>6

\* The length of a payload, and where its parts are.
LEMMA PayloadOctets ==
    ASSUME NEW p \in Packets
    PROVE  LET h == Header(p)
               f == FlattenSeq(Pieces(p))
               y == Payload(p)
           IN  /\ y \in Seq(Octet) /\ Len(y) <= MaxLength
               /\ f \in Seq(Octet)
               /\ Len(y) = Len(h) + Len(f) + Len(Trailer(p))
               /\ \A i \in 1 .. Len(h) : y[i] = h[i]
               /\ \A i \in 1 .. Len(f) : y[Len(h) + i] = f[i]
               /\ \A i \in 1 .. Len(Trailer(p)) :
                     y[Len(h) + Len(f) + i] = Trailer(p)[i]
<1>1. PICK h, f, t : h = Header(p) /\ f = FlattenSeq(Pieces(p)) /\ t = Trailer(p)
  OBVIOUS
<1>2. h \in Seq(Octet) /\ f \in Seq(Octet) /\ t \in Seq(Octet)
  BY <1>1, HeaderOctets, PieceOctets, FlattenTyped
<1>3. Payload(p) = h \o f \o t
  BY <1>1 DEF Payload
<1>4. PICK hf : hf = h \o f
  OBVIOUS
<1>5. /\ hf \in Seq(Octet) /\ Len(hf) = Len(h) + Len(f)
      /\ \A i \in 1 .. Len(h) : hf[i] = h[i]
      /\ \A i \in 1 .. Len(f) : hf[Len(h) + i] = f[i]
  BY <1>2, <1>4
<1>6. PICK y : y = hf \o t
  OBVIOUS
<1>7. /\ y \in Seq(Octet) /\ Len(y) = Len(hf) + Len(t)
      /\ \A i \in 1 .. Len(hf) : y[i] = hf[i]
      /\ \A i \in 1 .. Len(t) : y[Len(hf) + i] = t[i]
  <2>1. hf \in Seq(Octet) /\ t \in Seq(Octet)
    BY <1>2, <1>5
  <2> QED BY <1>6, <2>1
<1>8. y = Payload(p) /\ Len(y) <= MaxLength
  BY <1>3, <1>4, <1>6, ConstantsOK DEF WellFormed
<1>9. ASSUME NEW i \in 1 .. Len(f) PROVE y[Len(h) + i] = f[i]
  <2>1. PICK k : k = Len(h) + i
    OBVIOUS
  <2>2. k \in 1 .. Len(hf)
    BY <1>2, <1>5, <2>1
  <2> QED BY <1>5, <1>7, <2>1, <2>2
<1>10. \A i \in 1 .. Len(h) : y[i] = h[i]
  BY <1>2, <1>5, <1>7
<1> QED BY <1>1, <1>2, <1>5, <1>7, <1>8, <1>9, <1>10

\* The bytes of a length: each has seven bits of it, and all but the last say
\* that another one follows.
LEMMA LengthOctets ==
    ASSUME NEW n \in Nat, n <= MaxLength
    PROVE  LET b == Length(n) IN
           /\ b \in Seq(Octet) /\ Len(b) \in 1 .. 4
           /\ \A i \in 1 .. Len(b) :
                 /\ (b[i] >= 128) <=> i < Len(b)
                 /\ b[i] % 128 = (n \div Weight[i]) % 128
           /\ n < Weight[Len(b) + 1]
<1>0. /\ Weight[1] = 1 /\ Weight[2] = 128 /\ Weight[3] = 16384 /\ Weight[4] = 2097152
      /\ Weight[5] = 268435456
  BY SMT DEF Weight
<1>1. CASE n < 128
  BY <1>0, <1>1, SMT DEF Length, Octet
<1>2. CASE n >= 128 /\ n < 16384
  <2>1. PICK a, b : a = (n % 128) + 128 /\ b = n \div 128
    OBVIOUS
  <2>2. /\ a \in Octet /\ b \in Octet /\ a >= 128 /\ b < 128
        /\ a % 128 = (n \div 1) % 128 /\ b % 128 = (n \div 128) % 128
    BY <1>2, <2>1, SMT DEF Octet
  <2>3. Length(n) = <<a, b>>
    BY <1>2, <2>1, SMT DEF Length
  <2> QED BY <1>0, <1>2, <2>2, <2>3, SMT DEF Octet
<1>3. CASE n >= 16384 /\ n < 2097152
  <2>1. PICK a, b, c : /\ a = (n % 128) + 128 /\ b = ((n \div 128) % 128) + 128
                       /\ c = n \div 16384
    OBVIOUS
  <2>2. /\ a \in Octet /\ a >= 128 /\ a % 128 = (n \div 1) % 128
        /\ b \in Octet /\ b >= 128 /\ b % 128 = (n \div 128) % 128
        /\ c \in Octet /\ c < 128 /\ c % 128 = (n \div 16384) % 128
    BY <1>3, <2>1, SMT DEF Octet
  <2>3. Length(n) = <<a, b, c>>
    BY <1>3, <2>1, SMT DEF Length
  <2> QED BY <1>0, <1>3, <2>2, <2>3, SMT DEF Octet
<1>4. CASE n >= 2097152
  <2>1. PICK a, b, c, d : /\ a = (n % 128) + 128 /\ b = ((n \div 128) % 128) + 128
                          /\ c = ((n \div 16384) % 128) + 128 /\ d = n \div 2097152
    OBVIOUS
  <2>2. /\ a \in Octet /\ a >= 128 /\ a % 128 = (n \div 1) % 128
        /\ b \in Octet /\ b >= 128 /\ b % 128 = (n \div 128) % 128
        /\ c \in Octet /\ c >= 128 /\ c % 128 = (n \div 16384) % 128
    BY <2>1, SMT DEF Octet
  <2>3. n <= 268435455
    BY SMT DEF MaxLength
  <2>4. d \in Octet /\ d < 128 /\ d % 128 = (n \div 2097152) % 128
    BY <1>4, <2>1, <2>3, SMT DEF Octet
  <2>5. Length(n) = <<a, b, c, d>>
    BY <1>4, <2>1, SMT DEF Length
  <2> QED BY <1>0, <2>2, <2>3, <2>4, <2>5, SMT DEF Octet
<1> QED BY <1>1, <1>2, <1>3, <1>4, SMT

\* How many bytes a packet's length takes.
Lengths(p) == Len(Length(Len(Payload(p))))

\* A packet's bytes: command, length, payload.
LEMMA PacketOctets ==
    ASSUME NEW p \in Packets
    PROVE  LET e == Encoding[p]
               y == Payload(p)
               b == Length(Len(y))
           IN  /\ e \in Seq(Octet) /\ b \in Seq(Octet) /\ y \in Seq(Octet)
               /\ Lengths(p) \in 1 .. 4 /\ Len(b) = Lengths(p)
               /\ Len(e) = 1 + Lengths(p) + Len(y)
               /\ e[1] = Code[p.kind] + 2 * p.qos
               /\ \A i \in 1 .. Lengths(p) : e[1 + i] = b[i]
               /\ \A i \in 1 .. Len(y) : e[1 + Lengths(p) + i] = y[i]
<1>1. PICK y : y = Payload(p)
  OBVIOUS
<1>2. PICK b : b = Length(Len(y))
  OBVIOUS
<1>3. y \in Seq(Octet) /\ Len(y) \in Nat /\ Len(y) <= MaxLength
  BY <1>1, PayloadOctets
<1>4. b \in Seq(Octet) /\ Len(b) \in 1 .. 4
  BY <1>2, <1>3, LengthOctets
<1>5. PICK c : c = <<Code[p.kind] + 2 * p.qos>>
  OBVIOUS
<1>6. c \in Seq(Octet) /\ Len(c) = 1 /\ c[1] = Code[p.kind] + 2 * p.qos
  <2>1. p.kind \in DOMAIN Code /\ p.qos \in 0 .. 3
    BY ConstantsOK DEF WellFormed
  <2>2. Code[p.kind] \in 0 .. 240
    BY <2>1 DEF Code
  <2> QED BY <1>5, <2>1, <2>2 DEF Octet
<1>7. PICK cb : cb = c \o b
  OBVIOUS
<1>8. /\ cb \in Seq(Octet) /\ Len(cb) = 1 + Len(b) /\ cb[1] = c[1]
      /\ \A i \in 1 .. Len(b) : cb[1 + i] = b[i]
  <2>1. c \in Seq(Octet) /\ b \in Seq(Octet)
    BY <1>4, <1>6
  <2>2. /\ cb \in Seq(Octet) /\ Len(cb) = Len(c) + Len(b)
        /\ \A i \in 1 .. Len(c) : cb[i] = c[i]
        /\ \A i \in 1 .. Len(b) : cb[Len(c) + i] = b[i]
    BY <1>7, <2>1
  <2> QED BY <1>6, <2>2
<1>9. PICK e : e = cb \o y
  OBVIOUS
<1>10. /\ e \in Seq(Octet) /\ Len(e) = Len(cb) + Len(y)
       /\ \A i \in 1 .. Len(cb) : e[i] = cb[i]
       /\ \A i \in 1 .. Len(y) : e[Len(cb) + i] = y[i]
  <2>1. cb \in Seq(Octet) /\ y \in Seq(Octet)
    BY <1>3, <1>8
  <2> QED BY <1>9, <2>1
<1>11. e = Encoding[p] /\ Len(b) = Lengths(p)
  BY <1>1, <1>2, <1>5, <1>7, <1>9 DEF Encoding, Bytes, Lengths
<1>12. e[1] = c[1]
  BY <1>4, <1>8, <1>10
<1>13. ASSUME NEW i \in 1 .. Len(b) PROVE e[1 + i] = b[i]
  <2>1. PICK k : k = 1 + i
    OBVIOUS
  <2>2. k \in 1 .. Len(cb)
    BY <1>4, <1>8, <2>1
  <2> QED BY <1>8, <1>10, <2>1, <2>2
<1>14. \A i \in 1 .. Len(y) : e[1 + Len(b) + i] = y[i]
  BY <1>4, <1>8, <1>10
<1>15. /\ e \in Seq(Octet) /\ b \in Seq(Octet) /\ y \in Seq(Octet)
       /\ Len(b) \in 1 .. 4 /\ Len(e) = 1 + Len(b) + Len(y)
       /\ e[1] = Code[p.kind] + 2 * p.qos
  BY <1>3, <1>4, <1>6, <1>8, <1>10, <1>12
<1> QED BY <1>1, <1>2, <1>11, <1>13, <1>14, <1>15

-----------------------------------------------------------------------------
(* The stream of a sequence of packets.                                    *)

Encodings(s) == [i \in DOMAIN s |-> Encoding[s[i]]]

Bytestream(s) == FlattenSeq(Encodings(s))

StartIn(s, i) == Len(FlattenSeq([j \in 1 .. (i - 1) |-> Encoding[s[j]]]))

\* The bytes of each packet sent, and where it starts among them.
LEMMA EncodingsTyped ==
    ASSUME NEW s \in Seq(Packets)
    PROVE  /\ Encodings(s) \in Seq(Seq(Octet)) /\ Len(Encodings(s)) = Len(s)
           /\ \A i \in 1 .. Len(s) : Encodings(s)[i] = Encoding[s[i]]
           /\ \A i \in 1 .. Len(s) + 1 : StartIn(s, i) = Len(Upto(Encodings(s), i - 1))
<1>1. PICK f : f = Encodings(s)
  OBVIOUS
<1>2. DOMAIN s = 1 .. Len(s) /\ Len(s) \in Nat
  OBVIOUS
<1>3. \A i \in 1 .. Len(s) : s[i] \in Packets
  OBVIOUS
<1>4. \A i \in 1 .. Len(s) : f[i] = Encoding[s[i]]
  BY <1>1, <1>2 DEF Encodings
<1>5. \A i \in 1 .. Len(s) : f[i] \in Seq(Octet)
  BY <1>3, <1>4, PacketOctets
<1>6. f = [i \in 1 .. Len(s) |-> f[i]]
  BY <1>1, <1>2, Zenon DEF Encodings
<1>7. f \in Seq(Seq(Octet)) /\ Len(f) = Len(s)
  BY <1>2, <1>5, <1>6
<1>8. ASSUME NEW i \in 1 .. Len(s) + 1 PROVE StartIn(s, i) = Len(Upto(f, i - 1))
  <2>1. \A j \in 1 .. (i - 1) : f[j] = Encoding[s[j]]
    BY <1>2, <1>4
  <2>2. [j \in 1 .. (i - 1) |-> Encoding[s[j]]] = First(f, i - 1)
    BY <2>1 DEF First
  <2> QED BY <2>2 DEF StartIn, Upto
<1> QED BY <1>1, <1>4, <1>7, <1>8

\* Packets start where the ones before them end, and their bytes are there.
LEMMA StreamOctets ==
    ASSUME NEW s \in Seq(Packets)
    PROVE  /\ Bytestream(s) \in Seq(Octet)
           /\ StartIn(s, 1) = 0 /\ StartIn(s, Len(s) + 1) = Len(Bytestream(s))
           /\ \A i \in 1 .. Len(s) + 1 : StartIn(s, i) \in Nat
           /\ \A k \in 1 .. Len(s) :
                 /\ StartIn(s, k + 1) = StartIn(s, k) + Len(Encoding[s[k]])
                 /\ StartIn(s, k + 1) <= Len(Bytestream(s))
                 /\ \A i \in 1 .. Len(Encoding[s[k]]) :
                       Bytestream(s)[StartIn(s, k) + i] = Encoding[s[k]][i]
<1>1. PICK f : f = Encodings(s)
  OBVIOUS
<1>2. /\ f \in Seq(Seq(Octet)) /\ Len(f) = Len(s)
      /\ \A i \in 1 .. Len(s) : f[i] = Encoding[s[i]]
      /\ \A i \in 1 .. Len(s) + 1 : StartIn(s, i) = Len(Upto(f, i - 1))
  BY <1>1, EncodingsTyped
<1>3. Bytestream(s) = FlattenSeq(f)
  BY <1>1 DEF Bytestream
<1>4. Bytestream(s) \in Seq(Octet)
  BY <1>2, <1>3, FlattenTyped
<1>5. Len(s) \in Nat
  OBVIOUS
<1>6. StartIn(s, 1) = 0
  <2>1. StartIn(s, 1) = Len(Upto(f, 1 - 1))
    BY <1>2, <1>5
  <2>2. Upto(f, 0) = <<>>
    BY <1>2, <1>5, UptoStep
  <2> QED BY <2>1, <2>2
<1>7. StartIn(s, Len(s) + 1) = Len(Bytestream(s))
  <2>1. PICK m : m = Len(s) + 1
    OBVIOUS
  <2>2. m \in 1 .. Len(s) + 1 /\ m - 1 = Len(s)
    BY <1>5, <2>1
  <2>3. StartIn(s, m) = Len(Upto(f, Len(s)))
    BY <1>2, <2>2
  <2>4. Upto(f, Len(f)) = FlattenSeq(f)
    BY <1>2, <1>5, UptoStep
  <2> QED BY <1>2, <1>3, <2>1, <2>3, <2>4
<1>8. ASSUME NEW i \in 1 .. Len(s) + 1 PROVE StartIn(s, i) \in Nat
  <2>1. PICK m : m = i - 1
    OBVIOUS
  <2>2. m \in 0 .. Len(f)
    BY <1>2, <1>5, <2>1
  <2>3. Upto(f, m) \in Seq(Octet)
    BY <1>2, <2>2, UptoStep
  <2>4. StartIn(s, i) = Len(Upto(f, m))
    BY <1>2, <2>1
  <2> QED BY <2>3, <2>4
<1>9. ASSUME NEW k \in 1 .. Len(s)
      PROVE  /\ StartIn(s, k + 1) = StartIn(s, k) + Len(Encoding[s[k]])
             /\ StartIn(s, k + 1) <= Len(Bytestream(s))
             /\ \A i \in 1 .. Len(Encoding[s[k]]) :
                   Bytestream(s)[StartIn(s, k) + i] = Encoding[s[k]][i]
  <2>1. PICK m : m = k + 1
    OBVIOUS
  <2>2. m \in 1 .. Len(s) + 1 /\ m - 1 = k /\ k \in 1 .. Len(s) + 1 /\ k \in 1 .. Len(f)
    BY <1>2, <1>5, <2>1
  <2>3. StartIn(s, m) = Len(Upto(f, k)) /\ StartIn(s, k) = Len(Upto(f, k - 1))
    BY <1>2, <2>2
  <2>4. f[k] = Encoding[s[k]]
    BY <1>2
  <2>5. /\ Len(Upto(f, k)) = Len(Upto(f, k - 1)) + Len(f[k])
        /\ Len(Upto(f, k)) <= Len(FlattenSeq(f))
        /\ \A i \in 1 .. Len(f[k]) : FlattenSeq(f)[Len(Upto(f, k - 1)) + i] = f[k][i]
    <3>1. f \in Seq(Seq(Octet)) /\ k \in 1 .. Len(f)
      BY <1>2, <2>2
    <3> QED BY <3>1, FlattenAt
  <2> QED BY <1>3, <2>1, <2>3, <2>4, <2>5
<1> QED BY <1>4, <1>6, <1>7, <1>8, <1>9

\* A packet has at least two bytes, and those after it start later.
LEMMA StartsGrow ==
    ASSUME NEW s \in Seq(Packets), NEW k \in 1 .. Len(s), NEW l \in 1 .. Len(s) + 1, k < l
    PROVE  StartIn(s, k) + 2 <= StartIn(s, k + 1) /\ StartIn(s, k + 1) <= StartIn(s, l)
<1>1. PICK f : f = Encodings(s)
  OBVIOUS
<1>2. /\ f \in Seq(Seq(Octet)) /\ Len(f) = Len(s)
      /\ \A i \in 1 .. Len(s) + 1 : StartIn(s, i) = Len(Upto(f, i - 1))
  BY <1>1, EncodingsTyped
<1>3. PICK m, n : m = k + 1 /\ n = l - 1
  OBVIOUS
<1>4. /\ Len(s) \in Nat /\ m \in 1 .. Len(s) + 1 /\ m - 1 = k
      /\ k \in 0 .. Len(f) /\ n \in k .. Len(f)
  BY <1>2, <1>3
<1>5. Len(Upto(f, k)) <= Len(Upto(f, n))
  BY <1>2, <1>4, UptoPrefix
<1>6. StartIn(s, m) = Len(Upto(f, k)) /\ StartIn(s, l) = Len(Upto(f, n))
  BY <1>2, <1>3, <1>4
<1>7. s[k] \in Packets /\ StartIn(s, k) \in Nat
  BY <1>4, StreamOctets
<1>8. Len(Encoding[s[k]]) \in Nat /\ Len(Encoding[s[k]]) >= 2
  <2>1. PICK p \in Packets : p = s[k]
    BY <1>7
  <2>2. /\ Payload(p) \in Seq(Octet) /\ Lengths(p) \in 1 .. 4
        /\ Len(Encoding[p]) = 1 + Lengths(p) + Len(Payload(p))
    BY PacketOctets
  <2> QED BY <2>1, <2>2
<1>9. StartIn(s, m) = StartIn(s, k) + Len(Encoding[s[k]])
  BY <1>3, StreamOctets
<1> QED BY <1>3, <1>5, <1>6, <1>7, <1>8, <1>9

\* A packet more is a packet at the end.
LEMMA StreamGrows ==
    ASSUME NEW s \in Seq(Packets), NEW p \in Packets, NEW t, t = Append(s, p)
    PROVE  /\ t \in Seq(Packets) /\ Len(t) = Len(s) + 1 /\ t[Len(s) + 1] = p
           /\ \A i \in 1 .. Len(s) : t[i] = s[i]
           /\ \A i \in 1 .. Len(s) + 1 : StartIn(t, i) = StartIn(s, i)
           /\ Len(Bytestream(s)) <= Len(Bytestream(t))
           /\ \A i \in 1 .. Len(Bytestream(s)) : Bytestream(t)[i] = Bytestream(s)[i]
<1>1. /\ t \in Seq(Packets) /\ Len(t) = Len(s) + 1 /\ t[Len(s) + 1] = p
      /\ \A i \in 1 .. Len(s) : t[i] = s[i]
      /\ Len(s) \in Nat /\ DOMAIN t = 1 .. Len(s) + 1 /\ DOMAIN s = 1 .. Len(s)
  OBVIOUS
<1>2. PICK f, g, e : f = Encodings(s) /\ g = Encodings(t) /\ e = Encoding[p]
  OBVIOUS
<1>3. /\ f \in Seq(Seq(Octet)) /\ Len(f) = Len(s)
      /\ \A i \in 1 .. Len(s) : f[i] = Encoding[s[i]]
  BY <1>2, EncodingsTyped
<1>4. /\ g \in Seq(Seq(Octet)) /\ Len(g) = Len(s) + 1
      /\ \A i \in 1 .. Len(s) + 1 : g[i] = Encoding[t[i]]
  BY <1>1, <1>2, EncodingsTyped
<1>5. e \in Seq(Octet)
  BY <1>2, PacketOctets
<1>6. g = Append(f, e)
  <2>1. PICK h : h = Append(f, e)
    OBVIOUS
  <2>2. /\ h \in Seq(Seq(Octet)) /\ Len(h) = Len(s) + 1 /\ h[Len(s) + 1] = e
        /\ \A i \in 1 .. Len(s) : h[i] = f[i]
    BY <1>3, <1>5, <2>1
  <2>3. \A i \in 1 .. Len(s) + 1 : h[i] = g[i]
    <3>1. h[Len(s) + 1] = g[Len(s) + 1]
      BY <1>1, <1>2, <1>4, <2>2
    <3>2. \A i \in 1 .. Len(s) : h[i] = g[i]
      <4>1. SUFFICES ASSUME NEW i \in 1 .. Len(s) PROVE h[i] = g[i]
        OBVIOUS
      <4>2. i \in 1 .. Len(s) + 1
        BY <1>1
      <4>3. h[i] = Encoding[s[i]] /\ g[i] = Encoding[t[i]] /\ t[i] = s[i]
        BY <1>1, <1>3, <1>4, <2>2, <4>2
      <4> QED BY <4>3
    <3> QED BY <1>1, <3>1, <3>2
  <2> QED BY <1>4, <2>1, <2>2, <2>3
<1>7. Bytestream(t) = Bytestream(s) \o e
  BY <1>2, <1>3, <1>5, <1>6, FlattenAppend DEF Bytestream
<1>8. Bytestream(s) \in Seq(Octet)
  BY StreamOctets
<1>9. /\ Len(Bytestream(s)) <= Len(Bytestream(t))
      /\ \A i \in 1 .. Len(Bytestream(s)) : Bytestream(t)[i] = Bytestream(s)[i]
  BY <1>5, <1>7, <1>8
<1>10. ASSUME NEW i \in 1 .. Len(s) + 1 PROVE StartIn(t, i) = StartIn(s, i)
  <2>1. \A j \in 1 .. (i - 1) : t[j] = s[j]
    BY <1>1
  <2>2. [j \in 1 .. (i - 1) |-> Encoding[t[j]]] = [j \in 1 .. (i - 1) |-> Encoding[s[j]]]
    BY <2>1
  <2> QED BY <2>2 DEF StartIn
<1> QED BY <1>1, <1>9, <1>10

-----------------------------------------------------------------------------
(* Types.                                                                  *)

Labels == {"name", "version", "flags", "timer", "id", "str", "msgid", "content", "topics"}

\* With what bounds the cursor: nothing is read of a payload before all of it
\* has been received.
TypeInv ==
    /\ sent \in Seq(Packets) /\ Len(sent) <= MaxPackets
    /\ read \in Nat /\ arrived \in Nat /\ begun \in Nat /\ base \in Nat
    /\ read <= arrived /\ arrived <= Len(Stream)
    /\ pc \in {"command", "length", "payload", "fields", "shut", "crash"}
    /\ command \in Octet
    /\ length \in Nat /\ digits \in 0 .. 5
    /\ base <= read
    /\ pos \in 0 .. length
    /\ todo \in Seq(Labels)
    /\ got \in Seq(Nat \X Nat)
    /\ \A i \in DOMAIN got : got[i][1] + got[i][2] <= length
    /\ known \in BOOLEAN /\ listed \in 0 .. 2 /\ cut \in BOOLEAN
    /\ pc = "length" => digits <= 4
    /\ pc \in {"length", "payload"} => pos = 0 /\ got = <<>> /\ out = None
    /\ pc = "payload" => read <= base + length
    /\ pc = "fields" => read = base + length

LEMMA MinOfTwo ==
    ASSUME NEW a \in Nat, NEW b \in Nat
    PROVE  /\ Min({a, b}) \in {a, b} /\ Min({a, b}) <= a /\ Min({a, b}) <= b
           /\ Min({a, b}) \in Nat
<1>1. \E x \in {a, b} : \A y \in {a, b} : x <= y
  BY a <= b \/ b <= a
<1> QED BY <1>1 DEF Min

\* The initial state.
LEMMA InitType == Init => TypeInv
<1> SUFFICES ASSUME Init PROVE TypeInv
  OBVIOUS
<1>1. sent \in Seq(Packets) /\ Len(sent) = 0 /\ MaxPackets \in Nat
  BY ConstantsOK DEF Init
<1>2. Bytestream(sent) \in Seq(Octet)
  BY <1>1, StreamOctets
<1>3. Len(Stream) \in Nat
  BY <1>2 DEF Stream, Bytestream, Encodings
<1>4. command \in Octet /\ digits \in 0 .. 5 /\ pos \in 0 .. length
  BY DEF Init, Octet
<1>5. todo \in Seq(Labels) /\ got \in Seq(Nat \X Nat) /\ DOMAIN got = {}
  BY DEF Init
<1>6. got = <<>> /\ pc = "command" /\ read = 0 /\ arrived = 0 /\ begun = 0 /\ base = 0
      /\ length = 0 /\ known = FALSE /\ listed = 0 /\ cut = FALSE
  BY DEF Init
<1>7. Len(sent) <= MaxPackets /\ 0 <= Len(Stream)
  BY <1>1, <1>3
<1>8. /\ read \in Nat /\ arrived \in Nat /\ begun \in Nat /\ base \in Nat
      /\ read <= arrived /\ arrived <= Len(Stream) /\ length \in Nat /\ base <= read
  BY <1>6, <1>7
<1>9. \A i \in DOMAIN got : got[i][1] + got[i][2] <= length
  BY <1>5
<1>10. /\ known \in BOOLEAN /\ listed \in 0 .. 2 /\ cut \in BOOLEAN
       /\ pc \in {"command", "length", "payload", "fields", "shut", "crash"}
       /\ pc \notin {"length", "payload", "fields"}
  <2>1. known \in BOOLEAN /\ cut \in BOOLEAN
    BY DEF Init
  <2>2. listed = 0 /\ pc = "command"
    BY DEF Init
  <2>3. listed \in 0 .. 2
    BY <2>2
  <2> QED BY <2>1, <2>2, <2>3
<1> QED BY <1>1, <1>4, <1>5, <1>7, <1>8, <1>9, <1>10 DEF TypeInv

\* What has arrived are bytes, and so is the payload that has been received.
LEMMA BytesTyped ==
    ASSUME TypeInv
    PROVE  /\ Stream \in Seq(Octet)
           /\ \A i \in 1 .. arrived : Stream[i] \in Octet
           /\ pc = "fields" => \A i \in Nat : i < length => Byte(i) \in Octet
<1>1. Stream \in Seq(Octet)
  BY StreamOctets DEF TypeInv, Stream, Bytestream, Encodings
<1>2. \A i \in 1 .. arrived : Stream[i] \in Octet
  BY <1>1 DEF TypeInv
<1>3. ASSUME pc = "fields", NEW i \in Nat, i < length PROVE Byte(i) \in Octet
  <2>1. base + i + 1 \in 1 .. arrived
    BY <1>3 DEF TypeInv
  <2> QED BY <1>2, <2>1 DEF Byte
<1> QED BY <1>1, <1>2, <1>3

\* A string that fits has a length.
LEMMA StrLenTyped ==
    ASSUME TypeInv, pc = "fields", Fits(2)
    PROVE  StrLen(pos) \in Nat
<1>1. pos \in Nat /\ pos < length /\ pos + 1 \in Nat /\ pos + 1 < length
  BY DEF TypeInv, Fits
<1>2. Byte(pos) \in Octet /\ Byte(pos + 1) \in Octet
  BY <1>1, BytesTyped
<1>3. PICK a, b : a = Byte(pos) /\ b = Byte(pos + 1)
  OBVIOUS
<1>4. a \in Nat /\ b \in Nat
  BY <1>2, <1>3 DEF Octet
<1>5. StrLen(pos) = a * 16 + b
  BY <1>3 DEF StrLen
<1> QED BY <1>4, <1>5

\* The client and TCP.
LEMMA ClientType ==
    ASSUME TypeInv, Client PROVE TypeInv'
<1>1. ASSUME NEW p \in Packets, Send(p) PROVE TypeInv'
  <2>1. sent \in Seq(Packets) /\ sent' = Append(sent, p) /\ MaxPackets \in Nat
    BY <1>1, ConstantsOK DEF TypeInv, Send
  <2>2. sent' \in Seq(Packets) /\ Len(sent') <= MaxPackets
    BY <1>1, <2>1 DEF Send, TypeInv
  <2>3. Len(Stream) <= Len(Stream') /\ Len(Stream) \in Nat /\ Len(Stream') \in Nat
    <3>1. PICK t : t = sent'
      OBVIOUS
    <3>2. Len(Bytestream(sent)) <= Len(Bytestream(t))
      BY <2>1, <3>1, StreamGrows
    <3>3. Bytestream(sent) \in Seq(Octet) /\ Bytestream(t) \in Seq(Octet)
      BY <2>1, <2>2, <3>1, StreamOctets
    <3>4. Stream = Bytestream(sent) /\ Stream' = Bytestream(t)
      BY <3>1 DEF Stream, Bytestream, Encodings
    <3> QED BY <3>2, <3>3, <3>4
  <2> QED BY <1>1, <2>2, <2>3 DEF Send, TypeInv, field_vars
<1>2. ASSUME NEW end, Arrive(end), end \in Nat PROVE TypeInv'
  <2>1. Stream' = Stream
    BY <1>2 DEF Arrive, Stream
  <2> QED BY <1>2, <2>1 DEF Arrive, TypeInv, field_vars
<1>3. ASSUME NEW i \in DOMAIN sent, NEW k \in Cuts PROVE Start(i) + k \in Nat
  <2>1. sent \in Seq(Packets) /\ Cuts \subseteq Nat
    BY ConstantsOK DEF TypeInv
  <2>2. i \in 1 .. Len(sent) + 1
    BY <2>1
  <2>3. StartIn(sent, i) \in Nat
    BY <2>1, <2>2, StreamOctets
  <2> QED BY <2>1, <2>3 DEF Start, StartIn
<1>4. Len(Stream) \in Nat
  BY BytesTyped
<1> QED BY <1>1, <1>2, <1>3, <1>4 DEF Client

\* The command byte and the bytes of the remaining length.
LEMMA HeadType ==
    ASSUME TypeInv, ReadCommand \/ ReadDigit \/ NoDigit PROVE TypeInv'
<1>0. Stream' = Stream
  BY DEF ReadCommand, ReadDigit, NoDigit, Stream, stream_vars
<1>1. CASE ReadCommand
  <2>1. read + 1 \in 1 .. arrived /\ command' = Stream[read + 1]
    BY <1>1 DEF ReadCommand, TypeInv
  <2>2. command' \in Octet
    BY <2>1, BytesTyped
  <2>3. pc' \in {"shut", "length", "command"}
    BY <1>1 DEF ReadCommand
  <2>4. cut' \in BOOLEAN
    BY <1>1 DEF ReadCommand
  <2> QED BY <1>0, <1>1, <2>1, <2>2, <2>3, <2>4 DEF ReadCommand, TypeInv, stream_vars
<1>2. CASE ReadDigit
  <2>1. PICK d : d = Stream[read + 1]
    OBVIOUS
  <2>2. read + 1 \in 1 .. arrived
    BY <1>2 DEF ReadDigit, TypeInv
  <2>3. d \in Octet
    BY <2>1, <2>2, BytesTyped
  <2>4. digits \in 0 .. 4
    BY <1>2 DEF ReadDigit, TypeInv
  <2>5. Weight[digits + 1] \in Nat
    BY <2>4, SMT DEF Weight
  <2>6. Digit(d) \in Nat
    BY <2>3, <2>5, SMT DEF Digit, Octet
  <2>7. /\ pc' \in {"length", "command", "shut", "crash", "payload"}
        /\ pc' = "length" => digits' <= 4
    BY <1>2, <2>1, <2>4 DEF ReadDigit, More, AfterLength, Renewed
  <2> QED BY <1>0, <1>2, <2>1, <2>2, <2>4, <2>6, <2>7 DEF ReadDigit, TypeInv, stream_vars
<1>3. CASE NoDigit
  BY <1>0, <1>3 DEF NoDigit, TypeInv, stream_vars, field_vars
<1> QED BY <1>1, <1>2, <1>3

\* recv of the payload.
LEMMA PayloadType ==
    ASSUME TypeInv, Recv \/ RecvEnds PROVE TypeInv'
<1>0. Stream' = Stream
  BY DEF Recv, RecvEnds, Stream, stream_vars
<1>1. CASE Recv
  <2>1. arrived \in Nat /\ base + length \in Nat
    BY DEF TypeInv
  <2>2. PICK m : m = Min({arrived, base + length})
    OBVIOUS
  <2>3. m \in {arrived, base + length} /\ m <= arrived /\ m <= base + length
    BY <2>1, <2>2, MinOfTwo
  <2> QED BY <1>0, <1>1, <2>2, <2>3 DEF Recv, TypeInv, stream_vars, field_vars
<1>2. CASE RecvEnds
  <2>1. Fields \in Seq(Labels)
    <3>1. PICK i : i = IF qosflag > 0 THEN <<"msgid">> ELSE <<>>
      OBVIOUS
    <3>a. <<"msgid">> \in Seq(Labels) /\ <<>> \in Seq(Labels)
      BY DEF Labels
    <3>b. /\ <<"str">> \in Seq(Labels) /\ <<"content">> \in Seq(Labels)
          /\ <<"topics">> \in Seq(Labels)
      BY DEF Labels
    <3>2. /\ i \in Seq(Labels) /\ <<"str">> \in Seq(Labels) /\ <<"content">> \in Seq(Labels)
          /\ <<"topics">> \in Seq(Labels) /\ <<>> \in Seq(Labels)
      BY <3>1, <3>a, <3>b
    <3>3. CASE Is("CONNECT")
      <4>1. <<"name", "version", "flags", "timer", "id">> \in Seq(Labels)
        BY DEF Labels
      <4>2. ~ Is("PUBLISH")
        BY <3>3 DEF Is, Code
      <4> QED BY <3>3, <4>1, <4>2 DEF Fields
    <3>4. CASE ~ Is("CONNECT") /\ Is("PUBLISH")
      BY <3>1, <3>2, <3>4 DEF Fields
    <3>5. CASE ~ Is("CONNECT") /\ ~ Is("PUBLISH") /\ qosflag = 1
      BY <3>1, <3>2, <3>5 DEF Fields
    <3>6. CASE ~ Is("CONNECT") /\ ~ Is("PUBLISH") /\ qosflag # 1
      BY <3>2, <3>6 DEF Fields
    <3> QED BY <3>3, <3>4, <3>5, <3>6
  <2> QED BY <1>0, <1>2, <2>1 DEF RecvEnds, TypeInv, stream_vars
<1> QED BY <1>1, <1>2

LEMMA FailType ==
    ASSUME TypeInv, NEW f, At(f), Fail PROVE TypeInv'
<1>0. Stream' = Stream
  BY DEF Fail, Stream, stream_vars
<1> QED BY <1>0 DEF Fail, At, TypeInv, stream_vars, field_vars

\* A field of n bytes that are all there.
LEMMA GoodType ==
    ASSUME TypeInv, NEW f, At(f), NEW n \in Nat, NEW more \in Seq(Labels),
           Fits(n), Good(n, more), listed' \in 0 .. 2,
           got' \in Seq(Nat \X Nat), \A i \in DOMAIN got' : got'[i][1] + got'[i][2] <= length
    PROVE  TypeInv'
<1>0. Stream' = Stream
  BY DEF Good, Stream, stream_vars
<1>1. todo \in Seq(Labels) /\ todo # <<>>
  BY DEF TypeInv, At
<1>2. Tail(todo) \in Seq(Labels)
  BY <1>1
<1>3. todo' \in Seq(Labels)
  BY <1>2 DEF Good
<1> QED BY <1>0, <1>3 DEF Good, Fits, At, TypeInv, stream_vars

\* A string that is read lies in the payload.
LEMMA GotType ==
    ASSUME TypeInv, NEW n \in Nat, pos + 2 + n <= length, got' = Append(got, <<pos + 2, n>>)
    PROVE  /\ got' \in Seq(Nat \X Nat)
           /\ \A i \in DOMAIN got' : got'[i][1] + got'[i][2] <= length
<1>1. PICK g : g = Append(got, <<pos + 2, n>>)
  OBVIOUS
<1>2. <<pos + 2, n>> \in Nat \X Nat /\ got \in Seq(Nat \X Nat)
  BY DEF TypeInv
<1>3. /\ g \in Seq(Nat \X Nat) /\ Len(g) = Len(got) + 1 /\ g[Len(got) + 1] = <<pos + 2, n>>
      /\ \A i \in 1 .. Len(got) : g[i] = got[i]
  BY <1>1, <1>2
<1>4. \A i \in 1 .. Len(got) : got[i][1] + got[i][2] <= length
  BY <1>2, SMTT(30) DEF TypeInv
<1>5. ASSUME NEW i \in 1 .. Len(g) PROVE g[i][1] + g[i][2] <= length
  <2>1. CASE i = Len(got) + 1
    BY <1>3, <2>1 DEF TypeInv
  <2>2. CASE i # Len(got) + 1
    <3>1. i \in 1 .. Len(got)
      BY <1>2, <1>3, <2>2
    <3> QED BY <1>3, <1>4, <3>1
  <2> QED BY <2>1, <2>2
<1>6. DOMAIN g = 1 .. Len(g)
  BY <1>3
<1> QED BY <1>1, <1>3, <1>5, <1>6

\* The fields.
LEMMA FieldType ==
    ASSUME TypeInv, Field PROVE TypeInv'
<1>1. /\ got \in Seq(Nat \X Nat) /\ \A i \in DOMAIN got : got[i][1] + got[i][2] <= length
      /\ listed \in 0 .. 2
  BY DEF TypeInv
<1>2. <<>> \in Seq(Labels)
  OBVIOUS
<1>3. ASSUME NEW f, NEW n \in Nat, ReadBytes(f, n) PROVE TypeInv'
  BY <1>1, <1>2, <1>3, FailType, GoodType DEF ReadBytes
<1>4. CASE ReadVersion
  BY <1>1, <1>2, <1>4, FailType, GoodType DEF ReadVersion
<1>5. CASE ReadName
  <2>1. CASE Fail
    BY <1>5, <2>1, FailType DEF ReadName
  <2>2. CASE ~ Fail
    <3>1. /\ StrFits /\ Good(2 + StrLen(pos), <<>>) /\ got' = got /\ At("name")
          /\ listed' = listed
      BY <1>5, <2>2 DEF ReadName
    <3>2. StrLen(pos) \in Nat /\ Fits(2 + StrLen(pos))
      BY <3>1, StrLenTyped DEF StrFits, At
    <3>3. 2 + StrLen(pos) \in Nat
      BY <3>2
    <3> QED BY <1>1, <1>2, <3>1, <3>2, <3>3, GoodType
  <2> QED BY <2>1, <2>2
<1>6. CASE ReadFlags
  <2>1. StringsOf(Byte(pos)) \in Seq(Labels)
    <3>1. PICK b : b = Byte(pos)
      OBVIOUS
    <3>2. /\ <<>> \in Seq(Labels) /\ <<"str", "str">> \in Seq(Labels) /\ <<"str">> \in Seq(Labels)
      BY DEF Labels
    <3> QED BY <3>1, <3>2 DEF StringsOf
  <2> QED BY <1>1, <1>6, <2>1, FailType, GoodType DEF ReadFlags
<1>7. ASSUME NEW f, At(f), StrFits, Good(2 + StrLen(pos), <<>>), listed' = listed,
             got' = Append(got, <<pos + 2, StrLen(pos)>>)
      PROVE  TypeInv'
  <2>1. StrLen(pos) \in Nat /\ Fits(2 + StrLen(pos))
    BY <1>7, StrLenTyped DEF StrFits, At
  <2>2. 2 + StrLen(pos) \in Nat /\ pos + 2 + StrLen(pos) <= length
    BY <2>1, SMTT(30) DEF Fits, TypeInv
  <2>3. /\ got' \in Seq(Nat \X Nat)
        /\ \A i \in DOMAIN got' : got'[i][1] + got'[i][2] <= length
    BY <1>7, <2>1, <2>2, GotType
  <2> QED BY <1>1, <1>2, <1>7, <2>1, <2>2, <2>3, GoodType
<1>8. CASE ReadStr \/ ReadId
  BY <1>7, <1>8, FailType DEF ReadStr, ReadId
<1>9. CASE ReadContent \/ Subscribed \/ Connected
  <2>1. Stream' = Stream
    BY <1>9 DEF ReadContent, Subscribed, Connected, Stream, stream_vars
  <2>2. CASE ReadContent
    <3>1. CASE HasContent /\ ContentLen > 0 /\ got[1][2] > 0
      <4>1. /\ pc' \in {"command", "crash"} /\ pos' = length /\ todo' = <<>>
            /\ UNCHANGED <<stream_vars, read, command, length, digits, base, got, known,
                           listed, begun, cut>>
        BY <2>2, <3>1 DEF ReadContent, Renewed
      <4>2. <<>> \in Seq(Labels)
        OBVIOUS
      <4> QED BY <2>1, <4>1, <4>2 DEF TypeInv, stream_vars
    <3>2. CASE ~ (HasContent /\ ContentLen > 0 /\ got[1][2] > 0)
      BY <2>1, <2>2, <3>2 DEF ReadContent, TypeInv, stream_vars
    <3> QED BY <3>1, <3>2
  <2>3. CASE Subscribed
    BY <2>1, <2>3 DEF Subscribed, At, TypeInv, stream_vars
  <2>4. CASE Connected
    BY <2>1, <2>4 DEF Connected, TypeInv, stream_vars, field_vars
  <2> QED BY <1>9, <2>2, <2>3, <2>4
<1>10. CASE ReadTopic
  <2>1. Stream' = Stream
    BY <1>10 DEF ReadTopic, Stream, stream_vars
  <2>2. PICK n : n = Min({StrLen(pos), length - pos - 2})
    OBVIOUS
  <2>3. CASE /\ Fits(2) /\ got' = Append(got, <<pos + 2, n>>)
             /\ pos' = PastTopic /\ UNCHANGED pc
    <3>1. StrLen(pos) \in Nat /\ length - pos - 2 \in Nat
      BY <1>10, <2>3, StrLenTyped DEF ReadTopic, At, Fits, TypeInv
    <3>2. n \in Nat /\ n <= length - pos - 2
      BY <2>2, <3>1, MinOfTwo
    <3>3. pos + 2 + n <= length
      BY <3>2 DEF TypeInv
    <3>4. /\ got' \in Seq(Nat \X Nat)
          /\ \A i \in DOMAIN got' : got'[i][1] + got'[i][2] <= length
      BY <2>3, <3>2, <3>3, GotType
    <3>5. PICK e : e = pos + 2 + StrLen(pos) + 1
      OBVIOUS
    <3>6. e \in Nat /\ length \in Nat
      BY <3>1, <3>5, SMTT(30) DEF TypeInv
    <3>7. PastTopic \in 0 .. length
      BY <3>5, <3>6, MinOfTwo DEF PastTopic
    <3> QED BY <1>10, <2>1, <2>3, <3>4, <3>7 DEF ReadTopic, At, TypeInv, stream_vars
  <2>4. CASE pc' = "crash" /\ UNCHANGED <<got, pos>>
    BY <1>10, <2>1, <2>4 DEF ReadTopic, At, TypeInv, stream_vars
  <2>5. CASE pc' \in {"crash", "fields"} /\ pos' = length /\ UNCHANGED got
    BY <1>10, <2>1, <2>5 DEF ReadTopic, At, TypeInv, stream_vars
  <2>6. CASE pos' = length /\ UNCHANGED <<pc, got>>
    BY <1>10, <2>1, <2>6 DEF ReadTopic, At, TypeInv, stream_vars
  <2> QED BY <1>10, <2>2, <2>3, <2>4, <2>5, <2>6 DEF ReadTopic
<1>11. CASE ReadTimer
  <2>1. CASE Fail
    BY <1>11, <2>1, FailType DEF ReadTimer
  <2>2. CASE ~ Fail
    <3>1. /\ At("timer") /\ Fits(2) /\ Good(2, <<>>) /\ got' = got
          /\ listed' = Min({2, listed + 1})
      BY <1>11, <2>2 DEF ReadTimer
    <3>2. 2 \in Nat /\ listed + 1 \in Nat
      BY <1>1
    <3>3. listed' \in Nat /\ listed' <= 2
      BY <3>1, <3>2, MinOfTwo
    <3>4. listed' \in 0 .. 2
      BY <3>3
    <3> QED BY <1>1, <1>2, <3>1, <3>2, <3>4, GoodType
  <2> QED BY <2>1, <2>2
<1> QED BY <1>3, <1>4, <1>5, <1>6, <1>8, <1>9, <1>10, <1>11 DEF Field, ReadMsgId

LEMMA StepType == TypeInv /\ [Next]_vars => TypeInv'
<1> SUFFICES ASSUME TypeInv, [Next]_vars PROVE TypeInv'
  OBVIOUS
<1>1. CASE UNCHANGED vars
  <2>1. Stream' = Stream
    BY <1>1 DEF vars, Stream
  <2> QED BY <1>1, <2>1 DEF vars, TypeInv
<1>2. CASE Next
  BY <1>2, ClientType, HeadType, PayloadType, FieldType DEF Next, Handler
<1> QED BY <1>1, <1>2

\* For packets of any number and size, in any cuts, and whatever the bytes:
\* neither the cursor nor a string goes past the remaining length.
THEOREM TypeCorrect == Spec => []TypeOK
<1>1. TypeInv => TypeOK
  BY DEF TypeInv, TypeOK, Octet, Labels
<1> QED BY <1>1, InitType, StepType, PTL DEF Spec

-----------------------------------------------------------------------------
(* Where the handler is in what the client sends.                          *)

\* m strings to come.
Strs(m) == [i \in 1 .. m |-> "str"]

\* Where the cursor is after the first m strings of packet p.
After(p, m) == Len(Header(p)) + Len(Upto(Pieces(p), m))

\* What comes after the topic of a PUBLISH p.
Rest(p) == IF p.qos > 0 THEN <<"msgid", "content">> ELSE <<"content">>

\* Which fields of packet p are still to be read when m of its strings have
\* been, and where the cursor is.
AtConnect(p, m) ==
    \/ m = 0 /\
        \/ todo = <<"name", "version", "flags", "timer", "id">> /\ pos = 0
        \/ todo = <<"version", "flags", "timer", "id">> /\ pos = 8
        \/ todo = <<"flags", "timer", "id">> /\ pos = 9
        \/ todo = Cons("timer", Cons("id", Strs(Len(p.strs) - 1))) /\ pos = 10
        \/ todo = Cons("id", Strs(Len(p.strs) - 1)) /\ pos = 12
    \/ m > 0 /\ todo = Strs(Len(p.strs) - m) /\ pos = After(p, m)

AtPublish(p, m) ==
    \/ m = 0 /\ todo = Cons("str", Rest(p)) /\ pos = 0
    \/ m = 1 /\ todo = Rest(p) /\ pos = After(p, 1)
    \/ m = 1 /\ todo = <<"content">> /\ pos = After(p, 1) + Len(MsgId(p))

AtSubscribe(p, m) ==
    \/ m = 0 /\ p.qos = 1 /\ todo = <<"msgid", "topics">> /\ pos = 0
    \/ todo = <<"topics">> /\ pos = After(p, m)

AtField(p, m) ==
    \/ p.kind = "CONNECT" /\ AtConnect(p, m)
    \/ p.kind = "PUBLISH" /\ AtPublish(p, m)
    \/ p.kind = "SUBSCRIBE" /\ AtSubscribe(p, m)

Short(p)   == \A i \in DOMAIN p.strs : p.strs[i] < 256
HasFields(p) == p.kind \in {"CONNECT", "PUBLISH", "SUBSCRIBE"}

\* m of the strings of packet p have been read: all of them when the handler has
\* done with it.  What has been sent is the packet.
ReadStrings(p, m) ==
    /\ got = First(Strings(p), m)
    /\ pc = "fields" => AtField(p, m)
    /\ pc = "command" => m = IF HasFields(p) THEN Len(p.strs) ELSE 0

FieldsOK(p) ==
    /\ \E m \in 0 .. Len(p.strs) : ReadStrings(p, m)
    /\ out # None => out = Forward(p.strs[1], p.plain)

\* No content is to be read.
NoContent == \A i \in DOMAIN todo : todo[i] # "content"

\* Whether its timer has been listed never, once or more often: for each CONNECT
\* in S.
Tally(S) ==
    /\ listed = 0 <=> S = {}
    /\ listed = 1 <=> \E j \in S : S = {j}

\* The CONNECTs of which the keep-alive has been read, in packet p, the k-th.
Timed(k, p) ==
    IF p.kind = "CONNECT" /\ pos >= 12 THEN Connects(k + 1) ELSE Connects(k)

Counted(k, p) ==
    /\ Tally(Timed(k, p))
    /\ pc = "command" /\ p.kind = "CONNECT" => pos >= 12

\* The handler is in packet p, the k-th, and where.
InPacket(k, p) ==
    /\ p = sent[k] /\ begun = Start(k) /\ command = Code[p.kind] + 2 * p.qos
    /\ read > begun
    /\ pc = "command" => read = Start(k + 1)
    /\ pc = "length" => /\ digits < Lengths(p) /\ read = begun + 1 + digits
                        /\ length = Len(Payload(p)) % Weight[digits + 1]
    /\ pc \in {"payload", "fields"} =>
          base = begun + 1 + Lengths(p) /\ length = Len(Payload(p)) /\ HasFields(p)
    /\ pc \in {"length", "payload"} /\ ~ cut => arrived >= Start(k + 1)
    /\ p.kind # "PUBLISH" => out = None /\ (pc = "fields" => NoContent)
    /\ Short(p) => FieldsOK(p)
    /\ ~ Long => Counted(k, p)

NothingRead ==
    /\ pc = "command" /\ command = 0 /\ read = 0 /\ begun = 0 /\ got = <<>> /\ out = None
    /\ listed = 0

\* Without a PUBACK the handler is in a packet that was sent, or before the first.
StepInv ==
    /\ ~ Acks => NothingRead \/ \E k \in DOMAIN sent, p \in Packets : InPacket(k, p)
    /\ StopsOnlyOn

-----------------------------------------------------------------------------
(* What follows from where the handler is.                                 *)

\* Short sequences.
LEMMA ConcatTwo ==
    ASSUME NEW S, NEW x \in S, NEW y \in S, NEW z \in S
    PROVE  <<x>> \o <<y>> = <<x, y>> /\ <<x>> \o <<y, z>> = <<x, y, z>>
<1>1. PICK t : t = <<x>> \o <<y>>
  OBVIOUS
<1>2. PICK u : u = <<x>> \o <<y, z>>
  OBVIOUS
<1>3. <<x>> \in Seq(S) /\ <<y>> \in Seq(S) /\ <<y, z>> \in Seq(S)
  OBVIOUS
<1>4. t \in Seq(S) /\ Len(t) = 2 /\ t[1] = x /\ t[2] = y
  BY <1>1, <1>3
<1>5. t = <<x, y>>
  BY <1>4
<1>6. u \in Seq(S) /\ Len(u) = 3 /\ u[1] = x /\ u[2] = y /\ u[3] = z
  BY <1>2, <1>3
<1>7. u = <<x, y, z>>
  BY <1>6
<1> QED BY <1>1, <1>2, <1>5, <1>7

LEMMA ConsFacts ==
    ASSUME NEW S, NEW x \in S, NEW s \in Seq(S)
    PROVE  /\ Cons(x, s) \in Seq(S) /\ Cons(x, s) # <<>>
           /\ Head(Cons(x, s)) = x /\ Tail(Cons(x, s)) = s
<1>1. <<x>> \in Seq(S)
  OBVIOUS
<1>2. PICK t : t = <<x>> \o s
  OBVIOUS
<1>3. t \in Seq(S) /\ Len(t) = Len(s) + 1 /\ t[1] = x /\ \A i \in 1 .. Len(s) : t[i + 1] = s[i]
  BY <1>1, <1>2
<1>4. Tail(t) \in Seq(S) /\ Len(Tail(t)) = Len(s) /\ \A i \in 1 .. Len(s) : Tail(t)[i] = s[i]
  BY <1>3
<1>5. Tail(t) = s
  BY <1>4
<1> QED BY <1>2, <1>3, <1>5 DEF Cons

LEMMA StrsFacts ==
    ASSUME NEW m \in Nat
    PROVE  /\ Strs(m) \in Seq(Labels) /\ Len(Strs(m)) = m
           /\ m = 0 => Strs(m) = <<>>
           /\ m > 0 => /\ Strs(m) # <<>> /\ Head(Strs(m)) = "str"
                       /\ Tail(Strs(m)) = Strs(m - 1)
<1>1. PICK s : s = Strs(m)
  OBVIOUS
<1>2. s \in Seq(Labels) /\ Len(s) = m /\ \A i \in 1 .. m : s[i] = "str"
  BY <1>1 DEF Strs, Labels
<1>3. m = 0 => s = <<>>
  BY <1>2
<1>4. ASSUME m > 0 PROVE s # <<>> /\ Head(s) = "str" /\ Tail(s) = Strs(m - 1)
  <2>1. PICK t : t = Tail(s)
    OBVIOUS
  <2>2. s # <<>> /\ Head(s) = "str"
    BY <1>2, <1>4
  <2>3. t \in Seq(Labels) /\ Len(t) = m - 1 /\ \A i \in 1 .. m - 1 : t[i] = s[i + 1]
    BY <1>2, <1>4, <2>1
  <2>4. \A i \in 1 .. m - 1 : t[i] = "str"
    BY <1>2, <1>4, <2>3
  <2>5. t = [i \in 1 .. m - 1 |-> "str"]
    BY <2>3, <2>4
  <2> QED BY <2>1, <2>2, <2>5 DEF Strs
<1> QED BY <1>1, <1>2, <1>3, <1>4

LEMMA RestFacts ==
    ASSUME NEW p
    PROVE  /\ Rest(p) \in Seq(Labels) /\ Rest(p) # <<>>
           /\ p.qos > 0 => Head(Rest(p)) = "msgid" /\ Tail(Rest(p)) = <<"content">>
           /\ ~ (p.qos > 0) => Rest(p) = <<"content">>
<1>1. <<"msgid", "content">> \in Seq(Labels) /\ <<"content">> \in Seq(Labels)
  BY DEF Labels
<1>2. CASE p.qos > 0
  BY <1>1, <1>2 DEF Rest
<1>3. CASE ~ (p.qos > 0)
  BY <1>1, <1>3 DEF Rest
<1> QED BY <1>2, <1>3

\* Where packet k, one that has been sent, begins and ends in the stream, and
\* what its bytes are.
LEMMA Sent ==
    ASSUME TypeInv
    PROVE  /\ Start(1) = 0 /\ Start(Len(sent) + 1) = Len(Stream)
           /\ \A i \in 1 .. Len(sent) + 1 : Start(i) \in Nat
           /\ DOMAIN sent = 1 .. Len(sent)
           /\ \A k \in DOMAIN sent :
                 /\ sent[k] \in Packets
                 /\ Start(k + 1) = Start(k) + 1 + Lengths(sent[k]) + Len(Payload(sent[k]))
                 /\ Start(k + 1) <= Len(Stream)
                 /\ \A i \in 1 .. 1 + Lengths(sent[k]) + Len(Payload(sent[k])) :
                       Stream[Start(k) + i] = Encoding[sent[k]][i]
<1>1. PICK s : s = sent
  OBVIOUS
<1>2. s \in Seq(Packets) /\ DOMAIN s = 1 .. Len(s)
  BY <1>1 DEF TypeInv
<1>3. Stream = Bytestream(s) /\ \A i : Start(i) = StartIn(s, i)
  BY <1>1 DEF Stream, Bytestream, Encodings, Start, StartIn
<1>4. \A k \in 1 .. Len(s) :
         s[k] \in Packets /\ Len(Encoding[s[k]]) = 1 + Lengths(s[k]) + Len(Payload(s[k]))
  BY <1>2, PacketOctets
<1>5. /\ StartIn(s, 1) = 0 /\ StartIn(s, Len(s) + 1) = Len(Bytestream(s))
      /\ \A i \in 1 .. Len(s) + 1 : StartIn(s, i) \in Nat
      /\ \A k \in 1 .. Len(s) :
            /\ StartIn(s, k + 1) = StartIn(s, k) + Len(Encoding[s[k]])
            /\ StartIn(s, k + 1) <= Len(Bytestream(s))
            /\ \A i \in 1 .. Len(Encoding[s[k]]) :
                  Bytestream(s)[StartIn(s, k) + i] = Encoding[s[k]][i]
  BY <1>2, StreamOctets
<1>6. ASSUME NEW k \in 1 .. Len(s)
      PROVE  StartIn(s, k + 1) = StartIn(s, k) + 1 + Lengths(s[k]) + Len(Payload(s[k]))
  <2>1. /\ Lengths(s[k]) \in Nat /\ Len(Payload(s[k])) \in Nat
        /\ Len(Encoding[s[k]]) = 1 + Lengths(s[k]) + Len(Payload(s[k]))
        /\ StartIn(s, k) \in Nat
    BY <1>4, <1>5, PacketOctets
  <2>2. StartIn(s, k + 1) = StartIn(s, k) + Len(Encoding[s[k]])
    BY <1>5
  <2> QED BY <2>1, <2>2
<1> QED BY <1>1, <1>2, <1>3, <1>4, <1>5, <1>6

\* No two packets begin at the same place.
LEMMA OneStart ==
    ASSUME TypeInv, NEW k \in DOMAIN sent, NEW i \in 1 .. Len(sent) + 1, Start(i) = Start(k)
    PROVE  i = k
<1>1. PICK s : s = sent
  OBVIOUS
<1>2. s \in Seq(Packets) /\ k \in 1 .. Len(s) /\ i \in 1 .. Len(s) + 1 /\ Len(s) \in Nat
  BY <1>1 DEF TypeInv
<1>3. \A j \in 1 .. Len(s) + 1 : Start(j) = StartIn(s, j) /\ StartIn(s, j) \in Nat
  BY <1>1, <1>2, StreamOctets DEF Start, StartIn
<1>4. CASE k < i
  <2>1. StartIn(s, k) + 2 <= StartIn(s, k + 1) /\ StartIn(s, k + 1) <= StartIn(s, i)
    BY <1>2, <1>4, StartsGrow
  <2>2. k + 1 \in 1 .. Len(s) + 1
    BY <1>2
  <2> QED BY <1>2, <1>3, <2>1, <2>2
<1>5. CASE i < k
  <2>1. i \in 1 .. Len(s) /\ k \in 1 .. Len(s) + 1
    BY <1>2, <1>5
  <2>2. StartIn(s, i) + 2 <= StartIn(s, i + 1) /\ StartIn(s, i + 1) <= StartIn(s, k)
    BY <1>2, <1>5, <2>1, StartsGrow
  <2>3. i + 1 \in 1 .. Len(s) + 1
    BY <1>2, <1>5
  <2> QED BY <1>2, <1>3, <2>1, <2>2, <2>3
<1> QED BY <1>2, <1>4, <1>5

\* The handler's payload is the packet's.
LEMMA ByteAt ==
    ASSUME TypeInv, NEW k \in DOMAIN sent, NEW p \in Packets, InPacket(k, p), pc = "fields"
    PROVE  /\ length = Len(Payload(p)) /\ Payload(p) \in Seq(Octet)
           /\ \A i \in Nat : i < length => Byte(i) = Payload(p)[i + 1]
           /\ read = Start(k + 1)
<1>1. /\ p = sent[k] /\ base = begun + 1 + Lengths(p) /\ length = Len(Payload(p))
      /\ begun = Start(k)
  BY DEF InPacket
<1>2. /\ Lengths(p) \in Nat /\ Len(Payload(p)) \in Nat /\ Payload(p) \in Seq(Octet)
      /\ \A i \in 1 .. Len(Payload(p)) : Encoding[p][1 + Lengths(p) + i] = Payload(p)[i]
  BY PacketOctets
<1>3. /\ Start(k) \in Nat /\ Start(k + 1) = Start(k) + 1 + Lengths(p) + Len(Payload(p))
      /\ \A i \in 1 .. 1 + Lengths(p) + Len(Payload(p)) : Stream[Start(k) + i] = Encoding[p][i]
  BY <1>1, Sent
<1>4. ASSUME NEW i \in Nat, i < length PROVE Byte(i) = Payload(p)[i + 1]
  <2>1. PICK j : j = 1 + Lengths(p) + (i + 1)
    OBVIOUS
  <2>2. j \in 1 .. 1 + Lengths(p) + Len(Payload(p)) /\ base + i + 1 = Start(k) + j
    BY <1>1, <1>2, <1>3, <1>4, <2>1, SMTT(30)
  <2>3. Encoding[p][j] = Payload(p)[i + 1]
    <3>1. i + 1 \in 1 .. Len(Payload(p))
      BY <1>1, <1>2, <1>4
    <3> QED BY <1>2, <2>1, <3>1
  <2>4. Stream[Start(k) + j] = Encoding[p][j]
    BY <1>3, <2>2
  <2> QED BY <2>2, <2>3, <2>4 DEF Byte
<1>5. read = Start(k + 1)
  BY <1>1, <1>2, <1>3 DEF TypeInv
<1> QED BY <1>1, <1>2, <1>4, <1>5

\* The m+1-th string of a packet, after m others.
LEMMA StringAt ==
    ASSUME NEW p \in Packets, NEW m \in 0 .. Len(p.strs)
    PROVE  LET y == Payload(p)
               a == After(p, m)
           IN  /\ a \in Nat /\ y \in Seq(Octet)
               /\ After(p, 0) = Len(Header(p))
               /\ m = Len(p.strs) => Len(y) = a + Len(Trailer(p))
               /\ m < Len(p.strs) =>
                     /\ p.strs[m + 1] \in Nat /\ p.strs[m + 1] <= MaxString
                     /\ After(p, m + 1) =
                           a + 2 + p.strs[m + 1] + (IF p.kind = "SUBSCRIBE" THEN 1 ELSE 0)
                     /\ After(p, m + 1) <= Len(y)
                     /\ y[a + 1] = p.strs[m + 1] \div 256
                     /\ y[a + 2] = p.strs[m + 1] % 256
                     /\ First(Strings(p), m + 1) =
                           Append(First(Strings(p), m), <<a + 2, p.strs[m + 1]>>)
<1>a. \A i \in 1 .. Len(p.strs) :
         /\ Len(Pieces(p)[i]) = 2 + p.strs[i] + (IF p.kind = "SUBSCRIBE" THEN 1 ELSE 0)
         /\ Pieces(p)[i][1] = p.strs[i] \div 256 /\ Pieces(p)[i][2] = p.strs[i] % 256
  BY PieceOctets
<1>b. Pieces(p) \in Seq(Seq(Octet)) /\ Len(Pieces(p)) = Len(p.strs)
  BY PieceOctets
<1>1. PICK s : s = Pieces(p)
  OBVIOUS
<1>2. PICK h, f, y : h = Header(p) /\ f = FlattenSeq(s) /\ y = Payload(p)
  OBVIOUS
<1>3. /\ s \in Seq(Seq(Octet)) /\ Len(s) = Len(p.strs)
      /\ \A i \in 1 .. Len(p.strs) :
            /\ Len(s[i]) = 2 + p.strs[i] + (IF p.kind = "SUBSCRIBE" THEN 1 ELSE 0)
            /\ s[i][1] = p.strs[i] \div 256 /\ s[i][2] = p.strs[i] % 256
  BY <1>1, <1>a, <1>b, ZenonT(40)
<1>4. /\ y \in Seq(Octet) /\ f \in Seq(Octet) /\ Len(y) = Len(h) + Len(f) + Len(Trailer(p))
      /\ \A i \in 1 .. Len(f) : y[Len(h) + i] = f[i]
  BY <1>1, <1>2, PayloadOctets
<1>5. Len(h) \in Nat /\ Len(Trailer(p)) \in Nat
  BY <1>2, HeaderOctets
<1>6. Len(p.strs) \in Nat /\ p.strs \in Seq(0 .. MaxString)
  BY ConstantsOK DEF WellFormed
<1>7. /\ m \in 0 .. Len(s) /\ 0 \in 0 .. Len(s)
      /\ Upto(s, m) \in Seq(Octet) /\ Upto(s, 0) = <<>> /\ Upto(s, Len(s)) = f
  BY <1>2, <1>3, <1>6, UptoStep
<1>8. /\ After(p, m) = Len(h) + Len(Upto(s, m)) /\ After(p, 0) = Len(h)
      /\ After(p, Len(s)) = Len(h) + Len(f)
  BY <1>1, <1>2, <1>5, <1>7 DEF After
<1>9. ASSUME m < Len(p.strs)
      PROVE  /\ p.strs[m + 1] \in Nat /\ p.strs[m + 1] <= MaxString
             /\ After(p, m + 1) =
                   After(p, m) + 2 + p.strs[m + 1] + (IF p.kind = "SUBSCRIBE" THEN 1 ELSE 0)
             /\ After(p, m + 1) <= Len(y)
             /\ y[After(p, m) + 1] = p.strs[m + 1] \div 256
             /\ y[After(p, m) + 2] = p.strs[m + 1] % 256
             /\ First(Strings(p), m + 1) =
                   Append(First(Strings(p), m), <<After(p, m) + 2, p.strs[m + 1]>>)
  <2>1. PICK l : l = m + 1
    OBVIOUS
  <2>2. l \in 1 .. Len(s) /\ l - 1 = m /\ l \in 1 .. Len(p.strs)
    BY <1>3, <1>6, <1>9, <2>1
  <2>3. p.strs[l] \in Nat /\ p.strs[l] <= MaxString
    BY <1>6, <2>2, Bounds
  <2>a. /\ Len(Upto(s, l)) = Len(Upto(s, l - 1)) + Len(s[l])
        /\ Len(Upto(s, l)) <= Len(FlattenSeq(s))
        /\ \A i \in 1 .. Len(s[l]) : FlattenSeq(s)[Len(Upto(s, l - 1)) + i] = s[l][i]
    <3>1. s \in Seq(Seq(Octet)) /\ l \in 1 .. Len(s)
      BY <1>3, <2>2
    <3> QED BY <3>1, FlattenAt
  <2>4. /\ Len(Upto(s, l)) = Len(Upto(s, m)) + Len(s[l])
        /\ Len(Upto(s, l)) <= Len(f)
        /\ \A i \in 1 .. Len(s[l]) : f[Len(Upto(s, m)) + i] = s[l][i]
    BY <1>2, <2>2, <2>a
  <2>5. /\ Len(s[l]) = 2 + p.strs[l] + (IF p.kind = "SUBSCRIBE" THEN 1 ELSE 0)
        /\ s[l][1] = p.strs[l] \div 256 /\ s[l][2] = p.strs[l] % 256
    BY <1>3, <2>2
  <2>b. PICK c : c = IF p.kind = "SUBSCRIBE" THEN 1 ELSE 0
    OBVIOUS
  <2>c. c \in Nat /\ Len(s[l]) = 2 + p.strs[l] + c
    BY <2>5, <2>b
  <2>16. Len(s[l]) >= 2 /\ Len(s[l]) \in Nat
    BY <2>3, <2>c, SMTT(30)
  <2>6. After(p, l) = Len(h) + Len(Upto(s, l))
    BY <1>1, <1>2 DEF After
  <2>7. PICK u : u = Len(Upto(s, m))
    OBVIOUS
  <2>8. u \in Nat /\ Len(f) \in Nat /\ Len(s[l]) \in Nat
    <3>1. Upto(s, m) \in Seq(Octet) /\ f \in Seq(Octet) /\ s[l] \in Seq(Octet)
      BY <1>3, <1>4, <1>7, <2>2
    <3> QED BY <2>7, <3>1
  <2>9. u + 2 <= Len(f) /\ f[u + 1] = s[l][1] /\ f[u + 2] = s[l][2]
    <3>1. 1 \in 1 .. Len(s[l]) /\ 2 \in 1 .. Len(s[l])
      BY <2>8, <2>16
    <3>2. PICK v : v = Len(Upto(s, l))
      OBVIOUS
    <3>3. v = u + Len(s[l]) /\ v <= Len(f)
      BY <2>4, <2>7, <3>2
    <3> QED BY <2>4, <2>7, <2>8, <3>1, <3>3
  <2>10. y[Len(h) + (u + 1)] = f[u + 1] /\ y[Len(h) + (u + 2)] = f[u + 2]
    BY <1>4, <2>8, <2>9
  <2>11. /\ After(p, m) + 1 = Len(h) + (u + 1) /\ After(p, m) + 2 = Len(h) + (u + 2)
    BY <1>5, <1>8, <2>7, <2>8
  <2>12. After(p, l) = After(p, m) + Len(s[l]) /\ After(p, l) <= Len(y)
    <3>1. PICK v : v = Len(Upto(s, l))
      OBVIOUS
    <3>2. v = u + Len(s[l]) /\ v <= Len(f)
      BY <2>4, <2>7, <3>1
    <3>3. After(p, l) = Len(h) + v /\ After(p, m) = Len(h) + u
      BY <1>8, <2>6, <2>7, <3>1
    <3>4. Len(y) = Len(h) + Len(f) + Len(Trailer(p))
      BY <1>4
    <3>5. PICK a, b, d, e : a = Len(h) /\ b = Len(f) /\ d = Len(s[l]) /\ e = Len(Trailer(p))
      OBVIOUS
    <3>6. a \in Nat /\ b \in Nat /\ d \in Nat /\ e \in Nat /\ v \in Nat
      BY <1>5, <2>8, <3>2, <3>5
    <3>7. v = u + d /\ v <= b /\ Len(y) = a + b + e /\ After(p, l) = a + v /\ After(p, m) = a + u
      BY <3>2, <3>3, <3>4, <3>5
    <3>8. After(p, l) = After(p, m) + d /\ After(p, l) <= Len(y)
      BY <2>8, <3>6, <3>7
    <3> QED BY <3>5, <3>8
  <2>13. First(Strings(p), l) = Append(First(Strings(p), m), <<After(p, m) + 2, p.strs[l]>>)
    <3>1. PICK g : g = Strings(p)
      OBVIOUS
    <3>2. DOMAIN p.strs = 1 .. Len(p.strs)
      BY <1>6
    <3>3. DOMAIN g = 1 .. Len(p.strs)
      BY <3>1, <3>2 DEF Strings
    <3>4. g[l] = <<Len(Header(p)) + Len(FlattenSeq([j \in 1 .. (l - 1) |-> Pieces(p)[j]])) + 2,
                   p.strs[l]>>
      BY <2>2, <3>1, <3>2 DEF Strings
    <3>5. FlattenSeq([j \in 1 .. (l - 1) |-> Pieces(p)[j]]) = Upto(s, m)
      BY <1>1, <2>2 DEF Upto, First
    <3>6. g[l] = <<After(p, m) + 2, p.strs[l]>>
      BY <1>2, <1>8, <3>4, <3>5
    <3>7. PICK S : S = {g[i] : i \in 1 .. Len(p.strs)}
      OBVIOUS
    <3>8. g \in Seq(S) /\ Len(g) = Len(p.strs)
      <4>1. g = [i \in 1 .. Len(p.strs) |-> g[i]]
        BY <3>1, <3>2 DEF Strings
      <4>2. \A i \in 1 .. Len(p.strs) : g[i] \in S
        BY <3>7
      <4>3. g \in [1 .. Len(p.strs) -> S]
        BY <4>1, <4>2
      <4>4. Len(p.strs) \in Nat
        BY <1>6
      <4> QED BY <4>3, <4>4
    <3>9. First(g, m + 1) = Append(First(g, m), g[m + 1])
      BY <1>9, <3>8, FirstTyped
    <3> QED BY <2>1, <3>1, <3>6, <3>9
  <2>14. y[After(p, m) + 1] = p.strs[l] \div 256 /\ y[After(p, m) + 2] = p.strs[l] % 256
    BY <2>5, <2>9, <2>10, <2>11
  <2>15. After(p, l) = After(p, m) + 2 + p.strs[l] + (IF p.kind = "SUBSCRIBE" THEN 1 ELSE 0)
    <3>1. After(p, m) \in Nat
      BY <1>5, <1>8, <2>7, <2>8
    <3>2. After(p, l) = After(p, m) + 2 + p.strs[l] + c
      BY <2>3, <2>c, <2>12, <3>1, SMTT(30)
    <3> QED BY <2>b, <3>2
  <2> QED BY <2>1, <2>3, <2>12, <2>13, <2>14, <2>15
<1>10. m = Len(p.strs) => Len(y) = After(p, m) + Len(Trailer(p))
  BY <1>3, <1>4, <1>5, <1>8
<1>11. After(p, m) \in Nat
  BY <1>5, <1>7, <1>8
<1> QED BY <1>2, <1>4, <1>8, <1>9, <1>10, <1>11

-----------------------------------------------------------------------------
(* The steps.                                                              *)

\* The command byte tells the kind and the qos.
LEMMA Kinds ==
    ASSUME NEW p \in Packets, NEW c, c = Code[p.kind] + 2 * p.qos
    PROVE  /\ Kind(c) = Code[p.kind] /\ (c \div 2) % 4 = p.qos /\ c # 0
           /\ p.kind \in DOMAIN Code /\ p.qos \in 0 .. 3
           /\ \A k \in DOMAIN Code : Kind(c) = Code[k] <=> p.kind = k
<1>1. p.kind \in DOMAIN Code /\ p.qos \in 0 .. 3
  BY ConstantsOK DEF WellFormed
<1>2. /\ DOMAIN Code = {"CONNECT", "PUBLISH", "PUBACK", "SUBSCRIBE", "UNSUBSCRIBE",
                        "PINGREQ", "DISCONNECT"}
      /\ Code["CONNECT"] = 16 /\ Code["PUBLISH"] = 48 /\ Code["PUBACK"] = 64
      /\ Code["SUBSCRIBE"] = 128 /\ Code["UNSUBSCRIBE"] = 160 /\ Code["PINGREQ"] = 192
      /\ Code["DISCONNECT"] = 224
  BY DEF Code
<1>3. PICK q, b : q = p.qos /\ b = Code[p.kind]
  OBVIOUS
<1>4. b \in {16, 48, 64, 128, 160, 192, 224}
  BY <1>1, <1>2, <1>3
<1>5. c = b + 2 * q /\ q \in 0 .. 3
  BY <1>1, <1>3
<1>6. (c \div 16) * 16 = b /\ (c \div 2) % 4 = q /\ c # 0
  BY <1>4, <1>5
<1>7. \A k \in DOMAIN Code : b = Code[k] <=> p.kind = k
  BY <1>1, <1>2, <1>3
<1> QED BY <1>1, <1>3, <1>6, <1>7 DEF Kind

\* Steps that read no field.
LEMMA FieldsFrame ==
    ASSUME NEW p, FieldsOK(p), UNCHANGED <<pc, todo, pos, got, out>>
    PROVE  FieldsOK(p)'
BY DEF FieldsOK, ReadStrings, AtField, AtConnect, AtPublish, AtSubscribe

\* What excuses a stop.
Excused ==
    cut \/ Acks \/ Long \/ \E i \in DOMAIN sent : Stops(sent[i]) \/ Unlisted(i)

\* The CONNECTs before a packet and up to it.
LEMMA ConnectsTo ==
    ASSUME TypeInv, NEW k \in DOMAIN sent
    PROVE  /\ Connects(1) = {} /\ k \notin Connects(k)
           /\ Connects(k + 1) =
                 IF sent[k].kind = "CONNECT" THEN Connects(k) \cup {k} ELSE Connects(k)
           /\ \A j \in Connects(k) : j \in DOMAIN sent
<1>1. DOMAIN sent = 1 .. Len(sent) /\ Len(sent) \in Nat
  BY DEF TypeInv
<1>2. k \in Nat /\ 1 .. (k + 1 - 1) = 1 .. (k - 1) \cup {k} /\ 1 .. (1 - 1) = {}
  BY <1>1
<1> QED BY <1>1, <1>2 DEF Connects

\* One more.
LEMMA TallyGrows ==
    ASSUME TypeInv, NEW S, NEW k, k \notin S, Tally(S), listed' = Min({2, listed + 1})
    PROVE  Tally(S \cup {k})'
<1>1. listed \in 0 .. 2
  BY DEF TypeInv
<1>2. PICK a : a = listed + 1
  OBVIOUS
<1>3. a \in 1 .. 3 /\ a \in Nat /\ 2 \in Nat
  BY <1>1, <1>2
<1>4. listed' \in {2, a} /\ listed' <= 2 /\ listed' <= a
  BY <1>2, <1>3, MinOfTwo
<1>5. CASE listed = 0
  <2>1. S = {} /\ listed' = 1
    BY <1>2, <1>4, <1>5 DEF Tally
  <2> QED BY <2>1 DEF Tally
<1>6. CASE listed = 1
  <2>1. listed' = 2
    BY <1>2, <1>4, <1>6
  <2>2. PICK j \in S : S = {j}
    BY <1>6 DEF Tally
  <2>3. j # k /\ S \cup {k} = {j, k}
    BY <2>2
  <2> QED BY <2>1, <2>3 DEF Tally
<1>7. CASE listed = 2
  <2>1. listed' = 2
    BY <1>2, <1>4, <1>7
  <2>2. S # {} /\ ~ \E j \in S : S = {j}
    BY <1>7 DEF Tally
  <2>3. PICK j \in S : j # k
    BY <2>2
  <2>4. ~ \E i \in S \cup {k} : S \cup {k} = {i}
    BY <2>3
  <2> QED BY <2>1, <2>2, <2>4 DEF Tally
<1> QED BY <1>1, <1>5, <1>6, <1>7

\* A step that leaves the timer alone.
LEMMA CountedFrame ==
    ASSUME NEW k, NEW p, Counted(k, p), UNCHANGED <<sent, listed>>,
           p.kind = "CONNECT" => (pos >= 12 <=> pos' >= 12),
           pc' = "command" /\ p.kind = "CONNECT" => pos' >= 12
    PROVE  Counted(k, p)'
<1>1. Connects(k)' = Connects(k) /\ Connects(k + 1)' = Connects(k + 1)
  BY DEF Connects
<1>2. Timed(k, p)' = Timed(k, p)
  BY <1>1 DEF Timed
<1>3. PICK S : S = Timed(k, p)
  OBVIOUS
<1>4. Tally(S) => Tally(S)'
  BY DEF Tally
<1>5. Tally(Timed(k, p))'
  BY <1>2, <1>3, <1>4 DEF Counted, Tally
<1> QED BY <1>5 DEF Counted

\* A packet that renews a timer that is not in the list, or twice in it.
LEMMA NotListed ==
    ASSUME TypeInv, NEW k \in DOMAIN sent, NEW p \in Packets, InPacket(k, p),
           p.kind \in {"PUBLISH", "PINGREQ"}, listed # 1
    PROVE  Excused
<1>1. CASE Long
  BY <1>1 DEF Excused
<1>2. CASE ~ Long
  <2>1. p = sent[k] /\ Tally(Timed(k, p))
    BY <1>2 DEF InPacket, Counted
  <2>2. Timed(k, p) = Connects(k)
    BY DEF Timed
  <2>3. ~ \E j \in Connects(k) : Connects(k) = {j}
    BY <2>1, <2>2 DEF Tally
  <2>4. Unlisted(k)
    BY <2>1, <2>3 DEF Unlisted
  <2> QED BY <2>4 DEF Excused
<1> QED BY <1>1, <1>2

\* A step of the handler that leaves what the client sent alone: what it excuses
\* stays excused.
LEMMA SameSent ==
    ASSUME UNCHANGED sent
    PROVE  /\ Acks' = Acks /\ Long' = Long /\ \A i : Start(i)' = Start(i)
           /\ cut' = cut => Excused' = Excused
           /\ StopsOnlyOn' = (pc' = "crash" => Excused')
<1>1. \A i : Connects(i)' = Connects(i) /\ Start(i)' = Start(i)
  BY DEF Connects, Start
<1>2. \A i : Unlisted(i)' = Unlisted(i)
  BY <1>1 DEF Unlisted
<1> QED BY <1>1, <1>2 DEF Acks, Long, Excused, StopsOnlyOn

\* More packets and more bytes: the handler is where it was.
LEMMA ClientStep ==
    ASSUME TypeInv, StepInv, Client PROVE StepInv'
<1>1. ASSUME NEW q \in Packets, Send(q) PROVE StepInv'
  <2>1. PICK s, t : s = sent /\ t = sent'
    OBVIOUS
  <2>2. s \in Seq(Packets) /\ t = Append(s, q)
    BY <1>1, <2>1 DEF TypeInv, Send
  <2>3. /\ t \in Seq(Packets) /\ Len(t) = Len(s) + 1
        /\ \A i \in 1 .. Len(s) : t[i] = s[i]
        /\ \A i \in 1 .. Len(s) + 1 : StartIn(t, i) = StartIn(s, i)
    <3>1. /\ t \in Seq(Packets) /\ Len(t) = Len(s) + 1
          /\ \A i \in 1 .. Len(s) : t[i] = s[i]
      BY <2>2
    <3>2. \A i \in 1 .. Len(s) + 1 : StartIn(t, i) = StartIn(s, i)
      BY <2>2, StreamGrows
    <3> QED BY <3>1, <3>2
  <2>4. DOMAIN s = 1 .. Len(s) /\ DOMAIN t = 1 .. Len(s) + 1 /\ Len(s) \in Nat
    BY <2>2, <2>3
  <2>5. \A k \in DOMAIN s : k \in DOMAIN t /\ t[k] = s[k]
    BY <2>3, <2>4
  <2>6. \A i \in 1 .. Len(s) + 1 : Start(i)' = Start(i)
    BY <2>1, <2>3 DEF Start, StartIn
  <2>7. /\ UNCHANGED <<arrived, read, pc, command, length, digits, base, pos, todo, got,
                      listed, out, begun, cut>>
    BY <1>1 DEF Send, field_vars
  <2>8. Acks => Acks'
    BY <2>1, <2>5 DEF Acks
  <2>a. Long => Long'
    BY <2>1, <2>5 DEF Long
  <2>b. \A i \in 1 .. Len(s) + 1 : Connects(i)' = Connects(i)
    BY <2>1, <2>3, <2>4 DEF Connects
  <2>9. StopsOnlyOn'
    <3>1. ASSUME NEW i \in DOMAIN sent
          PROVE  /\ i \in DOMAIN sent' /\ sent'[i] = sent[i]
                 /\ Unlisted(i) => Unlisted(i)'
      <4>1. i \in DOMAIN sent' /\ sent'[i] = sent[i] /\ i \in 1 .. Len(s) + 1
        BY <2>1, <2>4, <2>5
      <4>2. Connects(i)' = Connects(i)
        BY <2>b, <4>1
      <4>3. \A j \in Connects(i) : j \in DOMAIN sent
        BY <1>1, ConnectsTo
      <4>4. ASSUME NEW j, Connects(i) = {j} PROVE j \in DOMAIN sent
        BY <4>3, <4>4
      <4> QED BY <4>1, <4>2, <4>4 DEF Unlisted
    <3>2. (\E i \in DOMAIN sent : Stops(sent[i]) \/ Unlisted(i))
             => (\E i \in DOMAIN sent : Stops(sent[i]) \/ Unlisted(i))'
      BY <3>1
    <3> QED BY <2>7, <2>8, <2>a, <3>2 DEF StepInv, StopsOnlyOn
  <2>10. ASSUME NEW k \in DOMAIN sent, NEW p \in Packets, InPacket(k, p)
         PROVE  k \in DOMAIN sent' /\ InPacket(k, p)'
    <3>1. k \in DOMAIN sent' /\ sent'[k] = sent[k]
      BY <2>1, <2>5
    <3>2. Start(k)' = Start(k) /\ Start(k + 1)' = Start(k + 1)
      <4>1. k \in 1 .. Len(s) + 1 /\ k + 1 \in 1 .. Len(s) + 1
        BY <2>1, <2>4
      <4> QED BY <2>6, <4>1
    <3>3. FieldsOK(p) => FieldsOK(p)'
      BY <2>7, FieldsFrame
    <3>4. Counted(k, p) => Counted(k, p)'
      <4>1. k \in 1 .. Len(s) + 1 /\ k + 1 \in 1 .. Len(s) + 1
        BY <2>1, <2>4
      <4>2. Timed(k, p)' = Timed(k, p)
        BY <2>7, <2>b, <4>1 DEF Timed
      <4> QED BY <2>7, <4>2 DEF Counted, Tally
    <3> QED BY <2>7, <2>10, <2>a, <3>1, <3>2, <3>3, <3>4 DEF InPacket, NoContent
  <2>11. NothingRead => NothingRead'
    BY <2>7 DEF NothingRead
  <2>12. ~ Acks => NothingRead \/ \E k \in DOMAIN sent, p \in Packets : InPacket(k, p)
    BY DEF StepInv
  <2> QED BY <2>8, <2>9, <2>10, <2>11, <2>12 DEF StepInv
<1>2. ASSUME NEW end, end \in Nat, Arrive(end) PROVE StepInv'
  <2>1. /\ UNCHANGED <<sent, read, pc, command, length, digits, base, pos, todo, got, listed,
                      out, begun, cut>>
        /\ arrived' = end /\ arrived < end /\ arrived \in Nat
    BY <1>2 DEF Arrive, field_vars, TypeInv
  <2>2. /\ Acks' = Acks /\ StopsOnlyOn' = StopsOnlyOn /\ \A i : Start(i)' = Start(i)
        /\ NothingRead' = NothingRead /\ Long' = Long
    <3>1. Excused' = Excused /\ StopsOnlyOn' = (pc' = "crash" => Excused')
      BY <2>1, SameSent
    <3> QED BY <2>1, <3>1, SameSent DEF NothingRead, StopsOnlyOn, Excused
  <2>3. ASSUME NEW k \in DOMAIN sent, NEW p \in Packets, InPacket(k, p) PROVE InPacket(k, p)'
    <3>1. FieldsOK(p) => FieldsOK(p)'
      BY <2>1, FieldsFrame
    <3>2. arrived >= Start(k + 1) => arrived' >= Start(k + 1)
      <4>1. Start(k + 1) \in Nat
        BY Sent
      <4> QED BY <1>2, <2>1, <4>1
    <3>3. Counted(k, p) => Counted(k, p)'
      <4>1. ASSUME Counted(k, p) PROVE Counted(k, p)'
        <5>1. pc = "command" /\ p.kind = "CONNECT" => pos >= 12
          BY <4>1 DEF Counted
        <5> QED BY <2>1, <4>1, <5>1, CountedFrame
      <4> QED BY <4>1
    <3> QED BY <2>1, <2>2, <2>3, <3>1, <3>2, <3>3 DEF InPacket, NoContent
  <2> QED BY <2>1, <2>2, <2>3 DEF StepInv
<1>3. ASSUME NEW i \in DOMAIN sent, NEW k \in Cuts PROVE Start(i) + k \in Nat
  <2>1. Start(i) \in Nat /\ k \in Nat
    BY Sent, ConstantsOK
  <2> QED BY <2>1
<1>4. Len(Stream) \in Nat
  BY BytesTyped
<1> QED BY <1>1, <1>2, <1>3, <1>4 DEF Client

\* Who is in a packet, when nothing excuses a stop.
LEMMA WhichPacket ==
    ASSUME TypeInv, StepInv, ~ Acks, pc # "command"
    PROVE  \E k \in DOMAIN sent, p \in Packets :
              /\ InPacket(k, p) /\ p.kind # "PUBACK"
              /\ ~ Excused => Short(p) /\ ~ Stops(p) /\ ~ cut
<1>1. PICK k \in DOMAIN sent, p \in Packets : InPacket(k, p)
  BY DEF StepInv, NothingRead
<1>2. p = sent[k]
  BY <1>1 DEF InPacket
<1>3. p.kind # "PUBACK"
  BY <1>2 DEF Acks
<1>4. ASSUME ~ Excused PROVE Short(p) /\ ~ Stops(p) /\ ~ cut
  <2>1. p.strs \in Seq(0 .. MaxString)
    BY ConstantsOK DEF WellFormed
  <2>2. \A i \in DOMAIN p.strs : p.strs[i] \in Nat
    BY <2>1, Bounds
  <2>3. \A i \in DOMAIN p.strs : ~ (p.strs[i] >= 256)
    BY <1>2, <1>4 DEF Excused, Long
  <2> QED BY <1>2, <1>4, <2>2, <2>3 DEF Excused, Short
<1> QED BY <1>1, <1>3, <1>4

LEMMA StringsRead0 ==
    ASSUME NEW p \in Packets
    PROVE  First(Strings(p), 0) = <<>> /\ Len(p.strs) \in Nat
BY ConstantsOK DEF First, WellFormed

\* The command byte: the packet it starts is the next one.
LEMMA CommandStep ==
    ASSUME TypeInv, StepInv, ReadCommand PROVE StepInv'
<1>1. /\ pc = "command" /\ read < arrived /\ command' = Stream[read + 1]
      /\ pc' # "crash" /\ UNCHANGED <<sent, arrived>> /\ read' = read + 1 /\ begun' = read
      /\ cut' = (cut \/ ~ Complete(read)) /\ length' = 0 /\ digits' = 0
      /\ got' = <<>> /\ out' = None /\ pos' = 0 /\ listed' = listed
  BY DEF ReadCommand, stream_vars
<1>2. /\ Acks' = Acks /\ StopsOnlyOn' /\ \A i : Start(i)' = Start(i)
      /\ Long' = Long
  BY <1>1, SameSent
<1>3. SUFFICES ASSUME ~ Acks
               PROVE  \E k \in DOMAIN sent, p \in Packets : InPacket(k, p)'
  BY <1>1, <1>2 DEF StepInv
<1>4. \E i \in 1 .. Len(sent) + 1 : read = Start(i) /\ (~ Long => Tally(Connects(i)))
  <2>1. CASE NothingRead
    <3>1. read = Start(1) /\ Len(sent) \in Nat
      BY <2>1, Sent DEF NothingRead, TypeInv
    <3>2. Connects(1) = {}
      BY DEF Connects
    <3>3. Tally(Connects(1))
      BY <2>1, <3>2 DEF Tally, NothingRead
    <3> QED BY <3>1, <3>3
  <2>2. CASE \E k \in DOMAIN sent, p \in Packets : InPacket(k, p)
    <3>1. PICK k \in DOMAIN sent, p \in Packets : InPacket(k, p)
      BY <2>2
    <3>2. k + 1 \in 1 .. Len(sent) + 1
      BY SMTT(30) DEF TypeInv
    <3>3. p = sent[k] /\ read = Start(k + 1) /\ (~ Long => Counted(k, p))
      BY <1>1, <3>1 DEF InPacket
    <3>4. ASSUME Counted(k, p) PROVE Tally(Connects(k + 1))
      <4>1. Timed(k, p) = Connects(k + 1)
        BY <1>1, <3>3, <3>4, ConnectsTo DEF Timed, Counted
      <4> QED BY <3>4, <4>1 DEF Counted
    <3> QED BY <3>2, <3>3, <3>4
  <2> QED BY <1>3, <2>1, <2>2 DEF StepInv
<1>5. PICK k \in 1 .. Len(sent) + 1 : read = Start(k) /\ (~ Long => Tally(Connects(k)))
  BY <1>4
<1>6. k \in DOMAIN sent
  <2>1. Start(Len(sent) + 1) = Len(Stream) /\ Len(Stream) \in Nat /\ DOMAIN sent = 1 .. Len(sent)
    BY Sent, BytesTyped
  <2>2. read < Len(Stream)
    BY <1>1, <2>1 DEF TypeInv
  <2>3. Len(sent) \in Nat /\ k # Len(sent) + 1
    BY <1>5, <2>1, <2>2, SMTT(30) DEF TypeInv
  <2> QED BY <1>5, <2>1, <2>3
<1>7. PICK p : p = sent[k]
  OBVIOUS
<1>8. /\ p \in Packets /\ Lengths(p) \in 1 .. 4 /\ Len(Payload(p)) \in Nat
      /\ Encoding[p][1] = Code[p.kind] + 2 * p.qos
      /\ \A i \in 1 .. 1 + Lengths(p) + Len(Payload(p)) : Stream[Start(k) + i] = Encoding[p][i]
  <2>1. p \in Packets
    BY <1>6, <1>7, Sent
  <2>2. /\ Lengths(p) \in 1 .. 4 /\ Encoding[p][1] = Code[p.kind] + 2 * p.qos
        /\ Payload(p) \in Seq(Octet)
    BY <2>1, PacketOctets
  <2>3. \A i \in 1 .. 1 + Lengths(p) + Len(Payload(p)) : Stream[Start(k) + i] = Encoding[p][i]
    BY <1>6, <1>7, Sent
  <2> QED BY <2>1, <2>2, <2>3
<1>9. command' = Code[p.kind] + 2 * p.qos
  <2>1. 1 \in 1 .. 1 + Lengths(p) + Len(Payload(p))
    BY <1>8
  <2> QED BY <1>1, <1>5, <1>8, <2>1
<1>10. pc' \in {"shut", "length"}
  <2>1. p.kind # "PUBACK" /\ p.kind \in DOMAIN Code \ {"PUBACK"}
    BY <1>3, <1>6, <1>7, <1>8, Kinds DEF Acks
  <2>2. PICK c : c = Stream[read + 1]
    OBVIOUS
  <2>3. Kind(c) = Code[p.kind]
    BY <1>1, <1>8, <1>9, <2>2, Kinds
  <2> QED BY <2>1, <2>2, <2>3 DEF ReadCommand
<1>11. ~ cut' => arrived' >= Start(k + 1)
  <2>1. SUFFICES ASSUME Complete(read) PROVE arrived >= Start(k + 1)
    BY <1>1
  <2>2. PICK l \in DOMAIN sent : read = Start(l) /\ arrived >= Start(l + 1)
    BY <2>1 DEF Complete
  <2>3. l = k
    BY <1>5, <1>6, <2>2, OneStart
  <2> QED BY <2>2, <2>3
<1>12. FieldsOK(p)'
  <2>1. First(Strings(p), 0) = <<>> /\ Len(p.strs) \in Nat
    BY <1>8, StringsRead0
  <2>2. 0 \in 0 .. Len(p.strs) /\ ReadStrings(p, 0)'
    BY <1>1, <1>10, <2>1 DEF ReadStrings
  <2> QED BY <1>1, <2>2 DEF FieldsOK
<1>13. length' = Len(Payload(p)) % Weight[digits' + 1]
  <2>1. Weight[digits' + 1] = 1
    BY <1>1, SMT DEF Weight
  <2> QED BY <1>1, <1>8, <2>1
<1>14. read' > begun'
  BY <1>1 DEF TypeInv
<1>15. InPacket(k, p)'
  <2>1. p = sent'[k] /\ begun' = Start(k)' /\ Start(k + 1)' = Start(k + 1)
    BY <1>1, <1>2, <1>5, <1>7
  <2>2. digits' < Lengths(p) /\ read' = begun' + 1 + digits'
    BY <1>1, <1>8, SMTT(30) DEF TypeInv
  <2>3. ASSUME ~ Long PROVE Counted(k, p)'
    <3>1. Connects(k)' = Connects(k)
      BY <1>1 DEF Connects
    <3>2. Timed(k, p)' = Connects(k)
      BY <1>1, <3>1 DEF Timed
    <3>3. Tally(Connects(k))
      BY <1>5, <2>3
    <3> QED BY <1>1, <1>10, <3>2, <3>3 DEF Counted, Tally
  <2> QED BY <1>1, <1>2, <1>9, <1>10, <1>11, <1>12, <1>13, <1>14, <2>1, <2>2, <2>3 DEF InPacket
<1> QED BY <1>6, <1>8, <1>15

\* One more byte of the length of a packet.
LEMMA DigitSum ==
    ASSUME NEW n \in Nat, NEW i \in 0 .. 3
    PROVE  (n % Weight[i + 1]) + ((n \div Weight[i + 1]) % 128) * Weight[i + 1]
              = n % Weight[i + 2]
<1>1. /\ Weight[1] = 1 /\ Weight[2] = 128 /\ Weight[3] = 16384 /\ Weight[4] = 2097152
      /\ Weight[5] = 268435456
  BY SMT DEF Weight
<1>2. CASE i = 0
  BY <1>1, <1>2, SMT
<1>3. CASE i = 1
  BY <1>1, <1>3, SMT
<1>4. CASE i = 2
  BY <1>1, <1>4, SMT
<1>5. CASE i = 3
  BY <1>1, <1>5, SMT
<1> QED BY <1>2, <1>3, <1>4, <1>5, SMT

\* The packets without payload.
LEMMA EmptyPayload ==
    ASSUME NEW p \in Packets, p.kind \in {"PINGREQ", "DISCONNECT"}
    PROVE  Len(Payload(p)) = 0
<1>1. p.strs = <<>>
  BY ConstantsOK DEF WellFormed
<1>2. Len(p.strs) = 0 /\ 0 \in 0 .. Len(p.strs)
  BY <1>1
<1>3. Len(Header(p)) = 0 /\ Len(Trailer(p)) = 0
  BY HeaderOctets
<1> QED BY <1>2, <1>3, StringAt

\* The d-th byte of the length.
LEMMA DigitAt ==
    ASSUME TypeInv, NEW k \in DOMAIN sent, NEW p \in Packets, InPacket(k, p), pc = "length"
    PROVE  LET n == Len(Payload(p))
               d == Stream[read + 1]
           IN  /\ n \in Nat /\ (d >= 128 <=> digits + 1 < Lengths(p))
               /\ digits \in 0 .. 3 /\ d \in Nat
               /\ length + Digit(d) = n % Weight[digits + 2]
               /\ digits + 1 = Lengths(p) => n % Weight[digits + 2] = n
<1>1. PICK n, b, d, e : n = Len(Payload(p)) /\ b = Length(n) /\ d = Stream[read + 1] /\ e = digits
  OBVIOUS
<1>2. /\ p = sent[k] /\ begun = Start(k) /\ e < Lengths(p) /\ read = begun + 1 + e
      /\ length = n % Weight[e + 1] /\ e \in 0 .. 5
  BY <1>1 DEF InPacket, TypeInv
<1>3. /\ n \in Nat /\ n <= MaxLength /\ Lengths(p) = Len(b) /\ Lengths(p) \in 1 .. 4
      /\ \A i \in 1 .. Lengths(p) : Encoding[p][1 + i] = b[i]
  <2>1. n \in Nat /\ n <= MaxLength
    BY <1>1, PayloadOctets
  <2>2. Lengths(p) \in 1 .. 4 /\ \A i \in 1 .. Lengths(p) : Encoding[p][1 + i] = Length(n)[i]
    BY <1>1, PacketOctets
  <2> QED BY <1>1, <2>1, <2>2 DEF Lengths
<1>4. /\ b \in Seq(Octet)
      /\ \A i \in 1 .. Len(b) :
            /\ (b[i] >= 128) <=> i < Len(b)
            /\ b[i] % 128 = (n \div Weight[i]) % 128
      /\ n < Weight[Len(b) + 1]
  BY <1>1, <1>3, LengthOctets, SMTT(30)
<1>5. e \in 0 .. 3 /\ e + 1 \in 1 .. Len(b)
  <2>1. PICK l : l = Lengths(p)
    OBVIOUS
  <2>2. l \in 1 .. 4 /\ e < l /\ l = Len(b) /\ e \in 0 .. 5
    BY <1>2, <1>3, <2>1
  <2> QED BY <2>2
<1>6. d = b[e + 1]
  <2>1. /\ Start(k) \in Nat
        /\ \A i \in 1 .. 1 + Lengths(p) + n : Stream[Start(k) + i] = Encoding[p][i]
    BY <1>1, <1>2, Sent, SMTT(30)
  <2>2. PICK i : i = 1 + (e + 1)
    OBVIOUS
  <2>3. i \in 1 .. 1 + Lengths(p) + n /\ read + 1 = Start(k) + i
    BY <1>2, <1>3, <1>5, <2>1, <2>2, SMTT(30)
  <2>4. d = Encoding[p][i]
    BY <1>1, <2>1, <2>3
  <2> QED BY <1>3, <1>5, <2>2, <2>4
<1>7. d >= 128 <=> e + 1 < Lengths(p)
  BY <1>3, <1>4, <1>5, <1>6
<1>8. d % 128 = (n \div Weight[e + 1]) % 128 /\ d \in Octet
  BY <1>4, <1>5, <1>6
<1>9. length + Digit(d) = n % Weight[e + 2]
  <2>1. Digit(d) = ((n \div Weight[e + 1]) % 128) * Weight[e + 1]
    BY <1>1, <1>8 DEF Digit
  <2>2. (n % Weight[e + 1]) + ((n \div Weight[e + 1]) % 128) * Weight[e + 1]
              = n % Weight[e + 2]
    BY <1>3, <1>5, DigitSum
  <2> QED BY <1>2, <2>1, <2>2
<1>10. ASSUME e + 1 = Lengths(p) PROVE n % Weight[e + 2] = n
  <2>1. e + 2 = Len(b) + 1
    BY <1>3, <1>5, <1>10
  <2>2. PICK w : w = Weight[e + 2]
    OBVIOUS
  <2>3. w \in Nat /\ n < w
    <3>1. w \in Nat
      BY <1>5, <2>2, SMT DEF Weight
    <3> QED BY <1>4, <2>1, <2>2, <3>1
  <2>4. w \in {128, 16384, 2097152, 268435456}
    BY <1>5, <2>2, SMT DEF Weight
  <2>5. n % w = n
    BY <1>3, <2>3, <2>4, SMT
  <2> QED BY <2>2, <2>5
<1>11. d \in Nat
  BY <1>8 DEF Octet
<1> QED BY <1>1, <1>3, <1>5, <1>7, <1>9, <1>10, <1>11

\* What the kinds do after the length n.
LEMMA AfterLengthIs ==
    ASSUME NEW p \in Packets, p.kind # "PUBACK", command = Code[p.kind] + 2 * p.qos,
           NEW n, n = Len(Payload(p)), NEW a \in AfterLength(n)
    PROVE  \/ a = "command" /\ ~ HasFields(p) /\ n = 0
           \/ a = "shut"
           \/ a = "crash" /\ (p.kind = "UNSUBSCRIBE" \/ (p.kind = "PINGREQ" /\ listed # 1))
           \/ a = "payload" /\ HasFields(p)
<1>1. /\ p.kind \in DOMAIN Code /\ \A k \in DOMAIN Code : Is(k) <=> p.kind = k
  BY Kinds DEF Is
<1>2. DOMAIN Code = {"CONNECT", "PUBLISH", "PUBACK", "SUBSCRIBE", "UNSUBSCRIBE",
                     "PINGREQ", "DISCONNECT"}
  BY DEF Code
<1>3. /\ Is("PINGREQ") <=> p.kind = "PINGREQ"
      /\ Is("DISCONNECT") <=> p.kind = "DISCONNECT"
      /\ Is("UNSUBSCRIBE") <=> p.kind = "UNSUBSCRIBE"
  BY <1>1, <1>2
<1>4. n \in Nat
  BY PayloadOctets
<1>5. CASE p.kind = "PINGREQ"
  BY <1>3, <1>5, EmptyPayload DEF AfterLength, HasFields, Renewed
<1>6. CASE p.kind = "DISCONNECT"
  BY <1>3, <1>6 DEF AfterLength
<1>7. CASE p.kind = "UNSUBSCRIBE"
  BY <1>3, <1>4, <1>7 DEF AfterLength, HasFields
<1>8. CASE p.kind \notin {"PINGREQ", "DISCONNECT", "UNSUBSCRIBE"}
  BY <1>1, <1>2, <1>3, <1>8 DEF AfterLength, HasFields
<1> QED BY <1>5, <1>6, <1>7, <1>8

\* A packet of which nothing has been read yet.
LEMMA NothingOf ==
    ASSUME NEW p \in Packets, got' = <<>>, out' = None, pc' # "fields",
           pc' = "command" => ~ HasFields(p)
    PROVE  FieldsOK(p)'
<1>1. First(Strings(p), 0) = <<>> /\ Len(p.strs) \in Nat
  BY StringsRead0
<1>2. 0 \in 0 .. Len(p.strs) /\ ReadStrings(p, 0)'
  BY <1>1 DEF ReadStrings
<1> QED BY <1>2 DEF FieldsOK

\* The remaining length: after its last byte it is the length of the payload.
LEMMA DigitStep ==
    ASSUME TypeInv, StepInv, ReadDigit \/ NoDigit PROVE StepInv'
<1>1. /\ pc = "length" /\ got = <<>> /\ out = None
      /\ UNCHANGED <<sent, arrived, command, pos, todo, got, listed, out, begun, cut>>
  BY DEF ReadDigit, NoDigit, stream_vars, field_vars, TypeInv
<1>2. /\ Acks' = Acks /\ \A i : Start(i)' = Start(i)
      /\ Excused' = Excused /\ StopsOnlyOn' = (pc' = "crash" => Excused')
      /\ Long' = Long
  BY <1>1, SameSent
<1>3. CASE Acks
  BY <1>2, <1>3 DEF StepInv, Excused
<1>4. CASE ~ Acks
  <2>1. PICK k \in DOMAIN sent, p \in Packets : InPacket(k, p) /\ p.kind # "PUBACK"
    BY <1>1, <1>4, WhichPacket
  <2>2. /\ p = sent[k] /\ begun = Start(k) /\ command = Code[p.kind] + 2 * p.qos
        /\ read > begun /\ read = begun + 1 + digits /\ digits < Lengths(p)
        /\ ~ cut => arrived >= Start(k + 1)
    BY <1>1, <2>1 DEF InPacket
  <2>3. PICK n : n = Len(Payload(p))
    OBVIOUS
  <2>a. ASSUME ~ Long, pc' = "command" => ~ HasFields(p) PROVE Counted(k, p)'
    <3>1. Counted(k, p)
      BY <2>1, <2>a DEF InPacket
    <3> QED BY <1>1, <2>a, <3>1, CountedFrame DEF HasFields
  <2>4. CASE NoDigit
    <3>1. pc' = "shut" /\ UNCHANGED <<read, length, digits, base>>
      BY <2>4 DEF NoDigit, field_vars
    <3>2. FieldsOK(p)'
      BY <1>1, <3>1, NothingOf
    <3>3. InPacket(k, p)'
      BY <1>1, <1>2, <2>2, <2>a, <3>1, <3>2 DEF InPacket
    <3> QED BY <1>1, <1>2, <2>1, <3>1, <3>3 DEF StepInv
  <2>5. CASE ReadDigit
    <3>1. PICK d : d = Stream[read + 1]
      OBVIOUS
    <3>2. /\ length' = length + Digit(d) /\ digits' = digits + 1
          /\ pc' \in IF More(d) THEN {"length"} ELSE AfterLength(length')
          /\ read' = read + 1 /\ base' = read + 1
      BY <2>5, <3>1 DEF ReadDigit
    <3>3. /\ n \in Nat /\ (d >= 128 <=> digits + 1 < Lengths(p))
          /\ digits \in 0 .. 3 /\ d \in Nat
          /\ length' = n % Weight[digits + 2]
          /\ digits + 1 = Lengths(p) => length' = n
      BY <1>1, <2>1, <2>3, <3>1, <3>2, DigitAt
    <3>4. Lengths(p) \in 1 .. 4 /\ read \in Nat /\ begun \in Nat
      BY PacketOctets DEF TypeInv
    <3>5. read' > begun'
      BY <1>1, <2>2, <3>2, <3>4
    <3>6. CASE More(d)
      <4>1. pc' = "length" /\ digits' < Lengths(p)
        <5>1. digits + 1 < Lengths(p) /\ digits' = digits + 1
          BY <3>2, <3>3, <3>6 DEF More
        <5> QED BY <3>2, <3>6, <5>1
      <4>2. read' = begun' + 1 + digits'
        BY <1>1, <2>2, <3>2, <3>3, <3>4, SMTT(30)
      <4>3. length' = n % Weight[digits' + 1]
        <5>1. digits' + 1 = digits + 2
          BY <3>2, <3>3
        <5> QED BY <3>3, <5>1
      <4>4. FieldsOK(p)'
        BY <1>1, <4>1, NothingOf
      <4>5. InPacket(k, p)'
        BY <1>1, <1>2, <2>2, <2>3, <2>a, <3>5, <4>1, <4>2, <4>3, <4>4 DEF InPacket
      <4> QED BY <1>1, <1>2, <2>1, <4>1, <4>5 DEF StepInv
    <3>7. CASE ~ More(d)
      <4>1. digits + 1 = Lengths(p) /\ length' = n
        BY <2>2, <3>3, <3>4, <3>7 DEF More
      <4>2. pc' \in AfterLength(n)
        BY <3>2, <3>7, <4>1
      <4>3. \/ pc' = "command" /\ ~ HasFields(p) /\ n = 0
            \/ pc' = "shut"
            \/ pc' = "crash" /\ (p.kind = "UNSUBSCRIBE" \/ (p.kind = "PINGREQ" /\ listed # 1))
            \/ pc' = "payload" /\ HasFields(p)
        BY <2>1, <2>2, <2>3, <4>2, AfterLengthIs
      <4>4. FieldsOK(p)'
        BY <1>1, <4>3, NothingOf
      <4>5. base' = begun' + 1 + Lengths(p)
        BY <1>1, <2>2, <3>2, <3>3, <3>4, <4>1, SMTT(30)
      <4>6. ASSUME n = 0 PROVE read' = Start(k + 1)
        <5>1. Start(k + 1) = Start(k) + 1 + Lengths(p) + Len(Payload(p)) /\ Start(k) \in Nat
          BY <2>2, Sent
        <5> QED BY <2>2, <2>3, <3>2, <3>3, <3>4, <4>1, <4>6, <5>1
      <4>7. InPacket(k, p)'
        BY <1>1, <1>2, <2>2, <2>3, <2>a, <3>5, <4>1, <4>3, <4>4, <4>5, <4>6 DEF InPacket
      <4>8. pc' = "crash" => Excused
        <5>1. Stops(p) => Excused
          BY <2>2 DEF Excused
        <5> QED BY <2>1, <4>3, <5>1, NotListed DEF Stops
      <4> QED BY <1>1, <1>2, <2>1, <4>7, <4>8 DEF StepInv
    <3> QED BY <3>6, <3>7
  <2> QED BY <2>4, <2>5
<1> QED BY <1>3, <1>4

\* The fields that are to be read of a packet.
LEMMA FieldsIs ==
    ASSUME NEW p \in Packets, command = Code[p.kind] + 2 * p.qos, HasFields(p)
    PROVE  /\ p.kind = "CONNECT" => Fields = <<"name", "version", "flags", "timer", "id">>
           /\ p.kind = "PUBLISH" => Fields = Cons("str", Rest(p))
           /\ p.kind = "SUBSCRIBE" =>
                 Fields = IF p.qos = 1 THEN <<"msgid", "topics">> ELSE <<"topics">>
<1>1. /\ p.kind \in DOMAIN Code /\ qosflag = p.qos /\ p.qos \in 0 .. 3
      /\ \A k \in DOMAIN Code : Is(k) <=> p.kind = k
  BY Kinds DEF Is, qosflag
<1>2. DOMAIN Code = {"CONNECT", "PUBLISH", "PUBACK", "SUBSCRIBE", "UNSUBSCRIBE",
                     "PINGREQ", "DISCONNECT"}
  BY DEF Code
<1>3. (Is("CONNECT") <=> p.kind = "CONNECT") /\ (Is("PUBLISH") <=> p.kind = "PUBLISH")
  BY <1>1, <1>2
<1>4. PICK i : i = IF p.qos > 0 THEN <<"msgid">> ELSE <<>>
  OBVIOUS
<1>5. /\ <<"str">> \o <<"msgid">> = <<"str", "msgid">>
      /\ <<"str">> \o <<"msgid", "content">> = <<"str", "msgid", "content">>
      /\ <<"str">> \o <<"content">> = <<"str", "content">>
      /\ <<"msgid">> \o <<"topics">> = <<"msgid", "topics">>
  <2>1. /\ "str" \in Labels /\ "msgid" \in Labels /\ "content" \in Labels /\ "topics" \in Labels
    BY DEF Labels
  <2> QED BY <2>1, ConcatTwo
<1>6. CASE p.kind = "CONNECT"
  BY <1>3, <1>6 DEF Fields
<1>7. CASE p.kind = "PUBLISH"
  <2>1. Fields = <<"str">> \o i \o <<"content">>
    BY <1>1, <1>3, <1>4, <1>7 DEF Fields
  <2>2. CASE p.qos > 0
    <3>1. i = <<"msgid">> /\ Cons("str", Rest(p)) = <<"str", "msgid", "content">>
      BY <1>4, <1>5, <2>2 DEF Rest, Cons
    <3>2. Fields = <<"str", "msgid">> \o <<"content">>
      BY <1>5, <2>1, <3>1
    <3>3. PICK t : t = <<"str", "msgid">> \o <<"content">>
      OBVIOUS
    <3>4. <<"str", "msgid">> \in Seq(Labels) /\ <<"content">> \in Seq(Labels)
      BY DEF Labels
    <3>5. t \in Seq(Labels) /\ Len(t) = 3 /\ t[1] = "str" /\ t[2] = "msgid" /\ t[3] = "content"
      BY <3>3, <3>4
    <3>6. t = <<"str", "msgid", "content">>
      BY <3>5
    <3> QED BY <1>7, <3>1, <3>2, <3>3, <3>6
  <2>3. CASE ~ (p.qos > 0)
    <3>1. i = <<>> /\ Cons("str", Rest(p)) = <<"str", "content">>
      BY <1>4, <1>5, <2>3 DEF Rest, Cons
    <3>2. <<"str">> \in Seq(Labels)
      BY DEF Labels
    <3>3. <<"str">> \o i = <<"str">>
      BY <3>1, <3>2
    <3> QED BY <1>5, <1>7, <2>1, <3>1, <3>3
  <2> QED BY <2>2, <2>3
<1>8. CASE p.kind = "SUBSCRIBE"
  <2>1. Fields = (IF p.qos = 1 THEN i ELSE <<>>) \o <<"topics">>
    BY <1>1, <1>3, <1>4, <1>8 DEF Fields
  <2>2. <<>> \o <<"topics">> = <<"topics">>
    <3>1. <<"topics">> \in Seq(Labels)
      BY DEF Labels
    <3> QED BY <3>1
  <2> QED BY <1>4, <1>5, <1>8, <2>1, <2>2
<1> QED BY <1>6, <1>7, <1>8

\* The payload.
LEMMA PayloadStep ==
    ASSUME TypeInv, StepInv, Recv \/ RecvEnds PROVE StepInv'
<1>1. /\ pc = "payload" /\ got = <<>> /\ out = None /\ pos = 0
      /\ UNCHANGED <<sent, arrived, command, length, digits, base, pos, got, listed,
                     out, begun, cut>>
  BY DEF Recv, RecvEnds, stream_vars, field_vars, TypeInv
<1>2. /\ Acks' = Acks /\ \A i : Start(i)' = Start(i)
      /\ Excused' = Excused /\ StopsOnlyOn' = (pc' = "crash" => Excused')
      /\ Long' = Long
  BY <1>1, SameSent
<1>3. CASE Acks
  BY <1>2, <1>3 DEF StepInv, Excused
<1>4. CASE ~ Acks
  <2>1. PICK k \in DOMAIN sent, p \in Packets : InPacket(k, p)
    BY <1>1, <1>4, WhichPacket
  <2>2. /\ p = sent[k] /\ begun = Start(k) /\ command = Code[p.kind] + 2 * p.qos
        /\ read > begun /\ (~ cut => arrived >= Start(k + 1))
        /\ base = begun + 1 + Lengths(p) /\ length = Len(Payload(p)) /\ HasFields(p)
    BY <1>1, <2>1 DEF InPacket
  <2>a. ASSUME ~ Long PROVE Counted(k, p)'
    <3>1. Counted(k, p) /\ pc' # "command"
      BY <2>1, <2>a DEF InPacket, Recv, RecvEnds
    <3> QED BY <1>1, <3>1, CountedFrame
  <2>3. CASE Recv
    <3>1. pc' = "payload" /\ read' = Min({arrived, base + length})
          /\ read < arrived /\ read < base + length
      BY <1>1, <2>3 DEF Recv
    <3>2. arrived \in Nat /\ base + length \in Nat /\ read \in Nat /\ begun \in Nat
      BY DEF TypeInv
    <3>3. read' \in {arrived, base + length}
      BY <3>1, <3>2, MinOfTwo
    <3>4. read' > begun'
      BY <1>1, <2>2, <3>1, <3>2, <3>3, SMTT(30)
    <3>5. FieldsOK(p)'
      BY <1>1, <3>1, NothingOf
    <3>6. InPacket(k, p)'
      BY <1>1, <1>2, <2>2, <2>a, <3>1, <3>4, <3>5 DEF InPacket
    <3> QED BY <1>1, <1>2, <2>1, <3>1, <3>6 DEF StepInv
  <2>4. CASE RecvEnds /\ read = base + length
    <3>1. pc' = "fields" /\ todo' = Fields /\ read' = read
      BY <2>4 DEF RecvEnds
    <3>2. p.kind # "PUBLISH" => NoContent'
      <4>1. ASSUME p.kind # "PUBLISH" PROVE NoContent'
        <5>1. \/ todo' = <<"name", "version", "flags", "timer", "id">>
              \/ todo' = <<"msgid", "topics">> \/ todo' = <<"topics">>
          BY <2>2, <3>1, <4>1, FieldsIs DEF HasFields
        <5>2. CASE todo' = <<"name", "version", "flags", "timer", "id">>
          BY <5>2 DEF NoContent
        <5>3. CASE todo' = <<"msgid", "topics">>
          BY <5>3 DEF NoContent
        <5>4. CASE todo' = <<"topics">>
          BY <5>4 DEF NoContent
        <5> QED BY <5>1, <5>2, <5>3, <5>4
      <4> QED BY <4>1
    <3>3. AtField(p, 0)'
      <4>1. CASE p.kind = "CONNECT"
        BY <1>1, <2>2, <3>1, <4>1, FieldsIs DEF AtField, AtConnect
      <4>2. CASE p.kind = "PUBLISH"
        BY <1>1, <2>2, <3>1, <4>2, FieldsIs DEF AtField, AtPublish
      <4>3. CASE p.kind = "SUBSCRIBE"
        <5>1. CASE p.qos = 1
          BY <1>1, <2>2, <3>1, <4>3, <5>1, FieldsIs DEF AtField, AtSubscribe
        <5>2. CASE p.qos # 1
          <6>1. p.qos = 0
            BY <4>3, <5>2, ConstantsOK DEF WellFormed
          <6>2. Len(Header(p)) = 0
            BY <4>3, <6>1, HeaderOctets
          <6>3. After(p, 0) = 0
            <7>1. 0 \in 0 .. Len(p.strs)
              BY StringsRead0
            <7> QED BY <6>2, <7>1, StringAt
          <6> QED BY <1>1, <2>2, <3>1, <4>3, <5>2, <6>3, FieldsIs DEF AtField, AtSubscribe
        <5> QED BY <5>1, <5>2
      <4> QED BY <2>2, <4>1, <4>2, <4>3 DEF HasFields
    <3>4. FieldsOK(p)'
      <4>1. First(Strings(p), 0) = <<>> /\ Len(p.strs) \in Nat
        BY StringsRead0
      <4>2. 0 \in 0 .. Len(p.strs) /\ ReadStrings(p, 0)'
        BY <1>1, <3>1, <3>3, <4>1 DEF ReadStrings
      <4> QED BY <1>1, <4>2 DEF FieldsOK
    <3>5. InPacket(k, p)'
      BY <1>1, <1>2, <2>2, <2>a, <3>1, <3>2, <3>4 DEF InPacket
    <3> QED BY <1>1, <1>2, <2>1, <3>1, <3>5 DEF StepInv
  <2>5. CASE RecvEnds /\ read # base + length
    <3>1. read < base + length /\ read = arrived /\ pc' = "crash" /\ read' = read
      BY <2>5 DEF RecvEnds
    <3>2. cut
      <4>1. Start(k + 1) = Start(k) + 1 + Lengths(p) + Len(Payload(p))
        BY <2>2, Sent
      <4>2. Start(k + 1) = base + length
        BY <2>2, <4>1
      <4> QED BY <2>2, <3>1, <4>2 DEF TypeInv
    <3>3. FieldsOK(p)'
      BY <1>1, <3>1, NothingOf
    <3>4. InPacket(k, p)'
      BY <1>1, <1>2, <2>2, <2>a, <3>1, <3>3 DEF InPacket
    <3> QED BY <1>1, <1>2, <2>1, <3>2, <3>4 DEF StepInv, Excused
  <2> QED BY <2>3, <2>4, <2>5
<1> QED BY <1>3, <1>4

\* The strings of a packet, while none has 256 bytes.
LEMMA NotLong ==
    ASSUME NEW k \in DOMAIN sent, NEW p \in Packets, InPacket(k, p), ~ Long
    PROVE  Short(p)
<1>1. p = sent[k]
  BY DEF InPacket
<1>2. p.strs \in Seq(0 .. MaxString)
  BY ConstantsOK DEF WellFormed
<1>3. \A i \in DOMAIN p.strs : p.strs[i] \in Nat
  BY <1>2, Bounds
<1>4. \A i \in DOMAIN p.strs : ~ (p.strs[i] >= 256)
  BY <1>1 DEF Long
<1> QED BY <1>3, <1>4 DEF Short

\* What a step that reads a field has to show.
LEMMA FieldFrame ==
    ASSUME TypeInv, StepInv, pc = "fields",
           UNCHANGED <<sent, arrived, read, command, length, base, begun, cut>>,
           pc' \in {"fields", "shut", "crash", "command"},
           NEW k \in DOMAIN sent, NEW p \in Packets, InPacket(k, p),
           p.kind # "PUBLISH" => out' = None /\ (pc' = "fields" => NoContent'),
           Short(p) => FieldsOK(p)',
           Short(p) /\ Counted(k, p) => Counted(k, p)',
           pc' = "crash" => Excused
    PROVE  StepInv'
<1>1. /\ Acks' = Acks /\ \A i : Start(i)' = Start(i)
      /\ Excused' = Excused /\ StopsOnlyOn' = (pc' = "crash" => Excused')
      /\ Long' = Long
  BY SameSent
<1>2. read = Start(k + 1)
  BY ByteAt
<1>a. ~ Long => Short(p) /\ Counted(k, p)
  BY NotLong DEF InPacket
<1>3. InPacket(k, p)'
  BY <1>1, <1>2, <1>a DEF InPacket
<1> QED BY <1>1, <1>3 DEF StepInv

\* Where the handler stops, what it has read stays.
LEMMA ShutFields ==
    ASSUME NEW p, FieldsOK(p), UNCHANGED <<got, out>>, pc' \in {"shut", "crash"}
    PROVE  FieldsOK(p)'
BY DEF FieldsOK, ReadStrings

\* Which field it is, and what comes after it.
LEMMA WhichField ==
    ASSUME TypeInv, NEW p \in Packets, NEW m \in 0 .. Len(p.strs), AtField(p, m)
    PROVE  LET t == Tail(todo)
               f == Head(todo)
               l == Len(p.strs)
           IN  \/ p.kind = "CONNECT" /\ m = 0 /\ pos = 0 /\ todo # <<>> /\ f = "name"
                    /\ t = <<"version", "flags", "timer", "id">>
               \/ p.kind = "CONNECT" /\ m = 0 /\ pos = 8 /\ todo # <<>> /\ f = "version"
                    /\ t = <<"flags", "timer", "id">>
               \/ p.kind = "CONNECT" /\ m = 0 /\ pos = 9 /\ todo # <<>> /\ f = "flags"
                    /\ t = <<"timer", "id">>
               \/ p.kind = "CONNECT" /\ m = 0 /\ pos = 10 /\ todo # <<>> /\ f = "timer"
                    /\ t = Cons("id", Strs(l - 1))
               \/ p.kind = "CONNECT" /\ m = 0 /\ pos = 12 /\ todo # <<>> /\ f = "id"
                    /\ t = Strs(l - 1)
               \/ p.kind = "CONNECT" /\ m > 0 /\ m < l /\ pos = After(p, m) /\ todo # <<>>
                    /\ f = "str" /\ t = Strs(l - (m + 1))
               \/ p.kind = "CONNECT" /\ m > 0 /\ m = l /\ pos = After(p, m) /\ todo = <<>>
               \/ p.kind = "PUBLISH" /\ m = 0 /\ pos = 0 /\ todo # <<>> /\ f = "str"
                    /\ t = Rest(p)
               \/ p.kind = "PUBLISH" /\ m = 1 /\ pos = After(p, 1) /\ p.qos > 0 /\ todo # <<>>
                    /\ f = "msgid" /\ t = <<"content">>
               \/ p.kind = "PUBLISH" /\ m = 1 /\ pos = After(p, 1) + Len(MsgId(p))
                    /\ todo # <<>> /\ f = "content"
               \/ p.kind = "SUBSCRIBE" /\ m = 0 /\ p.qos = 1 /\ pos = 0 /\ todo # <<>>
                    /\ f = "msgid" /\ t = <<"topics">>
               \/ p.kind = "SUBSCRIBE" /\ pos = After(p, m) /\ todo = <<"topics">>
                    /\ todo # <<>> /\ f = "topics"
<1>1. /\ Len(p.strs) \in Nat /\ p.qos \in 0 .. 3
      /\ (p.kind = "CONNECT" => Len(p.strs) >= 1)
  <2>1. /\ p.strs \in Seq(0 .. MaxString) /\ p.qos \in 0 .. 3
        /\ (p.kind = "CONNECT" =>
              Len(p.strs) = 1 + 2 * Count("will" \in p.flags) + Count("uname" \in p.flags)
                              + Count("pwd" \in p.flags))
    BY ConstantsOK DEF WellFormed
  <2>2. \A b : Count(b) \in Nat
    BY DEF Count
  <2>3. PICK x, y, z : /\ x = Count("will" \in p.flags) /\ y = Count("uname" \in p.flags)
                       /\ z = Count("pwd" \in p.flags)
    OBVIOUS
  <2> QED BY <2>1, <2>2, <2>3
<1>2. CASE p.kind = "CONNECT" /\ AtConnect(p, m)
  <2>1. PICK l, s : l = Len(p.strs) - 1 /\ s = Strs(l)
    OBVIOUS
  <2>2. l \in Nat /\ s \in Seq(Labels) /\ "id" \in Labels /\ "timer" \in Labels
    BY <1>1, <1>2, <2>1, StrsFacts DEF Labels
  <2>3. CASE m = 0 /\ todo = <<"name", "version", "flags", "timer", "id">> /\ pos = 0
    <3>1. todo # <<>> /\ Head(todo) = "name" /\ Tail(todo) = <<"version", "flags", "timer", "id">>
      BY <2>3
    <3> QED BY <1>2, <2>3, <3>1
  <2>4. CASE m = 0 /\ todo = <<"version", "flags", "timer", "id">> /\ pos = 8
    <3>1. todo # <<>> /\ Head(todo) = "version" /\ Tail(todo) = <<"flags", "timer", "id">>
      BY <2>4
    <3> QED BY <1>2, <2>4, <3>1
  <2>5. CASE m = 0 /\ todo = <<"flags", "timer", "id">> /\ pos = 9
    <3>1. todo # <<>> /\ Head(todo) = "flags" /\ Tail(todo) = <<"timer", "id">>
      BY <2>5
    <3> QED BY <1>2, <2>5, <3>1
  <2>6. CASE m = 0 /\ todo = Cons("timer", Cons("id", Strs(Len(p.strs) - 1))) /\ pos = 10
    <3>1. PICK i : i = Cons("id", s)
      OBVIOUS
    <3>2. i \in Seq(Labels)
      BY <2>2, <3>1, ConsFacts
    <3>3. todo = Cons("timer", i)
      BY <2>1, <2>6, <3>1
    <3>4. todo # <<>> /\ Head(todo) = "timer" /\ Tail(todo) = i
      BY <2>2, <3>2, <3>3, ConsFacts
    <3> QED BY <1>2, <2>1, <2>6, <3>1, <3>4
  <2>7. CASE m = 0 /\ todo = Cons("id", Strs(Len(p.strs) - 1)) /\ pos = 12
    <3>1. todo = Cons("id", s)
      BY <2>1, <2>7
    <3>2. todo # <<>> /\ Head(todo) = "id" /\ Tail(todo) = s
      BY <2>2, <3>1, ConsFacts
    <3> QED BY <1>2, <2>1, <2>7, <3>2
  <2>8. CASE m > 0 /\ todo = Strs(Len(p.strs) - m) /\ pos = After(p, m)
    <3>1. PICK n : n = Len(p.strs) - m
      OBVIOUS
    <3>2. n \in Nat /\ todo = Strs(n)
      BY <1>1, <2>8, <3>1
    <3>3. CASE n = 0
      <4>1. todo = <<>> /\ m = Len(p.strs)
        BY <1>1, <3>1, <3>2, <3>3, StrsFacts
      <4> QED BY <1>2, <2>8, <4>1
    <3>4. CASE n > 0
      <4>1. todo # <<>> /\ Head(todo) = "str" /\ Tail(todo) = Strs(n - 1)
        BY <3>2, <3>4, StrsFacts
      <4>2. n - 1 = Len(p.strs) - (m + 1) /\ m < Len(p.strs)
        BY <1>1, <3>1, <3>4
      <4> QED BY <1>2, <2>8, <4>1, <4>2
    <3> QED BY <3>2, <3>3, <3>4, SMTT(30)
  <2> QED BY <1>2, <2>3, <2>4, <2>5, <2>6, <2>7, <2>8 DEF AtConnect
<1>3. CASE p.kind = "PUBLISH" /\ AtPublish(p, m)
  <2>1. /\ Rest(p) \in Seq(Labels) /\ Rest(p) # <<>> /\ "str" \in Labels
        /\ (p.qos > 0 => Head(Rest(p)) = "msgid" /\ Tail(Rest(p)) = <<"content">>)
        /\ (~ (p.qos > 0) => Rest(p) = <<"content">>)
    BY RestFacts DEF Labels
  <2>2. CASE m = 0 /\ todo = Cons("str", Rest(p)) /\ pos = 0
    <3>1. todo # <<>> /\ Head(todo) = "str" /\ Tail(todo) = Rest(p)
      <4>1. Rest(p) \in Seq(Labels) /\ "str" \in Labels
        BY <2>1
      <4>2. /\ Cons("str", Rest(p)) # <<>> /\ Head(Cons("str", Rest(p))) = "str"
            /\ Tail(Cons("str", Rest(p))) = Rest(p)
        BY <4>1, ConsFacts
      <4> QED BY <2>2, <4>2
    <3> QED BY <1>3, <2>2, <3>1
  <2>3. CASE m = 1 /\ todo = Rest(p) /\ pos = After(p, 1) /\ p.qos > 0
    BY <1>3, <2>1, <2>3
  <2>4. CASE m = 1 /\ todo = Rest(p) /\ pos = After(p, 1) /\ ~ (p.qos > 0)
    <3>1. Len(MsgId(p)) = 0
      BY <2>4, HeaderOctets
    <3>2. todo # <<>> /\ Head(todo) = "content"
      BY <2>1, <2>4
    <3>3. pos + Len(MsgId(p)) = pos
      BY <3>1 DEF TypeInv
    <3> QED BY <1>3, <2>4, <3>2, <3>3
  <2>5. CASE m = 1 /\ todo = <<"content">> /\ pos = After(p, 1) + Len(MsgId(p))
    <3>1. todo # <<>> /\ Head(todo) = "content"
      BY <2>5
    <3> QED BY <1>3, <2>5, <3>1
  <2> QED BY <1>3, <2>2, <2>3, <2>4, <2>5 DEF AtPublish
<1>4. CASE p.kind = "SUBSCRIBE" /\ AtSubscribe(p, m)
  <2>1. CASE m = 0 /\ p.qos = 1 /\ todo = <<"msgid", "topics">> /\ pos = 0
    <3>1. todo # <<>> /\ Head(todo) = "msgid" /\ Tail(todo) = <<"topics">>
      BY <2>1
    <3> QED BY <1>4, <2>1, <3>1
  <2>2. CASE todo = <<"topics">> /\ pos = After(p, m)
    <3>1. todo # <<>> /\ Head(todo) = "topics"
      BY <2>2
    <3> QED BY <1>4, <2>2, <3>1
  <2> QED BY <1>4, <2>1, <2>2 DEF AtSubscribe
<1> QED BY <1>2, <1>3, <1>4 DEF AtField

\* The strings that the flags of a CONNECT announce.
LEMMA FlagStrings ==
    ASSUME NEW p \in Packets, p.kind = "CONNECT"
    PROVE  StringsOf(Flags(p)) = Strs(Len(p.strs) - 1)
<1>1. /\ p.flags \subseteq {"uname", "pwd", "will"} /\ ("pwd" \in p.flags => "uname" \in p.flags)
      /\ Len(p.strs) = 1 + 2 * Count("will" \in p.flags) + Count("uname" \in p.flags)
                         + Count("pwd" \in p.flags)
  BY ConstantsOK DEF WellFormed
<1>2. PICK u, v, w : /\ u = (IF "uname" \in p.flags THEN 1 ELSE 0)
                     /\ v = (IF "pwd" \in p.flags THEN 1 ELSE 0)
                     /\ w = (IF "will" \in p.flags THEN 1 ELSE 0)
  OBVIOUS
<1>3. u \in {0, 1} /\ v \in {0, 1} /\ w \in {0, 1} /\ v <= u
  BY <1>1, <1>2
<1>4. Flags(p) = 128 * u + 64 * v + 4 * w
  BY <1>2 DEF Flags, Flag
<1>5. Len(p.strs) - 1 = 2 * w + u + v
  BY <1>1, <1>2 DEF Count
<1>6. PICK b : b = 128 * u + 64 * v + 4 * w
  OBVIOUS
<1>7. /\ ((b \div 4) % 2 = 1 <=> w = 1) /\ ((b \div 128) % 2 = 1 <=> u = 1)
      /\ ((b \div 64) % 2 = 1 <=> v = 1)
  BY <1>3, <1>6
<1>8. StringsOf(b) = (IF w = 1 THEN <<"str", "str">> ELSE <<>>)
                       \o (IF u = 1 THEN <<"str">> \o (IF v = 1 THEN <<"str">> ELSE <<>>) ELSE <<>>)
  BY <1>7, Zenon DEF StringsOf
<1>9. PICK s, t, i : /\ s = (IF w = 1 THEN <<"str", "str">> ELSE <<>>)
                     /\ t = (IF v = 1 THEN <<"str">> ELSE <<>>)
                     /\ i = (IF u = 1 THEN <<"str">> \o t ELSE <<>>)
  OBVIOUS
<1>10. t \in Seq({"str"}) /\ Len(t) = v
  <2>1. <<"str">> \in Seq({"str"}) /\ <<>> \in Seq({"str"})
    OBVIOUS
  <2>2. CASE v = 1
    BY <1>9, <2>1, <2>2
  <2>3. CASE v = 0
    BY <1>9, <2>1, <2>3
  <2> QED BY <1>3, <2>2, <2>3
<1>11. i \in Seq({"str"}) /\ Len(i) = u + v
  <2>1. <<"str">> \in Seq({"str"}) /\ <<>> \in Seq({"str"})
    OBVIOUS
  <2>2. CASE u = 1
    BY <1>3, <1>9, <1>10, <2>1, <2>2
  <2>3. CASE u = 0
    BY <1>3, <1>9, <2>1, <2>3
  <2> QED BY <1>3, <2>2, <2>3
<1>12. s \in Seq({"str"}) /\ Len(s) = 2 * w
  <2>1. <<"str", "str">> \in Seq({"str"}) /\ <<>> \in Seq({"str"})
    OBVIOUS
  <2>2. CASE w = 1
    BY <1>9, <2>1, <2>2
  <2>3. CASE w = 0
    BY <1>9, <2>1, <2>3
  <2> QED BY <1>3, <2>2, <2>3
<1>13. PICK r : r = s \o i
  OBVIOUS
<1>14. r \in Seq({"str"}) /\ Len(r) = Len(s) + Len(i)
  <2>1. s \in Seq({"str"}) /\ i \in Seq({"str"})
    BY <1>11, <1>12
  <2> QED BY <1>13, <2>1
<1>15. PICK n : n = 2 * w + u + v
  OBVIOUS
<1>16. Len(r) = n /\ n \in Nat
  BY <1>3, <1>11, <1>12, <1>14, <1>15
<1>17. r = [j \in 1 .. n |-> "str"]
  BY <1>14, <1>16
<1>18. StringsOf(Flags(p)) = r
  BY <1>4, <1>6, <1>8, <1>9, <1>13
<1> QED BY <1>5, <1>15, <1>17, <1>18 DEF Strs

\* A field that cannot be read: the packet is one of the excused.
LEMMA FailStep ==
    ASSUME TypeInv, StepInv, NEW f, At(f), Fail,
           NEW k \in DOMAIN sent, NEW p \in Packets, InPacket(k, p)
    PROVE  StepInv'
<1>1. /\ pc = "fields" /\ pc' = "shut"
      /\ UNCHANGED <<sent, arrived, read, command, length, base, begun, cut, got, out, pos,
                     listed>>
  BY DEF At, Fail, stream_vars, field_vars
<1>2. Short(p) => FieldsOK(p)'
  BY <1>1, ShutFields DEF InPacket
<1>3. p.kind # "PUBLISH" => out' = None /\ (pc' = "fields" => NoContent')
  BY <1>1 DEF InPacket
<1>4. Counted(k, p) => Counted(k, p)'
  BY <1>1, CountedFrame
<1> QED BY <1>1, <1>2, <1>3, <1>4, FieldFrame

\* A good field of packet p, of which m strings have then been read.
LEMMA GoodStep ==
    ASSUME TypeInv, StepInv, NEW f, At(f), NEW n, NEW more \in Seq({"str"}), Good(n, more),
           NEW k \in DOMAIN sent, NEW p \in Packets, InPacket(k, p),
           Short(p) => /\ \E m \in 0 .. Len(p.strs) :
                             got' = First(Strings(p), m) /\ AtField(p, m)'
                       /\ Counted(k, p) => Counted(k, p)'
    PROVE  StepInv'
<1>1. /\ pc = "fields" /\ pc' = "fields"
      /\ UNCHANGED <<sent, arrived, read, command, length, base, begun, cut, out>>
      /\ todo' = Tail(todo) \o more /\ todo # <<>> /\ todo \in Seq(Labels)
  BY DEF At, Good, stream_vars, TypeInv
<1>2. ASSUME Short(p) PROVE FieldsOK(p)'
  <2>1. PICK m \in 0 .. Len(p.strs) : got' = First(Strings(p), m) /\ AtField(p, m)'
    BY <1>2
  <2>2. ReadStrings(p, m)'
    BY <1>1, <2>1 DEF ReadStrings
  <2>3. out' # None => out' = Forward(p.strs[1], p.plain)
    BY <1>1, <1>2 DEF InPacket, FieldsOK
  <2> QED BY <2>2, <2>3 DEF FieldsOK
<1>3. ASSUME p.kind # "PUBLISH" PROVE out' = None /\ NoContent'
  <2>1. out = None /\ \A i \in DOMAIN todo : todo[i] # "content"
    BY <1>1, <1>3 DEF InPacket, NoContent
  <2>2. PICK t : t = Tail(todo)
    OBVIOUS
  <2>3. /\ t \in Seq(Labels) /\ Len(t) = Len(todo) - 1 /\ DOMAIN todo = 1 .. Len(todo)
        /\ \A i \in 1 .. Len(t) : t[i] = todo[i + 1]
    BY <1>1, <2>2
  <2>4. \A i \in 1 .. Len(t) : t[i] # "content"
    <3>1. ASSUME NEW i \in 1 .. Len(t) PROVE t[i] # "content"
      <4>1. i + 1 \in DOMAIN todo
        BY <2>3
      <4> QED BY <2>1, <2>3, <4>1
    <3> QED BY <3>1
  <2>5. "str" \in Labels
    BY DEF Labels
  <2>6. more \in Seq(Labels) /\ \A i \in 1 .. Len(more) : more[i] # "content"
    BY <2>5
  <2>7. PICK u : u = t \o more
    OBVIOUS
  <2>8. /\ DOMAIN u = 1 .. Len(t) + Len(more)
        /\ \A i \in 1 .. Len(t) : u[i] = t[i]
        /\ \A i \in 1 .. Len(more) : u[Len(t) + i] = more[i]
    <3>1. t \in Seq(Labels) /\ more \in Seq(Labels)
      BY <2>3, <2>6
    <3> QED BY <2>7, <3>1
  <2>9. ASSUME NEW i \in DOMAIN u PROVE u[i] # "content"
    <3>1. Len(t) \in Nat /\ Len(more) \in Nat
      BY <2>3, <2>6
    <3>2. CASE i <= Len(t)
      <4>1. i \in 1 .. Len(t)
        BY <2>8, <3>1, <3>2
      <4> QED BY <2>4, <2>8, <4>1
    <3>3. CASE ~ (i <= Len(t))
      <4>1. PICK j : j = i - Len(t)
        OBVIOUS
      <4>2. j \in 1 .. Len(more) /\ i = Len(t) + j
        BY <2>8, <3>1, <3>3, <4>1
      <4> QED BY <2>6, <2>8, <4>2
    <3> QED BY <3>2, <3>3
  <2>10. todo' = u
    BY <1>1, <2>2, <2>7
  <2> QED BY <1>1, <2>1, <2>9, <2>10 DEF NoContent
<1> QED BY <1>1, <1>2, <1>3, FieldFrame

\* The string at the cursor is the next one of the packet.
LEMMA NextString ==
    ASSUME TypeInv, NEW k \in DOMAIN sent, NEW p \in Packets, InPacket(k, p), pc = "fields",
           Short(p), NEW m \in 0 .. Len(p.strs), m < Len(p.strs), pos = After(p, m),
           got = First(Strings(p), m)
    PROVE  /\ StrFits /\ Fits(2) /\ StrLen(pos) = p.strs[m + 1] /\ p.strs[m + 1] \in Nat
           /\ m + 1 \in 0 .. Len(p.strs)
           /\ Append(got, <<pos + 2, p.strs[m + 1]>>) = First(Strings(p), m + 1)
           /\ After(p, m + 1) =
                 pos + 2 + p.strs[m + 1] + (IF p.kind = "SUBSCRIBE" THEN 1 ELSE 0)
           /\ After(p, m + 1) <= length
<1>1. PICK y, n : y = Payload(p) /\ n = p.strs[m + 1]
  OBVIOUS
<1>2. /\ n \in Nat /\ After(p, m + 1) = pos + 2 + n + (IF p.kind = "SUBSCRIBE" THEN 1 ELSE 0)
      /\ After(p, m + 1) <= Len(y) /\ y[pos + 1] = n \div 256 /\ y[pos + 2] = n % 256
      /\ Append(got, <<pos + 2, n>>) = First(Strings(p), m + 1)
  <2>1. /\ p.strs[m + 1] \in Nat
        /\ After(p, m + 1) =
              After(p, m) + 2 + p.strs[m + 1] + (IF p.kind = "SUBSCRIBE" THEN 1 ELSE 0)
        /\ After(p, m + 1) <= Len(Payload(p))
    BY StringAt
  <2>2. /\ Payload(p)[After(p, m) + 1] = p.strs[m + 1] \div 256
        /\ Payload(p)[After(p, m) + 2] = p.strs[m + 1] % 256
    BY StringAt, SMTT(30)
  <2>3. First(Strings(p), m + 1) =
           Append(First(Strings(p), m), <<After(p, m) + 2, p.strs[m + 1]>>)
    BY StringAt, SMTT(30)
  <2> QED BY <1>1, <2>1, <2>2, <2>3
<1>3. /\ length = Len(y) /\ \A i \in Nat : i < length => Byte(i) = y[i + 1]
  BY <1>1, ByteAt
<1>4. pos \in Nat /\ length \in Nat /\ Len(p.strs) \in Nat
  BY StringsRead0 DEF TypeInv
<1>5. m + 1 \in 0 .. Len(p.strs) /\ n < 256
  <2>1. m + 1 \in DOMAIN p.strs
    BY <1>4, ConstantsOK DEF WellFormed
  <2> QED BY <1>1, <1>4, <2>1 DEF Short
<1>6. PICK c : c = IF p.kind = "SUBSCRIBE" THEN 1 ELSE 0
  OBVIOUS
<1>7. c \in Nat /\ n \in Nat /\ pos + 2 + n + c <= length
  <2>1. After(p, m + 1) = pos + 2 + n + c
    BY <1>2, <1>6
  <2> QED BY <1>2, <1>3, <1>6, <2>1
<1>8. Byte(pos) = y[pos + 1] /\ Byte(pos + 1) = y[pos + 2]
  <2>1. PICK i : i = pos + 1
    OBVIOUS
  <2>2. i \in Nat /\ i < length /\ i + 1 = pos + 2 /\ pos < length
    BY <1>4, <1>7, <2>1, SMTT(30)
  <2> QED BY <1>3, <1>4, <2>1, <2>2
<1>9. StrLen(pos) = n
  <2>1. n \div 256 = 0 /\ n % 256 = n
    BY <1>2, <1>5
  <2>2. PICK a, b : a = Byte(pos) /\ b = Byte(pos + 1)
    OBVIOUS
  <2>3. a = 0 /\ b = n
    BY <1>2, <1>8, <2>1, <2>2
  <2>4. StrLen(pos) = a * 16 + b
    BY <2>2 DEF StrLen
  <2> QED BY <1>2, <2>3, <2>4
<1>10. Fits(2) /\ Fits(2 + n)
  <2>1. pos + 2 <= length /\ pos + (2 + n) <= length
    BY <1>4, <1>7
  <2> QED BY <2>1 DEF Fits
<1> QED BY <1>1, <1>2, <1>3, <1>5, <1>9, <1>10 DEF StrFits

\* The bytes of a CONNECT that come before its strings.
LEMMA ConnectBytes ==
    ASSUME TypeInv, NEW k \in DOMAIN sent, NEW p \in Packets, InPacket(k, p), pc = "fields",
           p.kind = "CONNECT"
    PROVE  StrLen(0) = 6 /\ Byte(9) = Flags(p)
<1>1. PICK y, h : y = Payload(p) /\ h = Header(p)
  OBVIOUS
<1>2. length = Len(y) /\ \A i \in Nat : i < length => Byte(i) = y[i + 1]
  BY <1>1, ByteAt
<1>3. h \in Seq(Octet) /\ Len(h) = 12 /\ h[1] = 0 /\ h[2] = 6 /\ h[10] = Flags(p)
  BY <1>1, ConnectHeader
<1>4. /\ Len(y) = Len(h) + Len(FlattenSeq(Pieces(p))) + Len(Trailer(p))
      /\ \A i \in 1 .. Len(h) : y[i] = h[i]
      /\ FlattenSeq(Pieces(p)) \in Seq(Octet)
  BY <1>1, PayloadOctets
<1>5. Len(y) >= 12
  <2>1. Trailer(p) \in Seq(Octet)
    BY HeaderOctets
  <2>2. Len(FlattenSeq(Pieces(p))) \in Nat /\ Len(Trailer(p)) \in Nat
    BY <1>4, <2>1
  <2> QED BY <1>3, <1>4, <2>2
<1>6. Byte(0) = 0 /\ Byte(1) = 6 /\ Byte(9) = Flags(p)
  <2>1. 1 \in 1 .. Len(h) /\ 2 \in 1 .. Len(h) /\ 10 \in 1 .. Len(h)
    BY <1>3
  <2>2. y[1] = 0 /\ y[2] = 6 /\ y[10] = Flags(p)
    BY <1>3, <1>4, <2>1
  <2>3. 0 < length /\ 1 < length /\ 9 < length
    BY <1>2, <1>5 DEF TypeInv
  <2>4. Byte(0) = y[0 + 1] /\ Byte(1) = y[1 + 1] /\ Byte(9) = y[9 + 1]
    BY <1>2, <2>3
  <2> QED BY <2>2, <2>4
<1>7. StrLen(0) = 6
  <2>1. PICK a, b : a = Byte(0) /\ b = Byte(1)
    OBVIOUS
  <2>2. StrLen(0) = a * 16 + b
    BY <2>1 DEF StrLen
  <2> QED BY <1>6, <2>1, <2>2
<1> QED BY <1>6, <1>7

\* The strings of a CONNECT come after its keep-alive.
LEMMA AfterConnect ==
    ASSUME NEW p \in Packets, p.kind = "CONNECT", NEW m \in 0 .. Len(p.strs)
    PROVE  After(p, m) >= 12
<1>1. PICK s : s = Pieces(p)
  OBVIOUS
<1>2. s \in Seq(Seq(Octet)) /\ m \in 0 .. Len(s)
  BY <1>1, PieceOctets
<1>3. Upto(s, m) \in Seq(Octet)
  BY <1>2, UptoStep
<1>4. Len(Upto(s, m)) \in Nat /\ Len(Header(p)) = 12
  BY <1>3, ConnectHeader
<1> QED BY <1>1, <1>4 DEF After

LEMMA NothingMore ==
    ASSUME TypeInv, todo # <<>>
    PROVE  Tail(todo) \o <<>> = Tail(todo) /\ <<>> \in Seq({"str"})
<1>1. Tail(todo) \in Seq(Labels)
  BY DEF TypeInv
<1> QED BY <1>1

\* How many strings have been read, and which field is next.
LEMMA AtWhich ==
    ASSUME TypeInv, NEW k, NEW p \in Packets, InPacket(k, p), pc = "fields", Short(p)
    PROVE  \E m \in 0 .. Len(p.strs) : got = First(Strings(p), m) /\ AtField(p, m)
BY DEF InPacket, FieldsOK, ReadStrings

\* The fixed fields of a CONNECT.
LEMMA ConnectStep ==
    ASSUME TypeInv, StepInv, ReadName \/ ReadVersion \/ ReadFlags \/ ReadTimer,
           NEW k \in DOMAIN sent, NEW p \in Packets, InPacket(k, p)
    PROVE  StepInv'
<1>1. pc = "fields" /\ todo # <<>>
  BY DEF ReadName, ReadVersion, ReadFlags, ReadTimer, At
<1>2. Tail(todo) \o <<>> = Tail(todo) /\ <<>> \in Seq({"str"})
  BY <1>1, NothingMore
<1>3. CASE Fail
  BY <1>3, FailStep DEF ReadName, ReadVersion, ReadFlags, ReadTimer
<1>4. CASE ~ Fail /\ ReadName
  <2>1. At("name") /\ Good(2 + StrLen(pos), <<>>) /\ got' = got /\ listed' = listed
    BY <1>4 DEF ReadName
  <2>2. ASSUME Short(p)
        PROVE  /\ \E m \in 0 .. Len(p.strs) :
                     got' = First(Strings(p), m) /\ AtField(p, m)'
               /\ Counted(k, p) => Counted(k, p)'
    <3>1. PICK m \in 0 .. Len(p.strs) : got = First(Strings(p), m) /\ AtField(p, m)
      BY <1>1, <2>2, AtWhich
    <3>2. p.kind = "CONNECT" /\ m = 0 /\ pos = 0 /\ Tail(todo) = <<"version", "flags", "timer", "id">>
      BY <2>1, <3>1, WhichField DEF At
    <3>3. pos' = 8 /\ todo' = <<"version", "flags", "timer", "id">>
      <4>1. StrLen(pos) = 6
        BY <1>1, <3>2, ConnectBytes
      <4>2. pos' = 0 + (2 + 6)
        BY <2>1, <3>2, <4>1 DEF Good
      <4> QED BY <1>2, <2>1, <3>2, <4>2 DEF Good
    <3>4. Counted(k, p) => Counted(k, p)'
      BY <1>1, <2>1, <3>2, <3>3, CountedFrame DEF Good, stream_vars
    <3> QED BY <2>1, <3>1, <3>2, <3>3, <3>4 DEF AtField, AtConnect
  <2> QED BY <1>2, <2>1, <2>2, GoodStep
<1>5. CASE ~ Fail /\ ReadVersion
  <2>1. At("version") /\ Good(1, <<>>) /\ got' = got /\ listed' = listed
    BY <1>5 DEF ReadVersion
  <2>2. ASSUME Short(p)
        PROVE  /\ \E m \in 0 .. Len(p.strs) :
                     got' = First(Strings(p), m) /\ AtField(p, m)'
               /\ Counted(k, p) => Counted(k, p)'
    <3>1. PICK m \in 0 .. Len(p.strs) : got = First(Strings(p), m) /\ AtField(p, m)
      BY <1>1, <2>2, AtWhich
    <3>2. p.kind = "CONNECT" /\ m = 0 /\ pos = 8 /\ Tail(todo) = <<"flags", "timer", "id">>
      BY <2>1, <3>1, WhichField DEF At
    <3>3. pos' = 9 /\ todo' = <<"flags", "timer", "id">>
      BY <1>2, <2>1, <3>2 DEF Good
    <3>4. Counted(k, p) => Counted(k, p)'
      BY <1>1, <2>1, <3>2, <3>3, CountedFrame DEF Good, stream_vars
    <3> QED BY <2>1, <3>1, <3>2, <3>3, <3>4 DEF AtField, AtConnect
  <2> QED BY <1>2, <2>1, <2>2, GoodStep
<1>6. CASE ~ Fail /\ ReadFlags
  <2>1. At("flags") /\ Good(1, StringsOf(Byte(pos))) /\ got' = got /\ listed' = listed
    BY <1>6 DEF ReadFlags
  <2>2. StringsOf(Byte(pos)) \in Seq({"str"})
    <3>1. PICK b : b = Byte(pos)
      OBVIOUS
    <3>2. /\ <<>> \in Seq({"str"}) /\ <<"str", "str">> \in Seq({"str"})
          /\ <<"str">> \in Seq({"str"})
      OBVIOUS
    <3>3. PICK t : t = IF (b \div 64) % 2 = 1 THEN <<"str">> ELSE <<>>
      OBVIOUS
    <3>4. PICK i : i = IF (b \div 128) % 2 = 1 THEN <<"str">> \o t ELSE <<>>
      OBVIOUS
    <3>5. PICK s : s = IF (b \div 4) % 2 = 1 THEN <<"str", "str">> ELSE <<>>
      OBVIOUS
    <3>6. StringsOf(b) = s \o i
      BY <3>3, <3>4, <3>5, Zenon DEF StringsOf
    <3>7. t \in Seq({"str"}) /\ s \in Seq({"str"})
      BY <3>2, <3>3, <3>5
    <3>8. i \in Seq({"str"})
      <4>1. CASE (b \div 128) % 2 = 1
        <5>1. <<"str">> \o t \in Seq({"str"})
          BY <3>2, <3>7
        <5> QED BY <3>4, <4>1, <5>1, Zenon
      <4>2. CASE (b \div 128) % 2 # 1
        BY <3>2, <3>4, <4>2, Zenon
      <4> QED BY <4>1, <4>2
    <3> QED BY <3>1, <3>6, <3>7, <3>8
  <2>3. ASSUME Short(p)
        PROVE  /\ \E m \in 0 .. Len(p.strs) :
                     got' = First(Strings(p), m) /\ AtField(p, m)'
               /\ Counted(k, p) => Counted(k, p)'
    <3>1. PICK m \in 0 .. Len(p.strs) : got = First(Strings(p), m) /\ AtField(p, m)
      BY <1>1, <2>3, AtWhich
    <3>2. p.kind = "CONNECT" /\ m = 0 /\ pos = 9 /\ Tail(todo) = <<"timer", "id">>
      BY <2>1, <3>1, WhichField DEF At
    <3>3. PICK s : s = Strs(Len(p.strs) - 1)
      OBVIOUS
    <3>4. StringsOf(Byte(pos)) = s
      BY <1>1, <3>2, <3>3, ConnectBytes, FlagStrings
    <3>5. pos' = 10 /\ todo' = <<"timer", "id">> \o s
      <4>1. todo' = Tail(todo) \o StringsOf(Byte(pos)) /\ pos' = pos + 1
        BY <2>1 DEF Good
      <4>2. pos' = 10
        BY <3>2, <4>1
      <4>3. todo' = <<"timer", "id">> \o s
        BY <3>2, <3>4, <4>1, Zenon
      <4> QED BY <4>2, <4>3
    <3>6. s \in Seq(Labels)
      <4>1. "str" \in Labels
        BY DEF Labels
      <4> QED BY <2>2, <3>4, <4>1
    <3>7. <<"timer", "id">> \o s = Cons("timer", Cons("id", s))
      <4>1. PICK t : t = <<"timer", "id">> \o s
        OBVIOUS
      <4>2. <<"timer", "id">> \in Seq(Labels) /\ <<"timer">> \in Seq(Labels) /\ <<"id">> \in Seq(Labels)
        BY DEF Labels
      <4>3. PICK u : u = <<"id">> \o s
        OBVIOUS
      <4>4. /\ u \in Seq(Labels) /\ Len(u) = 1 + Len(s) /\ u[1] = "id"
            /\ \A i \in 1 .. Len(s) : u[1 + i] = s[i]
        BY <3>6, <4>2, <4>3
      <4>5. PICK v : v = <<"timer">> \o u
        OBVIOUS
      <4>6. /\ v \in Seq(Labels) /\ Len(v) = 1 + Len(u) /\ v[1] = "timer"
            /\ \A i \in 1 .. Len(u) : v[1 + i] = u[i]
        BY <4>2, <4>4, <4>5
      <4>7. /\ t \in Seq(Labels) /\ Len(t) = 2 + Len(s) /\ t[1] = "timer" /\ t[2] = "id"
            /\ \A i \in 1 .. Len(s) : t[2 + i] = s[i]
        BY <3>6, <4>1, <4>2
      <4>8. Len(s) \in Nat /\ Len(v) = Len(t)
        BY <3>6, <4>4, <4>6, <4>7
      <4>9. ASSUME NEW i \in 1 .. Len(t) PROVE t[i] = v[i]
        <5>1. CASE i = 1
          BY <4>6, <4>7, <5>1
        <5>2. CASE i = 2
          <6>1. 1 \in 1 .. Len(u)
            BY <4>4, <4>8
          <6>2. v[1 + 1] = u[1]
            BY <4>6, <6>1
          <6> QED BY <4>4, <4>7, <5>2, <6>2
        <5>3. CASE i \notin {1, 2}
          <6>1. PICK j : j = i - 2
            OBVIOUS
          <6>2. j \in 1 .. Len(s) /\ i = 2 + j /\ i = 1 + (1 + j)
            BY <4>7, <4>8, <5>3, <6>1
          <6>3. 1 + j \in 1 .. Len(u)
            BY <4>4, <4>8, <6>2
          <6>4. v[1 + (1 + j)] = u[1 + j]
            BY <4>6, <6>3
          <6> QED BY <4>4, <4>7, <6>2, <6>4
        <5> QED BY <5>1, <5>2, <5>3
      <4>10. t = v
        BY <4>6, <4>7, <4>8, <4>9
      <4> QED BY <4>1, <4>3, <4>5, <4>10 DEF Cons
    <3>8. Counted(k, p) => Counted(k, p)'
      BY <1>1, <2>1, <3>2, <3>5, CountedFrame DEF Good, stream_vars
    <3> QED BY <2>1, <3>1, <3>2, <3>3, <3>5, <3>7, <3>8 DEF AtField, AtConnect
  <2> QED BY <2>1, <2>2, <2>3, GoodStep
<1>7. CASE ~ Fail /\ ReadTimer
  <2>1. At("timer") /\ Good(2, <<>>) /\ got' = got /\ listed' = Min({2, listed + 1})
    BY <1>7 DEF ReadTimer
  <2>2. ASSUME Short(p)
        PROVE  /\ \E m \in 0 .. Len(p.strs) :
                     got' = First(Strings(p), m) /\ AtField(p, m)'
               /\ Counted(k, p) => Counted(k, p)'
    <3>1. PICK m \in 0 .. Len(p.strs) : got = First(Strings(p), m) /\ AtField(p, m)
      BY <1>1, <2>2, AtWhich
    <3>2. /\ p.kind = "CONNECT" /\ m = 0 /\ pos = 10
          /\ Tail(todo) = Cons("id", Strs(Len(p.strs) - 1))
      BY <2>1, <3>1, WhichField DEF At
    <3>3. pos' = 12 /\ todo' = Cons("id", Strs(Len(p.strs) - 1))
      BY <1>2, <2>1, <3>2 DEF Good
    <3>4. ASSUME Counted(k, p) PROVE Counted(k, p)'
      <4>1. p = sent[k] /\ sent' = sent /\ pc' # "command"
        BY <1>1, <2>1 DEF InPacket, Good, stream_vars
      <4>2. PICK S : S = Connects(k)
        OBVIOUS
      <4>3. k \notin S /\ Connects(k + 1) = S \cup {k}
        BY <3>2, <4>1, <4>2, ConnectsTo
      <4>4. Tally(S)
        BY <3>2, <3>4, <4>2 DEF Counted, Timed
      <4>5. Tally(S \cup {k})'
        BY <2>1, <4>3, <4>4, TallyGrows
      <4>6. Connects(k + 1)' = S \cup {k}
        BY <4>1, <4>3 DEF Connects
      <4>7. Timed(k, p)' = S \cup {k}
        BY <3>2, <3>3, <4>6 DEF Timed
      <4> QED BY <4>1, <4>5, <4>7 DEF Counted, Tally
    <3> QED BY <2>1, <3>1, <3>2, <3>3, <3>4 DEF AtField, AtConnect
  <2> QED BY <1>2, <2>1, <2>2, GoodStep
<1> QED BY <1>3, <1>4, <1>5, <1>6, <1>7

\* The message id of a PUBLISH or SUBSCRIBE.
LEMMA MsgIdStep ==
    ASSUME TypeInv, StepInv, ReadMsgId,
           NEW k \in DOMAIN sent, NEW p \in Packets, InPacket(k, p)
    PROVE  StepInv'
<1>1. pc = "fields" /\ todo # <<>>
  BY DEF ReadMsgId, ReadBytes, At
<1>2. Tail(todo) \o <<>> = Tail(todo) /\ <<>> \in Seq({"str"})
  BY <1>1, NothingMore
<1>3. CASE Fail
  BY <1>3, FailStep DEF ReadMsgId, ReadBytes
<1>4. CASE ~ Fail
  <2>1. At("msgid") /\ Good(2, <<>>) /\ got' = got /\ listed' = listed
    BY <1>4 DEF ReadMsgId, ReadBytes
  <2>2. pos' = pos + 2 /\ todo' = Tail(todo)
    BY <1>2, <2>1 DEF Good
  <2>3. ASSUME Short(p)
        PROVE  /\ \E m \in 0 .. Len(p.strs) :
                     got' = First(Strings(p), m) /\ AtField(p, m)'
               /\ Counted(k, p) => Counted(k, p)'
    <3>1. PICK m \in 0 .. Len(p.strs) : got = First(Strings(p), m) /\ AtField(p, m)
      BY <1>1, <2>3, AtWhich
    <3>2. \/ /\ p.kind = "PUBLISH" /\ m = 1 /\ pos = After(p, 1) /\ p.qos > 0
             /\ Tail(todo) = <<"content">>
          \/ /\ p.kind = "SUBSCRIBE" /\ m = 0 /\ p.qos = 1 /\ pos = 0
             /\ Tail(todo) = <<"topics">>
      BY <2>1, <3>1, WhichField DEF At
    <3>a. Counted(k, p) => Counted(k, p)'
      BY <2>1, <3>2, CountedFrame DEF Good, stream_vars
    <3>3. CASE /\ p.kind = "PUBLISH" /\ m = 1 /\ pos = After(p, 1) /\ p.qos > 0
               /\ Tail(todo) = <<"content">>
      <4>1. Len(MsgId(p)) = 2
        BY <3>3, HeaderOctets
      <4>2. pos' = After(p, 1) + Len(MsgId(p)) /\ todo' = <<"content">>
        BY <2>2, <3>3, <4>1
      <4> QED BY <2>1, <3>1, <3>3, <3>a, <4>2 DEF AtField, AtPublish
    <3>4. CASE /\ p.kind = "SUBSCRIBE" /\ m = 0 /\ p.qos = 1 /\ pos = 0
               /\ Tail(todo) = <<"topics">>
      <4>1. Header(p) = MsgId(p) /\ Len(MsgId(p)) = 2
        BY <3>4, HeaderOctets
      <4>2. After(p, 0) = 2
        BY <3>4, <4>1, StringAt
      <4>3. pos' = After(p, 0) /\ todo' = <<"topics">>
        BY <2>2, <3>4, <4>2
      <4> QED BY <2>1, <3>1, <3>4, <3>a, <4>3 DEF AtField, AtSubscribe
    <3> QED BY <3>2, <3>3, <3>4
  <2> QED BY <1>2, <2>1, <2>3, GoodStep
<1> QED BY <1>3, <1>4

\* A string of a CONNECT, or the topic of a PUBLISH.
LEMMA StringStep ==
    ASSUME TypeInv, StepInv, ReadStr \/ ReadId,
           NEW k \in DOMAIN sent, NEW p \in Packets, InPacket(k, p)
    PROVE  StepInv'
<1>1. pc = "fields" /\ todo # <<>> /\ Head(todo) \in {"str", "id"}
  BY DEF ReadStr, ReadId, At
<1>2. Tail(todo) \o <<>> = Tail(todo) /\ <<>> \in Seq({"str"})
  BY <1>1, NothingMore
<1>3. CASE Fail
  BY <1>3, FailStep DEF ReadStr, ReadId
<1>4. CASE ~ Fail
  <2>1. /\ Good(2 + StrLen(pos), <<>>) /\ got' = Append(got, <<pos + 2, StrLen(pos)>>)
        /\ At(Head(todo)) /\ listed' = listed
    BY <1>1, <1>4 DEF ReadStr, ReadId, At
  <2>2. pos' = pos + (2 + StrLen(pos)) /\ todo' = Tail(todo)
    BY <1>2, <2>1 DEF Good
  <2>3. ASSUME Short(p)
        PROVE  /\ \E m \in 0 .. Len(p.strs) :
                     got' = First(Strings(p), m) /\ AtField(p, m)'
               /\ Counted(k, p) => Counted(k, p)'
    <3>1. PICK m \in 0 .. Len(p.strs) : got = First(Strings(p), m) /\ AtField(p, m)
      BY <1>1, <2>3, AtWhich
    <3>2. \/ /\ p.kind = "CONNECT" /\ m = 0 /\ pos = 12 /\ Tail(todo) = Strs(Len(p.strs) - 1)
          \/ /\ p.kind = "CONNECT" /\ m > 0 /\ m < Len(p.strs) /\ pos = After(p, m)
             /\ Tail(todo) = Strs(Len(p.strs) - (m + 1))
          \/ p.kind = "PUBLISH" /\ m = 0 /\ pos = 0 /\ Tail(todo) = Rest(p)
      BY <1>1, <3>1, WhichField
    <3>3. /\ Len(p.strs) \in Nat
          /\ (p.kind = "CONNECT" => Len(p.strs) >= 1)
          /\ (p.kind = "PUBLISH" => Len(p.strs) = 1)
      <4>1. /\ (p.kind = "CONNECT" =>
                  Len(p.strs) = 1 + 2 * Count("will" \in p.flags) + Count("uname" \in p.flags)
                                  + Count("pwd" \in p.flags))
            /\ (p.kind = "PUBLISH" => Len(p.strs) = 1)
        BY ConstantsOK DEF WellFormed
      <4>2. \A b : Count(b) \in Nat
        BY DEF Count
      <4>3. PICK x, y, z : /\ x = Count("will" \in p.flags) /\ y = Count("uname" \in p.flags)
                           /\ z = Count("pwd" \in p.flags)
        OBVIOUS
      <4> QED BY <4>1, <4>2, <4>3, StringsRead0
    <3>4. pos = After(p, m) /\ m < Len(p.strs)
      <4>1. After(p, 0) = Len(Header(p))
        BY <3>1, StringAt
      <4>2. p.kind = "CONNECT" => Len(Header(p)) = 12
        BY ConnectHeader
      <4>3. p.kind = "PUBLISH" => Len(Header(p)) = 0
        BY HeaderOctets
      <4>4. CASE p.kind = "CONNECT" /\ m = 0 /\ pos = 12
        <5>1. pos = After(p, m)
          BY <4>1, <4>2, <4>4, Zenon
        <5> QED BY <3>3, <4>4, <5>1
      <4>5. CASE p.kind = "PUBLISH" /\ m = 0 /\ pos = 0
        <5>1. pos = After(p, m)
          BY <4>1, <4>3, <4>5, Zenon
        <5>2. Len(p.strs) = 1
          BY <3>3, <4>5
        <5> QED BY <4>5, <5>1, <5>2
      <4> QED BY <3>2, <4>4, <4>5
    <3>5. PICK n : n = p.strs[m + 1]
      OBVIOUS
    <3>6. /\ StrLen(pos) = n /\ n \in Nat /\ m + 1 \in 0 .. Len(p.strs)
          /\ Append(got, <<pos + 2, n>>) = First(Strings(p), m + 1)
      BY <1>1, <2>3, <3>1, <3>4, <3>5, NextString
    <3>7. p.kind # "SUBSCRIBE" => After(p, m + 1) = pos + 2 + n
      <4>1. /\ After(p, m + 1) = pos + 2 + n + (IF p.kind = "SUBSCRIBE" THEN 1 ELSE 0)
            /\ pos \in Nat
        BY <1>1, <2>3, <3>1, <3>4, <3>5, NextString, SMTT(30) DEF TypeInv
      <4> QED BY <3>6, <4>1
    <3>8. got' = First(Strings(p), m + 1) /\ pos' = After(p, m + 1)
      <4>1. pos \in Nat
        BY DEF TypeInv
      <4>2. pos' = pos + 2 + n
        BY <2>2, <3>6, <4>1
      <4> QED BY <2>1, <3>2, <3>6, <3>7, <4>2
    <3>9. AtField(p, m + 1)'
      <4>1. CASE p.kind = "CONNECT"
        <5>1. todo' = Strs(Len(p.strs) - (m + 1))
          <6>1. m = 0 => Len(p.strs) - 1 = Len(p.strs) - (m + 1)
            BY <3>3
          <6> QED BY <2>2, <3>2, <4>1, <6>1
        <5>2. m + 1 > 0
          OBVIOUS
        <5> QED BY <3>8, <4>1, <5>1, <5>2 DEF AtField, AtConnect
      <4>2. CASE p.kind = "PUBLISH"
        <5>1. m + 1 = 1 /\ todo' = Rest(p)
          BY <2>2, <3>2, <4>2
        <5> QED BY <3>8, <4>2, <5>1 DEF AtField, AtPublish
      <4> QED BY <3>2, <4>1, <4>2
    <3>10. Counted(k, p) => Counted(k, p)'
      <4>1. p.kind = "CONNECT" => pos >= 12 /\ pos' >= 12
        <5>1. p.kind = "CONNECT" => After(p, m) >= 12 /\ After(p, m + 1) >= 12
          BY <3>6, AfterConnect
        <5> QED BY <3>4, <3>8, <5>1
      <4>2. sent' = sent /\ pc' # "command"
        BY <1>1, <2>1 DEF Good, stream_vars
      <4> QED BY <2>1, <4>1, <4>2, CountedFrame
    <3> QED BY <3>6, <3>8, <3>9, <3>10
  <2> QED BY <1>2, <2>1, <2>3, GoodStep
<1> QED BY <1>3, <1>4

\* The strings and the content of a packet that does not stop the server.
LEMMA NotEmpty ==
    ASSUME NEW p \in Packets, ~ Stops(p)
    PROVE  /\ \A i \in 1 .. Len(p.strs) : p.strs[i] \in Nat /\ p.strs[i] > 0
           /\ p.kind = "PUBLISH" => p.plain \in Nat /\ p.plain > 0
           /\ p.kind = "CONNECT" /\ "uname" \in p.flags => "pwd" \in p.flags
<1>1. p.strs \in Seq(0 .. MaxString) /\ p.plain \in Nat
  <2>1. p.strs \in Seq(0 .. MaxString) /\ p.content \in Nat /\ p.plain \in 0 .. p.content
    BY ConstantsOK DEF WellFormed
  <2> QED BY <2>1
<1>2. \A i \in 1 .. Len(p.strs) : p.strs[i] \in Nat
  BY <1>1, Bounds
<1>3. ASSUME NEW i \in 1 .. Len(p.strs) PROVE p.strs[i] # 0
  <2>1. i \in DOMAIN p.strs
    BY <1>1
  <2>2. p.strs[i] \in ToSet(p.strs)
    BY <2>1 DEF ToSet
  <2> QED BY <2>2 DEF Stops
<1>4. p.kind = "PUBLISH" => p.plain # 0
  BY DEF Stops
<1>5. p.kind = "CONNECT" /\ "uname" \in p.flags => "pwd" \in p.flags
  BY DEF Stops
<1> QED BY <1>1, <1>2, <1>3, <1>4, <1>5

LEMMA FirstString ==
    ASSUME NEW p \in Packets, NEW m \in 0 .. Len(p.strs), m > 0
    PROVE  First(Strings(p), m)[1][2] = p.strs[1]
<1>1. 1 \in DOMAIN p.strs
  BY ConstantsOK DEF WellFormed
<1>2. PICK x : Strings(p)[1] = <<x, p.strs[1]>>
  BY <1>1 DEF Strings
<1>3. First(Strings(p), m)[1] = Strings(p)[1]
  BY DEF First
<1> QED BY <1>2, <1>3

\* Whether something excuses a stop: if nothing does, the packet is one that the
\* code reads well.
LEMMA Blame ==
    ASSUME NEW k \in DOMAIN sent, NEW p \in Packets, InPacket(k, p), ~ Excused
    PROVE  Short(p) /\ ~ Stops(p)
<1>1. p = sent[k]
  BY DEF InPacket
<1>2. ~ Stops(p) /\ ~ Long
  BY <1>1 DEF Excused
<1> QED BY <1>2, NotLong

\* CONNECT: all its strings have been read.
LEMMA ConnectedStep ==
    ASSUME TypeInv, StepInv, Connected,
           NEW k \in DOMAIN sent, NEW p \in Packets, InPacket(k, p)
    PROVE  StepInv'
<1> DEFINE flags == Byte(StrLen(0) + 3)
<1>1. /\ pc = "fields" /\ todo = <<>> /\ pc' \in {"command", "shut", "crash"}
      /\ UNCHANGED <<sent, arrived, read, command, length, base, begun, cut, got, out, pos,
                     listed>>
      /\ pc' = "crash" => \/ got[1][2] = 0
                          \/ flags >= 128 /\ (flags \div 64) % 2 # 1
  BY DEF Connected, stream_vars, field_vars
<1> HIDE DEF flags
<1>2. ASSUME Short(p)
      PROVE  /\ p.kind = "CONNECT" /\ Len(p.strs) \in 0 .. Len(p.strs) /\ Len(p.strs) > 0
             /\ got = First(Strings(p), Len(p.strs)) /\ pos = After(p, Len(p.strs))
  <2>1. PICK m \in 0 .. Len(p.strs) : got = First(Strings(p), m) /\ AtField(p, m)
    BY <1>1, <1>2, AtWhich
  <2>2. p.kind = "CONNECT" /\ m = Len(p.strs) /\ m > 0 /\ pos = After(p, m)
    BY <1>1, <2>1, WhichField
  <2> QED BY <2>1, <2>2
<1>3. ASSUME Short(p) PROVE FieldsOK(p)'
  <2>1. ReadStrings(p, Len(p.strs))'
    BY <1>1, <1>2, <1>3 DEF ReadStrings, HasFields
  <2>2. out' # None => out' = Forward(p.strs[1], p.plain)
    BY <1>1, <1>3 DEF InPacket, FieldsOK
  <2> QED BY <1>2, <1>3, <2>1, <2>2 DEF FieldsOK
<1>4. ASSUME pc' = "crash", ~ Excused PROVE FALSE
  <2>1. Short(p) /\ ~ Stops(p)
    BY <1>4, Blame
  <2>2. got[1][2] = p.strs[1]
    BY <1>2, <2>1, FirstString
  <2>3. 1 \in 1 .. Len(p.strs) /\ p.kind = "CONNECT"
    BY <1>2, <2>1
  <2>4. got[1][2] # 0
    BY <2>1, <2>2, <2>3, NotEmpty
  <2>5. flags = Flags(p)
    <3>1. StrLen(0) = 6 /\ Byte(9) = Flags(p)
      BY <1>1, <2>3, ConnectBytes
    <3>2. StrLen(0) + 3 = 9
      BY <3>1
    <3> QED BY <3>1, <3>2 DEF flags
  <2>6. flags >= 128 => (flags \div 64) % 2 = 1
    <3>1. PICK u, v, w : /\ u = (IF "uname" \in p.flags THEN 1 ELSE 0)
                         /\ v = (IF "pwd" \in p.flags THEN 1 ELSE 0)
                         /\ w = (IF "will" \in p.flags THEN 1 ELSE 0)
      OBVIOUS
    <3>2. u \in {0, 1} /\ v \in {0, 1} /\ w \in {0, 1} /\ (u = 1 => v = 1)
      BY <2>1, <2>3, <3>1, NotEmpty
    <3>3. flags = 128 * u + 64 * v + 4 * w
      BY <2>5, <3>1 DEF Flags, Flag
    <3> QED BY <3>2, <3>3
  <2> QED BY <1>1, <1>4, <2>4, <2>6
<1>5. p.kind # "PUBLISH" => out' = None /\ (pc' = "fields" => NoContent')
  BY <1>1 DEF InPacket
<1>6. ASSUME Short(p), Counted(k, p) PROVE Counted(k, p)'
  <2>1. pos >= 12
    BY <1>2, <1>6, AfterConnect
  <2> QED BY <1>1, <1>6, <2>1, CountedFrame
<1> QED BY <1>1, <1>3, <1>4, <1>5, <1>6, FieldFrame

\* The content is what is left of the payload, and strlen ends at its first NUL.
LEMMA ContentAt ==
    ASSUME TypeInv, NEW k \in DOMAIN sent, NEW p \in Packets, InPacket(k, p), pc = "fields",
           p.kind = "PUBLISH", Len(p.strs) = 1, pos = After(p, 1) + Len(MsgId(p))
    PROVE  length - pos = p.content /\ ContentLen = p.plain
<1>1. PICK y, t, a, j, n, q : /\ y = Payload(p) /\ t = Trailer(p) /\ a = After(p, 1)
                              /\ j = Len(MsgId(p)) /\ n = p.content /\ q = p.plain
  OBVIOUS
<1>2. n \in Nat /\ q \in 0 .. n /\ j \in Nat /\ Len(t) = j + n
  BY <1>1, HeaderOctets, ConstantsOK DEF WellFormed
<1>3. length = Len(y) /\ \A i \in Nat : i < length => Byte(i) = y[i + 1]
  BY <1>1, ByteAt
<1>4. Len(y) = a + Len(t) /\ a \in Nat
  <2>1. 1 \in 0 .. Len(p.strs) /\ 1 = Len(p.strs)
    OBVIOUS
  <2> QED BY <1>1, <2>1, StringAt
<1>5. pos = a + j /\ length = a + (j + n)
  BY <1>1, <1>2, <1>3, <1>4
<1>6. \A i \in 1 .. Len(t) : y[a + i] = t[i]
  <2>1. PICK h, f : h = Header(p) /\ f = FlattenSeq(Pieces(p))
    OBVIOUS
  <2>2. /\ f \in Seq(Octet) /\ Len(y) = Len(h) + Len(f) + Len(t)
        /\ \A i \in 1 .. Len(t) : y[Len(h) + Len(f) + i] = t[i]
    BY <1>1, <2>1, PayloadOctets
  <2>3. Len(h) \in Nat /\ Len(f) \in Nat /\ Len(t) \in Nat
    BY <1>2, <2>1, <2>2, HeaderOctets
  <2>4. a = Len(h) + Len(f)
    <3>1. PICK u, v, w, z : u = Len(h) /\ v = Len(f) /\ w = Len(t) /\ z = Len(y)
      OBVIOUS
    <3>2. z = a + w /\ z = u + v + w /\ a \in Nat /\ u \in Nat /\ v \in Nat /\ w \in Nat
      BY <1>4, <2>2, <2>3, <3>1
    <3>3. a = u + v
      BY <3>2
    <3> QED BY <3>1, <3>3
  <2> QED BY <2>2, <2>4
<1>7. ASSUME NEW i \in 0 .. (n - 1) PROVE Byte(pos + i) = IF i < q THEN TEXT ELSE 0
  <2>1. PICK l : l = j + (i + 1)
    OBVIOUS
  <2>2. l \in 1 .. Len(t) /\ i + 1 \in 1 .. n /\ pos + i + 1 = a + l
    <3>1. l \in 1 .. (j + n) /\ i + 1 \in 1 .. n
      BY <1>2, <2>1
    <3>2. pos + i + 1 = a + l
      BY <1>2, <1>4, <1>5, <2>1, SMTT(30)
    <3> QED BY <1>2, <3>1, <3>2
  <2>3. pos + i \in Nat /\ pos + i < length
    BY <1>2, <1>4, <1>5
  <2>4. Byte(pos + i) = y[pos + i + 1]
    BY <1>3, <2>3
  <2>5. y[a + l] = t[l]
    BY <1>6, <2>2
  <2>6. t[l] = Content(p)[i + 1]
    BY <1>1, <2>1, <2>2, HeaderOctets
  <2>7. Content(p)[i + 1] = IF i + 1 <= q THEN TEXT ELSE 0
    BY <1>1, <2>2 DEF Content
  <2>8. i + 1 <= q <=> i < q
    BY <1>2
  <2> QED BY <2>2, <2>4, <2>5, <2>6, <2>7, <2>8
<1> DEFINE Z == {i \in 0 .. (length - pos) : i = length - pos \/ Byte(pos + i) = 0}
<1>8. length - pos = n
  BY <1>2, <1>4, <1>5
<1>9. q \in Z /\ \A i \in Z : q <= i
  <2>1. q \in Z
    <3>1. CASE q = n
      BY <1>2, <1>8, <3>1
    <3>2. CASE q # n
      <4>1. q \in 0 .. (n - 1) /\ ~ (q < q)
        BY <1>2, <3>2
      <4>2. Byte(pos + q) = 0
        BY <1>7, <4>1
      <4> QED BY <1>2, <1>8, <4>2
    <3> QED BY <3>1, <3>2
  <2>2. ASSUME NEW i \in Z PROVE q <= i
    <3>1. CASE i = n
      BY <1>2, <3>1
    <3>2. CASE i # n
      <4>1. i \in 0 .. (n - 1) /\ Byte(pos + i) = 0
        BY <1>2, <1>8, <2>2, <3>2
      <4>2. Byte(pos + i) = IF i < q THEN TEXT ELSE 0
        BY <1>7, <4>1
      <4>3. ~ (i < q)
        BY <4>1, <4>2 DEF TEXT
      <4> QED BY <1>2, <4>1, <4>3
    <3> QED BY <3>1, <3>2
  <2> QED BY <2>1, <2>2
<1> HIDE DEF Z
<1>10. Min(Z) = q
  <2>1. \A i \in Z : i \in Nat
    BY <1>2, <1>8 DEF Z
  <2>2. q \in Nat
    BY <1>2
  <2>3. \A x \in Z : (\A i \in Z : x <= i) => x = q
    BY <1>9, <2>1, <2>2
  <2> QED BY <1>9, <2>3 DEF Min
<1>11. ContentLen = q
  BY <1>10 DEF ContentLen, Z
<1> QED BY <1>1, <1>8, <1>11

\* The content of a PUBLISH is what the client put there, up to its first NUL.
LEMMA ContentStep ==
    ASSUME TypeInv, StepInv, ReadContent,
           NEW k \in DOMAIN sent, NEW p \in Packets, InPacket(k, p)
    PROVE  StepInv'
<1>1. /\ pc = "fields" /\ todo # <<>> /\ Head(todo) = "content" /\ pc' \in {"command", "crash"}
      /\ UNCHANGED <<sent, arrived, read, command, length, base, begun, cut, got, listed>>
  BY DEF ReadContent, At, Renewed, stream_vars
<1>2. p.kind = "PUBLISH" /\ Len(p.strs) = 1
  <2>1. 1 \in DOMAIN todo /\ todo[1] = "content"
    BY <1>1 DEF TypeInv
  <2>2. p.kind = "PUBLISH"
    BY <1>1, <2>1 DEF InPacket, NoContent
  <2> QED BY <2>2, ConstantsOK DEF WellFormed
<1>3. ASSUME Short(p)
      PROVE  /\ got = First(Strings(p), 1) /\ got[1][2] = p.strs[1]
             /\ length - pos = p.content /\ ContentLen = p.plain
  <2>1. PICK m \in 0 .. Len(p.strs) : got = First(Strings(p), m) /\ AtField(p, m)
    BY <1>1, <1>3, AtWhich
  <2>2. m = 1 /\ pos = After(p, 1) + Len(MsgId(p))
    BY <1>1, <2>1, WhichField
  <2>3. got[1][2] = p.strs[1]
    BY <2>1, <2>2, FirstString
  <2> QED BY <1>1, <1>2, <2>1, <2>2, <2>3, ContentAt
<1>a. Counted(k, p) => Counted(k, p)'
  BY <1>1, <1>2, CountedFrame
<1>4. CASE HasContent /\ ContentLen > 0 /\ got[1][2] > 0
  <2>1. out' = Forward(got[1][2], ContentLen) /\ pc' \in Renewed
    BY <1>4 DEF ReadContent
  <2>2. ASSUME Short(p) PROVE FieldsOK(p)'
    <3>1. out' = Forward(p.strs[1], p.plain)
      BY <1>3, <2>1, <2>2
    <3>2. 1 \in 0 .. Len(p.strs) /\ ReadStrings(p, 1)'
      BY <1>1, <1>2, <1>3, <2>1, <2>2 DEF ReadStrings, HasFields
    <3> QED BY <3>1, <3>2 DEF FieldsOK
  <2>3. pc' = "crash" => Excused
    BY <1>2, <2>1, NotListed DEF Renewed
  <2> QED BY <1>1, <1>2, <1>a, <2>1, <2>2, <2>3, FieldFrame
<1>5. CASE ~ (HasContent /\ ContentLen > 0 /\ got[1][2] > 0)
  <2>1. pc' = "crash" /\ out' = out
    BY <1>5 DEF ReadContent
  <2>2. Short(p) => FieldsOK(p)'
    BY <1>1, <2>1, ShutFields DEF InPacket
  <2>3. ASSUME ~ Excused PROVE FALSE
    <3>1. Short(p) /\ ~ Stops(p)
      BY <2>3, Blame
    <3>2. 1 \in 1 .. Len(p.strs)
      BY <1>2
    <3>3. got[1][2] > 0 /\ ContentLen > 0
      BY <1>2, <1>3, <3>1, <3>2, NotEmpty
    <3>4. pos < length
      <4>1. p.content \in Nat /\ p.plain \in 0 .. p.content
        BY ConstantsOK DEF WellFormed
      <4>2. p.plain > 0
        BY <1>2, <3>1, NotEmpty
      <4> QED BY <1>3, <3>1, <4>1, <4>2 DEF TypeInv
    <3> QED BY <1>5, <3>3, <3>4 DEF HasContent
  <2> QED BY <1>1, <1>2, <1>a, <2>1, <2>2, <2>3, FieldFrame
<1> QED BY <1>4, <1>5

\* At a topic of a SUBSCRIBE, the m+1-th.
LEMMA NextTopic ==
    ASSUME TypeInv, NEW k \in DOMAIN sent, NEW p \in Packets, InPacket(k, p), At("topics"),
           Short(p)
    PROVE  \E m \in 0 .. Len(p.strs) :
              /\ p.kind = "SUBSCRIBE" /\ todo = <<"topics">> /\ got = First(Strings(p), m)
              /\ pos = length <=> m = Len(p.strs)
              /\ pos < length =>
                    /\ m + 1 \in 0 .. Len(p.strs) /\ Fits(2) /\ StrLen(pos) = p.strs[m + 1]
                    /\ p.strs[m + 1] \in Nat
                    /\ Append(got, <<pos + 2, p.strs[m + 1]>>) = First(Strings(p), m + 1)
                    /\ After(p, m + 1) = pos + 2 + p.strs[m + 1] + 1
                    /\ After(p, m + 1) <= length
<1>1. pc = "fields" /\ todo # <<>> /\ Head(todo) = "topics"
  BY DEF At
<1>2. PICK m \in 0 .. Len(p.strs) : got = First(Strings(p), m) /\ AtField(p, m)
  BY <1>1, AtWhich
<1>3. p.kind = "SUBSCRIBE" /\ todo = <<"topics">> /\ pos = After(p, m)
  BY <1>1, <1>2, WhichField
<1>4. Len(p.strs) \in Nat /\ length = Len(Payload(p)) /\ pos \in Nat /\ length \in Nat
  BY <1>1, ByteAt, StringsRead0 DEF TypeInv
<1>5. ASSUME m = Len(p.strs) PROVE pos = length
  <2>1. Trailer(p) = <<>>
    BY <1>3, HeaderOctets
  <2>2. Len(Trailer(p)) = 0
    BY <2>1
  <2>3. Len(Payload(p)) = After(p, m) + Len(Trailer(p))
    BY <1>5, StringAt
  <2> QED BY <1>3, <1>4, <2>2, <2>3
<1>6. ASSUME m # Len(p.strs)
      PROVE  /\ m + 1 \in 0 .. Len(p.strs) /\ Fits(2) /\ StrLen(pos) = p.strs[m + 1]
             /\ p.strs[m + 1] \in Nat
             /\ Append(got, <<pos + 2, p.strs[m + 1]>>) = First(Strings(p), m + 1)
             /\ After(p, m + 1) = pos + 2 + p.strs[m + 1] + 1
             /\ After(p, m + 1) <= length
  <2>1. m < Len(p.strs)
    BY <1>4, <1>6
  <2>2. /\ m + 1 \in 0 .. Len(p.strs) /\ Fits(2) /\ StrLen(pos) = p.strs[m + 1]
        /\ p.strs[m + 1] \in Nat
        /\ Append(got, <<pos + 2, p.strs[m + 1]>>) = First(Strings(p), m + 1)
    BY <1>1, <1>2, <1>3, <2>1, NextString
  <2>3. /\ After(p, m + 1) =
              pos + 2 + p.strs[m + 1] + (IF p.kind = "SUBSCRIBE" THEN 1 ELSE 0)
        /\ After(p, m + 1) <= length
    BY <1>1, <1>2, <1>3, <2>1, NextString
  <2> QED BY <1>3, <2>2, <2>3
<1>7. m # Len(p.strs) => pos < length
  <2>1. ASSUME m # Len(p.strs) PROVE pos < length
    <3>1. PICK n : n = p.strs[m + 1]
      OBVIOUS
    <3>2. n \in Nat /\ pos + 2 + n + 1 <= length
      BY <1>6, <2>1, <3>1
    <3> QED BY <1>4, <3>2
  <2> QED BY <2>1
<1>8. pos = length <=> m = Len(p.strs)
  BY <1>4, <1>5, <1>7
<1>9. pos < length => m # Len(p.strs)
  BY <1>4, <1>5
<1> QED BY <1>2, <1>3, <1>6, <1>8, <1>9

\* A topic of a SUBSCRIBE.
LEMMA TopicStep ==
    ASSUME TypeInv, StepInv, ReadTopic,
           NEW k \in DOMAIN sent, NEW p \in Packets, InPacket(k, p)
    PROVE  StepInv'
<1>1. /\ At("topics") /\ pc = "fields" /\ pos < length
      /\ UNCHANGED <<sent, arrived, read, command, length, base, begun, cut, todo, out, listed>>
  BY DEF ReadTopic, At, stream_vars
<1>2. PICK n : n = Min({StrLen(pos), length - pos - 2})
  OBVIOUS
<1>3. p.kind # "PUBLISH" => out' = None /\ (pc' = "fields" => NoContent')
  BY <1>1 DEF InPacket, NoContent
<1>4. ASSUME Short(p)
      PROVE  /\ Fits(2) /\ n = StrLen(pos)
             /\ \E m \in 0 .. Len(p.strs) :
                   /\ p.kind = "SUBSCRIBE" /\ todo = <<"topics">>
                   /\ m + 1 \in 0 .. Len(p.strs) /\ n = p.strs[m + 1]
                   /\ Append(got, <<pos + 2, n>>) = First(Strings(p), m + 1)
                   /\ PastTopic = After(p, m + 1)
  <2>1. PICK m \in 0 .. Len(p.strs) :
           /\ p.kind = "SUBSCRIBE" /\ todo = <<"topics">> /\ got = First(Strings(p), m)
           /\ m + 1 \in 0 .. Len(p.strs) /\ Fits(2) /\ StrLen(pos) = p.strs[m + 1]
           /\ p.strs[m + 1] \in Nat
           /\ Append(got, <<pos + 2, p.strs[m + 1]>>) = First(Strings(p), m + 1)
           /\ After(p, m + 1) = pos + 2 + p.strs[m + 1] + 1
           /\ After(p, m + 1) <= length
    BY <1>1, <1>4, NextTopic
  <2>2. PICK s, r, e : s = StrLen(pos) /\ r = length - pos - 2 /\ e = pos + 2 + s + 1
    OBVIOUS
  <2>3. s \in Nat /\ pos \in Nat /\ length \in Nat /\ e = After(p, m + 1) /\ e <= length
    BY <2>1, <2>2 DEF TypeInv
  <2>4. r \in Nat /\ s <= r /\ e \in Nat
    BY <2>2, <2>3
  <2>5. n = s
    <3>1. n \in {s, r} /\ n <= s /\ n <= r
      BY <1>2, <2>2, <2>3, <2>4, MinOfTwo
    <3> QED BY <2>3, <2>4, <3>1
  <2>6. PastTopic = e
    <3>1. PICK w : w = Min({length, e})
      OBVIOUS
    <3>2. w \in {length, e} /\ w <= length /\ w <= e
      BY <2>3, <2>4, <3>1, MinOfTwo
    <3>3. PastTopic = w
      BY <2>2, <3>1 DEF PastTopic
    <3> QED BY <2>3, <2>4, <3>2, <3>3
  <2> QED BY <2>1, <2>2, <2>3, <2>5, <2>6
<1>a. ASSUME Short(p), Counted(k, p) PROVE Counted(k, p)'
  <2>1. p.kind = "SUBSCRIBE"
    BY <1>4, <1>a
  <2> QED BY <1>1, <1>a, <2>1, CountedFrame
<1>5. ASSUME ~ Excused PROVE StrLen(pos) > 0 /\ Fits(2) /\ n = StrLen(pos)
  <2>1. Short(p) /\ ~ Stops(p)
    BY <1>5, Blame
  <2>2. PICK m \in 0 .. Len(p.strs) : m + 1 \in 0 .. Len(p.strs) /\ n = p.strs[m + 1]
    BY <1>4, <2>1
  <2>3. m + 1 \in 1 .. Len(p.strs)
    BY <2>2
  <2> QED BY <1>4, <2>1, <2>2, <2>3, NotEmpty
<1>6. CASE /\ Fits(2) /\ n > 0 /\ got' = Append(got, <<pos + 2, n>>)
           /\ pos' = PastTopic /\ UNCHANGED pc
  <2>1. ASSUME Short(p) PROVE FieldsOK(p)'
    <3>1. PICK m \in 0 .. Len(p.strs) :
             /\ p.kind = "SUBSCRIBE" /\ todo = <<"topics">>
             /\ m + 1 \in 0 .. Len(p.strs)
             /\ Append(got, <<pos + 2, n>>) = First(Strings(p), m + 1)
             /\ PastTopic = After(p, m + 1)
      BY <1>4, <2>1
    <3>2. AtField(p, m + 1)'
      BY <1>1, <1>6, <3>1 DEF AtField, AtSubscribe
    <3>3. ReadStrings(p, m + 1)'
      BY <1>1, <1>6, <3>1, <3>2 DEF ReadStrings
    <3>4. out' # None => out' = Forward(p.strs[1], p.plain)
      BY <1>1, <2>1 DEF InPacket, FieldsOK
    <3> QED BY <3>1, <3>3, <3>4 DEF FieldsOK
  <2> QED BY <1>1, <1>3, <1>a, <1>6, <2>1, FieldFrame
<1>7. CASE (Fits(2) => StrLen(pos) = 0) /\ pc' = "crash" /\ UNCHANGED <<got, pos>>
  <2>1. Short(p) => FieldsOK(p)'
    BY <1>1, <1>7, ShutFields DEF InPacket
  <2>2. Excused
    BY <1>5, <1>7
  <2> QED BY <1>1, <1>3, <1>a, <1>7, <2>1, <2>2, FieldFrame
<1>8. CASE /\ Fits(2) /\ n = 0 /\ StrLen(pos) > 0 /\ pc' \in {"crash", "fields"}
           /\ pos' = length /\ UNCHANGED got
  <2>1. ~ Short(p)
    BY <1>4, <1>8
  <2>2. Excused
    BY <2>1, Blame
  <2> QED BY <1>1, <1>3, <1>a, <1>8, <2>1, <2>2, FieldFrame
<1>9. CASE ~ Fits(2) /\ pos' = length /\ UNCHANGED <<pc, got>>
  <2>1. ~ Short(p)
    BY <1>4, <1>9
  <2> QED BY <1>1, <1>3, <1>a, <1>9, <2>1, FieldFrame
<1> QED BY <1>2, <1>6, <1>7, <1>8, <1>9 DEF ReadTopic

\* SUBSCRIBE: all its topics have been read.
LEMMA SubscribedStep ==
    ASSUME TypeInv, StepInv, Subscribed,
           NEW k \in DOMAIN sent, NEW p \in Packets, InPacket(k, p)
    PROVE  StepInv'
<1>1. /\ At("topics") /\ pc = "fields" /\ pos = length /\ pc' = "command"
      /\ UNCHANGED <<sent, arrived, read, command, length, base, begun, cut, got, out,
                     pos, listed>>
  BY DEF Subscribed, At, stream_vars
<1>2. ASSUME Short(p) PROVE FieldsOK(p)'
  <2>1. p.kind = "SUBSCRIBE" /\ got = First(Strings(p), Len(p.strs))
    BY <1>1, <1>2, NextTopic
  <2>2. Len(p.strs) \in 0 .. Len(p.strs)
    BY StringsRead0
  <2>3. ReadStrings(p, Len(p.strs))'
    BY <1>1, <2>1 DEF ReadStrings, HasFields
  <2>4. out' # None => out' = Forward(p.strs[1], p.plain)
    BY <1>1, <1>2 DEF InPacket, FieldsOK
  <2> QED BY <2>2, <2>3, <2>4 DEF FieldsOK
<1>3. p.kind # "PUBLISH" => out' = None /\ (pc' = "fields" => NoContent')
  BY <1>1 DEF InPacket
<1>4. ASSUME Short(p), Counted(k, p) PROVE Counted(k, p)'
  <2>1. p.kind = "SUBSCRIBE"
    BY <1>1, <1>4, NextTopic
  <2> QED BY <1>1, <1>4, <2>1, CountedFrame
<1> QED BY <1>1, <1>2, <1>3, <1>4, FieldFrame

\* Every field.
LEMMA FieldStep ==
    ASSUME TypeInv, StepInv, Field PROVE StepInv'
<1>1. pc = "fields" /\ UNCHANGED <<sent, cut>>
  BY DEF Field, ReadName, ReadVersion, ReadFlags, ReadTimer, ReadId, ReadMsgId, ReadStr,
         ReadBytes, ReadContent, ReadTopic, Subscribed, Connected, At, Good, Fail, stream_vars
<1>2. CASE Acks
  <2>1. Acks' /\ StopsOnlyOn'
    BY <1>1, <1>2, SameSent DEF Excused
  <2> QED BY <2>1 DEF StepInv
<1>3. CASE ~ Acks
  <2>1. PICK k \in DOMAIN sent, p \in Packets : InPacket(k, p)
    BY <1>1, <1>3, WhichPacket
  <2> QED BY <2>1, ConnectStep, MsgIdStep, StringStep, ConnectedStep, ContentStep, TopicStep,
             SubscribedStep DEF Field
<1> QED BY <1>2, <1>3

LEMMA StepInvInit == Init => StepInv
BY DEF Init, StepInv, NothingRead, StopsOnlyOn

LEMMA StepInvNext == TypeInv /\ StepInv /\ [Next]_vars => StepInv'
<1> SUFFICES ASSUME TypeInv, StepInv, [Next]_vars PROVE StepInv'
  OBVIOUS
<1>1. CASE UNCHANGED vars
  <2>1. /\ UNCHANGED <<sent, arrived, read, pc, command, length, digits, base, pos, todo, got,
                      listed, out, begun, cut>>
    BY <1>1 DEF vars
  <2>2. /\ Acks' = Acks /\ \A i : Start(i)' = Start(i)
        /\ Excused' = Excused /\ StopsOnlyOn' = (pc' = "crash" => Excused')
        /\ Long' = Long
    BY <2>1, SameSent
  <2>3. StopsOnlyOn' /\ (NothingRead => NothingRead')
    BY <2>1, <2>2 DEF StepInv, StopsOnlyOn, NothingRead, Excused
  <2>4. ASSUME NEW k \in DOMAIN sent, NEW p \in Packets, InPacket(k, p) PROVE InPacket(k, p)'
    <3>1. FieldsOK(p) => FieldsOK(p)'
      BY <2>1, FieldsFrame
    <3>2. ASSUME Counted(k, p) PROVE Counted(k, p)'
      <4>1. pc = "command" /\ p.kind = "CONNECT" => pos >= 12
        BY <3>2 DEF Counted
      <4> QED BY <2>1, <3>2, <4>1, CountedFrame
    <3> QED BY <2>1, <2>2, <2>4, <3>1, <3>2 DEF InPacket, NoContent
  <2> QED BY <2>1, <2>2, <2>3, <2>4 DEF StepInv
<1>2. CASE Next
  BY <1>2, ClientStep, CommandStep, DigitStep, PayloadStep, FieldStep DEF Next, Handler
<1> QED BY <1>1, <1>2

\* The two together are inductive.
LEMMA SpecSteps == Spec => [](TypeInv /\ StepInv)
BY InitType, StepType, StepInvInit, StepInvNext, PTL DEF Spec

-----------------------------------------------------------------------------
(* The properties.                                                         *)

\* However many packets, of whatever sizes, and in whatever pieces they arrive:
\* as long as the client sends no PUBACK, the handler takes the first byte of a
\* packet for the command.
THEOREM InStepHolds == Spec => []InStep
<1>1. ASSUME TypeInv, StepInv PROVE InStep
  <2>1. SUFFICES ASSUME pc = "command", ~ Acks
                 PROVE  \E i \in 1 .. (Len(sent) + 1) : read = Start(i)
    BY DEF InStep
  <2>2. CASE NothingRead
    <3>1. read = Start(1) /\ 1 \in 1 .. (Len(sent) + 1)
      BY <1>1, <2>2, Sent DEF NothingRead, TypeInv
    <3> QED BY <3>1
  <2>3. CASE \E k \in DOMAIN sent, p \in Packets : InPacket(k, p)
    <3>1. PICK k \in DOMAIN sent, p \in Packets : InPacket(k, p)
      BY <2>3
    <3>2. k + 1 \in 1 .. (Len(sent) + 1)
      BY <1>1, SMTT(30) DEF TypeInv
    <3> QED BY <2>1, <3>1, <3>2 DEF InPacket
  <2> QED BY <1>1, <2>1, <2>2, <2>3 DEF StepInv
<1> QED BY <1>1, SpecSteps, PTL

\* A well-formed packet that was all there when it was begun never stops the
\* server, but for the kinds that Stops and Long name.
THEOREM StopsOnlyOnHolds == Spec => []StopsOnlyOn
<1>1. StepInv => StopsOnlyOn
  BY DEF StepInv
<1> QED BY <1>1, SpecSteps, PTL

\* The first m strings of a packet are a prefix of its strings.
LEMMA FirstPrefix ==
    ASSUME NEW p \in Packets, NEW m \in 0 .. Len(p.strs)
    PROVE  /\ IsPrefix(First(Strings(p), m), Strings(p))
           /\ First(Strings(p), Len(p.strs)) = Strings(p)
<1>1. PICK s, S : s = Strings(p) /\ S = {s[i] : i \in 1 .. Len(p.strs)}
  OBVIOUS
<1>2. DOMAIN p.strs = 1 .. Len(p.strs) /\ Len(p.strs) \in Nat
  BY ConstantsOK DEF WellFormed
<1>3. s \in Seq(S) /\ Len(s) = Len(p.strs)
  <2>1. s = [i \in 1 .. Len(p.strs) |-> s[i]]
    BY <1>1, <1>2 DEF Strings
  <2>2. s \in [1 .. Len(p.strs) -> S]
    BY <1>1, <2>1
  <2> QED BY <1>2, <2>2
<1>4. PICK t : t = First(s, m)
  OBVIOUS
<1>5. t \in Seq(S) /\ Len(t) = m /\ \A i \in 1 .. m : t[i] = s[i]
  BY <1>3, <1>4, FirstTyped
<1>6. SubSeq(t, 1, Len(t)) = SubSeq(s, 1, Len(t))
  <2>1. PICK a, b : a = SubSeq(t, 1, m) /\ b = SubSeq(s, 1, m)
    OBVIOUS
  <2>2. /\ a \in Seq(S) /\ Len(a) = m /\ \A i \in 1 .. m : a[i] = t[i]
    BY <1>5, <2>1
  <2>3. /\ b \in Seq(S) /\ Len(b) = m /\ \A i \in 1 .. m : b[i] = s[i]
    BY <1>3, <2>1
  <2>4. a = b
    BY <1>5, <2>2, <2>3
  <2> QED BY <1>5, <2>1, <2>4
<1>7. First(s, Len(s)) = s
  BY <1>3, FirstTyped
<1> QED BY <1>1, <1>3, <1>4, <1>5, <1>6, <1>7 DEF IsPrefix

\* The packet the handler has begun.
LEMMA Begun ==
    ASSUME TypeInv, StepInv, ~ Acks, NEW i \in DOMAIN sent, begun = Start(i), command # 0
    PROVE  sent[i] \in Packets /\ InPacket(i, sent[i])
<1>1. PICK k \in DOMAIN sent, p \in Packets : InPacket(k, p)
  BY DEF StepInv, NothingRead
<1>2. i \in 1 .. Len(sent) + 1 /\ Start(i) = Start(k)
  <2>1. i \in 1 .. Len(sent) + 1
    BY DEF TypeInv
  <2> QED BY <1>1, <2>1 DEF InPacket
<1>3. i = k
  BY <1>2, OneStart
<1> QED BY <1>1, <1>3 DEF InPacket

\* While no string has 256 bytes, the strings of a packet are read in the order
\* and with the lengths in which the client sent them, and all of them before the
\* next packet.
THEOREM AsSentHolds == Spec => []AsSent
<1>1. ASSUME TypeInv, StepInv PROVE AsSent
  <2>1. SUFFICES ASSUME NEW i \in DOMAIN sent, begun = Start(i),
                        command = Encoding[sent[i]][1], ~ Acks, ~ Long
                 PROVE  /\ IsPrefix(got, Strings(sent[i]))
                        /\ pc = "command" /\ read > begun
                             => got = IF sent[i].kind \in {"CONNECT", "PUBLISH", "SUBSCRIBE"}
                                      THEN Strings(sent[i]) ELSE <<>>
    BY DEF AsSent
  <2>2. PICK p : p = sent[i]
    OBVIOUS
  <2>3. p \in Packets
    BY <1>1, <2>1, <2>2, Sent
  <2>4. command # 0
    <3>1. command = Code[p.kind] + 2 * p.qos
      BY <2>1, <2>2, <2>3, PacketOctets
    <3> QED BY <2>3, <3>1, Kinds
  <2>5. InPacket(i, p)
    BY <1>1, <2>1, <2>2, <2>4, Begun
  <2>6. Short(p)
    <3>1. p.strs \in Seq(0 .. MaxString)
      BY <2>3, ConstantsOK DEF WellFormed
    <3>2. \A j \in DOMAIN p.strs : p.strs[j] \in Nat
      BY <3>1, Bounds
    <3>3. \A j \in DOMAIN p.strs : ~ (p.strs[j] >= 256)
      BY <2>1, <2>2 DEF Long
    <3> QED BY <3>2, <3>3 DEF Short
  <2>7. PICK m \in 0 .. Len(p.strs) : ReadStrings(p, m)
    BY <2>5, <2>6 DEF InPacket, FieldsOK
  <2>8. IsPrefix(got, Strings(p))
    BY <2>3, <2>7, FirstPrefix DEF ReadStrings
  <2>9. ASSUME pc = "command" PROVE got = IF HasFields(p) THEN Strings(p) ELSE <<>>
    <3>1. got = First(Strings(p), m) /\ m = IF HasFields(p) THEN Len(p.strs) ELSE 0
      BY <2>7, <2>9 DEF ReadStrings
    <3>2. First(Strings(p), Len(p.strs)) = Strings(p) /\ First(Strings(p), 0) = <<>>
      BY <2>3, FirstPrefix, StringsRead0
    <3> QED BY <3>1, <3>2
  <2> QED BY <2>2, <2>8, <2>9 DEF HasFields
<1> QED BY <1>1, SpecSteps, PTL

\* The bytes of a length decode to it, and the last one alone has no
\* continuation bit.
LEMMA RemainBytes ==
    ASSUME NEW n \in Nat, n <= MaxLength
    PROVE  /\ Decoded(remain_bytes(n)) = n
           /\ Len(remain_bytes(n)) \in 1 .. 4
           /\ DOMAIN remain_bytes(n) = 1 .. Len(remain_bytes(n))
           /\ \A k \in 1 .. Len(remain_bytes(n)) :
                 (remain_bytes(n)[k] >= 128) <=> k < Len(remain_bytes(n))
<1>1. /\ Weight[1] = 1 /\ Weight[2] = 128 /\ Weight[3] = 16384 /\ Weight[4] = 2097152
      /\ Weight[5] = 268435456
  BY SMT DEF Weight
<1>2. PICK c : c = remain_count(n)
  OBVIOUS
<1>3. /\ c \in 1 .. 4 /\ (c = 1 \/ n >= Weight[c]) /\ n < Weight[c + 1]
  <2> DEFINE Q(i) == (i = 1 \/ n >= Weight[i]) /\ (i = 5 \/ n < Weight[i + 1])
  <2>1. \E i \in 1 .. 5 : Q(i)
    <3>1. CASE n < Weight[2]
      <4>1. Q(1) /\ 1 \in 1 .. 5
        BY <3>1
      <4> QED BY <4>1
    <3>2. CASE ~ (n < Weight[2]) /\ n < Weight[3]
      <4>1. Q(2) /\ 2 \in 1 .. 5
        BY <1>1, <3>2, SMT
      <4> QED BY <4>1
    <3>3. CASE ~ (n < Weight[3]) /\ n < Weight[4]
      <4>1. Q(3) /\ 3 \in 1 .. 5
        BY <1>1, <3>3, SMT
      <4> QED BY <4>1
    <3>4. CASE ~ (n < Weight[4])
      <4>1. Q(4) /\ 4 \in 1 .. 5
        BY <1>1, <3>4, SMT DEF MaxLength
      <4> QED BY <4>1
    <3> QED BY <1>1, <3>1, <3>2, <3>3, <3>4, SMT
  <2>2. c \in 1 .. 5 /\ Q(c)
    BY <1>2, <2>1 DEF remain_count
  <2>3. c # 5
    BY <1>1, <2>2, SMT DEF MaxLength
  <2> QED BY <2>2, <2>3
<1>4. PICK b : b = remain_bytes(n)
  OBVIOUS
<1>5. b = [i \in 1 .. c |->
             ((n \div Weight[i]) % 128) + (IF n \div Weight[i] >= 128 THEN 128 ELSE 0)]
  BY <1>2, <1>4, Zenon DEF remain_bytes
<1>6. DOMAIN b = 1 .. c /\ Len(b) = c
  <2>1. DOMAIN b = 1 .. c /\ c \in Nat
    BY <1>3, <1>5
  <2> QED BY <1>5, <2>1
<1>7. ASSUME NEW i \in 1 .. c
      PROVE  /\ b[i] % 128 = (n \div Weight[i]) % 128
             /\ (b[i] >= 128) <=> n \div Weight[i] >= 128
  <2>1. PICK q : q = n \div Weight[i]
    OBVIOUS
  <2>2. q \in Nat
    BY <1>1, <1>3, <2>1, SMT
  <2>3. b[i] = (q % 128) + (IF q >= 128 THEN 128 ELSE 0)
    BY <1>5, <2>1
  <2>4. b[i] % 128 = q % 128 /\ ((b[i] >= 128) <=> q >= 128)
    BY <2>2, <2>3
  <2> QED BY <2>1, <2>4
<1>8. ASSUME NEW k \in 1 .. c PROVE (b[k] >= 128) <=> k < c
  <2>1. (b[k] >= 128) <=> n \div Weight[k] >= 128
    BY <1>7
  <2>2. (n \div Weight[k] >= 128) <=> k < c
    <3>1. CASE k = 1
      BY <1>1, <1>3, <3>1, SMT
    <3>2. CASE k = 2
      BY <1>1, <1>3, <3>2, SMT
    <3>3. CASE k = 3
      BY <1>1, <1>3, <3>3, SMT
    <3>4. CASE k = 4
      BY <1>1, <1>3, <3>4, SMT
    <3> QED BY <1>3, <3>1, <3>2, <3>3, <3>4
  <2> QED BY <2>1, <2>2
<1>9. Decoded(b) = n
  <2> DEFINE Part(i) == IF i \in DOMAIN b THEN (b[i] % 128) * Weight[i] ELSE 0
             D(i) == ((n \div Weight[i]) % 128) * Weight[i]
  <2>1. Decoded(b) = Part(1) + Part(2) + Part(3) + Part(4)
    BY DEF Decoded
  <2>2. \A i \in 1 .. 4 : Part(i) = IF i <= c THEN D(i) ELSE 0
    <3>1. ASSUME NEW i \in 1 .. 4 PROVE Part(i) = IF i <= c THEN D(i) ELSE 0
      <4>1. CASE i <= c
        <5>1. i \in 1 .. c
          BY <1>3, <4>1
        <5> QED BY <1>6, <1>7, <4>1, <5>1
      <4>2. CASE ~ (i <= c)
        BY <1>3, <1>6, <4>2
      <4> QED BY <4>1, <4>2
    <3> QED BY <3>1
  <2>3. /\ D(1) = n % Weight[2]
        /\ (n % Weight[2]) + D(2) = n % Weight[3]
        /\ (n % Weight[3]) + D(3) = n % Weight[4]
        /\ (n % Weight[4]) + D(4) = n % Weight[5]
    BY <1>1, SMT
  <2>4. /\ (n < Weight[2] => n % Weight[2] = n) /\ (n < Weight[3] => n % Weight[3] = n)
        /\ (n < Weight[4] => n % Weight[4] = n) /\ (n < Weight[5] => n % Weight[5] = n)
    BY <1>1, SMT
  <2>5. \A i \in 1 .. 4 : D(i) \in Nat
    BY <1>1, SMT
  <2> HIDE DEF Part, D
  <2>6. CASE c = 1
    BY <1>3, <2>1, <2>2, <2>3, <2>4, <2>5, <2>6, SMT
  <2>7. CASE c = 2
    BY <1>3, <2>1, <2>2, <2>3, <2>4, <2>5, <2>7, SMT
  <2>8. CASE c = 3
    BY <1>3, <2>1, <2>2, <2>3, <2>4, <2>5, <2>8, SMT
  <2>9. CASE c = 4
    BY <1>3, <2>1, <2>2, <2>3, <2>4, <2>5, <2>9, SMT
  <2> QED BY <1>3, <2>6, <2>7, <2>8, <2>9
<1> QED BY <1>3, <1>4, <1>6, <1>8, <1>9

\* A subscriber is sent the topic and the content of the PUBLISH, the latter up
\* to its first NUL, and the bytes of the length say how long both are, while the
\* topic is shorter than 16 bytes.
THEOREM ForwardedHolds == Spec => []Forwarded
<1>1. ASSUME TypeInv, StepInv PROVE Forwarded
  <2>1. SUFFICES ASSUME NEW i \in DOMAIN sent, out # None, begun = Start(i), ~ Acks,
                        sent[i].strs[1] < 16
                 PROVE  /\ Decoded(out.length) = 2 + out.text
                        /\ \A k \in DOMAIN out.length :
                              (out.length[k] >= 128) <=> k < Len(out.length)
                        /\ 256 * out.msb + out.lsb = sent[i].strs[1]
                        /\ out.text = sent[i].strs[1] + sent[i].plain
    BY DEF Forwarded
  <2>2. \E k \in DOMAIN sent, p \in Packets : InPacket(k, p)
    BY <1>1, <2>1 DEF StepInv, NothingRead
  <2>3. command # 0
    <3>1. PICK k \in DOMAIN sent, p \in Packets : InPacket(k, p)
      BY <2>2
    <3> QED BY <3>1, Kinds DEF InPacket
  <2>4. PICK p : p = sent[i]
    OBVIOUS
  <2>5. p \in Packets /\ InPacket(i, p)
    BY <1>1, <2>1, <2>3, <2>4, Begun
  <2>6. /\ p.kind = "PUBLISH" /\ Len(p.strs) = 1 /\ p.strs \in Seq(0 .. MaxString)
        /\ p.content \in Nat /\ p.plain \in 0 .. p.content
    BY <2>1, <2>5, ConstantsOK DEF InPacket, WellFormed
  <2>7. PICK t, c : t = p.strs[1] /\ c = p.plain
    OBVIOUS
  <2>8. t \in Nat /\ c \in Nat /\ t < 16
    BY <2>1, <2>4, <2>6, <2>7, Bounds
  <2>9. out = Forward(t, c)
    <3>1. Short(p)
      BY <2>6, <2>7, <2>8 DEF Short
    <3> QED BY <2>1, <2>5, <2>7, <3>1 DEF InPacket, FieldsOK
  <2>10. t + 2 + c <= MaxLength
    <3>1. 0 \in 0 .. Len(p.strs) /\ 1 \in 0 .. Len(p.strs) /\ 0 + 1 = 1
      BY <2>6
    <3>2. After(p, 0) = 0
      <4>1. Len(Header(p)) = 0
        BY <2>5, <2>6, HeaderOctets
      <4> QED BY <2>5, <3>1, <4>1, StringAt
    <3>3. After(p, 1) = 2 + t
      <4>1. PICK m : m = 0
        OBVIOUS
      <4>2. m \in 0 .. Len(p.strs) /\ m < Len(p.strs) /\ m + 1 = 1
        BY <2>6, <4>1
      <4>3. After(p, m + 1) =
               After(p, m) + 2 + p.strs[m + 1] + (IF p.kind = "SUBSCRIBE" THEN 1 ELSE 0)
        BY <2>5, <4>2, StringAt
      <4> QED BY <2>6, <2>7, <2>8, <3>2, <4>1, <4>2, <4>3
    <3>4. Len(Payload(p)) = After(p, 1) + Len(Trailer(p))
      BY <2>5, <2>6, <3>1, StringAt
    <3>5. /\ Len(Trailer(p)) = Len(MsgId(p)) + p.content /\ Len(MsgId(p)) \in Nat
          /\ c <= p.content
      BY <2>5, <2>6, <2>7, HeaderOctets
    <3>6. Len(Payload(p)) <= MaxLength
      BY <2>5, PayloadOctets
    <3>7. PICK j, l : j = Len(MsgId(p)) /\ l = MaxLength
      OBVIOUS
    <3>8. 2 + t + j + c <= l /\ j \in Nat /\ l \in Nat
      <4>1. PICK d, y : d = p.content /\ y = Len(Payload(p))
        OBVIOUS
      <4>2. y = (2 + t) + (j + d) /\ c <= d /\ y <= l
        BY <3>3, <3>4, <3>5, <3>6, <3>7, <4>1
      <4>3. j \in Nat /\ l \in Nat /\ d \in Nat
        BY <2>6, <3>5, <3>7, <4>1, Bounds
      <4> QED BY <2>8, <4>2, <4>3
    <3> QED BY <2>8, <3>7, <3>8
  <2>11. PICK b : b = remain_bytes(t + 2 + c)
    OBVIOUS
  <2>12. out.length = b /\ out.msb = 0 /\ out.lsb = t % 16 /\ out.text = t + c
    BY <2>9, <2>11 DEF Forward
  <2>13. /\ Decoded(b) = t + 2 + c /\ DOMAIN b = 1 .. Len(b)
         /\ \A k \in 1 .. Len(b) : (b[k] >= 128) <=> k < Len(b)
    <3>1. t + 2 + c \in Nat
      BY <2>8
    <3> QED BY <2>10, <2>11, <3>1, RemainBytes
  <2>14. Decoded(out.length) = 2 + out.text
    BY <2>8, <2>12, <2>13
  <2>15. 256 * out.msb + out.lsb = t
    BY <2>8, <2>12
  <2> QED BY <2>4, <2>7, <2>12, <2>13, <2>14, <2>15
<1> QED BY <1>1, SpecSteps, PTL
=============================================================================

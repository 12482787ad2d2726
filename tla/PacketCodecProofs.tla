------------------------- MODULE PacketCodecProofs -------------------------
(***************************************************************************)
(* Theorems about PacketCodec, for packets with any payload.               *)
(***************************************************************************)
EXTENDS PacketCodec, SequenceTheorems, TLAPS

Ip == [1 .. 4 -> Byte]

\* The packet that arrives when p is packed: the control type of packets that are no
\* control packets is dropped, and one that is missing has become ConfigRequest.
Arriving(p) ==
  [source_ip |-> p.source_ip, dest_ip |-> p.dest_ip, packet_type |-> p.packet_type,
   control_type |-> IF p.packet_type # "Control" THEN "None"
                    ELSE IF p.control_type = "None" THEN "ConfigRequest" ELSE p.control_type,
   payload |-> p.payload]

\* The handshake is over, and the keys agree; before that the request is its own.
SessionOK ==
  /\ pc = "ready" => connected
  /\ connected => key.client = key.server
  /\ ~connected => request = NewControl("ConfigRequest", <<>>)

\* The server understands no client with another key, and leaves it in its map.
ReplyOK ==
  /\ pc = "answered" /\ key.client # key.server => reply = Nothing
  /\ pc = "answered" /\ key.client = key.server /\ registered
       => ClientReads = Expected(request) /\ Acceptable(request)

IInv == /\ request \in Packet /\ configs \in {Nothing, <<DefaultConfig>>}
        /\ SessionOK /\ ReplyOK
        /\ AnswersUnderstood /\ DroppedIffUnacceptable /\ NeverPanics

-----------------------------------------------------------------------------
(***************************************************************************)
(* The layout of packets.                                                  *)
(***************************************************************************)

\* An address is four bytes.
LEMMA IpIsSeq == ASSUME NEW ip \in Ip PROVE ip \in Seq(Byte) /\ Len(ip) = 4
<1>1. ip \in Seq(Byte)
  BY SeqDef DEF Ip
<1>2. DOMAIN ip = 1 .. 4
  BY DEF Ip
<1>3. Len(ip) \in Nat /\ DOMAIN ip = 1 .. Len(ip)
  BY <1>1, LenProperties
<1> QED
  BY <1>1, <1>2, <1>3

\* Both codes are bytes, and decode to what they encode.
LEMMA Codes ==
  ASSUME NEW p \in Packet
  PROVE  /\ TypeCode(p.packet_type) \in Byte /\ ControlCode(p.control_type) \in Byte
         /\ TypeOf(TypeCode(p.packet_type)) = Ok(p.packet_type)
         /\ ControlOf(ControlCode(p.control_type))
              = Ok(IF p.control_type = "None" THEN "ConfigRequest" ELSE p.control_type)
<1>1. p.packet_type \in PacketType /\ p.control_type \in ControlType \cup {"None"}
  BY DEF Packet
<1>2. TypeCode("Data") = 0 /\ TypeCode("Keepalive") = 1 /\ TypeCode("Control") = 2
  BY Zenon DEF TypeCode
<1>3. TypeOf(0) = Ok("Data") /\ TypeOf(1) = Ok("Keepalive") /\ TypeOf(2) = Ok("Control")
  BY SMT DEF TypeOf
<1>4. /\ ControlCode("None") = 0 /\ ControlCode("ConfigRequest") = 0
      /\ ControlCode("ConfigResponse") = 1 /\ ControlCode("RouteUpdate") = 2
      /\ ControlCode("Disconnect") = 3
  BY Zenon DEF ControlCode
<1>5. /\ ControlOf(0) = Ok("ConfigRequest") /\ ControlOf(1) = Ok("ConfigResponse")
      /\ ControlOf(2) = Ok("RouteUpdate") /\ ControlOf(3) = Ok("Disconnect")
  BY SMT DEF ControlOf
<1>6. 0 \in Byte /\ 1 \in Byte /\ 2 \in Byte /\ 3 \in Byte
  BY DEF Byte
<1>7. /\ TypeCode(p.packet_type) \in Byte
      /\ TypeOf(TypeCode(p.packet_type)) = Ok(p.packet_type)
  BY <1>1, <1>2, <1>3, <1>6 DEF PacketType
<1>8. /\ ControlCode(p.control_type) \in Byte
      /\ ControlOf(ControlCode(p.control_type))
           = Ok(IF p.control_type = "None" THEN "ConfigRequest" ELSE p.control_type)
  BY <1>1, <1>4, <1>5, <1>6 DEF ControlType
<1> QED
  BY <1>7, <1>8

\* A sequence that lies in b after o elements is what SubSeq finds there.
LEMMA Piece ==
  ASSUME NEW S, NEW b \in Seq(S), NEW s \in Seq(S), NEW o \in Nat, o + Len(s) <= Len(b),
         \A i \in 1 .. Len(s) : b[i + o] = s[i]
  PROVE  SubSeq(b, o + 1, o + Len(s)) = s
<1> DEFINE m == o + 1
           n == o + Len(s)
           q == SubSeq(b, m, n)
<1>1. Len(s) \in Nat /\ Len(b) \in Nat
  BY LenProperties
<1>2. m \in Int /\ n \in Int /\ n - m + 1 = Len(s) /\ (m > n => Len(s) = 0)
  BY <1>1
<1>3. \A i \in m .. n : b[i] \in S
  BY <1>1, ElementOfSeq
<1> HIDE DEF m, n
<1>4. /\ q \in Seq(S) /\ Len(q) = IF m <= n THEN n - m + 1 ELSE 0
      /\ \A i \in 1 .. n - m + 1 : q[i] = b[m + i - 1]
  BY <1>2, <1>3, SubSeqProperties
<1> HIDE DEF q
<1>5. q \in Seq(S) /\ Len(q) = Len(s)
  BY <1>1, <1>2, <1>4
<1>6. \A i \in 1 .. Len(q) : q[i] = s[i]
  <2> SUFFICES ASSUME NEW i \in 1 .. Len(s) PROVE q[i] = s[i]
    BY <1>5
  <2>1. q[i] = b[m + i - 1] /\ m + i - 1 = i + o
    BY <1>1, <1>2, <1>4 DEF m
  <2> QED
    BY <2>1
<1> QED
  BY <1>5, <1>6, SeqEqual DEF q, m, n

\* The sequence b consists of four parts, the first three of which have the lengths of
\* a packet's header.
Consists(b, s, d, c, t) ==
  /\ Len(b) = 10 + Len(t)
  /\ SubSeq(b, 1, 4) = s /\ SubSeq(b, 5, 8) = d /\ SubSeq(b, 11, Len(b)) = t
  /\ b[9] = c[1] /\ b[10] = c[2]

LEMMA FourParts ==
  ASSUME NEW S, NEW s \in Seq(S), NEW d \in Seq(S), NEW c \in Seq(S), NEW t \in Seq(S),
         Len(s) = 4, Len(d) = 4, Len(c) = 2
  PROVE  Consists(s \o d \o c \o t, s, d, c, t)
<1> DEFINE b == s \o d \o c \o t
<1>1. /\ s \o d \in Seq(S) /\ Len(s \o d) = 8
      /\ \A i \in 1 .. 8 : (s \o d)[i] = IF i <= 4 THEN s[i] ELSE d[i - 4]
  <2>1. /\ s \o d \in Seq(S) /\ Len(s \o d) = Len(s) + Len(d)
        /\ \A i \in 1 .. Len(s) + Len(d) :
             (s \o d)[i] = IF i <= Len(s) THEN s[i] ELSE d[i - Len(s)]
    BY ConcatProperties
  <2>2. Len(s) + Len(d) = 8
    OBVIOUS
  <2> QED
    BY <2>1, <2>2
<1> DEFINE h == s \o d
<1>2. h \in Seq(S) /\ Len(h) = 8
  BY <1>1
<1> HIDE DEF h
<1>3. /\ h \o c \in Seq(S) /\ Len(h \o c) = 10
      /\ \A i \in 1 .. 10 : (h \o c)[i] = IF i <= 8 THEN h[i] ELSE c[i - 8]
  <2>1. /\ h \o c \in Seq(S) /\ Len(h \o c) = Len(h) + Len(c)
        /\ \A i \in 1 .. Len(h) + Len(c) :
             (h \o c)[i] = IF i <= Len(h) THEN h[i] ELSE c[i - Len(h)]
    BY <1>2, ConcatProperties
  <2>2. Len(h) + Len(c) = 10
    BY <1>2
  <2> QED
    BY <1>2, <2>1, <2>2
<1> DEFINE g == h \o c
<1>4. g \in Seq(S) /\ Len(g) = 10
  BY <1>3
<1> HIDE DEF g
<1>5. /\ g \o t \in Seq(S) /\ Len(g \o t) = 10 + Len(t)
      /\ \A i \in 1 .. 10 + Len(t) : (g \o t)[i] = IF i <= 10 THEN g[i] ELSE t[i - 10]
  <2>1. /\ g \o t \in Seq(S) /\ Len(g \o t) = Len(g) + Len(t)
        /\ \A i \in 1 .. Len(g) + Len(t) :
             (g \o t)[i] = IF i <= Len(g) THEN g[i] ELSE t[i - Len(g)]
    BY <1>4, ConcatProperties
  <2> QED
    BY <1>4, <2>1
<1>6. b = g \o t
  BY DEF g, h
<1> HIDE DEF b
<1>7. b \in Seq(S) /\ Len(b) = 10 + Len(t) /\ Len(t) \in Nat
  BY <1>5, <1>6, LenProperties
<1>8. \A i \in 1 .. 4 : b[i] = s[i] /\ b[i + 4] = d[i]
  <2>1. \A i \in 1 .. 8 : b[i] = h[i]
    <3> SUFFICES ASSUME NEW i \in 1 .. 8 PROVE b[i] = h[i]
      OBVIOUS
    <3>1. i \in 1 .. 10 /\ i <= 8 /\ i \in 1 .. 10 + Len(t)
      BY <1>7
    <3>2. b[i] = g[i]
      BY <1>5, <1>6, <3>1
    <3> QED
      BY <1>3, <3>1, <3>2 DEF g
  <2> SUFFICES ASSUME NEW i \in 1 .. 4 PROVE b[i] = s[i] /\ b[i + 4] = d[i]
    OBVIOUS
  <2>2. /\ i \in 1 .. 8 /\ i <= 4
        /\ i + 4 \in 1 .. 8 /\ ~(i + 4 <= 4) /\ (i + 4) - 4 = i
    OBVIOUS
  <2>3. h[i] = s[i] /\ h[i + 4] = d[i]
    BY <1>1, <2>2 DEF h
  <2> QED
    BY <2>1, <2>2, <2>3
<1>9. b[9] = c[1] /\ b[10] = c[2]
  <2>1. /\ 9 \in 1 .. 10 /\ ~(9 <= 8) /\ 9 - 8 = 1 /\ 10 \in 1 .. 10 /\ ~(10 <= 8) /\ 10 - 8 = 2
        /\ 9 \in 1 .. 10 + Len(t) /\ 10 \in 1 .. 10 + Len(t)
    BY <1>7
  <2>2. b[9] = g[9] /\ b[10] = g[10]
    BY <1>5, <1>6, <2>1
  <2>3. g[9] = c[1] /\ g[10] = c[2]
    BY <1>3, <2>1 DEF g
  <2> QED
    BY <2>2, <2>3
<1>10. \A i \in 1 .. Len(t) : b[i + 10] = t[i]
  BY <1>5, <1>6, <1>7
<1> HIDE DEF g, h
<1>11. SubSeq(b, 1, 4) = s
  <2>1. \A i \in 1 .. Len(s) : b[i + 0] = s[i]
    <3> SUFFICES ASSUME NEW i \in 1 .. Len(s) PROVE b[i + 0] = s[i]
      OBVIOUS
    <3>1. i \in 1 .. 4 /\ i + 0 = i
      OBVIOUS
    <3> QED
      BY <1>8, <3>1
  <2>2. 0 + Len(s) <= Len(b)
    BY <1>7
  <2>3. SubSeq(b, 0 + 1, 0 + Len(s)) = s
    BY <1>7, <2>1, <2>2, Piece
  <2>4. 0 + 1 = 1 /\ 0 + Len(s) = 4
    OBVIOUS
  <2> QED
    BY <2>3, <2>4, Zenon
<1>12. SubSeq(b, 5, 8) = d
  <2>1. \A i \in 1 .. Len(d) : b[i + 4] = d[i]
    <3> SUFFICES ASSUME NEW i \in 1 .. Len(d) PROVE b[i + 4] = d[i]
      OBVIOUS
    <3>1. i \in 1 .. 4 /\ i + 0 = i
      OBVIOUS
    <3> QED
      BY <1>8, <3>1
  <2>2. 4 + Len(d) <= Len(b)
    BY <1>7
  <2>3. SubSeq(b, 4 + 1, 4 + Len(d)) = d
    BY <1>7, <2>1, <2>2, Piece
  <2>4. 4 + 1 = 5 /\ 4 + Len(d) = 8
    OBVIOUS
  <2> QED
    BY <2>3, <2>4, Zenon
<1>13. SubSeq(b, 11, Len(b)) = t
  <2>1. SubSeq(b, 10 + 1, 10 + Len(t)) = t
    BY <1>7, <1>10, Piece
  <2> QED
    BY <1>7, <2>1
<1> QED
  BY <1>7, <1>9, <1>11, <1>12, <1>13 DEF b, Consists

\* Where the parts of a packet lie among its bytes.
LEMMA Layout ==
  ASSUME NEW p \in Packet, NEW b, b = ToBytes(p)
  PROVE  /\ Len(b) = 10 + Len(p.payload) /\ Len(p.payload) \in Nat
         /\ SubSeq(b, 1, 4) = p.source_ip /\ SubSeq(b, 5, 8) = p.dest_ip
         /\ SubSeq(b, 11, Len(b)) = p.payload
         /\ b[9] = TypeCode(p.packet_type) /\ b[10] = ControlCode(p.control_type)
<1> DEFINE x == TypeCode(p.packet_type)
           y == ControlCode(p.control_type)
<1>1. p.source_ip \in Ip /\ p.dest_ip \in Ip /\ p.payload \in Seq(Byte)
  BY DEF Packet, Ip
<1>2. x \in Byte /\ y \in Byte
  BY Codes
<1>3. b = p.source_ip \o p.dest_ip \o <<x, y>> \o p.payload
  BY DEF ToBytes
<1> HIDE DEF x, y
<1> DEFINE s == p.source_ip
           d == p.dest_ip
           c == <<x, y>>
           t == p.payload
<1>4. c \in Seq(Byte) /\ Len(c) = 2 /\ c[1] = x /\ c[2] = y
  BY <1>2
<1>5. s \in Seq(Byte) /\ Len(s) = 4 /\ d \in Seq(Byte) /\ Len(d) = 4 /\ t \in Seq(Byte)
  BY <1>1, IpIsSeq
<1>6. b = s \o d \o c \o t
  BY <1>3
<1> HIDE DEF s, d, c, t
<1>7. Consists(b, s, d, c, t)
  BY <1>4, <1>5, <1>6, FourParts
<1>8. Len(t) \in Nat
  BY <1>5, LenProperties
<1> QED
  BY <1>4, <1>7, <1>8 DEF Consists, s, d, t, x, y

\* What is packed and unpacked is the packet again: a packet with the control type that
\* its packet type calls for is unchanged.
THEOREM RoundTrip ==
  ASSUME NEW p \in Packet
  PROVE  Unpacked(ToBytes(p)) = Ok(Arriving(p))
<1> DEFINE b == ToBytes(p)
<1>1. /\ Len(b) = 10 + Len(p.payload) /\ Len(p.payload) \in Nat
      /\ SubSeq(b, 1, 4) = p.source_ip /\ SubSeq(b, 5, 8) = p.dest_ip
      /\ SubSeq(b, 11, Len(b)) = p.payload
      /\ b[9] = TypeCode(p.packet_type) /\ b[10] = ControlCode(p.control_type)
  BY Layout
<1>2. /\ TypeOf(b[9]) = Ok(p.packet_type)
      /\ ControlOf(b[10]) = Ok(IF p.control_type = "None" THEN "ConfigRequest" ELSE p.control_type)
  BY <1>1, Codes
<1> SUFFICES Unpacked(b) = Ok(Arriving(p))
  OBVIOUS
<1> HIDE DEF b
<1>3. ~(Len(b) < 8) /\ ~(Len(b) \in 8 .. 9)
  BY SMTT(30), <1>1
<1>4. Unpacked(b) = Fields(b)
  BY <1>3 DEF Unpacked
<1>5. CASE p.packet_type = "Control"
  <2>1. /\ TypeOf(b[9]) = Ok("Control") /\ TypeOf(b[9]).ok /\ TypeOf(b[9]).val = p.packet_type
        /\ ControlOf(b[10]).ok
        /\ ControlOf(b[10]).val
             = IF p.control_type = "None" THEN "ConfigRequest" ELSE p.control_type
    BY <1>2, <1>5 DEF Ok
  <2>2. Fields(b) = Ok([source_ip |-> SubSeq(b, 1, 4), dest_ip |-> SubSeq(b, 5, 8),
                       packet_type |-> TypeOf(b[9]).val, control_type |-> ControlOf(b[10]).val,
                       payload |-> SubSeq(b, 11, Len(b))])
    BY <2>1 DEF Fields
  <2> QED
    BY <1>1, <1>4, <1>5, <2>1, <2>2 DEF Arriving
<1>6. CASE p.packet_type # "Control"
  <2>1. /\ TypeOf(b[9]) # Ok("Control") /\ TypeOf(b[9]).ok /\ TypeOf(b[9]).val = p.packet_type
        /\ Ok("None").ok /\ Ok("None").val = "None"
    BY <1>2, <1>6 DEF Ok
  <2>2. Fields(b) = Ok([source_ip |-> SubSeq(b, 1, 4), dest_ip |-> SubSeq(b, 5, 8),
                       packet_type |-> TypeOf(b[9]).val, control_type |-> Ok("None").val,
                       payload |-> SubSeq(b, 11, Len(b))])
    BY <2>1 DEF Fields
  <2> QED
    BY <1>1, <1>4, <1>6, <2>1, <2>2 DEF Arriving
<1> QED
  BY <1>5, <1>6

\* The program's two parsers, VpnPacket::from_bytes and ProtocolHandler::unpack, agree
\* except on eight and nine bytes: there the one reports an error and the other panics.
THEOREM ParsersAgree ==
  ASSUME NEW b \in Seq(Byte), Len(b) \notin 8 .. 9
  PROVE  /\ Unpacked(b).ok <=> FromBytes(b).ok
         /\ Unpacked(b).ok => Unpacked(b) = FromBytes(b)
<1> DEFINE n == Len(b)
<1>1. n \in Nat /\ n \notin 8 .. 9
  BY LenProperties
<1>2. Unpacked(b) = IF n < 8 THEN Err("GenericError") ELSE Fields(b)
  <2> HIDE DEF n
  <2>1. (n < 8 => n \notin 8 .. 9)
    BY <1>1
  <2> QED
    BY <1>1, <2>1 DEF Unpacked, n
<1>3. FromBytes(b) = IF n < 10 THEN Err("Protocol") ELSE Fields(b)
  BY DEF FromBytes
<1> HIDE DEF n
<1>4. n < 8 <=> n < 10
  BY <1>1
<1> QED
  BY <1>2, <1>3, <1>4 DEF Err

-----------------------------------------------------------------------------
(***************************************************************************)
(* Frames.                                                                 *)
(***************************************************************************)

\* What comes out at the other end of a connection.
THEOREM Transmission ==
  ASSUME NEW p \in Packet, NEW j, NEW k
  PROVE  ReadFrame(k, Pack(j, p)) =
           IF Fits(p) THEN IF j = k THEN Ok(Arriving(p)) ELSE Err("Encryption")
           ELSE Err("Protocol")
<1> DEFINE f == Pack(j, p)
           n == Len(p.payload)
<1>1. n \in Nat /\ f.key = j /\ f.plain = ToBytes(p) /\ f.len = 10 + n + 28
  BY Layout DEF Pack, Encrypt
<1>2. ReadFrame(k, f) = IF f.len > 65535 THEN Err("Protocol") ELSE Unpack(k, f)
  BY DEF ReadFrame, MaxPacket
<1>3. Unpack(k, f) = IF j = k THEN Ok(Arriving(p)) ELSE Err("Encryption")
  <2>1. CASE j = k
    <3>1. Decrypt(k, f) = Ok(ToBytes(p))
      BY <1>1, <2>1 DEF Decrypt
    <3>2. Decrypt(k, f).ok /\ Decrypt(k, f).val = ToBytes(p)
      BY <3>1 DEF Ok
    <3> QED
      BY <2>1, <3>2, RoundTrip DEF Unpack
  <2>2. CASE j # k
    <3>1. Decrypt(k, f) = Err("Encryption") /\ ~Err("Encryption").ok
      BY <1>1, <2>2 DEF Decrypt, Err
    <3> QED
      BY <2>2, <3>1 DEF Unpack
  <2> QED
    BY <2>1, <2>2
<1>4. Fits(p) <=> n <= 65497
  BY DEF Fits
<1> HIDE DEF f, n
<1>5. f.len > 65535 <=> ~Fits(p)
  BY <1>1, <1>4
<1>6. ReadFrame(k, f) = IF Fits(p) THEN IF j = k THEN Ok(Arriving(p)) ELSE Err("Encryption")
                        ELSE Err("Protocol")
  BY <1>2, <1>3, <1>5
<1> QED
  BY <1>6 DEF f

\* Control packets of the program are packets, and arrive unchanged.
LEMMA Controls ==
  ASSUME NEW c \in ControlType, NEW b \in Seq(Byte)
  PROVE  NewControl(c, b) \in Packet /\ Arriving(NewControl(c, b)) = NewControl(c, b)
<1>1. NoAddr \in [1 .. 4 -> Byte]
  BY DEF NoAddr, Byte
<1>2. c # "None"
  BY DEF ControlType
<1> QED
  BY <1>1, <1>2 DEF NewControl, Packet, PacketType, Arriving

\* Three words of four bytes.
LEMMA Words ==
  ASSUME NEW s \in Seq(Byte), NEW d \in Seq(Byte), NEW c \in Seq(Byte), NEW v \in Seq(Byte),
         Len(s) = 4, Len(d) = 4, Len(c) = 4, Len(v) = 12,
         \A i \in 1 .. 4 : v[i] = s[i] /\ v[i + 4] = d[i] /\ v[i + 8] = c[i]
  PROVE  s \o d \o c = v
<1>1. /\ s \o d \in Seq(Byte) /\ Len(s \o d) = Len(s) + Len(d)
      /\ \A i \in 1 .. Len(s) + Len(d) : (s \o d)[i] = IF i <= Len(s) THEN s[i] ELSE d[i - Len(s)]
  BY ZenonT(60), ConcatProperties
<1>2. Len(s) + Len(d) = 8
  OBVIOUS
<1> DEFINE h == s \o d
<1>3. h \in Seq(Byte)
  BY <1>1
<1>4. Len(h) = 8 /\ \A i \in 1 .. 8 : h[i] = IF i <= 4 THEN s[i] ELSE d[i - 4]
  BY <1>1, <1>2
<1> HIDE DEF h
<1>5. /\ h \o c \in Seq(Byte) /\ Len(h \o c) = Len(h) + Len(c)
      /\ \A i \in 1 .. Len(h) + Len(c) : (h \o c)[i] = IF i <= Len(h) THEN h[i] ELSE c[i - Len(h)]
  BY ZenonT(60), <1>3, ConcatProperties
<1>6. Len(h) + Len(c) = 12
  BY <1>4
<1> DEFINE g == h \o c
<1>7. g \in Seq(Byte)
  BY <1>5
<1>8. Len(g) = 12 /\ \A i \in 1 .. 12 : g[i] = IF i <= 8 THEN h[i] ELSE c[i - 8]
  BY <1>4, <1>5, <1>6
<1> HIDE DEF g
<1>9. \A i \in 1 .. 4 : g[i] = s[i] /\ g[i + 4] = d[i] /\ g[i + 8] = c[i]
  BY <1>4, <1>8
<1>10. \A i \in 1 .. Len(g) : g[i] = v[i]
  <2> SUFFICES ASSUME NEW i \in 1 .. 12 PROVE g[i] = v[i]
    BY <1>8
  <2>1. CASE i \in 1 .. 4
    BY <1>9, <2>1
  <2>2. CASE i \in 5 .. 8
    <3>1. i - 4 \in 1 .. 4 /\ (i - 4) + 4 = i
      BY <2>2
    <3> QED
      BY <1>9, <3>1
  <2>3. CASE i \in 9 .. 12
    <3>1. i - 8 \in 1 .. 4 /\ (i - 8) + 8 = i
      BY <2>3
    <3> QED
      BY <1>9, <3>1
  <2> QED
    BY <2>1, <2>2, <2>3
<1>11. Len(g) = Len(v)
  BY <1>8
<1>12. g = v
  BY <1>7, <1>10, <1>11, SeqEqual
<1> QED
  BY <1>12 DEF g, h

\* What the server serializes.
LEMMA DefaultConfigBytes ==
  /\ SerializeConfig(DefaultConfig) = <<0, 0, 5, 220, 0, 0, 0, 30, 0, 0, 0, 3>>
  /\ SerializeConfig(DefaultConfig) \in Seq(Byte)
<1> DEFINE s == <<0, 0, 5, 220>>
           d == <<0, 0, 0, 30>>
           c == <<0, 0, 0, 3>>
           v == <<0, 0, 5, 220, 0, 0, 0, 30, 0, 0, 0, 3>>
<1>1. 0 \in Byte /\ 5 \in Byte /\ 220 \in Byte /\ 30 \in Byte /\ 3 \in Byte
  BY DEF Byte
<1>2. s \in Seq(Byte) /\ d \in Seq(Byte) /\ c \in Seq(Byte) /\ v \in Seq(Byte)
  BY <1>1
<1>3. Len(s) = 4 /\ Len(d) = 4 /\ Len(c) = 4 /\ Len(v) = 12
  OBVIOUS
<1>4. \A i \in 1 .. 4 : v[i] = s[i] /\ v[i + 4] = d[i] /\ v[i + 8] = c[i]
  <2>1. /\ v[1] = s[1] /\ v[2] = s[2] /\ v[3] = s[3] /\ v[4] = s[4]
        /\ v[5] = d[1] /\ v[6] = d[2] /\ v[7] = d[3] /\ v[8] = d[4]
        /\ v[9] = c[1] /\ v[10] = c[2] /\ v[11] = c[3] /\ v[12] = c[4]
    OBVIOUS
  <2> HIDE DEF s, d, c, v
  <2> SUFFICES ASSUME NEW i \in 1 .. 4 PROVE v[i] = s[i] /\ v[i + 4] = d[i] /\ v[i + 8] = c[i]
    OBVIOUS
  <2>2. i = 1 \/ i = 2 \/ i = 3 \/ i = 4
    OBVIOUS
  <2> QED
    BY <2>1, <2>2
<1>5. ToBe(1500) = s /\ ToBe(30) = d /\ ToBe(3) = c
  BY DEF ToBe
<1>6. /\ DefaultConfig.mtu = 1500 /\ DefaultConfig.keepalive_interval = 30
      /\ DefaultConfig.reconnect_attempts = 3
  BY DEF DefaultConfig
<1> HIDE DEF s, d, c, v
<1>7. SerializeConfig(DefaultConfig) = s \o d \o c
  BY <1>5, <1>6 DEF SerializeConfig
<1>8. s \o d \o c = v
  BY <1>2, <1>3, <1>4, Words
<1> QED
  BY <1>2, <1>7, <1>8 DEF v

-----------------------------------------------------------------------------
(***************************************************************************)
(* The exchanges.                                                          *)
(***************************************************************************)

\* What the server makes of the client's frame.
LEMMA ReceivedIs ==
  ASSUME request \in Packet
  PROVE  /\ Received.ok <=> Fits(request) /\ key.client = key.server
         /\ Received.ok => Received.val = Arriving(request)
         /\ ~Received.ok => Received.val = IF Fits(request) THEN "Encryption" ELSE "Protocol"
<1>1. Received = IF Fits(request)
                 THEN IF key.client = key.server THEN Ok(Arriving(request)) ELSE Err("Encryption")
                 ELSE Err("Protocol")
  BY Transmission DEF Received
<1>2. /\ Ok(Arriving(request)).ok /\ Ok(Arriving(request)).val = Arriving(request)
      /\ ~Err("Protocol").ok /\ Err("Protocol").val = "Protocol"
      /\ ~Err("Encryption").ok /\ Err("Encryption").val = "Encryption"
  BY DEF Ok, Err
<1>3. CASE ~Fits(request)
  BY <1>1, <1>2, <1>3
<1>4. CASE Fits(request) /\ key.client = key.server
  BY <1>1, <1>2, <1>4
<1>5. CASE Fits(request) /\ key.client # key.server
  BY <1>1, <1>2, <1>5
<1> QED
  BY <1>3, <1>4, <1>5

\* An arriving packet has a control type if and only if it is a control packet.
LEMMA ArrivingIs ==
  ASSUME NEW p \in Packet
  PROVE  /\ Arriving(p) \in Packet
         /\ Arriving(p).packet_type = p.packet_type /\ Arriving(p).payload = p.payload
         /\ Arriving(p).source_ip = p.source_ip /\ Arriving(p).dest_ip = p.dest_ip
         /\ p.packet_type # "Control" => Arriving(p).control_type = "None"
         /\ p.packet_type = "Control" =>
              Arriving(p).control_type
                = IF p.control_type = "None" THEN "ConfigRequest" ELSE p.control_type
         /\ p.packet_type \in PacketType /\ p.control_type \in ControlType \cup {"None"}
BY DEF Arriving, Packet, PacketType, ControlType

\* The answers that the worker writes reach a client that has the server's key.
LEMMA Answered ==
  ASSUME NEW p \in Packet, Fits(p), Arriving(p) = p,
         key.client = key.server, reply' = Answer(p), key' = key
  PROVE  ClientReads' = Ok(p)
<1>1. ReadFrame(key.client, Pack(key.server, p)) = Ok(p)
  BY Transmission
<1>2. reply' # Nothing /\ reply'[1] = Pack(key.server, p)
  BY DEF Answer, Nothing
<1> QED
  BY <1>1, <1>2 DEF ClientReads

LEMMA InitInv == Init => IInv
<1> SUFFICES ASSUME Init PROVE IInv
  OBVIOUS
<1>1. request \in Packet
  <2>1. "ConfigRequest" \in ControlType /\ <<>> \in Seq(Byte)
    BY DEF ControlType
  <2> QED
    BY <2>1, Controls DEF Init
<1> QED
  BY <1>1 DEF Init, IInv, SessionOK, ReplyOK, AnswersUnderstood, DroppedIffUnacceptable, NeverPanics

\* A client is dismissed for a packet that is unacceptable, and otherwise its key is wrong.
LEMMA DismissInv ==
  ASSUME IInv, NEW error, Dismiss(error), error # "panic",
         error = "Protocol" => ~Acceptable(request),
         error # "Protocol" => key.client # key.server
  PROVE  IInv'
<1>1. /\ pc = "sent" /\ registered /\ pc' = "answered" /\ reply' = Nothing
      /\ UNCHANGED <<connected, config, request, outcome, key, configs, routes, worker>>
  BY DEF Dismiss, Handles
<1>2. IF error = "Protocol" THEN registered' = FALSE /\ culprit' = <<request>>
                            ELSE UNCHANGED <<registered, culprit>>
  BY DEF Dismiss
<1>3. request' \in Packet /\ configs' \in {Nothing, <<DefaultConfig>>} /\ SessionOK' /\ NeverPanics'
  BY <1>1 DEF IInv, SessionOK, NeverPanics
<1>4. ReplyOK'
  BY <1>1, <1>2 DEF ReplyOK
<1>5. AnswersUnderstood'
  BY <1>1 DEF AnswersUnderstood
<1>6. DroppedIffUnacceptable'
  <2>1. ~registered' => culprit' # Nothing /\ ~Acceptable(culprit'[1])
    <3>1. CASE error = "Protocol"
      BY <1>2, <3>1 DEF Nothing
    <3>2. CASE error # "Protocol"
      BY <1>1, <1>2, <3>2
    <3> QED
      BY <3>1, <3>2
  <2> QED
    BY <1>1, <2>1 DEF DroppedIffUnacceptable
<1> QED
  BY <1>3, <1>4, <1>5, <1>6 DEF IInv

\* The worker writes the answer that is expected to an acceptable packet.
LEMMA AnswerInv ==
  ASSUME IInv, NEW p \in Packet, Handles(Answer(p)), Arriving(p) = p, Fits(p),
         Expected(request) = Ok(p), Acceptable(request), key.client = key.server,
         configs' \in {Nothing, <<DefaultConfig>>}, UNCHANGED <<registered, worker, culprit>>
  PROVE  IInv'
<1>1. /\ pc = "sent" /\ registered /\ pc' = "answered" /\ reply' = Answer(p)
      /\ UNCHANGED <<connected, config, request, outcome, key>>
  BY DEF Handles
<1>2. request' \in Packet /\ SessionOK' /\ NeverPanics'
  BY <1>1 DEF IInv, SessionOK, NeverPanics
<1>3. ClientReads' = Expected(request')
  BY <1>1, Answered
<1>4. ReplyOK'
  BY <1>1, <1>3 DEF ReplyOK
<1>5. AnswersUnderstood' /\ DroppedIffUnacceptable'
  BY <1>1 DEF AnswersUnderstood, DroppedIffUnacceptable
<1> QED
  BY <1>2, <1>4, <1>5 DEF IInv

LEMMA UnreadableInv == IInv /\ Unreadable => IInv'
<1> SUFFICES ASSUME IInv, Unreadable PROVE IInv'
  OBVIOUS
<1>1. request \in Packet /\ ~Received.ok /\ Dismiss(Received.val)
  BY DEF IInv, Unreadable
<1>2. Received.val = "Protocol" => ~Acceptable(request)
  BY <1>1, ReceivedIs DEF Acceptable
<1>3. Received.val # "panic" /\ (Received.val # "Protocol" => key.client # key.server)
  BY <1>1, ReceivedIs
<1> QED
  BY <1>1, <1>2, <1>3, DismissInv

\* The facts about a packet that is received.
LEMMA ReceivedPacket ==
  ASSUME IInv, Received.ok
  PROVE  /\ request \in Packet /\ key.client = key.server /\ Fits(request)
         /\ Received.val = Arriving(request)
BY ReceivedIs DEF IInv

LEMMA HandleDataInv == IInv /\ HandleData => IInv'
<1> SUFFICES ASSUME IInv, HandleData PROVE IInv'
  OBVIOUS
<1> DEFINE p == Received.val
           q == Echo(p)
<1>1. /\ request \in Packet /\ key.client = key.server /\ Fits(request)
      /\ p = Arriving(request) /\ p.packet_type = "Data"
      /\ Handles(Answer(q)) /\ UNCHANGED serverVars
  BY ReceivedPacket DEF HandleData
<1>2. /\ request.packet_type = "Data" /\ p \in Packet /\ p.payload = request.payload
      /\ p.control_type = "None" /\ p.source_ip = request.source_ip /\ p.dest_ip = request.dest_ip
  BY <1>1, ArrivingIs
<1> HIDE DEF p
<1>3. q = [source_ip |-> request.dest_ip, dest_ip |-> request.source_ip, packet_type |-> "Data",
           control_type |-> "None", payload |-> request.payload]
  BY <1>2 DEF Echo
<1> HIDE DEF q
<1>4. q \in Packet /\ Fits(q)
  <2>1. q.payload = request.payload /\ q \in Packet
    BY <1>1, <1>3 DEF Packet, PacketType
  <2> QED
    BY <1>1, <2>1 DEF Fits
<1>5. Arriving(q) = q
  BY <1>3 DEF Arriving
<1>6. Expected(request) = Ok(q)
  <2>1. /\ request.packet_type = "Data" /\ "Data" # "Keepalive" /\ "Data" # "Control"
    BY <1>2
  <2>2. Expected(request) = Ok([source_ip |-> request.dest_ip, dest_ip |-> request.source_ip,
                               packet_type |-> "Data", control_type |-> "None",
                               payload |-> request.payload])
    BY <2>1 DEF Expected
  <2> QED
    BY <1>3, <2>2
<1>7. Acceptable(request)
  BY <1>1, <1>2 DEF Acceptable
<1>8. configs' \in {Nothing, <<DefaultConfig>>} /\ UNCHANGED <<registered, worker, culprit>>
  BY <1>1 DEF serverVars, IInv
<1> QED
  BY <1>1, <1>4, <1>5, <1>6, <1>7, <1>8, AnswerInv

LEMMA HandleKeepaliveInv == IInv /\ HandleKeepalive => IInv'
<1> SUFFICES ASSUME IInv, HandleKeepalive PROVE IInv'
  OBVIOUS
<1>1. /\ request \in Packet /\ key.client = key.server /\ Fits(request)
      /\ Received.val = Arriving(request) /\ Received.val.packet_type = "Keepalive"
  BY ReceivedPacket DEF HandleKeepalive
<1>2. request.packet_type = "Keepalive"
  BY <1>1, ArrivingIs
<1>3. /\ pc = "sent" /\ registered /\ pc' = "answered" /\ reply' = Nothing
      /\ UNCHANGED <<connected, config, request, outcome, key, registered, configs, routes, worker,
                     culprit>>
  BY DEF HandleKeepalive, Handles, serverVars
<1>4. Expected(request) = Err("Io")
  BY <1>2 DEF Expected
<1>5. ClientReads' = Expected(request')
  BY <1>3, <1>4 DEF ClientReads
<1>6. Acceptable(request)
  BY <1>1, <1>2 DEF Acceptable
<1>7. ReplyOK'
  BY <1>3, <1>5, <1>6 DEF ReplyOK
<1>8. request' \in Packet /\ configs' \in {Nothing, <<DefaultConfig>>} /\ SessionOK' /\ NeverPanics'
  BY <1>3 DEF IInv, SessionOK, NeverPanics
<1>9. AnswersUnderstood' /\ DroppedIffUnacceptable'
  BY <1>3 DEF AnswersUnderstood, DroppedIffUnacceptable
<1> QED
  BY <1>7, <1>8, <1>9 DEF IInv

\* The control packets that are answered.
LEMMA ControlInv ==
  ASSUME IInv, NEW c \in ControlType, NEW b \in Seq(Byte), Fits(NewControl(c, b)),
         Handles(Answer(NewControl(c, b))),
         Expected(request) = Ok(NewControl(c, b)), Acceptable(request), key.client = key.server,
         configs' \in {Nothing, <<DefaultConfig>>}, UNCHANGED <<registered, worker, culprit>>
  PROVE  IInv'
<1> DEFINE q == NewControl(c, b)
<1>1. q \in Packet /\ Arriving(q) = q
  BY Controls
<1>2. Fits(q) /\ Handles(Answer(q)) /\ Expected(request) = Ok(q)
  OBVIOUS
<1> HIDE DEF q
<1> QED
  BY <1>1, <1>2, AnswerInv

LEMMA SendConfigInv == IInv /\ SendConfig => IInv'
<1> SUFFICES ASSUME IInv, SendConfig PROVE IInv'
  OBVIOUS
<1> DEFINE b == SerializeConfig(DefaultConfig)
<1>1. /\ request \in Packet /\ key.client = key.server /\ Fits(request)
      /\ Received.val = Arriving(request) /\ Received.val.control_type = "ConfigRequest"
  BY ReceivedPacket DEF SendConfig
<1>2. request.packet_type = "Control" /\ request.control_type \in {"None", "ConfigRequest"}
  BY <1>1, ArrivingIs
<1>3. configs' = <<DefaultConfig>>
  BY DEF SendConfig, IInv, Nothing
<1>4. Handles(Answer(NewControl("ConfigResponse", b)))
  BY <1>3 DEF SendConfig
<1>5. b \in Seq(Byte) /\ b = <<0, 0, 5, 220, 0, 0, 0, 30, 0, 0, 0, 3>>
  BY DefaultConfigBytes
<1>6. Fits(NewControl("ConfigResponse", b))
  <2> DEFINE v == <<0, 0, 5, 220, 0, 0, 0, 30, 0, 0, 0, 3>>
  <2>1. Fits(NewControl("ConfigResponse", v))
    BY DEF Fits, NewControl
  <2> QED
    BY <1>5, <2>1
<1> HIDE DEF b
<1>7. Expected(request) = Ok(NewControl("ConfigResponse", b))
  <2>1. /\ request.packet_type # "Data" /\ request.packet_type # "Keepalive"
        /\ request.control_type # "RouteUpdate"
    BY <1>2
  <2> QED
    BY <1>5, <2>1 DEF Expected
<1>8. Acceptable(request)
  <2>1. request.control_type \notin {"ConfigResponse", "Disconnect"} /\ request.control_type # "RouteUpdate"
    BY <1>2
  <2> QED
    BY <1>1, <2>1 DEF Acceptable
<1>9. "ConfigResponse" \in ControlType /\ UNCHANGED <<registered, worker, culprit>>
  BY DEF ControlType, SendConfig
<1>10. configs' \in {Nothing, <<DefaultConfig>>}
  BY <1>3
<1> QED
  BY <1>1, <1>3, <1>4, <1>5, <1>6, <1>7, <1>8, <1>9, <1>10, ControlInv

LEMMA UpdateRoutesInv == IInv /\ UpdateRoutes => IInv'
<1> SUFFICES ASSUME IInv, UpdateRoutes PROVE IInv'
  OBVIOUS
<1> DEFINE b == Received.val.payload
           parsed == ParseRoutes(b)
<1>1. /\ request \in Packet /\ key.client = key.server /\ Fits(request)
      /\ Received.val = Arriving(request) /\ Received.val.control_type = "RouteUpdate"
  BY ReceivedPacket DEF UpdateRoutes
<1>2. request.packet_type = "Control" /\ request.control_type = "RouteUpdate" /\ b = request.payload
  BY <1>1, ArrivingIs
<1>3. CASE Len(b) % 16 = 0
  <2>1. parsed.ok
    BY <1>3 DEF ParseRoutes, Ok
  <2>2. Handles(Answer(NewControl("RouteUpdate", <<1>>)))
        /\ UNCHANGED <<registered, configs, worker, culprit>>
    BY <2>1 DEF UpdateRoutes
  <2>3. Expected(request) = Ok(NewControl("RouteUpdate", <<1>>))
    BY <1>2 DEF Expected
  <2>4. Acceptable(request)
    <3>1. request.control_type \notin {"ConfigResponse", "Disconnect"} /\ WholeRoutes(request)
      BY <1>2, <1>3 DEF WholeRoutes
    <3> QED
      BY <1>1, <3>1 DEF Acceptable
  <2>5. "RouteUpdate" \in ControlType /\ <<1>> \in Seq(Byte) /\ Fits(NewControl("RouteUpdate", <<1>>))
    BY DEF ControlType, Byte, Fits, NewControl
  <2>6. configs' \in {Nothing, <<DefaultConfig>>}
    BY <2>2 DEF IInv
  <2> QED
    BY <1>1, <2>2, <2>3, <2>4, <2>5, <2>6, ControlInv
<1>4. CASE Len(b) % 16 # 0
  <2>1. parsed = Err("Protocol")
    BY <1>4 DEF ParseRoutes
  <2>2. Dismiss("Protocol")
    BY <2>1 DEF UpdateRoutes, Err
  <2>3. ~Acceptable(request)
    <3>1. ~WholeRoutes(request)
      BY <1>2, <1>4 DEF WholeRoutes
    <3> QED
      BY <1>2, <3>1 DEF Acceptable
  <2> QED
    BY <2>2, <2>3, DismissInv
<1> QED
  BY <1>3, <1>4

LEMMA UnknownControlInv == IInv /\ UnknownControl => IInv'
<1> SUFFICES ASSUME IInv, UnknownControl PROVE IInv'
  OBVIOUS
<1>1. /\ request \in Packet /\ Received.val = Arriving(request)
      /\ Received.val.control_type = "ConfigResponse" /\ Dismiss("Protocol")
  BY ReceivedPacket DEF UnknownControl
<1>2. request.packet_type = "Control" /\ request.control_type = "ConfigResponse"
  BY <1>1, ArrivingIs
<1> QED
  BY <1>1, <1>2, DismissInv DEF Acceptable

LEMMA HandleDisconnectInv == IInv /\ HandleDisconnect => IInv'
<1> SUFFICES ASSUME IInv, HandleDisconnect PROVE IInv'
  OBVIOUS
<1>1. /\ request \in Packet /\ key.client = key.server /\ Received.val = Arriving(request)
      /\ Received.val.control_type = "Disconnect"
  BY ReceivedPacket DEF HandleDisconnect
<1>2. request.packet_type = "Control" /\ request.control_type = "Disconnect"
  BY <1>1, ArrivingIs
<1>3. ~Acceptable(request)
  BY <1>2 DEF Acceptable
<1>4. /\ pc' = "answered" /\ registered' = FALSE /\ culprit' = <<request>> /\ configs' = Nothing
      /\ UNCHANGED <<connected, config, request, outcome, key, worker>> /\ pc = "sent"
  BY DEF HandleDisconnect, Handles
<1>5. request' \in Packet /\ configs' \in {Nothing, <<DefaultConfig>>} /\ SessionOK' /\ NeverPanics'
  BY <1>4 DEF IInv, SessionOK, NeverPanics
<1>6. ReplyOK' /\ AnswersUnderstood'
  BY <1>1, <1>4 DEF ReplyOK, AnswersUnderstood
<1>7. DroppedIffUnacceptable'
  BY <1>3, <1>4 DEF DroppedIffUnacceptable, Nothing
<1> QED
  BY <1>5, <1>6, <1>7 DEF IInv

LEMMA UnheardInv == IInv /\ Unheard => IInv'
<1> SUFFICES ASSUME IInv, Unheard PROVE IInv'
  OBVIOUS
<1>1. /\ pc = "sent" /\ ~registered /\ pc' = "answered" /\ reply' = Nothing
      /\ UNCHANGED <<connected, config, request, outcome, key>>
      /\ UNCHANGED <<registered, configs, routes, worker, culprit>>
  BY DEF Unheard, serverVars, IInv, NeverPanics
<1>2. request' \in Packet /\ configs' \in {Nothing, <<DefaultConfig>>} /\ SessionOK' /\ NeverPanics'
  BY <1>1 DEF IInv, SessionOK, NeverPanics
<1>3. ReplyOK' /\ AnswersUnderstood' /\ DroppedIffUnacceptable'
  BY <1>1 DEF IInv, ReplyOK, AnswersUnderstood, DroppedIffUnacceptable
<1> QED
  BY <1>2, <1>3 DEF IInv

LEMMA FinishHandshakeInv == IInv /\ FinishHandshake => IInv'
<1> SUFFICES ASSUME IInv, FinishHandshake PROVE IInv'
  OBVIOUS
<1>1. /\ pc = "answered" /\ ~connected /\ outcome' = ClientReads
      /\ UNCHANGED <<request, registered, configs, routes, worker, culprit, key, reply>>
  BY DEF FinishHandshake, serverVars
<1>2. request' \in Packet /\ configs' \in {Nothing, <<DefaultConfig>>} /\ NeverPanics'
  BY <1>1 DEF IInv, NeverPanics
<1>3. CASE Settings(ClientReads).ok
  <2>1. pc' = "ready" /\ connected' = TRUE
    BY <1>3 DEF FinishHandshake
  <2>2. key.client = key.server
    <3> SUFFICES ASSUME key.client # key.server PROVE FALSE
      OBVIOUS
    <3>1. ClientReads = Err("Io")
      BY <1>1 DEF IInv, ReplyOK, ClientReads
    <3> QED
      BY <1>3, <3>1 DEF Settings, Err
  <2>3. registered => ClientReads = Expected(request) /\ Acceptable(request)
    BY <1>1, <2>2 DEF IInv, ReplyOK
  <2> QED
    BY <1>1, <1>2, <2>1, <2>2, <2>3
       DEF IInv, SessionOK, ReplyOK, AnswersUnderstood, DroppedIffUnacceptable
<1>4. CASE ~Settings(ClientReads).ok
  <2>1. pc' = "closed" /\ connected' = connected
    BY <1>4 DEF FinishHandshake
  <2> QED
    BY <1>1, <1>2, <2>1 DEF IInv, SessionOK, ReplyOK, AnswersUnderstood, DroppedIffUnacceptable
<1> QED
  BY <1>3, <1>4

LEMMA ReturnInv == IInv /\ Return => IInv'
<1> SUFFICES ASSUME IInv, Return PROVE IInv'
  OBVIOUS
<1>1. /\ pc = "answered" /\ connected /\ outcome' = ClientReads /\ pc' = "ready"
      /\ UNCHANGED <<connected, request, registered, configs, routes, worker, culprit, key, reply>>
  BY DEF Return, serverVars
<1>2. registered => ClientReads = Expected(request) /\ Acceptable(request)
  BY <1>1 DEF IInv, SessionOK, ReplyOK
<1> QED
  BY <1>1, <1>2 DEF IInv, SessionOK, ReplyOK, AnswersUnderstood, DroppedIffUnacceptable, NeverPanics

LEMMA ClientSendsInv == IInv /\ (Handshake \/ \E p \in Packets : SendPacket(p)) => IInv'
<1> SUFFICES ASSUME IInv, Handshake \/ \E p \in Packets : SendPacket(p) PROVE IInv'
  OBVIOUS
<1>1. /\ pc' = "sent" /\ UNCHANGED <<connected, registered, configs, worker, culprit, key>>
      /\ request' \in Packet /\ (~connected => request' = request)
  BY CodecAssumption DEF Handshake, SendPacket, serverVars, IInv, SessionOK
<1> QED
  BY <1>1 DEF IInv, SessionOK, ReplyOK, AnswersUnderstood, DroppedIffUnacceptable, NeverPanics

LEMMA StutterInv == IInv /\ UNCHANGED vars => IInv'
<1> SUFFICES ASSUME IInv, UNCHANGED vars PROVE IInv'
  OBVIOUS
<1>1. UNCHANGED <<pc, connected, config, request, outcome, registered, configs, routes, worker,
                  culprit, key, reply>>
  BY DEF vars, clientVars, serverVars
<1>2. ClientReads' = ClientReads
  BY <1>1 DEF ClientReads
<1> QED
  BY <1>1, <1>2
     DEF IInv, SessionOK, ReplyOK, AnswersUnderstood, DroppedIffUnacceptable, NeverPanics

\* The inductive invariant.
THEOREM Invariance == Spec => []IInv
<1>1. IInv /\ [Next]_vars => IInv'
  BY UnreadableInv, HandleDataInv, HandleKeepaliveInv, SendConfigInv, UpdateRoutesInv,
     HandleDisconnectInv, UnknownControlInv, UnheardInv, FinishHandshakeInv, ReturnInv,
     ClientSendsInv, StutterInv
     DEF Next, Server, Closed
<1> QED
  BY InitInv, <1>1, PTL DEF Spec

\* As long as the server keeps the client, send_packet returns the answer to the packet
\* it was given, whatever that packet is.
THEOREM AnswersReachTheClient == Spec => []AnswersUnderstood
<1>1. IInv => AnswersUnderstood
  BY DEF IInv
<1> QED
  BY <1>1, Invariance, PTL

\* The server drops a client for the packets it cannot accept, and for no others.
THEOREM LimitsAgree == Spec => []DroppedIffUnacceptable
<1>1. IInv => DroppedIffUnacceptable
  BY DEF IInv
<1> QED
  BY <1>1, Invariance, PTL

\* Nothing that a client packs makes the worker panic in unpack.
THEOREM WorkerSurvives == Spec => []NeverPanics
<1>1. IInv => NeverPanics
  BY DEF IInv
<1> QED
  BY <1>1, Invariance, PTL

-----------------------------------------------------------------------------
(***************************************************************************)
(* The payloads: configurations and routes.                                *)
(***************************************************************************)

\* The configuration that the server serializes is the one that the client reads.
LEMMA ConfigRead == ConfigFromBytes(<<0, 0, 5, 220, 0, 0, 0, 30, 0, 0, 0, 3>>) = Ok(DefaultConfig)
<1> DEFINE v == <<0, 0, 5, 220, 0, 0, 0, 30, 0, 0, 0, 3>>
           s == <<0, 0, 5, 220>>
           d == <<0, 0, 0, 30>>
           c == <<0, 0, 0, 3>>
<1>1. 0 \in Byte /\ 5 \in Byte /\ 220 \in Byte /\ 30 \in Byte /\ 3 \in Byte
  BY DEF Byte
<1>2. s \in Seq(Byte) /\ d \in Seq(Byte) /\ c \in Seq(Byte) /\ v \in Seq(Byte)
  BY <1>1
<1>3. Len(s) = 4 /\ Len(d) = 4 /\ Len(c) = 4 /\ Len(v) = 12
  OBVIOUS
<1>4. FromBe(s) = 1500 /\ FromBe(d) = 30 /\ FromBe(c) = 3
  BY DEF FromBe
<1>5. \A i \in 1 .. 4 : v[i + 0] = s[i] /\ v[i + 4] = d[i] /\ v[i + 8] = c[i]
  <2>1. /\ v[1] = s[1] /\ v[2] = s[2] /\ v[3] = s[3] /\ v[4] = s[4]
        /\ v[5] = d[1] /\ v[6] = d[2] /\ v[7] = d[3] /\ v[8] = d[4]
        /\ v[9] = c[1] /\ v[10] = c[2] /\ v[11] = c[3] /\ v[12] = c[4]
    OBVIOUS
  <2> HIDE DEF s, d, c, v
  <2> SUFFICES ASSUME NEW i \in 1 .. 4 PROVE v[i + 0] = s[i] /\ v[i + 4] = d[i] /\ v[i + 8] = c[i]
    OBVIOUS
  <2>2. i = 1 \/ i = 2 \/ i = 3 \/ i = 4
    OBVIOUS
  <2> QED
    BY <2>1, <2>2
<1> HIDE DEF v, s, d, c
<1>6. SubSeq(v, 0 + 1, 0 + Len(s)) = s
  BY <1>2, <1>3, <1>5, Piece
<1>7. SubSeq(v, 4 + 1, 4 + Len(d)) = d
  BY <1>2, <1>3, <1>5, Piece
<1>8. SubSeq(v, 8 + 1, 8 + Len(c)) = c
  BY <1>2, <1>3, <1>5, Piece
<1>9. SubSeq(v, 1, 4) = s /\ SubSeq(v, 5, 8) = d /\ SubSeq(v, 9, 12) = c
  BY <1>3, <1>6, <1>7, <1>8
<1>10. ConfigFromBytes(v) = Ok(DefaultConfig)
  <2>1. ConfigFromBytes(v) = Ok([mtu |-> FromBe(SubSeq(v, 1, 4)), keepalive_interval |-> FromBe(SubSeq(v, 5, 8)),
                                 reconnect_attempts |-> FromBe(SubSeq(v, 9, 12))])
    <3>1. ~(Len(v) < 12)
      BY <1>3
    <3> QED
      BY <3>1 DEF ConfigFromBytes
  <2>2. [mtu |-> FromBe(SubSeq(v, 1, 4)), keepalive_interval |-> FromBe(SubSeq(v, 5, 8)),
         reconnect_attempts |-> FromBe(SubSeq(v, 9, 12))] = DefaultConfig
    <3>1. FromBe(SubSeq(v, 1, 4)) = 1500 /\ FromBe(SubSeq(v, 5, 8)) = 30 /\ FromBe(SubSeq(v, 9, 12)) = 3
      <4>1. /\ FromBe(SubSeq(v, 1, 4)) = FromBe(s) /\ FromBe(SubSeq(v, 5, 8)) = FromBe(d)
            /\ FromBe(SubSeq(v, 9, 12)) = FromBe(c)
        BY <1>9
      <4> QED
        BY <1>4, <4>1
    <3> QED
      BY <3>1 DEF DefaultConfig
  <2> QED
    BY <2>1, <2>2
<1> QED
  BY <1>10 DEF v

\* The n bytes of b after the first o.
LEMMA Bytes ==
  ASSUME NEW b \in Seq(Byte), NEW o \in Nat, NEW n \in Nat, o + n <= Len(b)
  PROVE  /\ SubSeq(b, o + 1, o + n) \in Seq(Byte) /\ Len(SubSeq(b, o + 1, o + n)) = n
         /\ \A i \in 1 .. n : SubSeq(b, o + 1, o + n)[i] = b[o + i]
<1>1. Len(b) \in Nat /\ \A i \in 1 .. Len(b) : b[i] \in Byte
  OBVIOUS
<1>2. o + 1 \in Int /\ o + n \in Int /\ \A i \in o + 1 .. o + n : b[i] \in Byte
  BY <1>1
<1>3. /\ SubSeq(b, o + 1, o + n) \in Seq(Byte)
      /\ Len(SubSeq(b, o + 1, o + n)) = IF o + 1 <= o + n THEN (o + n) - (o + 1) + 1 ELSE 0
      /\ \A i \in 1 .. (o + n) - (o + 1) + 1 : SubSeq(b, o + 1, o + n)[i] = b[(o + 1) + i - 1]
  BY <1>2, SubSeqProperties
<1>4. /\ (o + n) - (o + 1) + 1 = n /\ (~(o + 1 <= o + n) => n = 0)
      /\ \A i \in 1 .. n : (o + 1) + i - 1 = o + i
  OBVIOUS
<1> QED
  BY <1>3, <1>4

LEMMA Offsets ==
  ASSUME NEW o \in Nat, NEW k \in 0 .. 12
  PROVE  /\ o + k \in Nat /\ (o + k) + 4 <= o + 16
         /\ (o + k) + 1 = o + (k + 1) /\ (o + k) + 4 = o + (k + 4)
         /\ \A i \in 1 .. 4 : i + k \in 1 .. 16 /\ (o + k) + i = o + (i + k)
  OBVIOUS

\* Bytes k + 1 to k + 4 of those that follow the first o of b, where v is what follows.
LEMMA Word ==
  ASSUME NEW b \in Seq(Byte), NEW v \in Seq(Byte), NEW o \in Nat, NEW k \in 0 .. 12,
         o + 16 <= Len(b), \A i \in 1 .. 16 : v[i] = b[o + i]
  PROVE  \E s \in Seq(Byte) : /\ s = SubSeq(b, o + (k + 1), o + (k + 4)) /\ Len(s) = 4
                              /\ \A i \in 1 .. 4 : s[i] = v[i + k]
<1>1. Len(b) \in Nat
  OBVIOUS
<1>2. (o + k) + 4 <= Len(b) /\ o + k \in Nat /\ 4 \in Nat
  <2>1. (o + k) + 4 <= o + 16 /\ o + k \in Nat
    BY Offsets
  <2> QED
    BY <1>1, <2>1
<1>3. PICK s : s = SubSeq(b, (o + k) + 1, (o + k) + 4)
  OBVIOUS
<1>4. s \in Seq(Byte) /\ Len(s) = 4 /\ \A i \in 1 .. 4 : s[i] = b[(o + k) + i]
  BY <1>2, <1>3, Bytes
<1>5. (o + k) + 1 = o + (k + 1) /\ (o + k) + 4 = o + (k + 4)
  BY Offsets
<1>6. ASSUME NEW i \in 1 .. 4 PROVE s[i] = v[i + k]
  <2>1. i + k \in 1 .. 16 /\ (o + k) + i = o + (i + k)
    BY Offsets
  <2> QED
    BY <1>4, <2>1
<1> QED
  BY <1>3, <1>4, <1>5, <1>6

\* Entry r of a route update stands for all of the bytes that were sent for it.
StandsFor(r, bytes) ==
  /\ r.target_network \o r.network_mask \o r.next_hop = SubSeq(bytes, 1, 12)
  /\ Encodes(SubSeq(bytes, 13, 16), r.metric)

\* One entry of a route update: all of its sixteen bytes, each at its place.
LEMMA RouteBytes ==
  ASSUME NEW b \in Seq(Byte), NEW o \in Nat, o + 16 <= Len(b)
  PROVE  StandsFor(Route(b, o), SubSeq(b, o + 1, o + 16))
<1>1. PICK v : v = SubSeq(b, o + 1, o + 16)
  OBVIOUS
<1>2. v \in Seq(Byte) /\ Len(v) = 16 /\ \A i \in 1 .. 16 : v[i] = b[o + i]
  <2>1. 16 \in Nat
    OBVIOUS
  <2> QED
    BY <1>1, <2>1, Bytes
<1>01. 0 \in 0 .. 12 /\ 4 \in 0 .. 12 /\ 8 \in 0 .. 12 /\ 12 \in 0 .. 12
  OBVIOUS
<1>02. /\ 0 + 1 = 1 /\ 0 + 4 = 4 /\ 4 + 1 = 5 /\ 4 + 4 = 8 /\ 8 + 1 = 9 /\ 8 + 4 = 12
       /\ 12 + 1 = 13 /\ 12 + 4 = 16
  OBVIOUS
<1>03. \A k \in 0 .. 12 : \E s \in Seq(Byte) : /\ s = SubSeq(b, o + (k + 1), o + (k + 4)) /\ Len(s) = 4
                                              /\ \A i \in 1 .. 4 : s[i] = v[i + k]
  BY <1>2, Word
<1>3. PICK s \in Seq(Byte) : s = SubSeq(b, o + 1, o + 4) /\ Len(s) = 4 /\ \A i \in 1 .. 4 : s[i] = v[i + 0]
  <2>1. \E s \in Seq(Byte) : /\ s = SubSeq(b, o + (0 + 1), o + (0 + 4)) /\ Len(s) = 4
                             /\ \A i \in 1 .. 4 : s[i] = v[i + 0]
    BY <1>01, <1>03
  <2> QED
    BY <1>02, <2>1
<1>4. PICK d \in Seq(Byte) : d = SubSeq(b, o + 5, o + 8) /\ Len(d) = 4 /\ \A i \in 1 .. 4 : d[i] = v[i + 4]
  <2>1. \E d \in Seq(Byte) : /\ d = SubSeq(b, o + (4 + 1), o + (4 + 4)) /\ Len(d) = 4
                             /\ \A i \in 1 .. 4 : d[i] = v[i + 4]
    BY <1>01, <1>03
  <2> QED
    BY <1>02, <2>1
<1>5. PICK c \in Seq(Byte) : c = SubSeq(b, o + 9, o + 12) /\ Len(c) = 4 /\ \A i \in 1 .. 4 : c[i] = v[i + 8]
  <2>1. \E c \in Seq(Byte) : /\ c = SubSeq(b, o + (8 + 1), o + (8 + 4)) /\ Len(c) = 4
                             /\ \A i \in 1 .. 4 : c[i] = v[i + 8]
    BY <1>01, <1>03
  <2> QED
    BY <1>02, <2>1
<1>6. PICK m \in Seq(Byte) : m = SubSeq(b, o + 13, o + 16) /\ Len(m) = 4 /\ \A i \in 1 .. 4 : m[i] = v[i + 12]
  <2>1. \E m \in Seq(Byte) : /\ m = SubSeq(b, o + (12 + 1), o + (12 + 4)) /\ Len(m) = 4
                             /\ \A i \in 1 .. 4 : m[i] = v[i + 12]
    BY <1>01, <1>03
  <2> QED
    BY <1>02, <2>1
<1>7. PICK w \in Seq(Byte) : w = SubSeq(v, 1, 12) /\ Len(w) = 12 /\ \A i \in 1 .. 12 : w[i] = v[i]
  <2>1. 0 \in Nat /\ 12 \in Nat /\ 0 + 12 <= Len(v) /\ 0 + 1 = 1 /\ 0 + 12 = 12 /\ \A i \in 1 .. 12 : 0 + i = i
    BY <1>2
  <2>2. /\ SubSeq(v, 0 + 1, 0 + 12) \in Seq(Byte) /\ Len(SubSeq(v, 0 + 1, 0 + 12)) = 12
        /\ \A i \in 1 .. 12 : SubSeq(v, 0 + 1, 0 + 12)[i] = v[0 + i]
    BY <1>2, <2>1, Bytes
  <2> QED
    BY <2>1, <2>2
<1>8. s \o d \o c = w
  <2>1. ASSUME NEW i \in 1 .. 4 PROVE w[i] = s[i] /\ w[i + 4] = d[i] /\ w[i + 8] = c[i]
    <3>1. i \in 1 .. 12 /\ i + 4 \in 1 .. 12 /\ i + 8 \in 1 .. 12 /\ i + 0 = i
      OBVIOUS
    <3> QED
      BY <1>3, <1>4, <1>5, <1>7, <3>1
  <2>2. \A i \in 1 .. 4 : w[i] = s[i] /\ w[i + 4] = d[i] /\ w[i + 8] = c[i]
    BY <2>1
  <2> QED
    BY <1>3, <1>4, <1>5, <1>7, <2>2, Words
<1>9. SubSeq(v, 13, 16) = m
  <2>1. 12 \in Nat /\ 12 + Len(m) <= Len(v) /\ 12 + 1 = 13 /\ 12 + Len(m) = 16
        /\ \A i \in 1 .. Len(m) : v[i + 12] = m[i]
    <3>1. Len(m) = 4 /\ Len(v) = 16
      BY <1>2, <1>6
    <3>2. 12 \in Nat /\ 12 + Len(m) <= Len(v) /\ 12 + 1 = 13 /\ 12 + Len(m) = 16
      BY <3>1
    <3>3. \A i \in 1 .. Len(m) : v[i + 12] = m[i]
      BY <1>6
    <3> QED
      BY <3>2, <3>3
  <2>2. SubSeq(v, 12 + 1, 12 + Len(m)) = m
    BY <1>2, <1>6, <2>1, Piece
  <2> QED
    BY <2>1, <2>2
<1>10. FromBe(m) = ((m[1] * 256 + m[2]) * 256 + m[3]) * 256 + m[4]
  <2>1. \A i \in 1 .. 4 : m[i] \in Byte
    BY <1>6, ElementOfSeq
  <2>2. \A x \in Byte : x \in Nat
    BY DEF Byte
  <2>3. m[1] \in Nat /\ m[2] \in Nat /\ m[3] \in Nat /\ m[4] \in Nat
    <3>1. 1 \in 1 .. 4 /\ 2 \in 1 .. 4 /\ 3 \in 1 .. 4 /\ 4 \in 1 .. 4
      OBVIOUS
    <3> QED
      BY <2>1, <2>2, <3>1
  <2>4. PICK x1 \in Nat, x2 \in Nat, x3 \in Nat, x4 \in Nat : x1 = m[1] /\ x2 = m[2] /\ x3 = m[3] /\ x4 = m[4]
    BY <2>3
  <2>5. 16777216 * x1 + 65536 * x2 + 256 * x3 + x4 = ((x1 * 256 + x2) * 256 + x3) * 256 + x4
    OBVIOUS
  <2> QED
    BY <2>4, <2>5 DEF FromBe
<1>11. Encodes(m, FromBe(m))
  BY <1>10 DEF Encodes
<1>12. /\ Route(b, o).target_network = s /\ Route(b, o).network_mask = d
       /\ Route(b, o).next_hop = c /\ Route(b, o).metric = FromBe(m)
  BY <1>3, <1>4, <1>5, <1>6 DEF Route
<1>13. StandsFor(Route(b, o), v)
  <2>1. Route(b, o).target_network \o Route(b, o).network_mask \o Route(b, o).next_hop = w
    BY <1>8, <1>12
  <2>2. Encodes(SubSeq(v, 13, 16), Route(b, o).metric)
    BY <1>9, <1>11, <1>12
  <2> QED
    BY <1>7, <2>1, <2>2 DEF StandsFor
<1> QED
  BY <1>1, <1>13

\* The routes that are parsed are those that were sent, entry for entry and all of them.
LEMMA RoutesParsed ==
  ASSUME NEW b \in Seq(Byte), Len(b) % 16 = 0
  PROVE  /\ 16 * Len(ParseRoutes(b).val) = Len(b)
         /\ \A i \in DOMAIN ParseRoutes(b).val :
              StandsFor(ParseRoutes(b).val[i], SubSeq(b, 16 * (i - 1) + 1, 16 * i))
<1>1. PICK n \in Nat : n = Len(b) \div 16 /\ 16 * n = Len(b)
  <2>1. Len(b) \in Nat
    OBVIOUS
  <2> QED
    BY <2>1
<1>2. PICK v : v = ParseRoutes(b).val
  OBVIOUS
<1>3. v = [i \in 1 .. n |-> Route(b, 16 * (i - 1))]
  BY <1>1, <1>2 DEF ParseRoutes, Ok
<1>4. DOMAIN v = 1 .. n /\ Len(v) = n
  <2>1. v \in [1 .. n -> {Route(b, 16 * (i - 1)) : i \in 1 .. n}]
    BY <1>3
  <2>2. v \in Seq({Route(b, 16 * (i - 1)) : i \in 1 .. n})
    <3>1. PICK R : R = {Route(b, 16 * (i - 1)) : i \in 1 .. n}
      OBVIOUS
    <3>2. v \in [1 .. n -> R] /\ n \in Nat
      BY <2>1, <3>1
    <3>3. v \in Seq(R)
      BY <3>2, SeqDef
    <3> QED
      BY <3>1, <3>3
  <2> QED
    BY <1>1, <2>1, <2>2, LenProperties
<1>5. ASSUME NEW i \in 1 .. n
      PROVE  StandsFor(v[i], SubSeq(b, 16 * (i - 1) + 1, 16 * i))
  <2>1. PICK o \in Nat : o = 16 * (i - 1) /\ o + 16 = 16 * i /\ o + 16 <= Len(b)
    <3>1. 16 * (i - 1) \in Nat /\ 16 * (i - 1) + 16 = 16 * i /\ 16 * (i - 1) + 16 <= Len(b)
      BY <1>1
    <3> QED
      BY <3>1
  <2>2. v[i] = Route(b, o)
    BY <1>3, <2>1
  <2>3. StandsFor(Route(b, o), SubSeq(b, o + 1, o + 16))
    BY <2>1, RouteBytes
  <2> QED
    BY <2>1, <2>2, <2>3
<1> QED
  BY <1>1, <1>2, <1>4, <1>5

-----------------------------------------------------------------------------
(***************************************************************************)
(* What the two ends keep of the exchanges.                                *)
(***************************************************************************)

\* The server drops nobody in the handshake, and the client has its configuration.
ConfigKept ==
  /\ ~connected => registered
  /\ connected => config = DefaultConfig

IsUpdate(p) == p.packet_type = "Control" /\ p.control_type = "RouteUpdate"

\* An update that was answered is in the table, as it was parsed.
RoutesKept ==
  pc \in {"answered", "ready"} /\ registered /\ key.client = key.server /\ IsUpdate(request) =>
    routes = <<ParseRoutes(request.payload).val>>


\* The request of the handshake is one that the server takes.
LEMMA HandshakeTaken == Acceptable(NewControl("ConfigRequest", <<>>))
<1> DEFINE q == NewControl("ConfigRequest", <<>>)
<1>1. q.control_type = "ConfigRequest" /\ q.payload = <<>> /\ Len(<<>>) = 0
  BY DEF NewControl
<1> HIDE DEF q
<1>2. Acceptable(q)
  BY <1>1 DEF Acceptable, Fits
<1> QED
  BY <1>2 DEF q

LEMMA ServerKeeps ==
  ASSUME IInv, IInv', ConfigKept, RoutesKept, Server
  PROVE  ConfigKept' /\ RoutesKept'
<1>1. /\ pc = "sent" /\ UNCHANGED <<connected, config, request, key>>
      /\ registered' \in {registered, FALSE}
      /\ registered' # registered => culprit' = <<request>> /\ registered' = FALSE
  BY DEF Server, Unreadable, HandleData, HandleKeepalive, SendConfig, UpdateRoutes, HandleDisconnect,
     UnknownControl, Unheard, Dismiss, Handles, serverVars
<1>2. ConfigKept'
  <2> SUFFICES ASSUME ~connected, registered, ~registered' PROVE FALSE
    BY <1>1 DEF ConfigKept
  <2>1. culprit' = <<request>> /\ request = NewControl("ConfigRequest", <<>>)
    BY <1>1 DEF IInv, SessionOK
  <2>2. ~Acceptable(culprit'[1])
    BY DEF IInv, DroppedIffUnacceptable
  <2>3. culprit'[1] = request
    BY <2>1
  <2> QED
    BY <2>1, <2>2, <2>3, HandshakeTaken
<1>3. RoutesKept'
  <2> SUFFICES ASSUME registered', key.client = key.server, IsUpdate(request)
               PROVE  routes' = <<ParseRoutes(request.payload).val>>
    BY <1>1 DEF RoutesKept
  <2>1. registered /\ worker = "running" /\ request \in Packet
        /\ request.packet_type = "Control" /\ request.control_type = "RouteUpdate"
    BY <1>1 DEF IInv, NeverPanics, IsUpdate
  <2>2. Received.ok => /\ Received.val.packet_type = "Control" /\ Received.val.control_type = "RouteUpdate"
                       /\ Received.val.payload = request.payload
    BY <2>1, ReceivedIs, ArrivingIs
  <2>3. ~Received.ok => Received.val = "Protocol"
    BY <2>1, ReceivedIs
  <2>4. \A error : error = "Protocol" => ~Dismiss(error)
    BY DEF Dismiss
  <2>5. ~Unreadable /\ ~HandleDisconnect /\ ~UnknownControl /\ ~Unheard
    BY <2>1, <2>3, <2>4 DEF Unreadable, HandleDisconnect, UnknownControl, Unheard
  <2>6. ~HandleData /\ ~HandleKeepalive /\ ~SendConfig
    BY <2>2 DEF HandleData, HandleKeepalive, SendConfig
  <2>7. UpdateRoutes
    BY <2>5, <2>6 DEF Server
  <2>8. PICK v : v = ParseRoutes(request.payload) /\ v = ParseRoutes(Received.val.payload)
    BY <2>2, <2>7 DEF UpdateRoutes
  <2>9. v.ok
    <3>1. ~v.ok => v = Err("Protocol")
      <4>1. \A x : Ok(x).ok
        BY DEF Ok
      <4>2. v = Err("Protocol") \/ (\E x : v = Ok(x))
        BY <2>8 DEF ParseRoutes
      <4> QED
        BY <4>1, <4>2
    <3>2. ~v.ok => Dismiss(v.val)
      BY <2>7, <2>8 DEF UpdateRoutes
    <3> QED
      BY <2>4, <3>1, <3>2 DEF Err
  <2> QED
    BY <2>7, <2>8, <2>9 DEF UpdateRoutes
<1> QED
  BY <1>2, <1>3

LEMMA ClientKeeps ==
  ASSUME IInv, ConfigKept, RoutesKept,
         Handshake \/ FinishHandshake \/ Return \/ (\E p \in Packets : SendPacket(p)) \/ UNCHANGED vars
  PROVE  ConfigKept' /\ RoutesKept'
<1>1. UNCHANGED <<registered, routes, key>>
  BY DEF Handshake, FinishHandshake, Return, SendPacket, vars, serverVars
<1>2. RoutesKept'
  <2>1. \/ pc' \notin {"answered", "ready"}
        \/ request' = request /\ pc \in {"answered", "ready"}
        \/ UNCHANGED <<request, pc>>
    BY DEF Handshake, FinishHandshake, Return, SendPacket, vars, clientVars
  <2> QED
    BY <1>1, <2>1 DEF RoutesKept
<1>3. CASE FinishHandshake /\ Settings(ClientReads).ok
  <2>1. connected' = TRUE /\ config' = Settings(ClientReads).val /\ ~connected /\ pc = "answered"
    BY <1>3 DEF FinishHandshake
  <2>2. registered /\ request = NewControl("ConfigRequest", <<>>)
    BY <2>1 DEF ConfigKept, IInv, SessionOK
  <2>3. key.client = key.server
    <3> SUFFICES ASSUME key.client # key.server PROVE FALSE
      OBVIOUS
    <3>1. ClientReads = Err("Io")
      BY <2>1 DEF IInv, ReplyOK, ClientReads
    <3> QED
      BY <1>3, <3>1 DEF Settings, Err
  <2>4. ClientReads = Expected(request)
    BY <2>1, <2>2, <2>3 DEF IInv, ReplyOK
  <2>5. PICK b : b = <<0, 0, 5, 220, 0, 0, 0, 30, 0, 0, 0, 3>>
    OBVIOUS
  <2>6. Expected(request) = Ok(NewControl("ConfigResponse", b))
    <3>1. request.packet_type = "Control" /\ request.control_type = "ConfigRequest"
      BY <2>2 DEF NewControl
    <3> QED
      BY <2>5, <3>1 DEF Expected
  <2>7. Settings(ClientReads) = ConfigFromBytes(b)
    BY <2>4, <2>6 DEF Settings, Ok, NewControl
  <2>8. Settings(ClientReads) = Ok(DefaultConfig)
    BY <2>5, <2>7, ConfigRead
  <2>9. config' = DefaultConfig
    BY <2>1, <2>8 DEF Ok
  <2> QED
    BY <1>1, <1>2, <2>1, <2>9 DEF ConfigKept
<1>4. CASE ~(FinishHandshake /\ Settings(ClientReads).ok)
  <2>1. UNCHANGED <<connected, config>>
    BY <1>4 DEF Handshake, FinishHandshake, Return, SendPacket, vars, clientVars
  <2> QED
    BY <1>1, <1>2, <2>1 DEF ConfigKept
<1> QED
  BY <1>3, <1>4

\* In every state the client's configuration and the server's tables are those of the
\* exchanges made so far.
THEOREM KeptInvariance == Spec => [](ConfigKept /\ RoutesKept)
<1>1. Init => ConfigKept /\ RoutesKept
  BY DEF Init, ConfigKept, RoutesKept
<1>2. IInv /\ IInv' /\ (ConfigKept /\ RoutesKept) /\ [Next]_vars => (ConfigKept /\ RoutesKept)'
  BY ServerKeeps, ClientKeeps DEF Next, Closed
<1> QED
  BY <1>1, <1>2, Invariance, PTL DEF Spec

\* After the handshake VpnClient has the configuration that VpnWorker keeps for it,
\* whatever the application had given it.
THEOREM ConfigurationsAgree == Spec => []ConfigAgreed
<1>1. IInv /\ ConfigKept /\ RoutesKept => ConfigAgreed
  BY DEF IInv, ConfigKept, ConfigAgreed, Nothing
<1> QED
  BY <1>1, Invariance, KeptInvariance, PTL

\* An acknowledged route update, of any length, is in VpnWorker's table entry for entry
\* and byte for byte.
THEOREM RoutesArrive == Spec => []RoutesAsSent
<1>1. IInv /\ ConfigKept /\ RoutesKept => RoutesAsSent
  <2> SUFFICES ASSUME IInv, RoutesKept, pc = "ready", registered, IsUpdate(request)
               PROVE  /\ 16 * Len(routes[1]) = Len(request.payload)
                      /\ \A i \in DOMAIN routes[1] :
                           StandsFor(routes[1][i], SubSeq(request.payload, 16 * (i - 1) + 1, 16 * i))
    BY DEF RoutesAsSent, IsUpdate, StandsFor
  <2>1. key.client = key.server
    BY DEF IInv, SessionOK
  <2>2. routes = <<ParseRoutes(request.payload).val>>
    BY <2>1 DEF RoutesKept
  <2>3. PICK b : b = request.payload
    OBVIOUS
  <2>4. b \in Seq(Byte) /\ Len(b) % 16 = 0
    BY <2>3 DEF IInv, DroppedIffUnacceptable, Acceptable, IsUpdate, WholeRoutes, Packet
  <2>5. routes[1] = ParseRoutes(b).val
    BY <2>2, <2>3
  <2>6. /\ 16 * Len(ParseRoutes(b).val) = Len(b)
        /\ \A i \in DOMAIN ParseRoutes(b).val :
             StandsFor(ParseRoutes(b).val[i], SubSeq(b, 16 * (i - 1) + 1, 16 * i))
    BY <2>4, RoutesParsed
  <2> QED
    BY <2>3, <2>5, <2>6
<1> QED
  BY <1>1, Invariance, KeptInvariance, PTL
=============================================================================

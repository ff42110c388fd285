------------------------- MODULE ConnectRoutingProofs -------------------------
(***************************************************************************)
(* The decoder of the CONNECT for any packets, any bytes that are none and *)
(* any way of cutting them: each field is looked for where the client put  *)
(* it, the way of the connection is its user name's, and what the backend  *)
(* gets is the frame and then the client's bytes, whatever part of them    *)
(* the decoder had taken.                                                  *)
(***************************************************************************)
EXTENDS ConnectRouting, StreamsProofs

-----------------------------------------------------------------------------
(* Bytes and numbers.                                                      *)

\* The range by its bounds.
LEMMA ByteIs == \A n : n \in Byte <=> n \in Nat /\ n < 256
<1> DEFINE top == 255
<1>1. top \in Nat /\ \A n \in Nat : n <= top <=> n < 256
  OBVIOUS
<1>2. Byte = 0 .. top
  BY DEF Byte
<1>3. ASSUME NEW m \in Nat PROVE \A n : n \in 0 .. m <=> n \in Nat /\ n <= m
  OBVIOUS
<1> HIDE DEF top
<1> QED
  BY <1>1, <1>2, <1>3

\* The empty sequence and a concatenation are bytes, and bytes are numbers.
LEMMA NoBytes == <<>> \in Bytes /\ Len(<<>>) = 0
  BY DEF Bytes

\* Bytes and then bytes are bytes.
LEMMA BytesInARow ==
    ASSUME NEW a \in Bytes, NEW b \in Bytes
    PROVE  a \o b \in Bytes /\ Len(a \o b) = Len(a) + Len(b)
  BY ConcatProperties DEF Bytes

\* They stand in a stream where the first ones do, and the others behind them.
LEMMA BytesStandInARow ==
    ASSUME NEW s \in Bytes, NEW a \in Bytes, NEW b \in Bytes, NEW i \in Nat
    PROVE  StandsAt(s, i, a \o b) <=> StandsAt(s, i, a) /\ StandsAt(s, i + Len(a), b)
  BY StandsInARow DEF Bytes

\* Bytes as a sequence of numbers.
LEMMA BytesAreNumbers == ASSUME NEW b \in Bytes PROVE b \in Seq(Nat) /\ Len(b) \in Nat
<1>1. Byte \subseteq Nat
  BY ByteIs
<1> QED
  BY <1>1, SeqMonotonic, LenProperties DEF Bytes

\* What four groups of seven bits can hold.
FourGroups == 128 * 2097152

\* A number of at most 28 bits is one to four groups of seven bits, all but the last of
\* them marked, that give it again.
LEMMA VarIntParts ==
    ASSUME NEW n \in Nat, n < FourGroups
    PROVE  LET v == VarInt(n)
           IN  /\ v \in Bytes /\ Len(v) \in 1 .. 4 /\ v[Len(v)] < 128
               /\ \A k \in 1 .. Len(v) - 1 : v[k] >= 128
               /\ Len(v) = 1 => n = v[1]
               /\ Len(v) = 2 => n = (v[1] % 128) + 128 * v[2]
               /\ Len(v) = 3 => n = (v[1] % 128) + 128 * (v[2] % 128) + 16384 * v[3]
<1> DEFINE v == VarInt(n)
           more(unit) == 128 + ((n \div unit) % 128)
<1>1. CASE n < 128
  <2>1. v = <<n>>
    BY <1>1, SMT DEF VarInt
  <2>2. n \in Byte
    BY <1>1, ByteIs
  <2> QED
    BY <1>1, <2>1, <2>2 DEF Bytes
<1>2. CASE n >= 128 /\ n < 16384
  <2>1. v = <<more(1), n \div 128>>
    BY <1>2, SMT DEF VarInt
  <2>2. /\ more(1) \in Nat /\ more(1) >= 128 /\ more(1) < 256
        /\ n \div 128 \in Nat /\ n \div 128 < 128
        /\ n = (more(1) % 128) + 128 * (n \div 128)
    BY <1>2, SMT
  <2>3. more(1) \in Byte /\ n \div 128 \in Byte
    BY <2>2, ByteIs
  <2> DEFINE a == more(1)
             b == n \div 128
  <2>4. a \in Byte /\ b \in Byte /\ a >= 128 /\ b < 128 /\ n = (a % 128) + 128 * b /\ v = <<a, b>>
    BY <2>1, <2>2, <2>3
  <2> HIDE DEF a, b, v
  <2>5. v \in Bytes /\ Len(v) = 2 /\ v[1] = a /\ v[2] = b
    BY <2>4 DEF Bytes
  <2>6. \A k \in 1 .. Len(v) - 1 : k = 1
    BY <2>5
  <2>7. a >= 128 /\ b < 128 /\ n = (a % 128) + 128 * b
    BY <2>4
  <2> QED
    BY <2>5, <2>6, <2>7 DEF v
<1>3. CASE n >= 16384 /\ n < 2097152
  <2>1. v = <<more(1), more(128), n \div 16384>>
    BY <1>3, SMT DEF VarInt
  <2>2. /\ more(1) \in Nat /\ more(1) >= 128 /\ more(1) < 256
        /\ more(128) \in Nat /\ more(128) >= 128 /\ more(128) < 256
        /\ n \div 16384 \in Nat /\ n \div 16384 < 128
        /\ n = (more(1) % 128) + 128 * (more(128) % 128) + 16384 * (n \div 16384)
    BY <1>3, SMT
  <2>3. more(1) \in Byte /\ more(128) \in Byte /\ n \div 16384 \in Byte
    BY <2>2, ByteIs
  <2> DEFINE a == more(1)
             b == more(128)
             c == n \div 16384
  <2>4. /\ a \in Byte /\ b \in Byte /\ c \in Byte /\ a >= 128 /\ b >= 128 /\ c < 128
        /\ n = (a % 128) + 128 * (b % 128) + 16384 * c /\ v = <<a, b, c>>
    BY <2>1, <2>2, <2>3
  <2> HIDE DEF a, b, c, v
  <2>5. v \in Bytes /\ Len(v) = 3 /\ v[1] = a /\ v[2] = b /\ v[3] = c
    BY <2>4 DEF Bytes
  <2>6. \A k \in 1 .. Len(v) - 1 : k = 1 \/ k = 2
    BY <2>5
  <2>7. a >= 128 /\ b >= 128 /\ c < 128 /\ n = (a % 128) + 128 * (b % 128) + 16384 * c
    BY <2>4
  <2> QED
    BY <2>5, <2>6, <2>7 DEF v
<1>4. CASE ~ (n < 128) /\ ~ (n >= 128 /\ n < 16384) /\ ~ (n >= 16384 /\ n < 2097152)
  <2>1. v = <<more(1), more(128), more(16384), n \div 2097152>>
    BY <1>4, SMT DEF VarInt
  <2>2. /\ more(1) \in Nat /\ more(1) >= 128 /\ more(1) < 256
        /\ more(128) \in Nat /\ more(128) >= 128 /\ more(128) < 256
        /\ more(16384) \in Nat /\ more(16384) >= 128 /\ more(16384) < 256
        /\ n \div 2097152 \in Nat /\ n \div 2097152 < 128
    BY <1>4, SMT DEF FourGroups
  <2>3. more(1) \in Byte /\ more(128) \in Byte /\ more(16384) \in Byte /\ n \div 2097152 \in Byte
    BY <2>2, ByteIs
  <2> DEFINE a == more(1)
             b == more(128)
             c == more(16384)
             d == n \div 2097152
  <2>4. /\ a \in Byte /\ b \in Byte /\ c \in Byte /\ d \in Byte
        /\ a >= 128 /\ b >= 128 /\ c >= 128 /\ d < 128 /\ v = <<a, b, c, d>>
    BY <2>1, <2>2, <2>3
  <2> HIDE DEF a, b, c, d, v
  <2>5. v \in Bytes /\ Len(v) = 4 /\ v[1] = a /\ v[2] = b /\ v[3] = c /\ v[4] = d
    BY <2>4 DEF Bytes
  <2>6. \A k \in 1 .. Len(v) - 1 : k = 1 \/ k = 2 \/ k = 3
    BY <2>5
  <2>7. a >= 128 /\ b >= 128 /\ c >= 128 /\ d < 128
    BY <2>4
  <2> QED
    BY <2>5, <2>6, <2>7 DEF v
<1> QED
  BY <1>1, <1>2, <1>3, <1>4

\* What two bytes can be the length of.
Short(b) == Len(b) < 65536

\* A field is its length in two bytes, and its bytes.
LEMMA FieldParts ==
    ASSUME NEW b \in Bytes, Short(b)
    PROVE  /\ Field(b) \in Bytes /\ Len(Field(b)) = 2 + Len(b)
           /\ \A s \in Bytes, i \in Nat : StandsAt(s, i, Field(b)) =>
                 /\ 256 * s[i + 1] + s[i + 2] = Len(b)
                 /\ StandsAt(s, i + 2, b) /\ i + 2 + Len(b) <= Len(s)
<1> DEFINE n == Len(b)
           len == <<n \div 256, n % 256>>
<1>1. n \in Nat /\ n < 65536
  BY BytesAreNumbers, SMT DEF Short
<1>2. n \div 256 \in Byte /\ n % 256 \in Byte /\ 256 * (n \div 256) + (n % 256) = n
  <2> HIDE DEF n
  <2>1. n \div 256 \in Nat /\ n \div 256 < 256 /\ n % 256 \in Nat /\ n % 256 < 256
    BY <1>1, SMT
  <2>2. 256 * (n \div 256) + (n % 256) = n
    BY <1>1
  <2> QED
    BY <2>1, <2>2, ByteIs
<1> HIDE DEF n
<1>3. len \in Bytes
  BY <1>2 DEF Bytes
<1>4. Len(len) = 2 /\ len[1] = n \div 256 /\ len[2] = n % 256
  OBVIOUS
<1>5. Field(b) = len \o b
  BY DEF Field, n
<1> HIDE DEF len
<1>6. len \o b \in Bytes /\ Len(len \o b) = Len(len) + Len(b)
  BY <1>3, BytesInARow
<1>7. ASSUME NEW s \in Bytes, NEW i \in Nat, StandsAt(s, i, Field(b))
      PROVE  256 * s[i + 1] + s[i + 2] = n /\ StandsAt(s, i + 2, b) /\ i + 2 + n <= Len(s)
  <2>1. StandsAt(s, i, len \o b)
    BY <1>5, <1>7
  <2>2. StandsAt(s, i, len) /\ StandsAt(s, i + Len(len), b)
    BY <1>3, <2>1, BytesStandInARow
  <2>3. s[i + 1] = len[1] /\ s[i + 2] = len[2]
    <3>1. 1 \in 1 .. Len(len) /\ 2 \in 1 .. Len(len)
      BY <1>4
    <3> QED
      BY <2>2, <3>1 DEF StandsAt
  <2>4. StandsAt(s, i + 2, b)
    BY <1>4, <2>2
  <2>5. i + 2 + n <= Len(s)
    BY <2>4 DEF StandsAt, n
  <2> QED
    BY <1>2, <1>4, <2>3, <2>4, <2>5
<1>8. Len(Field(b)) = 2 + n
  BY <1>4, <1>5, <1>6 DEF n
<1>9. Len(b) = n
  BY DEF n
<1> QED
  BY <1>5, <1>6, <1>7, <1>8, <1>9

-----------------------------------------------------------------------------
(* Packets.                                                                *)

\* An optional value is there or not.
LEMMA OptionalParts ==
    ASSUME NEW S, NEW f \in Seq(S), Len(f) <= 1
    PROVE  \/ f = <<>> /\ Len(f) = 0
           \/ f # <<>> /\ Len(f) = 1 /\ f[1] \in S /\ f[1] \in Range(f)
<1>1. Len(f) \in Nat
  BY LenProperties
<1>2. CASE Len(f) = 0
  <2>1. f = <<>>
    BY <1>2, EmptySeq
  <2> QED
    BY <1>2, <2>1, Zenon
<1>3. CASE Len(f) = 1
  <2>1. 1 \in 1 .. Len(f) /\ 1 \in DOMAIN f
    BY <1>3, LenProperties
  <2>2. f[1] \in S
    BY <2>1, ElementOfSeq
  <2>3. f # <<>>
    BY <1>3
  <2> QED
    BY <1>3, <2>1, <2>2, <2>3 DEF Range
<1>4. Len(f) = 0 \/ Len(f) = 1
  <2> DEFINE n == Len(f)
  <2>1. n \in Nat /\ n <= 1
    BY <1>1
  <2> HIDE DEF n
  <2>2. n = 0 \/ n = 1
    BY <2>1
  <2> QED
    BY <2>2 DEF n
<1> QED
  BY <1>2, <1>3, <1>4, Zenon

\* What a packet has, within MQTT's limits.
LEMMA PacketParts ==
    ASSUME NEW p \in Packets
    PROVE  /\ p.level \in {3, 4, 5}
           /\ p.props \in Bytes /\ Len(p.props) < FourGroups
           /\ p.id \in Bytes /\ Short(p.id)
           /\ \/ p.will = <<>> /\ Len(p.will) = 0
              \/ /\ p.will # <<>> /\ Len(p.will) = 1
                 /\ p.will[1].topic \in Bytes /\ Short(p.will[1].topic)
                 /\ p.will[1].message \in Bytes /\ Short(p.will[1].message)
           /\ \/ p.user = <<>> /\ Len(p.user) = 0
              \/ p.user # <<>> /\ Len(p.user) = 1 /\ p.user[1] \in Bytes /\ Short(p.user[1])
           /\ \/ p.password = <<>> /\ Len(p.password) = 0
              \/ /\ p.password # <<>> /\ Len(p.password) = 1
                 /\ p.password[1] \in Bytes /\ Short(p.password[1])
           /\ Len(RemainingBytes(p)) < FourGroups
<1> DEFINE Wills == [topic : Bytes, message : Bytes]
           Within == {p.id} \cup Range(p.user) \cup Range(p.password)
                        \cup UNION {{w.topic, w.message} : w \in Range(p.will)}
<1>1. /\ p.level \in {3, 4, 5} /\ p.props \in Bytes /\ p.id \in Bytes /\ p.will \in Seq(Wills)
      /\ p.user \in Seq(Bytes) /\ p.password \in Seq(Bytes)
  BY PacketsAssumption
<1>2. Len(p.will) <= 1 /\ Len(p.user) <= 1 /\ Len(p.password) <= 1
  BY PacketsAssumption
<1>10. Len(p.props) < FourGroups /\ Len(RemainingBytes(p)) < FourGroups
  BY LengthsAssumption, SMT DEF FourGroups
<1>3. \A b \in Within : Short(b)
  BY LengthsAssumption, SMT DEF Short
<1>4. \/ p.user = <<>> /\ Len(p.user) = 0
      \/ p.user # <<>> /\ Len(p.user) = 1 /\ p.user[1] \in Bytes /\ p.user[1] \in Range(p.user)
  BY <1>1, <1>2, OptionalParts
<1>5. \/ p.password = <<>> /\ Len(p.password) = 0
      \/ /\ p.password # <<>> /\ Len(p.password) = 1
         /\ p.password[1] \in Bytes /\ p.password[1] \in Range(p.password)
  BY <1>1, <1>2, OptionalParts
<1>6. \/ p.will = <<>> /\ Len(p.will) = 0
      \/ p.will # <<>> /\ Len(p.will) = 1 /\ p.will[1] \in Wills /\ p.will[1] \in Range(p.will)
  <2> HIDE DEF Wills
  <2> QED
    BY <1>1, <1>2, OptionalParts
<1>7. p.id \in Within /\ Range(p.user) \subseteq Within /\ Range(p.password) \subseteq Within
  OBVIOUS
<1>8. ASSUME NEW w \in Range(p.will) PROVE w.topic \in Within /\ w.message \in Within
  OBVIOUS
<1> HIDE DEF Within
<1>9. \/ p.will = <<>> /\ Len(p.will) = 0
      \/ /\ p.will # <<>> /\ Len(p.will) = 1
         /\ p.will[1].topic \in Bytes /\ Short(p.will[1].topic)
         /\ p.will[1].message \in Bytes /\ Short(p.will[1].message)
  BY <1>3, <1>6, <1>8
<1> QED
  BY <1>1, <1>3, <1>4, <1>5, <1>7, <1>9, <1>10

\* The protocol's name is one of the two that the decoder accepts, MQTT but for version 3.1.
LEMMA NameParts ==
    ASSUME NEW p
    PROVE  /\ ProtocolName(p) \in Bytes /\ Short(ProtocolName(p))
           /\ ProtocolName(p) \in {MQTT, MQIsdp} /\ (ProtocolName(p) = MQTT <=> p.level # 3)
<1>1. MQTT # MQIsdp
  BY DEF MQTT, MQIsdp
<1>2. MQTT \in Bytes /\ MQIsdp \in Bytes
  <2>1. \A b \in {77, 81, 84, 73, 115, 100, 112} : b \in Byte
    BY ByteIs
  <2> QED
    BY <2>1 DEF MQTT, MQIsdp, Bytes
<1>3. Short(MQTT) /\ Short(MQIsdp)
  BY SMT DEF Short, MQTT, MQIsdp
<1> QED
  BY <1>1, <1>2, <1>3 DEF ProtocolName

\* Properties are there in version 5 only, their length before them.
LEMMA PropertiesParts ==
    ASSUME NEW p, NEW b \in Bytes, Len(b) < FourGroups
    PROVE  /\ Properties(p, b) \in Bytes
           /\ p.level # 5 => Properties(p, b) = <<>>
           /\ p.level = 5 => Properties(p, b) = VarInt(Len(b)) \o b
<1>1. VarInt(Len(b)) \in Bytes
  BY BytesAreNumbers, VarIntParts
<1> QED
  BY <1>1, NoBytes, BytesInARow DEF Properties

\* An optional field is bytes, whether it is there or not.
LEMMA OptionalIsBytes ==
    ASSUME NEW f, f = <<>> \/ (f # <<>> /\ f[1] \in Bytes /\ Short(f[1]))
    PROVE  Optional(f) \in Bytes
  BY NoBytes, FieldParts DEF Optional

\* The will is bytes, whether it is there or not.
LEMMA WillIsBytes == ASSUME NEW p \in Packets PROVE Will(p) \in Bytes
<1>1. CASE p.will = <<>>
  BY <1>1, NoBytes DEF Will
<1>2. CASE p.will # <<>>
  <2>1. Field(p.will[1].topic) \in Bytes /\ Field(p.will[1].message) \in Bytes
    BY <1>2, PacketParts, FieldParts
  <2>2. Properties(p, <<>>) \in Bytes
    <3>1. Len(<<>>) < FourGroups
      BY SMT DEF FourGroups
    <3> QED
      BY <3>1, NoBytes, PropertiesParts
  <2> DEFINE a == Properties(p, <<>>)
             b == Field(p.will[1].topic)
             c == Field(p.will[1].message)
  <2>3. Will(p) = a \o b \o c
    BY <1>2 DEF Will
  <2> HIDE DEF a, b, c
  <2>4. a \in Bytes /\ b \in Bytes /\ c \in Bytes
    BY <2>1, <2>2 DEF a, b, c
  <2> QED
    BY <2>3, <2>4, BytesInARow
<1> QED
  BY <1>1, <1>2

\* The flags fit into a byte, and say whether there are a will and a user name.
LEMMA FlagsParts ==
    ASSUME NEW p \in Packets
    PROVE  /\ Flags(p) \in Byte
           /\ (Flags(p) \div 4) % 2 = 1 <=> p.will # <<>>
           /\ Flags(p) >= 128 <=> p.user # <<>>
<1> DEFINE u == Len(p.user)
           w == Len(p.password)
           t == Len(p.will)
           f == Flags(p)
<1>1. /\ u \in {0, 1} /\ w \in {0, 1} /\ t \in {0, 1}
      /\ p.user # <<>> <=> u = 1
      /\ p.will # <<>> <=> t = 1
  BY PacketParts
<1>2. f = 128 * u + 64 * w + 4 * t
  BY DEF Flags
<1> HIDE DEF u, w, t, f
<1>3. f \in Nat /\ f < 256 /\ (f >= 128 <=> u = 1) /\ ((f \div 4) % 2 = 1 <=> t = 1)
  BY <1>1, <1>2
<1>4. f \in Byte
  BY <1>3, ByteIs
<1> QED
  BY <1>1, <1>3, <1>4 DEF f

\* Seven parts in a row: each stands where the ones before it end.
InARow(a, b, c, d, e, f, g) ==
    LET row == a \o b \o c \o d \o e \o f \o g
    IN  /\ row \in Bytes
        /\ \A s \in Bytes, i \in Nat : StandsAt(s, i, row) =>
              /\ StandsAt(s, i, a) /\ StandsAt(s, i + Len(a), b)
              /\ StandsAt(s, i + Len(a \o b), c)
              /\ StandsAt(s, i + Len(a \o b \o c), d)
              /\ StandsAt(s, i + Len(a \o b \o c \o d), e)
              /\ StandsAt(s, i + Len(a \o b \o c \o d \o e), f)
        /\ Len(a \o b) = Len(a) + Len(b)
        /\ Len(a \o b \o c) = Len(a \o b) + Len(c)
        /\ Len(a \o b \o c \o d) = Len(a \o b \o c) + Len(d)
        /\ Len(a \o b \o c \o d \o e) = Len(a \o b \o c \o d) + Len(e)
        /\ Len(a \o b \o c \o d \o e \o f) = Len(a \o b \o c \o d \o e) + Len(f)
        /\ Len(row) = Len(a \o b \o c \o d \o e \o f) + Len(g)

\* Any seven parts that are bytes are such a row.
LEMMA SevenParts ==
    ASSUME NEW a \in Bytes, NEW b \in Bytes, NEW c \in Bytes, NEW d \in Bytes,
           NEW e \in Bytes, NEW f \in Bytes, NEW g \in Bytes
    PROVE  InARow(a, b, c, d, e, f, g)
<1> DEFINE r2 == a \o b
           r3 == r2 \o c
           r4 == r3 \o d
           r5 == r4 \o e
           r6 == r5 \o f
           r7 == r6 \o g
<1>1. /\ r2 \in Bytes /\ Len(r2) = Len(a) + Len(b)
      /\ \A s \in Bytes, i \in Nat :
            StandsAt(s, i, r2) => StandsAt(s, i, a) /\ StandsAt(s, i + Len(a), b)
  BY BytesInARow, BytesStandInARow, Zenon
<1> HIDE DEF r2
<1>2. /\ r3 \in Bytes /\ Len(r3) = Len(r2) + Len(c)
      /\ \A s \in Bytes, i \in Nat :
            StandsAt(s, i, r3) => StandsAt(s, i, r2) /\ StandsAt(s, i + Len(r2), c)
  BY <1>1, BytesInARow, BytesStandInARow, Zenon
<1> HIDE DEF r3
<1>3. /\ r4 \in Bytes /\ Len(r4) = Len(r3) + Len(d)
      /\ \A s \in Bytes, i \in Nat :
            StandsAt(s, i, r4) => StandsAt(s, i, r3) /\ StandsAt(s, i + Len(r3), d)
  BY <1>2, BytesInARow, BytesStandInARow, Zenon
<1> HIDE DEF r4
<1>4. /\ r5 \in Bytes /\ Len(r5) = Len(r4) + Len(e)
      /\ \A s \in Bytes, i \in Nat :
            StandsAt(s, i, r5) => StandsAt(s, i, r4) /\ StandsAt(s, i + Len(r4), e)
  BY <1>3, BytesInARow, BytesStandInARow, Zenon
<1> HIDE DEF r5
<1>5. /\ r6 \in Bytes /\ Len(r6) = Len(r5) + Len(f)
      /\ \A s \in Bytes, i \in Nat :
            StandsAt(s, i, r6) => StandsAt(s, i, r5) /\ StandsAt(s, i + Len(r5), f)
  BY <1>4, BytesInARow, BytesStandInARow, Zenon
<1> HIDE DEF r6
<1>6. /\ r7 \in Bytes /\ Len(r7) = Len(r6) + Len(g)
      /\ \A s \in Bytes, i \in Nat :
            StandsAt(s, i, r7) => StandsAt(s, i, r6) /\ StandsAt(s, i + Len(r6), g)
  BY <1>5, BytesInARow, BytesStandInARow, Zenon
<1> HIDE DEF r7
<1>7. \A s \in Bytes, i \in Nat : StandsAt(s, i, r7) =>
          /\ StandsAt(s, i, a) /\ StandsAt(s, i + Len(a), b) /\ StandsAt(s, i + Len(r2), c)
          /\ StandsAt(s, i + Len(r3), d) /\ StandsAt(s, i + Len(r4), e) /\ StandsAt(s, i + Len(r5), f)
  BY <1>1, <1>2, <1>3, <1>4, <1>5, <1>6, Zenon
<1> QED
  BY <1>1, <1>2, <1>3, <1>4, <1>5, <1>6, <1>7, Zenon DEF InARow, r2, r3, r4, r5, r6, r7

-----------------------------------------------------------------------------
(* Where the parts of a packet are.                                        *)

NameAt(p)  == 1 + Len(VarInt(Len(RemainingBytes(p))))
LevelAt(p) == NameAt(p) + Len(Field(ProtocolName(p)))
PropsAt(p) == LevelAt(p) + 4
IdAt(p)    == PropsAt(p) + Len(Properties(p, p.props))
WillAt(p)  == IdAt(p) + Len(Field(p.id))
UserAt(p)  == WillAt(p) + Len(Will(p))
EndOf(p)   == NameAt(p) + Len(RemainingBytes(p))

Four(p) == <<p.level, Flags(p), 0, 60>>

\* The parts are bytes.
LEMMA PartsAreBytes ==
    ASSUME NEW p \in Packets
    PROVE  /\ Field(ProtocolName(p)) \in Bytes /\ Four(p) \in Bytes
           /\ Properties(p, p.props) \in Bytes /\ Field(p.id) \in Bytes /\ Will(p) \in Bytes
           /\ Optional(p.user) \in Bytes /\ Optional(p.password) \in Bytes
<1>1. Field(ProtocolName(p)) \in Bytes /\ Field(p.id) \in Bytes
  BY NameParts, PacketParts, FieldParts
<1>2. Four(p) \in Bytes
  <2>1. p.level \in Byte /\ Flags(p) \in Byte /\ 0 \in Byte /\ 60 \in Byte
    BY PacketParts, FlagsParts, ByteIs
  <2> QED
    BY <2>1 DEF Four, Bytes
<1>3. Properties(p, p.props) \in Bytes
  BY PacketParts, PropertiesParts
<1>4. Optional(p.user) \in Bytes /\ Optional(p.password) \in Bytes
  <2>1. /\ p.user = <<>> \/ (p.user # <<>> /\ p.user[1] \in Bytes /\ Short(p.user[1]))
        /\ p.password = <<>> \/ (p.password # <<>> /\ p.password[1] \in Bytes /\ Short(p.password[1]))
    BY PacketParts
  <2> QED
    BY <2>1, OptionalIsBytes, Zenon
<1> QED
  BY <1>1, <1>2, <1>3, <1>4, WillIsBytes

\* The parts stand where the ones before them end, and the last one ends with the packet.
LEMMA BodyLayout ==
    ASSUME NEW p \in Packets
    PROVE  /\ RemainingBytes(p) \in Bytes
           /\ {NameAt(p), LevelAt(p), PropsAt(p), IdAt(p), WillAt(p), UserAt(p), EndOf(p)} \subseteq Nat
           /\ NameAt(p) <= LevelAt(p) /\ LevelAt(p) <= PropsAt(p) /\ PropsAt(p) <= IdAt(p)
           /\ IdAt(p) <= WillAt(p) /\ WillAt(p) <= UserAt(p)
           /\ UserAt(p) + Len(Optional(p.user)) <= EndOf(p)
           /\ \A s \in Bytes : StandsAt(s, NameAt(p), RemainingBytes(p)) =>
                 /\ StandsAt(s, NameAt(p), Field(ProtocolName(p)))
                 /\ StandsAt(s, LevelAt(p), Four(p))
                 /\ StandsAt(s, PropsAt(p), Properties(p, p.props))
                 /\ StandsAt(s, IdAt(p), Field(p.id))
                 /\ StandsAt(s, WillAt(p), Will(p))
                 /\ StandsAt(s, UserAt(p), Optional(p.user))
<1> DEFINE a == Field(ProtocolName(p))
           b == Four(p)
           c == Properties(p, p.props)
           d == Field(p.id)
           e == Will(p)
           f == Optional(p.user)
           g == Optional(p.password)
           row == a \o b \o c \o d \o e \o f \o g
           at0 == NameAt(p)
<1>1. a \in Bytes /\ b \in Bytes /\ c \in Bytes /\ d \in Bytes /\ e \in Bytes /\ f \in Bytes /\ g \in Bytes
  BY PartsAreBytes
<1>2. RemainingBytes(p) = row
  BY DEF RemainingBytes, Four
<1>3. Len(b) = 4
  BY DEF Four
<1>4. /\ LevelAt(p) = at0 + Len(a) /\ PropsAt(p) = LevelAt(p) + Len(b) /\ IdAt(p) = PropsAt(p) + Len(c)
      /\ WillAt(p) = IdAt(p) + Len(d) /\ UserAt(p) = WillAt(p) + Len(e)
  BY <1>3, Zenon DEF LevelAt, PropsAt, IdAt, WillAt, UserAt
<1>5. EndOf(p) = at0 + Len(row)
  BY <1>2, Zenon DEF EndOf
<1> HIDE DEF a, b, c, d, e, f, g
<1>6. /\ row \in Bytes
      /\ \A s \in Bytes, i \in Nat : StandsAt(s, i, row) =>
            /\ StandsAt(s, i, a) /\ StandsAt(s, i + Len(a), b)
            /\ StandsAt(s, i + Len(a \o b), c)
            /\ StandsAt(s, i + Len(a \o b \o c), d)
            /\ StandsAt(s, i + Len(a \o b \o c \o d), e)
            /\ StandsAt(s, i + Len(a \o b \o c \o d \o e), f)
      /\ Len(a \o b) = Len(a) + Len(b)
      /\ Len(a \o b \o c) = Len(a \o b) + Len(c)
      /\ Len(a \o b \o c \o d) = Len(a \o b \o c) + Len(d)
      /\ Len(a \o b \o c \o d \o e) = Len(a \o b \o c \o d) + Len(e)
      /\ Len(a \o b \o c \o d \o e \o f) = Len(a \o b \o c \o d \o e) + Len(f)
      /\ Len(row) = Len(a \o b \o c \o d \o e \o f) + Len(g)
  <2>1. InARow(a, b, c, d, e, f, g)
    BY <1>1, SevenParts
  <2> QED
    BY <2>1, Zenon DEF InARow
<1>7. at0 \in Nat
  <2>1. RemainingBytes(p) \in Bytes
    BY <1>2, <1>6, Zenon
  <2>2. Len(VarInt(Len(RemainingBytes(p)))) \in 1 .. 4
    BY <2>1, BytesAreNumbers, PacketParts, VarIntParts
  <2> DEFINE w == Len(VarInt(Len(RemainingBytes(p))))
  <2> HIDE DEF w
  <2>3. w \in Nat
    BY <2>2 DEF w
  <2>4. at0 = 1 + w
    BY Zenon DEF NameAt, w
  <2> QED
    BY <2>3, <2>4
<1> DEFINE r2 == Len(a \o b)
           r3 == Len(a \o b \o c)
           r4 == Len(a \o b \o c \o d)
           r5 == Len(a \o b \o c \o d \o e)
           r6 == Len(a \o b \o c \o d \o e \o f)
           r7 == Len(row)
           la == Len(a)
           lb == Len(b)
           lc == Len(c)
           ld == Len(d)
           le == Len(e)
           lf == Len(f)
           lg == Len(g)
<1>8. /\ la \in Nat /\ lb \in Nat /\ lc \in Nat /\ ld \in Nat /\ le \in Nat /\ lf \in Nat /\ lg \in Nat
      /\ r2 = la + lb /\ r3 = r2 + lc /\ r4 = r3 + ld /\ r5 = r4 + le /\ r6 = r5 + lf /\ r7 = r6 + lg
  BY <1>1, <1>6, BytesAreNumbers
<1> DEFINE p1 == LevelAt(p)
           p2 == PropsAt(p)
           p3 == IdAt(p)
           p4 == WillAt(p)
           p5 == UserAt(p)
           p6 == EndOf(p)
<1>9. p1 = at0 + la /\ p2 = p1 + lb /\ p3 = p2 + lc /\ p4 = p3 + ld /\ p5 = p4 + le /\ p6 = at0 + r7
  BY <1>4, <1>5, Zenon
<1>10. ASSUME NEW s \in Bytes, StandsAt(s, at0, row)
       PROVE  /\ StandsAt(s, at0, a) /\ StandsAt(s, at0 + la, b) /\ StandsAt(s, at0 + r2, c)
              /\ StandsAt(s, at0 + r3, d) /\ StandsAt(s, at0 + r4, e) /\ StandsAt(s, at0 + r5, f)
  BY <1>6, <1>7, <1>10, Zenon
<1>13. row \in Bytes
  BY <1>6
<1> HIDE DEF la, lb, lc, ld, le, lf, lg, r2, r3, r4, r5, r6, r7, p1, p2, p3, p4, p5, p6, at0, row
<1>11. /\ {at0, p1, p2, p3, p4, p5, p6} \subseteq Nat
       /\ at0 <= p1 /\ p1 <= p2 /\ p2 <= p3 /\ p3 <= p4 /\ p4 <= p5 /\ p5 + lf <= p6
       /\ at0 + la = p1 /\ at0 + r2 = p2 /\ at0 + r3 = p3 /\ at0 + r4 = p4 /\ at0 + r5 = p5
  BY <1>7, <1>8, <1>9
<1>12. ASSUME NEW s \in Bytes, StandsAt(s, at0, row)
       PROVE  /\ StandsAt(s, at0, a) /\ StandsAt(s, p1, b) /\ StandsAt(s, p2, c)
              /\ StandsAt(s, p3, d) /\ StandsAt(s, p4, e) /\ StandsAt(s, p5, f)
  BY <1>10, <1>11, <1>12, Zenon
<1> QED
  BY <1>2, <1>11, <1>12, <1>13, Zenon DEF at0, p1, p2, p3, p4, p5, p6, a, b, c, d, e, f, lf

\* A packet starts with its kind and the length of what follows.
LEMMA PacketLayout ==
    ASSUME NEW p \in Packets
    PROVE  /\ Encode(p) \in Bytes
           /\ \A s \in Bytes : StandsAt(s, 0, Encode(p)) =>
                 /\ StandsAt(s, 1, VarInt(Len(RemainingBytes(p))))
                 /\ StandsAt(s, NameAt(p), RemainingBytes(p))
                 /\ EndOf(p) <= Len(s)
<1> DEFINE r == RemainingBytes(p)
           v == VarInt(Len(r))
           h == <<16>> \o v
           one == <<16>>
<1>1. r \in Bytes /\ Len(r) \in Nat /\ Len(r) < FourGroups
  BY BodyLayout, PacketParts, BytesAreNumbers
<1>2. v \in Bytes
  BY <1>1, VarIntParts
<1>3. one \in Bytes
  BY ByteIs DEF Bytes
<1>4. Len(one) = 1
  OBVIOUS
<1>5. Encode(p) = (one \o v) \o r
  BY DEF Encode
<1> HIDE DEF r, v, one
<1>6. one \o v \in Bytes /\ Len(one \o v) = Len(one) + Len(v)
  BY <1>2, <1>3, BytesInARow
<1>7. (one \o v) \o r \in Bytes
  BY <1>1, <1>6, BytesInARow
<1>8. ASSUME NEW s \in Bytes, StandsAt(s, 0, Encode(p))
      PROVE  StandsAt(s, 1, v) /\ StandsAt(s, NameAt(p), r) /\ EndOf(p) <= Len(s)
  <2>1. StandsAt(s, 0, (one \o v) \o r)
    BY <1>5, <1>8
  <2>2. StandsAt(s, 0, one \o v) /\ StandsAt(s, 0 + Len(one \o v), r)
    BY <1>1, <1>6, <2>1, BytesStandInARow, 0 \in Nat, Zenon
  <2>3. StandsAt(s, 0 + Len(one), v)
    BY <1>2, <1>3, <2>2, BytesStandInARow, 0 \in Nat, Zenon
  <2>4. 0 + Len(one) = 1
    BY <1>4
  <2>5. 0 + Len(one \o v) = NameAt(p)
    <3> DEFINE w == Len(v)
    <3>1. Len(one \o v) = 1 + w /\ w \in Nat
      BY <1>2, <1>4, <1>6, BytesAreNumbers
    <3>2. NameAt(p) = 1 + w
      BY Zenon DEF NameAt, v, r
    <3> QED
      BY <3>1, <3>2
  <2>6. StandsAt(s, 1, v) /\ StandsAt(s, NameAt(p), r)
    BY <2>2, <2>3, <2>4, <2>5, Zenon
  <2>7. EndOf(p) <= Len(s)
    BY <2>6, Zenon DEF StandsAt, EndOf, r
  <2> QED
    BY <2>6, <2>7
<1> QED
  BY <1>5, <1>7, <1>8, Zenon DEF v, r


-----------------------------------------------------------------------------
(* The invariant: what the variables hold, and in which order things       *)
(* happen, whoever the client is.                                          *)

\* The positions and sizes are numbers, those of a client that sends what it likes.
Positions ==
    /\ stream \in Bytes
    /\ read \in 0 .. Len(stream)
    /\ {need, at, total} \subseteq Nat

\* What else the handler keeps.
Kept ==
    /\ packet \in {<<>>} \cup {<<p>> : p \in Packets}
    /\ client \in {"open", "closed"}
    /\ level \in Byte /\ flags \in Byte /\ tenant \in Bytes
    /\ reply \in {<<>>} \cup {<<[form |-> f, code |-> c]>> : f \in {3, 5}, c \in {2, 3}}

\* Behind the remaining length the whole CONNECT has arrived.
ConnectArrived ==
    /\ pc = "body" => need = total
    /\ pc \notin {"type", "length", "body", "done"} => total <= read

\* Nobody is routed by bytes that did not arrive.
RoutedByArrived == pc \in Routed => need <= read

First(n) == SubSeq(stream, 1, n)

\* What the backend has at each point of the hand-over.
HandedOver ==
    /\ pc \in Fields \cup {"refuse", "connect", "forward", "forwardExtra", "bridged", "done"}
    /\ pc \in Fields \cup {"refuse", "connect"} => down = <<>>
    /\ pc = "forward" => down = <<Frame>>
    /\ pc = "forwardExtra" => down = <<Frame>> \o First(total)
    /\ pc = "bridged" => down = <<Frame>> \o First(read)
    /\ pc = "done" => down = <<>> \/ \E n \in 0 .. Len(stream) : down = <<Frame>> \o First(n)

Ordered == Positions /\ ConnectArrived /\ RoutedByArrived /\ HandedOver

IInv == Kept /\ Ordered

\* The stream as a sequence of numbers.
LEMMA StreamIsNumbers == ASSUME Positions PROVE stream \in Seq(Nat) /\ Len(stream) \in Nat
  BY BytesAreNumbers DEF Positions

\* What the buffer holds are bytes, and what is decoded from it are numbers.
LEMMA BufferHoldsBytes ==
    ASSUME Positions
    PROVE  /\ \A i \in Nat : Buffer(i) \in Byte /\ Buffer(i) \in Nat /\ BE16(i) \in Nat
           /\ \A i, w \in Nat : VarIntAt(i, w) \in Nat
<1>0. \A i \in Nat : Buffer(i) \in Byte
  <2>1. 0 \in Byte
    BY ByteIs
  <2>2. ASSUME NEW i \in Nat, i < read PROVE stream[i + 1] \in Byte
    <3>1. i + 1 \in 1 .. Len(stream)
      BY <2>2, StreamIsNumbers DEF Positions
    <3> QED
      BY <3>1, ElementOfSeq DEF Positions, Bytes
  <2> QED
    BY <2>1, <2>2 DEF Buffer
<1>1. \A i \in Nat : Buffer(i) \in Nat
  BY <1>0, ByteIs
<1>2. ASSUME NEW i \in Nat PROVE BE16(i) \in Nat
  <2>1. Buffer(i) \in Nat /\ Buffer(i + 1) \in Nat
    BY <1>1
  <2> QED
    BY <2>1 DEF BE16
<1>3. ASSUME NEW i \in Nat, NEW w \in Nat PROVE VarIntAt(i, w) \in Nat
  <2>1. Buffer(i + 0) \in Nat /\ Buffer(i + 1) \in Nat /\ Buffer(i + 2) \in Nat
    BY <1>1
  <2>2. \A n \in Nat : n % 128 \in Nat
    OBVIOUS
  <2> QED
    BY <2>1, <2>2 DEF VarIntAt
<1> QED
  BY <1>0, <1>1, <1>2, <1>3

\* A slice is bytes.
LEMMA SliceIsBytes ==
    ASSUME NEW s \in Bytes, NEW n \in Nat, n <= Len(s) PROVE \A m \in Nat : SubSeq(s, m + 1, n) \in Bytes
  BY SliceOfSeq DEF Bytes

\* The least one of a set of numbers.
LEMMA LeastOf ==
    ASSUME NEW T \in SUBSET Nat, T # {}
    PROVE  Min(T) \in T /\ \A k \in T : Min(T) <= k
  BY LeastNumber DEF Min

Dots(name) == {i \in DOMAIN name : name[i] = 46}
Prefix(name) == SubSeq(name, 1, Min(Dots(name)) - 1)

\* The prefix of a name with a dot has what the name has before its first dot.
LEMMA PrefixParts ==
    ASSUME NEW name \in Bytes, Dots(name) # {}
    PROVE  LET m == Min(Dots(name))
           IN  /\ m \in 1 .. Len(name) /\ name[m] = 46
               /\ \A i \in 1 .. Len(name) : name[i] = 46 => m <= i
               /\ Prefix(name) \in Bytes /\ Len(Prefix(name)) = m - 1
               /\ \A i \in 1 .. m - 1 : Prefix(name)[i] = name[i]
<1> DEFINE m == Min(Dots(name))
           l == Len(name)
<1>1. l \in Nat /\ DOMAIN name = 1 .. l
  BY LenProperties DEF Bytes
<1>2. m \in Dots(name) /\ \A k \in Dots(name) : m <= k
  <2>1. Dots(name) \in SUBSET Nat
    BY <1>1 DEF Dots
  <2> QED
    BY <2>1, LeastOf
<1>3. m \in 1 .. l /\ name[m] = 46 /\ \A i \in 1 .. l : name[i] = 46 => m <= i
  BY <1>1, <1>2 DEF Dots
<1> HIDE DEF m, l
<1>4. m - 1 \in Nat /\ m - 1 <= l /\ m - 1 - 0 = m - 1 /\ 0 + 1 = 1 /\ 0 <= m - 1
  BY <1>1, <1>3
<1> DEFINE n == m - 1
<1>5. n \in Nat /\ n <= l /\ n - 0 = n /\ 0 + 1 = 1 /\ 0 <= n
  BY <1>4
<1>6. Prefix(name) = SubSeq(name, 1, n)
  BY DEF Prefix, m
<1> HIDE DEF n
<1>7. /\ SubSeq(name, 0 + 1, n) \in Seq(Byte) /\ Len(SubSeq(name, 0 + 1, n)) = n - 0
      /\ \A i \in 1 .. n - 0 : SubSeq(name, 0 + 1, n)[i] = name[0 + i]
  BY <1>5, SliceOfSeq DEF Bytes, l
<1>8. \A i \in 1 .. n : 0 + i = i
  BY <1>5
<1>9. /\ Prefix(name) \in Bytes /\ Len(Prefix(name)) = n /\ \A i \in 1 .. n : Prefix(name)[i] = name[i]
  BY <1>5, <1>6, <1>7, <1>8 DEF Bytes
<1> QED
  BY <1>3, <1>9 DEF m, l, n

\* The prefix that a decision takes is bytes.
LEMMA PrefixIsBytes ==
    ASSUME NEW name \in Bytes, Decide(name) PROVE tenant' \in Bytes
<1>1. CASE Dots(name) = {}
  BY <1>1, NoBytes DEF Decide, Dots
<1>2. CASE Dots(name) # {}
  <2>1. Prefix(name) \in Bytes
    BY <1>2, PrefixParts
  <2> QED
    BY <2>1, NoBytes DEF Decide, Dots, Prefix
<1> QED
  BY <1>1, <1>2

\* What a step of the decoder leaves behind it.
Decoded ==
    /\ UNCHANGED <<packet, stream, client, read, reply, down>>
    /\ level' \in Byte /\ flags' \in Byte /\ tenant' \in Bytes
    /\ {need', at', total'} \subseteq Nat
    /\ ConnectArrived'
    /\ pc \in Fields /\ pc' \in Fields \cup {"refuse", "connect", "done"}
    /\ pc' = "connect" => need' <= read'

\* Each field of the decoder waits for a position in the stream, decides or gives up; it is
\* the user name alone, and with all its bytes there, that leads to a backend.
LEMMA DecodeInOrder == ASSUME IInv, DecodeStep PROVE Decoded
<1> USE DEF IInv, Ordered, Positions, Kept, ConnectArrived, Decoded, Await, Return, Ready,
        input, header, outcome, Fields
<1> DEFINE Behind == pc \in Fields \ {"type", "length", "body"}
<1>0. Positions /\ at \in Nat /\ <<>> \in Bytes
  BY NoBytes
<1>1. at \in Nat /\ BE16(at) \in Nat
  BY <1>0, BufferHoldsBytes
<1>17. \A i \in Nat : VarIntAt(1, i) \in Nat /\ VarIntAt(at, i) \in Nat /\ Buffer(i) \in Byte
  <2>1. 1 \in Nat
    OBVIOUS
  <2> QED
    BY <1>0, <2>1, BufferHoldsBytes, Zenon
<1> DEFINE next == at + 2 + BE16(at)
<1>2. next \in Nat /\ next + 1 \in Nat /\ next + 2 \in Nat /\ next + 4 \in Nat
  BY ONLY <1>1
<1> HIDE DEF next
<1>3. ASSUME NEW n \in Nat, Behind, UserNext(n) PROVE Decoded
  <2>1. CASE HasUser
    BY <1>3, <2>1 DEF UserNext
  <2>2. CASE ~ HasUser
    <3>1. Decide(<<>>)
      BY <1>3, <2>2 DEF UserNext
    <3>2. {i \in DOMAIN <<>> : <<>>[i] = 46} = {}
      OBVIOUS
    <3>3. /\ pc' = "refuse" /\ tenant' = <<>>
          /\ UNCHANGED <<input, client, need, read, at, header, reply, down>>
      BY <3>1, <3>2 DEF Decide
    <3> QED
      BY <1>0, <1>3, <3>3
  <2> QED
    BY <2>1, <2>2
<1>4. CASE Type
  BY <1>4 DEF Type
<1>5. CASE Length
  <2>1. CASE at = 4
    BY <1>5, <2>1 DEF Length
  <2>2. CASE at # 4 /\ Buffer(at) >= 128
    BY <1>5, <2>2 DEF Length
  <2>3. CASE at # 4 /\ ~ (Buffer(at) >= 128)
    <3>1. at + 1 + VarIntAt(1, at) \in Nat
      <4>1. VarIntAt(1, at) \in Nat
        BY <1>1, <1>17
      <4> QED
        BY ONLY <1>1, <4>1
    <3>2. /\ pc = "length" /\ total' = at + 1 + VarIntAt(1, at)
          /\ Await("body", at + 1, total') /\ UNCHANGED <<level, flags, outcome>>
      BY <1>5, <2>3 DEF Length
    <3> QED
      BY <3>1, <3>2
  <2> QED
    BY <2>1, <2>2, <2>3
<1>6. CASE Body
  <2>1. /\ pc = "body" /\ read >= need /\ Await("name", at, next + 4)
        /\ UNCHANGED <<header, outcome>>
    BY <1>6 DEF Body, next
  <2> QED
    BY <1>2, <2>1
<1>7. CASE Name
  <2>1. /\ pc = "name" /\ UNCHANGED <<packet, stream, client, read, total, tenant, reply, down>>
        /\ level' \in Byte /\ flags' \in Byte
    <3>1. Buffer(next) \in Byte /\ Buffer(next + 1) \in Byte
      BY <1>2, <1>17, Zenon
    <3>2. \/ Return
          \/ level' = Buffer(next) /\ flags' = Buffer(next + 1)
      BY <1>7 DEF Name, next
    <3> QED
      BY <1>7, <3>1, <3>2 DEF Name
  <2>2. \/ Return
        \/ Await("properties", next + 4, next + 8) \/ Await("id", next + 4, next + 6)
    BY <1>7 DEF Name, next
  <2>3. next + 6 \in Nat /\ next + 8 \in Nat
    BY ONLY <1>2
  <2> QED
    BY <1>2, <2>1, <2>2, <2>3
<1>8. CASE PropertiesLength
  <2> DEFINE widths == {w \in 1 .. 3 : Buffer(at + w - 1) < 128}
  <2>1. CASE widths = {}
    BY <1>8, <2>1 DEF PropertiesLength
  <2>2. CASE widths # {}
    <3>1. Min(widths) \in Nat
      <4> HIDE DEF widths
      <4>1. widths \subseteq 1 .. 3
        BY DEF widths
      <4>2. \E x \in widths : \A y \in widths : x =< y
        <5>1. CASE 1 \in widths
          BY ONLY <4>1, <5>1
        <5>2. CASE 1 \notin widths /\ 2 \in widths
          BY ONLY <4>1, <5>2
        <5>3. CASE 1 \notin widths /\ 2 \notin widths
          <6>1. \A w \in widths : w = 3
            BY ONLY <4>1, <5>3
          <6> QED
            BY <2>2, <6>1
        <5> QED
          BY <5>1, <5>2, <5>3
      <4>3. Min(widths) \in widths
        BY <4>2 DEF Min
      <4>4. 1 .. 3 \subseteq Nat
        OBVIOUS
      <4> QED
        BY <4>1, <4>3, <4>4
    <3> DEFINE start == at + Min(widths) + VarIntAt(at, Min(widths))
    <3>2. start \in Nat
      <4>1. VarIntAt(at, Min(widths)) \in Nat
        BY <3>1, <1>17
      <4> QED
        BY ONLY <1>1, <3>1, <4>1
    <3>3. pc = "properties" /\ Await("skip", start, start + 2) /\ UNCHANGED <<header, outcome>>
      BY <1>8, <2>2 DEF PropertiesLength
    <3> HIDE DEF start
    <3> QED
      BY <3>2, <3>3
  <2> QED
    BY <2>1, <2>2
<1>9. CASE SkipProperties
  BY <1>9 DEF SkipProperties
<1>10. CASE ClientId
  <2>1. pc = "id" /\ Await("afterId", next, next) /\ UNCHANGED <<header, outcome>>
    BY <1>10 DEF ClientId, next
  <2> QED
    BY <1>2, <2>1
<1>11. CASE AfterId
  <2>1. CASE HasWill
    BY <1>11, <2>1 DEF AfterId
  <2>2. CASE ~ HasWill
    BY <1>3, <1>11, <2>2 DEF AfterId
  <2> QED
    BY <2>1, <2>2
<1>12. CASE WillTopic
  <2>1. pc = "will" /\ Await("willMessage", next, next + 2) /\ UNCHANGED <<header, outcome>>
    BY <1>12 DEF WillTopic, next
  <2> QED
    BY <1>2, <2>1
<1>13. CASE WillMessage
  <2>1. pc = "willMessage" /\ UserNext(next)
    BY <1>13 DEF WillMessage, next
  <2> QED
    BY <1>2, <1>3, <2>1
<1>14. CASE User
  <2>1. /\ pc = "user" /\ Await("userName", at + 2, next)
        /\ UNCHANGED <<header, outcome>>
    BY <1>14 DEF User, next
  <2>2. at + 2 \in Nat
    BY ONLY <1>1
  <2> QED
    BY <1>2, <2>1, <2>2
<1>15. CASE UserName
  <2>1. /\ pc = "userName" /\ read >= need /\ pc' \in {"refuse", "connect"}
        /\ UNCHANGED <<input, client, need, read, at, header, reply, down>>
    BY <1>15 DEF UserName, Decide
  <2> DEFINE name == Slice(at, need - at)
  <2>2. Decide(name)
    BY <1>15 DEF UserName
  <2>3. name \in Bytes
    <3>1. at + (need - at) = need
      BY <1>0
    <3>2. need \in Nat /\ need <= Len(stream)
      BY <2>1, StreamIsNumbers
    <3>3. SubSeq(stream, at + 1, need) \in Bytes
      BY <1>0, <3>2, SliceIsBytes, Zenon
    <3> QED
      BY <3>1, <3>3 DEF Slice
  <2> HIDE DEF name
  <2>4. tenant' \in Bytes
    BY <1>0, <2>2, <2>3, PrefixIsBytes DEF Decide
  <2> QED
    BY <2>1, <2>4
<1>16. CASE GiveUp
  BY <1>16 DEF GiveUp
<1> QED
  BY <1>4, <1>5, <1>6, <1>7, <1>8, <1>9, <1>10, <1>11, <1>12, <1>13, <1>14, <1>15, <1>16
  DEF DecodeStep


-----------------------------------------------------------------------------
\* Two neighbouring parts of the stream are one part.
LEMMA PartsJoin ==
    ASSUME stream \in Seq(Nat), NEW m \in Nat, NEW n \in Nat, m + n <= Len(stream)
    PROVE  (<<Frame>> \o First(m)) \o Slice(m, n) = <<Frame>> \o First(m + n)
<1>1. First(m) \o SubSeq(stream, m + 1, m + n) = First(m + n)
  BY ConcatAdjacentSubSeq, LenProperties DEF First
<1>2. First(m) \in Seq(Nat) /\ SubSeq(stream, m + 1, m + n) \in Seq(Nat)
  BY SubSeqProperties, LenProperties DEF First
<1>3. <<Frame>> \in Seq(Nat)
  BY DEF Frame
<1>4. (<<Frame>> \o First(m)) \o SubSeq(stream, m + 1, m + n)
          = <<Frame>> \o (First(m) \o SubSeq(stream, m + 1, m + n))
  <2>1. \A x, y, z \in Seq(Nat) : (x \o y) \o z = x \o (y \o z)
    BY ConcatAssociative
  <2> QED
    BY <1>2, <1>3, <2>1, Zenon
<1> QED
  BY <1>1, <1>4 DEF Slice

\* The frame and a part of the stream from its start are a prefix of the frame and the stream.
LEMMA PartIsPrefix ==
    ASSUME stream \in Seq(Nat), NEW n \in 0 .. Len(stream)
    PROVE  /\ Len(<<Frame>> \o First(n)) = 1 + n
           /\ IsPrefix(<<Frame>> \o First(n), <<Frame>> \o stream)
<1> DEFINE part == <<Frame>> \o First(n)
           whole == <<Frame>> \o stream
<1>1. Len(stream) \in Nat /\ n \in Nat /\ n <= Len(stream)
  BY LenProperties
<1>2. First(n) \in Seq(Nat) /\ Len(First(n)) = n /\ \A i \in 1 .. n : First(n)[i] = stream[i]
  BY <1>1, SubSeqProperties, LenProperties DEF First
<1>3. <<Frame>> \in Seq(Nat) /\ Len(<<Frame>>) = 1
  BY DEF Frame
<1>4. /\ part \in Seq(Nat) /\ Len(part) = 1 + n
      /\ \A i \in 1 .. 1 + n : part[i] = IF i = 1 THEN Frame ELSE stream[i - 1]
  BY <1>1, <1>2, <1>3
<1>5. /\ whole \in Seq(Nat) /\ Len(whole) = 1 + Len(stream)
      /\ \A i \in 1 .. 1 + n : whole[i] = IF i = 1 THEN Frame ELSE stream[i - 1]
  BY <1>1, <1>3
<1> HIDE DEF part, whole
<1>6. SubSeq(part, 1, 1 + n) = part
  BY <1>4, SubSeqFull
<1>7. /\ SubSeq(whole, 1, 1 + n) \in Seq(Nat) /\ Len(SubSeq(whole, 1, 1 + n)) = 1 + n
      /\ \A i \in 1 .. 1 + n : SubSeq(whole, 1, 1 + n)[i] = whole[i]
  BY <1>1, <1>5
<1>8. SubSeq(whole, 1, 1 + n) = part
  <2> DEFINE cut == SubSeq(whole, 1, 1 + n)
  <2>1. cut \in Seq(Nat) /\ Len(cut) = Len(part)
    BY <1>4, <1>7
  <2>2. \A i \in 1 .. 1 + n : cut[i] = part[i]
    BY <1>4, <1>5, <1>7
  <2>3. part \in Seq(Nat) /\ \A i \in 1 .. Len(cut) : cut[i] = part[i]
    BY <1>4, <1>7, <2>2
  <2> HIDE DEF cut
  <2>4. cut = part
    BY <2>1, <2>3, SeqEqual, Zenon
  <2> QED
    BY <2>4 DEF cut
<1>9. IsPrefix(part, whole)
  BY <1>1, <1>4, <1>5, <1>6, <1>8 DEF IsPrefix
<1> QED
  BY <1>4, <1>9 DEF part, whole

\* Whatever a client sends, the handler starts with nothing read and nothing written.
LEMMA InitInv == Init => IInv
<1> SUFFICES ASSUME Init PROVE IInv
  OBVIOUS
<1>1. packet \in {<<>>} \cup {<<p>> : p \in Packets}
  BY DEF Init
<1>2. stream \in Bytes
  <2>1. CASE \E p \in Packets, follow \in Follows : stream = Encode(p) \o follow
    <3>1. PICK p \in Packets, follow \in Follows : stream = Encode(p) \o follow
      BY <2>1
    <3>2. Encode(p) \in Bytes /\ follow \in Bytes
      BY PacketLayout, StreamsAssumption
    <3> QED
      BY <3>1, <3>2, BytesInARow
  <2>2. CASE stream \in Garbage
    BY <2>2, StreamsAssumption
  <2> QED
    BY <2>1, <2>2 DEF Init
<1>3. Len(stream) \in Nat
  BY <1>2, BytesAreNumbers
<1>4. 0 \in Byte /\ <<>> \in Bytes
  BY ByteIs, NoBytes
<1> QED
  BY <1>1, <1>2, <1>3, <1>4
  DEF Init, IInv, Ordered, Positions, Kept, ConnectArrived, RoutedByArrived, HandedOver, Fields, Routed

\* Every step keeps what else the handler keeps.
LEMMA KeptStep == ASSUME IInv, [Next]_vars PROVE Kept'
<1> USE DEF Kept, input, header, outcome
<1>1. Kept
  BY DEF IInv
<1>2. CASE DecodeStep
  <2>1. Decoded
    BY <1>2, DecodeInOrder
  <2> QED
    BY <1>1, <2>1 DEF Decoded
<1>3. CASE Refuse \/ ConnectFails
  BY <1>1, <1>3 DEF Refuse, ConnectFails, RefuseWith
<1>4. CASE ConnectBackend \/ ForwardConnect \/ ForwardExtra \/ PumpEnds \/ WriteFails
  BY <1>1, <1>4
  DEF ConnectBackend, ForwardConnect, ForwardExtra, PumpEnds, WriteFails, WriteDown, Return
<1>5. CASE ClientHangsUp
  BY <1>1, <1>5 DEF ClientHangsUp
<1>6. ASSUME NEW n, ReadSome(n) \/ PumpSome(n) PROVE Kept'
  BY <1>1, <1>6 DEF ReadSome, PumpSome
<1>7. CASE UNCHANGED vars
  BY <1>1, <1>7 DEF vars
<1> QED
  BY <1>2, <1>3, <1>4, <1>5, <1>6, <1>7 DEF Next, RouteStep

\* Every step keeps the order: the CONNECT is handed over from the start of the stream, what
\* was read beyond it follows, and each read of the pump goes on where that ended.
LEMMA OrderedStep == ASSUME IInv, [Next]_vars PROVE Ordered'
<1> USE DEF Ordered, Positions, ConnectArrived, RoutedByArrived, HandedOver, input, header, outcome,
        Fields, Routed
<1>0. Ordered
  BY DEF IInv
<1>1. stream \in Seq(Nat) /\ Len(stream) \in Nat
  BY <1>0, StreamIsNumbers
<1>2. CASE DecodeStep
  <2>1. Decoded
    BY <1>0, <1>2, DecodeInOrder
  <2> QED
    BY <1>0, <2>1 DEF Decoded
<1>3. CASE Refuse
  BY <1>0, <1>3 DEF Refuse, RefuseWith
<1>4. CASE ConnectFails
  BY <1>0, <1>4 DEF ConnectFails, RefuseWith
<1>5. CASE ConnectBackend
  <2>1. down' = <<Frame>>
    BY <1>0, <1>5 DEF ConnectBackend, WriteDown, Frame
  <2> QED
    BY <1>0, <1>5, <2>1 DEF ConnectBackend, WriteDown
<1>6. CASE ForwardConnect
  <2>1. 0 + 1 = 1 /\ 0 + total = total
    BY <1>0
  <2>2. down' = <<Frame>> \o First(total)
    BY <1>0, <1>6, <2>1 DEF ForwardConnect, WriteDown, Slice, First
  <2> QED
    BY <1>0, <1>6, <2>2 DEF ForwardConnect, WriteDown, First
<1>7. CASE ForwardExtra
  <2>1. total \in Nat /\ read \in Nat /\ total <= read /\ read <= Len(stream)
    BY <1>0, <1>1, <1>7 DEF ForwardExtra, WriteDown
  <2>2. read - total \in Nat /\ total + (read - total) = read
    BY ONLY <2>1
  <2>3. down' = (<<Frame>> \o First(total)) \o Slice(total, read - total)
    BY <1>0, <1>7 DEF ForwardExtra, WriteDown
  <2>4. down' = <<Frame>> \o First(read)
    BY <1>1, <2>1, <2>2, <2>3, PartsJoin
  <2> QED
    BY <1>0, <1>7, <2>4 DEF ForwardExtra, WriteDown, First
<1>8. CASE PumpEnds
  BY <1>0, <1>8 DEF PumpEnds, Return, First
<1>9. CASE WriteFails
  <2>1. CASE pc \in {"refuse", "connect", "bridged"}
    BY <1>0, <1>9, <2>1 DEF WriteFails, Return, First
  <2>2. CASE pc = "forward"
    <3>1. First(0) = <<>>
      BY SubSeqEmpty DEF First
    <3>2. <<Frame>> \o <<>> = <<Frame>>
      BY DEF Frame
    <3>3. 0 \in 0 .. Len(stream) /\ down = <<Frame>> \o First(0)
      BY <1>0, <1>1, <2>2, <3>1, <3>2
    <3> QED
      BY <1>0, <1>9, <2>2, <3>3 DEF WriteFails, Return, First
  <2>3. CASE pc = "forwardExtra"
    <3>1. total \in 0 .. Len(stream) /\ down = <<Frame>> \o First(total)
      BY <1>0, <1>1, <2>3
    <3> QED
      BY <1>0, <1>9, <2>3, <3>1 DEF WriteFails, Return, First
  <2> QED
    BY <1>0, <1>9, <2>1, <2>2, <2>3 DEF WriteFails
<1>10. CASE ClientHangsUp
  BY <1>0, <1>10 DEF ClientHangsUp, First
<1>11. ASSUME NEW n \in 1 .. Len(stream), ReadSome(n) PROVE Ordered'
  <2>1. read + n \in 0 .. Len(stream) /\ read <= read + n
    BY <1>0, <1>1, <1>11 DEF ReadSome, Arriving
  <2> QED
    BY <1>0, <1>11, <2>1 DEF ReadSome
<1>12. ASSUME NEW n \in 1 .. Len(stream), PumpSome(n) PROVE Ordered'
  <2>1. read + n \in 0 .. Len(stream) /\ read <= read + n /\ read \in Nat /\ n \in Nat
    BY <1>0, <1>1, <1>12 DEF PumpSome, Arriving
  <2>2. down' = (<<Frame>> \o First(read)) \o Slice(read, n)
    BY <1>0, <1>12 DEF PumpSome
  <2>3. read + n <= Len(stream)
    BY ONLY <1>1, <2>1
  <2>4. down' = <<Frame>> \o First(read + n)
    BY <1>1, <2>1, <2>2, <2>3, PartsJoin
  <2>5. /\ pc = "bridged" /\ read' = read + n
        /\ UNCHANGED <<stream, pc, need, at, total>>
    BY <1>0, <1>12 DEF PumpSome
  <2>6. need \in Nat /\ need <= read
    BY <1>0, <2>5
  <2>7. need <= read + n /\ total <= read + n
    <3>1. total \in Nat /\ total <= read
      BY <1>0, <2>5
    <3> QED
      BY ONLY <2>1, <2>6, <3>1
  <2> QED
    BY <1>0, <2>1, <2>4, <2>5, <2>7 DEF First
<1>13. CASE UNCHANGED vars
  BY <1>0, <1>13 DEF vars, First
<1> QED
  BY <1>0, <1>2, <1>3, <1>4, <1>5, <1>6, <1>7, <1>8, <1>9, <1>10, <1>11, <1>12, <1>13
  DEF Next, RouteStep

\* Every step keeps the invariant.
LEMMA Step == ASSUME IInv, [Next]_vars PROVE IInv'
  BY KeptStep, OrderedStep DEF IInv

\* The invariant behind the theorem.
THEOREM Invariant == Spec => []IInv
<1> QED
  BY InitInv, Step, PTL DEF Spec

\* Whoever the client is and whatever he sends: the variables hold what they are declared to
\* hold; a refusal has one of its two forms, and what goes down is the frame and bytes.
THEOREM TypeCorrect == Spec => []TypeOK
<1>1. IInv => TypeOK
  <2> SUFFICES ASSUME IInv PROVE TypeOK
    OBVIOUS
  <2>1. \A n \in 0 .. Len(stream) : First(n) \in Bytes
    <3>1. ASSUME NEW n \in 0 .. Len(stream) PROVE First(n) \in Bytes
      <4>1. n \in Nat /\ n <= Len(stream) /\ 0 + 1 = 1
        BY StreamIsNumbers DEF IInv, Ordered
      <4> QED
        BY <4>1, 0 \in Nat, SliceIsBytes DEF First, IInv, Ordered, Positions
    <3> QED
      BY <3>1
  <2>2. ASSUME NEW b \in Bytes PROVE <<Frame>> \o b \in Seq(Byte \cup {Frame})
    <3>1. b \in Seq(Byte \cup {Frame})
      BY SeqMonotonic DEF Bytes
    <3>2. <<Frame>> \in Seq(Byte \cup {Frame})
      OBVIOUS
    <3> QED
      BY <3>1, <3>2, ConcatProperties
  <2>3. <<>> \in Seq(Byte \cup {Frame}) /\ <<Frame>> \in Seq(Byte \cup {Frame})
    OBVIOUS
  <2>4. down \in Seq(Byte \cup {Frame})
    <3>1. read \in 0 .. Len(stream) /\ (pc = "forwardExtra" => total \in 0 .. Len(stream))
      BY StreamIsNumbers DEF IInv, Ordered, Positions, ConnectArrived
    <3> QED
      BY <2>1, <2>2, <2>3, <3>1 DEF IInv, Ordered, HandedOver
  <2> QED
    BY <2>4 DEF IInv, Ordered, TypeOK, Positions, Kept, HandedOver, Finished
<1> QED
  BY Invariant, <1>1, PTL

\* The backend gets the frame and the client's bytes, none lost, doubled or out of order,
\* wherever the decoder stopped reading and however the stream was cut.
THEOREM ForwardedWhole == Spec => []ForwardedInOrder
<1>1. IInv => ForwardedInOrder
  <2> SUFFICES ASSUME IInv PROVE ForwardedInOrder
    OBVIOUS
  <2>1. stream \in Seq(Nat) /\ Len(stream) \in Nat
    BY StreamIsNumbers DEF IInv, Ordered
  <2>2. CASE down = <<>> /\ pc # "bridged"
    <3>1. /\ <<>> \in Seq(Nat) /\ Len(<<>>) = 0 /\ <<Frame>> \o stream \in Seq(Nat)
          /\ Len(<<Frame>> \o stream) = 1 + Len(stream)
      BY <2>1 DEF Frame
    <3>2. SubSeq(<<>>, 1, 0) = <<>> /\ SubSeq(<<Frame>> \o stream, 1, 0) = <<>>
      BY SubSeqEmpty
    <3> QED
      BY <2>1, <2>2, <3>1, <3>2 DEF ForwardedInOrder, IsPrefix
  <2>3. ASSUME NEW n \in 0 .. Len(stream), down = <<Frame>> \o First(n), pc = "bridged" => n = read
        PROVE  ForwardedInOrder
    BY <2>1, <2>3, PartIsPrefix DEF ForwardedInOrder
  <2>4. CASE pc = "forward"
    <3>1. First(0) = <<>> /\ <<Frame>> \o <<>> = <<Frame>>
      BY SubSeqEmpty DEF First, Frame
    <3>2. 0 \in 0 .. Len(stream) /\ down = <<Frame>> \o First(0)
      BY <2>1, <2>4, <3>1 DEF IInv, Ordered, HandedOver
    <3> QED
      BY <2>3, <2>4, <3>2
  <2>5. CASE pc = "forwardExtra"
    <3>1. total \in 0 .. Len(stream) /\ down = <<Frame>> \o First(total)
      BY <2>1, <2>5 DEF IInv, Ordered, HandedOver, Positions, ConnectArrived
    <3> QED
      BY <2>3, <2>5, <3>1
  <2>6. CASE pc = "bridged"
    <3>1. read \in 0 .. Len(stream) /\ down = <<Frame>> \o First(read)
      BY <2>6 DEF IInv, Ordered, HandedOver, Positions
    <3> QED
      BY <2>3, <3>1
  <2>7. CASE pc = "done"
    BY <2>2, <2>3, <2>7 DEF IInv, Ordered, HandedOver
  <2>8. CASE pc \in Fields \cup {"refuse", "connect"}
    BY <2>2, <2>8 DEF IInv, Ordered, HandedOver, Fields
  <2> QED
    BY <2>4, <2>5, <2>6, <2>7, <2>8 DEF IInv, Ordered, HandedOver
<1> QED
  BY Invariant, <1>1, PTL

\* No backend is connected for a name of which a byte is still missing, the read of a version
\* 5 will's message included, whose failure the decoder does not look at.
THEOREM RoutedWhenArrived == Spec => []RoutedByArrived
<1>1. IInv => RoutedByArrived
  BY DEF IInv, Ordered
<1> QED
  BY Invariant, <1>1, PTL

-----------------------------------------------------------------------------
(* What the decoder reads where a client wrote it.                         *)

\* What was read is in the buffer as it stands in the stream.
LEMMA InBuffer == ASSUME Positions PROVE \A i \in Nat : i < read => Buffer(i) = stream[i + 1]
  BY DEF Buffer

\* A field that has arrived gives its length and its bytes.
LEMMA FieldRead ==
    ASSUME Positions, NEW b \in Bytes, Short(b), NEW i \in Nat,
           StandsAt(stream, i, Field(b)), i + 2 + Len(b) <= read
    PROVE  BE16(i) = Len(b) /\ Slice(i + 2, Len(b)) = b
<1>1. stream \in Bytes /\ read \in Nat /\ Len(b) \in Nat
  BY StreamIsNumbers, BytesAreNumbers DEF Positions
<1>2. 256 * stream[i + 1] + stream[i + 2] = Len(b) /\ StandsAt(stream, i + 2, b)
  BY <1>1, FieldParts
<1>3. i + 1 \in Nat /\ i < read /\ i + 1 < read /\ (i + 1) + 1 = i + 2 /\ i + 2 \in Nat
  <2> DEFINE n == Len(b)
  <2>1. n \in Nat /\ i + 2 + n <= read
    BY <1>1
  <2> HIDE DEF n
  <2> QED
    BY <1>1, <2>1
<1>4. Buffer(i) = stream[i + 1] /\ Buffer(i + 1) = stream[i + 2]
  <2>1. Buffer(i) = stream[i + 1] /\ Buffer(i + 1) = stream[(i + 1) + 1]
    BY <1>3, InBuffer
  <2> QED
    BY <1>3, <2>1
<1>5. BE16(i) = Len(b)
  BY <1>2, <1>4, Zenon DEF BE16
<1>6. SubSeq(stream, (i + 2) + 1, (i + 2) + Len(b)) = b
  BY <1>1, <1>2, <1>3, StandingSlice, Zenon DEF Bytes
<1> QED
  BY <1>5, <1>6, Zenon DEF Slice

\* The last of the groups of a number is the first one without a mark; three of them, or
\* less, give the number again.
LEMMA VarIntRead ==
    ASSUME Positions, NEW n \in Nat, n < FourGroups, NEW i \in Nat,
           StandsAt(stream, i, VarInt(n))
    PROVE  LET w == Len(VarInt(n))
           IN  /\ w \in 1 .. 4
               /\ \A k \in 1 .. w : i + k <= read => (Buffer(i + k - 1) < 128 <=> k = w)
               /\ w <= 3 /\ i + w <= read => VarIntAt(i, w) = n
<1> DEFINE v == VarInt(n)
           w == Len(v)
<1>1. /\ v \in Bytes /\ w \in 1 .. 4 /\ v[w] < 128
      /\ \A k \in 1 .. w - 1 : v[k] >= 128
      /\ w = 1 => n = v[1]
      /\ w = 2 => n = (v[1] % 128) + 128 * v[2]
      /\ w = 3 => n = (v[1] % 128) + 128 * (v[2] % 128) + 16384 * v[3]
  BY VarIntParts
<1>2. \A k \in 1 .. w : stream[i + k] = v[k] /\ v[k] \in Nat
  <2>1. \A k \in 1 .. w : v[k] \in Nat
    BY <1>1, BytesAreNumbers, ElementOfSeq
  <2> QED
    BY <2>1 DEF StandsAt
<1>3. read \in Nat
  BY StreamIsNumbers DEF Positions
<1>4. ASSUME NEW k \in 1 .. w, i + k <= read PROVE Buffer(i + k - 1) = v[k]
  <2> HIDE DEF w, v
  <2>1. k \in Nat /\ k >= 1
    BY <1>1
  <2>2. i + k - 1 \in Nat /\ i + k - 1 < read /\ (i + k - 1) + 1 = i + k
    BY <1>3, <1>4, <2>1
  <2>3. Buffer(i + k - 1) = stream[(i + k - 1) + 1]
    BY <2>2, InBuffer
  <2> QED
    BY <1>2, <2>2, <2>3
<1> HIDE DEF w, v
<1>5. ASSUME NEW k \in 1 .. w, i + k <= read PROVE Buffer(i + k - 1) < 128 <=> k = w
  <2>1. Buffer(i + k - 1) = v[k] /\ v[k] \in Nat
    BY <1>2, <1>4, <1>5
  <2>2. CASE k = w
    BY <1>1, <2>1, <2>2
  <2>3. CASE k # w
    <3>1. k \in 1 .. w - 1
      BY <1>1, <2>3
    <3> QED
      BY <1>1, <2>1, <2>3, <3>1
  <2> QED
    BY <2>2, <2>3
<1>6. ASSUME w <= 3, i + w <= read PROVE VarIntAt(i, w) = n
  <2>1. \A k \in 1 .. w : i + k <= read
    BY <1>1, <1>3, <1>6
  <2>2. \A k \in 1 .. w : Buffer(i + k - 1) = v[k]
    BY <1>4, <2>1
  <2>3. v[w] \in Nat /\ v[w] < 128
    BY <1>1, <1>2
  <2>4. CASE w = 1
    <3>1. Buffer(i + 0) = v[1]
      <4>1. 1 \in 1 .. w /\ i + 1 - 1 = i + 0
        BY <2>4
      <4> QED
        BY <2>2, <4>1
    <3> DEFINE x == v[1]
    <3>2. x \in Nat /\ x < 128 /\ n = x
      BY <1>1, <2>3, <2>4
    <3>3. VarIntAt(i, 1) = 1 * (x % 128) + 0 + 0
      BY <3>1 DEF VarIntAt
    <3> HIDE DEF x
    <3> QED
      BY <2>4, <3>2, <3>3
  <2>5. CASE w = 2
    <3>1. Buffer(i + 0) = v[1] /\ Buffer(i + 1) = v[2]
      <4>1. 1 \in 1 .. w /\ 2 \in 1 .. w /\ i + 1 - 1 = i + 0 /\ i + 2 - 1 = i + 1
        BY <2>5
      <4> QED
        BY <2>2, <4>1
    <3> DEFINE x == v[1]
               y == v[2]
    <3>2. x \in Nat /\ y \in Nat /\ y < 128 /\ n = (x % 128) + 128 * y
      <4>1. 1 \in 1 .. w /\ 2 \in 1 .. w
        BY <2>5
      <4> QED
        BY <1>1, <1>2, <2>3, <2>5, <4>1
    <3>3. VarIntAt(i, 2) = 1 * (x % 128) + 128 * (y % 128) + 0
      BY <3>1 DEF VarIntAt
    <3> HIDE DEF x, y
    <3> QED
      BY <2>5, <3>2, <3>3
  <2>6. CASE w = 3
    <3>1. Buffer(i + 0) = v[1] /\ Buffer(i + 1) = v[2] /\ Buffer(i + 2) = v[3]
      <4>1. /\ 1 \in 1 .. w /\ 2 \in 1 .. w /\ 3 \in 1 .. w
            /\ i + 1 - 1 = i + 0 /\ i + 2 - 1 = i + 1 /\ i + 3 - 1 = i + 2
        BY <2>6
      <4> QED
        BY <2>2, <4>1
    <3> DEFINE x == v[1]
               y == v[2]
               z == v[3]
    <3>2. /\ x \in Nat /\ y \in Nat /\ z \in Nat /\ z < 128
          /\ n = (x % 128) + 128 * (y % 128) + 16384 * z
      <4>1. 1 \in 1 .. w /\ 2 \in 1 .. w /\ 3 \in 1 .. w
        BY <2>6
      <4> QED
        BY <1>1, <1>2, <2>3, <2>6, <4>1
    <3>3. VarIntAt(i, 3) = 1 * (x % 128) + 128 * (y % 128) + 16384 * (z % 128)
      BY <3>1 DEF VarIntAt
    <3> HIDE DEF x, y, z
    <3>4. z % 128 = z
      BY <3>2
    <3>5. 1 * (x % 128) = x % 128
      BY <3>2
    <3> QED
      BY <2>6, <3>2, <3>3, <3>4, <3>5
  <2>7. w = 1 \/ w = 2 \/ w = 3
    BY <1>1, <1>6
  <2> QED
    BY <2>4, <2>5, <2>6, <2>7
<1> QED
  BY <1>1, <1>5, <1>6 DEF w, v

-----------------------------------------------------------------------------
(* Names without regard to case, and the tenant of a user name.            *)

\* Two sequences, of which one is a prefix of the other, element by element.
LEMMA PrefixElements ==
    ASSUME NEW S, NEW s \in Seq(S), NEW t \in Seq(S)
    PROVE  IsPrefix(s, t) <=> Len(s) <= Len(t) /\ \A i \in 1 .. Len(s) : s[i] = t[i]
<1> DEFINE m == Len(s)
           n == Len(t)
<1>1. m \in Nat /\ n \in Nat
  BY LenProperties
<1>2. SubSeq(s, 1, m) = s
  BY SubSeqFull
<1>3. ASSUME m <= n PROVE SubSeq(t, 1, m) = s <=> \A i \in 1 .. m : s[i] = t[i]
  <2> DEFINE u == SubSeq(t, 1, m)
  <2> HIDE DEF n
  <2>1. u \in Seq(S) /\ Len(u) = m /\ \A i \in 1 .. m : u[i] = t[i]
    <3> HIDE DEF m
    <3>1. 0 + 1 = 1 /\ m - 0 = m /\ 0 <= m /\ \A i \in 1 .. m : 0 + i = i
      BY <1>1
    <3>2. m <= Len(t)
      BY <1>3 DEF n
    <3>3. /\ SubSeq(t, 0 + 1, m) \in Seq(S) /\ Len(SubSeq(t, 0 + 1, m)) = m - 0
          /\ \A i \in 1 .. m - 0 : SubSeq(t, 0 + 1, m)[i] = t[0 + i]
      BY <1>1, <3>1, <3>2, SliceOfSeq
    <3> QED
      BY <3>1, <3>3
  <2> HIDE DEF u
  <2>2. ASSUME \A i \in 1 .. m : s[i] = t[i] PROVE u = s
    <3>1. \A i \in 1 .. Len(u) : u[i] = s[i]
      BY <2>1, <2>2
    <3> QED
      BY <2>1, <3>1, SeqEqual, Zenon
  <2>3. ASSUME u = s PROVE \A i \in 1 .. m : s[i] = t[i]
    BY <2>1, <2>3
  <2> QED
    BY <2>2, <2>3 DEF u
<1> QED
  BY <1>2, <1>3 DEF IsPrefix

LowerByte(n) == IF n \in 65 .. 90 THEN n + 32 ELSE n

\* A name in lower case has as many bytes; a dot and a blank stay what they are, and no
\* other byte becomes one.
LEMMA LowerParts ==
    ASSUME NEW b \in Bytes
    PROVE  /\ Lower(b) \in Seq(Nat) /\ Len(Lower(b)) = Len(b)
           /\ \A i \in 1 .. Len(b) :
                 /\ Lower(b)[i] = LowerByte(b[i]) /\ b[i] \in Nat
                 /\ Lower(b)[i] = 46 <=> b[i] = 46
                 /\ Lower(b)[i] \in (9 .. 13) \cup {32} <=> b[i] \in (9 .. 13) \cup {32}
<1> DEFINE n == Len(b)
<1>1. n \in Nat /\ DOMAIN b = 1 .. n /\ \A i \in 1 .. n : b[i] \in Nat
  BY BytesAreNumbers, LenProperties, ElementOfSeq
<1>2. Lower(b) = [i \in 1 .. n |-> LowerByte(b[i])]
  BY <1>1 DEF Lower, LowerByte
<1>3. \A k \in Nat : /\ LowerByte(k) \in Nat /\ (LowerByte(k) = 46 <=> k = 46)
                     /\ (LowerByte(k) \in (9 .. 13) \cup {32} <=> k \in (9 .. 13) \cup {32})
  BY DEF LowerByte
<1> HIDE DEF n
<1>5. \A i \in 1 .. n : Lower(b)[i] = LowerByte(b[i])
  BY <1>2
<1>6. \A i \in 1 .. n : LowerByte(b[i]) \in Nat
  BY <1>1, <1>3
<1>4. Lower(b) \in Seq(Nat) /\ Len(Lower(b)) = n
  <2>1. Lower(b) \in [1 .. n -> Nat]
    BY <1>2, <1>6
  <2>2. Lower(b) \in Seq(Nat) /\ DOMAIN Lower(b) = 1 .. n
    BY <1>1, <2>1, SeqDef
  <2> QED
    BY <1>1, <2>2, LenProperties
<1>7. ASSUME NEW i \in 1 .. n
      PROVE  /\ Lower(b)[i] = LowerByte(b[i]) /\ b[i] \in Nat
             /\ Lower(b)[i] = 46 <=> b[i] = 46
             /\ Lower(b)[i] \in (9 .. 13) \cup {32} <=> b[i] \in (9 .. 13) \cup {32}
  <2> DEFINE k == b[i]
  <2>1. k \in Nat /\ Lower(b)[i] = LowerByte(k)
    BY <1>1, <1>5
  <2> HIDE DEF k
  <2>2. /\ LowerByte(k) = 46 <=> k = 46
        /\ LowerByte(k) \in (9 .. 13) \cup {32} <=> k \in (9 .. 13) \cup {32}
    BY <1>3, <2>1
  <2> QED
    BY <2>1, <2>2 DEF k
<1> QED
  BY <1>4, <1>7, Zenon DEF n

\* Names that differ in case only are blank, or have a dot, both or neither.
LEMMA SameLower ==
    ASSUME NEW a \in Bytes, NEW b \in Bytes, Lower(a) = Lower(b)
    PROVE  (Blank(a) <=> Blank(b)) /\ (46 \in Range(a) <=> 46 \in Range(b))
<1> DEFINE n == Len(a)
           Spaces == (9 .. 13) \cup {32}
<1>1. n = Len(b) /\ n \in Nat
  <2>1. Len(Lower(a)) = Len(a) /\ Len(Lower(b)) = Len(b)
    BY LowerParts
  <2> QED
    BY <2>1, BytesAreNumbers
<1>2. Range(a) = {a[i] : i \in 1 .. n} /\ Range(b) = {b[i] : i \in 1 .. n}
  BY <1>1, LenProperties DEF Range, Bytes
<1>3. \A i \in 1 .. n : (a[i] = 46 <=> b[i] = 46) /\ (a[i] \in Spaces <=> b[i] \in Spaces)
  <2>1. \A i \in 1 .. n : (Lower(a)[i] = 46 <=> a[i] = 46) /\ (Lower(a)[i] \in Spaces <=> a[i] \in Spaces)
    BY LowerParts
  <2>2. \A i \in 1 .. n : (Lower(b)[i] = 46 <=> b[i] = 46) /\ (Lower(b)[i] \in Spaces <=> b[i] \in Spaces)
    BY <1>1, LowerParts
  <2> HIDE DEF Spaces, n
  <2> QED
    BY <2>1, <2>2
<1> HIDE DEF n
<1>4. (Blank(a) <=> \A i \in 1 .. n : a[i] \in Spaces) /\ (Blank(b) <=> \A i \in 1 .. n : b[i] \in Spaces)
  <2>1. (Blank(a) <=> Range(a) \subseteq Spaces) /\ (Blank(b) <=> Range(b) \subseteq Spaces)
    BY DEF Blank
  <2> HIDE DEF Spaces
  <2> QED
    BY <1>2, <2>1
<1> HIDE DEF Spaces
<1> QED
  BY <1>2, <1>3, <1>4

\* A name without a dot stands before the first dot of another, but for the case, exactly if
\* it is that one's prefix.
LEMMA BeforeTheDot ==
    ASSUME NEW name \in Bytes, NEW t \in Bytes, 46 \notin Range(t)
    PROVE  IsPrefix(Append(Lower(t), 46), Lower(name))
              <=> Dots(name) # {} /\ Lower(t) = Lower(Prefix(name))
<1> DEFINE k == Len(t)
           l == Len(name)
           want == Append(Lower(t), 46)
<1>1. k \in Nat /\ l \in Nat
  BY BytesAreNumbers
<1>2. Lower(t) \in Seq(Nat) /\ Len(Lower(t)) = k /\ \A i \in 1 .. k : Lower(t)[i] # 46
  <2>1. Range(t) = {t[i] : i \in 1 .. k}
    BY LenProperties DEF Range, Bytes
  <2>2. \A i \in 1 .. k : t[i] # 46
    BY <2>1
  <2> QED
    BY <2>2, LowerParts
<1>3. /\ Lower(name) \in Seq(Nat) /\ Len(Lower(name)) = l
      /\ \A i \in 1 .. l : Lower(name)[i] = 46 <=> name[i] = 46
      /\ \A i \in 1 .. l : Lower(name)[i] = LowerByte(name[i])
  BY LowerParts
<1>4. /\ want \in Seq(Nat) /\ Len(want) = k + 1 /\ want[k + 1] = 46
      /\ \A i \in 1 .. k : want[i] = Lower(t)[i]
  BY <1>1, <1>2
<1>5. IsPrefix(want, Lower(name))
         <=> k + 1 <= l /\ \A i \in 1 .. k + 1 : want[i] = Lower(name)[i]
  <2> DEFINE low == Lower(name)
  <2> HIDE DEF k, l, want, low
  <2>1. want \in Seq(Nat) /\ low \in Seq(Nat)
    BY <1>3, <1>4 DEF low
  <2>4. \A u, v \in Seq(Nat) :
            IsPrefix(u, v) <=> (Len(u) <= Len(v) /\ \A i \in 1 .. Len(u) : u[i] = v[i])
    BY PrefixElements, Zenon
  <2>2. IsPrefix(want, low) <=> (Len(want) <= Len(low) /\ \A i \in 1 .. Len(want) : want[i] = low[i])
    BY <2>1, <2>4, Zenon
  <2>3. Len(want) = k + 1 /\ Len(low) = l
    BY <1>3, <1>4 DEF low
  <2> QED
    BY <2>2, <2>3, Zenon DEF low
<1>6. Dots(name) = {i \in 1 .. l : name[i] = 46}
  BY LenProperties DEF Dots, Bytes
<1>7. ASSUME Dots(name) # {}
      PROVE  LET m == Min(Dots(name))
             IN  /\ m \in 1 .. l /\ name[m] = 46 /\ \A i \in 1 .. l : name[i] = 46 => m <= i
                 /\ Lower(Prefix(name)) \in Seq(Nat) /\ Len(Lower(Prefix(name))) = m - 1
                 /\ \A i \in 1 .. m - 1 : Lower(Prefix(name))[i] = Lower(name)[i]
  <2> DEFINE m == Min(Dots(name))
             pre == Prefix(name)
  <2>1. /\ m \in 1 .. l /\ name[m] = 46 /\ \A i \in 1 .. l : name[i] = 46 => m <= i
        /\ pre \in Bytes /\ Len(pre) = m - 1 /\ \A i \in 1 .. m - 1 : pre[i] = name[i]
    BY <1>7, PrefixParts
  <2> HIDE DEF m, pre, l
  <2>2. Lower(pre) \in Seq(Nat) /\ Len(Lower(pre)) = m - 1
    BY <2>1, LowerParts
  <2>3. \A i \in 1 .. m - 1 : Lower(pre)[i] = LowerByte(pre[i])
    BY <2>1, LowerParts
  <2>4. \A i \in 1 .. m - 1 : i \in 1 .. l
    BY <1>1, <2>1
  <2>5. \A i \in 1 .. m - 1 : Lower(pre)[i] = Lower(name)[i]
    BY <1>3, <2>1, <2>3, <2>4
  <2> QED
    BY <2>1, <2>2, <2>5 DEF m, pre
<1> HIDE DEF k, l, want
<1>8. ASSUME IsPrefix(want, Lower(name))
      PROVE  Dots(name) # {} /\ Lower(t) = Lower(Prefix(name))
  <2>1. k + 1 <= l /\ \A i \in 1 .. k + 1 : want[i] = Lower(name)[i]
    BY <1>5, <1>8
  <2>2. k + 1 \in 1 .. l /\ k + 1 \in 1 .. k + 1 /\ \A i \in 1 .. k : i \in 1 .. l /\ i \in 1 .. k + 1
    BY <1>1, <2>1
  <2>3. name[k + 1] = 46
    BY <1>3, <1>4, <2>1, <2>2
  <2>4. \A i \in 1 .. k : name[i] # 46
    BY <1>2, <1>3, <1>4, <2>1, <2>2
  <2>5. Dots(name) # {}
    BY <1>6, <2>2, <2>3
  <2> DEFINE m == Min(Dots(name))
             low == Lower(Prefix(name))
  <2>6. /\ m \in 1 .. l /\ name[m] = 46 /\ \A i \in 1 .. l : name[i] = 46 => m <= i
        /\ low \in Seq(Nat) /\ Len(low) = m - 1 /\ \A i \in 1 .. m - 1 : low[i] = Lower(name)[i]
    BY <1>7, <2>5
  <2> HIDE DEF m, low
  <2>7. m = k + 1 /\ m - 1 = k
    <3>1. m <= k + 1
      BY <2>2, <2>3, <2>6
    <3>2. ~ (m \in 1 .. k)
      BY <2>4, <2>6
    <3> QED
      BY <1>1, <2>6, <3>1, <3>2
  <2>8. \A i \in 1 .. k : low[i] = Lower(t)[i]
    BY <1>4, <2>1, <2>2, <2>6, <2>7
  <2>9. low = Lower(t)
    <3>1. Len(Lower(t)) = Len(low) /\ \A i \in 1 .. Len(low) : low[i] = Lower(t)[i]
      BY <1>2, <2>6, <2>7, <2>8
    <3> QED
      BY <1>2, <2>6, <3>1, SeqEqual, Zenon
  <2> QED
    BY <2>5, <2>9 DEF low
<1>9. ASSUME Dots(name) # {}, Lower(t) = Lower(Prefix(name))
      PROVE  IsPrefix(want, Lower(name))
  <2> DEFINE m == Min(Dots(name))
             low == Lower(Prefix(name))
  <2>1. /\ m \in 1 .. l /\ name[m] = 46
        /\ Len(low) = m - 1 /\ \A i \in 1 .. m - 1 : low[i] = Lower(name)[i]
    BY <1>7, <1>9
  <2>2. low = Lower(t)
    BY <1>9
  <2> HIDE DEF m, low
  <2>3. k = m - 1 /\ k + 1 = m
    BY <1>1, <1>2, <2>1, <2>2
  <2>4. ASSUME NEW i \in 1 .. k + 1 PROVE want[i] = Lower(name)[i]
    <3>1. CASE i = k + 1
      BY <1>3, <1>4, <2>1, <2>3, <3>1
    <3>2. CASE i # k + 1
      <4>1. i \in 1 .. k
        BY <1>1, <3>2
      <4> QED
        BY <1>4, <2>1, <2>2, <2>3, <4>1
    <3> QED
      BY <3>1, <3>2
  <2>5. k + 1 <= l
    BY <1>1, <2>1, <2>3
  <2> QED
    BY <1>5, <2>4, <2>5
<1> QED
  BY <1>8, <1>9 DEF want

\* The tenant that was decided on is the packet's; refused is a packet without one.
Decided(p) ==
    /\ pc \in Routed => \E t \in TenantOf(p) : Lower(t) = Lower(tenant)
    /\ pc = "refuse" => TenantOf(p) = {}

\* A packet's tenants are the rows that are the prefix of its user name, unless that is blank.
LEMMA TenantIs ==
    ASSUME NEW p \in Packets, p.user # <<>>, NEW t \in RouteTable
    PROVE  LET name == p.user[1]
           IN  t \in TenantOf(p) <=> /\ Dots(name) # {} /\ ~ Blank(Prefix(name))
                                     /\ Lower(t) = Lower(Prefix(name))
<1> DEFINE name == p.user[1]
           pre == Prefix(name)
<1>1. name \in Bytes /\ Len(p.user) = 1 /\ t \in Bytes
  BY PacketParts, StreamsAssumption
<1>2. t \in TenantOf(p) <=> /\ ~ Blank(t) /\ 46 \notin Range(t)
                            /\ IsPrefix(Append(Lower(t), 46), Lower(name))
  BY <1>1, Zenon DEF TenantOf
<1> HIDE DEF name
<1>3. 46 \notin Range(t) => (IsPrefix(Append(Lower(t), 46), Lower(name))
                              <=> Dots(name) # {} /\ Lower(t) = Lower(pre))
  BY <1>1, BeforeTheDot, Zenon
<1>4. ASSUME Dots(name) # {}, Lower(t) = Lower(pre)
      PROVE  (Blank(t) <=> Blank(pre)) /\ 46 \notin Range(t)
  <2>1. LET m == Min(Dots(name))
        IN  /\ m \in 1 .. Len(name) /\ \A i \in 1 .. Len(name) : name[i] = 46 => m <= i
            /\ pre \in Bytes /\ Len(pre) = m - 1 /\ \A i \in 1 .. m - 1 : pre[i] = name[i]
    BY <1>1, <1>4, PrefixParts
  <2> DEFINE m == Min(Dots(name))
             l == Len(name)
  <2>2. /\ m \in 1 .. l /\ \A i \in 1 .. l : name[i] = 46 => m <= i
        /\ pre \in Bytes /\ Len(pre) = m - 1 /\ \A i \in 1 .. m - 1 : pre[i] = name[i]
    BY <2>1
  <2>3. l \in Nat
    BY <1>1, BytesAreNumbers
  <2> HIDE DEF m, pre, l
  <2>4. \A i \in 1 .. m - 1 : pre[i] # 46
    BY <2>2, <2>3
  <2>5. Range(pre) = {pre[i] : i \in 1 .. m - 1}
    BY <2>2, LenProperties DEF Range, Bytes
  <2>6. 46 \notin Range(pre)
    BY <2>4, <2>5
  <2>7. Lower(t) = Lower(pre)
    BY <1>4 DEF pre
  <2>8. (Blank(t) <=> Blank(pre)) /\ (46 \in Range(t) <=> 46 \in Range(pre))
    BY <1>1, <2>2, <2>7, SameLower, Zenon
  <2> QED
    BY <2>6, <2>8, Zenon DEF pre
<1> QED
  BY <1>2, <1>3, <1>4, Zenon DEF name

\* The decision on a packet's user name is the packet's: its tenant's backend, or the refusal.
LEMMA DecideRight ==
    ASSUME NEW p \in Packets, p.user # <<>>, Decide(p.user[1]) PROVE Decided(p)'
<1> DEFINE name == p.user[1]
           pre == Prefix(name)
<1>1. \A t \in RouteTable : t \in TenantOf(p) <=> /\ Dots(name) # {} /\ ~ Blank(pre)
                                                  /\ Lower(t) = Lower(pre)
  BY TenantIs, Zenon
<1>2. TenantOf(p) \subseteq RouteTable
  BY DEF TenantOf
<1>3. /\ tenant' = IF Dots(name) = {} \/ Blank(pre) THEN <<>> ELSE pre
      /\ pc' = IF Dots(name) = {} \/ Blank(pre) \/ ~ HasBackend(pre) THEN "refuse" ELSE "connect"
  BY DEF Decide, Dots, Prefix
<1>4. HasBackend(pre) <=> \E t \in RouteTable : Lower(t) = Lower(pre)
  BY Zenon DEF HasBackend
<1>5. Decided(p)' <=> /\ pc' \in Routed => \E t \in TenantOf(p) : Lower(t) = Lower(tenant')
                      /\ pc' = "refuse" => TenantOf(p) = {}
  BY DEF Decided, TenantOf, Lower, Blank
<1> HIDE DEF name, pre
<1>6. CASE Dots(name) = {} \/ Blank(pre) \/ ~ HasBackend(pre)
  <2>1. pc' = "refuse" /\ pc' \notin Routed
    BY <1>3, <1>6 DEF Routed
  <2>2. TenantOf(p) = {}
    BY <1>1, <1>2, <1>4, <1>6
  <2> QED
    BY <1>5, <2>1, <2>2
<1>7. CASE ~ (Dots(name) = {} \/ Blank(pre) \/ ~ HasBackend(pre))
  <2>1. pc' = "connect" /\ tenant' = pre
    BY <1>3, <1>7
  <2>2. \E t \in TenantOf(p) : Lower(t) = Lower(pre)
    BY <1>1, <1>4, <1>7
  <2> QED
    BY <1>5, <2>1, <2>2
<1> QED
  BY <1>6, <1>7

\* A packet without a user name is refused, and has no tenant.
LEMMA DecideNone ==
    ASSUME NEW p \in Packets, p.user = <<>>, Decide(<<>>) PROVE Decided(p)'
<1>1. {i \in DOMAIN <<>> : <<>>[i] = 46} = {}
  OBVIOUS
<1>2. pc' = "refuse"
  BY <1>1 DEF Decide
<1>3. Len(p.user) # 1
  BY PacketParts
<1>4. TenantOf(p) = {}
  BY <1>3, Zenon DEF TenantOf
<1> QED
  BY <1>2, <1>4 DEF Decided, Routed, TenantOf, Lower, Blank

-----------------------------------------------------------------------------
(* The decoder is where the packet has what it looks for.                  *)

\* The position that each field is awaited at, and what is known of the packet by then.
Position(p) ==
    /\ pc = "length" => at \in 1 .. 4 /\ at < NameAt(p) /\ need = at + 2
    /\ pc \in {"body", "name"} => at = NameAt(p)
    /\ pc = "properties" => at = PropsAt(p) /\ p.level = 5
    /\ pc \in {"skip", "id"} => at = IdAt(p)
    /\ pc \in {"afterId", "will"} => at = WillAt(p)
    /\ pc \in {"will", "willMessage"} => p.will # <<>>
    /\ pc = "willMessage" => at = WillAt(p) + Len(Field(p.will[1].topic))
    /\ pc = "user" => at = UserAt(p)
    /\ pc = "userName" => at = UserAt(p) + 2 /\ need = at + Len(p.user[1])
    /\ pc \in {"user", "userName"} => p.user # <<>>

\* What was decoded is the packet's.
Placed(p) ==
    /\ StandsAt(stream, 0, Encode(p))
    /\ pc \notin {"type", "length", "done"} => total = EndOf(p)
    /\ pc \in Fields \ {"type", "length", "body", "name"} => level = p.level /\ flags = Flags(p)
    /\ Position(p)
    /\ Decided(p)

\* A packet that the decoder knows is decoded as it was written.
OnTheWay == \A p \in Range(packet) : Known(p) => Placed(p)

\* The parts of the packet at the start of a stream.
LEMMA PartsInPlace ==
    ASSUME Positions, NEW p \in Packets, StandsAt(stream, 0, Encode(p))
    PROVE  /\ StandsAt(stream, 1, VarInt(Len(RemainingBytes(p))))
           /\ StandsAt(stream, NameAt(p), Field(ProtocolName(p)))
           /\ StandsAt(stream, LevelAt(p), Four(p))
           /\ StandsAt(stream, PropsAt(p), Properties(p, p.props))
           /\ StandsAt(stream, IdAt(p), Field(p.id))
           /\ StandsAt(stream, WillAt(p), Will(p))
           /\ StandsAt(stream, UserAt(p), Optional(p.user))
<1>1. stream \in Bytes
  BY DEF Positions
<1>2. /\ StandsAt(stream, 1, VarInt(Len(RemainingBytes(p))))
      /\ StandsAt(stream, NameAt(p), RemainingBytes(p))
  BY <1>1, PacketLayout, Zenon
<1> QED
  BY <1>1, <1>2, BodyLayout, Zenon

\* Where the parts end: each within the packet, which has arrived.
LEMMA PartsHaveArrived ==
    ASSUME IInv, NEW p \in Packets, Placed(p),
           pc \in Fields \ {"type", "length", "body"}
    PROVE  /\ {NameAt(p), LevelAt(p), PropsAt(p), IdAt(p), WillAt(p), UserAt(p)} \subseteq Nat
           /\ NameAt(p) <= LevelAt(p) /\ LevelAt(p) <= PropsAt(p) /\ PropsAt(p) <= IdAt(p)
           /\ IdAt(p) <= WillAt(p) /\ WillAt(p) <= UserAt(p) /\ UserAt(p) <= read
           /\ UserAt(p) + Len(Optional(p.user)) <= read /\ read \in Nat
<1>1. total = EndOf(p) /\ total <= read /\ total \in Nat /\ read \in Nat
  BY StreamIsNumbers DEF Placed, IInv, Ordered, Positions, ConnectArrived, Fields
<1>2. Len(Optional(p.user)) \in Nat
  BY PartsAreBytes, BytesAreNumbers
<1> DEFINE w == Len(Optional(p.user))
           e == EndOf(p)
           u == UserAt(p)
<1>3. w \in Nat /\ e \in Nat /\ e <= read /\ read \in Nat /\ u \in Nat /\ u + w <= e
  BY <1>1, <1>2, BodyLayout
<1> HIDE DEF w, e, u
<1>4. u <= read /\ u + w <= read
  BY <1>3
<1> QED
  BY <1>1, <1>4, BodyLayout DEF w, u

\* From one field of the packet to the next one.
LEMMA NextField ==
    ASSUME NEW p, Placed(p), pc \in Fields \ {"type", "length"},
           pc' \in Fields \ {"type", "length", "body"}, UNCHANGED <<stream, total>>,
           pc' # "name" => level' = p.level /\ flags' = Flags(p), Position(p)'
    PROVE  Placed(p)'
<1>1. StandsAt(stream', 0, Encode(p)) /\ total' = EndOf(p)
  BY DEF Placed, Fields
<1>2. pc' \notin Routed /\ pc' # "refuse"
  BY DEF Routed, Fields
<1>3. Decided(p)'
  BY <1>2 DEF Decided
<1> QED
  BY <1>1, <1>3 DEF Placed, Fields

\* The decoding given up: nothing is said of the packet any more.
LEMMA NoField == ASSUME NEW p, Placed(p), pc' = "done", stream' = stream PROVE Placed(p)'
  BY DEF Placed, Position, Decided, Routed, Fields

\* The kind of the packet, and the length of the rest.
LEMMA TypePlaced ==
    ASSUME IInv, NEW p \in Packets, Placed(p), Type PROVE Placed(p)'
<1>1. StandsAt(stream, 0, Encode(p)) /\ stream' = stream
  BY DEF Placed, Type, Return, Await, input
<1>2. pc' = "done" \/ (pc' = "length" /\ at' = 1 /\ need' = 3)
  BY DEF Type, Return, Await
<1>3. CASE pc' = "done"
  BY <1>1, <1>3, NoField
<1>4. CASE pc' = "length" /\ at' = 1 /\ need' = 3
  <2>1. 1 < NameAt(p)
    <3>1. RemainingBytes(p) \in Bytes /\ Len(RemainingBytes(p)) < FourGroups
      BY BodyLayout, PacketParts
    <3>2. Len(RemainingBytes(p)) \in Nat
      BY <3>1, BytesAreNumbers
    <3>3. Len(VarInt(Len(RemainingBytes(p)))) \in 1 .. 4
      BY <3>1, <3>2, VarIntParts
    <3> DEFINE w == Len(VarInt(Len(RemainingBytes(p))))
    <3>4. w \in 1 .. 4 /\ NameAt(p) = 1 + w
      BY <3>3, Zenon DEF NameAt
    <3> HIDE DEF w
    <3> QED
      BY <3>4
  <2>2. Position(p)'
    BY <1>4, <2>1 DEF Position
  <2> QED
    BY <1>1, <1>4, <2>2 DEF Placed, Decided, Routed
<1> QED
  BY <1>2, <1>3, <1>4

\* The groups of the length, one after another: the last one ends it where the rest begins.
LEMMA LengthPlaced ==
    ASSUME IInv, NEW p \in Packets, Placed(p), Length PROVE Placed(p)'
<1> DEFINE n == Len(RemainingBytes(p))
           w == Len(VarInt(n))
<1>1. StandsAt(stream, 0, Encode(p)) /\ stream' = stream
  BY DEF Placed, Length, Return, Await, input
<1>2. Positions /\ pc = "length" /\ read \in Nat /\ read >= need
  BY StreamIsNumbers DEF IInv, Ordered, Positions, Length, Ready
<1>3. at \in 1 .. 4 /\ at < NameAt(p) /\ need = at + 2
  BY <1>2 DEF Placed, Position
<1>4. n \in Nat /\ n < FourGroups
  BY BodyLayout, PacketParts, BytesAreNumbers
<1>5. NameAt(p) = 1 + w /\ EndOf(p) = NameAt(p) + n
  BY Zenon DEF NameAt, EndOf
<1>6. StandsAt(stream, 1, VarInt(n))
  BY <1>1, <1>2, PartsInPlace, Zenon
<1>7. /\ w \in 1 .. 4
      /\ \A k \in 1 .. w : 1 + k <= read => (Buffer(1 + k - 1) < 128 <=> k = w)
      /\ w <= 3 /\ 1 + w <= read => VarIntAt(1, w) = n
  <2>1. 1 \in Nat
    OBVIOUS
  <2> QED
    BY <1>2, <1>4, <1>6, <2>1, VarIntRead
<1> HIDE DEF n, w
<1>8. Buffer(at) \in Nat /\ (Buffer(at) < 128 <=> at = w)
  <2>1. at \in 1 .. w /\ 1 + at <= read /\ 1 + at - 1 = at /\ at \in Nat
    BY <1>2, <1>3, <1>5, <1>7
  <2>2. Buffer(1 + at - 1) < 128 <=> at = w
    BY <1>7, <2>1
  <2> QED
    BY <1>2, <2>1, <2>2, BufferHoldsBytes
<1>9. CASE at = 4
  <2>1. pc' = "done"
    BY <1>9 DEF Length, Return
  <2> QED
    BY <1>1, <2>1, NoField
<1>10. CASE at # 4 /\ Buffer(at) >= 128
  <2>1. pc' = "length" /\ at' = at + 1 /\ need' = at + 3
    BY <1>10 DEF Length, Await
  <2>2. at # w
    BY <1>8, <1>10
  <2>3. at' \in 1 .. 4 /\ at' < NameAt(p) /\ need' = at' + 2
    BY <1>3, <1>5, <1>7, <1>10, <2>1, <2>2
  <2>4. Position(p)'
    BY <2>1, <2>3 DEF Position
  <2> QED
    BY <1>1, <2>1, <2>4 DEF Placed, Decided, Routed
<1>11. CASE at # 4 /\ ~ (Buffer(at) >= 128)
  <2>1. /\ pc' = "body" /\ at' = at + 1 /\ total' = at + 1 + VarIntAt(1, at)
    BY <1>11 DEF Length, Await
  <2>2. at = w /\ w <= 3 /\ 1 + w <= read
    BY <1>2, <1>3, <1>8, <1>11
  <2>3. VarIntAt(1, at) = n
    BY <1>7, <2>2
  <2>4. at' = NameAt(p) /\ total' = EndOf(p)
    BY <1>4, <1>5, <1>7, <2>1, <2>2, <2>3
  <2>5. Position(p)'
    BY <2>1, <2>4 DEF Position
  <2> QED
    BY <1>1, <2>1, <2>4, <2>5 DEF Placed, Decided, Routed, Fields
<1> QED
  BY <1>9, <1>10, <1>11

\* The rest that has arrived.
LEMMA BodyPlaced ==
    ASSUME IInv, NEW p \in Packets, Placed(p), Body PROVE Placed(p)'
<1>1. /\ pc = "body" /\ pc' = "name" /\ at' = at
      /\ UNCHANGED <<stream, total>>
  BY DEF Body, Ready, Await, input, header
<1>2. Position(p)'
  BY <1>1 DEF Placed, Position
<1> QED
  BY <1>1, <1>2, NextField DEF Fields

\* The protocol's name and level.
LEMMA NamePlaced ==
    ASSUME IInv, NEW p \in Packets, Placed(p), Name PROVE Placed(p)'
<1> DEFINE name == ProtocolName(p)
           end == at + 2 + BE16(at)
<1>1. StandsAt(stream, 0, Encode(p)) /\ UNCHANGED <<stream, total>>
  BY DEF Placed, Name, Return, Await, input, header
<1>2. Positions /\ pc = "name" /\ stream \in Bytes
  BY DEF IInv, Ordered, Positions, Name, Ready
<1>3. at = NameAt(p)
  BY <1>2 DEF Placed, Position
<1>4. /\ {NameAt(p), LevelAt(p), PropsAt(p), IdAt(p)} \subseteq Nat /\ PropsAt(p) <= read
      /\ NameAt(p) <= LevelAt(p) /\ LevelAt(p) <= PropsAt(p) /\ read \in Nat
  <2>1. pc \in Fields \ {"type", "length", "body"}
    BY <1>2 DEF Fields
  <2> DEFINE a == PropsAt(p)
             b == IdAt(p)
             c == WillAt(p)
             d == UserAt(p)
  <2>2. /\ {a, b, c, d} \subseteq Nat /\ a <= b /\ b <= c /\ c <= d /\ d <= read /\ read \in Nat
    BY <2>1, PartsHaveArrived
  <2> HIDE DEF a, b, c, d
  <2>3. a <= read
    BY <2>2
  <2> QED
    BY <2>1, <2>3, PartsHaveArrived DEF a
<1>5. name \in Bytes /\ Short(name) /\ name \in {MQTT, MQIsdp} /\ (name = MQTT <=> p.level # 3)
  BY NameParts
<1>6. LevelAt(p) = at + 2 + Len(name) /\ PropsAt(p) = LevelAt(p) + 4
  <2>1. Len(Field(name)) = 2 + Len(name) /\ Len(name) \in Nat
    BY <1>5, FieldParts, BytesAreNumbers
  <2> DEFINE l == Len(name)
  <2>2. LevelAt(p) = at + (2 + l) /\ l \in Nat
    BY <1>3, <2>1 DEF LevelAt
  <2> HIDE DEF l
  <2>3. LevelAt(p) = at + 2 + l
    BY <1>3, <1>4, <2>2
  <2> QED
    BY <2>3, Zenon DEF PropsAt, l
<1>7. BE16(at) = Len(name) /\ Slice(at + 2, Len(name)) = name
  <2>1. StandsAt(stream, at, Field(name))
    BY <1>1, <1>2, <1>3, PartsInPlace, Zenon
  <2>2. at \in Nat /\ at + 2 + Len(name) <= read
    BY <1>3, <1>4, <1>6
  <2> HIDE DEF name
  <2> QED
    BY <1>2, <1>5, <2>1, <2>2, FieldRead
<1>8. end = LevelAt(p) /\ Slice(at + 2, BE16(at)) = name
  BY <1>6, <1>7
<1>9. Buffer(end) = p.level /\ Buffer(end + 1) = Flags(p)
  <2> DEFINE l == LevelAt(p)
  <2>1. l \in Nat /\ l < read /\ l + 1 \in Nat /\ l + 1 < read /\ (l + 1) + 1 = l + 2
    BY <1>4, <1>6
  <2>2. StandsAt(stream, l, Four(p))
    BY <1>1, <1>2, PartsInPlace, Zenon
  <2>3. Len(Four(p)) = 4 /\ Four(p)[1] = p.level /\ Four(p)[2] = Flags(p)
    BY DEF Four
  <2>4. 1 \in 1 .. Len(Four(p)) /\ 2 \in 1 .. Len(Four(p))
    BY <2>3
  <2>5. stream[l + 1] = p.level /\ stream[l + 2] = Flags(p)
    BY <2>2, <2>3, <2>4, Zenon DEF StandsAt
  <2> HIDE DEF l
  <2>6. Buffer(l) = stream[l + 1] /\ Buffer(l + 1) = stream[(l + 1) + 1]
    BY <1>2, <2>1, InBuffer
  <2>7. Buffer(l) = p.level /\ Buffer(l + 1) = Flags(p)
    BY <2>1, <2>5, <2>6
  <2> QED
    BY <1>8, <2>7 DEF l
<1>10. /\ level' = p.level /\ flags' = Flags(p)
       /\ IF name = MQTT /\ p.level = 5 THEN Await("properties", end + 4, end + 8)
          ELSE Await("id", end + 4, end + 6)
  BY <1>5, <1>8, <1>9 DEF Name
<1> HIDE DEF name, end
<1>11. CASE p.level = 5
  <2>1. name = MQTT
    BY <1>5, <1>11
  <2>2. pc' = "properties" /\ at' = end + 4
    BY <1>10, <1>11, <2>1 DEF Await
  <2>3. at' = PropsAt(p)
    BY <1>6, <1>8, <2>2
  <2>4. Position(p)'
    BY <1>11, <2>2, <2>3 DEF Position
  <2> QED
    BY <1>1, <1>2, <1>10, <2>2, <2>4, NextField DEF Fields
<1>12. CASE p.level # 5
  <2>1. pc' = "id" /\ at' = end + 4
    BY <1>10, <1>12 DEF Await
  <2>2. IdAt(p) = PropsAt(p)
    <3>1. Properties(p, p.props) = <<>>
      BY <1>12, PacketParts, PropertiesParts
    <3>2. Len(<<>>) = 0
      BY NoBytes
    <3>3. IdAt(p) = PropsAt(p) + 0
      BY <3>1, <3>2, Zenon DEF IdAt
    <3> QED
      BY <1>4, <3>3
  <2>3. at' = IdAt(p)
    BY <1>6, <1>8, <2>1, <2>2
  <2>4. Position(p)'
    BY <2>1, <2>3 DEF Position
  <2> QED
    BY <1>1, <1>2, <1>10, <2>1, <2>4, NextField DEF Fields
<1> QED
  BY <1>11, <1>12

\* The properties of version 5: a length of more than three groups ends the decoding.
LEMMA PropertiesPlaced ==
    ASSUME IInv, NEW p \in Packets, Placed(p), PropertiesLength PROVE Placed(p)'
<1> DEFINE n == Len(p.props)
           w == Len(VarInt(n))
           widths == {k \in 1 .. 3 : Buffer(at + k - 1) < 128}
           start == at + Min(widths) + VarIntAt(at, Min(widths))
<1>1. /\ StandsAt(stream, 0, Encode(p)) /\ UNCHANGED <<stream, total, level, flags>>
      /\ pc = "properties" /\ level = p.level /\ flags = Flags(p)
  BY DEF Placed, PropertiesLength, Ready, Return, Await, input, header, Fields
<1>2. Positions
  BY DEF IInv, Ordered
<1>3. at = PropsAt(p) /\ p.level = 5
  BY <1>1 DEF Placed, Position
<1>4. n \in Nat /\ n < FourGroups /\ p.props \in Bytes
  BY PacketParts, BytesAreNumbers
<1>5. Properties(p, p.props) = VarInt(n) \o p.props /\ VarInt(n) \in Bytes
  <2>1. VarInt(n) \in Bytes
    BY <1>4, VarIntParts
  <2>2. Properties(p, p.props) = VarInt(n) \o p.props
    BY <1>3, Zenon DEF Properties
  <2> QED
    BY <2>1, <2>2, Zenon
<1>6. w \in 1 .. 4
  BY <1>4, VarIntParts
<1>7. PropsAt(p) \in Nat /\ IdAt(p) = at + w + n /\ IdAt(p) <= read /\ read \in Nat
  <2>1. Len(VarInt(n) \o p.props) = w + n
    BY <1>4, <1>5, BytesInARow, Zenon
  <2>2. IdAt(p) = at + (w + n)
    BY <1>3, <1>5, <2>1, Zenon DEF IdAt
  <2> DEFINE a == PropsAt(p)
             b == IdAt(p)
             c == WillAt(p)
             d == UserAt(p)
  <2>3. {a, b, c, d} \subseteq Nat /\ b <= c /\ c <= d /\ d <= read /\ read \in Nat
    <3>1. pc \in Fields \ {"type", "length", "body"}
      BY <1>1 DEF Fields
    <3> QED
      BY <3>1, PartsHaveArrived
  <2> HIDE DEF a, b, c, d, n, w
  <2>4. b <= read /\ a \in Nat
    BY <2>3
  <2>5. b = at + w + n
    BY <1>3, <1>4, <1>6, <2>2, <2>3 DEF a, b
  <2> QED
    BY <2>3, <2>4, <2>5 DEF a, b
<1>8. StandsAt(stream, at, VarInt(n))
  <2>1. StandsAt(stream, at, VarInt(n) \o p.props)
    BY <1>1, <1>2, <1>3, <1>5, PartsInPlace, Zenon
  <2>2. stream \in Bytes /\ at \in Nat
    BY <1>2, <1>3, <1>7 DEF Positions
  <2> QED
    BY <1>4, <1>5, <2>1, <2>2, BytesStandInARow, Zenon
<1>9. /\ \A k \in 1 .. w : at + k <= read => (Buffer(at + k - 1) < 128 <=> k = w)
      /\ w <= 3 /\ at + w <= read => VarIntAt(at, w) = n
  <2>1. at \in Nat
    BY <1>3, <1>7
  <2> QED
    BY <1>2, <1>4, <1>8, <2>1, VarIntRead
<1> HIDE DEF n, w
<1>10. at \in Nat /\ \A k \in 1 .. w : at + k <= read
  BY <1>3, <1>4, <1>6, <1>7
<1>11. \A k \in 1 .. w : Buffer(at + k - 1) < 128 <=> k = w
  BY <1>9, <1>10
<1>12. CASE widths = {}
  <2>1. pc' = "done"
    BY <1>12 DEF PropertiesLength, Return
  <2> QED
    BY <1>1, <2>1, NoField
<1>13. CASE widths # {}
  <2>1. w <= 3
    <3>1. CASE w = 4
      <4>1. \A k \in 1 .. 3 : k \in 1 .. w /\ k # w
        BY <3>1
      <4>2. \A k \in 1 .. 3 : ~ (Buffer(at + k - 1) < 128)
        BY <1>11, <4>1
      <4> QED
        BY <1>13, <4>2
    <3> QED
      BY <1>6, <3>1
  <2>2. w \in widths /\ \A k \in widths : w <= k
    <3>1. w \in 1 .. 3 /\ w \in 1 .. w
      BY <1>6, <2>1
    <3>2. w \in widths
      BY <1>11, <3>1
    <3>3. ASSUME NEW k \in widths, ~ (w <= k) PROVE FALSE
      <4>1. k \in 1 .. w /\ k # w
        BY <1>6, <3>3
      <4>2. Buffer(at + k - 1) < 128
        BY <3>3
      <4> QED
        BY <1>11, <4>1, <4>2
    <3> QED
      BY <3>2, <3>3
  <2>3. Min(widths) = w
    <3>1. widths \in SUBSET Nat
      OBVIOUS
    <3>2. widths \subseteq 1 .. 3
      OBVIOUS
    <3> HIDE DEF widths
    <3>3. Min(widths) \in widths /\ \A k \in widths : Min(widths) <= k
      BY <1>13, <3>1, LeastOf
    <3>4. Min(widths) <= w /\ w <= Min(widths) /\ Min(widths) \in Nat /\ w \in Nat
      BY <2>2, <3>1, <3>3
    <3> QED
      BY <3>4
  <2>4. w \in 1 .. w
    BY <1>6
  <2>5. start = IdAt(p)
    BY <1>7, <1>9, <1>10, <2>1, <2>3, <2>4
  <2>6. pc' = "skip" /\ at' = start
    BY <1>13 DEF PropertiesLength, Await
  <2>7. Position(p)'
    BY <2>5, <2>6 DEF Position
  <2> QED
    BY <1>1, <2>6, <2>7, NextField DEF Fields
<1> QED
  BY <1>12, <1>13

\* The properties are behind.
LEMMA SkipPlaced ==
    ASSUME IInv, NEW p \in Packets, Placed(p), SkipProperties PROVE Placed(p)'
<1>1. /\ pc = "skip" /\ pc' = "id" /\ at' = at /\ UNCHANGED <<stream, total, level, flags>>
      /\ level = p.level /\ flags = Flags(p)
  BY DEF Placed, SkipProperties, Ready, Await, input, header, Fields
<1>2. Position(p)'
  BY <1>1 DEF Placed, Position
<1> QED
  BY <1>1, <1>2, NextField DEF Fields

\* A field whose length is read at its position.
LEMMA FieldInPlace ==
    ASSUME IInv, NEW b \in Bytes, Short(b), NEW i \in Nat,
           StandsAt(stream, i, Field(b)), i + Len(Field(b)) <= read
    PROVE  /\ BE16(i) = Len(b) /\ Slice(i + 2, Len(b)) = b
           /\ i + 2 + Len(b) = i + Len(Field(b))
<1> DEFINE l == Len(b)
           f == Len(Field(b))
<1>1. l \in Nat /\ f = 2 + l
  BY BytesAreNumbers, FieldParts
<1>2. i + f <= read
  OBVIOUS
<1> HIDE DEF l, f
<1>3. i + 2 + l = i + f
  BY <1>1
<1>4. i + 2 + l <= read
  BY <1>2, <1>3
<1>5. BE16(i) = Len(b) /\ Slice(i + 2, Len(b)) = b
  BY <1>4, FieldRead, Zenon DEF l, IInv, Ordered
<1> QED
  BY <1>3, <1>5 DEF l, f

\* The client's id ends where the will is, if there is one.
LEMMA ClientIdPlaced ==
    ASSUME IInv, NEW p \in Packets, Placed(p), ClientId PROVE Placed(p)'
<1>1. /\ pc = "id" /\ pc' = "afterId" /\ at' = at + 2 + BE16(at)
      /\ UNCHANGED <<stream, total, level, flags>>
      /\ level = p.level /\ flags = Flags(p) /\ StandsAt(stream, 0, Encode(p))
  BY DEF Placed, ClientId, Ready, Await, input, header, Fields
<1>2. at = IdAt(p)
  BY <1>1 DEF Placed, Position
<1>3. IdAt(p) \in Nat /\ WillAt(p) <= read
  <2> DEFINE b == IdAt(p)
             c == WillAt(p)
             d == UserAt(p)
  <2>1. {b, c, d} \subseteq Nat /\ c <= d /\ d <= read /\ read \in Nat
    <3>1. pc \in Fields \ {"type", "length", "body"}
      BY <1>1 DEF Fields
    <3> QED
      BY <3>1, PartsHaveArrived
  <2> HIDE DEF b, c, d
  <2>2. b \in Nat /\ c <= read
    BY <2>1
  <2> QED
    BY <2>2 DEF b, c
<1>4. StandsAt(stream, at, Field(p.id))
  BY <1>1, <1>2, PartsInPlace, Zenon DEF IInv, Ordered
<1>5. BE16(at) = Len(p.id) /\ at + 2 + Len(p.id) = WillAt(p)
  <2>1. p.id \in Bytes /\ Short(p.id) /\ WillAt(p) = at + Len(Field(p.id))
    BY <1>2, PacketParts, Zenon DEF WillAt
  <2>2. at \in Nat /\ at + Len(Field(p.id)) <= read
    BY <1>2, <1>3, <2>1, Zenon
  <2> QED
    BY <1>4, <2>1, <2>2, FieldInPlace, Zenon
<1>6. at' = WillAt(p)
  BY <1>1, <1>5
<1>7. Position(p)'
  BY <1>1, <1>6 DEF Position
<1> QED
  BY <1>1, <1>7, NextField DEF Fields

\* Behind the client's id and the will: the user name, or the refusal of a packet without.
LEMMA UserNextPlaced ==
    ASSUME IInv, NEW p \in Packets, Placed(p), pc \in {"afterId", "willMessage"},
           UserNext(UserAt(p))
    PROVE  Placed(p)'
<1>1. /\ UNCHANGED <<stream, total, level, flags>>
      /\ level = p.level /\ flags = Flags(p) /\ StandsAt(stream, 0, Encode(p)) /\ total = EndOf(p)
  BY DEF Placed, UserNext, Decide, Await, input, header, Fields
<1>2. HasUser <=> p.user # <<>>
  BY <1>1, FlagsParts DEF HasUser
<1>3. CASE HasUser
  <2>1. pc' = "user" /\ at' = UserAt(p)
    BY <1>3 DEF UserNext, Await
  <2>2. Position(p)'
    BY <1>2, <1>3, <2>1 DEF Position
  <2> QED
    BY <1>1, <2>1, <2>2, NextField DEF Fields
<1>4. CASE ~ HasUser
  <2>1. Decide(<<>>)
    BY <1>4 DEF UserNext
  <2>2. Decided(p)'
    BY <1>2, <1>4, <2>1, DecideNone
  <2>3. pc' \in {"refuse", "connect"}
    BY <2>1 DEF Decide
  <2>4. Position(p)'
    BY <2>3 DEF Position
  <2> QED
    BY <1>1, <2>2, <2>3, <2>4 DEF Placed, Fields
<1> QED
  BY <1>3, <1>4

\* The will, of a version without properties of its own.
LEMMA WillLayout ==
    ASSUME NEW p \in Packets, Known(p), p.will # <<>>
    PROVE  LET topic == p.will[1].topic
               message == p.will[1].message
           IN  /\ topic \in Bytes /\ Short(topic) /\ message \in Bytes /\ Short(message)
               /\ Field(topic) \in Bytes /\ Field(message) \in Bytes
               /\ Len(Will(p)) = Len(Field(topic)) + Len(Field(message))
               /\ \A s \in Bytes, i \in Nat : StandsAt(s, i, Will(p)) =>
                     /\ StandsAt(s, i, Field(topic))
                     /\ StandsAt(s, i + Len(Field(topic)), Field(message))
<1> DEFINE topic == p.will[1].topic
           message == p.will[1].message
           a == Field(topic)
           b == Field(message)
<1>1. topic \in Bytes /\ Short(topic) /\ message \in Bytes /\ Short(message)
  BY PacketParts
<1>2. a \in Bytes /\ b \in Bytes
  BY <1>1, FieldParts
<1>3. Will(p) = a \o b
  <2>1. p.level # 5
    BY DEF Known
  <2>2. Properties(p, <<>>) = <<>>
    BY <2>1 DEF Properties
  <2>3. Will(p) = (<<>> \o a) \o b
    BY <2>2, Zenon DEF Will
  <2>4. <<>> \o a = a
    <3> HIDE DEF a
    <3> QED
      BY <1>2, ConcatEmptySeq DEF Bytes
  <2> QED
    BY <2>3, <2>4, Zenon
<1> HIDE DEF topic, message, a, b
<1>4. Len(a \o b) = Len(a) + Len(b)
  BY <1>2, BytesInARow, Zenon
<1>5. \A s \in Bytes, i \in Nat : StandsAt(s, i, a \o b) => StandsAt(s, i, a) /\ StandsAt(s, i + Len(a), b)
  BY <1>2, BytesStandInARow, Zenon
<1> QED
  BY <1>1, <1>2, <1>3, <1>4, <1>5, Zenon DEF topic, message, a, b

\* The flags say truly whether a will is to be skipped.
LEMMA AfterIdPlaced ==
    ASSUME IInv, NEW p \in Packets, Placed(p), AfterId PROVE Placed(p)'
<1>1. pc = "afterId"
  BY DEF AfterId, Ready
<1>2. at = WillAt(p) /\ level = p.level /\ flags = Flags(p)
  BY <1>1 DEF Placed, Position, Fields
<1>3. HasWill <=> p.will # <<>>
  BY <1>2, FlagsParts DEF HasWill
<1>4. CASE HasWill
  <2>1. pc' = "will" /\ at' = at /\ UNCHANGED <<stream, total, level, flags>>
    BY <1>4 DEF AfterId, Await, input, header
  <2>2. Position(p)'
    BY <1>2, <1>3, <1>4, <2>1 DEF Position
  <2> QED
    BY <1>1, <1>2, <2>1, <2>2, NextField DEF Fields
<1>5. CASE ~ HasWill
  <2>1. Will(p) = <<>> /\ Len(<<>>) = 0
    BY <1>3, <1>5, NoBytes DEF Will
  <2>2. UserAt(p) = WillAt(p)
    <3>1. UserAt(p) = WillAt(p) + 0
      BY <2>1, Zenon DEF UserAt
    <3>2. WillAt(p) \in Nat
      BY BodyLayout
    <3> QED
      BY <3>1, <3>2
  <2>3. UserNext(UserAt(p))
    BY <1>2, <1>5, <2>2 DEF AfterId
  <2> QED
    BY <1>1, <2>3, UserNextPlaced
<1> QED
  BY <1>4, <1>5

\* Where the will's parts are, and that they have arrived.
LEMMA WillHasArrived ==
    ASSUME IInv, NEW p \in Packets, Known(p), Placed(p), pc \in {"will", "willMessage"}
    PROVE  LET topic == Field(p.will[1].topic)
               message == Field(p.will[1].message)
               next == WillAt(p) + Len(topic)
           IN  /\ WillAt(p) \in Nat /\ next \in Nat /\ next <= read
               /\ UserAt(p) = next + Len(message) /\ UserAt(p) <= read
               /\ StandsAt(stream, WillAt(p), topic) /\ StandsAt(stream, next, message)
<1> DEFINE topic == Field(p.will[1].topic)
           message == Field(p.will[1].message)
           next == WillAt(p) + Len(topic)
<1>1. p.will # <<>> /\ StandsAt(stream, 0, Encode(p))
  BY DEF Placed, Position
<1>2. /\ WillAt(p) \in Nat /\ UserAt(p) <= read /\ UserAt(p) \in Nat /\ read \in Nat
  <2>1. pc \in Fields \ {"type", "length", "body"}
    BY DEF Fields
  <2> QED
    BY <2>1, PartsHaveArrived
<1>3. topic \in Bytes /\ message \in Bytes /\ Len(Will(p)) = Len(topic) + Len(message)
  BY <1>1, WillLayout, Zenon
<1>4. Len(topic) \in Nat /\ Len(message) \in Nat
  BY <1>3, BytesAreNumbers
<1>5. UserAt(p) = WillAt(p) + (Len(topic) + Len(message))
  BY <1>3, Zenon DEF UserAt
<1>6. StandsAt(stream, WillAt(p), Will(p)) /\ stream \in Bytes
  BY <1>1, PartsInPlace, Zenon DEF IInv, Ordered, Positions
<1>7. StandsAt(stream, WillAt(p), topic) /\ StandsAt(stream, next, message)
  BY <1>1, <1>2, <1>6, WillLayout, Zenon
<1> DEFINE a == WillAt(p)
           x == Len(topic)
           y == Len(message)
           u == UserAt(p)
<1>8. a \in Nat /\ x \in Nat /\ y \in Nat /\ u = a + (x + y) /\ u <= read /\ read \in Nat
  BY <1>2, <1>4, <1>5
<1> HIDE DEF a, x, y, u
<1>9. a + x \in Nat /\ a + x <= read /\ u = a + x + y
  BY <1>8
<1> QED
  BY <1>2, <1>7, <1>9, Zenon DEF a, x, y, u

\* The will's topic ends where its message is.
LEMMA WillTopicPlaced ==
    ASSUME IInv, NEW p \in Packets, Known(p), Placed(p), WillTopic PROVE Placed(p)'
<1> DEFINE topic == p.will[1].topic
<1>1. /\ pc = "will" /\ pc' = "willMessage" /\ at' = at + 2 + BE16(at)
      /\ UNCHANGED <<stream, total, level, flags>> /\ level = p.level /\ flags = Flags(p)
  BY DEF Placed, WillTopic, Ready, Await, input, header, Fields
<1>2. at = WillAt(p) /\ p.will # <<>>
  BY <1>1 DEF Placed, Position
<1>3. topic \in Bytes /\ Short(topic)
  BY <1>2, PacketParts
<1>4. at \in Nat /\ at + Len(Field(topic)) <= read /\ StandsAt(stream, at, Field(topic))
  BY <1>1, <1>2, WillHasArrived, Zenon
<1>5. BE16(at) = Len(topic) /\ at + 2 + Len(topic) = at + Len(Field(topic))
  <2> HIDE DEF topic
  <2> QED
    BY <1>3, <1>4, FieldInPlace, Zenon
<1>6. at' = WillAt(p) + Len(Field(topic))
  BY <1>1, <1>2, <1>5, Zenon
<1>7. Position(p)'
  BY <1>1, <1>2, <1>6 DEF Position
<1> QED
  BY <1>1, <1>7, NextField DEF Fields

\* The will's message ends where the user name is.
LEMMA WillMessagePlaced ==
    ASSUME IInv, NEW p \in Packets, Known(p), Placed(p), WillMessage PROVE Placed(p)'
<1> DEFINE message == p.will[1].message
<1>1. pc = "willMessage" /\ UserNext(at + 2 + BE16(at))
  BY DEF WillMessage
<1>2. at = WillAt(p) + Len(Field(p.will[1].topic)) /\ p.will # <<>>
  BY <1>1 DEF Placed, Position
<1>3. message \in Bytes /\ Short(message)
  BY <1>2, PacketParts
<1>4. /\ at \in Nat /\ UserAt(p) = at + Len(Field(message)) /\ UserAt(p) <= read
      /\ StandsAt(stream, at, Field(message))
  BY <1>1, <1>2, WillHasArrived, Zenon
<1>5. BE16(at) = Len(message) /\ at + 2 + Len(message) = at + Len(Field(message))
  <2>1. at + Len(Field(message)) <= read
    BY <1>4, Zenon
  <2> HIDE DEF message
  <2> QED
    BY <1>3, <1>4, <2>1, FieldInPlace, Zenon
<1>6. UserNext(UserAt(p))
  <2>1. at + 2 + BE16(at) = UserAt(p)
    BY <1>4, <1>5, Zenon
  <2> QED
    BY <1>1, <2>1, Zenon
<1> QED
  BY <1>1, <1>6, UserNextPlaced

\* The user name, where it is and that it has arrived.
LEMMA UserHasArrived ==
    ASSUME IInv, NEW p \in Packets, Placed(p), pc \in {"user", "userName"}
    PROVE  LET name == p.user[1]
           IN  /\ name \in Bytes /\ Short(name) /\ UserAt(p) \in Nat /\ Len(name) \in Nat
               /\ BE16(UserAt(p)) = Len(name) /\ Slice(UserAt(p) + 2, Len(name)) = name
<1> DEFINE name == p.user[1]
<1>1. p.user # <<>> /\ StandsAt(stream, 0, Encode(p))
  BY DEF Placed, Position
<1>2. name \in Bytes /\ Short(name) /\ Len(name) \in Nat
  BY <1>1, PacketParts, BytesAreNumbers
<1>3. Optional(p.user) = Field(name)
  BY <1>1 DEF Optional
<1>4. UserAt(p) \in Nat /\ UserAt(p) + Len(Field(name)) <= read
  <2>1. pc \in Fields \ {"type", "length", "body"}
    BY DEF Fields
  <2>2. UserAt(p) \in Nat /\ UserAt(p) + Len(Optional(p.user)) <= read
    BY <2>1, PartsHaveArrived
  <2> QED
    BY <1>3, <2>2, Zenon
<1>5. StandsAt(stream, UserAt(p), Field(name))
  BY <1>1, <1>3, PartsInPlace, Zenon DEF IInv, Ordered
<1> HIDE DEF name
<1>6. BE16(UserAt(p)) = Len(name) /\ Slice(UserAt(p) + 2, Len(name)) = name
  BY <1>2, <1>4, <1>5, FieldInPlace, Zenon
<1> QED
  BY <1>2, <1>4, <1>6, Zenon DEF name

\* The user name's length, where the packet has it.
LEMMA UserPlaced ==
    ASSUME IInv, NEW p \in Packets, Placed(p), User PROVE Placed(p)'
<1>1. /\ pc = "user" /\ pc' = "userName" /\ at' = at + 2 /\ need' = at + 2 + BE16(at)
      /\ UNCHANGED <<stream, total, level, flags>> /\ level = p.level /\ flags = Flags(p)
  BY DEF Placed, User, Ready, Await, input, header, Fields
<1>2. at = UserAt(p) /\ p.user # <<>>
  BY <1>1 DEF Placed, Position
<1>3. BE16(at) = Len(p.user[1])
  BY <1>1, <1>2, UserHasArrived, Zenon
<1>4. at' = UserAt(p) + 2 /\ need' = at' + Len(p.user[1])
  BY <1>1, <1>2, <1>3, Zenon
<1>5. Position(p)'
  BY <1>1, <1>2, <1>4 DEF Position
<1> QED
  BY <1>1, <1>5, NextField DEF Fields

\* The bytes that are decided on are the user name.
LEMMA UserNamePlaced ==
    ASSUME IInv, NEW p \in Packets, Placed(p), UserName PROVE Placed(p)'
<1>1. /\ pc = "userName" /\ Decide(Slice(at, need - at))
  BY DEF UserName, Ready
<1>2. at = UserAt(p) + 2 /\ need = at + Len(p.user[1]) /\ p.user # <<>>
  BY <1>1 DEF Placed, Position
<1>3. UserAt(p) \in Nat /\ Len(p.user[1]) \in Nat /\ Slice(UserAt(p) + 2, Len(p.user[1])) = p.user[1]
  BY <1>1, UserHasArrived, Zenon
<1>4. need - at = Len(p.user[1])
  <2> DEFINE l == Len(p.user[1])
             u == UserAt(p)
  <2>1. u \in Nat /\ l \in Nat /\ at = u + 2 /\ need = at + l
    BY <1>2, <1>3
  <2> HIDE DEF l, u
  <2>2. need - at = l
    BY <2>1
  <2> QED
    BY <2>2 DEF l
<1>5. Decide(p.user[1])
  BY <1>1, <1>2, <1>3, <1>4, Zenon
<1>6. Decided(p)'
  BY <1>2, <1>5, DecideRight
<1>7. pc' \in {"refuse", "connect"} /\ UNCHANGED <<stream, total, level, flags>>
  BY <1>5 DEF Decide, input, header
<1>8. Position(p)'
  BY <1>7 DEF Position
<1> QED
  BY <1>1, <1>6, <1>7, <1>8 DEF Placed, Fields

-----------------------------------------------------------------------------
\* Every step of the decoder is at the packet's next field, or decides as the packet says.
LEMMA DecodePlaced ==
    ASSUME IInv, NEW p \in Packets, Known(p), Placed(p), DecodeStep PROVE Placed(p)'
<1>1. CASE GiveUp
  BY <1>1, NoField DEF GiveUp, Return, input
<1> QED
  BY <1>1, TypePlaced, LengthPlaced, BodyPlaced, NamePlaced, PropertiesPlaced, SkipPlaced,
     ClientIdPlaced, AfterIdPlaced, WillTopicPlaced, WillMessagePlaced, UserPlaced, UserNamePlaced
  DEF DecodeStep

\* The client starts with its packet, and the handler with the packet's first byte.
LEMMA InitOnTheWay == Init => OnTheWay
<1> SUFFICES ASSUME Init, NEW p \in Range(packet) PROVE Placed(p)
  BY DEF OnTheWay
<1>1. PICK q \in Packets, follow \in Follows : packet = <<q>> /\ stream = Encode(q) \o follow
  BY DEF Init, Range
<1>2. p = q /\ p \in Packets
  BY <1>1 DEF Range
<1>3. StandsAt(stream, 0, Encode(p))
  <2>1. Encode(p) \in Bytes /\ follow \in Bytes
    BY <1>2, PacketLayout, StreamsAssumption
  <2>2. StandsAt(Encode(p) \o follow, 0, Encode(p))
    BY <2>1, StandsFirst DEF Bytes
  <2> QED
    BY <1>1, <1>2, <2>2
<1>4. pc = "type"
  BY DEF Init
<1> QED
  BY <1>3, <1>4 DEF Placed, Position, Decided, Routed, Fields

\* Every step keeps the packet's place.
LEMMA OnTheWayStep == ASSUME IInv, OnTheWay, [Next]_vars PROVE OnTheWay'
<1>1. packet' = packet /\ stream' = stream
  <2>1. CASE DecodeStep
    BY <2>1, DecodeInOrder DEF Decoded
  <2>2. CASE RouteStep \/ ConnectFails \/ WriteFails
    BY <2>2 DEF RouteStep, Refuse, ConnectFails, RefuseWith, ConnectBackend, ForwardConnect,
                ForwardExtra, WriteDown, PumpEnds, WriteFails, Return, input
  <2>3. CASE ClientHangsUp \/ UNCHANGED vars
    BY <2>3 DEF ClientHangsUp, vars, input
  <2>4. ASSUME NEW n, ReadSome(n) \/ PumpSome(n) PROVE packet' = packet /\ stream' = stream
    BY <2>4 DEF ReadSome, PumpSome, input
  <2> QED
    BY <2>1, <2>2, <2>3, <2>4 DEF Next
<1> SUFFICES ASSUME NEW p \in Range(packet), Known(p) PROVE Placed(p)'
  BY <1>1 DEF OnTheWay, Range, Known
<1>2. p \in Packets /\ Placed(p)
  BY DEF OnTheWay, IInv, Kept, Range
<1>3. CASE DecodeStep
  BY <1>2, <1>3, DecodePlaced
<1>4. CASE Refuse \/ ConnectFails \/ PumpEnds \/ WriteFails
  <2>1. pc' = "done"
    BY <1>4 DEF Refuse, ConnectFails, RefuseWith, PumpEnds, WriteFails, Return
  <2> QED
    BY <1>1, <1>2, <2>1, NoField
<1>5. CASE ConnectBackend \/ ForwardConnect \/ ForwardExtra
  <2>1. /\ pc \in {"connect", "forward", "forwardExtra"}
        /\ pc' \in {"forward", "forwardExtra", "bridged"} /\ UNCHANGED <<total, tenant>>
    BY <1>5 DEF ConnectBackend, ForwardConnect, ForwardExtra, WriteDown, header
  <2>2. Decided(p)'
    BY <1>2, <2>1 DEF Placed, Decided, Routed, TenantOf, Lower, Blank
  <2>3. Position(p)'
    BY <2>1 DEF Position
  <2> QED
    BY <1>1, <1>2, <2>1, <2>2, <2>3 DEF Placed, Fields
<1>6. CASE \/ ClientHangsUp \/ UNCHANGED vars
           \/ \E n \in 1 .. Len(stream) : ReadSome(n) \/ PumpSome(n)
  <2>1. UNCHANGED <<pc, need, at, total, level, flags, tenant>>
    BY <1>6 DEF ClientHangsUp, vars, ReadSome, PumpSome, header, outcome
  <2>2. Position(p)'
    BY <1>2, <2>1 DEF Placed, Position
  <2>3. Decided(p)'
    BY <1>2, <2>1 DEF Placed, Decided, Routed, TenantOf, Lower, Blank
  <2> QED
    BY <1>1, <1>2, <2>1, <2>2, <2>3 DEF Placed, Fields
<1> QED
  BY <1>3, <1>4, <1>5, <1>6 DEF Next, RouteStep

\* Of whatever packet that the decoder knows, however it is cut: each field is looked for
\* where the client wrote it, and what was decided fits the user name.
THEOREM Decoding == Spec => []OnTheWay
<1> QED
  BY InitOnTheWay, OnTheWayStep, Invariant, PTL DEF Spec

\* For any packets within MQTT's limits, any table of tenants and any way in which the bytes
\* arrive: a connection goes to the backend of the tenant of its CONNECT's user name, a
\* refused CONNECT has none, and nobody is routed by bytes that did not arrive.
THEOREM RoutedRight == Spec => []RoutedByUserName
<1>1. IInv /\ OnTheWay => RoutedByUserName
  <2> SUFFICES ASSUME IInv, OnTheWay PROVE RoutedByUserName
    OBVIOUS
  <2>1. pc \in Routed => need <= read
    BY DEF IInv, Ordered, RoutedByArrived
  <2>2. ASSUME NEW p \in Range(packet), Known(p)
        PROVE  /\ pc \in Routed => Lower(tenant) \in {Lower(t) : t \in TenantOf(p)}
               /\ pc = "refuse" => TenantOf(p) = {}
    <3>1. Decided(p)
      BY <2>2 DEF OnTheWay, Placed
    <3>2. pc \in Routed => \E t \in TenantOf(p) : Lower(t) = Lower(tenant)
      BY <3>1, Zenon DEF Decided
    <3>3. pc = "refuse" => TenantOf(p) = {}
      BY <3>1, Zenon DEF Decided
    <3> QED
      BY <3>2, <3>3
  <2> QED
    BY <2>1, <2>2 DEF RoutedByUserName
<1> QED
  BY Invariant, Decoding, <1>1, PTL
=============================================================================

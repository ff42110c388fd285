---------------------------- MODULE ConnectRouting ----------------------------
(***************************************************************************)
(* The gateway's routing of a connection without SNI, behind the end of    *)
(* TLS: HandleMqttRoutingAsync reads an MQTT CONNECT of version 3.1, 3.1.1 *)
(* or 5 field by field from a stream that arrives in pieces, looks the     *)
(* tenant of the user name up, and forwards the PROXY frame, the CONNECT,  *)
(* what it read beyond it, and whatever follows, or refuses the client.    *)
(*                                                                         *)
(* Positions in the stream count from 0, as the indexes of connectBuffer.  *)
(***************************************************************************)
EXTENDS Integers, Sequences, SequencesExt, FiniteSetsExt

CONSTANTS
    Packets,    \* what clients send: CONNECTs,
    Garbage,    \* and byte sequences that are none
    Follows,    \* what a client sends behind its CONNECT
    RouteTable, \* the tenants that have a backend
    MaxBuffer   \* maxBufferSize

Byte == 0 .. 255
Bytes == Seq(Byte)

-----------------------------------------------------------------------------
(* MQTT CONNECT, as clients write it.                                      *)

MQTT   == <<77, 81, 84, 84>>
MQIsdp == <<77, 81, 73, 115, 100, 112>>

Field(bytes) == <<Len(bytes) \div 256, Len(bytes) % 256>> \o bytes
Optional(fields) == IF fields = <<>> THEN <<>> ELSE Field(fields[1])

\* A length in one to four groups of seven bits, the lowest first.
VarInt(n) ==
    LET more(unit) == 128 + ((n \div unit) % 128)
    IN  CASE n < 128 -> <<n>>
          [] n >= 128 /\ n < 16384 -> <<more(1), n \div 128>>
          [] n >= 16384 /\ n < 2097152 -> <<more(1), more(128), n \div 16384>>
          [] n >= 2097152 -> <<more(1), more(128), more(16384), n \div 2097152>>

Flags(p) == 128 * Len(p.user) + 64 * Len(p.password) + 4 * Len(p.will)

\* In version 5 properties stand before the client's id and before the will.
Properties(p, bytes) == IF p.level = 5 THEN VarInt(Len(bytes)) \o bytes ELSE <<>>
Will(p) ==
    IF p.will = <<>> THEN <<>>
    ELSE Properties(p, <<>>) \o Field(p.will[1].topic) \o Field(p.will[1].message)

ProtocolName(p) == IF p.level = 3 THEN MQIsdp ELSE MQTT

RemainingBytes(p) ==
    Field(ProtocolName(p)) \o <<p.level, Flags(p), 0, 60>>
    \o Properties(p, p.props) \o Field(p.id) \o Will(p)
    \o Optional(p.user) \o Optional(p.password)

Encode(p) == <<16>> \o VarInt(Len(RemainingBytes(p))) \o RemainingBytes(p)

\* An optional field is a sequence of at most one value; a will is a topic and a message.
ASSUME PacketsAssumption ==
    /\ Packets \subseteq [level : {3, 4, 5}, props : Bytes, id : Bytes,
                          will : Seq([topic : Bytes, message : Bytes]),
                          user : Seq(Bytes), password : Seq(Bytes)]
    /\ \A p \in Packets : Len(p.will) <= 1 /\ Len(p.user) <= 1 /\ Len(p.password) <= 1

\* Two bytes are the length of a field, four groups that of the properties and the packet.
ASSUME LengthsAssumption ==
    \A p \in Packets :
       /\ \A bytes \in {p.id} \cup Range(p.user) \cup Range(p.password)
                        \cup UNION {{w.topic, w.message} : w \in Range(p.will)} :
             Len(bytes) < 65536
       /\ Len(p.props) < 128 * 2097152 /\ Len(RemainingBytes(p)) < 128 * 2097152

ASSUME StreamsAssumption ==
    /\ Garbage \subseteq Bytes /\ Follows \subseteq Bytes
    /\ RouteTable \subseteq Bytes /\ MaxBuffer \in Nat

-----------------------------------------------------------------------------
VARIABLES
    packet,     \* the CONNECT the client sends, one or none
    stream,     \* all the bytes that it sends
    client,     \* "open", or "closed": no more of them arrive
    pc,         \* what the handler waits for, or does next
    need,       \* the target of the last EnsureBufferAsync
    read,       \* bytesRead
    at,         \* the position of the field that pc names
    total,      \* totalConnectSize
    level,      \* protocolLevel
    flags,      \* connectFlags
    tenant,     \* the tenant of the user name; <<>> is null
    reply,      \* what was written to rawStream, beneath TLS: nothing, or one refusal
    down        \* what was written to the backend

input   == <<packet, stream>>
header  == <<total, level, flags>>
outcome == <<tenant, reply, down>>
vars    == <<input, client, pc, need, read, at, header, outcome>>

Frame == 256     \* beside the bytes: the frame, whose bytes are the matter of ProxyProtocol

Fields == {"type", "length", "body", "name", "properties", "skip", "id", "afterId",
           "will", "willMessage", "user", "userName"}
Finished == {"bridged", "done"}

Init ==
    /\ \/ \E p \in Packets, follow \in Follows :
             packet = <<p>> /\ stream = Encode(p) \o follow
       \/ packet = <<>> /\ stream \in Garbage
    /\ client = "open"
    /\ pc = "type" /\ need = 2 /\ read = 0 /\ at = 0
    /\ total = 0 /\ level = 0 /\ flags = 0
    /\ tenant = <<>> /\ reply = <<>> /\ down = <<>>

\* connectBuffer[i]; behind what was read it is zero.
Buffer(i) == IF i < read THEN stream[i + 1] ELSE 0
BE16(i) == 256 * Buffer(i) + Buffer(i + 1)
Slice(i, n) == SubSeq(stream, i + 1, i + n)

-----------------------------------------------------------------------------
(* EnsureBufferAsync.                                                      *)

ClientHangsUp ==
    /\ client = "open" /\ client' = "closed"
    /\ UNCHANGED <<input, pc, need, read, at, header, outcome>>

Missing == need - read
Arriving == Len(stream) - read

\* A read takes as much as has arrived, and no more than is missing.
ReadSome(n) ==
    /\ pc \in Fields /\ client = "open" /\ need <= MaxBuffer
    /\ n \in 1 .. Missing /\ n <= Arriving
    /\ read' = read + n
    /\ UNCHANGED <<input, client, pc, need, at, header, outcome>>

\* The field's bytes are there; a target that is already behind is one as well.
Ready(field) == pc = field /\ read >= need

Await(field, position, target) ==
    /\ pc' = field /\ at' = position /\ need' = target
    /\ UNCHANGED <<input, client, read>>

Return == pc' = "done" /\ UNCHANGED <<input, client, need, read, at, header, outcome>>

\* false: the target is too large, or the client hung up before it.  Only for the will's
\* message of version 5 the result is not looked at.
Unavailable == Missing > 0 /\ (need > MaxBuffer \/ client = "closed")

GiveUp ==
    /\ pc \in Fields /\ Unavailable
    /\ pc = "willMessage" /\ level = 5 => need > MaxBuffer
    /\ Return

-----------------------------------------------------------------------------
(* The fields of the CONNECT, one await after another.                     *)

Type ==
    /\ Ready("type")
    /\ IF Buffer(0) \div 16 # 1 THEN Return
       ELSE Await("length", 1, 3) /\ UNCHANGED <<header, outcome>>

\* The number in w bytes, three at most, of seven bits each.
VarIntAt(i, w) ==
    LET part(k, unit) == IF k < w THEN unit * (Buffer(i + k) % 128) ELSE 0
    IN  part(0, 1) + part(1, 128) + part(2, 16384)

\* The remaining length has three bytes at most: the fourth makes the multiplier too large.
Length ==
    /\ Ready("length")
    /\ IF at = 4 THEN Return
       ELSE IF Buffer(at) >= 128
            THEN Await("length", at + 1, at + 3) /\ UNCHANGED <<header, outcome>>
            ELSE /\ total' = at + 1 + VarIntAt(1, at)
                 /\ Await("body", at + 1, total')
                 /\ UNCHANGED <<level, flags, outcome>>

Body ==
    /\ Ready("body")
    /\ Await("name", at, at + 2 + BE16(at) + 4)
    /\ UNCHANGED <<header, outcome>>

\* The protocol's name, level, flags and keep-alive.
Name ==
    LET len == BE16(at)
        end == at + 2 + len
        name == Slice(at + 2, len)
    IN  /\ Ready("name")
        /\ IF name \notin {MQTT, MQIsdp} THEN Return
           ELSE /\ level' = Buffer(end) /\ flags' = Buffer(end + 1)
                /\ IF name = MQTT /\ level' = 5 THEN Await("properties", end + 4, end + 8)
                   ELSE Await("id", end + 4, end + 6)
                /\ UNCHANGED <<total, outcome>>

\* Their length, of three bytes at most, and the properties themselves.
PropertiesLength ==
    LET widths == {w \in 1 .. 3 : Buffer(at + w - 1) < 128}
        width  == Min(widths)
        start  == at + width + VarIntAt(at, width)
    IN  /\ Ready("properties")
        /\ IF widths = {} THEN Return
           ELSE Await("skip", start, start + 2) /\ UNCHANGED <<header, outcome>>

SkipProperties == Ready("skip") /\ Await("id", at, at + 2) /\ UNCHANGED <<header, outcome>>

ClientId ==
    LET next == at + 2 + BE16(at)
    IN  Ready("id") /\ Await("afterId", next, next) /\ UNCHANGED <<header, outcome>>

HasWill == (flags \div 4) % 2 = 1
HasUser == flags >= 128

\* StringComparison.OrdinalIgnoreCase.
Lower(bytes) == [i \in DOMAIN bytes |-> IF bytes[i] \in 65 .. 90 THEN bytes[i] + 32 ELSE bytes[i]]
HasBackend(name) == \E route \in RouteTable : Lower(route) = Lower(name)

\* IsNullOrWhiteSpace, for a name in ASCII.
Blank(bytes) == Range(bytes) \subseteq (9 .. 13) \cup {32}

\* The decision: the tenant's prefix, and its backend.
Decide(name) ==
    LET dots == {i \in DOMAIN name : name[i] = 46}
        prefix == SubSeq(name, 1, Min(dots) - 1)
        refused == dots = {} \/ Blank(prefix) \/ ~ HasBackend(prefix)
    IN  /\ tenant' = IF dots = {} \/ Blank(prefix) THEN <<>> ELSE prefix
        /\ pc' = IF refused THEN "refuse" ELSE "connect"
        /\ UNCHANGED <<input, client, need, read, at, header, reply, down>>

\* What comes behind the position: the user name, or nothing that matters.
UserNext(next) ==
    IF HasUser THEN Await("user", next, next + 2) /\ UNCHANGED <<header, outcome>>
    ELSE Decide(<<>>)

\* Variant: the will is not skipped.
WillNotSkipped == Ready("afterId") /\ UserNext(at)

AfterId ==
    /\ Ready("afterId")
    /\ IF HasWill THEN Await("will", at, at + 2) /\ UNCHANGED <<header, outcome>>
       ELSE UserNext(at)

WillTopic ==
    LET next == at + 2 + BE16(at)
    IN  Ready("will") /\ Await("willMessage", next, next + 2) /\ UNCHANGED <<header, outcome>>

\* In version 5 a client that hung up does not end the decoding here: the zeros behind
\* what was read are the length.
WillMessage ==
    /\ pc = "willMessage"
    /\ read >= need \/ (level = 5 /\ Unavailable /\ need <= MaxBuffer)
    /\ UserNext(at + 2 + BE16(at))

\* Variant: a byte behind the user name is waited for.
UserOneTooMany ==
    /\ Ready("user")
    /\ Await("userName", at + 2, at + 2 + BE16(at) + 1)
    /\ UNCHANGED <<header, outcome>>

User ==
    /\ Ready("user")
    /\ Await("userName", at + 2, at + 2 + BE16(at))
    /\ UNCHANGED <<header, outcome>>

UserName == Ready("userName") /\ Decide(Slice(at, need - at))

-----------------------------------------------------------------------------
(* What is done with the decision.                                         *)

\* Variant: the refusal's form is the protocol level.
RefuseInLevel(code) ==
    /\ reply' = <<[form |-> level, code |-> code]>>
    /\ pc' = "done"
    /\ UNCHANGED <<input, client, need, read, at, header, tenant, down>>

\* The refusal's code: 2 for a name without a tenant that has a backend, 3 for a backend
\* that cannot be reached; in the form of the client's version.  It goes to rawStream and
\* not to decryptedStream, the SslStream that the client reads.
RefuseWith(code) ==
    /\ reply' = <<[form |-> IF level = 5 THEN 5 ELSE 3, code |-> code]>>
    /\ pc' = "done"
    /\ UNCHANGED <<input, client, need, read, at, header, tenant, down>>

Refuse == pc = "refuse" /\ RefuseWith(2)
ConnectFails == pc = "connect" /\ RefuseWith(3)

WriteDown(from, bytes, to) ==
    /\ pc = from /\ pc' = to
    /\ down' = down \o bytes
    /\ UNCHANGED <<input, client, need, read, at, header, tenant, reply>>

ConnectBackend  == WriteDown("connect", <<Frame>>, "forward")
ForwardConnect  == WriteDown("forward", Slice(0, total), "forwardExtra")

\* Variant: what was read beyond the CONNECT is not forwarded.
ForgetExtra == WriteDown("forwardExtra", <<>>, "bridged")

ForwardExtra == WriteDown("forwardExtra", Slice(total, read - total), "bridged")

\* The handler returns in front of a write that throws: of a refusal, of the frame, of a
\* part of the CONNECT, or of a pump.  The backend's end of the bridge is here as well.
WriteFails ==
    pc \in {"refuse", "connect", "forward", "forwardExtra", "bridged"} /\ Return

\* The pump from the client to the backend, a read and a write at a time.
PumpSome(n) ==
    /\ pc = "bridged" /\ client = "open"
    /\ n \in 1 .. Arriving
    /\ read' = read + n
    /\ down' = down \o Slice(read, n)
    /\ UNCHANGED <<input, client, pc, need, at, header, tenant, reply>>

PumpEnds == pc = "bridged" /\ client = "closed" /\ Return

-----------------------------------------------------------------------------
DecodeStep == \/ Type \/ Length \/ Body \/ Name \/ PropertiesLength \/ SkipProperties
              \/ ClientId \/ AfterId \/ WillTopic \/ WillMessage \/ User \/ UserName
              \/ GiveUp

RouteStep == Refuse \/ ConnectBackend \/ ForwardConnect \/ ForwardExtra \/ PumpEnds

Next == \/ DecodeStep \/ RouteStep
        \/ ClientHangsUp \/ ConnectFails \/ WriteFails
        \/ \E n \in 1 .. Len(stream) : ReadSome(n) \/ PumpSome(n)

Spec == Init /\ [][Next]_vars

\* The bytes a client sends arrive, the handler goes on when its read is over, and what
\* is to be written is written or fails.
Fairness ==
    /\ WF_vars(DecodeStep)
    /\ WF_vars(RouteStep)
    /\ WF_vars(\E n \in 1 .. Len(stream) : ReadSome(n))

FairSpec == Spec /\ Fairness

-----------------------------------------------------------------------------
(* Correctness.                                                            *)

TypeOK ==
    /\ packet \in {<<>>} \cup {<<p>> : p \in Packets} /\ stream \in Bytes
    /\ client \in {"open", "closed"}
    /\ pc \in Fields \cup {"refuse", "connect", "forward", "forwardExtra"} \cup Finished
    /\ need \in Nat /\ read \in 0 .. Len(stream) /\ at \in Nat
    /\ total \in Nat /\ level \in Byte /\ flags \in Byte
    /\ tenant \in Bytes
    /\ reply \in {<<>>} \cup {<<[form |-> f, code |-> c]>> : f \in {3, 5}, c \in {2, 3}}
    /\ down \in Seq(Byte \cup {Frame})

\* A CONNECT whose fields the decoder knows: all but a will of version 5, whose
\* properties it takes for the topic.
Known(p) == p.level = 5 => p.will = <<>>

\* The one CONNECT of version 5 that ends in front of the four bytes that the decoder asks
\* for at the properties: there are none, and no field behind the empty id.
Shortest == [level |-> 5, props |-> <<>>, id |-> <<>>, will |-> <<>>,
             user |-> <<>>, password |-> <<>>]

\* The tenant of a CONNECT is what its user name has before the first dot; a row whose
\* tenant is blank or has a dot of its own is nobody's.
TenantOf(p) ==
    {t \in RouteTable : /\ ~ Blank(t) /\ 46 \notin Range(t)
                        /\ Len(p.user) = 1
                        /\ IsPrefix(Append(Lower(t), 46), Lower(p.user[1]))}

Routed == {"connect", "forward", "forwardExtra", "bridged"}

\* The way the handler goes is the packet's, for every version and every combination of
\* fields but a will in version 5, however the bytes were cut: a connection to the
\* backend of its tenant, or the refusal of a CONNECT that names none.  Nobody,
\* whatever he sends, is routed by bytes that did not arrive.
RoutedByUserName ==
    /\ pc \in Routed => need <= read
    /\ \A p \in Range(packet) : Known(p) =>
          /\ pc \in Routed => Lower(tenant) \in {Lower(t) : t \in TenantOf(p)}
          /\ pc = "refuse" => TenantOf(p) = {}

\* The backend gets the frame and then the client's bytes, all that were read and in
\* their order, whatever part of them the decoder had taken beyond the CONNECT.
ForwardedInOrder ==
    /\ IsPrefix(down, <<Frame>> \o stream)
    /\ pc = "bridged" => Len(down) = 1 + read

\* A client whose CONNECT has arrived is decided on, but for a will in version 5 and for the
\* shortest CONNECT of version 5: the decoder does not wait for a byte that an MQTT
\* client sends only after its CONNACK.
CompleteConnectIsDecided ==
    (\E p \in Range(packet) : Known(p) /\ p # Shortest) ~> pc \notin Fields

\* A client whose CONNECT has arrived is decided on, whatever it is.
ConnectIsDecided == packet # <<>> ~> pc \notin Fields
=============================================================================

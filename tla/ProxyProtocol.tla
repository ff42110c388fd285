---------------------------- MODULE ProxyProtocol ----------------------------
(***************************************************************************)
(* The PROXY protocol v2 frame in front of a connection on a tenant's TCP  *)
(* port: BuildV2Header as the gateway writes it, and ReadV2HeaderFullAsync *)
(* field by field on a stream that arrives in pieces or breaks off, with   *)
(* the caller HandleTcpClientAsync, which goes on without a frame whenever *)
(* the reader throws.  What the reader leaves in the stream is what the    *)
(* broker is given.                                                        *)
(***************************************************************************)
EXTENDS Integers, Sequences, SequencesExt, Streams

CONSTANTS
    Endpoints,  \* IPEndPoints: the client's and the gateway's own
    Certs,      \* certificates of clients; and none:
    NoCert,
    Apps,       \* what follows a frame: the application's bytes
    Entries,    \* TLV entries another proxy may write, beside the gateway's
    MaxEntries  \* entries in a frame of another proxy at most (bound)

Byte   == 0 .. 255
Ushort == 0 .. 65535
Bytes  == Seq(Byte)

\* IPEndPoint: whatever an address block of 12 or 36 bytes can name.
IPEndPoints ==      [family : {"v4"}, address : [1 .. 4 -> Byte], port : Ushort]
               \cup [family : {"v6"}, address : [1 .. 16 -> Byte], port : Ushort]

ASSUME EndpointsAssumption == Endpoints \subseteq IPEndPoints

ASSUME CertsAssumption ==
    /\ Certs \subseteq [thumbprint : Bytes, subject : Bytes, issuer : Bytes]
    /\ NoCert \notin [thumbprint : Bytes, subject : Bytes, issuer : Bytes]

ASSUME StreamsAssumption ==
    /\ Apps \subseteq Bytes
    /\ Entries \subseteq [type : Byte, value : Bytes]
    /\ MaxEntries \in Nat

-----------------------------------------------------------------------------
(* The encoder.                                                            *)

\* BinaryPrimitives.WriteUInt16BigEndian of a number cast to ushort.
BE16(n) == <<(n \div 256) % 256, n % 256>>

Signature == <<13, 10, 13, 10, 0, 13, 10, 81, 85, 73, 84, 10>>
VerCmdLocal == 32
VerCmdProxy == 33
FamilyInetStream  == 17
FamilyInet6Stream == 33
TlvTypeClientCert == 224

\* BuildV2Tcp4 and BuildV2Tcp6: two addresses, then two ports.
BuildV2Tcp(family, src, dst) ==
    LET block == src.address \o dst.address \o BE16(src.port) \o BE16(dst.port)
    IN  Signature \o <<VerCmdProxy, family>> \o BE16(Len(block)) \o block

BuildV2Local == Signature \o <<VerCmdLocal, 0, 0, 0>>

BuildCoreHeader(src, dst) ==
    CASE src.family = "v4" /\ dst.family = "v4" -> BuildV2Tcp(FamilyInetStream, src, dst)
      [] src.family = "v6" /\ dst.family = "v6" -> BuildV2Tcp(FamilyInet6Stream, src, dst)
      [] OTHER -> BuildV2Local

Tlv(t) == <<t.type>> \o BE16(Len(t.value)) \o t.value

CertValue(cert) ==
    <<1, Len(cert.thumbprint) % 256>> \o cert.thumbprint
        \o BE16(Len(cert.subject)) \o cert.subject \o BE16(Len(cert.issuer)) \o cert.issuer

BuildClientCertTlv(cert) == Tlv([type |-> TlvTypeClientCert, value |-> CertValue(cert)])

\* The lengths fit their fields: 32 bytes of SHA-256, and names of a certificate.
ASSUME CertLengthsAssumption ==
    \A c \in Certs : Len(c.thumbprint) \in Byte /\ Len(BuildClientCertTlv(c)) \in Ushort

BuildV2Header(src, dst, cert) ==
    LET tlv == IF cert = NoCert THEN <<>> ELSE BuildClientCertTlv(cert)
    IN  BuildCoreHeader(src, dst) \o BE16(Len(tlv)) \o tlv

-----------------------------------------------------------------------------
(* The decoder.                                                            *)

\* ReadUInt16BigEndian at an offset counted from 0.
U16(s, off) == 256 * s[off + 1] + s[off + 2]

\* Variant: the certificate of an entry is taken whatever the entry's flag says.
ParseUnflagged(v) ==
    LET thumbEnd == 2 + v[2]
        subjEnd  == thumbEnd + 2 + U16(v, thumbEnd)
        issEnd   == subjEnd + 2 + U16(v, subjEnd)
    IN  IF Len(v) < 2 \/ thumbEnd + 2 > Len(v)
           \/ subjEnd + 2 > Len(v) \/ issEnd > Len(v)
        THEN NoCert
        ELSE [thumbprint |-> SubSeq(v, 3, thumbEnd),
              subject    |-> SubSeq(v, thumbEnd + 3, subjEnd),
              issuer     |-> SubSeq(v, subjEnd + 3, issEnd)]

ParseClientCertTlvValue(v) ==
    LET thumbEnd == 2 + v[2]
        subjEnd  == thumbEnd + 2 + U16(v, thumbEnd)
        issEnd   == subjEnd + 2 + U16(v, subjEnd)
    IN  IF Len(v) < 2 \/ v[1] # 1 \/ thumbEnd + 2 > Len(v)
           \/ subjEnd + 2 > Len(v) \/ issEnd > Len(v)
        THEN NoCert
        ELSE [thumbprint |-> SubSeq(v, 3, thumbEnd),
              subject    |-> SubSeq(v, thumbEnd + 3, subjEnd),
              issuer     |-> SubSeq(v, subjEnd + 3, issEnd)]

\* The values of the client-certificate entries, in their order; the walk stops at
\* an entry that does not fit in what is left.
ClientCertValues(data) ==
    LET from[off \in 0 .. Len(data)] ==
            LET next == off + 3 + U16(data, off + 1)
            IN  IF off + 3 > Len(data) \/ next > Len(data) THEN <<>>
                ELSE (IF data[off + 1] = TlvTypeClientCert
                      THEN <<SubSeq(data, off + 4, next)>> ELSE <<>>) \o from[next]
    IN  from[0]

\* Each client-certificate entry overwrites what an earlier one gave.
ParseTlvBlock(data) ==
    LET values == ClientCertValues(data)
    IN  IF values = <<>> THEN NoCert ELSE ParseClientCertTlvValue(Last(values))

NoSource    == [family |-> "none", address |-> <<>>, port |-> 0]
LocalSource == [family |-> "v4", address |-> <<255, 255, 255, 255>>, port |-> 0]

\* The source in an address block that is long enough for its family.
SourceIn(family, block) ==
    CASE family = FamilyInetStream /\ Len(block) >= 12 ->
           [family |-> "v4", address |-> SubSeq(block, 1, 4), port |-> U16(block, 8)]
      [] family = FamilyInet6Stream /\ Len(block) >= 36 ->
           [family |-> "v6", address |-> SubSeq(block, 1, 16), port |-> U16(block, 32)]
      [] OTHER -> NoSource

-----------------------------------------------------------------------------
(* Connections: from the gateway, from another proxy that writes the same  *)
(* format with entries of its own, and from a client without a frame.      *)

TlvBlock(entries) == FlattenSeq([i \in DOMAIN entries |-> Tlv(entries[i])])

\* The length of another proxy's entries fits its field.
EntryLists == {es \in BoundedSeq(Entries, MaxEntries) : Len(TlvBlock(es)) \in Ushort}

Connections ==
         [by : {"gateway"}, src : Endpoints, dst : Endpoints,
          cert : Certs \cup {NoCert}, app : Apps]
    \cup [by : {"proxy"}, src : Endpoints, entries : EntryLists, app : Apps]
    \cup [by : {"bare"}, app : Apps]

Frame(c) ==
    CASE c.by = "gateway" -> BuildV2Header(c.src, c.dst, c.cert)
      [] c.by = "proxy"   -> LET block == TlvBlock(c.entries)
                             IN  BuildCoreHeader(c.src, c.src) \o BE16(Len(block)) \o block
      [] c.by = "bare"    -> <<>>

VARIABLES
    conn,       \* the connection that was accepted
    arrives,    \* how many of its bytes ever arrive
    stream,     \* those that were not read yet
    field,      \* the field being read, or "bridge" once the reader is left
    want,       \* its length
    got,        \* what was read of it
    header,     \* the first 16 bytes
    source,     \* originalSource
    clientCert  \* clientCert

vars == <<conn, arrives, stream, field, want, got, header, source, clientCert>>

Fields == {"signature", "address", "tlvLength", "tlvs"}

\* A gateway may break off anywhere in its frame or behind it.
Init ==
    /\ conn \in Connections
    /\ arrives \in IF conn.by = "gateway" THEN 0 .. Len(Frame(conn) \o conn.app)
                                          ELSE {Len(Frame(conn) \o conn.app)}
    /\ stream = Taken(Frame(conn) \o conn.app, arrives)
    /\ field = "signature" /\ want = 16 /\ got = <<>> /\ header = <<>>
    /\ source = NoSource /\ clientCert = NoCert

\* The reader goes on with another field.
Field(f, n) == field' = f /\ want' = n /\ got' = <<>>

\* The reader returns, or throws, and the bytes behind it go to the broker.
Return(src, cert) ==
    /\ field' = "bridge" /\ want' = 0 /\ got' = <<>>
    /\ source' = src /\ clientCert' = cert

\* Variant: a read may take more than was asked for.
ReadGreedily ==
    /\ Len(got) < want
    /\ \E n \in 1 .. Len(stream) :
          /\ got' = got \o Taken(stream, n)
          /\ stream' = Remaining(stream, n)
    /\ UNCHANGED <<conn, arrives, field, want, header, source, clientCert>>

\* One ReadAsync of ReadExactAsync: any part of what is still wanted.
ReadSome ==
    /\ Len(got) < want
    /\ \E n \in 1 .. Len(stream) :
          /\ n <= want - Len(got)
          /\ got' = got \o Taken(stream, n)
          /\ stream' = Remaining(stream, n)
    /\ UNCHANGED <<conn, arrives, field, want, header, source, clientCert>>

\* Variant: what was read before the exception is kept.
KeepWhatWasRead ==
    /\ Len(got) < want /\ stream = <<>>
    /\ Return(source, clientCert)
    /\ UNCHANGED <<conn, arrives, stream, header>>

\* A read of no bytes throws out of the reader, and its caller forgets everything.
ReadEof ==
    /\ Len(got) < want /\ stream = <<>>
    /\ Return(NoSource, NoCert)
    /\ UNCHANGED <<conn, arrives, stream, header>>

\* The signature decides between no frame, a LOCAL command, an unknown version or
\* command, and a PROXY command.
SignatureRead ==
    /\ field = "signature" /\ Len(got) = want
    /\ \/ /\ SubSeq(got, 1, 12) # Signature \/ got[13] \notin {VerCmdLocal, VerCmdProxy}
          /\ Return(NoSource, NoCert)
          /\ UNCHANGED header
       \/ /\ SubSeq(got, 1, 12) = Signature /\ got[13] = VerCmdLocal
          /\ Return(LocalSource, NoCert)
          /\ UNCHANGED header
       \/ /\ SubSeq(got, 1, 12) = Signature /\ got[13] = VerCmdProxy
          /\ header' = got
          /\ Field("address", U16(got, 14))
          /\ UNCHANGED <<source, clientCert>>
    /\ UNCHANGED <<conn, arrives, stream>>

AddressRead ==
    /\ field = "address" /\ Len(got) = want
    /\ source' = SourceIn(header[14], got)
    /\ Field("tlvLength", 2)
    /\ UNCHANGED <<conn, arrives, stream, header, clientCert>>

\* Variant: the reader of the standard format, which knows no length of entries.
StopAfterAddress ==
    /\ field = "tlvLength" /\ got = <<>>
    /\ Return(source, NoCert)
    /\ UNCHANGED <<conn, arrives, stream, header>>

TlvLengthRead ==
    /\ field = "tlvLength" /\ Len(got) = want
    /\ \/ U16(got, 0) = 0 /\ Return(source, NoCert)
       \/ U16(got, 0) > 0 /\ Field("tlvs", U16(got, 0)) /\ UNCHANGED <<source, clientCert>>
    /\ UNCHANGED <<conn, arrives, stream, header>>

TlvsRead ==
    /\ field = "tlvs" /\ Len(got) = want
    /\ Return(source, ParseTlvBlock(got))
    /\ UNCHANGED <<conn, arrives, stream, header>>

Next == \/ ReadSome \/ ReadEof
        \/ SignatureRead \/ AddressRead \/ TlvLengthRead \/ TlvsRead

Spec == Init /\ [][Next]_vars

-----------------------------------------------------------------------------
(* Correctness.                                                            *)

TypeOK ==
    /\ conn \in Connections
    /\ arrives \in Nat
    /\ stream \in Bytes /\ got \in Bytes /\ header \in Bytes
    /\ field \in Fields \cup {"bridge"}
    /\ want \in Ushort
    /\ Len(got) <= want
    /\ source \in IPEndPoints \cup {NoSource}
    /\ clientCert = NoCert \/ clientCert \in [thumbprint : Bytes, subject : Bytes, issuer : Bytes]

\* Whether the whole frame of a connection arrives.
FrameArrives == arrives >= Len(Frame(conn))

\* A frame between two endpoints of one family.
ProxyCommand == \/ conn.by = "gateway" /\ conn.src.family = conn.dst.family
                \/ conn.by = "proxy"

\* What reaches the broker behind a PROXY frame is the application's bytes, all of
\* them that arrive, however the stream was cut into reads: the fields that the
\* reader takes add up to exactly the frame that the builder wrote.
ProxyFrameTaken ==
    field = "bridge" /\ ProxyCommand =>
        stream = Taken(conn.app, IF FrameArrives THEN arrives - Len(Frame(conn)) ELSE 0)

\* The client that the tenant plane logs and validates is the gateway's client: its
\* address and its certificate after a whole PROXY frame, and neither of them, not
\* even one, after a frame that broke off.
ClientKnown ==
    field = "bridge" /\ conn.by = "gateway" /\ ProxyCommand =>
        IF FrameArrives THEN source = conn.src /\ clientCert = conn.cert
                        ELSE source = NoSource /\ clientCert = NoCert

\* The certificate that an entry's value holds: the one whose encoding it starts with.
Holds(v, cert) == IsPrefix(CertValue(cert), v)

\* With entries of several types and any values, the last client-certificate entry
\* decides: its certificate is reported if its value starts with the encoding of one,
\* and none otherwise.
LastCertificateDecides ==
    field = "bridge" /\ conn.by = "proxy" =>
        LET mine == {i \in DOMAIN conn.entries : conn.entries[i].type = TlvTypeClientCert}
            last == conn.entries[Max(mine)].value
        IN  IF clientCert = NoCert
            THEN mine = {} \/ \A cert \in Certs : ~ Holds(last, cert)
            ELSE mine # {} /\ Holds(last, clientCert)

\* After the reader returns, the stream is at the first byte of application data, for
\* every sender.
PositionAtApplication ==
    field = "bridge" /\ FrameArrives => stream = Taken(conn.app, arrives - Len(Frame(conn)))
=============================================================================

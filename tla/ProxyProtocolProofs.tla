-------------------------- MODULE ProxyProtocolProofs --------------------------
(***************************************************************************)
(* The PROXY frame for any endpoints, certificates, entries and streams:   *)
(* the reader takes exactly the frame that the builder wrote, and what it  *)
(* reports is what the builder was given.                                  *)
(***************************************************************************)
EXTENDS ProxyProtocol, StreamsProofs

-----------------------------------------------------------------------------
(* Bytes and numbers.                                                      *)

\* The ranges by their bounds.
LEMMA UshortIs == \A n : n \in Ushort <=> n \in Nat /\ n < 65536
<1> DEFINE top == 65535
<1>1. top \in Nat /\ \A n \in Nat : n <= top <=> n < 65536
  OBVIOUS
<1>2. Ushort = 0 .. top
  BY DEF Ushort
<1>3. ASSUME NEW m \in Nat PROVE \A n : n \in 0 .. m <=> n \in Nat /\ n <= m
  OBVIOUS
<1> HIDE DEF top
<1> QED
  BY <1>1, <1>2, <1>3

\* The range by its bounds.
LEMMA ByteIs == \A n : n \in Byte <=> n \in Nat /\ n < 256
<1> DEFINE top == 255
<1>1. top \in Nat /\ \A n \in Nat : n <= top <=> n < 256
  OBVIOUS
<1>2. Byte = 0 .. top
  BY DEF Byte
<1>3. ASSUME NEW m \in Nat PROVE \A n : n \in 0 .. m <=> n \in Nat /\ n <= m
  OBVIOUS
<1> HIDE DEF top
<1> QED
  BY <1>1, <1>2, <1>3

\* Two bytes are a number of 16 bits.
LEMMA U16IsUshort ==
    ASSUME NEW s \in Bytes, NEW off \in Nat, off + 2 <= Len(s)
    PROVE  U16(s, off) \in Ushort
<1>1. Len(s) \in Nat /\ \A i \in 1 .. Len(s) : s[i] \in Byte
  BY LenProperties, ElementOfSeq DEF Bytes
<1>2. s[off + 1] \in Byte /\ s[off + 2] \in Byte
  BY <1>1
<1> DEFINE a == s[off + 1]
           b == s[off + 2]
<1>3. a \in Nat /\ a < 256 /\ b \in Nat /\ b < 256
  BY <1>2, ByteIs
<1>4. 256 * a + b \in Ushort
  <2> HIDE DEF a, b
  <2>1. 256 * a + b \in Nat /\ 256 * a + b < 65536
    BY ONLY <1>3
  <2> QED
    BY <2>1, UshortIs
<1> QED
  BY <1>4, Zenon DEF U16

\* A number of 16 bits is written in two bytes.
LEMMA BE16IsBytes ==
    ASSUME NEW n \in Nat
    PROVE  BE16(n) \in Bytes /\ Len(BE16(n)) = 2
<1>1. (n \div 256) % 256 \in Byte /\ n % 256 \in Byte
  <2>1. n \div 256 \in Nat
    OBVIOUS
  <2>2. \A k \in Nat : k % 256 \in Nat /\ k % 256 < 256
    OBVIOUS
  <2> QED
    BY <2>1, <2>2, ByteIs
<1> QED
  BY <1>1 DEF BE16, Bytes

\* A number that was written where it is read is read as it was.
LEMMA U16OfBE16 ==
    ASSUME NEW s \in Bytes, NEW off \in Nat, NEW n \in Ushort, StandsAt(s, off, BE16(n))
    PROVE  U16(s, off) = n
<1>1. n \in Nat /\ n < 65536
  BY UshortIs
<1>2. Len(BE16(n)) = 2 /\ BE16(n)[1] = (n \div 256) % 256 /\ BE16(n)[2] = n % 256
  BY DEF BE16
<1>3. 1 \in 1 .. Len(BE16(n)) /\ 2 \in 1 .. Len(BE16(n))
  BY <1>2
<1>4. s[off + 1] = (n \div 256) % 256 /\ s[off + 2] = n % 256
  BY <1>2, <1>3 DEF StandsAt
<1>5. 256 * ((n \div 256) % 256) + (n % 256) = n
  BY ONLY <1>1
<1> QED
  BY <1>4, <1>5, Zenon DEF U16

\* And two bytes that are read are those that stand there.
LEMMA BE16OfU16 ==
    ASSUME NEW s \in Bytes, NEW off \in Nat, off + 2 <= Len(s)
    PROVE  StandsAt(s, off, BE16(U16(s, off)))
<1>1. Len(s) \in Nat /\ \A i \in 1 .. Len(s) : s[i] \in Byte
  BY LenProperties, ElementOfSeq DEF Bytes
<1>2. s[off + 1] \in Byte /\ s[off + 2] \in Byte
  BY <1>1
<1> DEFINE a == s[off + 1]
           b == s[off + 2]
<1>3. a \in Nat /\ a < 256 /\ b \in Nat /\ b < 256
  BY <1>2, ByteIs
<1>4. BE16(U16(s, off)) = <<s[off + 1], s[off + 2]>>
  <2> HIDE DEF a, b
  <2>1. ((256 * a + b) \div 256) % 256 = a /\ (256 * a + b) % 256 = b
    BY ONLY <1>3
  <2> QED
    BY <2>1, Zenon DEF BE16, U16, a, b
<1> DEFINE two == <<s[off + 1], s[off + 2]>>
<1>5. Len(two) = 2 /\ two[1] = s[off + 1] /\ two[2] = s[off + 2]
  OBVIOUS
<1>6. \A k \in 1 .. 2 : k = 1 \/ k = 2
  OBVIOUS
<1> HIDE DEF two
<1>7. StandsAt(s, off, two)
  BY <1>5, <1>6 DEF StandsAt
<1> QED
  BY <1>4, <1>7 DEF two

\* A slice of bytes, a concatenation and the empty sequence are bytes.
LEMMA SliceIsBytes ==
    ASSUME NEW s \in Bytes, NEW m \in Nat, NEW n \in Nat, n <= Len(s)
    PROVE  /\ SubSeq(s, m + 1, n) \in Bytes
           /\ m <= n => Len(SubSeq(s, m + 1, n)) = n - m
           /\ \A i \in 1 .. n - m : SubSeq(s, m + 1, n)[i] = s[m + i]
  BY SliceOfSeq DEF Bytes

\* Bytes and then bytes are bytes.
LEMMA BytesInARow ==
    ASSUME NEW a \in Bytes, NEW b \in Bytes
    PROVE  a \o b \in Bytes /\ Len(a \o b) = Len(a) + Len(b)
  BY ConcatProperties DEF Bytes

\* They stand in a stream where the first ones do, and the others behind them.
LEMMA BytesStandInARow ==
    ASSUME NEW s \in Bytes, NEW a \in Bytes, NEW b \in Bytes, NEW i \in Nat
    PROVE  StandsAt(s, i, a \o b) <=> StandsAt(s, i, a) /\ StandsAt(s, i + Len(a), b)
  BY StandsInARow DEF Bytes

\* A prefix is what stands at the start.
LEMMA PrefixStands ==
    ASSUME NEW a \in Bytes, NEW s \in Bytes
    PROVE  IsPrefix(a, s) <=> StandsAt(s, 0, a)
<1>1. Len(a) \in Nat /\ Len(s) \in Nat /\ a \in Seq(Byte) /\ s \in Seq(Byte)
  BY LenProperties DEF Bytes
<1>2. SubSeq(a, 1, Len(a)) = a
  BY <1>1, SubSeqFull
<1>3. ASSUME StandsAt(s, 0, a) PROVE IsPrefix(a, s)
  <2>1. SubSeq(s, 0 + 1, 0 + Len(a)) = a /\ 0 + Len(a) <= Len(s)
    BY <1>1, <1>3, StandingSlice DEF StandsAt
  <2>2. 0 + 1 = 1 /\ 0 + Len(a) = Len(a)
    BY <1>1
  <2> QED
    BY <1>2, <2>1, <2>2 DEF IsPrefix
<1>4. ASSUME IsPrefix(a, s) PROVE StandsAt(s, 0, a)
  <2>1. Len(a) <= Len(s) /\ a = SubSeq(s, 1, Len(a))
    BY <1>2, <1>4 DEF IsPrefix
  <2>2. \A k \in 1 .. Len(a) - 0 : SubSeq(s, 0 + 1, Len(a))[k] = s[0 + k]
    BY <1>1, <2>1, SliceIsBytes
  <2>3. 0 + 1 = 1 /\ Len(a) - 0 = Len(a)
    BY <1>1
  <2>4. \A k \in 1 .. Len(a) : a[k] = s[0 + k]
    BY <2>1, <2>2, <2>3
  <2> QED
    BY <1>1, <2>1, <2>4 DEF StandsAt
<1> QED
  BY <1>3, <1>4

-----------------------------------------------------------------------------
(* Certificates.                                                           *)

CertForms == [thumbprint : Bytes, subject : Bytes, issuer : Bytes]

Fitting(cert) == cert \in CertForms /\ Len(cert.thumbprint) \in Byte

\* The value of an entry: its six parts, one behind the other.
LEMMA CertValueParts ==
    ASSUME NEW cert, Fitting(cert), NEW v \in Bytes
    PROVE  LET t == cert.thumbprint
               u == cert.subject
               w == cert.issuer
           IN  /\ CertValue(cert) \in Bytes
               /\ Len(CertValue(cert)) = 6 + Len(t) + Len(u) + Len(w)
               /\ StandsAt(v, 0, CertValue(cert)) <=>
                     /\ StandsAt(v, 0, <<1, Len(t)>>) /\ StandsAt(v, 2, t)
                     /\ StandsAt(v, 2 + Len(t), BE16(Len(u)))
                     /\ StandsAt(v, 4 + Len(t), u)
                     /\ StandsAt(v, 4 + Len(t) + Len(u), BE16(Len(w)))
                     /\ StandsAt(v, 6 + Len(t) + Len(u), w)
<1> DEFINE t == cert.thumbprint
           u == cert.subject
           w == cert.issuer
           lt == Len(t)
           lu == Len(u)
           lw == Len(w)
           head == <<1, lt>>
<1>1. t \in Bytes /\ u \in Bytes /\ w \in Bytes /\ Len(t) = lt /\ Len(u) = lu /\ Len(w) = lw
  BY DEF Fitting, CertForms
<1>2. lt \in Nat /\ lu \in Nat /\ lw \in Nat
  BY <1>1, LenProperties DEF Bytes
<1>3. lt \in Byte /\ lt % 256 = lt
  <2>1. lt \in Byte
    BY DEF Fitting
  <2>2. lt \in Nat /\ lt < 256
    BY <2>1, ByteIs
  <2> HIDE DEF lt
  <2> QED
    BY <2>1, <2>2
<1>4. head \in Bytes /\ Len(head) = 2
  <2>1. lt \in Byte /\ 1 \in Byte
    BY <1>3, ByteIs
  <2> HIDE DEF lt
  <2> QED
    BY <2>1 DEF Bytes
<1> DEFINE bu == BE16(lu)
           bw == BE16(lw)
<1>5. CertValue(cert) = ((((head \o t) \o bu) \o u) \o bw) \o w
  BY <1>3, Zenon DEF CertValue
<1>6. bu \in Bytes /\ bw \in Bytes /\ Len(bu) = 2 /\ Len(bw) = 2
  <2> HIDE DEF lu, lw
  <2> QED
    BY <1>2, BE16IsBytes
<1> HIDE DEF head, t, u, w, lt, lu, lw, bu, bw
<1> DEFINE r1 == head \o t
           r2 == r1 \o bu
           r3 == r2 \o u
           r4 == r3 \o bw
           r5 == r4 \o w
<1>7. r1 \in Bytes /\ Len(r1) = 2 + lt
  BY <1>1, <1>4, BytesInARow
<1>8. StandsAt(v, 0, r1) <=> StandsAt(v, 0, head) /\ StandsAt(v, 2, t)
  <2>1. StandsAt(v, 0, head \o t) <=> StandsAt(v, 0, head) /\ StandsAt(v, 0 + Len(head), t)
    BY <1>1, <1>4, BytesStandInARow
  <2>2. 0 + Len(head) = 2
    BY <1>4
  <2> QED
    BY <1>1, <1>4, <2>1, <2>2, Zenon
<1> HIDE DEF r1
<1>9. r2 \in Bytes /\ Len(r2) = 4 + lt
  <2>1. r2 \in Bytes /\ Len(r2) = Len(r1) + Len(bu)
    BY <1>6, <1>7, BytesInARow, Zenon
  <2> QED
    BY ONLY <1>2, <1>6, <1>7, <2>1
<1>10. StandsAt(v, 0, r2) <=> StandsAt(v, 0, r1) /\ StandsAt(v, 2 + lt, bu)
  <2>1. 0 \in Nat /\ 0 + Len(r1) = 2 + lt
    BY ONLY <1>2, <1>7
  <2> QED
    BY <1>6, <1>7, <2>1, BytesStandInARow, Zenon
<1> HIDE DEF r2
<1>11. r3 \in Bytes /\ Len(r3) = 4 + lt + lu
  <2>1. r3 \in Bytes /\ Len(r3) = Len(r2) + Len(u)
    BY <1>1, <1>9, BytesInARow, Zenon
  <2> QED
    BY ONLY <1>1, <1>2, <1>9, <2>1
<1>12. StandsAt(v, 0, r3) <=> StandsAt(v, 0, r2) /\ StandsAt(v, 4 + lt, u)
  <2>1. 0 \in Nat /\ 0 + Len(r2) = 4 + lt
    BY ONLY <1>2, <1>9
  <2> QED
    BY <1>1, <1>9, <2>1, BytesStandInARow, Zenon
<1> HIDE DEF r3
<1>13. r4 \in Bytes /\ Len(r4) = 6 + lt + lu
  <2>1. r4 \in Bytes /\ Len(r4) = Len(r3) + Len(bw)
    BY <1>6, <1>11, BytesInARow, Zenon
  <2> QED
    BY ONLY <1>2, <1>6, <1>11, <2>1
<1>14. StandsAt(v, 0, r4) <=> StandsAt(v, 0, r3) /\ StandsAt(v, 4 + lt + lu, bw)
  <2>1. 0 \in Nat /\ 0 + Len(r3) = 4 + lt + lu
    BY ONLY <1>2, <1>11
  <2> QED
    BY <1>6, <1>11, <2>1, BytesStandInARow, Zenon
<1> HIDE DEF r4
<1>15. r5 \in Bytes /\ Len(r5) = 6 + lt + lu + lw
  <2>1. r5 \in Bytes /\ Len(r5) = Len(r4) + Len(w)
    BY <1>1, <1>13, BytesInARow, Zenon
  <2> QED
    BY ONLY <1>1, <1>2, <1>13, <2>1
<1>16. StandsAt(v, 0, r5) <=> StandsAt(v, 0, r4) /\ StandsAt(v, 6 + lt + lu, w)
  <2>1. 0 \in Nat /\ 0 + Len(r4) = 6 + lt + lu
    BY ONLY <1>2, <1>13
  <2> QED
    BY <1>1, <1>13, <2>1, BytesStandInARow, Zenon
<1>17. CertValue(cert) = r5
  BY <1>5 DEF r4, r3, r2, r1
<1> HIDE DEF r5
<1>18. StandsAt(v, 0, r5) <=>
          /\ StandsAt(v, 0, head) /\ StandsAt(v, 2, t)
          /\ StandsAt(v, 2 + lt, bu) /\ StandsAt(v, 4 + lt, u)
          /\ StandsAt(v, 4 + lt + lu, bw) /\ StandsAt(v, 6 + lt + lu, w)
  BY <1>8, <1>10, <1>12, <1>14, <1>16
<1> QED
  BY <1>15, <1>17, <1>18, Zenon DEF head, t, u, w, lt, lu, lw, bu, bw

-----------------------------------------------------------------------------
(* Entries.                                                                *)

EntryForms == [type : Byte, value : Bytes]

\* An entry: its type, the length of its value and the value.
LEMMA TlvParts ==
    ASSUME NEW t \in EntryForms, NEW s \in Bytes, NEW i \in Nat
    PROVE  /\ Tlv(t) \in Bytes
           /\ Len(Tlv(t)) = 3 + Len(t.value)
           /\ StandsAt(s, i, Tlv(t)) <=>
                 /\ StandsAt(s, i, <<t.type>>)
                 /\ StandsAt(s, i + 1, BE16(Len(t.value)))
                 /\ StandsAt(s, i + 3, t.value)
<1> DEFINE head == <<t.type>>
           v == t.value
           l == Len(v)
           len == BE16(l)
<1>1. head \in Bytes /\ Len(head) = 1
  BY DEF EntryForms, Bytes
<1>2. v \in Bytes /\ l = Len(v) /\ l \in Nat
  BY LenProperties DEF EntryForms, Bytes
<1>3. len \in Bytes /\ Len(len) = 2
  <2> HIDE DEF l
  <2> QED
    BY <1>2, BE16IsBytes
<1>4. Tlv(t) = (head \o len) \o v
  BY Zenon DEF Tlv
<1> HIDE DEF head, v, l, len
<1> DEFINE r == head \o len
<1>5. r \in Bytes /\ Len(r) = 3
  <2>1. r \in Bytes /\ Len(r) = Len(head) + Len(len)
    BY <1>1, <1>3, BytesInARow
  <2> QED
    BY ONLY <1>1, <1>3, <2>1
<1>6. StandsAt(s, i, r) <=> StandsAt(s, i, head) /\ StandsAt(s, i + 1, len)
  BY <1>1, <1>3, BytesStandInARow
<1> HIDE DEF r
<1>7. r \o v \in Bytes /\ Len(r \o v) = 3 + l
  <2>1. r \o v \in Bytes /\ Len(r \o v) = Len(r) + Len(v)
    BY <1>2, <1>5, BytesInARow
  <2> QED
    BY ONLY <1>2, <1>5, <2>1
<1>8. StandsAt(s, i, r \o v) <=> StandsAt(s, i, r) /\ StandsAt(s, i + 3, v)
  BY <1>2, <1>5, BytesStandInARow
<1>9. Tlv(t) = r \o v
  BY <1>4 DEF r
<1>10. StandsAt(s, i, Tlv(t)) <=>
          StandsAt(s, i, head) /\ StandsAt(s, i + 1, len) /\ StandsAt(s, i + 3, v)
  BY <1>6, <1>8, <1>9, Zenon
<1> QED
  BY <1>7, <1>9, <1>10, Zenon DEF head, v, l, len

\* The entry that the gateway writes for a certificate.
CertEntry(cert) == [type |-> TlvTypeClientCert, value |-> CertValue(cert)]

\* The gateway's certificates and their entries fit the fields of their lengths.
LEMMA CertsFit ==
    ASSUME NEW cert \in Certs
    PROVE  /\ Fitting(cert) /\ cert # NoCert
           /\ Len(cert.subject) \in Ushort /\ Len(cert.issuer) \in Ushort
           /\ CertValue(cert) \in Bytes /\ Len(CertValue(cert)) \in Ushort
           /\ CertEntry(cert) \in EntryForms /\ BuildClientCertTlv(cert) = Tlv(CertEntry(cert))
           /\ BuildClientCertTlv(cert) \in Bytes /\ Len(BuildClientCertTlv(cert)) \in Ushort
<1>1. cert \in CertForms /\ cert # NoCert
  BY CertsAssumption DEF CertForms
<1>2. Len(cert.thumbprint) \in Byte /\ Len(BuildClientCertTlv(cert)) \in Ushort
  BY CertLengthsAssumption
<1>3. Fitting(cert)
  BY <1>1, <1>2 DEF Fitting
<1> DEFINE size == Len(CertValue(cert))
           thumb == Len(cert.thumbprint)
           subj == Len(cert.subject)
           iss == Len(cert.issuer)
<1>4. <<>> \in Bytes
  BY DEF Bytes
<1>5. CertValue(cert) \in Bytes /\ size = 6 + thumb + subj + iss
  BY <1>3, <1>4, CertValueParts
<1>6. thumb \in Nat /\ subj \in Nat /\ iss \in Nat /\ size \in Nat
  BY <1>1, <1>5, LenProperties DEF CertForms, Bytes
<1>7. CertEntry(cert) \in EntryForms /\ CertEntry(cert).value = CertValue(cert)
  BY <1>5, ByteIs DEF CertEntry, EntryForms, TlvTypeClientCert
<1>8. BuildClientCertTlv(cert) = Tlv(CertEntry(cert))
  BY DEF BuildClientCertTlv, CertEntry
<1>9. BuildClientCertTlv(cert) \in Bytes /\ Len(BuildClientCertTlv(cert)) = 3 + size
  BY <1>4, <1>7, <1>8, TlvParts
<1>10. 3 + size \in Ushort
  BY <1>2, <1>9, Zenon
<1>11. subj \in Ushort /\ iss \in Ushort /\ size \in Ushort
  <2> HIDE DEF size, thumb, subj, iss
  <2>1. 3 + size < 65536
    BY <1>6, <1>10, UshortIs
  <2>2. subj < 65536 /\ iss < 65536 /\ size < 65536
    BY ONLY <1>5, <1>6, <2>1
  <2> QED
    BY <1>6, <2>2, UshortIs
<1> QED
  BY <1>1, <1>2, <1>3, <1>5, <1>7, <1>8, <1>9, <1>11

-----------------------------------------------------------------------------
(* The parser of a value.                                                  *)

ThumbEnd(v) == 2 + v[2]
SubjEnd(v)  == ThumbEnd(v) + 2 + U16(v, ThumbEnd(v))
IssEnd(v)   == SubjEnd(v) + 2 + U16(v, SubjEnd(v))

Broken(v) == \/ Len(v) < 2 \/ v[1] # 1 \/ ThumbEnd(v) + 2 > Len(v)
             \/ SubjEnd(v) + 2 > Len(v) \/ IssEnd(v) > Len(v)

CertIn(v) == [thumbprint |-> SubSeq(v, 3, ThumbEnd(v)),
              subject    |-> SubSeq(v, ThumbEnd(v) + 3, SubjEnd(v)),
              issuer     |-> SubSeq(v, SubjEnd(v) + 3, IssEnd(v))]

\* A value that is cut short is no certificate; the others are read as they are cut.
LEMMA ParseIs ==
    ASSUME NEW v
    PROVE  ParseClientCertTlvValue(v) = IF Broken(v) THEN NoCert ELSE CertIn(v)
  BY Zenon DEF ParseClientCertTlvValue, Broken, CertIn, ThumbEnd, SubjEnd, IssEnd

\* What is cut out of bytes stands where it was cut out.
LEMMA CutStands ==
    ASSUME NEW s \in Bytes, NEW m \in Nat, NEW n \in Nat, m <= n, n <= Len(s)
    PROVE  /\ SubSeq(s, m + 1, n) \in Bytes /\ Len(SubSeq(s, m + 1, n)) = n - m
           /\ StandsAt(s, m, SubSeq(s, m + 1, n))
<1> DEFINE cut == SubSeq(s, m + 1, n)
<1>1. cut \in Bytes /\ Len(cut) = n - m /\ \A i \in 1 .. n - m : cut[i] = s[m + i]
  BY SliceIsBytes
<1>2. Len(s) \in Nat /\ m + (n - m) = n
  BY LenProperties DEF Bytes
<1> HIDE DEF cut
<1>3. StandsAt(s, m, cut)
  BY <1>1, <1>2 DEF StandsAt
<1> QED
  BY <1>1, <1>3 DEF cut

\* The parts of a value that is not broken lie in it, one behind the other.
LEMMA WholeValue ==
    ASSUME NEW v \in Bytes, ~ Broken(v)
    PROVE  /\ v[1] = 1 /\ v[2] \in Byte /\ 2 <= Len(v)
           /\ U16(v, ThumbEnd(v)) \in Ushort /\ U16(v, SubjEnd(v)) \in Ushort
           /\ ThumbEnd(v) \in Nat /\ SubjEnd(v) \in Nat /\ IssEnd(v) \in Nat
           /\ ThumbEnd(v) + 2 <= SubjEnd(v) /\ SubjEnd(v) + 2 <= IssEnd(v)
           /\ IssEnd(v) <= Len(v)
<1> DEFINE l == Len(v)
<1>1. l \in Nat /\ \A i \in 1 .. l : v[i] \in Byte
  BY LenProperties, ElementOfSeq DEF Bytes
<1>2. 2 <= l /\ v[1] = 1
  BY <1>1 DEF Broken
<1>3. v[2] \in Byte /\ v[2] \in Nat
  BY <1>1, <1>2, ByteIs
<1> DEFINE t == ThumbEnd(v)
<1>4. t \in Nat
  BY <1>3 DEF ThumbEnd
<1>5. t + 2 <= l
  BY <1>1, <1>4 DEF Broken
<1> DEFINE a == U16(v, t)
           u == SubjEnd(v)
<1>6. a \in Ushort /\ a \in Nat
  BY <1>4, <1>5, U16IsUshort, UshortIs
<1>7. u = t + 2 + a
  BY DEF SubjEnd
<1>8. u \in Nat /\ t + 2 <= u
  <2> HIDE DEF t, a, u
  <2> QED
    BY ONLY <1>4, <1>6, <1>7
<1>9. u + 2 <= l
  BY <1>1, <1>8 DEF Broken
<1> DEFINE b == U16(v, u)
           w == IssEnd(v)
<1>10. b \in Ushort /\ b \in Nat
  BY <1>8, <1>9, U16IsUshort, UshortIs
<1>11. w = u + 2 + b
  BY DEF IssEnd
<1>12. w \in Nat /\ u + 2 <= w
  <2> HIDE DEF u, b, w
  <2> QED
    BY ONLY <1>8, <1>10, <1>11
<1>13. w <= l
  BY <1>1, <1>12 DEF Broken
<1> QED
  BY <1>2, <1>3, <1>4, <1>6, <1>8, <1>10, <1>12, <1>13

\* A certificate that is found is one, and the value starts with its encoding.
LEMMA ParseFinds ==
    ASSUME NEW v \in Bytes, ~ Broken(v)
    PROVE  CertIn(v) \in CertForms /\ Holds(v, CertIn(v))
<1> DEFINE t == ThumbEnd(v)
           u == SubjEnd(v)
           w == IssEnd(v)
           a == U16(v, t)
           b == U16(v, u)
           c == CertIn(v)
           d == v[2]
<1>1. /\ v[1] = 1 /\ d \in Byte /\ 2 <= Len(v) /\ a \in Ushort /\ b \in Ushort
      /\ t \in Nat /\ u \in Nat /\ w \in Nat
      /\ t + 2 <= u /\ u + 2 <= w /\ w <= Len(v)
  BY WholeValue
<1>2. t = 2 + d /\ u = t + 2 + a /\ w = u + 2 + b
  BY DEF ThumbEnd, SubjEnd, IssEnd
<1>3. Len(v) \in Nat /\ d \in Nat /\ a \in Nat /\ b \in Nat
  BY <1>1, LenProperties, ByteIs, UshortIs DEF Bytes
<1>4. /\ c.thumbprint = SubSeq(v, 3, t) /\ c.subject = SubSeq(v, t + 3, u)
      /\ c.issuer = SubSeq(v, u + 3, w)
      /\ c = [thumbprint |-> c.thumbprint, subject |-> c.subject, issuer |-> c.issuer]
  BY DEF CertIn
<1> HIDE DEF t, u, w, a, b, c, d
<1>5. /\ 2 <= t /\ t <= Len(v) /\ t + 2 <= Len(v) /\ u <= Len(v) /\ u + 2 <= Len(v)
      /\ 2 + 1 = 3 /\ t + 2 + 1 = t + 3 /\ u + 2 + 1 = u + 3
      /\ t - 2 = d /\ u - (t + 2) = a /\ w - (u + 2) = b /\ t + 2 \in Nat /\ u + 2 \in Nat
  BY ONLY <1>1, <1>2, <1>3
<1>6. /\ c.thumbprint \in Bytes /\ Len(c.thumbprint) = d /\ StandsAt(v, 2, c.thumbprint)
  <2>1. /\ SubSeq(v, 2 + 1, t) \in Bytes /\ Len(SubSeq(v, 2 + 1, t)) = t - 2
        /\ StandsAt(v, 2, SubSeq(v, 2 + 1, t))
    BY <1>1, <1>3, <1>5, CutStands
  <2> QED
    BY <1>4, <1>5, <2>1, Zenon
<1>7. c.subject \in Bytes /\ Len(c.subject) = a /\ StandsAt(v, t + 2, c.subject)
  <2>1. /\ SubSeq(v, (t + 2) + 1, u) \in Bytes /\ Len(SubSeq(v, (t + 2) + 1, u)) = u - (t + 2)
        /\ StandsAt(v, t + 2, SubSeq(v, (t + 2) + 1, u))
    BY <1>1, <1>3, <1>5, CutStands
  <2> QED
    BY <1>4, <1>5, <2>1, Zenon
<1>8. c.issuer \in Bytes /\ Len(c.issuer) = b /\ StandsAt(v, u + 2, c.issuer)
  <2>1. /\ SubSeq(v, u + 2 + 1, w) \in Bytes /\ Len(SubSeq(v, u + 2 + 1, w)) = w - (u + 2)
        /\ StandsAt(v, u + 2, SubSeq(v, u + 2 + 1, w))
    BY <1>1, <1>3, <1>5, CutStands
  <2> QED
    BY <1>4, <1>5, <2>1, Zenon
<1>9. c \in CertForms
  BY <1>4, <1>6, <1>7, <1>8 DEF CertForms
<1>10. Fitting(c)
  BY <1>1, <1>6, <1>9 DEF Fitting
<1>11. StandsAt(v, 0, <<1, d>>)
  <2> DEFINE two == <<1, d>>
  <2>1. Len(two) = 2 /\ two[1] = 1 /\ two[2] = d
    OBVIOUS
  <2>2. v[1] = 1 /\ v[2] = d
    BY <1>1 DEF d
  <2>3. \A k \in 1 .. 2 : k = 1 \/ k = 2
    OBVIOUS
  <2> HIDE DEF two
  <2>4. StandsAt(v, 0, two)
    BY <1>1, <1>3, <2>1, <2>2, <2>3 DEF StandsAt
  <2> QED
    BY <2>4 DEF two
<1>12. StandsAt(v, t, BE16(a)) /\ StandsAt(v, u, BE16(b))
  BY <1>1, <1>5, BE16OfU16 DEF a, b
<1>13. /\ 2 + d = t /\ 4 + d = t + 2 /\ 4 + d + a = u /\ 6 + d + a = u + 2
  BY ONLY <1>1, <1>2, <1>3
<1>14. CertValue(c) \in Bytes /\ StandsAt(v, 0, CertValue(c))
  BY <1>6, <1>7, <1>8, <1>10, <1>11, <1>12, <1>13, CertValueParts
<1>15. Holds(v, c)
  BY <1>14, PrefixStands DEF Holds
<1> QED
  BY <1>9, <1>15 DEF c

\* The certificate that a value starts with is the one that is found.
LEMMA ParseInverse ==
    ASSUME NEW cert \in Certs, NEW v \in Bytes, Holds(v, cert)
    PROVE  ParseClientCertTlvValue(v) = cert
<1> DEFINE t == cert.thumbprint
           u == cert.subject
           w == cert.issuer
           lt == Len(t)
           lu == Len(u)
           lw == Len(w)
<1>1. /\ Fitting(cert) /\ lu \in Ushort /\ lw \in Ushort /\ CertValue(cert) \in Bytes
      /\ t \in Bytes /\ u \in Bytes /\ w \in Bytes
      /\ cert = [thumbprint |-> t, subject |-> u, issuer |-> w]
  BY CertsFit DEF Fitting, CertForms
<1>2. /\ StandsAt(v, 0, <<1, lt>>) /\ StandsAt(v, 2, t)
      /\ StandsAt(v, 2 + lt, BE16(lu)) /\ StandsAt(v, 4 + lt, u)
      /\ StandsAt(v, 4 + lt + lu, BE16(lw)) /\ StandsAt(v, 6 + lt + lu, w)
  <2>1. StandsAt(v, 0, CertValue(cert))
    BY <1>1, PrefixStands DEF Holds
  <2> QED
    BY <1>1, <2>1, CertValueParts
<1>3. lt \in Nat /\ lu \in Nat /\ lw \in Nat /\ Len(v) \in Nat /\ Len(t) = lt /\ Len(u) = lu
      /\ Len(w) = lw
  BY <1>1, LenProperties DEF Bytes
<1> HIDE DEF t, u, w, lt, lu, lw
<1>4. v[1] = 1 /\ v[2] = lt
  <2> DEFINE two == <<1, lt>>
  <2>1. Len(two) = 2 /\ two[1] = 1 /\ two[2] = lt /\ StandsAt(v, 0, two)
    BY <1>2
  <2>2. 1 \in 1 .. 2 /\ 2 \in 1 .. 2 /\ 0 + 1 = 1 /\ 0 + 2 = 2
    OBVIOUS
  <2> HIDE DEF two
  <2> QED
    BY <2>1, <2>2 DEF StandsAt
<1>5. ThumbEnd(v) = 2 + lt
  BY <1>4 DEF ThumbEnd
<1>6. U16(v, 2 + lt) = lu
  BY <1>1, <1>2, <1>3, U16OfBE16
<1>7. SubjEnd(v) = 4 + lt + lu
  <2>1. SubjEnd(v) = (2 + lt) + 2 + lu
    BY <1>5, <1>6 DEF SubjEnd
  <2> QED
    BY ONLY <1>3, <2>1
<1>8. U16(v, 4 + lt + lu) = lw
  BY <1>1, <1>2, <1>3, U16OfBE16
<1>9. IssEnd(v) = 6 + lt + lu + lw
  <2>1. IssEnd(v) = (4 + lt + lu) + 2 + lw
    BY <1>7, <1>8 DEF IssEnd
  <2> QED
    BY ONLY <1>3, <2>1
<1>10. 6 + lt + lu + lw <= Len(v)
  BY <1>2, <1>3 DEF StandsAt
<1>11. ~ Broken(v)
  <2>1. /\ ~ (Len(v) < 2) /\ ~ (2 + lt + 2 > Len(v)) /\ ~ (4 + lt + lu + 2 > Len(v))
        /\ ~ (6 + lt + lu + lw > Len(v))
    BY ONLY <1>3, <1>10
  <2> QED
    BY <1>4, <1>5, <1>7, <1>9, <2>1 DEF Broken
<1>12. CertIn(v).thumbprint = t
  <2>1. SubSeq(v, 2 + 1, 2 + Len(t)) = t
    BY <1>1, <1>2, StandingSlice DEF Bytes
  <2>2. 2 + 1 = 3
    OBVIOUS
  <2> QED
    BY <1>3, <1>5, <2>1, <2>2 DEF CertIn
<1>13. CertIn(v).subject = u
  <2>1. SubSeq(v, (4 + lt) + 1, (4 + lt) + Len(u)) = u
    <3>1. 4 + lt \in Nat
      BY <1>3
    <3>2. v \in Seq(Byte) /\ u \in Seq(Byte)
      BY <1>1 DEF Bytes
    <3> QED
      BY <1>2, <3>1, <3>2, StandingSlice, Zenon
  <2>2. (4 + lt) + 1 = (2 + lt) + 3 /\ (4 + lt) + lu = 4 + lt + lu
    BY ONLY <1>3
  <2>3. SubSeq(v, (2 + lt) + 3, 4 + lt + lu) = u
    BY <1>3, <2>1, <2>2, Zenon
  <2>4. CertIn(v).subject = SubSeq(v, ThumbEnd(v) + 3, SubjEnd(v))
    BY Zenon DEF CertIn
  <2> QED
    BY <1>5, <1>7, <2>3, <2>4, Zenon
<1>14. CertIn(v).issuer = w
  <2>1. SubSeq(v, (6 + lt + lu) + 1, (6 + lt + lu) + Len(w)) = w
    <3>1. 6 + lt + lu \in Nat
      BY <1>3
    <3>2. v \in Seq(Byte) /\ w \in Seq(Byte)
      BY <1>1 DEF Bytes
    <3> QED
      BY <1>2, <3>1, <3>2, StandingSlice, Zenon
  <2>2. (6 + lt + lu) + 1 = (4 + lt + lu) + 3 /\ (6 + lt + lu) + lw = 6 + lt + lu + lw
    BY ONLY <1>3
  <2>3. SubSeq(v, (4 + lt + lu) + 3, 6 + lt + lu + lw) = w
    BY <1>3, <2>1, <2>2, Zenon
  <2>4. CertIn(v).issuer = SubSeq(v, SubjEnd(v) + 3, IssEnd(v))
    BY Zenon DEF CertIn
  <2> QED
    BY <1>7, <1>9, <2>3, <2>4, Zenon
<1>15. CertIn(v) = cert
  BY <1>1, <1>12, <1>13, <1>14 DEF CertIn
<1> QED
  BY <1>11, <1>15, ParseIs

-----------------------------------------------------------------------------
(* The walk through the entries of a frame.                                *)

\* What the walk yields from an offset on, from what it yields further on.
ValuesFrom(data, f, off) ==
    LET next == off + 3 + U16(data, off + 1)
    IN  IF off + 3 > Len(data) \/ next > Len(data) THEN <<>>
        ELSE (IF data[off + 1] = TlvTypeClientCert
              THEN <<SubSeq(data, off + 4, next)>> ELSE <<>>) \o f[next]

Walk(data, f) == f = [off \in 0 .. Len(data) |-> ValuesFrom(data, f, off)]

\* An offset at which the walk goes on goes on further up.
LEMMA WalkGoesUp ==
    ASSUME NEW data \in Bytes, NEW off \in 0 .. Len(data),
           ~ (off + 3 > Len(data) \/ off + 3 + U16(data, off + 1) > Len(data))
    PROVE  /\ off + 3 + U16(data, off + 1) \in off + 1 .. Len(data)
           /\ SubSeq(data, off + 4, off + 3 + U16(data, off + 1)) \in Bytes
<1> DEFINE n == U16(data, off + 1)
           l == Len(data)
<1>1. l \in Nat /\ off \in Nat
  BY LenProperties DEF Bytes
<1>2. off + 1 + 2 <= l /\ off + 1 \in Nat /\ off + 3 \in Nat
  BY <1>1
<1>3. n \in Nat
  BY <1>2, U16IsUshort, UshortIs
<1>4. off + 3 + n \in Nat /\ off + 3 + n <= l /\ off + 3 + n >= off + 1
  BY <1>1, <1>3
<1>5. SubSeq(data, (off + 3) + 1, off + 3 + n) \in Bytes
  BY <1>2, <1>4, SliceIsBytes
<1>6. (off + 3) + 1 = off + 4
  BY <1>1
<1> QED
  BY <1>1, <1>4, <1>5, <1>6

\* There is a walk: from the end of the data down, each offset yields what it does by
\* what is yielded above it.
LEMMA WalkExists == ASSUME NEW data \in Bytes PROVE \E f : Walk(data, f)
<1> DEFINE l == Len(data)
           Part(f, off) == f = [i \in off .. l |-> ValuesFrom(data, f, i)]
           Reached == {off \in 0 .. l : \E f : Part(f, off)}
<1>1. l \in Nat
  BY LenProperties DEF Bytes
<1>2. ASSUME NEW off \in 0 .. l, \A above \in off + 1 .. l : above \in Reached
      PROVE  off \in Reached
  <2>1. PICK g : g = [i \in off + 1 .. l |-> ValuesFrom(data, g, i)]
    <3>1. CASE off = l
      <4>1. off + 1 .. l = {}
        BY <1>1, <3>1
      <4> DEFINE none == [i \in {} |-> ValuesFrom(data, <<>>, i)]
      <4>2. none = [i \in {} |-> ValuesFrom(data, none, i)]
        OBVIOUS
      <4> HIDE DEF none
      <4> QED
        BY <4>1, <4>2, Zenon
    <3>2. CASE off # l
      <4>1. off + 1 \in off + 1 .. l
        BY <1>1, <3>2
      <4> QED
        BY <1>2, <4>1
    <3> QED
      BY <3>1, <3>2
  <2> DEFINE h == [i \in off .. l |-> IF i = off THEN ValuesFrom(data, g, off) ELSE g[i]]
  <2>2. ASSUME NEW i \in off .. l PROVE ValuesFrom(data, h, i) = ValuesFrom(data, g, i)
    <3> DEFINE next == i + 3 + U16(data, i + 1)
    <3>1. CASE i + 3 > l \/ next > l
      BY <3>1, Zenon DEF ValuesFrom
    <3>2. CASE ~ (i + 3 > l \/ next > l)
      <4>1. i \in 0 .. l /\ next \in i + 1 .. l
        BY <1>1, <3>2, WalkGoesUp
      <4>2. next \in off .. l /\ next # off
        BY <1>1, <4>1
      <4>3. h[next] = g[next]
        BY <4>2
      <4> HIDE DEF h
      <4> QED
        BY <3>2, <4>3, Zenon DEF ValuesFrom
    <3> QED
      BY <3>1, <3>2
  <2>3. ASSUME NEW i \in off .. l PROVE h[i] = ValuesFrom(data, h, i)
    <3>1. CASE i = off
      BY <2>2, <3>1
    <3>2. CASE i # off
      <4>1. i \in off + 1 .. l
        BY <1>1, <3>2
      <4>2. g[i] = ValuesFrom(data, g, i)
        BY <2>1, <4>1, Zenon
      <4> QED
        BY <2>2, <3>2, <4>2
    <3> QED
      BY <3>1, <3>2
  <2>4. h = [i \in off .. l |-> ValuesFrom(data, h, i)]
    <3>1. h = [i \in off .. l |-> h[i]]
      OBVIOUS
    <3> HIDE DEF h
    <3> QED
      BY <2>3, <3>1, Zenon
  <2> QED
    BY <2>4
<1>3. 0 .. l \subseteq Reached
  <2> HIDE DEF Reached
  <2> QED
    BY <1>1, <1>2, DownwardInduction
<1>4. 0 \in Reached
  BY <1>1, <1>3
<1> QED
  BY <1>4 DEF Walk

\* What is yielded are the values of entries.
LEMMA WalkYields ==
    ASSUME NEW data \in Bytes
    PROVE  \E f : /\ Walk(data, f) /\ ClientCertValues(data) = f[0]
                 /\ \A off \in 0 .. Len(data) : f[off] \in Seq(Bytes)
<1> DEFINE f == CHOOSE f : Walk(data, f)
           l == Len(data)
<1>1. ClientCertValues(data) = f[0]
  BY Zenon DEF ClientCertValues, Walk, ValuesFrom
<1>2. Walk(data, f)
  BY WalkExists, Zenon
<1> HIDE DEF f
<1>3. l \in Nat
  BY LenProperties DEF Bytes
<1> DEFINE Typed == {off \in 0 .. l : f[off] \in Seq(Bytes)}
<1>4. ASSUME NEW off \in 0 .. l, \A above \in off + 1 .. l : above \in Typed
      PROVE  off \in Typed
  <2> DEFINE next == off + 3 + U16(data, off + 1)
             own == IF data[off + 1] = TlvTypeClientCert
                    THEN <<SubSeq(data, off + 4, next)>> ELSE <<>>
  <2>1. f[off] = ValuesFrom(data, f, off)
    BY <1>2, Zenon DEF Walk
  <2>2. CASE off + 3 > l \/ next > l
    <3>1. f[off] = <<>>
      BY <2>1, <2>2, Zenon DEF ValuesFrom
    <3>2. <<>> \in Seq(Bytes)
      BY EmptySeq
    <3> QED
      BY <3>1, <3>2
  <2>3. CASE ~ (off + 3 > l \/ next > l)
    <3>1. f[off] = own \o f[next]
      BY <2>1, <2>3, Zenon DEF ValuesFrom
    <3>2. next \in off + 1 .. l /\ SubSeq(data, off + 4, next) \in Bytes
      BY <2>3, WalkGoesUp
    <3>3. f[next] \in Seq(Bytes)
      BY <1>4, <3>2
    <3>4. own \in Seq(Bytes)
      BY <3>2
    <3> HIDE DEF own, next
    <3> QED
      BY <3>1, <3>3, <3>4, ConcatProperties
  <2> QED
    BY <2>2, <2>3
<1>5. 0 .. l \subseteq Typed
  <2> HIDE DEF Typed
  <2> QED
    BY <1>3, <1>4, DownwardInduction
<1> QED
  BY <1>1, <1>2, <1>5

-----------------------------------------------------------------------------
(* The entries that a writer put into a frame.                             *)

\* The data are the entries, one behind the other; ends[i] is where the i-th one ends.
Divided(data, es, ends) ==
    /\ es \in Seq(EntryForms)
    /\ ends \in [0 .. Len(es) -> Nat] /\ ends[0] = 0 /\ ends[Len(es)] = Len(data)
    /\ \A i \in 1 .. Len(es) :
          /\ ends[i] = ends[i - 1] + 3 + Len(es[i].value)
          /\ StandsAt(data, ends[i - 1], Tlv(es[i]))

IsMine(e) == e.type = TlvTypeClientCert

\* Where an entry stands, the walk reads its type, its length and its value.
LEMMA EntryRead ==
    ASSUME NEW data \in Bytes, Len(data) \in Ushort, NEW e \in EntryForms, NEW off \in Nat,
           StandsAt(data, off, Tlv(e))
    PROVE  /\ off + 3 + Len(e.value) <= Len(data)
           /\ data[off + 1] = e.type /\ U16(data, off + 1) = Len(e.value)
           /\ SubSeq(data, off + 4, off + 3 + Len(e.value)) = e.value
<1> DEFINE n == Len(e.value)
           l == Len(data)
<1>1. e.value \in Bytes /\ n \in Nat /\ l \in Nat
  BY LenProperties DEF EntryForms, Bytes
<1>2. /\ StandsAt(data, off, <<e.type>>) /\ StandsAt(data, off + 1, BE16(n))
      /\ StandsAt(data, off + 3, e.value)
  BY TlvParts
<1>3. off + 3 + n <= l
  BY <1>2 DEF StandsAt
<1>4. data[off + 1] = e.type
  <2> DEFINE one == <<e.type>>
  <2>1. 1 \in 1 .. Len(one) /\ one[1] = e.type
    OBVIOUS
  <2> HIDE DEF one
  <2>2. StandsAt(data, off, one)
    BY <1>2 DEF one
  <2> QED
    BY <2>1, <2>2 DEF StandsAt
<1>5. n \in Ushort
  <2>1. l < 65536
    <3> HIDE DEF l
    <3>1. l \in Ushort
      BY DEF l
    <3> QED
      BY <3>1, UshortIs
  <2> HIDE DEF n, l
  <2>2. n < 65536
    BY ONLY <1>1, <1>3, <2>1, off \in Nat
  <2> QED
    BY <1>1, <2>2, UshortIs
<1>6. U16(data, off + 1) = n
  <2> HIDE DEF n
  <2> QED
    BY <1>2, <1>5, U16OfBE16
<1>7. SubSeq(data, (off + 3) + 1, (off + 3) + Len(e.value)) = e.value
  <2>1. off + 3 \in Nat
    OBVIOUS
  <2> QED
    BY <1>1, <1>2, <2>1, StandingSlice DEF Bytes
<1>8. (off + 3) + 1 = off + 4
  OBVIOUS
<1> QED
  BY <1>3, <1>4, <1>6, <1>7, <1>8

\* The last of the values is that of the last client-certificate entry, if there is one.
LEMMA LastValue ==
    ASSUME NEW data \in Bytes, Len(data) \in Ushort, NEW es, NEW ends, Divided(data, es, ends)
    PROVE  \/ /\ ClientCertValues(data) = <<>>
              /\ \A i \in 1 .. Len(es) : ~ IsMine(es[i])
           \/ /\ ClientCertValues(data) \in Seq(Bytes) /\ ClientCertValues(data) # <<>>
              /\ \E i \in 1 .. Len(es) :
                    /\ IsMine(es[i]) /\ \A j \in i + 1 .. Len(es) : ~ IsMine(es[j])
                    /\ Last(ClientCertValues(data)) = es[i].value
<1> DEFINE n == Len(es)
           l == Len(data)
<1>1. PICK f : /\ Walk(data, f) /\ ClientCertValues(data) = f[0]
               /\ \A off \in 0 .. Len(data) : f[off] \in Seq(Bytes)
  BY WalkYields
<1>2. n \in Nat /\ l \in Nat /\ es \in Seq(EntryForms)
  BY LenProperties DEF Divided, Bytes
<1>3. ASSUME NEW i \in 1 .. n
      PROVE  /\ es[i] \in EntryForms /\ ends[i - 1] \in Nat /\ ends[i] \in Nat
             /\ ends[i] = ends[i - 1] + 3 + Len(es[i].value) /\ ends[i] <= l
             /\ data[ends[i - 1] + 1] = es[i].type
             /\ U16(data, ends[i - 1] + 1) = Len(es[i].value)
             /\ SubSeq(data, ends[i - 1] + 4, ends[i]) = es[i].value
             /\ es[i].value \in Bytes /\ Len(es[i].value) \in Nat
  <2>1. es[i] \in EntryForms
    BY <1>2, ElementOfSeq
  <2>2. i - 1 \in 0 .. n /\ i \in 0 .. n
    BY <1>2
  <2>3. /\ ends[i - 1] \in Nat /\ ends[i] \in Nat
        /\ ends[i] = ends[i - 1] + 3 + Len(es[i].value)
        /\ StandsAt(data, ends[i - 1], Tlv(es[i]))
    BY <2>2 DEF Divided
  <2>4. es[i].value \in Bytes /\ Len(es[i].value) \in Nat
    BY <2>1, LenProperties DEF EntryForms, Bytes
  <2>5. /\ ends[i - 1] + 3 + Len(es[i].value) <= l /\ data[ends[i - 1] + 1] = es[i].type
        /\ U16(data, ends[i - 1] + 1) = Len(es[i].value)
        /\ SubSeq(data, ends[i - 1] + 4, ends[i - 1] + 3 + Len(es[i].value)) = es[i].value
    BY <2>1, <2>3, EntryRead
  <2> QED
    BY <2>1, <2>3, <2>4, <2>5, Zenon
<1> DEFINE Decided(i) ==
               \/ f[ends[i]] = <<>> /\ \A j \in i + 1 .. n : ~ IsMine(es[j])
               \/ /\ f[ends[i]] \in Seq(Bytes) /\ f[ends[i]] # <<>>
                  /\ \E k \in i + 1 .. n :
                        /\ IsMine(es[k]) /\ \A j \in k + 1 .. n : ~ IsMine(es[j])
                        /\ Last(f[ends[i]]) = es[k].value
           Settled == {i \in 0 .. n : Decided(i)}
<1>4. ASSUME NEW i \in 0 .. n, \A j \in i + 1 .. n : j \in Settled
      PROVE  i \in Settled
  <2>1. CASE i = n
    <3>1. ends[n] = l /\ l \in 0 .. l /\ l + 3 > l
      BY <1>2 DEF Divided
    <3>2. f[l] = ValuesFrom(data, f, l)
      BY <1>1, <3>1, Zenon DEF Walk
    <3>3. f[l] = <<>>
      BY <3>1, <3>2, Zenon DEF ValuesFrom
    <3>4. n + 1 .. n = {}
      BY <1>2
    <3> QED
      BY <2>1, <3>1, <3>3, <3>4
  <2>2. CASE i # n
    <3> DEFINE m == i + 1
               off == ends[i]
               e == es[m]
               own == IF IsMine(e) THEN <<e.value>> ELSE <<>>
    <3>1. m \in 1 .. n /\ m \in i + 1 .. n /\ m - 1 = i
      BY <1>2, <2>2
    <3>2. /\ off \in Nat /\ ends[m] \in Nat /\ ends[m] = off + 3 + Len(e.value)
          /\ ends[m] <= l /\ data[off + 1] = e.type /\ U16(data, off + 1) = Len(e.value)
          /\ SubSeq(data, off + 4, ends[m]) = e.value /\ e.value \in Bytes
          /\ Len(e.value) \in Nat
      BY <1>3, <3>1
    <3>3. ~ (off + 3 > l \/ ends[m] > l) /\ off \in 0 .. l /\ ends[m] \in 0 .. l
      <4> DEFINE size == Len(e.value)
                 end == ends[m]
      <4>1. /\ off \in Nat /\ end \in Nat /\ size \in Nat /\ l \in Nat
            /\ end = off + 3 + size /\ end <= l
        BY <1>2, <3>2
      <4> HIDE DEF off, size, end, l
      <4>2. ~ (off + 3 > l \/ end > l) /\ off \in 0 .. l /\ end \in 0 .. l
        BY ONLY <4>1
      <4> QED
        BY <4>2 DEF off, end, l
    <3>4. f[off] = ValuesFrom(data, f, off)
      BY <1>1, <3>3, Zenon DEF Walk
    <3>5. off + 3 + U16(data, off + 1) = ends[m]
      BY <3>2
    <3>6. f[off] = own \o f[ends[m]]
      BY <3>2, <3>3, <3>4, <3>5, Zenon DEF ValuesFrom, IsMine
    <3>7. Decided(m)
      BY <1>4, <3>1
    <3>8. f[ends[m]] \in Seq(Bytes)
      BY <1>1, <3>3
    <3> DEFINE rest == f[ends[m]]
    <3>9. CASE ~ IsMine(e)
      <4>1. own = <<>>
        BY <3>9
      <4>2. f[off] = rest
        BY <3>6, <3>8, <4>1, ConcatEmptySeq
      <4>3. \A j \in i + 1 .. n : j = m \/ j \in m + 1 .. n
        BY <1>2, <3>1
      <4>4. \A j \in m + 1 .. n : j \in i + 1 .. n
        BY <1>2, <3>1
      <4>5. Decided(i)
        BY <3>7, <3>9, <4>2, <4>3, <4>4, Zenon
      <4> QED
        BY <4>5
    <3>10. CASE IsMine(e)
      <4>1. own = <<e.value>> /\ own \in Seq(Bytes) /\ Len(own) = 1
        BY <3>2, <3>10
      <4>2. /\ f[off] \in Seq(Bytes) /\ Len(f[off]) = 1 + Len(rest)
            /\ f[off][1] = e.value
            /\ \A k \in 1 .. Len(rest) : f[off][1 + k] = rest[k]
        <5> HIDE DEF rest
        <5>1. f[off] = <<e.value>> \o rest /\ rest \in Seq(Bytes) /\ e.value \in Bytes
          BY <3>2, <3>6, <3>8, <4>1 DEF rest
        <5> HIDE DEF own, off, e
        <5> QED
          BY ONLY <5>1
      <4>3. f[off] # <<>>
        BY <3>8, <4>2, EmptySeq, LenProperties
      <4>4. CASE rest = <<>>
        <5>1. Last(f[off]) = e.value
          BY <4>2, <4>4 DEF Last
        <5>2. \A j \in m + 1 .. n : ~ IsMine(es[j])
          BY <3>7, <4>4
        <5> QED
          BY <3>1, <3>10, <4>2, <4>3, <5>1, <5>2
      <4>5. CASE rest # <<>>
        <5>1. Len(rest) \in Nat /\ Len(rest) # 0
          BY <3>8, <4>5, EmptySeq, LenProperties
        <5>2. Last(f[off]) = Last(rest)
          <6>1. Len(rest) \in 1 .. Len(rest)
            BY <5>1
          <6>2. f[off][1 + Len(rest)] = rest[Len(rest)]
            BY <4>2, <6>1, Zenon
          <6> QED
            BY <4>2, <6>2, Zenon DEF Last
        <5>3. PICK k \in m + 1 .. n :
                 /\ IsMine(es[k]) /\ \A j \in k + 1 .. n : ~ IsMine(es[j])
                 /\ Last(rest) = es[k].value
          BY <3>7, <4>5
        <5>4. k \in i + 1 .. n
          BY <1>2, <3>1, <5>3
        <5>5. Decided(i)
          BY <4>2, <4>3, <5>2, <5>3, <5>4, Zenon
        <5> QED
          BY <5>5
      <4> QED
        BY <4>4, <4>5
    <3> QED
      BY <3>9, <3>10
  <2> QED
    BY <2>1, <2>2
<1>5. 0 .. n \subseteq Settled
  <2> HIDE DEF Settled
  <2> QED
    BY <1>2, <1>4, DownwardInduction
<1>6. Decided(0) /\ ends[0] = 0
  <2>1. 0 \in 0 .. n
    BY <1>2
  <2>2. 0 \in Settled
    BY <1>5, <2>1, Zenon
  <2>3. ends[0] = 0
    BY DEF Divided
  <2> HIDE DEF Decided
  <2> QED
    BY <2>2, <2>3
<1>7. 0 + 1 = 1
  OBVIOUS
<1> QED
  BY <1>1, <1>6, <1>7

\* What stands in a sequence stands in what begins with it; what follows stands behind it.
LEMMA StandsLonger ==
    ASSUME NEW a \in Bytes, NEW s \in Bytes, NEW b \in Bytes, NEW i \in Nat
    PROVE  /\ StandsAt(s, i, a) => StandsAt(s \o b, i, a)
           /\ StandsAt(s \o b, Len(s), b)
<1>1. Len(s) \in Nat /\ Len(b) \in Nat /\ Len(a) \in Nat
  BY LenProperties DEF Bytes
<1> DEFINE long == s \o b
<1>2. /\ Len(long) = Len(s) + Len(b)
      /\ \A k \in 1 .. Len(s) : long[k] = s[k]
      /\ \A k \in 1 .. Len(b) : long[Len(s) + k] = b[k]
  BY <1>1, ConcatProperties DEF Bytes
<1> HIDE DEF long
<1>3. ASSUME StandsAt(s, i, a) PROVE StandsAt(long, i, a)
  <2>1. i + Len(a) <= Len(s) /\ \A k \in 1 .. Len(a) : s[i + k] = a[k]
    BY <1>3 DEF StandsAt
  <2>2. ASSUME NEW k \in 1 .. Len(a) PROVE long[i + k] = a[k]
    <3>1. i + k \in 1 .. Len(s)
      BY <1>1, <2>1
    <3> QED
      BY <1>2, <2>1, <3>1
  <2>3. i + Len(a) <= Len(long)
    BY <1>1, <1>2, <2>1
  <2> QED
    BY <2>2, <2>3 DEF StandsAt
<1>4. StandsAt(long, Len(s), b)
  BY <1>1, <1>2 DEF StandsAt
<1> QED
  BY <1>3, <1>4 DEF long

\* What FlattenSeq has put together up to an index, from what it had before.
FlatTo(seqs, f, i) == IF i = 1 THEN seqs[i] ELSE f[i - 1] \o seqs[i]

Flat(seqs, f) == f = [i \in 1 .. Len(seqs) |-> FlatTo(seqs, f, i)]

\* The function that FlattenSeq chooses is there, length by length.
LEMMA FlatExists == ASSUME NEW seqs, Len(seqs) \in Nat PROVE \E f : Flat(seqs, f)
<1> DEFINE Part(n, f) == f = [i \in 1 .. n |-> FlatTo(seqs, f, i)]
           Reached == {n \in Nat : \E f : Part(n, f)}
<1>1. 0 \in Reached
  <2> DEFINE none == [i \in {} |-> FlatTo(seqs, <<>>, i)]
  <2>1. none = [i \in {} |-> FlatTo(seqs, none, i)]
    OBVIOUS
  <2>2. 1 .. 0 = {}
    OBVIOUS
  <2> HIDE DEF none
  <2>3. Part(0, none)
    BY <2>1, <2>2, Zenon
  <2> QED
    BY <2>3
<1>2. ASSUME NEW n \in Nat, n \in Reached PROVE n + 1 \in Reached
  <2>1. PICK g : g = [i \in 1 .. n |-> FlatTo(seqs, g, i)]
    BY <1>2
  <2> DEFINE h == [i \in 1 .. n + 1 |-> IF i = n + 1 THEN FlatTo(seqs, g, i) ELSE g[i]]
  <2>2. ASSUME NEW i \in 1 .. n + 1 PROVE FlatTo(seqs, h, i) = FlatTo(seqs, g, i)
    <3>1. CASE i = 1
      BY <3>1, Zenon DEF FlatTo
    <3>2. CASE i # 1
      <4>1. i - 1 \in 1 .. n + 1 /\ i - 1 # n + 1
        BY <3>2
      <4>2. h[i - 1] = g[i - 1]
        BY <4>1
      <4> HIDE DEF h
      <4> QED
        BY <3>2, <4>2, Zenon DEF FlatTo
    <3> QED
      BY <3>1, <3>2
  <2>3. ASSUME NEW i \in 1 .. n + 1 PROVE h[i] = FlatTo(seqs, h, i)
    <3>1. CASE i = n + 1
      BY <2>2, <3>1
    <3>2. CASE i # n + 1
      <4>1. i \in 1 .. n
        BY <3>2
      <4>2. g[i] = FlatTo(seqs, g, i)
        BY <2>1, <4>1, Zenon
      <4> QED
        BY <2>2, <3>2, <4>2
    <3> QED
      BY <3>1, <3>2
  <2>4. h = [i \in 1 .. n + 1 |-> FlatTo(seqs, h, i)]
    <3>1. h = [i \in 1 .. n + 1 |-> h[i]]
      OBVIOUS
    <3> HIDE DEF h
    <3> QED
      BY <2>3, <3>1, Zenon
  <2>5. n + 1 \in Nat
    OBVIOUS
  <2> QED
    BY <2>4, <2>5
<1>3. Nat \subseteq Reached
  <2> HIDE DEF Reached
  <2> QED
    BY <1>1, <1>2, NumbersByInduction
<1> QED
  BY <1>3 DEF Flat

\* The entries of another proxy are divided as they were written.
LEMMA TlvBlockDivided ==
    ASSUME NEW es \in Seq(EntryForms)
    PROVE  TlvBlock(es) \in Bytes /\ \E ends : Divided(TlvBlock(es), es, ends)
<1> DEFINE n == Len(es)
           seqs == [i \in DOMAIN es |-> Tlv(es[i])]
<1>1. n \in Nat /\ DOMAIN es = 1 .. n
  BY LenProperties
<1>2. ASSUME NEW i \in 1 .. n
      PROVE  /\ es[i] \in EntryForms /\ Tlv(es[i]) \in Bytes /\ Len(es[i].value) \in Nat
             /\ Len(Tlv(es[i])) = 3 + Len(es[i].value)
  <2>1. es[i] \in EntryForms
    BY <1>2, ElementOfSeq
  <2>2. <<>> \in Bytes /\ 0 \in Nat
    BY DEF Bytes
  <2>3. Len(es[i].value) \in Nat
    BY <2>1, LenProperties DEF EntryForms, Bytes
  <2> QED
    BY <2>1, <2>2, <2>3, TlvParts
<1>3. seqs \in Seq(Bytes) /\ Len(seqs) = n /\ \A i \in 1 .. n : seqs[i] = Tlv(es[i])
  BY <1>1, <1>2
<1>4. TlvBlock(es) = FlattenSeq(seqs)
  BY Zenon DEF TlvBlock
<1> HIDE DEF seqs
<1>5. CASE n = 0
  <2>1. TlvBlock(es) = <<>>
    <3>1. seqs = <<>>
      BY <1>3, <1>5, EmptySeq
    <3> QED
      BY <1>3, <1>4, <1>5, <3>1, Zenon DEF FlattenSeq
  <2> DEFINE ends == [i \in 0 .. n |-> 0]
  <2>2. <<>> \in Bytes /\ Len(<<>>) = 0
    BY DEF Bytes
  <2>3. 1 .. n = {} /\ 0 \in 0 .. n
    BY <1>5
  <2>4. ends \in [0 .. n -> Nat] /\ ends[0] = 0 /\ ends[n] = 0
    BY <1>5
  <2> HIDE DEF ends
  <2>5. Divided(<<>>, es, ends)
    BY <2>2, <2>3, <2>4 DEF Divided
  <2> QED
    BY <2>1, <2>2, <2>5
<1>6. CASE n # 0
  <2> DEFINE f == CHOOSE f : Flat(seqs, f)
  <2>1. TlvBlock(es) = f[n]
    BY <1>3, <1>4, <1>6, Zenon DEF FlattenSeq, Flat, FlatTo
  <2>2. Flat(seqs, f)
    BY <1>1, <1>3, FlatExists, Zenon
  <2> HIDE DEF f
  <2>3. ASSUME NEW i \in 1 .. n
        PROVE  f[i] = IF i = 1 THEN Tlv(es[i]) ELSE f[i - 1] \o Tlv(es[i])
    BY <1>3, <2>2, Zenon DEF Flat, FlatTo
  <2> DEFINE ends == [i \in 0 .. n |-> IF i = 0 THEN 0 ELSE Len(f[i])]
             Upto(k) == /\ f[k] \in Bytes
                        /\ ends[k] = ends[k - 1] + 3 + Len(es[k].value)
                        /\ \A i \in 1 .. k : ends[i - 1] \in Nat /\ StandsAt(f[k], ends[i - 1], Tlv(es[i]))
             Done == {k \in Nat : k + 1 \in 1 .. n => Upto(k + 1)}
  <2>4. ends[0] = 0 /\ \A k \in 1 .. n : ends[k] = Len(f[k])
    BY <1>1
  <2> HIDE DEF ends
  <2>5. 0 \in Done
    <3>1. ASSUME 1 \in 1 .. n PROVE Upto(1)
      <4>1. f[1] = Tlv(es[1]) /\ f[1] \in Bytes /\ Len(f[1]) = 3 + Len(es[1].value)
            /\ Len(es[1].value) \in Nat
        BY <1>2, <2>3, <3>1
      <4>2. ends[1] = Len(f[1]) /\ 1 - 1 = 0 /\ 1 .. 1 = {1}
        BY <2>4, <3>1
      <4>3. ends[1] = ends[1 - 1] + 3 + Len(es[1].value)
        BY <2>4, <4>1, <4>2
      <4>4. StandsAt(f[1], 0, f[1])
        BY <4>1, LenProperties DEF StandsAt, Bytes
      <4> QED
        BY <2>4, <4>1, <4>2, <4>3, <4>4
    <3>2. 0 + 1 = 1
      OBVIOUS
    <3> HIDE DEF Upto
    <3> QED
      BY <3>1, <3>2
  <2>6. ASSUME NEW k \in Nat, k \in Done PROVE k + 1 \in Done
    <3> DEFINE m == k + 1
               l == m + 1
    <3>1. ASSUME l \in 1 .. n PROVE Upto(l)
      <4>1. m \in 1 .. n /\ l # 1 /\ l - 1 = m /\ l \in Nat /\ m \in Nat
        BY <1>1, <3>1
      <4>2. Upto(m)
        BY <2>6, <4>1
      <4> DEFINE e == Tlv(es[l])
      <4>3. f[l] = f[m] \o e
        BY <2>3, <3>1, <4>1
      <4>4. e \in Bytes /\ f[m] \in Bytes /\ Len(e) = 3 + Len(es[l].value) /\ Len(es[l].value) \in Nat
        BY <1>2, <3>1, <4>2
      <4>5. f[l] \in Bytes /\ Len(f[l]) = Len(f[m]) + Len(e)
        BY <4>3, <4>4, BytesInARow
      <4>6. ends[m] = Len(f[m]) /\ ends[l] = Len(f[l]) /\ ends[m] \in Nat
        BY <2>4, <3>1, <4>1, <4>4, LenProperties DEF Bytes
      <4>7. ends[l] = ends[l - 1] + 3 + Len(es[l].value)
        <5> DEFINE size == Len(es[l].value)
                   last == ends[m]
                   more == Len(e)
        <5>1. ends[l] = last + more /\ more = 3 + size /\ size \in Nat /\ last \in Nat
          BY <4>4, <4>5, <4>6
        <5> HIDE DEF size, last, more
        <5>2. ends[l] = last + 3 + size
          BY ONLY <5>1
        <5> QED
          BY <4>1, <5>2 DEF last, size
      <4>8. ASSUME NEW i \in 1 .. l
            PROVE  ends[i - 1] \in Nat /\ StandsAt(f[l], ends[i - 1], Tlv(es[i]))
        <5>1. CASE i = l
          <6>1. StandsAt(f[m] \o e, Len(f[m]), e)
            BY <4>4, StandsLonger, 0 \in Nat
          <6> QED
            BY <4>1, <4>3, <4>6, <5>1, <6>1
        <5>2. CASE i # l
          <6>1. i \in 1 .. m /\ i \in 1 .. n
            BY <1>1, <3>1, <4>1, <5>2
          <6>2. ends[i - 1] \in Nat /\ StandsAt(f[m], ends[i - 1], Tlv(es[i]))
            BY <4>2, <6>1
          <6>3. Tlv(es[i]) \in Bytes
            BY <1>2, <6>1
          <6>4. StandsAt(f[m] \o e, ends[i - 1], Tlv(es[i]))
            BY <4>4, <6>2, <6>3, StandsLonger
          <6> QED
            BY <4>3, <6>2, <6>4
        <5> QED
          BY <5>1, <5>2
      <4> HIDE DEF l, m
      <4> QED
        BY <4>5, <4>7, <4>8
    <3> HIDE DEF Upto
    <3> QED
      BY <3>1
  <2>7. Nat \subseteq Done
    <3> HIDE DEF Done
    <3> QED
      BY <2>5, <2>6, NumbersByInduction
  <2>8. ASSUME NEW k \in 1 .. n PROVE Upto(k)
    <3>1. k - 1 \in Nat /\ (k - 1) + 1 = k
      BY <1>1
    <3>2. k - 1 \in Done
      BY <2>7, <3>1
    <3> HIDE DEF Upto
    <3> QED
      BY <3>1, <3>2
  <2>9. n \in 1 .. n /\ Upto(n)
    BY <1>1, <1>6, <2>8
  <2>10. Divided(f[n], es, ends)
    <3>1. ends \in [0 .. n -> Nat]
      <4>1. \A i \in 1 .. n : Len(f[i]) \in Nat
        BY <2>8, LenProperties DEF Bytes
      <4>2. ASSUME NEW i \in 0 .. n PROVE (IF i = 0 THEN 0 ELSE Len(f[i])) \in Nat
        BY <1>1, <4>1
      <4> QED
        BY <4>2, Zenon DEF ends
    <3>2. ends[n] = Len(f[n])
      BY <2>4, <2>9
    <3>3. \A i \in 1 .. n : ends[i] = ends[i - 1] + 3 + Len(es[i].value)
      BY <2>8
    <3>4. \A i \in 1 .. n : StandsAt(f[n], ends[i - 1], Tlv(es[i]))
      BY <2>9
    <3> QED
      BY <2>4, <3>1, <3>2, <3>3, <3>4, Zenon DEF Divided
  <2> QED
    BY <2>1, <2>9, <2>10
<1> QED
  BY <1>5, <1>6

-----------------------------------------------------------------------------
(* What the reader makes of the entries.                                   *)

\* A certificate or none.
LEMMA ParseBlockType ==
    ASSUME NEW data \in Bytes
    PROVE  ParseTlvBlock(data) = NoCert \/ ParseTlvBlock(data) \in CertForms
<1> DEFINE values == ClientCertValues(data)
<1>1. values \in Seq(Bytes)
  <2>1. 0 \in 0 .. Len(data)
    BY LenProperties DEF Bytes
  <2> QED
    BY <2>1, WalkYields
<1> HIDE DEF values
<1>2. CASE values = <<>>
  BY <1>2 DEF ParseTlvBlock, values
<1>3. CASE values # <<>>
  <2>1. Last(values) \in Bytes
    <3>1. Len(values) \in 1 .. Len(values)
      BY <1>1, <1>3, EmptySeq, LenProperties
    <3> QED
      BY <1>1, <3>1, ElementOfSeq DEF Last
  <2>2. ParseTlvBlock(data) = ParseClientCertTlvValue(Last(values))
    BY <1>3, Zenon DEF ParseTlvBlock, values
  <2> QED
    BY <2>1, <2>2, ParseIs, ParseFinds
<1> QED
  BY <1>2, <1>3

\* The property LastCertificateDecides, of any entries and any certificate.
DecidedByLast(es, cert) ==
    LET mine == {i \in DOMAIN es : es[i].type = TlvTypeClientCert}
        last == es[Max(mine)].value
    IN  IF cert = NoCert THEN mine = {} \/ \A c \in Certs : ~ Holds(last, c)
        ELSE mine # {} /\ Holds(last, cert)

\* The last entry decides, wherever the data are divided as the entries were written.
LEMMA ParseDecidedByLast ==
    ASSUME NEW data \in Bytes, Len(data) \in Ushort, NEW es, NEW ends, Divided(data, es, ends)
    PROVE  DecidedByLast(es, ParseTlvBlock(data))
<1> DEFINE n == Len(es)
           values == ClientCertValues(data)
           mine == {i \in DOMAIN es : es[i].type = TlvTypeClientCert}
           last == es[Max(mine)].value
           cert == ParseTlvBlock(data)
<1>1. n \in Nat /\ DOMAIN es = 1 .. n
  BY LenProperties DEF Divided
<1>2. CASE values = <<>> /\ \A i \in 1 .. n : ~ IsMine(es[i])
  <2>1. mine = {}
    BY <1>1, <1>2 DEF IsMine
  <2>2. cert = NoCert
    BY <1>2, Zenon DEF ParseTlvBlock
  <2> QED
    BY <2>1, <2>2, Zenon DEF DecidedByLast
<1>3. ASSUME values # <<>>, values \in Seq(Bytes), NEW i \in 1 .. n,
             IsMine(es[i]), \A j \in i + 1 .. n : ~ IsMine(es[j]), Last(values) = es[i].value
      PROVE  DecidedByLast(es, cert)
  <2>1. i \in mine /\ \A j \in mine : i >= j
    <3>1. ASSUME NEW j \in mine, ~ (i >= j) PROVE FALSE
      <4>1. j \in 1 .. n /\ IsMine(es[j])
        BY <1>1 DEF IsMine
      <4>2. j \in i + 1 .. n
        BY <1>1, <3>1, <4>1
      <4> QED
        BY <1>3, <4>1, <4>2
    <3> QED
      BY <1>1, <1>3, <3>1 DEF IsMine
  <2>2. mine \subseteq Nat
    BY <1>1
  <2>3. Max(mine) = i
    <3> HIDE DEF mine
    <3>1. Max(mine) \in mine /\ \A j \in mine : Max(mine) >= j
      BY <2>1, Zenon DEF Max
    <3>2. Max(mine) >= i /\ i >= Max(mine) /\ Max(mine) \in Nat /\ i \in Nat
      BY <2>1, <2>2, <3>1, Zenon
    <3> QED
      BY <3>2
  <2>4. Last(values) = last
    BY <1>3, <2>3, Zenon
  <2>5. last \in Bytes
    <3>1. Len(values) \in 1 .. Len(values)
      BY <1>3, EmptySeq, LenProperties
    <3> HIDE DEF last, values
    <3> QED
      BY <1>3, <2>4, <3>1, ElementOfSeq DEF Last
  <2>6. cert = ParseClientCertTlvValue(last)
    BY <1>3, <2>4, Zenon DEF ParseTlvBlock
  <2>7. mine # {}
    BY <2>1
  <2> HIDE DEF mine, last, cert
  <2>8. CASE Broken(last)
    <3>1. cert = NoCert
      BY <2>6, <2>8, ParseIs
    <3>2. \A c \in Certs : ~ Holds(last, c)
      <4>1. ASSUME NEW c \in Certs, Holds(last, c) PROVE FALSE
        BY <2>5, <2>6, <3>1, <4>1, ParseInverse, CertsFit
      <4> QED
        BY <4>1
    <3> QED
      BY <3>1, <3>2, Zenon DEF DecidedByLast, mine, last
  <2>9. CASE ~ Broken(last)
    <3>1. cert = CertIn(last) /\ cert \in CertForms /\ Holds(last, cert)
      BY <2>5, <2>6, <2>9, ParseIs, ParseFinds
    <3>2. cert # NoCert
      BY <3>1, CertsAssumption DEF CertForms
    <3> QED
      BY <2>7, <3>1, <3>2, Zenon DEF DecidedByLast, mine, last
  <2> QED
    BY <2>8, <2>9
<1> QED
  BY <1>2, <1>3, LastValue

\* Without entries there is no certificate.
LEMMA ParseNothing == ParseTlvBlock(<<>>) = NoCert
<1> DEFINE none == [i \in 0 .. 0 |-> 0]
<1>1. none \in [0 .. 0 -> Nat] /\ none[0] = 0
  OBVIOUS
<1>2. <<>> \in Bytes /\ Len(<<>>) = 0 /\ <<>> \in Seq(EntryForms) /\ 1 .. 0 = {}
  BY DEF Bytes
<1> HIDE DEF none
<1>3. Divided(<<>>, <<>>, none)
  BY <1>1, <1>2 DEF Divided
<1>4. 0 \in Ushort
  BY UshortIs
<1>5. ClientCertValues(<<>>) = <<>>
  BY <1>2, <1>3, <1>4, LastValue
<1> QED
  BY <1>5, Zenon DEF ParseTlvBlock

\* The gateway's certificate is found in the entry that was written for it.
LEMMA ParseOwnEntry ==
    ASSUME NEW cert \in Certs
    PROVE  ParseTlvBlock(BuildClientCertTlv(cert)) = cert
<1> DEFINE e == CertEntry(cert)
           data == BuildClientCertTlv(cert)
           es == <<e>>
           ends == [i \in 0 .. 1 |-> IF i = 0 THEN 0 ELSE Len(data)]
           v == CertValue(cert)
<1>1. /\ e \in EntryForms /\ data = Tlv(e) /\ data \in Bytes /\ Len(data) \in Ushort
      /\ v \in Bytes
  BY CertsFit
<1>2. e.value = v /\ e.type = TlvTypeClientCert
  BY DEF CertEntry
<1>3. Len(data) = 3 + Len(v) /\ Len(data) \in Nat /\ Len(v) \in Nat
  BY <1>1, <1>2, TlvParts, LenProperties, 0 \in Nat DEF Bytes
<1> HIDE DEF e, data, v
<1>4. es \in Seq(EntryForms) /\ Len(es) = 1 /\ es[1] = e
  BY <1>1
<1>5. ends \in [0 .. 1 -> Nat] /\ ends[0] = 0 /\ ends[1] = Len(data)
  BY <1>3
<1>6. StandsAt(data, 0, data)
  BY <1>3 DEF StandsAt
<1> HIDE DEF es, ends
<1>7. Divided(data, es, ends)
  <2>1. ASSUME NEW i \in 1 .. 1
        PROVE  ends[i] = ends[i - 1] + 3 + Len(es[i].value) /\ StandsAt(data, ends[i - 1], Tlv(es[i]))
    <3>1. i = 1 /\ i - 1 = 0
      OBVIOUS
    <3>2. ends[1] = ends[0] + 3 + Len(es[1].value)
      BY <1>2, <1>3, <1>4, <1>5
    <3> QED
      BY <1>1, <1>4, <1>5, <1>6, <3>1, <3>2
  <2> QED
    BY <1>4, <1>5, <2>1 DEF Divided
<1>8. /\ ClientCertValues(data) # <<>> /\ Last(ClientCertValues(data)) = v
  <2>1. 1 \in 1 .. 1 /\ \A i \in 1 .. 1 : i = 1
    OBVIOUS
  <2>2. IsMine(es[1])
    BY <1>2, <1>4 DEF IsMine
  <2> QED
    BY <1>1, <1>2, <1>4, <1>7, <2>1, <2>2, LastValue
<1>9. Holds(v, cert)
  <2>1. StandsAt(v, 0, v)
    BY <1>3 DEF StandsAt
  <2> QED
    BY <1>1, <2>1, PrefixStands DEF Holds, v
<1> QED
  BY <1>1, <1>8, <1>9, ParseInverse DEF ParseTlvBlock, data

-----------------------------------------------------------------------------
(* The frames.                                                             *)

\* A frame of the PROXY command: between endpoints of one family.
Commands == {c \in Connections : \/ c.by = "gateway" /\ c.src.family = c.dst.family
                                 \/ c.by = "proxy"}

To(c)     == IF c.by = "gateway" THEN c.dst ELSE c.src
Family(c) == IF c.src.family = "v4" THEN FamilyInetStream ELSE FamilyInet6Stream
Block(c)  == c.src.address \o To(c).address \o BE16(c.src.port) \o BE16(To(c).port)
Start(c)  == Signature \o <<VerCmdProxy, Family(c)>> \o BE16(Len(Block(c)))
Tlvs(c)   == IF c.by = "proxy" THEN TlvBlock(c.entries)
             ELSE IF c.cert = NoCert THEN <<>> ELSE BuildClientCertTlv(c.cert)

\* Who connects, and what he sends.
LEMMA ConnectionParts ==
    ASSUME NEW c \in Connections
    PROVE  /\ c.app \in Bytes
           /\ c.by = "gateway" => /\ c.src \in IPEndPoints /\ c.dst \in IPEndPoints
                                  /\ c.cert \in Certs \cup {NoCert}
           /\ c.by = "proxy" => /\ c.src \in IPEndPoints /\ c.entries \in Seq(EntryForms)
                                /\ Len(TlvBlock(c.entries)) \in Ushort
           /\ c.by \in {"gateway", "proxy", "bare"}
<1>1. \/ c \in [by : {"gateway"}, src : Endpoints, dst : Endpoints,
               cert : Certs \cup {NoCert}, app : Apps]
      \/ c \in [by : {"proxy"}, src : Endpoints, entries : EntryLists, app : Apps]
      \/ c \in [by : {"bare"}, app : Apps]
  BY Zenon DEF Connections
<1>2. EntryLists \subseteq Seq(EntryForms)
  <2>1. ASSUME NEW es \in EntryLists PROVE es \in Seq(EntryForms)
    <3>1. es \in UNION {[1 .. n -> Entries] : n \in 0 .. MaxEntries}
      BY <2>1, Zenon DEF EntryLists, BoundedSeq, SeqOf
    <3>2. PICK n \in 0 .. MaxEntries : es \in [1 .. n -> Entries]
      BY <3>1
    <3>3. n \in Nat /\ Entries \subseteq EntryForms
      BY StreamsAssumption DEF EntryForms
    <3> QED
      BY <3>2, <3>3
  <2> QED
    BY <2>1
<1>3. \A es \in EntryLists : Len(TlvBlock(es)) \in Ushort
  BY Zenon DEF EntryLists
<1>4. Apps \subseteq Bytes /\ Endpoints \subseteq IPEndPoints
  BY StreamsAssumption, EndpointsAssumption
<1> QED
  BY <1>1, <1>2, <1>3, <1>4

\* The address of an endpoint, and its port.
LEMMA EndpointParts ==
    ASSUME NEW e \in IPEndPoints
    PROVE  /\ e.address \in Bytes /\ e.port \in Ushort
           /\ e = [family |-> e.family, address |-> e.address, port |-> e.port]
           /\ \/ e.family = "v4" /\ Len(e.address) = 4
              \/ e.family = "v6" /\ Len(e.address) = 16
<1>1. \/ e \in [family : {"v4"}, address : [1 .. 4 -> Byte], port : Ushort]
      \/ e \in [family : {"v6"}, address : [1 .. 16 -> Byte], port : Ushort]
  BY Zenon DEF IPEndPoints
<1>2. ASSUME NEW n \in Nat, NEW a \in [1 .. n -> Byte] PROVE a \in Bytes /\ Len(a) = n
  BY DEF Bytes
<1>3. 4 \in Nat /\ 16 \in Nat
  OBVIOUS
<1> QED
  BY <1>1, <1>2, <1>3

\* Two addresses and two ports, one behind the other.
LEMMA BlockRow ==
    ASSUME NEW a \in Bytes, NEW b \in Bytes, NEW m \in Ushort, NEW n \in Ushort,
           NEW size \in Nat, Len(a) = size, Len(b) = size
    PROVE  LET row == a \o b \o BE16(m) \o BE16(n)
           IN  /\ row \in Bytes /\ Len(row) = 2 * size + 4
               /\ SubSeq(row, 1, size) = a /\ U16(row, 2 * size) = m
<1> DEFINE p == BE16(m)
           q == BE16(n)
<1>1. p \in Bytes /\ q \in Bytes /\ Len(p) = 2 /\ Len(q) = 2
  BY BE16IsBytes, UshortIs
<1> HIDE DEF p, q
<1> DEFINE r1 == a \o b
           r2 == r1 \o p
           r3 == r2 \o q
<1>2. r1 \in Bytes /\ Len(r1) = 2 * size
  <2>1. r1 \in Bytes /\ Len(r1) = Len(a) + Len(b)
    BY BytesInARow
  <2> QED
    BY <2>1
<1>3. r2 \in Bytes /\ Len(r2) = 2 * size + 2
  <2>1. r2 \in Bytes /\ Len(r2) = Len(r1) + Len(p)
    BY <1>1, <1>2, BytesInARow
  <2> HIDE DEF r2, r1
  <2> QED
    BY <1>1, <1>2, <2>1
<1>4. r3 \in Bytes /\ Len(r3) = 2 * size + 4
  <2>1. r3 \in Bytes /\ Len(r3) = Len(r2) + Len(q)
    BY <1>1, <1>3, BytesInARow
  <2> HIDE DEF r3, r2
  <2> QED
    BY <1>1, <1>3, <2>1
<1>5. StandsAt(r3, 0, r3)
  BY <1>4 DEF StandsAt
<1> HIDE DEF r3
<1>6. StandsAt(r3, 0, r2)
  <2>1. StandsAt(r3, 0, r2 \o q)
    BY <1>5 DEF r3
  <2> HIDE DEF r2
  <2> QED
    BY <1>1, <1>3, <1>4, <2>1, BytesStandInARow, 0 \in Nat
<1>7. StandsAt(r3, 0, r1) /\ StandsAt(r3, 2 * size, p)
  <2>1. StandsAt(r3, 0, r1 \o p)
    BY <1>6
  <2>2. 0 + Len(r1) = 2 * size
    BY <1>2
  <2> HIDE DEF r1
  <2>3. StandsAt(r3, 0, r1) /\ StandsAt(r3, 0 + Len(r1), p)
    BY <1>1, <1>2, <1>4, <2>1, BytesStandInARow, 0 \in Nat
  <2> QED
    BY <2>2, <2>3, Zenon
<1>8. StandsAt(r3, 0, a)
  BY <1>4, <1>7, BytesStandInARow, 0 \in Nat
<1>9. SubSeq(r3, 1, size) = a
  <2>1. SubSeq(r3, 0 + 1, 0 + Len(a)) = a
    BY <1>4, <1>8, StandingSlice, 0 \in Nat DEF Bytes
  <2>2. 0 + 1 = 1 /\ 0 + Len(a) = size
    OBVIOUS
  <2> QED
    BY <2>1, <2>2, Zenon
<1>10. U16(r3, 2 * size) = m
  <2>1. 2 * size \in Nat
    OBVIOUS
  <2> QED
    BY <1>4, <1>7, <2>1, U16OfBE16 DEF p
<1>11. r3 = a \o b \o BE16(m) \o BE16(n)
  BY DEF r3, p, q
<1> QED
  BY <1>4, <1>9, <1>10, <1>11, Zenon

\* The source is found in the address block that was written for it.
LEMMA BlockParts ==
    ASSUME NEW c \in Commands
    PROVE  /\ Block(c) \in Bytes /\ Len(Block(c)) \in {12, 36}
           /\ SourceIn(Family(c), Block(c)) = c.src
           /\ Family(c) \in Byte /\ To(c).family = c.src.family
           /\ c.src \in IPEndPoints
<1>1. c.src \in IPEndPoints /\ To(c) \in IPEndPoints /\ c.src.family = To(c).family
  BY ConnectionParts DEF Commands, To
<1> DEFINE src == c.src
           dst == To(c)
           a == src.address
           b == dst.address
           block == a \o b \o BE16(src.port) \o BE16(dst.port)
<1>2. Block(c) = block
  BY DEF Block
<1>3. /\ a \in Bytes /\ b \in Bytes /\ src.port \in Ushort /\ dst.port \in Ushort
      /\ src = [family |-> src.family, address |-> a, port |-> src.port]
      /\ \/ src.family = "v4" /\ Len(a) = 4 /\ Len(b) = 4
         \/ src.family = "v6" /\ Len(a) = 16 /\ Len(b) = 16
  BY <1>1, EndpointParts
<1>4. Family(c) \in Byte
  BY ByteIs DEF Family, FamilyInetStream, FamilyInet6Stream
<1>9. ASSUME NEW size \in Nat, Len(a) = size, Len(b) = size
      PROVE  /\ block \in Bytes /\ Len(block) = 2 * size + 4 /\ SubSeq(block, 1, size) = a
             /\ U16(block, 2 * size) = src.port
  <2> DEFINE m == src.port
             n == dst.port
  <2>1. a \in Bytes /\ b \in Bytes /\ m \in Ushort /\ n \in Ushort
    BY <1>3
  <2> HIDE DEF a, b, m, n
  <2>2. LET row == a \o b \o BE16(m) \o BE16(n)
        IN  /\ row \in Bytes /\ Len(row) = 2 * size + 4
            /\ SubSeq(row, 1, size) = a /\ U16(row, 2 * size) = m
    BY <1>9, <2>1, BlockRow
  <2> QED
    BY <2>2, Zenon DEF m, n
<1>5. CASE src.family = "v4" /\ Len(a) = 4 /\ Len(b) = 4
  <2>1. /\ block \in Bytes /\ Len(block) = 2 * 4 + 4 /\ SubSeq(block, 1, 4) = a
        /\ U16(block, 2 * 4) = src.port
    <3> HIDE DEF block
    <3> QED
      BY <1>5, <1>9, 4 \in Nat
  <2>2. 2 * 4 + 4 = 12 /\ 2 * 4 = 8
    OBVIOUS
  <2> HIDE DEF block
  <2>3. SourceIn(FamilyInetStream, block)
            = [family |-> "v4", address |-> SubSeq(block, 1, 4), port |-> U16(block, 8)]
    BY <2>1, <2>2 DEF SourceIn
  <2>4. Family(c) = FamilyInetStream
    BY <1>5 DEF Family
  <2> QED
    BY <1>1, <1>2, <1>3, <1>4, <1>5, <2>1, <2>2, <2>3, <2>4
<1>6. CASE src.family = "v6" /\ Len(a) = 16 /\ Len(b) = 16
  <2>1. /\ block \in Bytes /\ Len(block) = 2 * 16 + 4 /\ SubSeq(block, 1, 16) = a
        /\ U16(block, 2 * 16) = src.port
    <3> HIDE DEF block
    <3> QED
      BY <1>6, <1>9, 16 \in Nat
  <2>2. 2 * 16 + 4 = 36 /\ 2 * 16 = 32
    OBVIOUS
  <2> HIDE DEF block
  <2>3. SourceIn(FamilyInet6Stream, block)
            = [family |-> "v6", address |-> SubSeq(block, 1, 16), port |-> U16(block, 32)]
    BY <2>1, <2>2 DEF SourceIn, FamilyInetStream, FamilyInet6Stream
  <2>4. Family(c) = FamilyInet6Stream
    BY <1>6 DEF Family
  <2> QED
    BY <1>1, <1>2, <1>3, <1>4, <1>6, <2>1, <2>2, <2>3, <2>4
<1> QED
  BY <1>3, <1>5, <1>6

\* The first 16 bytes: the signature, the command and the family, and the block's length.
LEMMA StartParts ==
    ASSUME NEW c \in Commands
    PROVE  /\ Start(c) \in Bytes /\ Len(Start(c)) = 16
           /\ SubSeq(Start(c), 1, 12) = Signature
           /\ Start(c)[13] = VerCmdProxy /\ Start(c)[14] = Family(c)
           /\ U16(Start(c), 14) = Len(Block(c))
<1> DEFINE n == Len(Block(c))
           two == <<VerCmdProxy, Family(c)>>
           len == BE16(n)
           r1 == Signature \o two
           r2 == r1 \o len
<1>1. n \in {12, 36} /\ n \in Nat /\ n \in Ushort
  <2>1. n \in {12, 36}
    BY BlockParts
  <2> HIDE DEF n
  <2> QED
    BY <2>1, UshortIs
<1>2. two \in Bytes /\ Len(two) = 2 /\ two[1] = VerCmdProxy /\ two[2] = Family(c)
  <2>1. VerCmdProxy \in Byte /\ Family(c) \in Byte
    BY BlockParts, ByteIs DEF VerCmdProxy
  <2> QED
    BY <2>1 DEF Bytes
<1>3. Signature \in Bytes /\ Len(Signature) = 12
  <2>1. \A b \in {0, 10, 13, 73, 81, 84, 85} : b \in Byte
    BY ByteIs
  <2> QED
    BY <2>1 DEF Signature, Bytes
<1> HIDE DEF n
<1>4. len \in Bytes /\ Len(len) = 2
  BY <1>1, BE16IsBytes
<1>5. Start(c) = r2
  BY Zenon DEF Start, n
<1> HIDE DEF two, len
<1>6. r1 \in Bytes /\ Len(r1) = 14
  <2>1. r1 \in Bytes /\ Len(r1) = Len(Signature) + Len(two)
    BY <1>2, <1>3, BytesInARow
  <2> HIDE DEF r1
  <2> QED
    BY <1>2, <1>3, <2>1
<1>7. r2 \in Bytes /\ Len(r2) = 16
  <2>1. r2 \in Bytes /\ Len(r2) = Len(r1) + Len(len)
    BY <1>4, <1>6, BytesInARow
  <2> HIDE DEF r1, r2
  <2> QED
    BY <1>4, <1>6, <2>1
<1>8. StandsAt(r2, 0, r2)
  BY <1>7 DEF StandsAt
<1> HIDE DEF r2
<1>9. StandsAt(r2, 0, r1) /\ StandsAt(r2, 14, len)
  <2>1. StandsAt(r2, 0, r1 \o len)
    BY <1>8 DEF r2
  <2> HIDE DEF r1
  <2>2. StandsAt(r2, 0, r1) /\ StandsAt(r2, 0 + Len(r1), len)
    BY <1>4, <1>6, <1>7, <2>1, BytesStandInARow, 0 \in Nat
  <2>3. 0 + Len(r1) = 14
    BY <1>6
  <2> QED
    BY <2>2, <2>3, Zenon
<1>10. StandsAt(r2, 0, Signature) /\ StandsAt(r2, 12, two)
  <2>1. StandsAt(r2, 0, Signature) /\ StandsAt(r2, 0 + Len(Signature), two)
    BY <1>2, <1>3, <1>7, <1>9, BytesStandInARow, 0 \in Nat
  <2>2. 0 + Len(Signature) = 12
    BY <1>3
  <2> QED
    BY <2>1, <2>2, Zenon
<1>11. SubSeq(r2, 1, 12) = Signature
  <2>1. SubSeq(r2, 0 + 1, 0 + Len(Signature)) = Signature
    BY <1>3, <1>7, <1>10, StandingSlice, 0 \in Nat DEF Bytes
  <2>2. 0 + 1 = 1 /\ 0 + Len(Signature) = 12
    BY <1>3
  <2> QED
    BY <2>1, <2>2, Zenon
<1>12. r2[13] = VerCmdProxy /\ r2[14] = Family(c)
  <2>1. 1 \in 1 .. 2 /\ 2 \in 1 .. 2 /\ 12 + 1 = 13 /\ 12 + 2 = 14
    OBVIOUS
  <2> QED
    BY <1>2, <1>10, <2>1 DEF StandsAt
<1>13. U16(r2, 14) = n
  BY <1>1, <1>7, <1>9, U16OfBE16, 14 \in Nat DEF len
<1> QED
  BY <1>5, <1>7, <1>11, <1>12, <1>13 DEF n

\* The entries of a frame fit the field of their length.
LEMMA TlvsFit ==
    ASSUME NEW c \in Connections, c.by \in {"gateway", "proxy"}
    PROVE  Tlvs(c) \in Bytes /\ Len(Tlvs(c)) \in Ushort
<1>1. CASE c.by = "proxy"
  <2>1. c.entries \in Seq(EntryForms) /\ Len(TlvBlock(c.entries)) \in Ushort
    BY <1>1, ConnectionParts
  <2> QED
    BY <1>1, <2>1, TlvBlockDivided DEF Tlvs
<1>2. CASE c.by = "gateway" /\ c.cert = NoCert
  <2>1. Tlvs(c) = <<>>
    BY <1>2 DEF Tlvs
  <2>2. <<>> \in Bytes /\ Len(<<>>) = 0
    BY DEF Bytes
  <2> QED
    BY <2>1, <2>2, UshortIs
<1>3. CASE c.by = "gateway" /\ c.cert # NoCert
  <2>1. c.cert \in Certs
    BY <1>3, ConnectionParts
  <2> QED
    BY <1>3, <2>1, CertsFit DEF Tlvs
<1> QED
  BY <1>1, <1>2, <1>3

\* A frame of the PROXY command: its start, the block, the entries' length and the entries.
LEMMA FrameParts ==
    ASSUME NEW c \in Commands
    PROVE  LET b == Len(Block(c))
               n == Len(Tlvs(c))
           IN  /\ Frame(c) \in Bytes /\ Len(Frame(c)) = 18 + b + n
               /\ \A s \in Bytes : StandsAt(s, 0, Frame(c)) =>
                     /\ StandsAt(s, 0, Start(c)) /\ StandsAt(s, 16, Block(c))
                     /\ StandsAt(s, 16 + b, BE16(n)) /\ StandsAt(s, 18 + b, Tlvs(c))
<1> DEFINE b == Len(Block(c))
           n == Len(Tlvs(c))
           len == BE16(n)
           r1 == Start(c) \o Block(c)
           r2 == r1 \o len
           r3 == r2 \o Tlvs(c)
<1>1. c \in Connections /\ c.by \in {"gateway", "proxy"}
  BY DEF Commands
<1>2. /\ Start(c) \in Bytes /\ Len(Start(c)) = 16 /\ Block(c) \in Bytes /\ Tlvs(c) \in Bytes
      /\ b \in Nat /\ n \in Nat
  BY <1>1, StartParts, BlockParts, TlvsFit, LenProperties DEF Bytes
<1>3. Frame(c) = r3
  <2>1. BuildCoreHeader(c.src, To(c)) = r1
    <3> DEFINE src == c.src
               dst == To(c)
    <3>1. src.family = dst.family /\ src.family \in {"v4", "v6"}
      BY BlockParts, EndpointParts
    <3>2. BuildCoreHeader(src, dst) = BuildV2Tcp(Family(c), src, dst)
      BY <3>1 DEF BuildCoreHeader, Family
    <3> QED
      BY <3>2, Zenon DEF BuildV2Tcp, Start, Block
  <2>2. CASE c.by = "gateway"
    <3>1. To(c) = c.dst /\ Tlvs(c) = IF c.cert = NoCert THEN <<>> ELSE BuildClientCertTlv(c.cert)
      BY <2>2 DEF To, Tlvs
    <3>2. Frame(c) = BuildV2Header(c.src, c.dst, c.cert)
      BY <2>2 DEF Frame
    <3> QED
      BY <2>1, <3>1, <3>2, Zenon DEF BuildV2Header
  <2>3. CASE c.by = "proxy"
    <3>1. To(c) = c.src /\ Tlvs(c) = TlvBlock(c.entries)
      BY <2>3 DEF To, Tlvs
    <3>2. Frame(c) = BuildCoreHeader(c.src, c.src)
                        \o BE16(Len(TlvBlock(c.entries))) \o TlvBlock(c.entries)
      BY <2>3 DEF Frame
    <3> QED
      BY <2>1, <3>1, <3>2, Zenon
  <2> QED
    BY <1>1, <2>2, <2>3
<1>4. Len(Block(c)) = b /\ Len(Tlvs(c)) = n
  OBVIOUS
<1> HIDE DEF n, b
<1>5. len \in Bytes /\ Len(len) = 2
  BY <1>2, BE16IsBytes
<1>6. r1 \in Bytes /\ Len(r1) = 16 + b
  BY <1>2, <1>4, BytesInARow
<1>7. r2 \in Bytes /\ Len(r2) = 18 + b
  <2>1. r2 \in Bytes /\ Len(r2) = Len(r1) + Len(len)
    BY <1>5, <1>6, BytesInARow
  <2> HIDE DEF r1, r2, len
  <2>2. Len(r2) = 18 + b
    BY ONLY <1>2, <1>5, <1>6, <2>1
  <2> QED
    BY <2>1, <2>2
<1>8. r3 \in Bytes /\ Len(r3) = 18 + b + n
  <2> HIDE DEF r2
  <2> QED
    BY <1>2, <1>4, <1>7, BytesInARow
<1>9. ASSUME NEW s \in Bytes, StandsAt(s, 0, r3)
      PROVE  /\ StandsAt(s, 0, Start(c)) /\ StandsAt(s, 16, Block(c))
             /\ StandsAt(s, 16 + b, len) /\ StandsAt(s, 18 + b, Tlvs(c))
  <2>1. StandsAt(s, 0, r2) /\ StandsAt(s, 0 + Len(r2), Tlvs(c))
    <3> HIDE DEF r2
    <3> QED
      BY <1>2, <1>7, <1>9, BytesStandInARow, 0 \in Nat
  <2>2. StandsAt(s, 0, r1) /\ StandsAt(s, 0 + Len(r1), len)
    <3> HIDE DEF r1, len
    <3> QED
      BY <1>5, <1>6, <2>1, BytesStandInARow, 0 \in Nat
  <2>3. StandsAt(s, 0, Start(c)) /\ StandsAt(s, 0 + Len(Start(c)), Block(c))
    BY <1>2, <2>2, BytesStandInARow, 0 \in Nat
  <2>4. 0 + Len(r2) = 18 + b /\ 0 + Len(r1) = 16 + b /\ 0 + Len(Start(c)) = 16
    <3> HIDE DEF r1, r2
    <3> QED
      BY <1>2, <1>6, <1>7
  <2> QED
    BY <2>1, <2>2, <2>3, <2>4, Zenon
<1> HIDE DEF r3
<1> QED
  BY <1>3, <1>8, <1>9, Zenon DEF b, n, len

\* Every frame is a sequence of bytes.
LEMMA FrameIsBytes == ASSUME NEW c \in Connections PROVE Frame(c) \in Bytes
<1>1. CASE c \in Commands
  BY <1>1, FrameParts
<1>2. CASE c.by = "bare"
  BY <1>2 DEF Frame, Bytes
<1>3. CASE c.by = "gateway" /\ c \notin Commands
  <2> DEFINE tlv == Tlvs(c)
             len == BE16(Len(tlv))
  <2>1. c.src.family # c.dst.family
    BY <1>3 DEF Commands
  <2>2. BuildCoreHeader(c.src, c.dst) = BuildV2Local
    BY <2>1 DEF BuildCoreHeader
  <2>3. tlv = IF c.cert = NoCert THEN <<>> ELSE BuildClientCertTlv(c.cert)
    BY <1>3 DEF Tlvs
  <2>4. Frame(c) = BuildV2Header(c.src, c.dst, c.cert)
    BY <1>3 DEF Frame
  <2>5. Frame(c) = (BuildV2Local \o len) \o tlv
    BY <2>2, <2>3, <2>4, Zenon DEF BuildV2Header
  <2>6. tlv \in Bytes /\ Len(tlv) \in Nat
    BY <1>3, TlvsFit, LenProperties DEF Bytes
  <2> HIDE DEF tlv
  <2>7. len \in Bytes
    BY <2>6, BE16IsBytes
  <2>8. BuildV2Local \in Bytes
    <3>1. \A b \in {0, 10, 13, 32, 73, 81, 84, 85} : b \in Byte
      BY ByteIs
    <3>2. Signature \in Bytes /\ <<VerCmdLocal, 0, 0, 0>> \in Bytes
      BY <3>1 DEF Signature, VerCmdLocal, Bytes
    <3> QED
      BY <3>2, BytesInARow DEF BuildV2Local
  <2> HIDE DEF len
  <2> QED
    BY <2>5, <2>6, <2>7, <2>8, BytesInARow
<1> QED
  BY <1>1, <1>2, <1>3, ConnectionParts DEF Commands

-----------------------------------------------------------------------------
(* The invariant.                                                          *)

Sent == Frame(conn) \o conn.app

\* The kinds of the values, and the widths of the fields that every connection has.
Typed ==
    /\ conn \in Connections
    /\ arrives \in 0 .. Len(Sent)
    /\ conn.by # "gateway" => arrives = Len(Sent)
    /\ stream \in Bytes /\ got \in Bytes /\ header \in Bytes
    /\ field \in Fields \cup {"bridge"}
    /\ want \in Ushort /\ Len(got) <= want
    /\ field = "bridge" => want = 0
    /\ field = "signature" => want = 16
    /\ field = "tlvLength" => want = 2
    /\ source \in IPEndPoints \cup {NoSource}
    /\ clientCert = NoCert \/ clientCert \in CertForms

\* Where a field of the PROXY command's frame starts, and what it is.
FieldAt(c, f) ==
    CASE f = "signature" -> 0
      [] f = "address"   -> 16
      [] f = "tlvLength" -> 16 + Len(Block(c))
      [] f = "tlvs"      -> 18 + Len(Block(c))
FieldIs(c, f) ==
    CASE f = "signature" -> Start(c)
      [] f = "address"   -> Block(c)
      [] f = "tlvLength" -> BE16(Len(Tlvs(c)))
      [] f = "tlvs"      -> Tlvs(c)

\* The reader is in the field, with what it has read of it behind and all else before it.
InField ==
    LET start == FieldAt(conn, field)
        now   == start + Len(got)
    IN  /\ want = Len(FieldIs(conn, field))
        /\ now <= arrives
        /\ got = SubSeq(Sent, start + 1, now)
        /\ stream = SubSeq(Sent, now + 1, arrives)
        /\ field = "address" => header = Start(conn)
        /\ field \in {"tlvLength", "tlvs"} => source = conn.src

\* The reader was left at the end of the frame with what it says, or at the stream's with nothing.
Behind ==
    IF FrameArrives
    THEN /\ stream = SubSeq(Sent, Len(Frame(conn)) + 1, arrives)
         /\ source = conn.src /\ clientCert = ParseTlvBlock(Tlvs(conn))
    ELSE stream = <<>> /\ source = NoSource /\ clientCert = NoCert

IInv ==
    /\ Typed
    /\ conn \in Commands => IF field = "bridge" THEN Behind ELSE InField
-----------------------------------------------------------------------------
(* Reads.                                                                  *)

\* A slice of a slice is a slice.
LEMMA SliceOfSlice ==
    ASSUME NEW s \in Bytes, NEW p \in Nat, NEW z \in Nat, p <= z, z <= Len(s),
           NEW m \in Nat, NEW n \in Nat, m <= n, n <= z - p
    PROVE  SubSeq(SubSeq(s, p + 1, z), m + 1, n) = SubSeq(s, (p + m) + 1, p + n)
<1> DEFINE cut == SubSeq(s, p + 1, z)
           left == SubSeq(cut, m + 1, n)
           right == SubSeq(s, (p + m) + 1, p + n)
<1>1. Len(s) \in Nat /\ z - p \in Nat /\ p + m \in Nat /\ p + n \in Nat /\ p + n <= Len(s)
  BY LenProperties DEF Bytes
<1>2. cut \in Bytes /\ Len(cut) = z - p /\ \A i \in 1 .. z - p : cut[i] = s[p + i]
  BY SliceIsBytes
<1> HIDE DEF cut
<1>3. left \in Bytes /\ Len(left) = n - m /\ \A i \in 1 .. n - m : left[i] = cut[m + i]
  BY <1>2, SliceIsBytes
<1>4. /\ right \in Bytes /\ Len(right) = (p + n) - (p + m)
      /\ \A i \in 1 .. (p + n) - (p + m) : right[i] = s[(p + m) + i]
  <2> DEFINE a == p + m
             b == p + n
  <2>1. a \in Nat /\ b \in Nat /\ a <= b /\ b <= Len(s)
    BY <1>1
  <2> HIDE DEF a, b
  <2>2. /\ SubSeq(s, a + 1, b) \in Bytes /\ Len(SubSeq(s, a + 1, b)) = b - a
        /\ \A i \in 1 .. b - a : SubSeq(s, a + 1, b)[i] = s[a + i]
    BY <2>1, SliceIsBytes
  <2> QED
    BY <2>2 DEF a, b
<1>5. (p + n) - (p + m) = n - m
  OBVIOUS
<1> HIDE DEF left, right
<1>6. ASSUME NEW i \in 1 .. n - m PROVE left[i] = right[i]
  <2>1. m + i \in 1 .. z - p /\ p + (m + i) = (p + m) + i
    OBVIOUS
  <2> QED
    BY <1>2, <1>3, <1>4, <1>5, <2>1
<1>7. left = right
  BY <1>3, <1>4, <1>5, <1>6, SeqEqual DEF Bytes
<1> QED
  BY <1>7 DEF left, right, cut

\* The part of a sequence behind the first a, up to the b-th.
Between(s, a, b) == SubSeq(s, a + 1, b)

\* A read divides what is between two positions at a third one.
LEMMA ReadDivides ==
    ASSUME NEW s \in Bytes, NEW p \in Nat, NEW z \in Nat, NEW n \in Nat,
           p <= z, z <= Len(s), n <= z - p
    PROVE  /\ Taken(Between(s, p, z), n) = Between(s, p, p + n)
           /\ Remaining(Between(s, p, z), n) = Between(s, p + n, z)
<1> DEFINE rest == SubSeq(s, p + 1, z)
           q == p + n
<1>1. Len(s) \in Nat /\ z - p \in Nat /\ q \in Nat /\ p <= q /\ q <= z
  BY LenProperties DEF Bytes
<1>2. rest \in Bytes /\ Len(rest) = z - p
  BY SliceIsBytes
<1>3. Taken(rest, n) = SubSeq(s, p + 1, q)
  <2>1. SubSeq(rest, 0 + 1, n) = SubSeq(s, (p + 0) + 1, p + n)
    BY <1>1, SliceOfSlice, 0 \in Nat
  <2>2. 0 + 1 = 1 /\ (p + 0) + 1 = p + 1
    OBVIOUS
  <2> HIDE DEF rest
  <2> QED
    BY <2>1, <2>2, Zenon DEF Taken, q
<1>4. Remaining(rest, n) = SubSeq(s, q + 1, z)
  <2>1. SubSeq(rest, n + 1, z - p) = SubSeq(s, (p + n) + 1, p + (z - p))
    BY <1>1, SliceOfSlice
  <2>2. p + (z - p) = z
    OBVIOUS
  <2> HIDE DEF rest
  <2> QED
    BY <1>2, <2>1, <2>2, Zenon DEF Remaining, q
<1> QED
  BY <1>3, <1>4, Zenon DEF Between

\* What is between two positions and what follows up to a third one are one part.
LEMMA BetweenJoins ==
    ASSUME NEW s \in Bytes, NEW a \in Nat, NEW p \in Nat, NEW q \in Nat,
           a <= p, p <= q, q <= Len(s)
    PROVE  Between(s, a, p) \o Between(s, p, q) = Between(s, a, q)
<1>1. /\ a + 1 \in 1 .. Len(s) + 1 /\ p \in (a + 1) - 1 .. Len(s) /\ q \in p .. Len(s)
  BY LenProperties DEF Bytes
<1>2. SubSeq(s, a + 1, p) \o SubSeq(s, p + 1, q) = SubSeq(s, a + 1, q)
  BY <1>1, ConcatAdjacentSubSeq DEF Bytes
<1> QED
  BY <1>2, Zenon DEF Between

\* A read of bytes keeps bytes, and a read of what is wanted does not exceed it.
LEMMA ReadBytes ==
    ASSUME NEW s \in Bytes, NEW n \in 1 .. Len(s)
    PROVE  /\ Taken(s, n) \in Bytes /\ Len(Taken(s, n)) = n
           /\ Remaining(s, n) \in Bytes
<1>1. Len(s) \in Nat /\ n \in Nat /\ n <= Len(s) /\ 0 + 1 = 1 /\ n - 0 = n
  BY LenProperties DEF Bytes
<1>2. SubSeq(s, 0 + 1, n) \in Bytes /\ Len(SubSeq(s, 0 + 1, n)) = n - 0
  BY <1>1, SliceIsBytes, 0 \in Nat
<1>3. SubSeq(s, n + 1, Len(s)) \in Bytes
  BY <1>1, SliceIsBytes
<1> QED
  BY <1>1, <1>2, <1>3, Zenon DEF Taken, Remaining

-----------------------------------------------------------------------------
(* Fields.                                                                 *)

\* What is sent, and how long it is.
LEMMA SentIsBytes ==
    ASSUME conn \in Connections
    PROVE  /\ Sent \in Bytes /\ Len(Sent) = Len(Frame(conn)) + Len(conn.app)
           /\ Frame(conn) \in Bytes /\ conn.app \in Bytes
           /\ Len(Frame(conn)) \in Nat /\ Len(conn.app) \in Nat /\ Len(Sent) \in Nat
<1>1. Frame(conn) \in Bytes /\ conn.app \in Bytes
  BY FrameIsBytes, ConnectionParts
<1>2. Sent \in Bytes /\ Len(Sent) = Len(Frame(conn)) + Len(conn.app)
  BY <1>1, BytesInARow DEF Sent
<1> QED
  BY <1>1, <1>2, LenProperties DEF Bytes

\* A field lies in the frame, where the parts before it end.
LEMMA FieldParts ==
    ASSUME conn \in Commands, NEW f \in Fields
    PROVE  /\ FieldAt(conn, f) \in Nat /\ FieldIs(conn, f) \in Bytes /\ Len(FieldIs(conn, f)) \in Nat
           /\ FieldAt(conn, f) + Len(FieldIs(conn, f)) <= Len(Frame(conn))
           /\ StandsAt(Sent, FieldAt(conn, f), FieldIs(conn, f))
           /\ FieldAt(conn, "signature") = 0 /\ Len(FieldIs(conn, "signature")) = 16
           /\ FieldAt(conn, "address") = FieldAt(conn, "signature") + Len(FieldIs(conn, "signature"))
           /\ FieldAt(conn, "tlvLength") = FieldAt(conn, "address") + Len(FieldIs(conn, "address"))
           /\ FieldAt(conn, "tlvs") = FieldAt(conn, "tlvLength") + Len(FieldIs(conn, "tlvLength"))
           /\ Len(FieldIs(conn, "tlvLength")) = 2
           /\ Len(Frame(conn)) = FieldAt(conn, "tlvs") + Len(FieldIs(conn, "tlvs"))
           /\ Len(FieldIs(conn, "tlvs")) \in Ushort
<1> DEFINE b == Len(Block(conn))
           n == Len(Tlvs(conn))
           len == BE16(n)
<1>1. conn \in Connections /\ conn.by \in {"gateway", "proxy"}
  BY DEF Commands
<1>2. /\ Start(conn) \in Bytes /\ Len(Start(conn)) = 16 /\ Block(conn) \in Bytes
      /\ Tlvs(conn) \in Bytes /\ b \in Nat /\ n \in Nat /\ n \in Ushort
  BY <1>1, StartParts, BlockParts, TlvsFit, LenProperties DEF Bytes
<1>3. len \in Bytes /\ Len(len) = 2
  BY <1>2, BE16IsBytes
<1>4. Len(Frame(conn)) = 18 + b + n
  BY FrameParts
<1>5. /\ StandsAt(Sent, 0, Start(conn)) /\ StandsAt(Sent, 16, Block(conn))
      /\ StandsAt(Sent, 16 + b, len) /\ StandsAt(Sent, 18 + b, Tlvs(conn))
  <2>1. StandsAt(Sent, 0, Frame(conn)) /\ Sent \in Bytes
    BY <1>1, SentIsBytes, StandsFirst DEF Sent, Bytes
  <2> QED
    BY <2>1, FrameParts
<1>6. /\ FieldAt(conn, "signature") = 0 /\ FieldIs(conn, "signature") = Start(conn)
      /\ FieldAt(conn, "address") = 16 /\ FieldIs(conn, "address") = Block(conn)
      /\ FieldAt(conn, "tlvLength") = 16 + b /\ FieldIs(conn, "tlvLength") = len
      /\ FieldAt(conn, "tlvs") = 18 + b /\ FieldIs(conn, "tlvs") = Tlvs(conn)
  BY DEF FieldAt, FieldIs
<1>7. Len(Block(conn)) = b /\ Len(Tlvs(conn)) = n
  OBVIOUS
<1> HIDE DEF b, n, len
<1>8. /\ 18 + b = (16 + b) + 2 /\ 16 = 0 + 16
      /\ 0 + 16 <= 18 + b + n /\ 16 + b <= 18 + b + n
      /\ (16 + b) + 2 <= 18 + b + n /\ (18 + b) + n <= 18 + b + n
      /\ 16 + b \in Nat /\ 18 + b \in Nat /\ 18 + b + n = (18 + b) + n
  BY <1>2
<1> DEFINE layout == /\ FieldAt(conn, "signature") = 0 /\ Len(FieldIs(conn, "signature")) = 16
                     /\ FieldAt(conn, "address") = FieldAt(conn, "signature") + Len(FieldIs(conn, "signature"))
                     /\ FieldAt(conn, "tlvLength") = FieldAt(conn, "address") + Len(FieldIs(conn, "address"))
                     /\ FieldAt(conn, "tlvs") = FieldAt(conn, "tlvLength") + Len(FieldIs(conn, "tlvLength"))
                     /\ Len(FieldIs(conn, "tlvLength")) = 2
                     /\ Len(Frame(conn)) = FieldAt(conn, "tlvs") + Len(FieldIs(conn, "tlvs"))
                     /\ Len(FieldIs(conn, "tlvs")) \in Ushort
           part(g) == /\ FieldAt(conn, g) \in Nat /\ FieldIs(conn, g) \in Bytes /\ Len(FieldIs(conn, g)) \in Nat
                      /\ FieldAt(conn, g) + Len(FieldIs(conn, g)) <= Len(Frame(conn))
                      /\ StandsAt(Sent, FieldAt(conn, g), FieldIs(conn, g))
<1>9. layout
  BY <1>2, <1>3, <1>4, <1>6, <1>7, <1>8, Zenon
<1>10. part("signature")
  BY <1>2, <1>4, <1>5, <1>6, <1>8, Zenon, 0 \in Nat, 16 \in Nat
<1>11. part("address")
  BY <1>2, <1>4, <1>5, <1>6, <1>7, <1>8, Zenon, 16 \in Nat
<1>12. part("tlvLength")
  BY <1>3, <1>4, <1>5, <1>6, <1>8, Zenon, 2 \in Nat
<1>13. part("tlvs")
  BY <1>2, <1>4, <1>5, <1>6, <1>7, <1>8, Zenon
<1> HIDE DEF layout
<1>14. part(f)
  <2>1. f = "signature" \/ f = "address" \/ f = "tlvLength" \/ f = "tlvs"
    BY DEF Fields
  <2> HIDE DEF part
  <2> QED
    BY <1>10, <1>11, <1>12, <1>13, <2>1, Zenon
<1> QED
  BY <1>9, <1>14, Zenon DEF layout

\* A field that was read to its end is the one that was written.
LEMMA FieldArrived ==
    ASSUME conn \in Commands, Typed, InField, field \in Fields, Len(got) = want
    PROVE  got = FieldIs(conn, field)
<1> DEFINE start == FieldAt(conn, field)
           is == FieldIs(conn, field)
<1>1. start \in Nat /\ is \in Bytes /\ Len(is) \in Nat /\ StandsAt(Sent, start, is)
  BY FieldParts
<1>2. Len(got) = Len(is) /\ got = SubSeq(Sent, start + 1, start + Len(got))
  BY Zenon DEF InField
<1>3. Sent \in Bytes
  BY SentIsBytes DEF Typed
<1> HIDE DEF start, is
<1>4. SubSeq(Sent, start + 1, start + Len(is)) = is
  BY <1>1, <1>3, StandingSlice DEF Bytes
<1>5. got = is
  BY <1>2, <1>4, Zenon
<1> QED
  BY <1>5 DEF is

\* The next field starts where the last one ended.
LEMMA FieldFollows ==
    ASSUME conn \in Commands, Typed, InField, field \in Fields, Len(got) = want,
           NEW f \in Fields, FieldAt(conn, f) = FieldAt(conn, field) + Len(FieldIs(conn, field))
    PROVE  /\ FieldAt(conn, f) + 0 <= arrives
           /\ <<>> = SubSeq(Sent, FieldAt(conn, f) + 1, FieldAt(conn, f) + 0)
           /\ stream = SubSeq(Sent, FieldAt(conn, f) + 0 + 1, arrives)
<1> DEFINE start == FieldAt(conn, field)
           l == Len(got)
           a == FieldAt(conn, f)
<1>1. start \in Nat /\ l \in Nat /\ a \in Nat
  BY FieldParts, LenProperties DEF Typed, Bytes
<1>2. a = start + l
  BY Zenon DEF InField
<1>3. start + l <= arrives /\ stream = SubSeq(Sent, start + l + 1, arrives)
  BY Zenon DEF InField
<1> HIDE DEF start, l, a
<1>4. a + 0 = a /\ a + 0 + 1 = start + l + 1 /\ a + 0 = start + l /\ a \in Int
      /\ a + 1 \in Int /\ a < a + 1
  BY <1>1, <1>2
<1>5. SubSeq(Sent, a + 1, a) = <<>>
  BY <1>4, SubSeqEmpty
<1>6. SubSeq(Sent, a + 1, a + 0) = <<>>
  BY <1>4, <1>5, Zenon
<1>7. a + 0 <= arrives /\ stream = SubSeq(Sent, a + 0 + 1, arrives)
  BY <1>3, <1>4
<1> QED
  BY <1>6, <1>7, Zenon DEF a

\* While the stream holds bytes of a field to come the frame does not break off there.
LEMMA BrokenOff ==
    ASSUME conn \in Commands, Typed, InField, field \in Fields, Len(got) < want, stream = <<>>
    PROVE  ~ FrameArrives
<1> DEFINE start == FieldAt(conn, field)
           l == Len(got)
           w == Len(FieldIs(conn, field))
           all == Len(Frame(conn))
           now == start + l
<1>1. start \in Nat /\ l \in Nat /\ w \in Nat /\ start + w <= all
  BY FieldParts, LenProperties DEF Typed, Bytes
<1>2. want = w /\ now <= arrives /\ stream = SubSeq(Sent, now + 1, arrives) /\ l < w
  BY Zenon DEF InField
<1>3. Sent \in Bytes /\ Len(Sent) \in Nat /\ all \in Nat /\ arrives \in 0 .. Len(Sent)
  BY SentIsBytes DEF Typed
<1> HIDE DEF start, l, w, all
<1>4. now \in Nat /\ arrives \in Nat /\ arrives <= Len(Sent)
  BY <1>1, <1>3
<1> HIDE DEF now
<1>5. Len(SubSeq(Sent, now + 1, arrives)) = arrives - now
  BY <1>2, <1>3, <1>4, SliceIsBytes
<1>6. arrives - now = 0
  <2>1. Len(<<>>) = 0
    OBVIOUS
  <2> QED
    BY <1>2, <1>5, <2>1
<1>7. ~ (arrives >= all)
  BY <1>1, <1>2, <1>3, <1>4, <1>6 DEF now
<1> QED
  BY <1>7 DEF FrameArrives, all

-----------------------------------------------------------------------------
(* Sources.                                                                *)

\* The source in a block is an endpoint or none.
LEMMA SourceInType ==
    ASSUME NEW f, NEW block \in Bytes
    PROVE  SourceIn(f, block) \in IPEndPoints \cup {NoSource}
<1>1. Len(block) \in Nat
  BY LenProperties DEF Bytes
<1>2. ASSUME NEW n \in Nat, NEW off \in Nat, n <= Len(block), off + 2 <= Len(block)
      PROVE  SubSeq(block, 1, n) \in [1 .. n -> Byte] /\ U16(block, off) \in Ushort
  <2>1. SubSeq(block, 0 + 1, n) \in Bytes /\ Len(SubSeq(block, 0 + 1, n)) = n - 0
    BY <1>2, SliceIsBytes, 0 \in Nat
  <2>2. 0 + 1 = 1 /\ n - 0 = n
    OBVIOUS
  <2>3. SubSeq(block, 1, n) \in Seq(Byte) /\ Len(SubSeq(block, 1, n)) = n
    BY <2>1, <2>2, Zenon DEF Bytes
  <2>4. \A q \in Seq(Byte) : q \in [1 .. Len(q) -> Byte]
    OBVIOUS
  <2>5. SubSeq(block, 1, n) \in [1 .. n -> Byte]
    BY <2>3, <2>4, Zenon
  <2> QED
    BY <1>2, <2>5, U16IsUshort
<1> DEFINE four == f = FamilyInetStream /\ Len(block) >= 12
           six  == f = FamilyInet6Stream /\ Len(block) >= 36
           is4  == [family |-> "v4", address |-> SubSeq(block, 1, 4), port |-> U16(block, 8)]
           is6  == [family |-> "v6", address |-> SubSeq(block, 1, 16), port |-> U16(block, 32)]
<1>3. SourceIn(f, block) = CASE four -> is4 [] six -> is6 [] OTHER -> NoSource
  BY Zenon DEF SourceIn
<1>4. ~ (four /\ six)
  BY DEF FamilyInetStream, FamilyInet6Stream
<1>5. four => is4 \in IPEndPoints
  <2> SUFFICES ASSUME four PROVE is4 \in IPEndPoints
    OBVIOUS
  <2>1. 4 <= Len(block) /\ 8 + 2 <= Len(block) /\ 4 \in Nat /\ 8 \in Nat
    BY <1>1
  <2>2. SubSeq(block, 1, 4) \in [1 .. 4 -> Byte] /\ U16(block, 8) \in Ushort
    BY <1>2, <2>1
  <2> DEFINE a == SubSeq(block, 1, 4)
             p == U16(block, 8)
  <2>3. a \in [1 .. 4 -> Byte] /\ p \in Ushort
    BY <2>2
  <2> HIDE DEF a, p
  <2>4. [family |-> "v4", address |-> a, port |-> p]
            \in [family : {"v4"}, address : [1 .. 4 -> Byte], port : Ushort]
    BY <2>3
  <2> QED
    BY <2>4, Zenon DEF IPEndPoints, a, p
<1>6. six => is6 \in IPEndPoints
  <2> SUFFICES ASSUME six PROVE is6 \in IPEndPoints
    OBVIOUS
  <2>1. 16 <= Len(block) /\ 32 + 2 <= Len(block) /\ 16 \in Nat /\ 32 \in Nat
    BY <1>1
  <2>2. SubSeq(block, 1, 16) \in [1 .. 16 -> Byte] /\ U16(block, 32) \in Ushort
    BY <1>2, <2>1
  <2> DEFINE a == SubSeq(block, 1, 16)
             p == U16(block, 32)
  <2>3. a \in [1 .. 16 -> Byte] /\ p \in Ushort
    BY <2>2
  <2> HIDE DEF a, p
  <2>4. [family |-> "v6", address |-> a, port |-> p]
            \in [family : {"v6"}, address : [1 .. 16 -> Byte], port : Ushort]
    BY <2>3
  <2> QED
    BY <2>4, Zenon DEF IPEndPoints, a, p
<1> HIDE DEF four, six, is4, is6
<1> QED
  BY <1>3, <1>4, <1>5, <1>6

\* The connection's own address is an address, and not that of nobody.
LEMMA LocalSourceType == LocalSource \in IPEndPoints /\ LocalSource # NoSource
<1>1. <<255, 255, 255, 255>> \in [1 .. 4 -> Byte]
  <2>1. 255 \in Byte
    BY ByteIs
  <2> QED
    BY <2>1
<1>2. 0 \in Ushort
  BY UshortIs
<1>3. LocalSource \in IPEndPoints
  BY <1>1, <1>2 DEF LocalSource, IPEndPoints
<1>4. LocalSource # NoSource
  BY DEF LocalSource, NoSource
<1> QED
  BY <1>3, <1>4

-----------------------------------------------------------------------------
(* The invariant is one.                                                   *)

\* Where a field ends once it was read.
LEMMA FieldEnds ==
    ASSUME conn \in Commands, Typed, InField, field \in Fields, Len(got) = want,
           NEW p, p = FieldAt(conn, field) + Len(FieldIs(conn, field))
    PROVE  p <= arrives /\ stream = SubSeq(Sent, p + 1, arrives)
  BY Zenon DEF InField

\* The conversation starts with nothing read.
LEMMA InitInv == Init => IInv
<1> SUFFICES ASSUME Init PROVE IInv
  OBVIOUS
<1>1. /\ conn \in Connections /\ field = "signature" /\ want = 16 /\ got = <<>>
      /\ header = <<>> /\ source = NoSource /\ clientCert = NoCert
      /\ stream = Taken(Sent, arrives)
  BY DEF Init, Sent
<1>2. Sent \in Bytes /\ Len(Sent) \in Nat
  BY <1>1, SentIsBytes
<1>3. arrives \in 0 .. Len(Sent) /\ (conn.by # "gateway" => arrives = Len(Sent))
  <2>1. arrives \in IF conn.by = "gateway" THEN 0 .. Len(Sent) ELSE {Len(Sent)}
    BY Zenon DEF Init, Sent
  <2> HIDE DEF Sent
  <2> QED
    BY <1>2, <2>1
<1>4. arrives \in Nat /\ arrives <= Len(Sent)
  BY <1>2, <1>3
<1>5. stream = SubSeq(Sent, 0 + 1, arrives) /\ stream \in Bytes
  <2>1. SubSeq(Sent, 0 + 1, arrives) \in Bytes
    BY <1>2, <1>4, SliceIsBytes, 0 \in Nat
  <2>2. 0 + 1 = 1
    OBVIOUS
  <2>3. Taken(Sent, arrives) = SubSeq(Sent, 1, arrives)
    BY Zenon DEF Taken
  <2> QED
    BY <1>1, <2>1, <2>2, <2>3, Zenon
<1>6. <<>> \in Bytes /\ Len(<<>>) = 0
  BY DEF Bytes
<1>7. Typed
  <2>1. 16 \in Ushort /\ 0 <= 16
    BY UshortIs
  <2>2. "signature" \in Fields /\ "signature" # "bridge" /\ "signature" # "tlvLength"
    BY DEF Fields
  <2>3. Len(got) <= want
    BY <1>1, <1>6
  <2> QED
    BY <1>1, <1>3, <1>5, <1>6, <2>1, <2>2, <2>3, Zenon DEF Typed
<1>8. ASSUME conn \in Commands PROVE InField
  <2>1. FieldAt(conn, "signature") = 0 /\ Len(FieldIs(conn, "signature")) = 16
    BY <1>8, FieldParts DEF Fields
  <2>2. SubSeq(Sent, 0 + 1, 0 + 0) = <<>>
    BY SubSeqEmpty
  <2>3. 0 + 0 <= arrives /\ 0 + 0 + 1 = 0 + 1
    BY <1>4
  <2>4. "signature" # "address" /\ "signature" \notin {"tlvLength", "tlvs"}
    OBVIOUS
  <2> QED
    BY <1>1, <1>5, <1>6, <2>1, <2>2, <2>3, <2>4, Zenon DEF InField
<1>9. field # "bridge"
  BY <1>1
<1> QED
  BY <1>7, <1>8, <1>9 DEF IInv

\* A part of a field is read.
LEMMA ReadSomeInv ==
    ASSUME IInv, ReadSome
    PROVE  IInv'
<1>1. /\ conn' = conn /\ arrives' = arrives /\ field' = field /\ want' = want
      /\ header' = header /\ source' = source /\ clientCert' = clientCert
      /\ Len(got) < want
  BY DEF ReadSome
<1>2. PICK n \in 1 .. Len(stream) :
          n <= want - Len(got) /\ got' = got \o Taken(stream, n) /\ stream' = Remaining(stream, n)
  BY DEF ReadSome
<1>3. Typed
  BY DEF IInv
<1>4. /\ stream \in Bytes /\ got \in Bytes /\ want \in Ushort /\ want \in Nat
      /\ Len(got) \in Nat /\ Len(stream) \in Nat /\ n \in Nat
  BY <1>3, UshortIs, LenProperties DEF Typed, Bytes
<1>5. /\ got' \in Bytes /\ stream' \in Bytes /\ Len(got') = Len(got) + n
  <2> DEFINE t == Taken(stream, n)
  <2>1. t \in Bytes /\ Len(t) = n /\ Remaining(stream, n) \in Bytes
    BY <1>4, ReadBytes
  <2> HIDE DEF t
  <2>2. got \o t \in Bytes /\ Len(got \o t) = Len(got) + Len(t)
    BY <1>4, <2>1, BytesInARow
  <2> QED
    BY <1>2, <2>1, <2>2, Zenon DEF t
<1>6. field \in Fields
  <2>1. want # 0
    BY <1>1, <1>4
  <2> QED
    BY <1>3, <2>1 DEF Typed
<1>7. Len(got') <= want'
  BY <1>1, <1>2, <1>4, <1>5
<1>8. Sent' = Sent
  BY <1>1 DEF Sent
<1>9. Typed'
  BY <1>1, <1>3, <1>5, <1>7, <1>8 DEF Typed
<1>10. ASSUME conn \in Commands PROVE InField'
  <2> DEFINE start == FieldAt(conn, field)
             l == Len(got)
             now == start + l
  <2>1. InField
    BY <1>6, <1>10 DEF IInv, Fields
  <2>2. /\ start \in Nat /\ Sent \in Bytes /\ Len(Sent) \in Nat /\ arrives \in Nat
        /\ arrives <= Len(Sent)
    BY <1>3, <1>6, <1>10, FieldParts, SentIsBytes DEF Typed
  <2>3. /\ now <= arrives /\ got = SubSeq(Sent, start + 1, now)
        /\ stream = SubSeq(Sent, now + 1, arrives)
    BY <2>1, Zenon DEF InField
  <2>4. now \in Nat /\ start <= now /\ start + (l + n) = now + n
    BY <1>4, <2>2
  <2> HIDE DEF now
  <2>5. n <= arrives - now
    BY <1>4, <2>2, <2>3, <2>4, SliceIsBytes
  <2>6. got' = SubSeq(Sent, start + 1, now + n) /\ stream' = SubSeq(Sent, now + n + 1, arrives)
    <3> HIDE DEF start
    <3> DEFINE q == now + n
    <3>1. now <= arrives /\ q \in Nat /\ now <= q /\ q <= Len(Sent)
      BY <1>4, <2>2, <2>3, <2>4, <2>5
    <3>2. /\ Taken(Between(Sent, now, arrives), n) = Between(Sent, now, now + n)
          /\ Remaining(Between(Sent, now, arrives), n) = Between(Sent, now + n, arrives)
      BY <1>4, <2>2, <2>4, <2>5, <3>1, ReadDivides
    <3> HIDE DEF q
    <3>3. Between(Sent, start, now) \o Between(Sent, now, q) = Between(Sent, start, q)
      BY <2>2, <2>4, <3>1, BetweenJoins
    <3> QED
      BY <1>2, <2>3, <3>2, <3>3, Zenon DEF Between, q
  <2>7. now + n <= arrives /\ FieldAt(conn, field) + Len(got') = now + n
    BY <1>4, <1>5, <2>2, <2>4, <2>5
  <2> HIDE DEF start
  <2>8. /\ got' = SubSeq(Sent, FieldAt(conn, field) + 1, FieldAt(conn, field) + Len(got'))
        /\ stream' = SubSeq(Sent, FieldAt(conn, field) + Len(got') + 1, arrives)
        /\ FieldAt(conn, field) + Len(got') <= arrives
    BY <2>6, <2>7, Zenon DEF start
  <2>9. /\ want = Len(FieldIs(conn, field)) /\ (field = "address" => header = Start(conn))
        /\ (field \in {"tlvLength", "tlvs"} => source = conn.src)
    BY <2>1, Zenon DEF InField
  <2> QED
    BY <1>1, <1>8, <2>8, <2>9, Zenon DEF InField
<1>11. field' # "bridge"
  BY <1>1, <1>6 DEF Fields
<1> QED
  BY <1>1, <1>9, <1>10, <1>11 DEF IInv

\* The stream ends within a field.
LEMMA ReadEofInv ==
    ASSUME IInv, ReadEof
    PROVE  IInv'
<1>1. /\ conn' = conn /\ arrives' = arrives /\ stream' = stream /\ header' = header
      /\ field' = "bridge" /\ want' = 0 /\ got' = <<>>
      /\ source' = NoSource /\ clientCert' = NoCert
      /\ Len(got) < want /\ stream = <<>>
  BY DEF ReadEof, Return
<1>2. Typed
  BY DEF IInv
<1>3. want \in Nat /\ Len(got) \in Nat
  BY <1>2, UshortIs, LenProperties DEF Typed, Bytes
<1>4. field \in Fields
  <2>1. want # 0
    BY <1>1, <1>3
  <2> QED
    BY <1>2, <2>1 DEF Typed
<1>5. Sent' = Sent
  BY <1>1 DEF Sent
<1>6. Typed'
  <2>1. <<>> \in Bytes /\ Len(<<>>) <= 0 /\ 0 \in Ushort
    BY UshortIs DEF Bytes
  <2> QED
    BY <1>1, <1>2, <1>5, <2>1 DEF Typed
<1>7. ASSUME conn \in Commands PROVE Behind'
  <2>1. InField
    BY <1>4, <1>7 DEF IInv, Fields
  <2>2. ~ FrameArrives
    BY <1>1, <1>2, <1>4, <1>7, <2>1, BrokenOff
  <2> QED
    BY <1>1, <2>2 DEF Behind, FrameArrives
<1> QED
  BY <1>1, <1>6, <1>7 DEF IInv

\* The kinds of the values when the reader is left, and when it goes on with another field.
LEMMA LeftTyped ==
    ASSUME Typed, UNCHANGED <<conn, arrives, stream>>, header' \in Bytes,
           field' = "bridge", want' = 0, got' = <<>>,
           source' \in IPEndPoints \cup {NoSource},
           clientCert' = NoCert \/ clientCert' \in CertForms
    PROVE  Typed'
<1>1. Sent' = Sent
  BY DEF Sent
<1>2. <<>> \in Bytes /\ Len(<<>>) <= 0 /\ 0 \in Ushort
  BY UshortIs DEF Bytes
<1> QED
  BY <1>1, <1>2 DEF Typed

\* The same for a step to the next field of the header.
LEMMA OnTyped ==
    ASSUME Typed, UNCHANGED <<conn, arrives, stream, clientCert>>, header' \in Bytes,
           field' \in {"address", "tlvLength", "tlvs"}, want' \in Ushort, got' = <<>>,
           field' = "tlvLength" => want' = 2, source' \in IPEndPoints \cup {NoSource}
    PROVE  Typed'
<1>1. Sent' = Sent
  BY DEF Sent
<1>2. <<>> \in Bytes /\ Len(<<>>) = 0 /\ 0 <= want'
  BY UshortIs DEF Bytes
<1>3. field' \in Fields /\ field' # "bridge" /\ field' # "signature"
  BY DEF Fields
<1>4. Len(got') <= want' /\ got' \in Bytes
  BY <1>2
<1> QED
  BY <1>1, <1>3, <1>4, Zenon DEF Typed

\* The reader goes on where it is.
LEMMA OnInField ==
    ASSUME conn \in Commands, Typed, InField, field \in Fields, Len(got) = want,
           UNCHANGED <<conn, arrives, stream>>, field' \in Fields, got' = <<>>,
           FieldAt(conn, field') = FieldAt(conn, field) + Len(FieldIs(conn, field)),
           want' = Len(FieldIs(conn, field')),
           field' = "address" => header' = Start(conn),
           field' \in {"tlvLength", "tlvs"} => source' = conn.src
    PROVE  InField'
<1>1. Sent' = Sent /\ Len(<<>>) = 0
  BY DEF Sent
<1>2. ASSUME NEW f \in Fields, FieldAt(conn, f) = FieldAt(conn, field) + Len(FieldIs(conn, field))
      PROVE  /\ FieldAt(conn, f) + 0 <= arrives
             /\ <<>> = SubSeq(Sent, FieldAt(conn, f) + 1, FieldAt(conn, f) + 0)
             /\ stream = SubSeq(Sent, FieldAt(conn, f) + 0 + 1, arrives)
  BY <1>2, FieldFollows
<1>3. /\ FieldAt(conn, field') + 0 <= arrives
      /\ <<>> = SubSeq(Sent, FieldAt(conn, field') + 1, FieldAt(conn, field') + 0)
      /\ stream = SubSeq(Sent, FieldAt(conn, field') + 0 + 1, arrives)
  BY <1>2
<1> QED
  BY <1>1, <1>3, Zenon DEF InField

\* The reader is left at the end of the frame.
LEMMA LeftBehind ==
    ASSUME conn \in Commands, Typed, InField, field \in Fields, Len(got) = want,
           UNCHANGED <<conn, arrives, stream>>,
           Len(Frame(conn)) = FieldAt(conn, field) + Len(FieldIs(conn, field)),
           source' = conn.src, clientCert' = ParseTlvBlock(Tlvs(conn))
    PROVE  Behind'
<1>1. Sent' = Sent
  BY DEF Sent
<1> DEFINE p == Len(Frame(conn))
<1>2. p <= arrives /\ stream = SubSeq(Sent, p + 1, arrives)
  BY Zenon DEF InField
<1>3. arrives >= p
  <2>1. p \in Nat /\ arrives \in Nat
    BY SentIsBytes DEF Typed
  <2> HIDE DEF p
  <2> QED
    BY <1>2, <2>1
<1> QED
  BY <1>1, <1>2, <1>3, Zenon DEF Behind, FrameArrives

\* The signature was read: in a frame of the PROXY command it is what was written.
LEMMA SignatureReadInv ==
    ASSUME IInv, SignatureRead
    PROVE  IInv'
<1>1. /\ Typed /\ field = "signature" /\ field \in Fields /\ field # "bridge"
      /\ Len(got) = want /\ want = 16 /\ got \in Bytes /\ header \in Bytes
  BY DEF IInv, Typed, SignatureRead, Fields
<1>2. UNCHANGED <<conn, arrives, stream>>
  BY DEF SignatureRead
<1>3. conn \in Commands =>
          /\ InField /\ SubSeq(got, 1, 12) = Signature /\ got[13] = VerCmdProxy
          /\ got = Start(conn) /\ U16(got, 14) = Len(FieldIs(conn, "address"))
  <2> SUFFICES ASSUME conn \in Commands
               PROVE  /\ InField /\ SubSeq(got, 1, 12) = Signature /\ got[13] = VerCmdProxy
                      /\ got = Start(conn) /\ U16(got, 14) = Len(FieldIs(conn, "address"))
    OBVIOUS
  <2>1. InField
    BY <1>1 DEF IInv
  <2>2. got = FieldIs(conn, field)
    BY <1>1, <2>1, FieldArrived
  <2>3. got = Start(conn) /\ FieldIs(conn, "address") = Block(conn)
    BY <1>1, <2>2 DEF FieldIs
  <2> QED
    BY <2>1, <2>3, StartParts
<1>4. U16(got, 14) \in Ushort
  <2>1. 14 \in Nat /\ 14 + 2 <= Len(got)
    BY <1>1
  <2> QED
    BY <1>1, <2>1, U16IsUshort
<1>5. CASE /\ SubSeq(got, 1, 12) # Signature \/ got[13] \notin {VerCmdLocal, VerCmdProxy}
           /\ Return(NoSource, NoCert) /\ UNCHANGED header
  <2>1. conn \notin Commands
    BY <1>3, <1>5
  <2>2. Typed'
    BY <1>1, <1>2, <1>5, LeftTyped DEF Return
  <2> QED
    BY <1>2, <2>1, <2>2 DEF IInv
<1>6. CASE /\ SubSeq(got, 1, 12) = Signature /\ got[13] = VerCmdLocal
           /\ Return(LocalSource, NoCert) /\ UNCHANGED header
  <2>1. conn \notin Commands
    BY <1>3, <1>6 DEF VerCmdLocal, VerCmdProxy
  <2>2. Typed'
    BY <1>1, <1>2, <1>6, LeftTyped, LocalSourceType DEF Return
  <2> QED
    BY <1>2, <2>1, <2>2 DEF IInv
<1>7. CASE /\ SubSeq(got, 1, 12) = Signature /\ got[13] = VerCmdProxy
           /\ header' = got /\ Field("address", U16(got, 14)) /\ UNCHANGED <<source, clientCert>>
  <2>1. /\ header' = got /\ field' = "address" /\ want' = U16(got, 14) /\ got' = <<>>
        /\ source' = source /\ clientCert' = clientCert
    BY <1>7 DEF Field
  <2>2. source \in IPEndPoints \cup {NoSource}
    BY <1>1 DEF Typed
  <2>3. Typed'
    BY <1>1, <1>2, <1>4, <2>1, <2>2, OnTyped
  <2>4. field' \in Fields /\ field' # "bridge" /\ field' \notin {"tlvLength", "tlvs"}
    BY <2>1 DEF Fields
  <2>5. ASSUME conn \in Commands PROVE InField'
    <3>1. FieldAt(conn, "address") = FieldAt(conn, "signature") + Len(FieldIs(conn, "signature"))
      BY <1>1, <2>5, FieldParts
    <3>2. want' = Len(FieldIs(conn, field')) /\ header' = Start(conn)
      BY <1>3, <2>1, <2>5
    <3> QED
      BY <1>1, <1>2, <1>3, <2>1, <2>4, <2>5, <3>1, <3>2, OnInField
  <2> QED
    BY <1>2, <2>3, <2>4, <2>5 DEF IInv
<1> QED
  BY <1>5, <1>6, <1>7 DEF SignatureRead

\* The address block was read: it is what was written, and the source is found in it.
LEMMA AddressReadInv ==
    ASSUME IInv, AddressRead
    PROVE  IInv'
<1>1. /\ Typed /\ field = "address" /\ field \in Fields /\ field # "bridge"
      /\ Len(got) = want /\ got \in Bytes /\ header \in Bytes
  BY DEF IInv, Typed, AddressRead, Fields
<1>2. /\ UNCHANGED <<conn, arrives, stream, clientCert>> /\ header' = header
      /\ source' = SourceIn(header[14], got)
      /\ field' = "tlvLength" /\ want' = 2 /\ got' = <<>>
  BY DEF AddressRead, Field
<1>3. source' \in IPEndPoints \cup {NoSource} /\ 2 \in Ushort
  BY <1>1, <1>2, SourceInType, UshortIs
<1>4. Typed'
  BY <1>1, <1>2, <1>3, OnTyped
<1>5. field' \in Fields /\ field' # "bridge" /\ field' # "address"
  BY <1>2 DEF Fields
<1>6. ASSUME conn \in Commands PROVE InField'
  <2>1. InField
    BY <1>1, <1>6 DEF IInv
  <2>2. got = FieldIs(conn, field)
    BY <1>1, <1>6, <2>1, FieldArrived
  <2>3. got = Block(conn)
    BY <1>1, <2>2 DEF FieldIs
  <2>4. header = Start(conn)
    BY <1>1, <2>1 DEF InField
  <2>5. source' = conn.src
    BY <1>2, <1>6, <2>3, <2>4, StartParts, BlockParts
  <2>6. /\ FieldAt(conn, "tlvLength") = FieldAt(conn, "address") + Len(FieldIs(conn, "address"))
        /\ Len(FieldIs(conn, "tlvLength")) = 2
    BY <1>1, <1>6, FieldParts
  <2> QED
    BY <1>1, <1>2, <1>5, <1>6, <2>1, <2>5, <2>6, OnInField
<1> QED
  BY <1>2, <1>4, <1>5, <1>6 DEF IInv

\* The length of the entries was read: it is what was written; and without entries the
\* frame ends with it.
LEMMA TlvLengthReadInv ==
    ASSUME IInv, TlvLengthRead
    PROVE  IInv'
<1>1. /\ Typed /\ field = "tlvLength" /\ field \in Fields /\ field # "bridge"
      /\ Len(got) = want /\ want = 2 /\ got \in Bytes /\ header \in Bytes
      /\ source \in IPEndPoints \cup {NoSource}
  BY DEF IInv, Typed, TlvLengthRead, Fields
<1>2. UNCHANGED <<conn, arrives, stream, header>>
  BY DEF TlvLengthRead
<1>3. U16(got, 0) \in Ushort
  <2>1. 0 \in Nat /\ 0 + 2 <= Len(got)
    BY <1>1
  <2> QED
    BY <1>1, <2>1, U16IsUshort
<1>4. ASSUME conn \in Commands
      PROVE  /\ InField /\ U16(got, 0) = Len(Tlvs(conn)) /\ FieldIs(conn, "tlvs") = Tlvs(conn)
             /\ source = conn.src
             /\ FieldAt(conn, "tlvs") = FieldAt(conn, field) + Len(FieldIs(conn, field))
             /\ Len(Frame(conn)) = FieldAt(conn, "tlvs") + Len(FieldIs(conn, "tlvs"))
             /\ FieldAt(conn, "tlvs") \in Nat
  <2>1. InField
    BY <1>1, <1>4 DEF IInv
  <2>2. got = FieldIs(conn, field)
    BY <1>1, <1>4, <2>1, FieldArrived
  <2>3. got = BE16(Len(Tlvs(conn))) /\ FieldIs(conn, "tlvs") = Tlvs(conn)
    BY <1>1, <2>2 DEF FieldIs
  <2>4. StandsAt(got, 0, got)
    BY <1>1 DEF StandsAt
  <2>5. Len(Tlvs(conn)) \in Ushort
    BY <1>4, TlvsFit DEF Commands
  <2>6. U16(got, 0) = Len(Tlvs(conn))
    BY <1>1, <2>3, <2>4, <2>5, U16OfBE16, 0 \in Nat
  <2>7. source = conn.src
    BY <1>1, <2>1 DEF InField
  <2>8. "tlvs" \in Fields
    BY DEF Fields
  <2>9. /\ FieldAt(conn, "tlvs") = FieldAt(conn, field) + Len(FieldIs(conn, field))
        /\ Len(Frame(conn)) = FieldAt(conn, "tlvs") + Len(FieldIs(conn, "tlvs"))
        /\ FieldAt(conn, "tlvs") \in Nat
    BY <1>1, <1>4, <2>8, FieldParts
  <2> QED
    BY <2>1, <2>3, <2>6, <2>7, <2>9, Zenon
<1>5. CASE U16(got, 0) = 0 /\ Return(source, NoCert)
  <2>1. field' = "bridge" /\ want' = 0 /\ got' = <<>> /\ source' = source /\ clientCert' = NoCert
    BY <1>5 DEF Return
  <2>2. Typed'
    BY <1>1, <1>2, <2>1, LeftTyped
  <2>3. ASSUME conn \in Commands PROVE Behind'
    <3>1. Len(Tlvs(conn)) = 0 /\ Tlvs(conn) \in Bytes
      BY <1>4, <1>5, <2>3, TlvsFit DEF Commands
    <3>2. Tlvs(conn) = <<>>
      BY <3>1, EmptySeq DEF Bytes
    <3>3. clientCert' = ParseTlvBlock(Tlvs(conn))
      BY <2>1, <3>2, ParseNothing
    <3>4. Len(Frame(conn)) = FieldAt(conn, field) + Len(FieldIs(conn, field))
      <4> DEFINE a == FieldAt(conn, "tlvs")
      <4>1. Len(Frame(conn)) = a + 0 /\ a \in Nat
        BY <1>4, <2>3, <3>1
      <4> HIDE DEF a
      <4>2. Len(Frame(conn)) = a
        BY <4>1
      <4> QED
        BY <1>4, <2>3, <4>2 DEF a
    <3> QED
      BY <1>1, <1>2, <1>4, <2>1, <2>3, <3>3, <3>4, LeftBehind
  <2> QED
    BY <1>2, <2>1, <2>2, <2>3 DEF IInv
<1>6. CASE U16(got, 0) > 0 /\ Field("tlvs", U16(got, 0)) /\ UNCHANGED <<source, clientCert>>
  <2>1. /\ field' = "tlvs" /\ want' = U16(got, 0) /\ got' = <<>>
        /\ source' = source /\ clientCert' = clientCert
    BY <1>6 DEF Field
  <2>2. field' \in Fields /\ field' # "bridge" /\ field' # "address"
    BY <2>1 DEF Fields
  <2>3. Typed'
    BY <1>1, <1>2, <1>3, <2>1, OnTyped
  <2>4. ASSUME conn \in Commands PROVE InField'
    <3>1. want' = Len(FieldIs(conn, field')) /\ source' = conn.src
      BY <1>4, <2>1, <2>4
    <3> QED
      BY <1>1, <1>2, <1>4, <2>1, <2>2, <2>4, <3>1, OnInField
  <2> QED
    BY <1>2, <2>2, <2>3, <2>4 DEF IInv
<1> QED
  BY <1>5, <1>6 DEF TlvLengthRead

\* The entries were read: they are what was written.
LEMMA TlvsReadInv ==
    ASSUME IInv, TlvsRead
    PROVE  IInv'
<1>1. /\ Typed /\ field = "tlvs" /\ field \in Fields /\ field # "bridge"
      /\ Len(got) = want /\ got \in Bytes /\ header \in Bytes
      /\ source \in IPEndPoints \cup {NoSource}
  BY DEF IInv, Typed, TlvsRead, Fields
<1>2. /\ UNCHANGED <<conn, arrives, stream, header>>
      /\ field' = "bridge" /\ want' = 0 /\ got' = <<>>
      /\ source' = source /\ clientCert' = ParseTlvBlock(got)
  BY DEF TlvsRead, Return
<1>3. clientCert' = NoCert \/ clientCert' \in CertForms
  BY <1>1, <1>2, ParseBlockType
<1>4. Typed'
  BY <1>1, <1>2, <1>3, LeftTyped
<1>5. ASSUME conn \in Commands PROVE Behind'
  <2>1. InField
    BY <1>1, <1>5 DEF IInv
  <2>2. got = FieldIs(conn, field)
    BY <1>1, <1>5, <2>1, FieldArrived
  <2>3. got = Tlvs(conn)
    BY <1>1, <2>2 DEF FieldIs
  <2>4. source = conn.src
    BY <1>1, <2>1 DEF InField
  <2>5. Len(Frame(conn)) = FieldAt(conn, field) + Len(FieldIs(conn, field))
    BY <1>1, <1>5, FieldParts
  <2> QED
    BY <1>1, <1>2, <1>5, <2>1, <2>3, <2>4, <2>5, LeftBehind
<1> QED
  BY <1>2, <1>4, <1>5 DEF IInv

\* The invariant is inductive.
THEOREM Invariant == Spec => []IInv
<1>1. Init => IInv
  BY InitInv
<1>2. IInv /\ [Next]_vars => IInv'
  <2> SUFFICES ASSUME IInv, [Next]_vars PROVE IInv'
    OBVIOUS
  <2>1. CASE UNCHANGED vars
    BY <2>1 DEF IInv, Typed, InField, Behind, Sent, FrameArrives, vars
  <2> QED
    BY <2>1, ReadSomeInv, ReadEofInv, SignatureReadInv, AddressReadInv, TlvLengthReadInv,
       TlvsReadInv DEF Next
<1> QED
  BY <1>1, <1>2, PTL DEF Spec

-----------------------------------------------------------------------------
(* The properties.                                                         *)

\* A frame of the PROXY command is one that the properties speak of.
LEMMA CommandsAre == conn \in Connections => (conn \in Commands <=> ProxyCommand)
  BY DEF Commands, ProxyCommand

\* TypeOK: every variable keeps its kind, and no field is read beyond its end.
THEOREM TypeCorrect == Spec => []TypeOK
<1>1. IInv => TypeOK
  <2> SUFFICES ASSUME IInv PROVE TypeOK
    OBVIOUS
  <2>1. Typed
    BY DEF IInv
  <2>2. arrives \in Nat
    BY <2>1, SentIsBytes DEF Typed
  <2> QED
    BY <2>1, <2>2, Zenon DEF Typed, TypeOK, CertForms
<1> QED
  BY <1>1, Invariant, PTL

\* ProxyFrameTaken: whatever endpoints, certificate and entries a frame of the PROXY
\* command carries and however the stream was cut, the broker is given exactly the
\* application's bytes behind it.
THEOREM FrameTaken == Spec => []ProxyFrameTaken
<1>1. IInv => ProxyFrameTaken
  <2> SUFFICES ASSUME IInv, field = "bridge", ProxyCommand
               PROVE  stream = Taken(conn.app, IF FrameArrives THEN arrives - Len(Frame(conn)) ELSE 0)
    BY DEF ProxyFrameTaken
  <2> DEFINE frame == Frame(conn)
             app == conn.app
             f == Len(frame)
             n == arrives - f
  <2>1. Typed /\ Behind
    BY CommandsAre DEF IInv, Typed
  <2>2. /\ Sent \in Bytes /\ Len(Sent) = f + Len(app) /\ frame \in Bytes /\ app \in Bytes
        /\ f \in Nat /\ Len(app) \in Nat /\ Len(Sent) \in Nat
        /\ arrives \in 0 .. Len(Sent)
    BY <2>1, SentIsBytes DEF Typed
  <2>3. CASE ~ FrameArrives
    <3>1. stream = <<>>
      BY <2>1, <2>3 DEF Behind
    <3>2. Taken(app, 0) = <<>>
      BY SubSeqEmpty DEF Taken
    <3> QED
      BY <2>3, <3>1, <3>2
  <2>4. CASE FrameArrives
    <3> DEFINE left == SubSeq(Sent, f + 1, arrives)
               right == SubSeq(app, 0 + 1, n)
    <3>1. stream = left
      BY <2>1, <2>4, Zenon DEF Behind
    <3>2. arrives >= f
      BY <2>4 DEF FrameArrives
    <3> HIDE DEF f, app
    <3>3. /\ n \in Nat /\ f <= arrives /\ arrives \in Nat /\ arrives <= Len(Sent)
          /\ n <= Len(app) /\ n - 0 = n
      BY <2>2, <3>2
    <3>4. left \in Bytes /\ Len(left) = n /\ \A i \in 1 .. n : left[i] = Sent[f + i]
      <4>1. /\ left \in Bytes /\ Len(left) = arrives - f
            /\ \A i \in 1 .. arrives - f : left[i] = Sent[f + i]
        BY <2>2, <3>3, SliceIsBytes
      <4> QED
        BY <4>1
    <3>5. right \in Bytes /\ Len(right) = n /\ \A i \in 1 .. n : right[i] = app[0 + i]
      <4>1. /\ right \in Bytes /\ Len(right) = n - 0
            /\ \A i \in 1 .. n - 0 : right[i] = app[0 + i]
        <5>1. app \in Bytes /\ n \in Nat /\ n <= Len(app) /\ 0 <= n
          BY <2>2, <3>3
        <5> HIDE DEF n
        <5> QED
          BY <5>1, SliceIsBytes, 0 \in Nat, Zenon
      <4> QED
        BY <3>3, <4>1, Zenon
    <3>6. ASSUME NEW i \in 1 .. n PROVE left[i] = right[i]
      <4>1. (frame \o app)[f + i] = app[i]
        <5>1. i \in 1 .. Len(app)
          BY <2>2, <3>3
        <5>2. \A k \in 1 .. Len(app) : (frame \o app)[Len(frame) + k] = app[k]
          BY <2>2, ConcatProperties DEF Bytes
        <5> QED
          BY <5>1, <5>2 DEF f
      <4>2. 0 + i = i
        BY <3>3
      <4> QED
        BY <3>4, <3>5, <4>1, <4>2 DEF Sent, app
    <3> HIDE DEF left, right, n
    <3>7. left = right
      BY <3>3, <3>4, <3>5, <3>6, SeqEqual DEF Bytes
    <3>8. Taken(app, n) = right
      <4>1. 0 + 1 = 1
        OBVIOUS
      <4> QED
        BY <4>1, Zenon DEF Taken, right
    <3> QED
      BY <2>4, <3>1, <3>7, <3>8 DEF n, f, app
  <2> QED
    BY <2>3, <2>4
<1> QED
  BY <1>1, Invariant, PTL

\* ClientKnown: of any client, the address and the certificate that are reported are its
\* own, or nothing when the frame broke off.
THEOREM ClientKnownRight == Spec => []ClientKnown
<1>1. IInv => ClientKnown
  <2> SUFFICES ASSUME IInv, field = "bridge", conn.by = "gateway", ProxyCommand
               PROVE  IF FrameArrives THEN source = conn.src /\ clientCert = conn.cert
                                      ELSE source = NoSource /\ clientCert = NoCert
    BY DEF ClientKnown
  <2>1. conn \in Connections /\ Behind
    BY CommandsAre DEF IInv, Typed
  <2>2. CASE FrameArrives
    <3>1. source = conn.src /\ clientCert = ParseTlvBlock(Tlvs(conn))
      BY <2>1, <2>2 DEF Behind
    <3>2. ParseTlvBlock(Tlvs(conn)) = conn.cert
      <4>1. CASE conn.cert = NoCert
        BY <4>1, ParseNothing DEF Tlvs
      <4>2. CASE conn.cert # NoCert
        <5>1. conn.cert \in Certs /\ Tlvs(conn) = BuildClientCertTlv(conn.cert)
          BY <2>1, <4>2, ConnectionParts DEF Tlvs
        <5> QED
          BY <5>1, ParseOwnEntry
      <4> QED
        BY <4>1, <4>2
    <3> QED
      BY <2>2, <3>1, <3>2
  <2>3. CASE ~ FrameArrives
    BY <2>1, <2>3 DEF Behind
  <2> QED
    BY <2>2, <2>3
<1> QED
  BY <1>1, Invariant, PTL

\* LastCertificateDecides: among any entries of any types the last one for a client
\* certificate decides which certificate is reported, and whether one is.
THEOREM LastDecides == Spec => []LastCertificateDecides
<1>1. IInv => LastCertificateDecides
  <2> SUFFICES ASSUME IInv, field = "bridge", conn.by = "proxy"
               PROVE  DecidedByLast(conn.entries, clientCert)
    BY Zenon DEF LastCertificateDecides, DecidedByLast
  <2>1. conn \in Connections /\ Behind /\ arrives = Len(Sent)
    BY DEF IInv, Typed, Commands
  <2>2. FrameArrives
    <3> DEFINE f == Len(Frame(conn))
               a == Len(conn.app)
    <3>1. arrives = f + a /\ f \in Nat /\ a \in Nat
      BY <2>1, SentIsBytes
    <3> HIDE DEF f, a
    <3>2. arrives >= f
      BY <3>1
    <3> QED
      BY <3>2 DEF FrameArrives, f
  <2>3. clientCert = ParseTlvBlock(TlvBlock(conn.entries))
    BY <2>1, <2>2 DEF Behind, Tlvs
  <2>4. conn.entries \in Seq(EntryForms) /\ Len(TlvBlock(conn.entries)) \in Ushort
    BY <2>1, ConnectionParts
  <2>5. TlvBlock(conn.entries) \in Bytes
        /\ \E ends : Divided(TlvBlock(conn.entries), conn.entries, ends)
    BY <2>4, TlvBlockDivided
  <2> QED
    BY <2>3, <2>4, <2>5, ParseDecidedByLast
<1> QED
  BY <1>1, Invariant, PTL

=============================================================================

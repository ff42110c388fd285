------------------------ MODULE GatewayRoutingProofs ------------------------
(***************************************************************************)
(* What the gateway's route computation yields for every route table, base *)
(* domain and host name: the handler chooses the endpoint of the first row *)
(* that serves the name, and finds none only when no row serves it.        *)
(***************************************************************************)
EXTENDS Gateway, StreamsProofs, WellFoundedInduction

-----------------------------------------------------------------------------
(* The first and the last number of a set, and the first row of the table. *)

LEMMA MinIsFirst ==
  ASSUME NEW I \in SUBSET Nat, I # {}
  PROVE  Min(I) \in I /\ \A j \in I : Min(I) <= j
<1>1. PICK i \in I : \A j \in I : <<j, i>> \notin OpToRel(<, Nat)
  BY NatLessThanWellFounded, WFMin
<1>2. ASSUME NEW j \in I PROVE i <= j
  <2>1. ~ (j < i)
    BY <1>1, Zenon DEF OpToRel
  <2> QED
    BY <2>1
<1> QED
  BY <1>2 DEF Min

LEMMA MaxIsLast ==
  ASSUME NEW n \in Nat, NEW I \in SUBSET (1 .. n), I # {}
  PROVE  Max(I) \in I /\ \A j \in I : j <= Max(I)
<1> DEFINE J == {n - i : i \in I}
<1>1. J \in SUBSET Nat /\ J # {}
  <2>1. \A i \in I : n - i \in Nat
    OBVIOUS
  <2> QED
    BY <2>1
<1>2. PICK m \in J : \A j \in J : m <= j
  BY <1>1, MinIsFirst
<1>3. \E i \in I : \A j \in I : j <= i
  <2>1. PICK i \in I : m = n - i
    BY <1>2
  <2>2. ASSUME NEW j \in I PROVE j <= i
    <3>1. n - j \in J
      OBVIOUS
    <3>2. m <= n - j
      BY <3>1, <1>2
    <3> QED
      BY <2>1, <3>2
  <2> QED
    BY <2>2
<1> QED
  BY <1>3 DEF Max

\* FindBackend is the first row of a tenant, or 0 when the table has none.
LEMMA FindBackendIsFirst ==
  ASSUME NEW t
  PROVE  /\ FindBackend(t) \in 0 .. Len(RouteTable)
         /\ FindBackend(t) # 0 =>
              /\ FindBackend(t) \in DOMAIN RouteTable
              /\ Folded(RouteTable[FindBackend(t)].tenant) = Folded(t)
         /\ \A j \in DOMAIN RouteTable :
              j < FindBackend(t) \/ FindBackend(t) = 0
                => Folded(RouteTable[j].tenant) # Folded(t)
<1> DEFINE I == {i \in 1 .. Len(RouteTable) : Folded(RouteTable[i].tenant) = Folded(t)}
<1>1. FindBackend(t) = IF I # {} THEN Min(I) ELSE 0
  BY DEF FindBackend, SelectInSeq
<1>2. Len(RouteTable) \in Nat /\ DOMAIN RouteTable = 1 .. Len(RouteTable)
  BY RouteTableAssumption, LenProperties
<1>3. I \in SUBSET Nat
  BY <1>2
<1>4. CASE I = {}
  BY <1>1, <1>2, <1>4
<1>5. CASE I # {}
  <2>1. FindBackend(t) \in I /\ \A j \in I : FindBackend(t) <= j
    BY <1>1, <1>3, <1>5, MinIsFirst
  <2>2. \A j \in I : ~ (j < FindBackend(t)) /\ FindBackend(t) # 0
    BY <2>1, <1>3
  <2> QED
    BY <2>1, <2>2, <1>2
<1> QED
  BY <1>4, <1>5

-----------------------------------------------------------------------------
(* Host names.                                                             *)

FoldedLabels == {Fold(l) : l \in Labels}

LEMMA FoldedIsSeq ==
  ASSUME NEW s \in Seq(Labels)
  PROVE  /\ Folded(s) \in Seq(FoldedLabels)
         /\ Len(Folded(s)) = Len(s)
         /\ \A i \in 1 .. Len(s) : Folded(s)[i] = Fold(s[i])
<1>1. /\ Len(s) \in Nat /\ DOMAIN s = 1 .. Len(s)
      /\ \A i \in 1 .. Len(s) : s[i] \in Labels
  BY LenProperties, ElementOfSeq
<1>2. Folded(s) = [i \in 1 .. Len(s) |-> Fold(s[i])]
  BY <1>1 DEF Folded
<1>3. \A i \in 1 .. Len(s) : Fold(s[i]) \in FoldedLabels
  BY <1>1 DEF FoldedLabels
<1> QED
  BY <1>1, <1>2, <1>3

\* Two ways to divide a sequence at the same place give the same parts.
LEMMA EqualParts ==
  ASSUME NEW S, NEW a \in Seq(S), NEW b \in Seq(S), NEW c \in Seq(S), NEW d \in Seq(S),
         a \o b = c \o d, Len(a) = Len(c)
  PROVE  a = c /\ b = d
<1>1. /\ Len(a) \in Nat /\ Len(b) \in Nat /\ Len(c) \in Nat /\ Len(d) \in Nat
      /\ Len(a \o b) = Len(a) + Len(b) /\ Len(c \o d) = Len(c) + Len(d)
      /\ \A i \in 1 .. Len(a) + Len(b) :
            (a \o b)[i] = IF i <= Len(a) THEN a[i] ELSE b[i - Len(a)]
      /\ \A i \in 1 .. Len(c) + Len(d) :
            (c \o d)[i] = IF i <= Len(c) THEN c[i] ELSE d[i - Len(c)]
  BY LenProperties, ConcatProperties
<1>2. \A i \in 1 .. Len(a) : a[i] = c[i]
  BY <1>1
<1>3. a = c
  BY <1>2, SeqEqual
<1>4. Len(b) = Len(d)
  BY <1>1
<1>5. ASSUME NEW i \in 1 .. Len(b) PROVE b[i] = d[i]
  <2>1. /\ Len(a) + i \in 1 .. Len(a) + Len(b)
        /\ ~ (Len(a) + i <= Len(a)) /\ Len(a) + i - Len(a) = i
    BY <1>1
  <2>2. (a \o b)[Len(a) + i] = b[i]
    BY <2>1, <1>1
  <2>3. (c \o d)[Len(a) + i] = d[i]
    BY <2>1, <1>1, <1>4
  <2> QED
    BY <2>2, <2>3
<1>6. b = d
  BY <1>4, <1>5, SeqEqual
<1> QED
  BY <1>3, <1>6

\* A host name is the labels in front of a place and those after it, in any case.
LEMMA FoldedSplit ==
  ASSUME NEW s \in Seq(Labels), NEW k \in 0 .. Len(s)
  PROVE  /\ SubSeq(s, 1, k) \in Seq(Labels) /\ Len(SubSeq(s, 1, k)) = k
         /\ SubSeq(s, k + 1, Len(s)) \in Seq(Labels)
         /\ Folded(s) = Folded(SubSeq(s, 1, k)) \o Folded(SubSeq(s, k + 1, Len(s)))
<1> DEFINE a == SubSeq(s, 1, k)
           b == SubSeq(s, k + 1, Len(s))
<1>1. Len(s) \in Nat /\ \A i \in 1 .. Len(s) : s[i] \in Labels
  BY LenProperties, ElementOfSeq
<1>2. a \in Seq(Labels) /\ Len(a) = k /\ \A i \in 1 .. k : a[i] = s[i]
  BY <1>1, SubSeqProperties
<1>3. /\ b \in Seq(Labels) /\ Len(b) = Len(s) - k
      /\ \A i \in 1 .. Len(s) - k : b[i] = s[k + i]
  BY <1>1, SubSeqProperties
<1> HIDE DEF a, b
<1>4. /\ Folded(a) \in Seq(FoldedLabels) /\ Len(Folded(a)) = k
      /\ \A i \in 1 .. k : Folded(a)[i] = Fold(s[i])
  BY <1>2, FoldedIsSeq
<1>5. /\ Folded(b) \in Seq(FoldedLabels) /\ Len(Folded(b)) = Len(s) - k
      /\ \A i \in 1 .. Len(s) - k : Folded(b)[i] = Fold(s[k + i])
  BY <1>3, FoldedIsSeq
<1>6. /\ Folded(s) \in Seq(FoldedLabels) /\ Len(Folded(s)) = Len(s)
      /\ \A i \in 1 .. Len(s) : Folded(s)[i] = Fold(s[i])
  BY FoldedIsSeq
<1>7. /\ Folded(a) \o Folded(b) \in Seq(FoldedLabels)
      /\ Len(Folded(a) \o Folded(b)) = k + (Len(s) - k)
      /\ \A i \in 1 .. k + (Len(s) - k) :
            (Folded(a) \o Folded(b))[i] =
               IF i <= k THEN Folded(a)[i] ELSE Folded(b)[i - k]
  BY <1>4, <1>5, ConcatProperties
<1>8. \A i \in 1 .. Len(s) : Folded(s)[i] = (Folded(a) \o Folded(b))[i]
  <2> TAKE i \in 1 .. Len(s)
  <2>1. CASE i <= k
    BY <2>1, <1>1, <1>4, <1>6, <1>7
  <2>2. CASE ~ (i <= k)
    <3>1. i - k \in 1 .. Len(s) - k /\ k + (i - k) = i /\ i \in 1 .. k + (Len(s) - k)
      BY <2>2, <1>1
    <3> QED
      BY <2>2, <3>1, <1>5, <1>6, <1>7
  <2> QED
    BY <2>1, <2>2
<1>9. k + (Len(s) - k) = Len(s)
  BY <1>1
<1>10. Folded(s) = Folded(a) \o Folded(b)
  BY <1>6, <1>7, <1>8, <1>9, SeqEqual
<1> QED
  BY <1>2, <1>3, <1>10 DEF a, b

LEMMA StripPortIsSeq ==
  ASSUME NEW h \in Seq(Labels)
  PROVE  StripPort(h) \in Seq(Labels)
<1> DEFINE I == {i \in 1 .. Len(h) : h[i] = Colon}
           m == Min(I)
<1>1. StripPort(h) = IF I # {} /\ m > 0 THEN SubSeq(h, 1, m - 1) ELSE h
  BY DEF StripPort, SelectInSeq
<1>2. Len(h) \in Nat /\ \A i \in 1 .. Len(h) : h[i] \in Labels
  BY LenProperties, ElementOfSeq
<1>3. I \in SUBSET Nat
  BY <1>2
<1>4. ASSUME I # {} PROVE SubSeq(h, 1, m - 1) \in Seq(Labels)
  <2>1. m \in I
    BY <1>3, <1>4, MinIsFirst
  <2>2. m \in 1 .. Len(h)
    BY <2>1
  <2> HIDE DEF m
  <2>3. m - 1 \in Int /\ \A i \in 1 .. m - 1 : h[i] \in Labels
    BY <2>2, <1>2
  <2> QED
    BY <2>3, SubSeqProperties
<1> QED
  BY <1>1, <1>4

LEMMA SuffixIsSeq == Suffix \in Seq(Labels)
<1> DEFINE d == BaseDomain
           full == {i \in 1 .. Len(d) : d[i] # ""}
<1>1. /\ d \in Seq(Labels) /\ Len(d) \in Nat /\ DOMAIN d = 1 .. Len(d)
      /\ \A i \in 1 .. Len(d) : d[i] \in Labels
  BY LabelsAssumption, LenProperties, ElementOfSeq
<1>2. CASE full = {}
  <2>1. Suffix = <<"">> /\ "" \in Labels
    BY <1>2, LabelsAssumption DEF Suffix, TrimDots
  <2>2. \A l \in Labels : <<l>> \in Seq(Labels)
    OBVIOUS
  <2> QED
    BY <2>1, <2>2
<1>3. CASE full # {}
  <2> DEFINE m == Min(full)
             n == Max(full)
  <2>1. full \in SUBSET (1 .. Len(d)) /\ full \in SUBSET Nat
    <3>1. full \subseteq 1 .. Len(d)
      OBVIOUS
    <3>2. \A i \in 1 .. Len(d) : i \in Nat
      BY <1>1
    <3> QED
      BY <3>1, <3>2
  <2>2. m \in full /\ n \in full
    BY <2>1, <1>1, <1>3, MinIsFirst, MaxIsLast
  <2>3. m \in 1 .. Len(d) /\ n \in 1 .. Len(d)
    BY <2>1, <2>2
  <2>4. Suffix = SubSeq(d, m, n)
    BY <1>3 DEF Suffix, TrimDots
  <2> HIDE DEF m, n, d
  <2>5. m \in Int /\ n \in Int /\ \A i \in m .. n : d[i] \in Labels
    BY <2>3, <1>1
  <2> QED
    BY <2>4, <2>5, SubSeqProperties
<1> QED
  BY <1>2, <1>3

\* The tenant that is extracted, in front of the base domain, is the host name.
LEMMA ExtractSound ==
  ASSUME NEW h \in Seq(Labels), ExtractTenantFromHost(h) # <<>>
  PROVE  /\ ExtractTenantFromHost(h) \in Seq(Labels)
         /\ Folded(StripPort(h)) = Folded(ExtractTenantFromHost(h)) \o Folded(Suffix)
<1> DEFINE host == StripPort(h)
           k == Len(host) - Len(Suffix)
<1>1. EndsWith(host, Suffix) /\ ExtractTenantFromHost(h) = SubSeq(host, 1, k)
  BY DEF ExtractTenantFromHost
<1>2. host \in Seq(Labels)
  BY StripPortIsSeq
<1> HIDE DEF host
<1>3. k \in 0 .. Len(host)
  BY <1>1, <1>2, SuffixIsSeq, LenProperties DEF EndsWith
<1>4. Folded(SubSeq(host, k + 1, Len(host))) = Folded(Suffix)
  BY <1>1 DEF EndsWith
<1>5. /\ SubSeq(host, 1, k) \in Seq(Labels)
      /\ Folded(host) = Folded(SubSeq(host, 1, k)) \o Folded(SubSeq(host, k + 1, Len(host)))
  BY <1>2, <1>3, FoldedSplit
<1> QED
  BY <1>1, <1>4, <1>5 DEF host

\* A host name made of a tenant and the base domain gives that tenant back.
LEMMA ExtractComplete ==
  ASSUME NEW h \in Seq(Labels), NEW t \in Seq(Labels), ~ IsBlank(t),
         Folded(StripPort(h)) = Folded(t) \o Folded(Suffix)
  PROVE  /\ ExtractTenantFromHost(h) # <<>>
         /\ Folded(ExtractTenantFromHost(h)) = Folded(t)
<1> DEFINE host == StripPort(h)
           k == Len(host) - Len(Suffix)
           a == SubSeq(host, 1, k)
           b == SubSeq(host, k + 1, Len(host))
<1>1. host \in Seq(Labels) /\ Len(host) \in Nat
  BY StripPortIsSeq, LenProperties
<1>2. Suffix \in Seq(Labels) /\ Len(Suffix) \in Nat
  BY SuffixIsSeq, LenProperties
<1>3. Len(t) \in Nat /\ Len(t) # 0
  BY LenProperties DEF IsBlank
<1>4. /\ Folded(host) \in Seq(FoldedLabels) /\ Len(Folded(host)) = Len(host)
      /\ Folded(t) \in Seq(FoldedLabels) /\ Len(Folded(t)) = Len(t)
      /\ Folded(Suffix) \in Seq(FoldedLabels) /\ Len(Folded(Suffix)) = Len(Suffix)
  BY <1>1, <1>2, FoldedIsSeq
<1>5. Len(host) = Len(t) + Len(Suffix)
  <2>1. Len(Folded(host)) = Len(Folded(t)) + Len(Folded(Suffix))
    BY <1>4, ConcatProperties
  <2> QED
    BY <2>1, <1>4
<1> HIDE DEF host
<1>6. k = Len(t) /\ k \in 0 .. Len(host) /\ Len(host) > Len(Suffix)
  BY <1>1, <1>2, <1>3, <1>5
<1> HIDE DEF k
<1>7. /\ a \in Seq(Labels) /\ Len(a) = k /\ b \in Seq(Labels)
      /\ Folded(host) = Folded(a) \o Folded(b)
  BY <1>1, <1>6, FoldedSplit
<1> HIDE DEF a, b
<1>8. /\ Folded(a) \in Seq(FoldedLabels) /\ Len(Folded(a)) = k
      /\ Folded(b) \in Seq(FoldedLabels)
  BY <1>7, FoldedIsSeq
<1>9. Folded(a) = Folded(t) /\ Folded(b) = Folded(Suffix)
  <2>1. Folded(a) \o Folded(b) = Folded(t) \o Folded(Suffix)
    BY <1>7 DEF host
  <2> QED
    BY <2>1, <1>4, <1>6, <1>8, EqualParts
<1>10. EndsWith(host, Suffix)
  BY <1>6, <1>9 DEF EndsWith, b, k
<1>11. ~ IsBlank(a)
  <2> SUFFICES ASSUME Len(a) = 1, a[1] \in Blanks PROVE FALSE
    BY <1>3, <1>6, <1>7 DEF IsBlank
  <2>1. Len(t) = 1 /\ t[1] \in Labels /\ a[1] \in Labels
    BY <1>6, <1>7, ElementOfSeq
  <2>2. Folded(a)[1] = Fold(a[1]) /\ Folded(t)[1] = Fold(t[1])
    <3>1. 1 \in 1 .. Len(a) /\ 1 \in 1 .. Len(t)
      BY <2>1
    <3> QED
      BY <3>1, <1>7, FoldedIsSeq
  <2>3. t[1] \in Blanks
    BY <2>1, <2>2, <1>9, LabelsAssumption
  <2> QED
    BY <2>1, <2>3 DEF IsBlank
<1>12. ExtractTenantFromHost(h) = a
  BY <1>10, <1>11 DEF ExtractTenantFromHost, host, a, k
<1>13. a # <<>>
  BY <1>3, <1>6, <1>7
<1> QED
  BY <1>9, <1>12, <1>13

LEMMA RowIsTyped ==
  ASSUME NEW i \in DOMAIN RouteTable
  PROVE  RouteTable[i] \in [tenant : Seq(Labels), host : STRING,
                            port : Nat \ {0}, tlsPort : Nat]
<1>1. DOMAIN RouteTable = 1 .. Len(RouteTable)
  BY RouteTableAssumption, LenProperties
<1> QED
  BY <1>1, RouteTableAssumption, ElementOfSeq

\* A row of the table serves the host name exactly if it is of the tenant that the
\* handler extracts.
LEMMA ServesIsTenant ==
  ASSUME NEW h \in Seq(Labels), NEW i \in DOMAIN RouteTable
  PROVE  /\ ExtractTenantFromHost(h) # <<>> =>
              (Serves(RouteTable[i], h) <=>
                 Folded(RouteTable[i].tenant) = Folded(ExtractTenantFromHost(h)))
         /\ Serves(RouteTable[i], h) /\ ~ IsBlank(RouteTable[i].tenant) =>
              ExtractTenantFromHost(h) # <<>>
<1> DEFINE r == RouteTable[i]
           t == ExtractTenantFromHost(h)
<1>1. r.tenant \in Seq(Labels)
  BY RowIsTyped
<1> HIDE DEF r
<1>2. Serves(r, h) /\ ~ IsBlank(r.tenant) => t # <<>>
  BY <1>1, ExtractComplete DEF Serves
<1>3. ASSUME t # <<>> PROVE Serves(r, h) <=> Folded(r.tenant) = Folded(t)
  <2>1. t \in Seq(Labels) /\ Folded(StripPort(h)) = Folded(t) \o Folded(Suffix)
    BY <1>3, ExtractSound
  <2> HIDE DEF t
  <2>2. /\ Folded(t) \in Seq(FoldedLabels) /\ Len(Folded(t)) \in Nat
        /\ Folded(r.tenant) \in Seq(FoldedLabels) /\ Len(Folded(r.tenant)) \in Nat
        /\ Folded(Suffix) \in Seq(FoldedLabels) /\ Len(Folded(Suffix)) \in Nat
    BY <2>1, <1>1, SuffixIsSeq, FoldedIsSeq, LenProperties
  <2>3. ASSUME Serves(r, h) PROVE Folded(r.tenant) = Folded(t)
    <3>1. Folded(r.tenant) \o Folded(Suffix) = Folded(t) \o Folded(Suffix)
      BY <2>1, <2>3 DEF Serves
    <3>2. Len(Folded(r.tenant)) = Len(Folded(t))
      BY <3>1, <2>2, ConcatProperties
    <3> QED
      BY <3>1, <3>2, <2>2, EqualParts
  <2> QED
    BY <2>1, <2>3 DEF Serves
<1> QED
  BY <1>2, <1>3 DEF r

\* What the route step chooses belongs to the owner of the name.
LEMMA RouteFindsOwner ==
  ASSUME NEW h \in Hellos, ExtractTenantFromHost(h.host) # <<>>,
         FindBackend(ExtractTenantFromHost(h.host)) # 0
  PROVE  /\ Endpoint(RouteTable[FindBackend(ExtractTenantFromHost(h.host))]) \in Owners(h)
         /\ Endpoint(RouteTable[FindBackend(ExtractTenantFromHost(h.host))])
               \in Endpoints
<1> DEFINE t == ExtractTenantFromHost(h.host)
           f == FindBackend(t)
<1>1. h.host \in Seq(Labels)
  BY HellosAssumption
<1>2. /\ f \in DOMAIN RouteTable
      /\ Folded(RouteTable[f].tenant) = Folded(t)
      /\ \A j \in DOMAIN RouteTable : j < f => Folded(RouteTable[j].tenant) # Folded(t)
  BY FindBackendIsFirst
<1>3. \A j \in DOMAIN RouteTable : Serves(RouteTable[j], h.host) <=>
                                   Folded(RouteTable[j].tenant) = Folded(t)
  BY <1>1, ServesIsTenant
<1>4. DOMAIN RouteTable = 1 .. Len(RouteTable) /\ Len(RouteTable) \in Nat
  BY RouteTableAssumption, LenProperties
<1>5. RouteTable[f] \in [tenant : Seq(Labels), host : STRING, port : Nat \ {0}, tlsPort : Nat]
  BY <1>2, RowIsTyped
<1> HIDE DEF f, t
<1>6. \A j \in 1 .. f - 1 : ~ Serves(RouteTable[j], h.host)
  <2> TAKE j \in 1 .. f - 1
  <2>1. j \in DOMAIN RouteTable /\ j < f
    BY <1>2, <1>4
  <2> QED
    BY <2>1, <1>2, <1>3
<1>7. Endpoint(RouteTable[f]) \in Owners(h)
  BY <1>2, <1>3, <1>6 DEF Owners
<1>8. Endpoint(RouteTable[f]) \in Endpoints
  BY <1>5 DEF Endpoint, Endpoints
<1> QED
  BY <1>7, <1>8 DEF f, t

\* A host name without a tenant, or with a tenant without a row, has no owner.
LEMMA RefusalHasNoOwner ==
  ASSUME NEW h \in Hellos, NEW i \in DOMAIN RouteTable,
         \/ ExtractTenantFromHost(h.host) = <<>>
         \/ FindBackend(ExtractTenantFromHost(h.host)) = 0,
         ~ IsBlank(RouteTable[i].tenant)
  PROVE  ~ Serves(RouteTable[i], h.host)
<1>1. h.host \in Seq(Labels)
  BY HellosAssumption
<1> QED
  BY <1>1, ServesIsTenant, FindBackendIsFirst
=============================================================================

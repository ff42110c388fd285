--------------------------- MODULE MCProxyProtocol ---------------------------
(***************************************************************************)
(* Frames between endpoints of both families, with two certificates, with  *)
(* entries that are unknown, cut short, flagged absent or too long, and a  *)
(* client that sends no frame.                                             *)
(***************************************************************************)
EXTENDS ProxyProtocol

V4 == [family |-> "v4", address |-> <<10, 0, 0, 7>>, port |-> 258]
V6 == [family |-> "v6", address |-> [i \in 1 .. 16 |-> 16 - i], port |-> 65535]
MCEndpoints == {V4, V6}

NamedCert == [thumbprint |-> <<1, 224>>, subject |-> <<67, 78>>, issuer |-> <<67>>]
EmptyCert == [thumbprint |-> <<>>, subject |-> <<>>, issuer |-> <<>>]
MCCerts == {NamedCert, EmptyCert}

\* A CONNECT that is shorter, and one that is longer, than the 16 bytes read first.
Connect(n) == <<16, n - 2>> \o [i \in 1 .. n - 2 |-> i]
MCApps == {Connect(4), Connect(18)}

Cert(v) == [type |-> TlvTypeClientCert, value |-> v]
MCEntries ==
    {[type |-> 5, value |-> <<1, 2>>],                  \* another type
     Cert(CertValue(NamedCert)),
     Cert(CertValue(EmptyCert) \o <<9>>),               \* bytes behind the certificate
     Cert(<<0>> \o Tail(CertValue(NamedCert))),         \* flagged absent
     Cert(Front(CertValue(NamedCert))),                 \* issuer cut short
     Cert(<<1, 200, 0>>), Cert(<<1, 0, 1, 0, 0>>),      \* lengths beyond the value
     Cert(<<1>>), Cert(<<>>)}
=============================================================================

------------------------------ MODULE MCGateway ------------------------------
(***************************************************************************)
(* The gateway on small instances: routes and host names that exercise the *)
(* route lookup, one client that says anything and one that is turned away. *)
(***************************************************************************)
EXTENDS Gateway

MCLabels == {"a", "A", "b", "x", "com", "COM", "", " ", Colon, "443"}
MCFold(l) == CASE l = "A" -> "a" [] l = "COM" -> "com" [] OTHER -> l
MCBlanks == {"", " "}

\* BaseDomain was written ".com."; the trimmed one is "com".
MCBaseDomain == <<"", "com", "">>

\* b is there twice (the first row wins) and has no TLS port in the first row.
MCRouteTable ==
    <<[tenant |-> <<"a">>, host |-> "hostA", port |-> 1883, tlsPort |-> 8883],
      [tenant |-> <<"b">>, host |-> "hostB", port |-> 1883, tlsPort |-> 0],
      [tenant |-> <<"b">>, host |-> "hostX", port |-> 1883, tlsPort |-> 8883],
      [tenant |-> <<"a", "x">>, host |-> "hostAX", port |-> 1883, tlsPort |-> 8883]>>

Sni(h) == [kind |-> "sni", host |-> h]
NoName == [kind |-> "noSni", host |-> <<>>]
Garbage == [kind |-> "other", host |-> <<>>]

\* Every shape of name: exact, another case, with a port, two labels deep, a blank
\* tenant, the base domain itself, another domain, an unknown tenant.
RoutingHellos ==
    {Sni(<<"a", "com">>), Sni(<<"A", "COM">>), Sni(<<"b", "com", Colon, "443">>),
     Sni(<<"a", "x", "com">>), Sni(<<" ", "com">>), Sni(<<"", "com">>), Sni(<<"com">>),
     Sni(<<"a", "b">>), Sni(<<"x", "com">>), Sni(<<"x", "a", "com">>), NoName, Garbage}

Nobody == [kind |-> "nobody", host |-> <<>>]

CONSTANTS c1, c2

MCHellos == RoutingHellos \union {Nobody}

\* c1 is alone and names anything, or it and c2 are both soon turned away, so that
\* the handler of one can hold up the other.
MCArrivals ==
    {(c1 :> h) @@ (c2 :> Nobody) : h \in RoutingHellos}
        \union {(c1 :> NoName) @@ (c2 :> NoName)}

OneNoName == {[c \in Conns |-> NoName]}

HelloOnly == [e \in Ends |-> IF e = "client" THEN 2 ELSE 0]
Talk      == [e \in Ends |-> IF e = "client" THEN 5 ELSE 2]

MCMaxSent == [c \in Conns |-> IF c = c1 THEN Talk ELSE HelloOnly]
=============================================================================

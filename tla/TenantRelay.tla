---------------------------- MODULE TenantRelay ----------------------------
(***************************************************************************)
(* What a front of tenant brokers promises to every connection, whatever   *)
(* stands between the two ends.  A connection names a tenant; it is bound  *)
(* to a backend of that tenant or to nothing; the bytes of one end reach   *)
(* the other in order, without a gap and without a copy; no byte reaches a *)
(* backend before the connection is bound to it nor after it is cut, and a *)
(* cut connection never comes back.                                        *)
(***************************************************************************)
EXTENDS Naturals, Streams

CONSTANTS Conns,        \* the connections
          Ends,         \* the two ends of a connection
          Unbound, Cut, \* the link of a connection without a backend yet, or any more
          Owners(_)     \* the backends that may serve what a client named

VARIABLES named,        \* named[c]: what the client of c asks for
          link,         \* link[c]: Unbound, Cut or the backend
          sent,         \* sent[c][e]: how many bytes the end e of c has sent
          delivered     \* delivered[c][e]: the bytes of e that the other end was given

vars == <<named, link, sent, delivered>>

Init == /\ link = [c \in Conns |-> Unbound]
        /\ sent = [c \in Conns |-> [e \in Ends |-> 0]]
        /\ delivered = [c \in Conns |-> [e \in Ends |-> <<>>]]

Send(c, e) == /\ link[c] # Cut
              /\ sent' = [sent EXCEPT ![c][e] = @ + 1]
              /\ UNCHANGED <<named, link, delivered>>

\* The connection gets a backend, one that its name entitles it to.
Bind(c) == /\ link[c] = Unbound
           /\ \E b \in Owners(named[c]) : link' = [link EXCEPT ![c] = b]
           /\ UNCHANGED <<named, sent, delivered>>

\* The next bytes of one end are given to the other; it may be the last thing
\* that happens on the connection.
Deliver(c, e) ==
    /\ link[c] \notin {Unbound, Cut}
    /\ \E k \in Len(delivered[c][e]) .. sent[c][e] :
          delivered' = [delivered EXCEPT ![c][e] = Span(0, k)]
    /\ link' \in {link, [link EXCEPT ![c] = Cut]}
    /\ UNCHANGED <<named, sent>>

\* Some connections are cut, several at once when the host goes down.
Sever == /\ \E S \in SUBSET Conns :
               link' = [c \in Conns |-> IF c \in S THEN Cut ELSE link[c]]
         /\ UNCHANGED <<named, sent, delivered>>

Next == \/ Sever
        \/ \E c \in Conns : \/ Bind(c)
                            \/ \E e \in Ends : Send(c, e) \/ Deliver(c, e)

Spec == Init /\ [][Next]_vars
=============================================================================

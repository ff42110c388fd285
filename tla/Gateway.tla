------------------------------- MODULE Gateway -------------------------------
(***************************************************************************)
(* MqttTlsGatewayService: the accept loop, and for each accepted client a  *)
(* handler that reads one TLS record to learn the server name (SNI), finds *)
(* the tenant's backend, replays the record to it and then pumps bytes in  *)
(* both directions until either pump ends.                                 *)
(*                                                                         *)
(* A host name is the sequence of its labels, with Colon and a port as two *)
(* more elements when the client put them there.  Bytes are numbered from  *)
(* 1 in each direction; those of the client start with its first TLS       *)
(* record, HeaderLen bytes of header and the rest of HelloLen.             *)
(***************************************************************************)
EXTENDS Integers, Sequences, SequencesExt, Streams

CONSTANTS
    Conns,              \* the client connections
    BaseDomain,         \* MqttGatewayOptions.BaseDomain, a sequence of labels
    RouteTable,         \* MqttGatewayOptions.RouteTable, a sequence of TenantBackend
    Labels,             \* the labels of host names
    Fold(_),            \* the letter case a label is compared in
    Blanks,             \* the labels of white space only; "" is the empty one
    Hellos,             \* the first records clients send
    Arrivals,           \* which client may send which of them (bound)
    HeaderLen,          \* bytes of a TLS record header
    HelloLen,           \* bytes of the first record, header included
    BufferSize,         \* bytes a pump reads at once
    MaxSent             \* MaxSent[c][e]: the bytes an end e of c sends at most (bound)

Ends == {"client", "backend"}
Other(e) == IF e = "client" THEN "backend" ELSE "client"

Colon == ":"
NoBackend == [host |-> "", port |-> 0]

ASSUME LengthsAssumption ==
    /\ HeaderLen \in Nat \ {0}
    /\ HelloLen \in Nat
    /\ HeaderLen < HelloLen
    /\ BufferSize \in Nat \ {0}
    /\ MaxSent \in [Conns -> [Ends -> Nat]]

ASSUME LabelsAssumption ==
    /\ "" \in Blanks /\ Blanks \subseteq Labels
    /\ \A l, m \in Labels : Fold(l) = Fold(m) => (l \in Blanks <=> m \in Blanks)
    /\ BaseDomain \in Seq(Labels)

\* A TenantBackend has a port to listen on; TlsPort is 0 when it was not set.
ASSUME RouteTableAssumption ==
    RouteTable \in Seq([tenant : Seq(Labels), host : STRING,
                        port : Nat \ {0}, tlsPort : Nat])

\* A first record is a ClientHello that names a host, a ClientHello that names
\* none ("noSni"), or anything else ("other": not a handshake, or a length over
\* the 65536 bytes that the peek accepts); "nobody" stands for no client.
ASSUME HellosAssumption ==
    Hellos \subseteq [kind : {"sni", "noSni", "other", "nobody"}, host : Seq(Labels)]

ASSUME ArrivalsAssumption == Arrivals \subseteq [Conns -> Hellos]

-----------------------------------------------------------------------------
(* Routing: what the handler computes from the server name.                *)

Folded(h) == [i \in DOMAIN h |-> Fold(h[i])]

\* string.Trim('.'): a leading or trailing dot is an empty first or last label.
TrimDots(d) ==
    LET full == {i \in 1 .. Len(d) : d[i] # ""}
    IN  IF full = {} THEN <<"">> ELSE SubSeq(d, Min(full), Max(full))

Suffix == TrimDots(BaseDomain)

\* The host up to its first colon.
StripPort(h) ==
    LET colon == SelectInSeq(h, LAMBDA l : l = Colon)
    IN  IF colon > 0 THEN SubSeq(h, 1, colon - 1) ELSE h

\* Variant: the suffix is compared in its letter case.
EndsWithCase(h, suffix) ==
    /\ Len(h) > Len(suffix)
    /\ SubSeq(h, Len(h) - Len(suffix) + 1, Len(h)) = suffix

EndsWith(h, suffix) ==
    /\ Len(h) > Len(suffix)
    /\ Folded(SubSeq(h, Len(h) - Len(suffix) + 1, Len(h))) = Folded(suffix)

IsBlank(h) == Len(h) = 0 \/ (Len(h) = 1 /\ h[1] \in Blanks)

\* The labels in front of the base domain, however many; <<>> stands for null.
ExtractTenantFromHost(hostName) ==
    LET host   == StripPort(hostName)
        tenant == SubSeq(host, 1, Len(host) - Len(Suffix))
    IN  IF EndsWith(host, Suffix) /\ ~ IsBlank(tenant) THEN tenant ELSE <<>>

\* Variant: a later row of a tenant overrides an earlier one.
LastBackend(tenant) ==
    SelectLastInSeq(RouteTable, LAMBDA r : Folded(r.tenant) = Folded(tenant))

\* The row of the first backend of a tenant in the route table, 0 for none.
FindBackend(tenant) ==
    SelectInSeq(RouteTable, LAMBDA r : Folded(r.tenant) = Folded(tenant))

\* Variant: a tenant without a TLS port has no port at all.
TlsPortOnly(r) == [host |-> r.host, port |-> r.tlsPort]

Endpoint(r) == [host |-> r.host, port |-> IF r.tlsPort > 0 THEN r.tlsPort ELSE r.port]
Endpoints == [host : STRING, port : Nat \ {0}]

-----------------------------------------------------------------------------
VARIABLES
    stopped,    \* StopAsync has cancelled the token and closed the listener
    acceptor,   \* AcceptLoopAsync: "waiting", "spawning" or "ended"
    hello,      \* hello[c]: the first record that the client of c sends
    pc,         \* pc[c]: where the handler of c is
    outcome,    \* outcome[c]: why the handler of c is done
    peer,       \* peer[c][e]: "none", "open", "fin" (it closed), "rst" (it reset)
    sent,       \* sent[c][e]: how many bytes e has sent
    inbox,      \* inbox[c][e]: those of them the gateway can read
    buf,        \* buf[c]: clientHelloBuffer
    target,     \* target[c]: the endpoint of the backend, or NoBackend
    pump,       \* pump[c][e]: the BridgeStreamAsync that reads from e
    held,       \* held[c][e]: what that pump has read and not written
    linkCancelled, \* linkCancelled[c]: linkedCts was cancelled by the handler
    out         \* out[c][e]: the bytes of e that were written to the other end

service    == <<stopped, acceptor>>
handler    == <<pc, outcome>>
wires      == <<peer, sent, inbox>>
pumps      == <<pump, held, linkCancelled>>
vars       == <<service, hello, handler, wires, buf, target, pumps, out>>

Points   == {"unborn", "backlog", "accepted", "peek", "route", "connect",
             "replay", "pump", "done"}
Outcomes == {"none", "refused", "cancelled", "error", "noSni", "noTenant",
             "noBackend", "unreachable", "bridged"}

Init ==
    /\ stopped = FALSE
    /\ acceptor = "waiting"
    /\ hello \in Arrivals
    /\ pc = [c \in Conns |-> "unborn"]
    /\ outcome = [c \in Conns |-> "none"]
    /\ peer = [c \in Conns |-> [e \in Ends |-> "none"]]
    /\ sent = [c \in Conns |-> [e \in Ends |-> 0]]
    /\ inbox = [c \in Conns |-> [e \in Ends |-> <<>>]]
    /\ buf = [c \in Conns |-> <<>>]
    /\ target = [c \in Conns |-> NoBackend]
    /\ pump = [c \in Conns |-> [e \in Ends |-> "idle"]]
    /\ held = [c \in Conns |-> [e \in Ends |-> <<>>]]
    /\ linkCancelled = [c \in Conns |-> FALSE]
    /\ out = [c \in Conns |-> [e \in Ends |-> <<>>]]

-----------------------------------------------------------------------------
(* The two ends of a connection: clients and tenant brokers.               *)

\* The listener's backlog takes a client in until the listener is closed, also
\* when the accept loop has ended.
ClientConnects(c) ==
    /\ pc[c] = "unborn" /\ ~ stopped /\ hello[c].kind # "nobody"
    /\ pc' = [pc EXCEPT ![c] = "backlog"]
    /\ peer' = [peer EXCEPT ![c]["client"] = "open"]
    /\ UNCHANGED <<service, hello, outcome, sent, inbox, buf, target, pumps, out>>

Send(c, e) ==
    /\ peer[c][e] = "open" /\ pc[c] # "done"
    /\ sent[c][e] < MaxSent[c][e]
    /\ sent' = [sent EXCEPT ![c][e] = @ + 1]
    /\ inbox' = [inbox EXCEPT ![c][e] = Append(@, sent[c][e] + 1)]
    /\ UNCHANGED <<service, hello, handler, peer, buf, target, pumps, out>>

Close(c, e) ==
    /\ peer[c][e] = "open" /\ pc[c] # "done"
    /\ peer' = [peer EXCEPT ![c][e] = "fin"]
    /\ UNCHANGED <<service, hello, handler, sent, inbox, buf, target, pumps, out>>

\* A reset takes what was not read with it.
Reset(c, e) ==
    /\ peer[c][e] \in {"open", "fin"} /\ pc[c] # "done"
    /\ peer' = [peer EXCEPT ![c][e] = "rst"]
    /\ inbox' = [inbox EXCEPT ![c][e] = <<>>]
    /\ UNCHANGED <<service, hello, handler, sent, buf, target, pumps, out>>

-----------------------------------------------------------------------------
(* The accept loop and the shutdown.                                       *)

\* Variant: the loop awaits HandleClientAsync before it accepts again.
AcceptOneAtATime(c) ==
    /\ acceptor = "waiting" /\ pc[c] = "backlog" /\ ~ stopped
    /\ \A d \in Conns : pc[d] \in {"unborn", "backlog", "done"}
    /\ acceptor' = "spawning"
    /\ pc' = [pc EXCEPT ![c] = "accepted"]
    /\ UNCHANGED <<stopped, hello, outcome, wires, buf, target, pumps, out>>

Accept(c) ==
    /\ acceptor = "waiting" /\ pc[c] = "backlog" /\ ~ stopped
    /\ acceptor' = "spawning"
    /\ pc' = [pc EXCEPT ![c] = "accepted"]
    /\ UNCHANGED <<stopped, hello, outcome, wires, buf, target, pumps, out>>

\* HandleClientAsync starts; the loop then looks at the token.
Spawn(c) ==
    /\ acceptor = "spawning" /\ pc[c] = "accepted"
    /\ acceptor' = IF stopped THEN "ended" ELSE "waiting"
    /\ pc' = [pc EXCEPT ![c] = "peek"]
    /\ UNCHANGED <<stopped, hello, outcome, wires, buf, target, pumps, out>>

\* A SocketException of the listener ends the loop, and nothing restarts it.
AcceptFails ==
    /\ acceptor = "waiting" /\ ~ stopped
    /\ acceptor' = "ended"
    /\ UNCHANGED <<stopped, hello, handler, wires, buf, target, pumps, out>>

AcceptCancelled ==
    /\ acceptor = "waiting" /\ stopped
    /\ acceptor' = "ended"
    /\ UNCHANGED <<stopped, hello, handler, wires, buf, target, pumps, out>>

\* The token is cancelled and the listener closed, with the clients that wait
\* in its backlog; handlers are not waited for.
StopAsync ==
    /\ ~ stopped
    /\ stopped' = TRUE
    /\ pc' = [c \in Conns |-> IF pc[c] = "backlog" THEN "done" ELSE pc[c]]
    /\ outcome' = [c \in Conns |-> IF pc[c] = "backlog" THEN "refused" ELSE outcome[c]]
    /\ UNCHANGED <<acceptor, hello, wires, buf, target, pumps, out>>

-----------------------------------------------------------------------------
(* The handler up to the bridge.                                           *)

\* The handler returns, and disposes what it holds.
Done(c, why) == /\ pc' = [pc EXCEPT ![c] = "done"]
                /\ outcome' = [outcome EXCEPT ![c] = why]

\* What Ensure asks for: the header first, then the record it announces.
Wanted(c) == IF Len(buf[c]) < HeaderLen THEN HeaderLen ELSE HelloLen

\* The peek is over with the record, or with a header it has no use for.
PeekComplete(c, b) == \/ Len(b) = HelloLen
                      \/ Len(b) = HeaderLen /\ hello[c].kind = "other"

ReadHello(c) ==
    /\ pc[c] = "peek" /\ ~ stopped
    /\ \E n \in 1 .. Len(inbox[c]["client"]) :
          /\ n <= Wanted(c) - Len(buf[c])
          /\ buf' = [buf EXCEPT ![c] = @ \o Taken(inbox[c]["client"], n)]
          /\ inbox' = [inbox EXCEPT ![c]["client"] = Remaining(@, n)]
    /\ pc' = [pc EXCEPT ![c] = IF PeekComplete(c, buf'[c]) THEN "route" ELSE "peek"]
    /\ UNCHANGED <<service, hello, outcome, peer, sent, target, pumps, out>>

\* The client closed before its record was complete: no server name.
HelloEnds(c) ==
    /\ pc[c] = "peek" /\ ~ stopped
    /\ peer[c]["client"] = "fin" /\ inbox[c]["client"] = <<>>
    /\ pc' = [pc EXCEPT ![c] = "route"]
    /\ UNCHANGED <<service, hello, outcome, wires, buf, target, pumps, out>>

HelloFails(c) ==
    /\ pc[c] = "peek" /\ peer[c]["client"] = "rst"
    /\ Done(c, "error")
    /\ UNCHANGED <<service, hello, wires, buf, target, pumps, out>>

HasSni(c) == hello[c].kind = "sni" /\ Len(buf[c]) = HelloLen

\* Without a server name the gateway is to terminate TLS itself, on a
\* PrefixedStream; but SslStream refuses a stream that cannot be written.
PrefixedStreamCanWrite == FALSE

RefuseNoSni(c) ==
    /\ pc[c] = "route" /\ ~ HasSni(c)
    /\ ~ PrefixedStreamCanWrite
    /\ Done(c, "noSni")
    /\ UNCHANGED <<service, hello, wires, buf, target, pumps, out>>

Tenant(c) == ExtractTenantFromHost(hello[c].host)

RefuseSni(c) ==
    /\ pc[c] = "route" /\ HasSni(c)
    /\ \/ Tenant(c) = <<>> /\ Done(c, "noTenant")
       \/ Tenant(c) # <<>> /\ FindBackend(Tenant(c)) = 0 /\ Done(c, "noBackend")
    /\ UNCHANGED <<service, hello, wires, buf, target, pumps, out>>

RouteSni(c) ==
    /\ pc[c] = "route" /\ HasSni(c)
    /\ Tenant(c) # <<>> /\ FindBackend(Tenant(c)) # 0
    /\ target' = [target EXCEPT ![c] = Endpoint(RouteTable[FindBackend(Tenant(c))])]
    /\ pc' = [pc EXCEPT ![c] = "connect"]
    /\ UNCHANGED <<service, hello, outcome, wires, buf, pumps, out>>

ConnectBackend(c) ==
    /\ pc[c] = "connect" /\ ~ stopped
    /\ pc' = [pc EXCEPT ![c] = "replay"]
    /\ peer' = [peer EXCEPT ![c]["backend"] = "open"]
    /\ UNCHANGED <<service, hello, outcome, sent, inbox, buf, target, pumps, out>>

ConnectFails(c) ==
    /\ pc[c] = "connect"
    /\ Done(c, "unreachable")
    /\ UNCHANGED <<service, hello, wires, buf, target, pumps, out>>

\* Variant: the bridge starts on what the peek left in the socket.
BridgeWithoutReplay(c) ==
    /\ pc[c] = "replay" /\ peer[c]["backend"] # "rst" /\ ~ stopped
    /\ pump' = [pump EXCEPT ![c] = [e \in Ends |-> "reading"]]
    /\ pc' = [pc EXCEPT ![c] = "pump"]
    /\ UNCHANGED <<service, hello, outcome, wires, buf, target, held, linkCancelled, out>>

\* The ClientHello is written first, then both pumps start.
ReplayHello(c) ==
    /\ pc[c] = "replay" /\ peer[c]["backend"] # "rst" /\ ~ stopped
    /\ out' = [out EXCEPT ![c]["client"] = buf[c]]
    /\ pump' = [pump EXCEPT ![c] = [e \in Ends |-> "reading"]]
    /\ pc' = [pc EXCEPT ![c] = "pump"]
    /\ UNCHANGED <<service, hello, outcome, wires, buf, target, held, linkCancelled>>

ReplayFails(c) ==
    /\ pc[c] = "replay" /\ peer[c]["backend"] = "rst"
    /\ Done(c, "error")
    /\ UNCHANGED <<service, hello, wires, buf, target, pumps, out>>

\* The token is cancelled under a read, a connect or a write; a part of the
\* write may have reached the backend.
HandlerCancelled(c) ==
    /\ stopped /\ pc[c] \in {"peek", "connect", "replay"}
    /\ Done(c, "cancelled")
    /\ \E n \in IF pc[c] = "replay" THEN 0 .. Len(buf[c]) ELSE {0} :
          out' = [out EXCEPT ![c]["client"] = Taken(buf[c], n)]
    /\ UNCHANGED <<service, hello, wires, buf, target, pumps>>

-----------------------------------------------------------------------------
(* BridgeStreamAsync, one pump for each end it reads from.                 *)

\* Variant: the pumps' token is not linked to that of the service.
OwnTokenOnly(c) == linkCancelled[c]

PumpCt(c) == stopped \/ linkCancelled[c]

PumpReads(c, e) ==
    /\ pump[c][e] = "reading" /\ ~ PumpCt(c)
    /\ \E n \in 1 .. Len(inbox[c][e]) :
          /\ n <= BufferSize
          /\ held' = [held EXCEPT ![c][e] = Taken(inbox[c][e], n)]
          /\ inbox' = [inbox EXCEPT ![c][e] = Remaining(@, n)]
    /\ pump' = [pump EXCEPT ![c][e] = "writing"]
    /\ UNCHANGED <<service, hello, handler, peer, sent, buf, target, linkCancelled, out>>

\* A write that was under way may complete although the token is cancelled.
PumpWrites(c, e) ==
    /\ pump[c][e] = "writing" /\ peer[c][Other(e)] # "rst"
    /\ out' = [out EXCEPT ![c][e] = @ \o held[c][e]]
    /\ held' = [held EXCEPT ![c][e] = <<>>]
    /\ pump' = [pump EXCEPT ![c][e] = "reading"]
    /\ UNCHANGED <<service, hello, handler, wires, buf, target, linkCancelled>>

EndPump(c, e) == pump' = [pump EXCEPT ![c][e] = "ended"]

\* Variant: a closed end counts as the end of the stream, read or not.
EndsAtClose(c, e) ==
    /\ pump[c][e] = "reading" /\ peer[c][e] = "fin"
    /\ EndPump(c, e)
    /\ UNCHANGED <<service, hello, handler, wires, buf, target, held, linkCancelled, out>>

\* A read of no bytes: the end closed and everything it sent was read.
PumpAtEof(c, e) ==
    /\ pump[c][e] = "reading" /\ peer[c][e] = "fin" /\ inbox[c][e] = <<>>
    /\ EndPump(c, e)
    /\ UNCHANGED <<service, hello, handler, wires, buf, target, held, linkCancelled, out>>

\* The read or the write throws an IOException.
PumpFails(c, e) ==
    /\ \/ pump[c][e] = "reading" /\ peer[c][e] = "rst"
       \/ pump[c][e] = "writing" /\ peer[c][Other(e)] = "rst"
    /\ EndPump(c, e)
    /\ UNCHANGED <<service, hello, handler, wires, buf, target, held, linkCancelled, out>>

\* The token ends the loop, the read or the write; a part of what was to be
\* written may have reached the other end, the rest is lost.
PumpCancelled(c, e) ==
    /\ pump[c][e] \in {"reading", "writing"} /\ PumpCt(c)
    /\ EndPump(c, e)
    /\ \E n \in 0 .. Len(held[c][e]) :
          /\ out' = [out EXCEPT ![c][e] = @ \o Taken(held[c][e], n)]
          /\ held' = [held EXCEPT ![c][e] = Remaining(@, n)]
    /\ UNCHANGED <<service, hello, handler, wires, buf, target, linkCancelled>>

\* Variant: the handler waits for both pumps before it cancels.
CancelAfterBoth(c) ==
    /\ pc[c] = "pump" /\ ~ linkCancelled[c]
    /\ \A e \in Ends : pump[c][e] = "ended"
    /\ linkCancelled' = [linkCancelled EXCEPT ![c] = TRUE]
    /\ UNCHANGED <<service, hello, handler, wires, buf, target, pump, held, out>>

\* Task.WhenAny, then linkedCts.CancelAsync.
CancelPumps(c) ==
    /\ pc[c] = "pump" /\ ~ linkCancelled[c]
    /\ \E e \in Ends : pump[c][e] = "ended"
    /\ linkCancelled' = [linkCancelled EXCEPT ![c] = TRUE]
    /\ UNCHANGED <<service, hello, handler, wires, buf, target, pump, held, out>>

\* Variant: the handler does not wait for the pump it cancelled.
FinishAtOnce(c) ==
    /\ pc[c] = "pump" /\ linkCancelled[c]
    /\ Done(c, "bridged")
    /\ UNCHANGED <<service, hello, wires, buf, target, pumps, out>>

\* Task.WhenAll, then both sockets are disposed.
FinishBridge(c) ==
    /\ pc[c] = "pump" /\ linkCancelled[c]
    /\ \A e \in Ends : pump[c][e] = "ended"
    /\ Done(c, "bridged")
    /\ UNCHANGED <<service, hello, wires, buf, target, pumps, out>>

-----------------------------------------------------------------------------
PumpStep(c, e) == \/ PumpReads(c, e) \/ PumpWrites(c, e) \/ PumpAtEof(c, e)
                  \/ PumpFails(c, e) \/ PumpCancelled(c, e)

HandlerStep(c) == \/ ReadHello(c) \/ HelloEnds(c) \/ HelloFails(c)
                  \/ RefuseNoSni(c) \/ RefuseSni(c) \/ RouteSni(c)
                  \/ ConnectBackend(c) \/ ConnectFails(c)
                  \/ ReplayHello(c) \/ ReplayFails(c) \/ HandlerCancelled(c)
                  \/ CancelPumps(c) \/ FinishBridge(c)

AcceptStep == \/ AcceptCancelled
              \/ \E c \in Conns : Accept(c) \/ Spawn(c)

EndStep(c) == \/ ClientConnects(c)
              \/ \E e \in Ends : Send(c, e) \/ Close(c, e) \/ Reset(c, e)

Next == \/ AcceptStep \/ AcceptFails \/ StopAsync
        \/ \E c \in Conns : \/ EndStep(c) \/ HandlerStep(c)
                            \/ \E e \in Ends : PumpStep(c, e)

Spec == Init /\ [][Next]_vars

\* The scheduler runs what is ready: the accept loop, each handler and each pump.
\* A pump's write ends because its reader drains the socket or because the token
\* is cancelled; nothing obliges an end to send, to close, or the host to stop.
Fairness == /\ WF_vars(AcceptStep)
            /\ \A c \in Conns : /\ WF_vars(HandlerStep(c))
                                /\ \A e \in Ends : WF_vars(PumpStep(c, e))

FairSpec == Spec /\ Fairness

-----------------------------------------------------------------------------
(* Correctness.                                                            *)

TypeOK ==
    /\ stopped \in BOOLEAN
    /\ acceptor \in {"waiting", "spawning", "ended"}
    /\ hello \in [Conns -> Hellos]
    /\ pc \in [Conns -> Points]
    /\ outcome \in [Conns -> Outcomes]
    /\ peer \in [Conns -> [Ends -> {"none", "open", "fin", "rst"}]]
    /\ sent \in [Conns -> [Ends -> Nat]]
    /\ inbox \in [Conns -> [Ends -> Seq(Numbers)]]
    /\ buf \in [Conns -> Seq(Numbers)]
    /\ target \in [Conns -> Endpoints \cup {NoBackend}]
    /\ pump \in [Conns -> [Ends -> {"idle", "reading", "writing", "ended"}]]
    /\ held \in [Conns -> [Ends -> Seq(Numbers)]]
    /\ linkCancelled \in [Conns -> BOOLEAN]
    /\ out \in [Conns -> [Ends -> Seq(Numbers)]]

\* What the gateway has read from e and not yet written: the peeked record until
\* the replay, then the buffer of the pump.
Carried(c, e) ==
    IF e = "client" /\ pc[c] \in {"peek", "route", "connect", "replay"}
    THEN buf[c] ELSE held[c][e]

\* At every moment the bytes given to the other end, those the handler carries and
\* those still in the socket are, in this order, all that an end has sent, while
\* that end has not reset the connection: peeking, replaying, two pumps with a
\* buffer each and a cancellation in the middle of a write neither lose a byte
\* without ending the pump, nor copy, nor reorder any.
StreamsIntact ==
    \A c \in Conns, e \in Ends :
        pc[c] # "done" /\ peer[c][e] # "rst" =>
            out[c][e] \o Carried(c, e) \o inbox[c][e] = Span(0, sent[c][e])

\* An end that sends and then closes in good order has all it sent delivered, if
\* the other end stayed and the host was not stopped: the pump that sees the end
\* of the stream is the one that makes the handler cancel the other.
GracefulCloseDelivers ==
    \A c \in Conns, e \in Ends :
        /\ outcome[c] = "bridged" /\ ~ stopped
        /\ peer[c][e] = "fin" /\ peer[c][Other(e)] = "open"
        => out[c][e] = Span(0, sent[c][e])

\* No pump still reads or writes once its handler is done and has disposed both
\* sockets: WhenAll comes before the end of the using block.
NoPumpOutlivesHandler ==
    \A c \in Conns, e \in Ends :
        pump[c][e] \in {"reading", "writing"} => pc[c] = "pump"

\* The host a client named is one of the tenant's own, as the README's routing
\* table has it: the tenant's name in front of the base domain, in any case.
Serves(r, hostName) ==
    Folded(StripPort(hostName)) = Folded(r.tenant) \o Folded(Suffix)

\* The handler turns nobody away who named a tenant of the route table; the first
\* row that serves a host name decides (a blank tenant is no tenant).
RefusalsJustified ==
    \A c \in Conns :
        outcome[c] \in {"noTenant", "noBackend"} =>
            \A i \in DOMAIN RouteTable :
                ~ IsBlank(RouteTable[i].tenant) => ~ Serves(RouteTable[i], hello[c].host)

\* The backends that may see bytes of a client: the TLS endpoint of the first row
\* that serves the host in its ClientHello, and of no other.
Owners(h) ==
    {Endpoint(RouteTable[i]) : i \in
        {i \in DOMAIN RouteTable : /\ Serves(RouteTable[i], h.host)
                                   /\ \A j \in 1 .. i - 1 : ~ Serves(RouteTable[j], h.host)}}

CutLink == [host |-> "cut", port |-> 0]

Link(c) == CASE pc[c] \in {"replay", "pump"} -> target[c]
             [] pc[c] = "done"               -> CutLink
             [] OTHER                        -> NoBackend

Relay == INSTANCE TenantRelay WITH
            Unbound <- NoBackend, Cut <- CutLink, named <- hello,
            link <- [c \in Conns |-> Link(c)], delivered <- out

\* The gateway is a tenant relay: it binds a connection only to the owner of the
\* name in its ClientHello, gives each end a prefix of what the other sent, nothing
\* before the bond and nothing after the cut.
RelaySpec == Relay!Spec

\* A client that asks for a tenant, in a complete ClientHello without SNI, is not
\* dropped because of it: the no-SNI path terminates TLS for it.
NoSniServed ==
    \A c \in Conns : hello[c].kind = "noSni" /\ Len(buf[c]) = HelloLen => outcome[c] # "noSni"

\* After StopAsync every handler ends, wherever the token finds it, with clients
\* that neither send nor close.
StopEndsHandlers ==
    stopped ~> /\ acceptor = "ended"
               /\ \A c \in Conns : pc[c] \in {"unborn", "done"}

\* Once either end has closed or reset a bridged connection its handler ends,
\* although the pump of the other direction waits for an end that says nothing.
HangUpEndsHandler ==
    \A c \in Conns, e \in Ends :
        pc[c] = "pump" /\ peer[c][e] \in {"fin", "rst"} ~> pc[c] = "done"

\* The loop serves every client of the backlog while it lives: a handler that waits
\* for a silent client holds up nobody else.
BacklogServed ==
    \A c \in Conns : pc[c] = "backlog" ~> pc[c] # "backlog" \/ acceptor = "ended"
=============================================================================

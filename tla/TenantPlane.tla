------------------------------ MODULE TenantPlane ------------------------------
(***************************************************************************)
(* MqttBrokerService of a tenant plane: three accept loops (TCP behind the *)
(* gateway's PROXY frame, TLS, and a local pipe), a handler per connection *)
(* that learns the client's certificate and bridges the connection to the  *)
(* embedded broker on the loopback, the broker's events, and the shutdown, *)
(* which waits for the accept loops and not for the handlers.              *)
(*                                                                         *)
(* CurrentClientCert is an AsyncLocal: every flow of execution has its own *)
(* value.  The broker's events run in flows that go back to StartAsync.    *)
(***************************************************************************)
EXTENDS Naturals, Sequences, FiniteSets, SequencesExt

CONSTANTS
    Conns,          \* connections of clients
    Own,            \* Own[c]: the certificate of its client, or
    NoCert,         \* none, the null of the code
    Unseen,         \* a connection that was not validated yet
    Broker,         \* the flow of the broker's events
    Spreads         \* how the connections may spread over the listeners (bound)

Kinds == {"tcp", "tls", "ipc"}
NotMade == "none"           \* the listener of a connection that nobody makes
Ways == {"up", "down"}      \* from the client to the broker, and back

ASSUME SpreadAssumption == Spreads \subseteq [Conns -> Kinds \cup {NotMade}]

\* On a pipe there is neither a frame nor TLS that could tell of a certificate.
ASSUME CertificateAssumption ==
    /\ DOMAIN Own = Conns
    /\ \A c \in Conns : Own[c] # Unseen
    /\ \A s \in Spreads, c \in Conns : s[c] = "ipc" => Own[c] = NoCert

ASSUME NamesAssumption == Broker \notin Conns /\ NoCert # Unseen

VARIABLES
    stop,       \* how far StopAsync is
    loop,       \* loop[k]: the accept loop of a listener
    kind,       \* kind[c]: the listener a connection comes to
    client,     \* client[c]: the client's end of a connection
    pc,         \* pc[c]: the handler of a connection
    pumps,      \* pumps[c]: its BridgeStreamAsync that run
    current,    \* current[f]: CurrentClientCert in a flow
    session,    \* session[c]: the broker's end of the loopback connection
    seen        \* seen[c]: what OnValidateConnection saw

service == <<stop, loop>>
remote  == <<kind, client>>
handler == <<pc, pumps, current>>
broker  == <<session, seen>>
vars    == <<service, remote, handler, broker>>

Stops == <<"running", "cancelled", "tlsClosed", "unsubscribed", "serverStopped",
           "tcpClosed", "stopped">>

\* StopAsync is at a point, or past it.
Since(point) ==
    \E i, j \in DOMAIN Stops : stop = Stops[i] /\ point = Stops[j] /\ j <= i

Cancelled == Since("cancelled")     \* _listenerCts

Init ==
    /\ stop = "running"
    /\ loop = [k \in Kinds |-> "accepting"]
    /\ kind \in Spreads
    /\ client = [c \in Conns |-> "none"]
    /\ pc = [c \in Conns |-> "none"]
    /\ pumps = [c \in Conns |-> {}]
    /\ current = [f \in Conns \cup {Broker} |-> NoCert]
    /\ session = [c \in Conns |-> "none"]
    /\ seen = [c \in Conns |-> Unseen]

-----------------------------------------------------------------------------
(* Clients and listeners.                                                  *)

\* A listener's socket is there until it is stopped, and a pipe while its loop waits.
Listens(k) == CASE k = "tcp" -> ~ Since("tcpClosed")
                [] k = "tls" -> ~ Since("tlsClosed")
                [] k = "ipc" -> loop[k] = "accepting"

ClientConnects(c) ==
    /\ client[c] = "none" /\ kind[c] # NotMade /\ Listens(kind[c])
    /\ client' = [client EXCEPT ![c] = "open"] /\ UNCHANGED kind
    /\ pc' = [pc EXCEPT ![c] = "backlog"]
    /\ UNCHANGED <<service, pumps, current, broker>>

ClientHangsUp(c) ==
    /\ client[c] = "open"
    /\ client' = [client EXCEPT ![c] = "closed"]
    /\ UNCHANGED <<service, kind, handler, broker>>

\* The accept loop starts a handler and does not wait for it.
Accept(c) ==
    /\ pc[c] = "backlog" /\ loop[kind[c]] = "accepting" /\ ~ Cancelled
    /\ pc' = [pc EXCEPT ![c] = IF kind[c] = "ipc" THEN "connect" ELSE "identify"]
    /\ UNCHANGED <<service, remote, pumps, current, broker>>

\* Variant: the wait for a pipe's client does not get the token.
PipeIgnoresToken(k) ==
    /\ loop[k] = "accepting" /\ k # "ipc" /\ Cancelled
    /\ loop' = [loop EXCEPT ![k] = "ended"]
    /\ UNCHANGED <<stop, remote, handler, broker>>

LoopCancelled(k) ==
    /\ loop[k] = "accepting" /\ Cancelled
    /\ loop' = [loop EXCEPT ![k] = "ended"]
    /\ UNCHANGED <<stop, remote, handler, broker>>

\* An exception of the socket or the pipe ends the loop, and it alone, for good.
LoopFails(k) ==
    /\ loop[k] = "accepting"
    /\ loop' = [loop EXCEPT ![k] = "ended"]
    /\ UNCHANGED <<stop, remote, handler, broker>>

-----------------------------------------------------------------------------
(* Handlers: HandleTcpClientAsync, HandleTlsClientAsync, HandleIpcClientAsync. *)

\* Variant: the handler's flow is forgotten instead of cleared.
FlowForgotten(c) ==
    /\ pc' = [pc EXCEPT ![c] = "done"]
    /\ current' = [f \in DOMAIN current \ {c} |-> current[f]]
    /\ client' = [client EXCEPT ![c] = "closed"] /\ UNCHANGED kind
    /\ session' = [session EXCEPT ![c] = IF @ = "none" THEN @ ELSE "closed"]

\* The handler returns: its sockets are disposed and CurrentClientCert is cleared.
HandlerReturns(c) ==
    /\ pc' = [pc EXCEPT ![c] = "done"]
    /\ current' = [current EXCEPT ![c] = NoCert]
    /\ client' = [client EXCEPT ![c] = "closed"] /\ UNCHANGED kind
    /\ session' = [session EXCEPT ![c] = IF @ = "none" THEN @ ELSE "closed"]

\* Variant: one static field for all connections.
SharedField(c, cert) ==
    /\ pc' = [pc EXCEPT ![c] = "connect"]
    /\ current' = [f \in DOMAIN current |-> cert]
    /\ UNCHANGED <<service, remote, pumps, broker>>

\* A PROXY frame was read, or whatever went wrong with it is forgotten, the token
\* included; or the TLS handshake is done.  With a cancelled token the connect to the
\* broker throws at once.
Identified(c, cert) ==
    IF Cancelled
    THEN /\ HandlerReturns(c)
         /\ UNCHANGED <<service, pumps, seen>>
    ELSE /\ pc' = [pc EXCEPT ![c] = "connect"]
         /\ current' = [current EXCEPT ![c] = cert]
         /\ UNCHANGED <<service, remote, pumps, broker>>

\* The client's frame, or its handshake, is complete.
ClientIdentifies(c) ==
    /\ pc[c] = "identify" /\ client[c] = "open"
    /\ Identified(c, Own[c])

\* Variant: the frame is read without the token.
FrameWithoutToken(c) ==
    /\ pc[c] = "identify" /\ kind[c] = "tcp"
    /\ client[c] = "closed"
    /\ Identified(c, NoCert)

\* No frame, or one that says nothing of a certificate; a client that hangs up; the token.
FrameMissing(c) ==
    /\ pc[c] = "identify" /\ kind[c] = "tcp"
    /\ Identified(c, NoCert)

\* The handshake fails, the client hangs up, or the token throws.
HandshakeFails(c) ==
    /\ pc[c] = "identify" /\ kind[c] = "tls"
    /\ HandlerReturns(c)
    /\ UNCHANGED <<service, pumps, seen>>

ConnectBroker(c) ==
    /\ pc[c] = "connect" /\ ~ Since("serverStopped")
    /\ pc' = [pc EXCEPT ![c] = "bridge"]
    /\ pumps' = [pumps EXCEPT ![c] = Ways]
    /\ session' = [session EXCEPT ![c] = "open"]
    /\ UNCHANGED <<service, remote, current, seen>>

\* The token, or an error of the connect.
ConnectFails(c) ==
    /\ pc[c] = "connect"
    /\ HandlerReturns(c)
    /\ UNCHANGED <<service, pumps, seen>>

\* A pump reads the end of its source, or is cancelled.
PumpEnds(c, way) ==
    /\ way \in pumps[c]
    /\ \/ way = "up" /\ client[c] = "closed"
       \/ way = "down" /\ session[c] = "closed"
       \/ pc[c] = "closing" \/ Cancelled
    /\ pumps' = [pumps EXCEPT ![c] = @ \ {way}]
    /\ UNCHANGED <<service, remote, pc, current, broker>>

\* What a pump has read can no longer be written.
PumpFails(c, way) ==
    /\ way \in pumps[c]
    /\ IF way = "up" THEN session[c] = "closed" ELSE client[c] = "closed"
    /\ pumps' = [pumps EXCEPT ![c] = @ \ {way}]
    /\ UNCHANGED <<service, remote, pc, current, broker>>

\* Variant: Task.WhenAll and then the cancellation.
WaitForBothPumps(c) ==
    /\ pc[c] = "bridge" /\ pumps[c] = {}
    /\ pc' = [pc EXCEPT ![c] = "closing"]
    /\ UNCHANGED <<service, remote, pumps, current, broker>>

\* Task.WhenAny, and the cancellation of the other pump.
UnlinkPumps(c) ==
    /\ pc[c] = "bridge" /\ pumps[c] # Ways
    /\ pc' = [pc EXCEPT ![c] = "closing"]
    /\ UNCHANGED <<service, remote, pumps, current, broker>>

\* Variant: the handler does not wait for the second pump.
LeaveAtOnce(c) ==
    /\ pc[c] = "closing"
    /\ HandlerReturns(c)
    /\ UNCHANGED <<service, pumps, seen>>

\* Task.WhenAll, and the end of the using blocks.
LeaveBridge(c) ==
    /\ pc[c] = "closing" /\ pumps[c] = {}
    /\ HandlerReturns(c)
    /\ UNCHANGED <<service, pumps, seen>>

-----------------------------------------------------------------------------
(* The broker: a library, and the event of this service that reads the     *)
(* certificate.  The other one, of a PUBLISH, is left out with the store.  *)

Subscribed == ~ Since("unsubscribed")

\* A CONNECT has come through the bridge: OnValidateConnection reads CurrentClientCert.
Validate(c) ==
    /\ session[c] = "open"
    /\ session' = [session EXCEPT ![c] = "valid"]
    /\ seen' = [seen EXCEPT ![c] = IF Subscribed THEN current[Broker] ELSE @]
    /\ UNCHANGED <<service, remote, handler>>

\* The broker ends a session, for a client's DISCONNECT or an error of its own.
BrokerCloses(c) ==
    /\ session[c] \in {"open", "valid"}
    /\ session' = [session EXCEPT ![c] = "closed"]
    /\ UNCHANGED <<service, remote, handler, seen>>

-----------------------------------------------------------------------------
(* StopAsync.                                                              *)

StopGoesOn(from, to) == stop = from /\ stop' = to /\ UNCHANGED <<loop, remote, handler>>

StopBegins == StopGoesOn("running", "cancelled") /\ UNCHANGED broker

TlsListenerStops == StopGoesOn("cancelled", "tlsClosed") /\ UNCHANGED broker

\* The loop of the TLS listener is over: the broker's events are taken back ...
Unsubscribe ==
    /\ loop["tls"] = "ended"
    /\ StopGoesOn("tlsClosed", "unsubscribed") /\ UNCHANGED broker

\* ... and the broker stops, with all its sessions.
ServerStops ==
    /\ StopGoesOn("unsubscribed", "serverStopped")
    /\ session' = [c \in Conns |-> IF session[c] = "none" THEN "none" ELSE "closed"]
    /\ UNCHANGED seen

TcpListenersStop == StopGoesOn("serverStopped", "tcpClosed") /\ UNCHANGED broker

StopReturns ==
    /\ loop["tcp"] = "ended" /\ loop["ipc"] = "ended"
    /\ StopGoesOn("tcpClosed", "stopped") /\ UNCHANGED broker

-----------------------------------------------------------------------------
StopStep == TlsListenerStops \/ Unsubscribe \/ ServerStops \/ TcpListenersStop \/ StopReturns

\* What a handler does once it has a client to bridge.
HandlerStep(c) == ConnectBroker(c) \/ ConnectFails(c) \/ UnlinkPumps(c) \/ LeaveBridge(c)

Next == \/ StopBegins \/ StopStep
        \/ \E k \in Kinds : LoopCancelled(k) \/ LoopFails(k)
        \/ \E c \in Conns : \/ ClientConnects(c) \/ ClientHangsUp(c) \/ Accept(c)
                            \/ ClientIdentifies(c) \/ FrameMissing(c) \/ HandshakeFails(c)
                            \/ HandlerStep(c)
                            \/ Validate(c) \/ BrokerCloses(c)
                            \/ \E way \in Ways : PumpEnds(c, way) \/ PumpFails(c, way)

Spec == Init /\ [][Next]_vars

\* What a handler does on its own.  A wait for a client's frame or handshake is over when
\* the client hangs up or the token is cancelled.
HandlerGoesOn(c) ==
    \/ Accept(c) \/ HandlerStep(c)
    \/ (client[c] = "closed" \/ Cancelled) /\ (FrameMissing(c) \/ HandshakeFails(c))

\* The thread pool runs what is ready: accept loops, handlers and pumps whose wait is
\* over, and StopAsync once the host has called it.  Neither clients nor the broker
\* have to do anything, and a write that fails may never come.
Fairness ==
    /\ WF_vars(StopStep)
    /\ WF_vars(\E k \in Kinds : LoopCancelled(k))
    /\ \A c \in Conns : /\ WF_vars(HandlerGoesOn(c))
                        /\ WF_vars(\E way \in Ways : PumpEnds(c, way))

FairSpec == Spec /\ Fairness

-----------------------------------------------------------------------------
(* Correctness.                                                            *)

Points == {"none", "backlog", "identify", "connect", "bridge", "closing", "done"}

TypeOK ==
    /\ stop \in Range(Stops)
    /\ loop \in [Kinds -> {"accepting", "ended"}]
    /\ kind \in [Conns -> Kinds \cup {NotMade}]
    /\ client \in [Conns -> {"none", "open", "closed"}]
    /\ pc \in [Conns -> Points]
    /\ pumps \in [Conns -> SUBSET Ways]
    /\ current \in [Conns \cup {Broker} -> Range(Own) \cup {NoCert}]
    /\ session \in [Conns -> {"none", "open", "valid", "closed"}]
    /\ seen \in [Conns -> Range(Own) \cup {NoCert, Unseen}]

\* No client is validated with another client's certificate, however many handlers
\* have read one and stand between that and the CONNECT.
NoForeignCertificate == \A c \in Conns : seen[c] \in {Unseen, NoCert, Own[c]}


\* A pump runs only while its handler waits for it: the sockets are not disposed under
\* it, on any of the three kinds of connection.
NoPumpOutlivesHandler == \A c \in Conns : pumps[c] # {} => pc[c] \in {"bridge", "closing"}

\* StopAsync comes to its end, though it waits for three accept loops, whatever became
\* of them before and whatever the handlers wait for.
StopEnds == Cancelled ~> stop = "stopped"

\* StopAsync waits for no handler, and still all of them end, those that wait for the
\* frame of a silent client as well.
StopEndsHandlers ==
    Cancelled ~> \A c \in Conns : pc[c] \in {"none", "backlog", "done"}

\* A bridge ends when either of its ends does.
EitherEndEndsBridge ==
    \A c \in Conns : pc[c] = "bridge" /\ "closed" \in {client[c], session[c]} ~> pc[c] = "done"
=============================================================================

-------------------------- MODULE TenantPlaneProofs --------------------------
(***************************************************************************)
(* The tenant plane for any number of connections on any listeners: whose  *)
(* certificate the broker is shown, and how long a pump runs.              *)
(***************************************************************************)
EXTENDS TenantPlane, TLAPS

\* A connection that was not made has no handler.
HandlersInOrder == \A c \in Conns : client[c] = "none" => pc[c] = "none"

\* The broker's events run in a flow in which nobody has set the certificate.
BrokerSeesNone == current[Broker] = NoCert

IInv == TypeOK /\ HandlersInOrder /\ BrokerSeesNone
        /\ NoForeignCertificate /\ NoPumpOutlivesHandler

-----------------------------------------------------------------------------
\* Nothing has happened before the first connection.
LEMMA InitInv == Init => IInv
<1> SUFFICES ASSUME Init PROVE IInv
  OBVIOUS
<1>1. stop \in Range(Stops)
  <2>1. 1 \in DOMAIN Stops /\ Stops[1] = "running"
    BY DEF Stops
  <2> QED
    BY <2>1 DEF Init, Range
<1>2. TypeOK
  BY <1>1, SpreadAssumption DEF Init, TypeOK, Kinds, NotMade, Points, Ways
<1> QED
  BY <1>2 DEF Init, IInv, HandlersInOrder, BrokerSeesNone, NoForeignCertificate,
              NoPumpOutlivesHandler

\* The points of StopAsync.
LEMMA StopsListed ==
    Range(Stops) = {"running", "cancelled", "tlsClosed", "unsubscribed", "serverStopped",
                    "tcpClosed", "stopped"}
<1>1. DOMAIN Stops = 1 .. 7
  BY DEF Stops
<1> QED
  BY <1>1 DEF Range, Stops

\* Every step keeps the types.
LEMMA TypeStep == ASSUME IInv, [Next]_vars PROVE TypeOK'
<1> USE CertificateAssumption DEF IInv, TypeOK, service, remote, handler, broker, Points, Ways
<1>1. CASE StopBegins
  BY <1>1, StopsListed DEF StopBegins, StopGoesOn
<1>2. CASE TlsListenerStops
  BY <1>2, StopsListed DEF TlsListenerStops, StopGoesOn
<1>3. CASE Unsubscribe
  BY <1>3, StopsListed DEF Unsubscribe, StopGoesOn
<1>4. CASE ServerStops
  BY <1>4, StopsListed DEF ServerStops, StopGoesOn
<1>5. CASE TcpListenersStop
  BY <1>5, StopsListed DEF TcpListenersStop, StopGoesOn
<1>6. CASE StopReturns
  BY <1>6, StopsListed DEF StopReturns, StopGoesOn
<1>7. ASSUME NEW k \in Kinds, LoopCancelled(k) PROVE TypeOK'
  BY <1>7 DEF LoopCancelled
<1>8. ASSUME NEW k \in Kinds, LoopFails(k) PROVE TypeOK'
  BY <1>8 DEF LoopFails
<1>9. ASSUME NEW c \in Conns, ClientConnects(c) PROVE TypeOK'
  BY <1>9 DEF ClientConnects
<1>10. ASSUME NEW c \in Conns, ClientHangsUp(c) PROVE TypeOK'
  BY <1>10 DEF ClientHangsUp
<1>11. ASSUME NEW c \in Conns, Accept(c) PROVE TypeOK'
  BY <1>11 DEF Accept
<1>12. ASSUME NEW c \in Conns, ClientIdentifies(c) PROVE TypeOK'
  <2>1. Own[c] \in Range(Own)
    BY DEF Range
  <2>2. CASE Cancelled
    BY <1>12, <2>2 DEF ClientIdentifies, Identified, HandlerReturns
  <2>3. CASE ~ Cancelled
    BY <1>12, <2>1, <2>3 DEF ClientIdentifies, Identified
  <2> QED
    BY <2>2, <2>3
<1>13. ASSUME NEW c \in Conns, FrameMissing(c) PROVE TypeOK'
  BY <1>13 DEF FrameMissing, Identified, HandlerReturns
<1>14. ASSUME NEW c \in Conns, HandshakeFails(c) PROVE TypeOK'
  BY <1>14 DEF HandshakeFails, HandlerReturns
<1>15. ASSUME NEW c \in Conns, ConnectBroker(c) PROVE TypeOK'
  BY <1>15 DEF ConnectBroker
<1>16. ASSUME NEW c \in Conns, ConnectFails(c) PROVE TypeOK'
  BY <1>16 DEF ConnectFails, HandlerReturns
<1>17. ASSUME NEW c \in Conns, UnlinkPumps(c) PROVE TypeOK'
  BY <1>17 DEF UnlinkPumps
<1>18. ASSUME NEW c \in Conns, LeaveBridge(c) PROVE TypeOK'
  BY <1>18 DEF LeaveBridge, HandlerReturns
<1>19. ASSUME NEW c \in Conns, Validate(c) PROVE TypeOK'
  BY <1>19 DEF Validate
<1>20. ASSUME NEW c \in Conns, BrokerCloses(c) PROVE TypeOK'
  BY <1>20 DEF BrokerCloses
<1>21. ASSUME NEW c \in Conns, NEW way \in Ways, PumpEnds(c, way) PROVE TypeOK'
  BY <1>21 DEF PumpEnds
<1>22. ASSUME NEW c \in Conns, NEW way \in Ways, PumpFails(c, way) PROVE TypeOK'
  BY <1>22 DEF PumpFails
<1>23. CASE UNCHANGED vars
  BY <1>23 DEF vars
<1> QED
  BY <1>1, <1>2, <1>3, <1>4, <1>5, <1>6, <1>7, <1>8, <1>9, <1>10, <1>11, <1>12,
     <1>13, <1>14, <1>15, <1>16, <1>17, <1>18, <1>19, <1>20, <1>21, <1>22, <1>23
  DEF Next, StopStep, HandlerStep

\* What an action does not touch it keeps, and what it does is in order: a certificate is
\* written into the flow of its own handler alone, the broker's flow stays as it is,
\* and the handler comes past its pumps only when both are over.
LEMMA HandlersStep ==
    ASSUME IInv, [Next]_vars
    PROVE  (HandlersInOrder /\ BrokerSeesNone /\ NoForeignCertificate /\ NoPumpOutlivesHandler)'
<1> DEFINE Kept == /\ HandlersInOrder /\ BrokerSeesNone
                   /\ NoForeignCertificate /\ NoPumpOutlivesHandler
<1> USE NamesAssumption DEF IInv, TypeOK, service, remote, handler, broker, Points, Ways,
        HandlersInOrder, BrokerSeesNone, NoForeignCertificate, NoPumpOutlivesHandler
<1>1. CASE StopBegins
  BY <1>1 DEF StopBegins, StopGoesOn
<1>2. CASE TlsListenerStops
  BY <1>2 DEF TlsListenerStops, StopGoesOn
<1>3. CASE Unsubscribe
  BY <1>3 DEF Unsubscribe, StopGoesOn
<1>4. CASE ServerStops
  BY <1>4 DEF ServerStops, StopGoesOn
<1>5. CASE TcpListenersStop
  BY <1>5 DEF TcpListenersStop, StopGoesOn
<1>6. CASE StopReturns
  BY <1>6 DEF StopReturns, StopGoesOn
<1>7. ASSUME NEW k \in Kinds, LoopCancelled(k) PROVE Kept'
  BY <1>7 DEF LoopCancelled
<1>8. ASSUME NEW k \in Kinds, LoopFails(k) PROVE Kept'
  BY <1>8 DEF LoopFails
<1>9. ASSUME NEW c \in Conns, ClientConnects(c) PROVE Kept'
  BY <1>9 DEF ClientConnects
<1>10. ASSUME NEW c \in Conns, ClientHangsUp(c) PROVE Kept'
  BY <1>10 DEF ClientHangsUp
<1>11. ASSUME NEW c \in Conns, Accept(c) PROVE Kept'
  BY <1>11 DEF Accept
<1>12. ASSUME NEW c \in Conns, ClientIdentifies(c) PROVE Kept'
  <2>1. CASE Cancelled
    <3>1. HandlerReturns(c) /\ UNCHANGED <<pumps, seen>> /\ pumps[c] = {}
      BY <1>12, <2>1 DEF ClientIdentifies, Identified
    <3> QED
      BY <3>1 DEF HandlerReturns
  <2>2. CASE ~ Cancelled
    BY <1>12, <2>2 DEF ClientIdentifies, Identified
  <2> QED
    BY <2>1, <2>2
<1>13. ASSUME NEW c \in Conns, FrameMissing(c) PROVE Kept'
  BY <1>13 DEF FrameMissing, Identified, HandlerReturns
<1>14. ASSUME NEW c \in Conns, HandshakeFails(c) PROVE Kept'
  BY <1>14 DEF HandshakeFails, HandlerReturns
<1>15. ASSUME NEW c \in Conns, ConnectBroker(c) PROVE Kept'
  BY <1>15 DEF ConnectBroker
<1>16. ASSUME NEW c \in Conns, ConnectFails(c) PROVE Kept'
  BY <1>16 DEF ConnectFails, HandlerReturns
<1>17. ASSUME NEW c \in Conns, UnlinkPumps(c) PROVE Kept'
  BY <1>17 DEF UnlinkPumps
<1>18. ASSUME NEW c \in Conns, LeaveBridge(c) PROVE Kept'
  BY <1>18 DEF LeaveBridge, HandlerReturns
<1>19. ASSUME NEW c \in Conns, Validate(c) PROVE Kept'
  BY <1>19 DEF Validate
<1>20. ASSUME NEW c \in Conns, BrokerCloses(c) PROVE Kept'
  BY <1>20 DEF BrokerCloses
<1>21. ASSUME NEW c \in Conns, NEW way \in Ways, PumpEnds(c, way) PROVE Kept'
  BY <1>21 DEF PumpEnds
<1>22. ASSUME NEW c \in Conns, NEW way \in Ways, PumpFails(c, way) PROVE Kept'
  BY <1>22 DEF PumpFails
<1>23. CASE UNCHANGED vars
  BY <1>23 DEF vars
<1> QED
  BY <1>1, <1>2, <1>3, <1>4, <1>5, <1>6, <1>7, <1>8, <1>9, <1>10, <1>11, <1>12,
     <1>13, <1>14, <1>15, <1>16, <1>17, <1>18, <1>19, <1>20, <1>21, <1>22, <1>23
  DEF Next, StopStep, HandlerStep

\* The invariant behind the theorems.
THEOREM Invariant == Spec => []IInv
<1>1. IInv /\ [Next]_vars => IInv'
  BY TypeStep, HandlersStep DEF IInv
<1> QED
  BY InitInv, <1>1, PTL DEF Spec

\* The types, for any connections on any listeners.
THEOREM TypeCorrect == Spec => []TypeOK
<1>1. IInv => TypeOK
  BY DEF IInv
<1> QED
  BY Invariant, <1>1, PTL

\* CurrentClientCert never shows the broker the certificate of another client.
THEOREM CertificatesKeptApart == Spec => []NoForeignCertificate
<1>1. IInv => NoForeignCertificate
  BY DEF IInv
<1> QED
  BY Invariant, <1>1, PTL

\* No socket is disposed under a BridgeStreamAsync that still runs.
THEOREM PumpsEndFirst == Spec => []NoPumpOutlivesHandler
<1>1. IInv => NoPumpOutlivesHandler
  BY DEF IInv
<1> QED
  BY Invariant, <1>1, PTL
=============================================================================

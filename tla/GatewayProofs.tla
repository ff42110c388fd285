---------------------------- MODULE GatewayProofs ----------------------------
(***************************************************************************)
(* The gateway keeps every stream intact, delivers what a closing end sent *)
(* and is a tenant relay, for any number of clients, any route table and   *)
(* any sizes.                                                              *)
(***************************************************************************)
EXTENDS Gateway, GatewayRoutingProofs

-----------------------------------------------------------------------------
(* Types.                                                                  *)

LEMMA TypeStep == ASSUME TypeOK, [Next]_vars PROVE TypeOK'
<1> USE DEF TypeOK, Points, Outcomes, Ends
<1>1. ASSUME NEW c \in Conns, ClientConnects(c) PROVE TypeOK'
  BY <1>1 DEF ClientConnects, service, pumps
<1>2. ASSUME NEW c \in Conns, NEW e \in Ends, Send(c, e) PROVE TypeOK'
  <2>1. sent[c][e] + 1 \in Numbers
    BY DEF Numbers
  <2>2. Append(inbox[c][e], sent[c][e] + 1) \in Seq(Numbers)
    BY <2>1, AppendProperties
  <2>3. /\ sent' = [sent EXCEPT ![c][e] = @ + 1]
        /\ inbox' = [inbox EXCEPT ![c][e] = Append(@, sent[c][e] + 1)]
        /\ UNCHANGED <<service, hello, handler, peer, buf, target, pumps, out>>
    BY <1>2 DEF Send
  <2>4. sent' \in [Conns -> [Ends -> Nat]]
    BY <2>3
  <2>5. inbox' \in [Conns -> [Ends -> Seq(Numbers)]]
    BY <2>2, <2>3
  <2> QED
    BY <2>3, <2>4, <2>5 DEF service, handler, pumps
<1>3. ASSUME NEW c \in Conns, NEW e \in Ends, Close(c, e) PROVE TypeOK'
  BY <1>3 DEF Close, service, handler, pumps
<1>4. ASSUME NEW c \in Conns, NEW e \in Ends, Reset(c, e) PROVE TypeOK'
  <2>1. inbox' \in [Conns -> [Ends -> Seq(Numbers)]]
    BY <1>4, EmptySeq DEF Reset
  <2>2. peer' \in [Conns -> [Ends -> {"none", "open", "fin", "rst"}]]
    BY <1>4 DEF Reset
  <2> QED
    BY <1>4, <2>1, <2>2 DEF Reset, service, handler, pumps
<1>5. ASSUME NEW c \in Conns, Accept(c) PROVE TypeOK'
  BY <1>5 DEF Accept, wires, pumps
<1>6. ASSUME NEW c \in Conns, Spawn(c) PROVE TypeOK'
  BY <1>6 DEF Spawn, wires, pumps
<1>7. CASE AcceptFails
  BY <1>7 DEF AcceptFails, handler, wires, pumps
<1>8. CASE AcceptCancelled
  BY <1>8 DEF AcceptCancelled, handler, wires, pumps
<1>9. CASE StopAsync
  BY <1>9 DEF StopAsync, wires, pumps
<1>10. ASSUME NEW c \in Conns, ReadHello(c) PROVE TypeOK'
  <2>1. PICK n \in 1 .. Len(inbox[c]["client"]) :
           /\ buf' = [buf EXCEPT ![c] = @ \o Taken(inbox[c]["client"], n)]
           /\ inbox' = [inbox EXCEPT ![c]["client"] = Remaining(@, n)]
    BY <1>10 DEF ReadHello
  <2>2. n \in 0 .. Len(inbox[c]["client"])
    BY LenProperties
  <2>3. /\ Taken(inbox[c]["client"], n) \in Seq(Numbers)
        /\ Remaining(inbox[c]["client"], n) \in Seq(Numbers)
    BY <2>2, ReadSplits
  <2>4. buf[c] \o Taken(inbox[c]["client"], n) \in Seq(Numbers)
    BY <2>3, ConcatProperties
  <2> QED
    BY <1>10, <2>1, <2>3, <2>4 DEF ReadHello, service, pumps
<1>11. ASSUME NEW c \in Conns, HelloEnds(c) PROVE TypeOK'
  BY <1>11 DEF HelloEnds, service, wires, pumps
<1>12. ASSUME NEW c \in Conns, HelloFails(c) PROVE TypeOK'
  BY <1>12 DEF HelloFails, Done, service, wires, pumps
<1>13. ASSUME NEW c \in Conns, RefuseNoSni(c) PROVE TypeOK'
  BY <1>13 DEF RefuseNoSni, Done, service, wires, pumps
<1>14. ASSUME NEW c \in Conns, RefuseSni(c) PROVE TypeOK'
  BY <1>14 DEF RefuseSni, Done, service, wires, pumps
<1>15. ASSUME NEW c \in Conns, RouteSni(c) PROVE TypeOK'
  <2>1. target'[c] \in Endpoints
    BY <1>15, RouteFindsOwner DEF RouteSni, Tenant
  <2> QED
    BY <1>15, <2>1 DEF RouteSni, service, wires, pumps
<1>16. ASSUME NEW c \in Conns, ConnectBackend(c) PROVE TypeOK'
  BY <1>16 DEF ConnectBackend, service, pumps
<1>17. ASSUME NEW c \in Conns, ConnectFails(c) PROVE TypeOK'
  BY <1>17 DEF ConnectFails, Done, service, wires, pumps
<1>18. ASSUME NEW c \in Conns, ReplayHello(c) PROVE TypeOK'
  BY <1>18 DEF ReplayHello, service, wires
<1>19. ASSUME NEW c \in Conns, ReplayFails(c) PROVE TypeOK'
  BY <1>19 DEF ReplayFails, Done, service, wires, pumps
<1>20. ASSUME NEW c \in Conns, HandlerCancelled(c) PROVE TypeOK'
  <2>1. PICK n \in 0 .. Len(buf[c]) :
           out' = [out EXCEPT ![c]["client"] = Taken(buf[c], n)]
    <3>1. 0 \in 0 .. Len(buf[c])
      BY LenProperties
    <3> QED
      BY <1>20, <3>1 DEF HandlerCancelled
  <2>2. Taken(buf[c], n) \in Seq(Numbers)
    BY ReadSplits
  <2> QED
    BY <1>20, <2>1, <2>2 DEF HandlerCancelled, Done, service, wires, pumps
<1>21. ASSUME NEW c \in Conns, NEW e \in Ends, PumpReads(c, e) PROVE TypeOK'
  <2>1. PICK n \in 1 .. Len(inbox[c][e]) :
           /\ held' = [held EXCEPT ![c][e] = Taken(inbox[c][e], n)]
           /\ inbox' = [inbox EXCEPT ![c][e] = Remaining(@, n)]
    BY <1>21 DEF PumpReads
  <2>2. n \in 0 .. Len(inbox[c][e])
    BY LenProperties
  <2>3. /\ Taken(inbox[c][e], n) \in Seq(Numbers)
        /\ Remaining(inbox[c][e], n) \in Seq(Numbers)
    BY <2>2, ReadSplits
  <2> QED
    BY <1>21, <2>1, <2>3 DEF PumpReads, service, handler
<1>22. ASSUME NEW c \in Conns, NEW e \in Ends, PumpWrites(c, e) PROVE TypeOK'
  <2>1. out[c][e] \o held[c][e] \in Seq(Numbers)
    BY ConcatProperties
  <2> QED
    BY <1>22, <2>1 DEF PumpWrites, service, handler, wires
<1>23. ASSUME NEW c \in Conns, NEW e \in Ends, PumpAtEof(c, e) PROVE TypeOK'
  BY <1>23 DEF PumpAtEof, EndPump, service, handler, wires
<1>24. ASSUME NEW c \in Conns, NEW e \in Ends, PumpFails(c, e) PROVE TypeOK'
  BY <1>24 DEF PumpFails, EndPump, service, handler, wires
<1>25. ASSUME NEW c \in Conns, NEW e \in Ends, PumpCancelled(c, e) PROVE TypeOK'
  <2>1. PICK n \in 0 .. Len(held[c][e]) :
           /\ out' = [out EXCEPT ![c][e] = @ \o Taken(held[c][e], n)]
           /\ held' = [held EXCEPT ![c][e] = Remaining(@, n)]
    BY <1>25 DEF PumpCancelled
  <2>2. /\ out[c][e] \o Taken(held[c][e], n) \in Seq(Numbers)
        /\ Remaining(held[c][e], n) \in Seq(Numbers)
    <3>1. out[c][e] \in Seq(Numbers) /\ held[c][e] \in Seq(Numbers)
      OBVIOUS
    <3>2. Taken(held[c][e], n) \in Seq(Numbers) /\ Remaining(held[c][e], n) \in Seq(Numbers)
      BY <3>1, ReadSplits
    <3> QED
      BY <3>1, <3>2, ConcatProperties
  <2> QED
    BY <1>25, <2>1, <2>2 DEF PumpCancelled, EndPump, service, handler, wires
<1>26. ASSUME NEW c \in Conns, CancelPumps(c) PROVE TypeOK'
  BY <1>26 DEF CancelPumps, service, handler, wires
<1>27. ASSUME NEW c \in Conns, FinishBridge(c) PROVE TypeOK'
  BY <1>27 DEF FinishBridge, Done, service, wires, pumps
<1>28. CASE UNCHANGED vars
  BY <1>28 DEF vars, service, handler, wires, pumps
<1> QED
  BY <1>1, <1>2, <1>3, <1>4, <1>5, <1>6, <1>7, <1>8, <1>9, <1>10, <1>11, <1>12, <1>13, <1>14, <1>15, <1>16, <1>17, <1>18, <1>19, <1>20, <1>21, <1>22, <1>23, <1>24, <1>25, <1>26, <1>27, <1>28
  DEF Next, AcceptStep, EndStep, HandlerStep, PumpStep

-----------------------------------------------------------------------------
(* The inductive invariant.                                                *)

\* Before a point of the handler nothing has happened that comes after it.
HandlerOrder(c) ==
    /\ pc[c] = "unborn" => peer[c]["client"] = "none"
    /\ pc[c] \notin {"replay", "pump", "done"} => peer[c]["backend"] = "none"
    /\ pc[c] \in {"unborn", "backlog", "accepted"} => buf[c] = <<>>
    /\ pc[c] \notin {"pump", "done"} => \A e \in Ends : out[c][e] = <<>>
    /\ pc[c] # "done" => outcome[c] = "none"
    /\ outcome[c] = "bridged" => linkCancelled[c]

HandlersInOrder == \A c \in Conns : HandlerOrder(c)

\* Pumps run under the bridge only; a pump that waits for bytes has none; a reset
\* end has no bytes left to read.
PumpOrder(c, e) ==
    /\ pc[c] \notin {"pump", "done"} => pump[c][e] = "idle"
    /\ pump[c][e] \in {"reading", "writing"} => pc[c] = "pump"
    /\ pump[c][e] \in {"idle", "reading"} => held[c][e] = <<>>
    /\ peer[c][e] = "rst" => inbox[c][e] = <<>>

PumpsInOrder == \A c \in Conns, e \in Ends : PumpOrder(c, e)

\* What the gateway has taken from e, and whether it may still lose nothing of it.
Given(c, e) == out[c][e] \o Carried(c, e)
Live(c, e) == (pc[c] # "done" \/ outcome[c] = "bridged") /\ peer[c][e] # "rst"

\* What was taken from an end and a rest make up what it sent; the rest is what
\* waits in the socket unless it was lost in a reset or by a handler that gave up.
FlowKept(c, e) ==
    \E rest \in Seq(Numbers) :
        /\ Given(c, e) \o rest = Span(0, sent[c][e])
        /\ Live(c, e) => rest = inbox[c][e]

FlowsKept == \A c \in Conns, e \in Ends : FlowKept(c, e)

\* A connection is under way to the owner of its name only, and a name that was
\* refused has none.
Routed(c) ==
    /\ pc[c] \in {"connect", "replay", "pump"} =>
          target[c] \in Owners(hello[c]) /\ target[c] \in Endpoints
    /\ outcome[c] \in {"noTenant", "noBackend"} =>
          \A i \in DOMAIN RouteTable :
              ~ IsBlank(RouteTable[i].tenant) => ~ Serves(RouteTable[i], hello[c].host)

RoutedToOwner == \A c \in Conns : Routed(c)

\* The pump of e ended for a reason of its own: the end of the stream, after which
\* it holds nothing, or a reset.
EndedItself(c, e) ==
    /\ pump[c][e] = "ended"
    /\ \/ peer[c][e] = "fin" /\ inbox[c][e] = <<>> /\ held[c][e] = <<>>
       \/ \E f \in Ends : peer[c][f] = "rst"

\* Unless the host stops, a pump is cancelled only after one ended by itself.
EndReason(c) ==
    /\ \A e \in Ends : pump[c][e] = "ended" => EndedItself(c, e) \/ linkCancelled[c]
    /\ linkCancelled[c] => \E e \in Ends : EndedItself(c, e)

EndsHaveReasons == ~ stopped => \A c \in Conns : EndReason(c)

IInv == TypeOK /\ HandlersInOrder /\ PumpsInOrder /\ FlowsKept /\ RoutedToOwner /\ EndsHaveReasons

-----------------------------------------------------------------------------
(* The order of the handler's and the pumps' steps.                        *)

LEMMA HandlersOrderStep ==
  ASSUME TypeOK, HandlersInOrder, PumpsInOrder, [Next]_vars
  PROVE  HandlersInOrder'
<1> SUFFICES ASSUME NEW d \in Conns PROVE HandlerOrder(d)'
  BY DEF HandlersInOrder
<1>a. /\ pc \in [Conns -> Points] /\ outcome \in [Conns -> Outcomes]
      /\ buf \in [Conns -> Seq(Numbers)] /\ linkCancelled \in [Conns -> BOOLEAN]
      /\ peer \in [Conns -> [Ends -> {"none", "open", "fin", "rst"}]]
      /\ out \in [Conns -> [Ends -> Seq(Numbers)]]
  BY DEF TypeOK
<1>b. HandlerOrder(d) /\ \A e \in Ends : PumpOrder(d, e)
  BY DEF HandlersInOrder, PumpsInOrder
<1>c. "client" \in Ends /\ "backend" \in Ends
  BY DEF Ends
<1>1. ASSUME NEW c \in Conns, ClientConnects(c) PROVE HandlerOrder(d)'
  BY <1>1, <1>a, <1>b, <1>c DEF ClientConnects, service, pumps, HandlerOrder, PumpOrder
<1>2. ASSUME NEW c \in Conns, NEW e \in Ends, Send(c, e) PROVE HandlerOrder(d)'
  BY <1>2, <1>a, <1>b, <1>c DEF Send, service, handler, pumps, HandlerOrder, PumpOrder
<1>3. ASSUME NEW c \in Conns, NEW e \in Ends, Close(c, e) PROVE HandlerOrder(d)'
  BY <1>3, <1>a, <1>b, <1>c DEF Close, service, handler, pumps, HandlerOrder, PumpOrder
<1>4. ASSUME NEW c \in Conns, NEW e \in Ends, Reset(c, e) PROVE HandlerOrder(d)'
  BY <1>4, <1>a, <1>b, <1>c DEF Reset, service, handler, pumps, HandlerOrder, PumpOrder
<1>5. ASSUME NEW c \in Conns, Accept(c) PROVE HandlerOrder(d)'
  BY <1>5, <1>a, <1>b, <1>c DEF Accept, wires, pumps, HandlerOrder, PumpOrder
<1>6. ASSUME NEW c \in Conns, Spawn(c) PROVE HandlerOrder(d)'
  BY <1>6, <1>a, <1>b, <1>c DEF Spawn, wires, pumps, HandlerOrder, PumpOrder
<1>7. CASE AcceptFails
  BY <1>7, <1>a, <1>b, <1>c DEF AcceptFails, handler, wires, pumps, HandlerOrder, PumpOrder
<1>8. CASE AcceptCancelled
  BY <1>8, <1>a, <1>b, <1>c DEF AcceptCancelled, handler, wires, pumps, HandlerOrder, PumpOrder
<1>9. CASE StopAsync
  BY <1>9, <1>a, <1>b, <1>c DEF StopAsync, wires, pumps, HandlerOrder, PumpOrder
<1>10. ASSUME NEW c \in Conns, ReadHello(c) PROVE HandlerOrder(d)'
  BY <1>10, <1>a, <1>b, <1>c DEF ReadHello, service, pumps, HandlerOrder, PumpOrder
<1>11. ASSUME NEW c \in Conns, HelloEnds(c) PROVE HandlerOrder(d)'
  BY <1>11, <1>a, <1>b, <1>c DEF HelloEnds, service, wires, pumps, HandlerOrder, PumpOrder
<1>12. ASSUME NEW c \in Conns, HelloFails(c) PROVE HandlerOrder(d)'
  BY <1>12, <1>a, <1>b, <1>c DEF HelloFails, Done, service, wires, pumps, HandlerOrder, PumpOrder
<1>13. ASSUME NEW c \in Conns, RefuseNoSni(c) PROVE HandlerOrder(d)'
  BY <1>13, <1>a, <1>b, <1>c DEF RefuseNoSni, Done, service, wires, pumps, HandlerOrder, PumpOrder
<1>14. ASSUME NEW c \in Conns, RefuseSni(c) PROVE HandlerOrder(d)'
  BY <1>14, <1>a, <1>b, <1>c DEF RefuseSni, Done, service, wires, pumps, HandlerOrder, PumpOrder
<1>15. ASSUME NEW c \in Conns, RouteSni(c) PROVE HandlerOrder(d)'
  BY <1>15, <1>a, <1>b, <1>c DEF RouteSni, service, wires, pumps, HandlerOrder, PumpOrder
<1>16. ASSUME NEW c \in Conns, ConnectBackend(c) PROVE HandlerOrder(d)'
  BY <1>16, <1>a, <1>b, <1>c DEF ConnectBackend, service, pumps, HandlerOrder, PumpOrder
<1>17. ASSUME NEW c \in Conns, ConnectFails(c) PROVE HandlerOrder(d)'
  BY <1>17, <1>a, <1>b, <1>c DEF ConnectFails, Done, service, wires, pumps, HandlerOrder, PumpOrder
<1>18. ASSUME NEW c \in Conns, ReplayHello(c) PROVE HandlerOrder(d)'
  BY <1>18, <1>a, <1>b, <1>c DEF ReplayHello, service, wires, HandlerOrder, PumpOrder
<1>19. ASSUME NEW c \in Conns, ReplayFails(c) PROVE HandlerOrder(d)'
  BY <1>19, <1>a, <1>b, <1>c DEF ReplayFails, Done, service, wires, pumps, HandlerOrder, PumpOrder
<1>20. ASSUME NEW c \in Conns, HandlerCancelled(c) PROVE HandlerOrder(d)'
  BY <1>20, <1>a, <1>b, <1>c DEF HandlerCancelled, Done, service, wires, pumps, HandlerOrder, PumpOrder
<1>21. ASSUME NEW c \in Conns, NEW e \in Ends, PumpReads(c, e) PROVE HandlerOrder(d)'
  BY <1>21, <1>a, <1>b, <1>c DEF PumpReads, service, handler, HandlerOrder, PumpOrder
<1>22. ASSUME NEW c \in Conns, NEW e \in Ends, PumpWrites(c, e) PROVE HandlerOrder(d)'
  BY <1>22, <1>a, <1>b, <1>c DEF PumpWrites, service, handler, wires, HandlerOrder, PumpOrder
<1>23. ASSUME NEW c \in Conns, NEW e \in Ends, PumpAtEof(c, e) PROVE HandlerOrder(d)'
  BY <1>23, <1>a, <1>b, <1>c DEF PumpAtEof, EndPump, service, handler, wires, HandlerOrder, PumpOrder
<1>24. ASSUME NEW c \in Conns, NEW e \in Ends, PumpFails(c, e) PROVE HandlerOrder(d)'
  BY <1>24, <1>a, <1>b, <1>c DEF PumpFails, EndPump, service, handler, wires, HandlerOrder, PumpOrder
<1>25. ASSUME NEW c \in Conns, NEW e \in Ends, PumpCancelled(c, e) PROVE HandlerOrder(d)'
  BY <1>25, <1>a, <1>b, <1>c DEF PumpCancelled, EndPump, service, handler, wires, HandlerOrder, PumpOrder
<1>26. ASSUME NEW c \in Conns, CancelPumps(c) PROVE HandlerOrder(d)'
  BY <1>26, <1>a, <1>b, <1>c DEF CancelPumps, service, handler, wires, HandlerOrder, PumpOrder
<1>27. ASSUME NEW c \in Conns, FinishBridge(c) PROVE HandlerOrder(d)'
  BY <1>27, <1>a, <1>b, <1>c DEF FinishBridge, Done, service, wires, pumps, HandlerOrder, PumpOrder
<1>28. CASE UNCHANGED vars
  BY <1>28, <1>a, <1>b, <1>c DEF vars, service, handler, wires, pumps, HandlerOrder, PumpOrder
<1> QED
  BY <1>1, <1>2, <1>3, <1>4, <1>5, <1>6, <1>7, <1>8, <1>9, <1>10, <1>11, <1>12,
     <1>13, <1>14, <1>15, <1>16, <1>17, <1>18, <1>19, <1>20, <1>21, <1>22, <1>23,
     <1>24, <1>25, <1>26, <1>27, <1>28
  DEF Next, AcceptStep, EndStep, HandlerStep, PumpStep

LEMMA PumpsOrderStep ==
  ASSUME TypeOK, HandlersInOrder, PumpsInOrder, [Next]_vars
  PROVE  PumpsInOrder'
<1> SUFFICES ASSUME NEW d \in Conns, NEW f \in Ends PROVE PumpOrder(d, f)'
  BY DEF PumpsInOrder
<1>a. /\ pc \in [Conns -> Points]
      /\ peer \in [Conns -> [Ends -> {"none", "open", "fin", "rst"}]]
      /\ inbox \in [Conns -> [Ends -> Seq(Numbers)]]
      /\ pump \in [Conns -> [Ends -> {"idle", "reading", "writing", "ended"}]]
      /\ held \in [Conns -> [Ends -> Seq(Numbers)]]
  BY DEF TypeOK
<1>b. HandlerOrder(d) /\ PumpOrder(d, f)
  BY DEF HandlersInOrder, PumpsInOrder
<1>c. "client" \in Ends /\ "backend" \in Ends
  BY DEF Ends
<1>1. ASSUME NEW c \in Conns, ClientConnects(c) PROVE PumpOrder(d, f)'
  BY <1>1, <1>a, <1>b, <1>c DEF ClientConnects, service, pumps, HandlerOrder, PumpOrder
<1>2. ASSUME NEW c \in Conns, NEW e \in Ends, Send(c, e) PROVE PumpOrder(d, f)'
  BY <1>2, <1>a, <1>b, <1>c DEF Send, service, handler, pumps, HandlerOrder, PumpOrder
<1>3. ASSUME NEW c \in Conns, NEW e \in Ends, Close(c, e) PROVE PumpOrder(d, f)'
  BY <1>3, <1>a, <1>b, <1>c DEF Close, service, handler, pumps, HandlerOrder, PumpOrder
<1>4. ASSUME NEW c \in Conns, NEW e \in Ends, Reset(c, e) PROVE PumpOrder(d, f)'
  BY <1>4, <1>a, <1>b, <1>c DEF Reset, service, handler, pumps, HandlerOrder, PumpOrder
<1>5. ASSUME NEW c \in Conns, Accept(c) PROVE PumpOrder(d, f)'
  BY <1>5, <1>a, <1>b, <1>c DEF Accept, wires, pumps, HandlerOrder, PumpOrder
<1>6. ASSUME NEW c \in Conns, Spawn(c) PROVE PumpOrder(d, f)'
  BY <1>6, <1>a, <1>b, <1>c DEF Spawn, wires, pumps, HandlerOrder, PumpOrder
<1>7. CASE AcceptFails
  BY <1>7, <1>a, <1>b, <1>c DEF AcceptFails, handler, wires, pumps, HandlerOrder, PumpOrder
<1>8. CASE AcceptCancelled
  BY <1>8, <1>a, <1>b, <1>c DEF AcceptCancelled, handler, wires, pumps, HandlerOrder, PumpOrder
<1>9. CASE StopAsync
  BY <1>9, <1>a, <1>b, <1>c DEF StopAsync, wires, pumps, HandlerOrder, PumpOrder
<1>10. ASSUME NEW c \in Conns, ReadHello(c) PROVE PumpOrder(d, f)'
  BY <1>10, <1>a, <1>b, <1>c DEF ReadHello, service, pumps, HandlerOrder, PumpOrder
<1>11. ASSUME NEW c \in Conns, HelloEnds(c) PROVE PumpOrder(d, f)'
  BY <1>11, <1>a, <1>b, <1>c DEF HelloEnds, service, wires, pumps, HandlerOrder, PumpOrder
<1>12. ASSUME NEW c \in Conns, HelloFails(c) PROVE PumpOrder(d, f)'
  BY <1>12, <1>a, <1>b, <1>c DEF HelloFails, Done, service, wires, pumps, HandlerOrder, PumpOrder
<1>13. ASSUME NEW c \in Conns, RefuseNoSni(c) PROVE PumpOrder(d, f)'
  BY <1>13, <1>a, <1>b, <1>c DEF RefuseNoSni, Done, service, wires, pumps, HandlerOrder, PumpOrder
<1>14. ASSUME NEW c \in Conns, RefuseSni(c) PROVE PumpOrder(d, f)'
  BY <1>14, <1>a, <1>b, <1>c DEF RefuseSni, Done, service, wires, pumps, HandlerOrder, PumpOrder
<1>15. ASSUME NEW c \in Conns, RouteSni(c) PROVE PumpOrder(d, f)'
  BY <1>15, <1>a, <1>b, <1>c DEF RouteSni, service, wires, pumps, HandlerOrder, PumpOrder
<1>16. ASSUME NEW c \in Conns, ConnectBackend(c) PROVE PumpOrder(d, f)'
  BY <1>16, <1>a, <1>b, <1>c DEF ConnectBackend, service, pumps, HandlerOrder, PumpOrder
<1>17. ASSUME NEW c \in Conns, ConnectFails(c) PROVE PumpOrder(d, f)'
  BY <1>17, <1>a, <1>b, <1>c DEF ConnectFails, Done, service, wires, pumps, HandlerOrder, PumpOrder
<1>18. ASSUME NEW c \in Conns, ReplayHello(c) PROVE PumpOrder(d, f)'
  BY <1>18, <1>a, <1>b, <1>c DEF ReplayHello, service, wires, HandlerOrder, PumpOrder
<1>19. ASSUME NEW c \in Conns, ReplayFails(c) PROVE PumpOrder(d, f)'
  BY <1>19, <1>a, <1>b, <1>c DEF ReplayFails, Done, service, wires, pumps, HandlerOrder, PumpOrder
<1>20. ASSUME NEW c \in Conns, HandlerCancelled(c) PROVE PumpOrder(d, f)'
  BY <1>20, <1>a, <1>b, <1>c DEF HandlerCancelled, Done, service, wires, pumps, HandlerOrder, PumpOrder
<1>21. ASSUME NEW c \in Conns, NEW e \in Ends, PumpReads(c, e) PROVE PumpOrder(d, f)'
  BY <1>21, <1>a, <1>b, <1>c DEF PumpReads, service, handler, HandlerOrder, PumpOrder
<1>22. ASSUME NEW c \in Conns, NEW e \in Ends, PumpWrites(c, e) PROVE PumpOrder(d, f)'
  BY <1>22, <1>a, <1>b, <1>c DEF PumpWrites, service, handler, wires, HandlerOrder, PumpOrder
<1>23. ASSUME NEW c \in Conns, NEW e \in Ends, PumpAtEof(c, e) PROVE PumpOrder(d, f)'
  BY <1>23, <1>a, <1>b, <1>c DEF PumpAtEof, EndPump, service, handler, wires, HandlerOrder, PumpOrder
<1>24. ASSUME NEW c \in Conns, NEW e \in Ends, PumpFails(c, e) PROVE PumpOrder(d, f)'
  BY <1>24, <1>a, <1>b, <1>c DEF PumpFails, EndPump, service, handler, wires, HandlerOrder, PumpOrder
<1>25. ASSUME NEW c \in Conns, NEW e \in Ends, PumpCancelled(c, e) PROVE PumpOrder(d, f)'
  BY <1>25, <1>a, <1>b, <1>c DEF PumpCancelled, EndPump, service, handler, wires, HandlerOrder, PumpOrder
<1>26. ASSUME NEW c \in Conns, CancelPumps(c) PROVE PumpOrder(d, f)'
  BY <1>26, <1>a, <1>b, <1>c DEF CancelPumps, service, handler, wires, HandlerOrder, PumpOrder
<1>27. ASSUME NEW c \in Conns, FinishBridge(c) PROVE PumpOrder(d, f)'
  BY <1>27, <1>a, <1>b, <1>c DEF FinishBridge, Done, service, wires, pumps, HandlerOrder, PumpOrder
<1>28. CASE UNCHANGED vars
  BY <1>28, <1>a, <1>b, <1>c DEF vars, service, handler, wires, pumps, HandlerOrder, PumpOrder
<1> QED
  BY <1>1, <1>2, <1>3, <1>4, <1>5, <1>6, <1>7, <1>8, <1>9, <1>10, <1>11, <1>12,
     <1>13, <1>14, <1>15, <1>16, <1>17, <1>18, <1>19, <1>20, <1>21, <1>22, <1>23,
     <1>24, <1>25, <1>26, <1>27, <1>28
  DEF Next, AcceptStep, EndStep, HandlerStep, PumpStep

-----------------------------------------------------------------------------
(* Streams: the four things a step can do to a flow.                       *)

LEMMA GivenIsSeq ==
  ASSUME TypeOK, NEW c \in Conns, NEW e \in Ends
  PROVE  /\ out[c][e] \in Seq(Numbers) /\ Carried(c, e) \in Seq(Numbers)
         /\ held[c][e] \in Seq(Numbers) /\ buf[c] \in Seq(Numbers)
         /\ inbox[c][e] \in Seq(Numbers) /\ sent[c][e] \in Nat
         /\ Given(c, e) \in Seq(Numbers)
<1>1. /\ out[c][e] \in Seq(Numbers) /\ held[c][e] \in Seq(Numbers)
      /\ buf[c] \in Seq(Numbers) /\ inbox[c][e] \in Seq(Numbers) /\ sent[c][e] \in Nat
  BY DEF TypeOK
<1>2. Carried(c, e) \in Seq(Numbers)
  BY <1>1 DEF Carried
<1> QED
  BY <1>1, <1>2, ConcatProperties DEF Given

\* Nothing is taken, or what was held is written.
LEMMA FlowQuiet ==
  ASSUME NEW c \in Conns, NEW e \in Ends, FlowKept(c, e),
         Given(c, e)' = Given(c, e), sent'[c][e] = sent[c][e],
         Live(c, e)' => Live(c, e) /\ inbox'[c][e] = inbox[c][e]
  PROVE  FlowKept(c, e)'
  BY DEF FlowKept

\* What the handler carried is lost with it.
LEMMA FlowDropped ==
  ASSUME TypeOK, TypeOK', NEW c \in Conns, NEW e \in Ends, FlowKept(c, e),
         NEW lost \in Seq(Numbers), Given(c, e)' \o lost = Given(c, e),
         sent'[c][e] = sent[c][e], ~ Live(c, e)'
  PROVE  FlowKept(c, e)'
<1> DEFINE g == Given(c, e)'
<1>1. PICK rest \in Seq(Numbers) : Given(c, e) \o rest = Span(0, sent[c][e])
  BY DEF FlowKept
<1>2. g \in Seq(Numbers)
  <2>1. out'[c][e] \in Seq(Numbers) /\ held'[c][e] \in Seq(Numbers) /\ buf'[c] \in Seq(Numbers)
    BY DEF TypeOK
  <2>2. Carried(c, e)' \in Seq(Numbers)
    BY <2>1 DEF Carried
  <2> QED
    BY <2>1, <2>2, ConcatProperties DEF Given
<1>3. g \o lost = Given(c, e)
  OBVIOUS
<1> HIDE DEF g
<1>4. lost \o rest \in Seq(Numbers)
  BY ConcatProperties
<1>5. g \o (lost \o rest) = (g \o lost) \o rest
  BY <1>2, ConcatAssociative
<1>6. g \o (lost \o rest) = Span(0, sent'[c][e])
  BY <1>1, <1>3, <1>5
<1> QED
  BY <1>4, <1>6 DEF FlowKept, g

\* Bytes are read: from the socket into what the handler carries.
LEMMA FlowRead ==
  ASSUME TypeOK, TypeOK', NEW c \in Conns, NEW e \in Ends, FlowKept(c, e), Live(c, e),
         NEW n \in 1 .. Len(inbox[c][e]),
         Given(c, e)' = Given(c, e) \o Taken(inbox[c][e], n),
         inbox'[c][e] = Remaining(inbox[c][e], n), sent'[c][e] = sent[c][e]
  PROVE  FlowKept(c, e)'
<1> DEFINE g == Given(c, e)
           t == Taken(inbox[c][e], n)
           r == Remaining(inbox[c][e], n)
<1>1. Given(c, e) \o inbox[c][e] = Span(0, sent[c][e])
  BY DEF FlowKept
<1>2. Given(c, e) \in Seq(Numbers) /\ inbox[c][e] \in Seq(Numbers)
  BY GivenIsSeq
<1>3. n \in 0 .. Len(inbox[c][e])
  BY <1>2, LenProperties
<1>4. t \in Seq(Numbers) /\ r \in Seq(Numbers) /\ t \o r = inbox[c][e]
  BY <1>2, <1>3, ReadSplits
<1>5. Given(c, e)' = g \o t /\ g \in Seq(Numbers)
  BY <1>2
<1> HIDE DEF g, t, r
<1>6. (g \o t) \o r = g \o (t \o r)
  <2>1. g \in Seq(Numbers) /\ t \in Seq(Numbers) /\ r \in Seq(Numbers)
    BY <1>4, <1>5
  <2> QED
    BY ONLY <2>1, ConcatAssociative
<1>7. g \o inbox[c][e] = Span(0, sent[c][e])
  BY <1>1 DEF g
<1>8. Given(c, e)' \o r = Span(0, sent'[c][e])
  BY <1>4, <1>5, <1>6, <1>7
<1>9. inbox'[c][e] = r
  BY DEF r
<1> QED
  BY <1>4, <1>8, <1>9 DEF FlowKept

\* An end sends its next byte.
LEMMA FlowSent ==
  ASSUME TypeOK, NEW c \in Conns, NEW e \in Ends, FlowKept(c, e), Live(c, e),
         Given(c, e)' = Given(c, e), sent'[c][e] = sent[c][e] + 1,
         inbox'[c][e] = Append(inbox[c][e], sent[c][e] + 1)
  PROVE  FlowKept(c, e)'
<1> DEFINE g == Given(c, e)
           b == inbox[c][e]
           x == sent[c][e] + 1
<1>1. g \in Seq(Numbers) /\ b \in Seq(Numbers) /\ x \in Numbers /\ sent[c][e] \in Nat
  BY GivenIsSeq DEF Numbers
<1>2. g \o b = Span(0, sent[c][e])
  BY DEF FlowKept
<1>3. Append(g \o b, x) = Span(0, x)
  BY <1>1, <1>2, SpanAppend
<1>4. inbox'[c][e] = Append(b, x) /\ Given(c, e)' = g /\ sent'[c][e] = x
  OBVIOUS
<1> HIDE DEF g, b, x
<1>5. <<x>> \in Seq(Numbers)
  BY <1>1
<1>6. Append(b, x) = b \o <<x>> /\ Append(b, x) \in Seq(Numbers)
  BY <1>1, AppendIsConcat, AppendProperties
<1>7. g \o b \in Seq(Numbers) /\ Append(g \o b, x) = (g \o b) \o <<x>>
  BY <1>1, ConcatProperties, AppendIsConcat
<1>8. g \o Append(b, x) = Append(g \o b, x)
  BY <1>1, <1>5, <1>6, <1>7, ConcatAssociative
<1> QED
  BY <1>3, <1>4, <1>6, <1>8 DEF FlowKept

\* A handler that gives up before the replay drops the record it peeked.
LEMMA PeekDropped ==
  ASSUME TypeOK, TypeOK', HandlersInOrder, PumpsInOrder, FlowsKept, NEW c \in Conns,
         NEW n \in 0 .. Len(buf[c]),
         pc[c] \in {"peek", "route", "connect", "replay"},
         pc' = [pc EXCEPT ![c] = "done"], outcome'[c] # "bridged",
         out' = [out EXCEPT ![c]["client"] = Taken(buf[c], n)],
         UNCHANGED <<wires, buf, held>>,
         \A d \in Conns \ {c} : outcome'[d] = outcome[d]
  PROVE  FlowsKept'
<1> SUFFICES ASSUME NEW d \in Conns, NEW f \in Ends PROVE FlowKept(d, f)'
  BY DEF FlowsKept
<1>a. /\ pc \in [Conns -> Points] /\ outcome \in [Conns -> Outcomes]
      /\ out \in [Conns -> [Ends -> Seq(Numbers)]] /\ buf[c] \in Seq(Numbers)
  BY DEF TypeOK
<1>b. FlowKept(d, f) /\ HandlerOrder(c) /\ PumpOrder(c, f)
  BY DEF FlowsKept, HandlersInOrder, PumpsInOrder
<1>c. "client" \in Ends
  BY DEF Ends
<1>1. CASE d = c /\ f = "client"
  <2> DEFINE t == Taken(buf[c], n)
             r == Remaining(buf[c], n)
  <2>1. t \in Seq(Numbers) /\ r \in Seq(Numbers) /\ t \o r = buf[c]
    BY <1>a, ReadSplits
  <2>2. out[c]["client"] = <<>> /\ held[c]["client"] = <<>> /\ held' = held
    BY <1>1, <1>b, <1>c DEF HandlerOrder, PumpOrder
  <2>3. Given(d, f) = <<>> \o buf[c]
    BY <1>1, <2>2 DEF Given, Carried
  <2>4. out'[c]["client"] = t /\ pc'[c] = "done"
    BY <1>a, <1>c
  <2>5. Given(d, f)' = t \o <<>>
    BY <1>1, <2>2, <2>4 DEF Given, Carried
  <2>6. ~ Live(d, f)' /\ sent'[d][f] = sent[d][f]
    BY <1>1, <2>4 DEF Live, wires
  <2> HIDE DEF t, r
  <2>7. t \o <<>> = t
    BY <2>1, ConcatEmptySeq
  <2>8. <<>> \o buf[c] = buf[c]
    BY <1>a, ConcatEmptySeq
  <2>9. Given(d, f)' \o r = Given(d, f)
    BY <2>1, <2>3, <2>5, <2>7, <2>8
  <2> QED
    BY <1>b, <2>1, <2>6, <2>9, FlowDropped
<1>2. CASE ~ (d = c /\ f = "client")
  <2>1. out'[d][f] = out[d][f] /\ Carried(d, f)' = Carried(d, f)
    BY <1>2, <1>a, <1>c DEF Carried
  <2>2. Given(d, f)' = Given(d, f)
    BY <2>1 DEF Given
  <2>3. sent'[d][f] = sent[d][f] /\ inbox'[d][f] = inbox[d][f]
    BY DEF wires
  <2>4. Live(d, f)' => Live(d, f)
    BY <1>2, <1>a DEF Live, wires
  <2> QED
    BY <1>b, <2>2, <2>3, <2>4, FlowQuiet
<1> QED
  BY <1>1, <1>2

\* A handler that has not written anything yet has written the first 0 bytes of what
\* it peeked.
LEMMA NothingWritten ==
  ASSUME TypeOK, HandlersInOrder, NEW c \in Conns, pc[c] \notin {"pump", "done"},
         UNCHANGED out
  PROVE  0 \in 0 .. Len(buf[c]) /\ out' = [out EXCEPT ![c]["client"] = Taken(buf[c], 0)]
<1>1. "client" \in Ends /\ out \in [Conns -> [Ends -> Seq(Numbers)]] /\ buf[c] \in Seq(Numbers)
  BY DEF Ends, TypeOK
<1>2. Len(buf[c]) \in Nat /\ 0 \in 0 .. Len(buf[c])
  BY <1>1, LenProperties
<1>3. Taken(buf[c], 0) = <<>>
  BY <1>1, <1>2 DEF Taken
<1>4. out[c]["client"] = <<>>
  BY <1>1 DEF HandlersInOrder, HandlerOrder
<1>5. out = [out EXCEPT ![c]["client"] = <<>>]
  BY <1>1, <1>4
<1> QED
  BY <1>2, <1>3, <1>5

LEMMA FlowsStep ==
  ASSUME TypeOK, TypeOK', HandlersInOrder, PumpsInOrder, FlowsKept, [Next]_vars
  PROVE  FlowsKept'
<1>a. /\ pc \in [Conns -> Points] /\ outcome \in [Conns -> Outcomes]
      /\ buf \in [Conns -> Seq(Numbers)] /\ linkCancelled \in [Conns -> BOOLEAN]
      /\ peer \in [Conns -> [Ends -> {"none", "open", "fin", "rst"}]]
      /\ sent \in [Conns -> [Ends -> Nat]]
      /\ out \in [Conns -> [Ends -> Seq(Numbers)]]
      /\ held \in [Conns -> [Ends -> Seq(Numbers)]]
      /\ inbox \in [Conns -> [Ends -> Seq(Numbers)]]
      /\ pump \in [Conns -> [Ends -> {"idle", "reading", "writing", "ended"}]]
  BY DEF TypeOK
<1>b. \A d \in Conns, f \in Ends : FlowKept(d, f) /\ HandlerOrder(d) /\ PumpOrder(d, f)
  BY DEF FlowsKept, HandlersInOrder, PumpsInOrder
<1>c. "client" \in Ends /\ "backend" \in Ends
  BY DEF Ends
<1>1. ASSUME NEW c \in Conns, ClientConnects(c) PROVE FlowsKept'
  <2> SUFFICES ASSUME NEW d \in Conns, NEW f \in Ends PROVE FlowKept(d, f)'
    BY DEF FlowsKept
  <2>1. /\ pc[c] = "unborn" /\ pc' = [pc EXCEPT ![c] = "backlog"]
        /\ UNCHANGED <<outcome, sent, inbox, buf, held, out>>
        /\ peer' = [peer EXCEPT ![c]["client"] = "open"]
    BY <1>1 DEF ClientConnects, service, pumps
  <2>2. Carried(d, f)' = Carried(d, f)
    BY <1>a, <1>b, <2>1 DEF Carried, HandlerOrder, PumpOrder
  <2>3. Given(d, f)' = Given(d, f)
    BY <2>1, <2>2 DEF Given
  <2>4. sent'[d][f] = sent[d][f] /\ inbox'[d][f] = inbox[d][f]
    BY <2>1
  <2>5. peer[d][f] = "rst" => peer'[d][f] = "rst"
    BY <1>a, <1>b, <1>c, <2>1 DEF HandlerOrder
  <2>6. Live(d, f)' => Live(d, f)
    BY <1>a, <2>1, <2>5 DEF Live
  <2> QED
    BY <1>b, <2>3, <2>4, <2>6, FlowQuiet
<1>2. ASSUME NEW c \in Conns, NEW e \in Ends, Send(c, e) PROVE FlowsKept'
  <2> SUFFICES ASSUME NEW d \in Conns, NEW f \in Ends PROVE FlowKept(d, f)'
    BY DEF FlowsKept
  <2>1. Given(d, f)' = Given(d, f) /\ (Live(d, f)' <=> Live(d, f))
    BY <1>2 DEF Send, handler, pumps, Given, Carried, Live
  <2>2. CASE d = c /\ f = e
    <3>1. sent'[d][f] = sent[d][f] + 1 /\ inbox'[d][f] = Append(inbox[d][f], sent[d][f] + 1)
      BY <1>2, <1>a, <2>2 DEF Send
    <3>2. Live(d, f)
      BY <1>2, <2>2 DEF Send, Live
    <3> QED
      BY <1>b, <2>1, <3>1, <3>2, FlowSent
  <2>3. CASE ~ (d = c /\ f = e)
    <3>1. sent'[d][f] = sent[d][f] /\ inbox'[d][f] = inbox[d][f]
      BY <1>2, <1>a, <2>3 DEF Send
    <3> QED
      BY <1>b, <2>1, <3>1, FlowQuiet
  <2> QED
    BY <2>2, <2>3
<1>3. ASSUME NEW c \in Conns, NEW e \in Ends, Close(c, e) PROVE FlowsKept'
  <2> SUFFICES ASSUME NEW d \in Conns, NEW f \in Ends PROVE FlowKept(d, f)'
    BY DEF FlowsKept
  <2>1. Given(d, f)' = Given(d, f)
    BY <1>3, <1>a, <1>b, <1>c DEF Close, service, handler, pumps, HandlerOrder, PumpOrder, Given, Carried
  <2>2. /\ sent'[d][f] = sent[d][f]
        /\ Live(d, f)' => Live(d, f) /\ inbox'[d][f] = inbox[d][f]
    BY <1>3, <1>a, <1>b, <1>c DEF Close, service, handler, pumps, HandlerOrder, PumpOrder, Live
  <2> QED
    BY <1>b, <2>1, <2>2, FlowQuiet
<1>4. ASSUME NEW c \in Conns, NEW e \in Ends, Reset(c, e) PROVE FlowsKept'
  <2> SUFFICES ASSUME NEW d \in Conns, NEW f \in Ends PROVE FlowKept(d, f)'
    BY DEF FlowsKept
  <2>1. /\ peer' = [peer EXCEPT ![c][e] = "rst"]
        /\ inbox' = [inbox EXCEPT ![c][e] = <<>>]
        /\ UNCHANGED <<pc, outcome, sent, buf, held, out>>
    BY <1>4 DEF Reset, handler, pumps
  <2>2. Given(d, f)' = Given(d, f) /\ sent'[d][f] = sent[d][f]
    BY <2>1 DEF Given, Carried
  <2>3. ASSUME Live(d, f)' PROVE Live(d, f) /\ inbox'[d][f] = inbox[d][f]
    <3>1. peer'[d][f] # "rst"
      BY <2>3 DEF Live
    <3>2. ~ (d = c /\ f = e)
      BY <1>a, <2>1, <3>1
    <3>3. peer'[d][f] = peer[d][f] /\ inbox'[d][f] = inbox[d][f]
      BY <1>a, <2>1, <3>2
    <3> QED
      BY <2>1, <2>3, <3>3 DEF Live
  <2> QED
    BY <1>b, <2>2, <2>3, FlowQuiet
<1>5. ASSUME NEW c \in Conns, Accept(c) PROVE FlowsKept'
  <2> SUFFICES ASSUME NEW d \in Conns, NEW f \in Ends PROVE FlowKept(d, f)'
    BY DEF FlowsKept
  <2>1. /\ pc[c] = "backlog" /\ pc' = [pc EXCEPT ![c] = "accepted"]
        /\ UNCHANGED <<outcome, peer, sent, inbox, buf, held, out>>
    BY <1>5 DEF Accept, wires, pumps
  <2>2. Carried(d, f)' = Carried(d, f)
    BY <1>a, <1>b, <2>1 DEF Carried, HandlerOrder, PumpOrder
  <2>3. Given(d, f)' = Given(d, f)
    BY <2>1, <2>2 DEF Given
  <2>4. sent'[d][f] = sent[d][f] /\ inbox'[d][f] = inbox[d][f]
    BY <2>1
  <2>5. peer[d][f] = "rst" => peer'[d][f] = "rst"
    BY <1>a, <1>b, <1>c, <2>1 DEF HandlerOrder
  <2>6. Live(d, f)' => Live(d, f)
    BY <1>a, <2>1, <2>5 DEF Live
  <2> QED
    BY <1>b, <2>3, <2>4, <2>6, FlowQuiet
<1>6. ASSUME NEW c \in Conns, Spawn(c) PROVE FlowsKept'
  <2> SUFFICES ASSUME NEW d \in Conns, NEW f \in Ends PROVE FlowKept(d, f)'
    BY DEF FlowsKept
  <2>1. /\ pc[c] = "accepted" /\ pc' = [pc EXCEPT ![c] = "peek"]
        /\ UNCHANGED <<outcome, peer, sent, inbox, buf, held, out>>
    BY <1>6 DEF Spawn, wires, pumps
  <2>2. Carried(d, f)' = Carried(d, f)
    <3>1. CASE d = c
      <4>1. HandlerOrder(c) /\ PumpOrder(c, f)
        BY <1>b
      <4>2. buf[c] = <<>> /\ held[c][f] = <<>>
        BY <2>1, <4>1 DEF HandlerOrder, PumpOrder
      <4> QED
        BY <1>a, <2>1, <3>1, <4>2 DEF Carried
    <3>2. CASE d # c
      BY <1>a, <2>1, <3>2 DEF Carried
    <3> QED
      BY <3>1, <3>2
  <2>3. Given(d, f)' = Given(d, f)
    BY <2>1, <2>2 DEF Given
  <2>4. sent'[d][f] = sent[d][f] /\ inbox'[d][f] = inbox[d][f]
    BY <2>1
  <2>5. peer[d][f] = "rst" => peer'[d][f] = "rst"
    BY <1>a, <1>b, <1>c, <2>1 DEF HandlerOrder
  <2>6. Live(d, f)' => Live(d, f)
    BY <1>a, <2>1, <2>5 DEF Live
  <2> QED
    BY <1>b, <2>3, <2>4, <2>6, FlowQuiet
<1>7. CASE AcceptFails
  <2> SUFFICES ASSUME NEW d \in Conns, NEW f \in Ends PROVE FlowKept(d, f)'
    BY DEF FlowsKept
  <2>1. Given(d, f)' = Given(d, f)
    BY <1>7, <1>a, <1>b, <1>c DEF AcceptFails, handler, wires, pumps, HandlerOrder, PumpOrder, Given, Carried
  <2>2. /\ sent'[d][f] = sent[d][f]
        /\ Live(d, f)' => Live(d, f) /\ inbox'[d][f] = inbox[d][f]
    BY <1>7, <1>a, <1>b, <1>c DEF AcceptFails, handler, wires, pumps, HandlerOrder, PumpOrder, Live
  <2> QED
    BY <1>b, <2>1, <2>2, FlowQuiet
<1>8. CASE AcceptCancelled
  <2> SUFFICES ASSUME NEW d \in Conns, NEW f \in Ends PROVE FlowKept(d, f)'
    BY DEF FlowsKept
  <2>1. Given(d, f)' = Given(d, f)
    BY <1>8, <1>a, <1>b, <1>c DEF AcceptCancelled, handler, wires, pumps, HandlerOrder, PumpOrder, Given, Carried
  <2>2. /\ sent'[d][f] = sent[d][f]
        /\ Live(d, f)' => Live(d, f) /\ inbox'[d][f] = inbox[d][f]
    BY <1>8, <1>a, <1>b, <1>c DEF AcceptCancelled, handler, wires, pumps, HandlerOrder, PumpOrder, Live
  <2> QED
    BY <1>b, <2>1, <2>2, FlowQuiet
<1>9. CASE StopAsync
  <2> SUFFICES ASSUME NEW d \in Conns, NEW f \in Ends PROVE FlowKept(d, f)'
    BY DEF FlowsKept
  <2>1. Given(d, f)' = Given(d, f)
    BY <1>9, <1>a, <1>b, <1>c DEF StopAsync, wires, pumps, HandlerOrder, PumpOrder, Given, Carried
  <2>2. /\ sent'[d][f] = sent[d][f]
        /\ Live(d, f)' => Live(d, f) /\ inbox'[d][f] = inbox[d][f]
    BY <1>9, <1>a, <1>b, <1>c DEF StopAsync, wires, pumps, HandlerOrder, PumpOrder, Live
  <2> QED
    BY <1>b, <2>1, <2>2, FlowQuiet
<1>10. ASSUME NEW c \in Conns, ReadHello(c) PROVE FlowsKept'
  <2> SUFFICES ASSUME NEW d \in Conns, NEW f \in Ends PROVE FlowKept(d, f)'
    BY DEF FlowsKept
  <2>1. PICK n \in 1 .. Len(inbox[c]["client"]) :
           /\ buf' = [buf EXCEPT ![c] = @ \o Taken(inbox[c]["client"], n)]
           /\ inbox' = [inbox EXCEPT ![c]["client"] = Remaining(@, n)]
    BY <1>10 DEF ReadHello
  <2>2. /\ pc[c] = "peek" /\ pc' = [pc EXCEPT ![c] = pc'[c]] /\ pc'[c] \in {"peek", "route"}
        /\ UNCHANGED <<outcome, peer, sent, held, out>>
    BY <1>10, <1>a DEF ReadHello, pumps
  <2>3. CASE d = c /\ f = "client"
    <3> DEFINE t == Taken(inbox[c]["client"], n)
               b == buf[c]
    <3>1. n \in 0 .. Len(inbox[c]["client"]) /\ inbox[c]["client"] \in Seq(Numbers)
      BY <1>a, <1>c, LenProperties
    <3>2. t \in Seq(Numbers) /\ b \in Seq(Numbers)
      BY <1>a, <3>1, ReadSplits
    <3>3. out[c]["client"] = <<>> /\ out'[c]["client"] = <<>> /\ buf'[c] = b \o t
      BY <1>a, <1>b, <1>c, <2>1, <2>2 DEF HandlerOrder
    <3>4. Given(d, f) = <<>> \o b /\ Given(d, f)' = <<>> \o (b \o t)
      BY <2>2, <2>3, <3>3 DEF Given, Carried
    <3>5. /\ inbox'[d][f] = Remaining(inbox[d][f], n) /\ sent'[d][f] = sent[d][f]
          /\ t = Taken(inbox[d][f], n) /\ n \in 1 .. Len(inbox[d][f])
      BY <1>a, <1>c, <2>1, <2>2, <2>3
    <3>6. Live(d, f)
      BY <1>b, <2>2, <2>3 DEF Live, PumpOrder
    <3> HIDE DEF t, b
    <3>7. <<>> \o b = b
      BY <3>2, ConcatEmptySeq
    <3>8. b \o t \in Seq(Numbers)
      BY <3>2, ConcatProperties
    <3>9. <<>> \o (b \o t) = b \o t
      BY <3>8, ConcatEmptySeq
    <3>10. Given(d, f)' = Given(d, f) \o t
      BY <3>4, <3>7, <3>9
    <3>11. Given(d, f)' = Given(d, f) \o Taken(inbox[d][f], n)
      BY <3>5, <3>10
    <3> QED
      BY <1>b, <3>5, <3>6, <3>11, FlowRead
  <2>4. CASE ~ (d = c /\ f = "client")
    <3>1. Given(d, f)' = Given(d, f) /\ (Live(d, f)' => Live(d, f))
      BY <1>a, <2>1, <2>2, <2>4 DEF Given, Carried, Live
    <3>2. sent'[d][f] = sent[d][f] /\ inbox'[d][f] = inbox[d][f]
      BY <1>a, <1>c, <2>1, <2>2, <2>4
    <3> QED
      BY <1>b, <3>1, <3>2, FlowQuiet
  <2> QED
    BY <2>3, <2>4
<1>11. ASSUME NEW c \in Conns, HelloEnds(c) PROVE FlowsKept'
  <2> SUFFICES ASSUME NEW d \in Conns, NEW f \in Ends PROVE FlowKept(d, f)'
    BY DEF FlowsKept
  <2>1. /\ pc[c] = "peek" /\ pc' = [pc EXCEPT ![c] = "route"]
        /\ UNCHANGED <<outcome, peer, sent, inbox, buf, held, out>>
    BY <1>11 DEF HelloEnds, service, wires, pumps
  <2>2. Carried(d, f)' = Carried(d, f)
    BY <1>a, <1>b, <2>1 DEF Carried, HandlerOrder, PumpOrder
  <2>3. Given(d, f)' = Given(d, f)
    BY <2>1, <2>2 DEF Given
  <2>4. sent'[d][f] = sent[d][f] /\ inbox'[d][f] = inbox[d][f]
    BY <2>1
  <2>5. peer[d][f] = "rst" => peer'[d][f] = "rst"
    BY <1>a, <1>b, <1>c, <2>1 DEF HandlerOrder
  <2>6. Live(d, f)' => Live(d, f)
    BY <1>a, <2>1, <2>5 DEF Live
  <2> QED
    BY <1>b, <2>3, <2>4, <2>6, FlowQuiet
<1>12. ASSUME NEW c \in Conns, HelloFails(c) PROVE FlowsKept'
  <2>1. /\ pc[c] \in {"peek", "route", "connect", "replay"}
        /\ pc' = [pc EXCEPT ![c] = "done"] /\ outcome'[c] # "bridged"
        /\ UNCHANGED <<wires, buf, held, out>>
        /\ \A d \in Conns \ {c} : outcome'[d] = outcome[d]
    BY <1>12, <1>a DEF HelloFails, Done, pumps
  <2> QED
    BY <2>1, NothingWritten, PeekDropped
<1>13. ASSUME NEW c \in Conns, RefuseNoSni(c) PROVE FlowsKept'
  <2>1. /\ pc[c] \in {"peek", "route", "connect", "replay"}
        /\ pc' = [pc EXCEPT ![c] = "done"] /\ outcome'[c] # "bridged"
        /\ UNCHANGED <<wires, buf, held, out>>
        /\ \A d \in Conns \ {c} : outcome'[d] = outcome[d]
    BY <1>13, <1>a DEF RefuseNoSni, Done, pumps
  <2> QED
    BY <2>1, NothingWritten, PeekDropped
<1>14. ASSUME NEW c \in Conns, RefuseSni(c) PROVE FlowsKept'
  <2>1. /\ pc[c] \in {"peek", "route", "connect", "replay"}
        /\ pc' = [pc EXCEPT ![c] = "done"] /\ outcome'[c] # "bridged"
        /\ UNCHANGED <<wires, buf, held, out>>
        /\ \A d \in Conns \ {c} : outcome'[d] = outcome[d]
    BY <1>14, <1>a DEF RefuseSni, Done, pumps
  <2> QED
    BY <2>1, NothingWritten, PeekDropped
<1>15. ASSUME NEW c \in Conns, RouteSni(c) PROVE FlowsKept'
  <2> SUFFICES ASSUME NEW d \in Conns, NEW f \in Ends PROVE FlowKept(d, f)'
    BY DEF FlowsKept
  <2>1. /\ pc[c] = "route" /\ pc' = [pc EXCEPT ![c] = "connect"]
        /\ UNCHANGED <<outcome, peer, sent, inbox, buf, held, out>>
    BY <1>15 DEF RouteSni, service, wires, pumps
  <2>2. Carried(d, f)' = Carried(d, f)
    BY <1>a, <1>b, <2>1 DEF Carried, HandlerOrder, PumpOrder
  <2>3. Given(d, f)' = Given(d, f)
    BY <2>1, <2>2 DEF Given
  <2>4. sent'[d][f] = sent[d][f] /\ inbox'[d][f] = inbox[d][f]
    BY <2>1
  <2>5. peer[d][f] = "rst" => peer'[d][f] = "rst"
    BY <1>a, <1>b, <1>c, <2>1 DEF HandlerOrder
  <2>6. Live(d, f)' => Live(d, f)
    BY <1>a, <2>1, <2>5 DEF Live
  <2> QED
    BY <1>b, <2>3, <2>4, <2>6, FlowQuiet
<1>16. ASSUME NEW c \in Conns, ConnectBackend(c) PROVE FlowsKept'
  <2> SUFFICES ASSUME NEW d \in Conns, NEW f \in Ends PROVE FlowKept(d, f)'
    BY DEF FlowsKept
  <2>1. /\ pc[c] = "connect" /\ pc' = [pc EXCEPT ![c] = "replay"]
        /\ UNCHANGED <<outcome, sent, inbox, buf, held, out>>
        /\ peer' = [peer EXCEPT ![c]["backend"] = "open"]
    BY <1>16 DEF ConnectBackend, service, pumps
  <2>2. Carried(d, f)' = Carried(d, f)
    BY <1>a, <1>b, <2>1 DEF Carried, HandlerOrder, PumpOrder
  <2>3. Given(d, f)' = Given(d, f)
    BY <2>1, <2>2 DEF Given
  <2>4. sent'[d][f] = sent[d][f] /\ inbox'[d][f] = inbox[d][f]
    BY <2>1
  <2>5. peer[d][f] = "rst" => peer'[d][f] = "rst"
    BY <1>a, <1>b, <1>c, <2>1 DEF HandlerOrder
  <2>6. Live(d, f)' => Live(d, f)
    BY <1>a, <2>1, <2>5 DEF Live
  <2> QED
    BY <1>b, <2>3, <2>4, <2>6, FlowQuiet
<1>17. ASSUME NEW c \in Conns, ConnectFails(c) PROVE FlowsKept'
  <2>1. /\ pc[c] \in {"peek", "route", "connect", "replay"}
        /\ pc' = [pc EXCEPT ![c] = "done"] /\ outcome'[c] # "bridged"
        /\ UNCHANGED <<wires, buf, held, out>>
        /\ \A d \in Conns \ {c} : outcome'[d] = outcome[d]
    BY <1>17, <1>a DEF ConnectFails, Done, pumps
  <2> QED
    BY <2>1, NothingWritten, PeekDropped
<1>18. ASSUME NEW c \in Conns, ReplayHello(c) PROVE FlowsKept'
  <2> SUFFICES ASSUME NEW d \in Conns, NEW f \in Ends PROVE FlowKept(d, f)'
    BY DEF FlowsKept
  <2>1. /\ pc[c] = "replay" /\ pc' = [pc EXCEPT ![c] = "pump"]
        /\ out' = [out EXCEPT ![c]["client"] = buf[c]]
        /\ UNCHANGED <<outcome, wires, buf, held>>
    BY <1>18 DEF ReplayHello
  <2>2. Given(d, f)' = Given(d, f)
    <3>1. CASE d = c /\ f = "client"
      <4> DEFINE b == buf[c]
      <4>1. b \in Seq(Numbers)
        BY <1>a
      <4>2. out[c]["client"] = <<>> /\ held[c]["client"] = <<>>
        BY <1>b, <1>c, <2>1 DEF HandlerOrder, PumpOrder
      <4>3. Given(d, f) = <<>> \o b /\ Given(d, f)' = b \o <<>>
        BY <1>a, <1>c, <2>1, <3>1, <4>2 DEF Given, Carried
      <4> HIDE DEF b
      <4>4. b \o <<>> = b /\ <<>> \o b = b
        BY <4>1, ConcatEmptySeq
      <4> QED
        BY <4>3, <4>4
    <3>2. CASE ~ (d = c /\ f = "client")
      BY <1>a, <1>c, <2>1, <3>2 DEF Given, Carried
    <3> QED
      BY <3>1, <3>2
  <2>3. /\ sent'[d][f] = sent[d][f] /\ inbox'[d][f] = inbox[d][f]
        /\ Live(d, f)' => Live(d, f)
    BY <1>a, <2>1 DEF wires, Live
  <2> QED
    BY <1>b, <2>2, <2>3, FlowQuiet
<1>19. ASSUME NEW c \in Conns, ReplayFails(c) PROVE FlowsKept'
  <2>1. /\ pc[c] \in {"peek", "route", "connect", "replay"}
        /\ pc' = [pc EXCEPT ![c] = "done"] /\ outcome'[c] # "bridged"
        /\ UNCHANGED <<wires, buf, held, out>>
        /\ \A d \in Conns \ {c} : outcome'[d] = outcome[d]
    BY <1>19, <1>a DEF ReplayFails, Done, pumps
  <2> QED
    BY <2>1, NothingWritten, PeekDropped
<1>20. ASSUME NEW c \in Conns, HandlerCancelled(c) PROVE FlowsKept'
  <2>1. PICK n \in 0 .. Len(buf[c]) :
           out' = [out EXCEPT ![c]["client"] = Taken(buf[c], n)]
    <3>1. 0 \in 0 .. Len(buf[c])
      BY <1>a, LenProperties
    <3> QED
      BY <1>20, <3>1 DEF HandlerCancelled
  <2>2. /\ pc[c] \in {"peek", "route", "connect", "replay"}
        /\ pc' = [pc EXCEPT ![c] = "done"] /\ outcome'[c] # "bridged"
        /\ UNCHANGED <<wires, buf, held>>
        /\ \A d \in Conns \ {c} : outcome'[d] = outcome[d]
    BY <1>20, <1>a DEF HandlerCancelled, Done, pumps
  <2> QED
    BY <2>1, <2>2, PeekDropped
<1>21. ASSUME NEW c \in Conns, NEW e \in Ends, PumpReads(c, e) PROVE FlowsKept'
  <2> SUFFICES ASSUME NEW d \in Conns, NEW f \in Ends PROVE FlowKept(d, f)'
    BY DEF FlowsKept
  <2>1. PICK n \in 1 .. Len(inbox[c][e]) :
           /\ held' = [held EXCEPT ![c][e] = Taken(inbox[c][e], n)]
           /\ inbox' = [inbox EXCEPT ![c][e] = Remaining(@, n)]
    BY <1>21 DEF PumpReads
  <2>2. /\ pump[c][e] = "reading" /\ pc[c] = "pump" /\ held[c][e] = <<>>
        /\ UNCHANGED <<pc, outcome, peer, sent, buf, out>>
    BY <1>21, <1>b DEF PumpReads, handler, PumpOrder
  <2>3. CASE d = c /\ f = e
    <3> DEFINE t == Taken(inbox[c][e], n)
               o == out[c][e]
    <3>1. /\ n \in 0 .. Len(inbox[c][e]) /\ inbox[c][e] \in Seq(Numbers)
          /\ Len(inbox[c][e]) \in Nat
      BY <1>a, LenProperties
    <3>2. t \in Seq(Numbers) /\ o \in Seq(Numbers)
      BY <1>a, <3>1, ReadSplits
    <3>3. Given(d, f) = o \o <<>> /\ Given(d, f)' = o \o t
      BY <1>a, <2>1, <2>2, <2>3 DEF Given, Carried
    <3>4. /\ inbox'[d][f] = Remaining(inbox[d][f], n) /\ sent'[d][f] = sent[d][f]
          /\ t = Taken(inbox[d][f], n) /\ n \in 1 .. Len(inbox[d][f])
      BY <1>a, <2>1, <2>2, <2>3
    <3>5. peer[c][e] # "rst"
      <4>1. inbox[c][e] # <<>>
        BY <3>1
      <4> QED
        BY <1>b, <4>1 DEF PumpOrder
    <3>6. Live(d, f)
      BY <2>2, <2>3, <3>5 DEF Live
    <3> HIDE DEF t, o
    <3>7. o \o <<>> = o
      BY <3>2, ConcatEmptySeq
    <3>8. Given(d, f)' = Given(d, f) \o Taken(inbox[d][f], n)
      BY <3>3, <3>4, <3>7
    <3> QED
      BY <1>b, <3>4, <3>6, <3>8, FlowRead
  <2>4. CASE ~ (d = c /\ f = e)
    <3>1. Given(d, f)' = Given(d, f) /\ (Live(d, f)' => Live(d, f))
      BY <1>a, <2>1, <2>2, <2>4 DEF Given, Carried, Live
    <3>2. sent'[d][f] = sent[d][f] /\ inbox'[d][f] = inbox[d][f]
      BY <1>a, <2>1, <2>2, <2>4
    <3> QED
      BY <1>b, <3>1, <3>2, FlowQuiet
  <2> QED
    BY <2>3, <2>4
<1>22. ASSUME NEW c \in Conns, NEW e \in Ends, PumpWrites(c, e) PROVE FlowsKept'
  <2> SUFFICES ASSUME NEW d \in Conns, NEW f \in Ends PROVE FlowKept(d, f)'
    BY DEF FlowsKept
  <2>1. /\ pump[c][e] = "writing" /\ pc[c] = "pump"
        /\ out' = [out EXCEPT ![c][e] = @ \o held[c][e]]
        /\ held' = [held EXCEPT ![c][e] = <<>>]
        /\ UNCHANGED <<pc, outcome, wires, buf>>
    BY <1>22, <1>b DEF PumpWrites, handler, PumpOrder
  <2>2. Given(d, f)' = Given(d, f)
    <3>1. CASE d = c /\ f = e
      <4> DEFINE g == out[c][e] \o held[c][e]
      <4>1. g \in Seq(Numbers)
        BY <1>a, ConcatProperties
      <4>2. Given(d, f) = g /\ Given(d, f)' = g \o <<>>
        BY <1>a, <2>1, <3>1 DEF Given, Carried
      <4> HIDE DEF g
      <4>3. g \o <<>> = g
        BY <4>1, ConcatEmptySeq
      <4> QED
        BY <4>2, <4>3
    <3>2. CASE ~ (d = c /\ f = e)
      BY <1>a, <2>1, <3>2 DEF Given, Carried
    <3> QED
      BY <3>1, <3>2
  <2>3. /\ sent'[d][f] = sent[d][f] /\ inbox'[d][f] = inbox[d][f]
        /\ Live(d, f)' => Live(d, f)
    BY <2>1 DEF wires, Live
  <2> QED
    BY <1>b, <2>2, <2>3, FlowQuiet
<1>23. ASSUME NEW c \in Conns, NEW e \in Ends, PumpAtEof(c, e) PROVE FlowsKept'
  <2> SUFFICES ASSUME NEW d \in Conns, NEW f \in Ends PROVE FlowKept(d, f)'
    BY DEF FlowsKept
  <2>1. Given(d, f)' = Given(d, f)
    BY <1>23, <1>a, <1>b, <1>c DEF PumpAtEof, EndPump, service, handler, wires, HandlerOrder, PumpOrder, Given, Carried
  <2>2. /\ sent'[d][f] = sent[d][f]
        /\ Live(d, f)' => Live(d, f) /\ inbox'[d][f] = inbox[d][f]
    BY <1>23, <1>a, <1>b, <1>c DEF PumpAtEof, EndPump, service, handler, wires, HandlerOrder, PumpOrder, Live
  <2> QED
    BY <1>b, <2>1, <2>2, FlowQuiet
<1>24. ASSUME NEW c \in Conns, NEW e \in Ends, PumpFails(c, e) PROVE FlowsKept'
  <2> SUFFICES ASSUME NEW d \in Conns, NEW f \in Ends PROVE FlowKept(d, f)'
    BY DEF FlowsKept
  <2>1. Given(d, f)' = Given(d, f)
    BY <1>24, <1>a, <1>b, <1>c DEF PumpFails, EndPump, service, handler, wires, HandlerOrder, PumpOrder, Given, Carried
  <2>2. /\ sent'[d][f] = sent[d][f]
        /\ Live(d, f)' => Live(d, f) /\ inbox'[d][f] = inbox[d][f]
    BY <1>24, <1>a, <1>b, <1>c DEF PumpFails, EndPump, service, handler, wires, HandlerOrder, PumpOrder, Live
  <2> QED
    BY <1>b, <2>1, <2>2, FlowQuiet
<1>25. ASSUME NEW c \in Conns, NEW e \in Ends, PumpCancelled(c, e) PROVE FlowsKept'
  <2> SUFFICES ASSUME NEW d \in Conns, NEW f \in Ends PROVE FlowKept(d, f)'
    BY DEF FlowsKept
  <2>1. PICK n \in 0 .. Len(held[c][e]) :
           /\ out' = [out EXCEPT ![c][e] = @ \o Taken(held[c][e], n)]
           /\ held' = [held EXCEPT ![c][e] = Remaining(@, n)]
    BY <1>25 DEF PumpCancelled
  <2>2. pc[c] = "pump" /\ UNCHANGED <<pc, outcome, wires, buf>>
    BY <1>25, <1>b DEF PumpCancelled, handler, PumpOrder
  <2>3. Given(d, f)' = Given(d, f)
    <3>1. CASE d = c /\ f = e
      <4> DEFINE o == out[c][e]
                 h == held[c][e]
                 t == Taken(h, n)
                 r == Remaining(h, n)
      <4>1. /\ o \in Seq(Numbers) /\ t \in Seq(Numbers) /\ r \in Seq(Numbers)
            /\ t \o r = h
        BY <1>a, ReadSplits
      <4>2. Given(d, f) = o \o h /\ Given(d, f)' = (o \o t) \o r
        BY <1>a, <2>1, <2>2, <3>1 DEF Given, Carried
      <4> HIDE DEF o, h, t, r
      <4>3. o \in Seq(Numbers) /\ t \in Seq(Numbers) /\ r \in Seq(Numbers)
        BY <4>1
      <4>4. (o \o t) \o r = o \o (t \o r)
        BY ONLY <4>3, ConcatAssociative
      <4> QED
        BY <4>1, <4>2, <4>4
    <3>2. CASE ~ (d = c /\ f = e)
      BY <1>a, <2>1, <2>2, <3>2 DEF Given, Carried
    <3> QED
      BY <3>1, <3>2
  <2>4. /\ sent'[d][f] = sent[d][f] /\ inbox'[d][f] = inbox[d][f]
        /\ Live(d, f)' => Live(d, f)
    BY <2>2 DEF wires, Live
  <2> QED
    BY <1>b, <2>3, <2>4, FlowQuiet
<1>26. ASSUME NEW c \in Conns, CancelPumps(c) PROVE FlowsKept'
  <2> SUFFICES ASSUME NEW d \in Conns, NEW f \in Ends PROVE FlowKept(d, f)'
    BY DEF FlowsKept
  <2>1. Given(d, f)' = Given(d, f)
    BY <1>26, <1>a, <1>b, <1>c DEF CancelPumps, service, handler, wires, HandlerOrder, PumpOrder, Given, Carried
  <2>2. /\ sent'[d][f] = sent[d][f]
        /\ Live(d, f)' => Live(d, f) /\ inbox'[d][f] = inbox[d][f]
    BY <1>26, <1>a, <1>b, <1>c DEF CancelPumps, service, handler, wires, HandlerOrder, PumpOrder, Live
  <2> QED
    BY <1>b, <2>1, <2>2, FlowQuiet
<1>27. ASSUME NEW c \in Conns, FinishBridge(c) PROVE FlowsKept'
  <2> SUFFICES ASSUME NEW d \in Conns, NEW f \in Ends PROVE FlowKept(d, f)'
    BY DEF FlowsKept
  <2>1. /\ pc[c] = "pump" /\ pc' = [pc EXCEPT ![c] = "done"]
        /\ UNCHANGED <<peer, sent, inbox, buf, held, out>>
        /\ outcome' = [outcome EXCEPT ![c] = "bridged"]
    BY <1>27 DEF FinishBridge, Done, service, wires, pumps
  <2>2. Carried(d, f)' = Carried(d, f)
    BY <1>a, <1>b, <2>1 DEF Carried, HandlerOrder, PumpOrder
  <2>3. Given(d, f)' = Given(d, f)
    BY <2>1, <2>2 DEF Given
  <2>4. sent'[d][f] = sent[d][f] /\ inbox'[d][f] = inbox[d][f]
    BY <2>1
  <2>5. peer[d][f] = "rst" => peer'[d][f] = "rst"
    BY <1>a, <1>b, <1>c, <2>1 DEF HandlerOrder
  <2>6. Live(d, f)' => Live(d, f)
    BY <1>a, <2>1, <2>5 DEF Live
  <2> QED
    BY <1>b, <2>3, <2>4, <2>6, FlowQuiet
<1>28. CASE UNCHANGED vars
  BY <1>28 DEF vars, service, handler, wires, pumps, FlowsKept, FlowKept, Given, Carried, Live
<1> QED
  BY <1>1, <1>2, <1>3, <1>4, <1>5, <1>6, <1>7, <1>8, <1>9, <1>10, <1>11, <1>12,
     <1>13, <1>14, <1>15, <1>16, <1>17, <1>18, <1>19, <1>20, <1>21, <1>22, <1>23,
     <1>24, <1>25, <1>26, <1>27, <1>28
  DEF Next, AcceptStep, EndStep, HandlerStep, PumpStep

-----------------------------------------------------------------------------
(* Routing: a target is an owner, a refused name has none.                  *)

LEMMA RoutedStep ==
  ASSUME TypeOK, HandlersInOrder, RoutedToOwner, [Next]_vars
  PROVE  RoutedToOwner'
<1> SUFFICES ASSUME NEW d \in Conns PROVE Routed(d)'
  BY DEF RoutedToOwner
<1>a. /\ pc \in [Conns -> Points] /\ outcome \in [Conns -> Outcomes]
      /\ target \in [Conns -> Endpoints \cup {NoBackend}]
  BY DEF TypeOK
<1>b. Routed(d) /\ hello[d] \in Hellos /\ (pc[d] # "done" => outcome[d] = "none")
  BY DEF RoutedToOwner, TypeOK, HandlersInOrder, HandlerOrder
<1>1. ASSUME NEW c \in Conns, ClientConnects(c) PROVE Routed(d)'
  BY <1>1, <1>a, <1>b DEF ClientConnects, service, pumps, Routed
<1>2. ASSUME NEW c \in Conns, NEW e \in Ends, Send(c, e) PROVE Routed(d)'
  BY <1>2, <1>a, <1>b DEF Send, service, handler, pumps, Routed
<1>3. ASSUME NEW c \in Conns, NEW e \in Ends, Close(c, e) PROVE Routed(d)'
  BY <1>3, <1>a, <1>b DEF Close, service, handler, pumps, Routed
<1>4. ASSUME NEW c \in Conns, NEW e \in Ends, Reset(c, e) PROVE Routed(d)'
  BY <1>4, <1>a, <1>b DEF Reset, service, handler, pumps, Routed
<1>5. ASSUME NEW c \in Conns, Accept(c) PROVE Routed(d)'
  BY <1>5, <1>a, <1>b DEF Accept, wires, pumps, Routed
<1>6. ASSUME NEW c \in Conns, Spawn(c) PROVE Routed(d)'
  BY <1>6, <1>a, <1>b DEF Spawn, wires, pumps, Routed
<1>7. CASE AcceptFails
  BY <1>7, <1>a, <1>b DEF AcceptFails, handler, wires, pumps, Routed
<1>8. CASE AcceptCancelled
  BY <1>8, <1>a, <1>b DEF AcceptCancelled, handler, wires, pumps, Routed
<1>9. CASE StopAsync
  BY <1>9, <1>a, <1>b DEF StopAsync, wires, pumps, Routed
<1>10. ASSUME NEW c \in Conns, ReadHello(c) PROVE Routed(d)'
  BY <1>10, <1>a, <1>b DEF ReadHello, service, pumps, Routed
<1>11. ASSUME NEW c \in Conns, HelloEnds(c) PROVE Routed(d)'
  BY <1>11, <1>a, <1>b DEF HelloEnds, service, wires, pumps, Routed
<1>12. ASSUME NEW c \in Conns, HelloFails(c) PROVE Routed(d)'
  BY <1>12, <1>a, <1>b DEF HelloFails, Done, service, wires, pumps, Routed
<1>13. ASSUME NEW c \in Conns, RefuseNoSni(c) PROVE Routed(d)'
  BY <1>13, <1>a, <1>b DEF RefuseNoSni, Done, service, wires, pumps, Routed
<1>14. ASSUME NEW c \in Conns, RefuseSni(c) PROVE Routed(d)'
  <2>1. CASE d = c
    <3>1. hello' = hello /\ pc'[d] = "done" /\ target' = target
      BY <1>a, <1>14, <2>1 DEF RefuseSni, Done
    <3>2. \A i \in DOMAIN RouteTable :
             ~ IsBlank(RouteTable[i].tenant) => ~ Serves(RouteTable[i], hello[d].host)
      BY <1>14, <1>b, <2>1, RefusalHasNoOwner DEF RefuseSni, Tenant
    <3> QED
      BY <3>1, <3>2 DEF Routed
  <2>2. CASE d # c
    BY <1>14, <1>a, <1>b, <2>2 DEF RefuseSni, Done, Routed
  <2> QED
    BY <2>1, <2>2
<1>15. ASSUME NEW c \in Conns, RouteSni(c) PROVE Routed(d)'
  <2>1. CASE d = c
    <3>1. target'[d] \in Owners(hello[d]) /\ target'[d] \in Endpoints
      BY <1>15, <1>a, <1>b, <2>1, RouteFindsOwner DEF RouteSni, Tenant
    <3>2. hello' = hello /\ outcome' = outcome /\ outcome[d] = "none"
      BY <1>15, <1>b, <2>1 DEF RouteSni
    <3> QED
      BY <3>1, <3>2 DEF Routed
  <2>2. CASE d # c
    BY <1>15, <1>a, <1>b, <2>2 DEF RouteSni, Routed
  <2> QED
    BY <2>1, <2>2
<1>16. ASSUME NEW c \in Conns, ConnectBackend(c) PROVE Routed(d)'
  BY <1>16, <1>a, <1>b DEF ConnectBackend, service, pumps, Routed
<1>17. ASSUME NEW c \in Conns, ConnectFails(c) PROVE Routed(d)'
  BY <1>17, <1>a, <1>b DEF ConnectFails, Done, service, wires, pumps, Routed
<1>18. ASSUME NEW c \in Conns, ReplayHello(c) PROVE Routed(d)'
  BY <1>18, <1>a, <1>b DEF ReplayHello, service, wires, Routed
<1>19. ASSUME NEW c \in Conns, ReplayFails(c) PROVE Routed(d)'
  BY <1>19, <1>a, <1>b DEF ReplayFails, Done, service, wires, pumps, Routed
<1>20. ASSUME NEW c \in Conns, HandlerCancelled(c) PROVE Routed(d)'
  BY <1>20, <1>a, <1>b DEF HandlerCancelled, Done, service, wires, pumps, Routed
<1>21. ASSUME NEW c \in Conns, NEW e \in Ends, PumpReads(c, e) PROVE Routed(d)'
  BY <1>21, <1>a, <1>b DEF PumpReads, service, handler, Routed
<1>22. ASSUME NEW c \in Conns, NEW e \in Ends, PumpWrites(c, e) PROVE Routed(d)'
  BY <1>22, <1>a, <1>b DEF PumpWrites, service, handler, wires, Routed
<1>23. ASSUME NEW c \in Conns, NEW e \in Ends, PumpAtEof(c, e) PROVE Routed(d)'
  BY <1>23, <1>a, <1>b DEF PumpAtEof, EndPump, service, handler, wires, Routed
<1>24. ASSUME NEW c \in Conns, NEW e \in Ends, PumpFails(c, e) PROVE Routed(d)'
  BY <1>24, <1>a, <1>b DEF PumpFails, EndPump, service, handler, wires, Routed
<1>25. ASSUME NEW c \in Conns, NEW e \in Ends, PumpCancelled(c, e) PROVE Routed(d)'
  BY <1>25, <1>a, <1>b DEF PumpCancelled, EndPump, service, handler, wires, Routed
<1>26. ASSUME NEW c \in Conns, CancelPumps(c) PROVE Routed(d)'
  BY <1>26, <1>a, <1>b DEF CancelPumps, service, handler, wires, Routed
<1>27. ASSUME NEW c \in Conns, FinishBridge(c) PROVE Routed(d)'
  BY <1>27, <1>a, <1>b DEF FinishBridge, Done, service, wires, pumps, Routed
<1>28. CASE UNCHANGED vars
  BY <1>28, <1>a, <1>b DEF vars, handler, Routed
<1> QED
  BY <1>1, <1>2, <1>3, <1>4, <1>5, <1>6, <1>7, <1>8, <1>9, <1>10, <1>11, <1>12,
     <1>13, <1>14, <1>15, <1>16, <1>17, <1>18, <1>19, <1>20, <1>21, <1>22, <1>23,
     <1>24, <1>25, <1>26, <1>27, <1>28
  DEF Next, AcceptStep, EndStep, HandlerStep, PumpStep

-----------------------------------------------------------------------------
(* Why pumps end.                                                          *)

LEMMA ReasonsStep ==
  ASSUME TypeOK, HandlersInOrder, PumpsInOrder, EndsHaveReasons, [Next]_vars
  PROVE  EndsHaveReasons'
<1> SUFFICES ASSUME ~ stopped', NEW d \in Conns PROVE EndReason(d)'
  BY DEF EndsHaveReasons
<1>a. /\ peer \in [Conns -> [Ends -> {"none", "open", "fin", "rst"}]]
      /\ held \in [Conns -> [Ends -> Seq(Numbers)]]
      /\ inbox \in [Conns -> [Ends -> Seq(Numbers)]]
      /\ pump \in [Conns -> [Ends -> {"idle", "reading", "writing", "ended"}]]
      /\ linkCancelled \in [Conns -> BOOLEAN]
  BY DEF TypeOK
<1>b. HandlerOrder(d) /\ \A f \in Ends : PumpOrder(d, f)
  BY DEF HandlersInOrder, PumpsInOrder
<1>c. "client" \in Ends /\ "backend" \in Ends
  BY DEF Ends
<1>d. ~ stopped => EndReason(d)
  BY DEF EndsHaveReasons
<1>1. ASSUME NEW c \in Conns, ClientConnects(c) PROVE EndReason(d)'
  BY <1>1, <1>a, <1>b, <1>c, <1>d DEF ClientConnects, service, pumps, EndReason, EndedItself, HandlerOrder, PumpOrder
<1>2. ASSUME NEW c \in Conns, NEW e \in Ends, Send(c, e) PROVE EndReason(d)'
  BY <1>2, <1>a, <1>b, <1>c, <1>d DEF Send, service, handler, pumps, EndReason, EndedItself, HandlerOrder, PumpOrder
<1>3. ASSUME NEW c \in Conns, NEW e \in Ends, Close(c, e) PROVE EndReason(d)'
  BY <1>3, <1>a, <1>b, <1>c, <1>d DEF Close, service, handler, pumps, EndReason, EndedItself, HandlerOrder, PumpOrder
<1>4. ASSUME NEW c \in Conns, NEW e \in Ends, Reset(c, e) PROVE EndReason(d)'
  BY <1>4, <1>a, <1>b, <1>c, <1>d DEF Reset, service, handler, pumps, EndReason, EndedItself, HandlerOrder, PumpOrder
<1>5. ASSUME NEW c \in Conns, Accept(c) PROVE EndReason(d)'
  BY <1>5, <1>a, <1>b, <1>c, <1>d DEF Accept, wires, pumps, EndReason, EndedItself, HandlerOrder, PumpOrder
<1>6. ASSUME NEW c \in Conns, Spawn(c) PROVE EndReason(d)'
  BY <1>6, <1>a, <1>b, <1>c, <1>d DEF Spawn, wires, pumps, EndReason, EndedItself, HandlerOrder, PumpOrder
<1>7. CASE AcceptFails
  BY <1>7, <1>a, <1>b, <1>c, <1>d DEF AcceptFails, handler, wires, pumps, EndReason, EndedItself, HandlerOrder, PumpOrder
<1>8. CASE AcceptCancelled
  BY <1>8, <1>a, <1>b, <1>c, <1>d DEF AcceptCancelled, handler, wires, pumps, EndReason, EndedItself, HandlerOrder, PumpOrder
<1>9. CASE StopAsync
  BY <1>9, <1>a, <1>b, <1>c, <1>d DEF StopAsync, wires, pumps, EndReason, EndedItself, HandlerOrder, PumpOrder
<1>10. ASSUME NEW c \in Conns, ReadHello(c) PROVE EndReason(d)'
  BY <1>10, <1>a, <1>b, <1>c, <1>d DEF ReadHello, service, pumps, EndReason, EndedItself, HandlerOrder, PumpOrder
<1>11. ASSUME NEW c \in Conns, HelloEnds(c) PROVE EndReason(d)'
  BY <1>11, <1>a, <1>b, <1>c, <1>d DEF HelloEnds, service, wires, pumps, EndReason, EndedItself, HandlerOrder, PumpOrder
<1>12. ASSUME NEW c \in Conns, HelloFails(c) PROVE EndReason(d)'
  BY <1>12, <1>a, <1>b, <1>c, <1>d DEF HelloFails, Done, service, wires, pumps, EndReason, EndedItself, HandlerOrder, PumpOrder
<1>13. ASSUME NEW c \in Conns, RefuseNoSni(c) PROVE EndReason(d)'
  BY <1>13, <1>a, <1>b, <1>c, <1>d DEF RefuseNoSni, Done, service, wires, pumps, EndReason, EndedItself, HandlerOrder, PumpOrder
<1>14. ASSUME NEW c \in Conns, RefuseSni(c) PROVE EndReason(d)'
  BY <1>14, <1>a, <1>b, <1>c, <1>d DEF RefuseSni, Done, service, wires, pumps, EndReason, EndedItself, HandlerOrder, PumpOrder
<1>15. ASSUME NEW c \in Conns, RouteSni(c) PROVE EndReason(d)'
  BY <1>15, <1>a, <1>b, <1>c, <1>d DEF RouteSni, service, wires, pumps, EndReason, EndedItself, HandlerOrder, PumpOrder
<1>16. ASSUME NEW c \in Conns, ConnectBackend(c) PROVE EndReason(d)'
  BY <1>16, <1>a, <1>b, <1>c, <1>d DEF ConnectBackend, service, pumps, EndReason, EndedItself, HandlerOrder, PumpOrder
<1>17. ASSUME NEW c \in Conns, ConnectFails(c) PROVE EndReason(d)'
  BY <1>17, <1>a, <1>b, <1>c, <1>d DEF ConnectFails, Done, service, wires, pumps, EndReason, EndedItself, HandlerOrder, PumpOrder
<1>18. ASSUME NEW c \in Conns, ReplayHello(c) PROVE EndReason(d)'
  BY <1>18, <1>a, <1>b, <1>c, <1>d DEF ReplayHello, service, wires, EndReason, EndedItself, HandlerOrder, PumpOrder
<1>19. ASSUME NEW c \in Conns, ReplayFails(c) PROVE EndReason(d)'
  BY <1>19, <1>a, <1>b, <1>c, <1>d DEF ReplayFails, Done, service, wires, pumps, EndReason, EndedItself, HandlerOrder, PumpOrder
<1>20. ASSUME NEW c \in Conns, HandlerCancelled(c) PROVE EndReason(d)'
  BY <1>20, <1>a, <1>b, <1>c, <1>d DEF HandlerCancelled, Done, service, wires, pumps, EndReason, EndedItself, HandlerOrder, PumpOrder
<1>21. ASSUME NEW c \in Conns, NEW e \in Ends, PumpReads(c, e) PROVE EndReason(d)'
  BY <1>21, <1>a, <1>b, <1>c, <1>d DEF PumpReads, service, handler, EndReason, EndedItself, HandlerOrder, PumpOrder
<1>22. ASSUME NEW c \in Conns, NEW e \in Ends, PumpWrites(c, e) PROVE EndReason(d)'
  BY <1>22, <1>a, <1>b, <1>c, <1>d DEF PumpWrites, service, handler, wires, EndReason, EndedItself, HandlerOrder, PumpOrder
<1>23. ASSUME NEW c \in Conns, NEW e \in Ends, PumpAtEof(c, e) PROVE EndReason(d)'
  BY <1>23, <1>a, <1>b, <1>c, <1>d DEF PumpAtEof, EndPump, service, handler, wires, EndReason, EndedItself, HandlerOrder, PumpOrder
<1>24. ASSUME NEW c \in Conns, NEW e \in Ends, PumpFails(c, e) PROVE EndReason(d)'
  BY <1>24, <1>a, <1>b, <1>c, <1>d DEF PumpFails, EndPump, service, handler, wires, EndReason, EndedItself, HandlerOrder, PumpOrder, Other
<1>25. ASSUME NEW c \in Conns, NEW e \in Ends, PumpCancelled(c, e) PROVE EndReason(d)'
  BY <1>25, <1>a, <1>b, <1>c, <1>d DEF PumpCancelled, EndPump, service, handler, wires, EndReason, EndedItself, HandlerOrder, PumpOrder, PumpCt
<1>26. ASSUME NEW c \in Conns, CancelPumps(c) PROVE EndReason(d)'
  BY <1>26, <1>a, <1>b, <1>c, <1>d DEF CancelPumps, service, handler, wires, EndReason, EndedItself, HandlerOrder, PumpOrder
<1>27. ASSUME NEW c \in Conns, FinishBridge(c) PROVE EndReason(d)'
  BY <1>27, <1>a, <1>b, <1>c, <1>d DEF FinishBridge, Done, service, wires, pumps, EndReason, EndedItself, HandlerOrder, PumpOrder
<1>28. CASE UNCHANGED vars
  BY <1>28, <1>d DEF vars, service, wires, pumps, EndReason, EndedItself
<1> QED
  BY <1>1, <1>2, <1>3, <1>4, <1>5, <1>6, <1>7, <1>8, <1>9, <1>10, <1>11, <1>12,
     <1>13, <1>14, <1>15, <1>16, <1>17, <1>18, <1>19, <1>20, <1>21, <1>22, <1>23,
     <1>24, <1>25, <1>26, <1>27, <1>28
  DEF Next, AcceptStep, EndStep, HandlerStep, PumpStep

-----------------------------------------------------------------------------
(* The invariant holds in every state.                                     *)

LEMMA InitIInv == Init => IInv
<1> SUFFICES ASSUME Init PROVE IInv
  OBVIOUS
<1>1. TypeOK
  <2>1. <<>> \in Seq(Numbers)
    BY EmptySeq
  <2>2. /\ inbox \in [Conns -> [Ends -> Seq(Numbers)]] /\ buf \in [Conns -> Seq(Numbers)]
        /\ held \in [Conns -> [Ends -> Seq(Numbers)]] /\ out \in [Conns -> [Ends -> Seq(Numbers)]]
        /\ target \in [Conns -> Endpoints \cup {NoBackend}]
    BY <2>1 DEF Init
  <2> QED
    BY <2>2, ArrivalsAssumption DEF Init, TypeOK, Points, Outcomes
<1>2. HandlersInOrder /\ PumpsInOrder
  BY DEF Init, HandlersInOrder, HandlerOrder, PumpsInOrder, PumpOrder, Ends
<1>3. ASSUME NEW c \in Conns, NEW e \in Ends PROVE FlowKept(c, e)
  <2>1. Given(c, e) = <<>> \o <<>>
    BY <1>3 DEF Init, Given, Carried
  <2>2. inbox[c][e] = <<>> /\ sent[c][e] = 0
    BY <1>3 DEF Init
  <2>3. <<>> \in Seq(Numbers) /\ <<>> \o <<>> = <<>>
    BY EmptySeq, ConcatEmptySeq
  <2>4. (<<>> \o <<>>) \o <<>> = <<>>
    BY <2>3, ConcatEmptySeq
  <2>5. Span(0, 0) = <<>>
    <3>1. Span(0, 0) \in Seq(Numbers) /\ Len(Span(0, 0)) = 0
      BY SpanIsSeq
    <3> QED
      BY <3>1, EmptySeq
  <2>6. Given(c, e) \o <<>> = Span(0, sent[c][e])
    BY <2>1, <2>2, <2>4, <2>5
  <2> QED
    BY <2>2, <2>3, <2>6 DEF FlowKept
<1>4. RoutedToOwner /\ EndsHaveReasons
  BY DEF Init, RoutedToOwner, Routed, EndsHaveReasons, EndReason
<1> QED
  BY <1>1, <1>2, <1>3, <1>4 DEF IInv, FlowsKept

LEMMA StepIInv == IInv /\ [Next]_vars => IInv'
  BY TypeStep, HandlersOrderStep, PumpsOrderStep, FlowsStep, RoutedStep, ReasonsStep DEF IInv

LEMMA Invariant == Spec => []IInv
  BY InitIInv, StepIInv, PTL DEF Spec

\* Every variable keeps its type, whatever the route table and the sizes are.
THEOREM TypeCorrect == Spec => []TypeOK
  BY Invariant, PTL DEF IInv

\* No byte of an end that has not reset is lost, doubled or reordered on its way
\* through the peek, the replay, the pumps and a cancelled write.
THEOREM StreamsKept == Spec => []StreamsIntact
<1>1. IInv => StreamsIntact
  <2> SUFFICES ASSUME IInv, NEW c \in Conns, NEW e \in Ends,
                      pc[c] # "done", peer[c][e] # "rst"
               PROVE  out[c][e] \o Carried(c, e) \o inbox[c][e] = Span(0, sent[c][e])
    BY DEF StreamsIntact
  <2>1. FlowKept(c, e) /\ Live(c, e)
    BY DEF IInv, FlowsKept, Live
  <2> QED
    BY <2>1 DEF FlowKept, Given
<1> QED
  BY Invariant, <1>1, PTL

\* What an end sent before it closed in good order is delivered.
THEOREM CloseDelivers == Spec => []GracefulCloseDelivers
<1>1. IInv => GracefulCloseDelivers
  <2> SUFFICES ASSUME IInv, NEW c \in Conns, NEW e \in Ends,
                      outcome[c] = "bridged", ~ stopped,
                      peer[c][e] = "fin", peer[c][Other(e)] = "open"
               PROVE  out[c][e] = Span(0, sent[c][e])
    BY DEF GracefulCloseDelivers
  <2>1. HandlerOrder(c) /\ FlowKept(c, e) /\ EndReason(c)
    BY DEF IInv, HandlersInOrder, FlowsKept, EndsHaveReasons
  <2>2. pc[c] = "done" /\ linkCancelled[c]
    BY <2>1 DEF HandlerOrder
  <2>3. PICK f \in Ends : EndedItself(c, f)
    BY <2>1, <2>2 DEF EndReason
  <2>4. Ends = {e, Other(e)} /\ e # Other(e)
    BY DEF Ends, Other
  <2>5. f = e /\ inbox[c][e] = <<>> /\ held[c][e] = <<>>
    BY <2>3, <2>4 DEF EndedItself
  <2>6. out[c][e] \in Seq(Numbers)
    BY DEF IInv, TypeOK
  <2>7. Carried(c, e) = <<>>
    BY <2>2, <2>5 DEF Carried
  <2>8. (out[c][e] \o <<>>) \o <<>> = Span(0, sent[c][e])
    BY <2>1, <2>5, <2>7 DEF FlowKept, Given, Live
  <2> DEFINE o == out[c][e]
  <2>9. o \in Seq(Numbers)
    BY <2>6
  <2> HIDE DEF o
  <2>10. o \o <<>> = o
    BY <2>9, ConcatEmptySeq
  <2> QED
    BY <2>8, <2>10 DEF o
<1> QED
  BY Invariant, <1>1, PTL

\* Both sockets outlive the pumps that use them.
THEOREM PumpsEndFirst == Spec => []NoPumpOutlivesHandler
<1>1. IInv => NoPumpOutlivesHandler
  BY DEF IInv, PumpsInOrder, PumpOrder, NoPumpOutlivesHandler
<1> QED
  BY Invariant, <1>1, PTL

\* The route table turns nobody away whom it serves.
THEOREM RefusalsRight == Spec => []RefusalsJustified
<1>1. IInv => RefusalsJustified
  BY DEF IInv, RoutedToOwner, Routed, RefusalsJustified
<1> QED
  BY Invariant, <1>1, PTL

-----------------------------------------------------------------------------
(* The gateway is a tenant relay.                                          *)

\* What an end was given is a prefix of what the other sent.
OutsArePrefixes ==
    \A c \in Conns, e \in Ends :
        /\ Len(out[c][e]) \in 0 .. sent[c][e]
        /\ out[c][e] = Span(0, Len(out[c][e]))

LEMMA OutIsPrefix == IInv => OutsArePrefixes
<1> SUFFICES ASSUME IInv, NEW c \in Conns, NEW e \in Ends
             PROVE  /\ Len(out[c][e]) \in 0 .. sent[c][e]
                    /\ out[c][e] = Span(0, Len(out[c][e]))
  BY DEF OutsArePrefixes
<1> DEFINE o == out[c][e]
           h == Carried(c, e)
<1>1. o \in Seq(Numbers) /\ h \in Seq(Numbers) /\ sent[c][e] \in Nat
  BY GivenIsSeq DEF IInv
<1>2. PICK rest \in Seq(Numbers) : (o \o h) \o rest = Span(0, sent[c][e])
  BY DEF IInv, FlowsKept, FlowKept, Given
<1> HIDE DEF o, h
<1>3. h \o rest \in Seq(Numbers)
  BY <1>1, ConcatProperties
<1>4. (o \o h) \o rest = o \o (h \o rest)
  BY <1>1, ConcatAssociative
<1>5. o \o (h \o rest) = Span(0, sent[c][e])
  BY <1>2, <1>4
<1>6. Len(o) \in 0 .. sent[c][e] /\ o = Span(0, Len(o))
  BY <1>1, <1>3, <1>5, SpanPrefix
<1> QED
  BY <1>6 DEF o

\* A bound connection is neither unbound nor cut.
LEMMA BoundLink ==
  ASSUME IInv, NEW c \in Conns, pc[c] \in {"replay", "pump"}
  PROVE  Link(c) = target[c] /\ target[c] \notin {NoBackend, CutLink}
<1>1. target[c] \in Endpoints
  BY DEF IInv, RoutedToOwner, Routed
<1>2. target[c].port # 0
  BY <1>1 DEF Endpoints
<1>3. NoBackend.port = 0 /\ CutLink.port = 0
  BY DEF NoBackend, CutLink
<1>4. Link(c) = target[c]
  BY DEF Link
<1> QED
  BY <1>2, <1>3, <1>4

\* A step that hands more of the bytes of e to the other end, and that may be the
\* last of its handler, is a delivery.
LEMMA DeliverStep ==
  ASSUME IInv, IInv', NEW c \in Conns, NEW e \in Ends, pc[c] \in {"replay", "pump"},
         out' = [out EXCEPT ![c][e] = out'[c][e]],
         Len(out[c][e]) <= Len(out'[c][e]),
         \/ pc' = [pc EXCEPT ![c] = "pump"]
         \/ pc' = [pc EXCEPT ![c] = "done"],
         UNCHANGED <<hello, sent, target>>
  PROVE  Relay!Deliver(c, e)
<1> DEFINE k == Len(out'[c][e])
           link == [d \in Conns |-> Link(d)]
<1>1. link[c] \notin {NoBackend, CutLink}
  BY BoundLink
<1>2. k \in 0 .. sent'[c][e] /\ out'[c][e] = Span(0, k)
  <2>1. OutsArePrefixes'
    BY OutIsPrefix, PTL
  <2> QED
    BY <2>1 DEF OutsArePrefixes
<1>3. /\ out[c][e] \in Seq(Numbers) /\ Len(out[c][e]) \in Nat /\ sent[c][e] \in Nat
  <2>1. out[c][e] \in Seq(Numbers) /\ sent[c][e] \in Nat
    BY DEF IInv, TypeOK
  <2> QED
    BY <2>1, LenProperties
<1>4. k \in Len(out[c][e]) .. sent[c][e]
  BY <1>2, <1>3
<1>5. out' = [out EXCEPT ![c][e] = Relay!Span(0, k)]
  <2>1. Relay!Span(0, k) = Span(0, k)
    BY DEF Span, Relay!Span
  <2> QED
    BY <1>2, <2>1
<1>6. pc \in [Conns -> Points]
  BY DEF IInv, TypeOK
<1>7. link' \in {link, [link EXCEPT ![c] = CutLink]}
  <2>1. CASE pc' = [pc EXCEPT ![c] = "pump"]
    <3>1. \A d \in Conns : Link(d)' = Link(d)
      BY <1>6, <2>1 DEF Link
    <3> QED
      BY <3>1
  <2>2. CASE pc' = [pc EXCEPT ![c] = "done"]
    <3>1. \A d \in Conns : Link(d)' = IF d = c THEN CutLink ELSE Link(d)
      BY <1>6, <2>2 DEF Link
    <3> QED
      BY <3>1
  <2> QED
    BY <2>1, <2>2
<1> QED
  BY <1>1, <1>4, <1>5, <1>7 DEF Relay!Deliver

\* A step that only cuts connections.
LEMMA SeverStep ==
  ASSUME NEW S \in SUBSET Conns, UNCHANGED <<hello, sent, out>>,
         \A d \in Conns : Link(d)' = IF d \in S THEN CutLink ELSE Link(d)
  PROVE  Relay!Sever
  BY DEF Relay!Sever

\* A step that the relay does not see.
LEMMA LinkQuiet ==
  ASSUME UNCHANGED <<hello, sent, out>>, \A d \in Conns : Link(d)' = Link(d)
  PROVE  UNCHANGED Relay!vars
  BY DEF Relay!vars

LEMMA RelayStep == ASSUME IInv, IInv', [Next]_vars PROVE [Relay!Next]_(Relay!vars)
<1>a. /\ pc \in [Conns -> Points] /\ target \in [Conns -> Endpoints \cup {NoBackend}]
      /\ out \in [Conns -> [Ends -> Seq(Numbers)]] /\ buf \in [Conns -> Seq(Numbers)]
      /\ held \in [Conns -> [Ends -> Seq(Numbers)]]
  BY DEF IInv, TypeOK
<1>b. \A d \in Conns, f \in Ends : HandlerOrder(d) /\ PumpOrder(d, f) /\ Routed(d)
  BY DEF IInv, HandlersInOrder, PumpsInOrder, RoutedToOwner
<1>c. "client" \in Ends /\ "backend" \in Ends
  BY DEF Ends
<1>d. ASSUME NEW c \in Conns, pc' = [pc EXCEPT ![c] = "done"], UNCHANGED <<hello, sent, target, out>>
      PROVE  Relay!Next
  <2>1. \A d \in Conns : Link(d)' = IF d \in {c} THEN CutLink ELSE Link(d)
    BY <1>a, <1>d DEF Link
  <2> QED
    BY <1>d, <2>1, SeverStep DEF Relay!Next
<1>e. ASSUME UNCHANGED <<pc, target, hello, sent, out>> PROVE UNCHANGED Relay!vars
  <2>1. \A d \in Conns : Link(d)' = Link(d)
    BY <1>e DEF Link
  <2> QED
    BY <1>e, <2>1, LinkQuiet
<1>f. ASSUME NEW c \in Conns, NEW p \in {"backlog", "accepted", "peek", "route", "connect"},
             pc[c] \in {"unborn", "backlog", "accepted", "peek", "route"},
             pc' = [pc EXCEPT ![c] = p], \A d \in Conns \ {c} : target'[d] = target[d],
             UNCHANGED <<hello, sent, out>>
      PROVE  UNCHANGED Relay!vars
  <2>1. \A d \in Conns : Link(d)' = Link(d)
    BY <1>a, <1>f DEF Link
  <2> QED
    BY <1>f, <2>1, LinkQuiet
<1>g. ASSUME NEW c \in Conns, NEW e \in Ends, Relay!Deliver(c, e) PROVE Relay!Next
  BY <1>g DEF Relay!Next
<1>1. ASSUME NEW c \in Conns, ClientConnects(c)
      PROVE  [Relay!Next]_(Relay!vars)
  BY <1>1, <1>f DEF ClientConnects
<1>2. ASSUME NEW c \in Conns, NEW e \in Ends, Send(c, e)
      PROVE  [Relay!Next]_(Relay!vars)
  <2>1. pc[c] # "done" /\ UNCHANGED <<hello, pc, target, out>> /\ sent' = [sent EXCEPT ![c][e] = @ + 1]
    BY <1>2 DEF Send, handler
  <2>2. Link(c) # CutLink
    <3>1. CASE pc[c] \in {"replay", "pump"}
      BY <3>1, BoundLink
    <3>2. CASE pc[c] \notin {"replay", "pump"}
      <4>1. Link(c) = NoBackend
        BY <2>1, <3>2 DEF Link
      <4>2. NoBackend # CutLink
        BY DEF NoBackend, CutLink
      <4> QED
        BY <4>1, <4>2
    <3> QED
      BY <3>1, <3>2
  <2>3. \A d \in Conns : Link(d)' = Link(d)
    BY <2>1 DEF Link
  <2>4. Relay!Send(c, e)
    BY <2>1, <2>2, <2>3 DEF Relay!Send
  <2> QED
    BY <2>4 DEF Relay!Next
<1>3. ASSUME NEW c \in Conns, NEW e \in Ends, Close(c, e)
      PROVE  [Relay!Next]_(Relay!vars)
  BY <1>3, <1>e DEF Close, handler
<1>4. ASSUME NEW c \in Conns, NEW e \in Ends, Reset(c, e)
      PROVE  [Relay!Next]_(Relay!vars)
  BY <1>4, <1>e DEF Reset, handler
<1>5. ASSUME NEW c \in Conns, Accept(c)
      PROVE  [Relay!Next]_(Relay!vars)
  BY <1>5, <1>f DEF Accept, wires
<1>6. ASSUME NEW c \in Conns, Spawn(c)
      PROVE  [Relay!Next]_(Relay!vars)
  BY <1>6, <1>f DEF Spawn, wires
<1>7. CASE AcceptFails
  BY <1>7, <1>e DEF AcceptFails, handler, wires
<1>8. CASE AcceptCancelled
  BY <1>8, <1>e DEF AcceptCancelled, handler, wires
<1>9. CASE StopAsync
  <2> DEFINE S == {d \in Conns : pc[d] = "backlog"}
  <2>1. \A d \in Conns : Link(d)' = IF d \in S THEN CutLink ELSE Link(d)
    BY <1>a, <1>9 DEF StopAsync, Link
  <2>2. UNCHANGED <<hello, sent, out>>
    BY <1>9 DEF StopAsync, wires
  <2> QED
    BY <2>1, <2>2, SeverStep DEF Relay!Next
<1>10. ASSUME NEW c \in Conns, ReadHello(c)
      PROVE  [Relay!Next]_(Relay!vars)
  <2>1. PICK p \in {"peek", "route"} : pc' = [pc EXCEPT ![c] = p]
    BY <1>10 DEF ReadHello
  <2>2. pc[c] = "peek" /\ UNCHANGED <<hello, target, sent, out>>
    BY <1>10 DEF ReadHello
  <2> QED
    BY <2>1, <2>2, <1>f
<1>11. ASSUME NEW c \in Conns, HelloEnds(c)
      PROVE  [Relay!Next]_(Relay!vars)
  BY <1>11, <1>f DEF HelloEnds, wires
<1>12. ASSUME NEW c \in Conns, HelloFails(c)
      PROVE  [Relay!Next]_(Relay!vars)
  BY <1>12, <1>d DEF HelloFails, Done, wires
<1>13. ASSUME NEW c \in Conns, RefuseNoSni(c)
      PROVE  [Relay!Next]_(Relay!vars)
  BY <1>13, <1>d DEF RefuseNoSni, Done, wires
<1>14. ASSUME NEW c \in Conns, RefuseSni(c)
      PROVE  [Relay!Next]_(Relay!vars)
  BY <1>14, <1>d DEF RefuseSni, Done, wires
<1>15. ASSUME NEW c \in Conns, RouteSni(c)
      PROVE  [Relay!Next]_(Relay!vars)
  BY <1>a, <1>15, <1>f DEF RouteSni, wires
<1>16. ASSUME NEW c \in Conns, ConnectBackend(c)
      PROVE  [Relay!Next]_(Relay!vars)
  <2>1. /\ pc[c] = "connect" /\ pc' = [pc EXCEPT ![c] = "replay"]
        /\ UNCHANGED <<hello, sent, target, out>>
    BY <1>16 DEF ConnectBackend
  <2>2. target[c] \in Owners(hello[c])
    BY <1>b, <1>c, <2>1 DEF Routed
  <2>3. Link(c) = NoBackend
    BY <2>1 DEF Link
  <2>4. \A d \in Conns : Link(d)' = IF d = c THEN target[c] ELSE Link(d)
    BY <1>a, <2>1 DEF Link
  <2>5. [d \in Conns |-> Link(d)]' = [[d \in Conns |-> Link(d)] EXCEPT ![c] = target[c]]
    BY <2>4
  <2>6. Relay!Bind(c)
    BY <2>1, <2>2, <2>3, <2>5 DEF Relay!Bind
  <2> QED
    BY <2>6 DEF Relay!Next
<1>17. ASSUME NEW c \in Conns, ConnectFails(c)
      PROVE  [Relay!Next]_(Relay!vars)
  BY <1>17, <1>d DEF ConnectFails, Done, wires
<1>18. ASSUME NEW c \in Conns, ReplayHello(c)
      PROVE  [Relay!Next]_(Relay!vars)
  <2>1. /\ pc[c] = "replay" /\ pc' = [pc EXCEPT ![c] = "pump"]
        /\ out' = [out EXCEPT ![c]["client"] = buf[c]]
        /\ UNCHANGED <<hello, sent, target>>
    BY <1>18 DEF ReplayHello, wires
  <2>2. out'[c]["client"] = buf[c] /\ out[c]["client"] = <<>>
    BY <1>a, <1>b, <1>c, <2>1 DEF HandlerOrder
  <2>3. Len(out[c]["client"]) <= Len(out'[c]["client"])
    BY <1>a, <2>2, EmptySeq, LenProperties
  <2> QED
    BY <1>c, <1>g, <2>1, <2>2, <2>3, DeliverStep
<1>19. ASSUME NEW c \in Conns, ReplayFails(c)
      PROVE  [Relay!Next]_(Relay!vars)
  BY <1>19, <1>d DEF ReplayFails, Done, wires
<1>20. ASSUME NEW c \in Conns, HandlerCancelled(c)
      PROVE  [Relay!Next]_(Relay!vars)
  <2>1. /\ pc[c] \in {"peek", "connect", "replay"} /\ pc' = [pc EXCEPT ![c] = "done"]
        /\ UNCHANGED <<hello, sent, target>>
    BY <1>20 DEF HandlerCancelled, Done, wires
  <2>2. out[c]["client"] = <<>>
    BY <1>b, <1>c, <2>1 DEF HandlerOrder
  <2>3. CASE pc[c] = "replay"
    <3>1. PICK n \in 0 .. Len(buf[c]) :
             out' = [out EXCEPT ![c]["client"] = Taken(buf[c], n)]
      BY <1>20, <2>3 DEF HandlerCancelled
    <3>2. out'[c]["client"] = Taken(buf[c], n) /\ Taken(buf[c], n) \in Seq(Numbers)
      BY <1>a, <1>c, <3>1, ReadSplits
    <3>3. Len(out[c]["client"]) <= Len(out'[c]["client"])
      BY <2>2, <3>2, EmptySeq, LenProperties
    <3> QED
      BY <1>c, <1>g, <2>1, <2>3, <3>1, <3>2, <3>3, DeliverStep
  <2>4. CASE pc[c] # "replay"
    <3>1. out' = [out EXCEPT ![c]["client"] = Taken(buf[c], 0)]
      BY <1>20, <2>4 DEF HandlerCancelled
    <3>2. Taken(buf[c], 0) = <<>>
      BY <1>a, LenProperties DEF Taken
    <3>3. out' = out
      BY <1>a, <1>c, <2>2, <3>1, <3>2
    <3> QED
      BY <1>d, <2>1, <3>3
  <2> QED
    BY <2>3, <2>4
<1>21. ASSUME NEW c \in Conns, NEW e \in Ends, PumpReads(c, e)
      PROVE  [Relay!Next]_(Relay!vars)
  BY <1>21, <1>e DEF PumpReads, handler
<1>22. ASSUME NEW c \in Conns, NEW e \in Ends, PumpWrites(c, e)
      PROVE  [Relay!Next]_(Relay!vars)
  <2>1. /\ pc[c] = "pump" /\ out' = [out EXCEPT ![c][e] = @ \o held[c][e]]
        /\ UNCHANGED <<hello, sent, target, pc>>
    BY <1>22, <1>b DEF PumpWrites, handler, wires, PumpOrder
  <2>2. out'[c][e] = out[c][e] \o held[c][e]
    BY <1>a, <2>1
  <2>3. out[c][e] \in Seq(Numbers) /\ held[c][e] \in Seq(Numbers)
    BY <1>a
  <2>4. Len(out[c][e]) <= Len(out'[c][e])
    BY <2>2, <2>3, ConcatGrows
  <2>5. pc' = [pc EXCEPT ![c] = "pump"]
    BY <1>a, <2>1
  <2> QED
    BY <1>g, <2>1, <2>2, <2>4, <2>5, DeliverStep
<1>23. ASSUME NEW c \in Conns, NEW e \in Ends, PumpAtEof(c, e)
      PROVE  [Relay!Next]_(Relay!vars)
  BY <1>23, <1>e DEF PumpAtEof, handler, wires
<1>24. ASSUME NEW c \in Conns, NEW e \in Ends, PumpFails(c, e)
      PROVE  [Relay!Next]_(Relay!vars)
  BY <1>24, <1>e DEF PumpFails, handler, wires
<1>25. ASSUME NEW c \in Conns, NEW e \in Ends, PumpCancelled(c, e)
      PROVE  [Relay!Next]_(Relay!vars)
  <2>1. PICK n \in 0 .. Len(held[c][e]) :
           out' = [out EXCEPT ![c][e] = @ \o Taken(held[c][e], n)]
    BY <1>25 DEF PumpCancelled
  <2>2. pc[c] = "pump" /\ UNCHANGED <<hello, sent, target, pc>>
    BY <1>25, <1>b DEF PumpCancelled, handler, wires, PumpOrder
  <2>3. out'[c][e] = out[c][e] \o Taken(held[c][e], n)
    BY <1>a, <2>1
  <2>4. out[c][e] \in Seq(Numbers) /\ Taken(held[c][e], n) \in Seq(Numbers)
    BY <1>a, ReadSplits
  <2>5. Len(out[c][e]) <= Len(out'[c][e])
    BY <2>3, <2>4, ConcatGrows
  <2>6. pc' = [pc EXCEPT ![c] = "pump"]
    BY <1>a, <2>2
  <2> QED
    BY <1>g, <2>1, <2>2, <2>3, <2>5, <2>6, DeliverStep
<1>26. ASSUME NEW c \in Conns, CancelPumps(c)
      PROVE  [Relay!Next]_(Relay!vars)
  BY <1>26, <1>e DEF CancelPumps, handler, wires
<1>27. ASSUME NEW c \in Conns, FinishBridge(c)
      PROVE  [Relay!Next]_(Relay!vars)
  BY <1>27, <1>d DEF FinishBridge, Done, wires
<1>28. CASE UNCHANGED vars
  BY <1>28, <1>e DEF vars, handler, wires
<1> QED
  BY <1>1, <1>2, <1>3, <1>4, <1>5, <1>6, <1>7, <1>8, <1>9, <1>10, <1>11, <1>12,
     <1>13, <1>14, <1>15, <1>16, <1>17, <1>18, <1>19, <1>20, <1>21, <1>22, <1>23,
     <1>24, <1>25, <1>26, <1>27, <1>28
  DEF Next, AcceptStep, EndStep, HandlerStep, PumpStep

\* The gateway is a tenant relay, for every route table, every number of clients and
\* whatever they and the backends do: a connection is bound to the owner of the name
\* in its ClientHello only, each end is given a prefix of what the other sent, none
\* of it before the bond or after the cut.
THEOREM GatewayIsRelay == Spec => RelaySpec
<1>1. Init => Relay!Init
  BY DEF Init, Relay!Init, Link
<1>2. IInv /\ IInv' /\ [Next]_vars => [Relay!Next]_(Relay!vars)
  BY RelayStep
<1> QED
  BY Invariant, <1>1, <1>2, PTL DEF Spec, RelaySpec, Relay!Spec
==============================================================================

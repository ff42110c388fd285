# MQTT routing demo: verification

TLA+ models of the parts of this repository whose behaviour depends on the order of
events or on the exact bytes of a stream, TLC runs that check them on small instances, and TLAPS proofs of
their main properties for instances of any size. Paths are those of the repository;
`GW` is `src/src/MqttRouting.MqttGateway/Program.cs`, `SIM` is
`src/src/MqttRouting.ClientSimulator/Services/ClientSimulatorManager.cs`, `TP` is
`src/src/MqttRouting.TenantPlane/MqttBrokerService.cs` and `PP` is
`src/src/MqttRouting.ServiceDefaults/ProxyProtocol.cs`.

## 1. The system

```
 MQTT client --TLS--> MqttGateway --raw TLS bytes--> TenantPlane (TLS listener)
 (or ClientSimulator)  |   reads SNI                     |  terminates TLS
                       |                                 v
                       +--no SNI: TLS, CONNECT,   --> TenantPlane (TCP listener)
                          PROXY v2 + CONNECT             |  reads PROXY v2
                                                         v
                                       embedded MQTT broker on the loopback
 browser --HTTP--> Ingress --by Host header--> TenantPlane HTTP API (stored messages)
```

| component | state it keeps | operations | talks to |
|---|---|---|---|
| Gateway service (GW 27-203) | token source, listener and its backlog, one handler task per client | `StartAsync`, `StopAsync`, `AcceptLoopAsync`, `HandleClientAsync` | clients, tenant planes |
| SNI passthrough (GW 205-377, 654-702) | the peeked ClientHello, the backend's socket, two pumps, a linked token source | `PeekClientHelloSniAsync`, `ExtractTenantFromHost`, `HandleSniPassthroughAsync`, `BridgeStreamAsync` | a tenant plane's TLS port |
| Routing without SNI (GW 379-651, 704-770) | TLS stream over `PrefixedStream`, the CONNECT packet | `HandleNoSniRoutingAsync`, `HandleMqttRoutingAsync` | a tenant plane's TCP port |
| Gateway certificate (GW 78-154) | one certificate | load, or generate | files |
| PROXY protocol codec (PP) | none | build, read, parse addresses and TLVs | gateway writes, tenant plane reads |
| Tenant plane broker (TP) | listeners, handler tasks, an `AsyncLocal` certificate, the embedded broker | start, stop, accept, authenticate, forward, intercept messages | gateway, MQTT library |
| Message store and API | a queue of messages | append, by the broker's event and by `POST /messages`; read, by `GET /messages` | broker event, HTTP |
| `ClientRuntime` (SIM 355-541) | semaphore, `Status`, token source, loop task, counter | `StartAsync`, `StopAsync`, `RunLoopAsync`, snapshot | gateway through the MQTT library |
| Simulator manager, hosted service, database | dictionary of runtimes, rows of clients and certificates | add, load, ensure defaults, start, stop, remove, stop all | runtimes, SQLite |
| Pages of the simulator | lists refreshed by a timer | forms and buttons | manager |
| Ingress | a route table | forward by host | tenant planes |
| Service defaults, AppHost, Terraform | none | configuration | - |

What is hard in each, and what makes it correct:

* **Gateway.** Clients, handlers, two pumps per handler, the accept loop and the
  shutdown run concurrently; reads return any part of what was sent; a cancelled write
  may have written a part. Correct: bytes arrive whole and in order on the connection of
  the tenant that the client named and on no other; a close of one end is seen by the
  other; nothing uses a socket after it was disposed; every handler ends after a hang-up
  or a shutdown; nobody waits for somebody else's handler.
* **`ClientRuntime`.** `StopAsync` gives the semaphore back while it waits for the loop,
  and the loop writes `Status` without it. Correct: there is at most one publishing loop
  and `StopAsync` reaches it; `Status` tells what the loop does; a stopped client is
  silent; a stop always comes back.
* **PROXY codec.** Correct: what the reader consumes is what the builder wrote, and not a
  byte more or less, for every command and TLV.
* **Routing without SNI.** A hand-written decoder. Correct: the user name that it finds is
  the one the packet holds, for every combination of flags and each protocol version, and it
  waits for no byte that the packet does not have. It is not so for a will in version 5 and
  for one packet more (see `ConnectRouting` and the findings).
* **Tenant plane.** A connection's certificate is kept in an `AsyncLocal` and read in an
  event of the broker. Correct: a client is validated against its own certificate.
* **Manager.** Two stores (dictionary and database) change in two steps with awaits and
  crashes in between. Correct: a listed client has its row; a removed client does not publish
  and does not come back; a start of the process makes whole what was left half done.

The full list of hazards, each at its line, with the property that covers it or the
reason why none does yet, is in `PROJECT.json`.

## 2. Modules

| module | models | lines of code |
|---|---|---|
| `Streams` | runs of numbered bytes; what a read takes and leaves | - |
| `TenantRelay` | the promise: named, bound to an owner, prefixes delivered, cut | abstract |
| `Gateway` | accept loop, shutdown, peek, routing, connect, replay, two pumps | GW 43-377, 671-702 |
| `ConnectRouting` | the decoder of the CONNECT, the decision and the hand-over | GW 433-651 |
| `ProxyProtocol` | frame builder, and the reader on a stream in pieces, with its caller | PP 26-286, 336-345; TP 198-219 |
| `TenantPlane` | listeners, handlers, certificates, the broker's validation event, shutdown | TP 40-510 |
| `ClientRuntime` | one simulated client, its callers and its loops | SIM 369-541 |
| `SimulatorManager` | rows, dictionary, pages, hosted service, the end of the process | SIM 18-300, and 371-539 in coarser steps |
| `MCGateway`, `MCConnectRouting`, `MCProxyProtocol`, `MCTenantPlane` | instances for TLC | - |
| `StreamsProofs`, `GatewayRoutingProofs`, `GatewayProofs`, `ConnectRoutingProofs`, `ProxyProtocolProofs`, `TenantPlaneProofs`, `ClientRuntimeProofs`, `SimulatorManagerProofs` | theorems | - |

`ClientRuntime` and `SimulatorManager` can be checked as they are, with no module of
instances between.

### Gateway

`pc[c]` is the point of `HandleClientAsync` for client `c`: in the listener's backlog,
`accepted` (the accept loop has the socket and has not yet called the handler), `peek`
(`PeekClientHelloSniAsync`), `route` (the branch on SNI and the lookup), `connect`,
`replay` (writing the peeked bytes to the backend), `pump` (from the start of the two
`BridgeStreamAsync` to the end of the `using` block) and `done`. `outcome[c]` says why.

Each await of the code is an action boundary, and each action is what runs from one await
to the next. Per await there is an action for success and one for each other way out of
it: end of stream, exception, cancellation. For example, `ReadHello` appends a non-empty
part of what is in the socket, at most what `Ensure` still wants; `HelloEnds` is the read
of zero bytes; `HelloFails` the `IOException`; `HandlerCancelled` the token. Pumps have
`PumpReads`, `PumpWrites`, `PumpAtEof`, `PumpFails`, `PumpCancelled`; the `finally`-less
end of a pump is `EndPump`, `CancelPumps` is `Task.WhenAny` with `CancelAsync`, and
`FinishBridge` is `Task.WhenAll` with the disposal of both sockets.

Abstractions, and what they keep:

* *Bytes are numbers*, 1, 2, 3, ... in each direction. The code never looks at a byte
  after the first record, so that position is all that a property can tell apart: loss,
  copy and reordering are visible.
* *The parse of the first record is its result*: a host name, no name, or not a
  ClientHello. The number of bytes that `Ensure` asks for, and the record cut off by the
  client, are modelled. Offsets inside the record are not.
* *A host name is the sequence of its labels*, with `":"` and a port as two more
  elements if the client put them there; comparison ignores case through `Fold`. `Trim('.')`,
  the cut at the colon, the suffix test, the blank tenant and the nested tenant of several
  labels are computed as in `ExtractTenantFromHost`. `tenants` with a `Fold`-equal name, the
  first row of several, and the fall-back from `TlsPort` to `Port` are computed too.
* *The network* delivers what one end sent, in order, until that end resets; a reset
  discards what was not read. Ends send, close and reset at any time. What the operating
  system has accepted from a `WriteAsync` counts as delivered.
* *Cancellation of a read* is taken to lose no bytes: a read that has already taken bytes
  when the token is cancelled is ordered before the cancellation. *Cancellation of a write*
  delivers any prefix of the buffer.
* *No-SNI path.* It ends where `SslStream` refuses a stream whose `CanWrite` is false
  (see findings). `PrefixedStreamCanWrite` is the value the class returns.
* `NoBackend`, the link before a backend is connected, is a value that differs from
  every endpoint because listening ports are positive.

The `Variant:` operators in the modules are not part of the model. Each is a plausible
slip in the definition below it (no replay, cancellation after both pumps, a suffix
compared in its letter case, ...) kept to show that a property notices it.

### TenantRelay

What a reader should be able to rely on without knowing the gateway: a connection is
bound to an owner of the name it gave, or not at all; the bytes delivered to either end
are always a prefix of those the other sent; nothing is delivered before the bond or after
the cut; a cut is final. `Gateway` implements it under the mapping `named <- hello`,
`delivered <- out`, `link <- ` (no backend until the socket is connected, the target while
replaying and pumping, cut when the handler is done). `Owners`, the right-hand side of the
promise, is written from the table alone (the first row whose tenant, put in front of the
base domain, is the host), and not with the operators that the handler uses.

### ClientRuntime

Start number `k` creates token source and task number `k`; 0 is null. The semaphore is
`gate`. `StartAsync` is entry (or the early return) and launch. `StopAsync` is
`StopCancels` (first critical section), `StopResumes` or `StopThrows` (the awaited task
ended, or failed), `StopFinishes` (second critical section). A critical section without an
await is one action. A loop is `connecting`, `running`, then in the `finally` block
`disconnecting` or `leaving`, then `ended`, or `failed` when `DisconnectAsync` throws.
`LoopLeaves` is the exit through the `while` condition, which does not write `Status`.
A wait for the semaphore that is cancelled changes nothing and has no action. The part of
`RunLoopAsync` that runs inside `StartAsync` up to the first await is ordered after it, which
allows more interleavings than the program has, never fewer. `_lastError`,
`_lastPublishedAt` and the contents of messages are left out.

The history variable `overtaken` becomes true when a `StartAsync` launches while some `StopAsync`
is between its two critical sections, which the code allows and `runtime_orphan` shows the
end of. `StoppableUnlessOvertaken`, `TruthfulUnlessOvertaken` and `StoppedClientIsSilent`
speak about every history up to that moment, with calls that overlap in all other
ways; `StoppedLoopIsOver` and `StopReturns` hold always.

### SimulatorManager

`rows` is the database, `clients` the dictionary, `runtime[c]` the `ClientRuntime` of an id.
A call is where it stands between two awaits: `AddSaves` then `AddLists`; `StartFinds` then
`StartLaunches`; `RemoveUnlists`, the `StopAsync`, then `RemoveDeletes`. `AddFails` and
`RemoveFails` are the exceptions of the database, `StopThrows` that of a failed loop. The runtime
is `ClientRuntime` with its critical sections as steps (`RuntimeStarts`, `StopBegins`,
`StopFinishes`) and a loop of four points; `busy` is what `StartAsync` asks of `Status`. A loop
is `active` until its token is cancelled, and `MayPublish` beyond that, until its connect, publish or
delay has noticed and its disconnect is answered.

`ProcessEnds` is possible at every moment and leaves `rows`. The hosted service loads the
rows, ensures the defaults, starts every client, and only then the web server takes calls
(`Serve`); its `StopAllAsync` begins when the web server takes no more of them, while
those that have begun go on. Two histories serve the properties: `removed`, the ids whose
`RemoveClientAsync` has returned, and `overtaken`, the ids that were started while a stop was
under way or after a removal had taken them from the dictionary and stopped them. `RemovedIsSilent`
speaks about the histories without such a start; `RemovedSessionIsOver` is the same promise without
the exception, and `manager_orphan` shows that the code does not keep it. Adding
a certificate and the contents of a row are left out: no property tells them apart.

### TenantPlane

`kind[c]` is the listener (`Spreads` is how the connections may spread over the
three; `NotMade` is that of a connection that nobody makes), `pc[c]` the handler, `current[f]` the value of the `AsyncLocal` in flow `f`: the
flow of each handler, and `Broker`, that of the broker's events, which goes back to `StartAsync`
because the bridge reaches the broker through a loopback socket. `session[c]` is the broker's end
of that socket, `seen[c]` what `OnValidateConnection` read. `StopAsync` is the sequence of points `Stops`: cancel, stop the TLS
listener and wait for its loop, take the events back, stop the broker, stop the
other listeners and wait for their loops. It waits for no handler.

A TCP handler goes on from the frame whatever went wrong with it, the token included,
because the code catches everything there; its connect then throws. The bytes of the frame are in
`ProxyProtocol`, those of TLS and MQTT in libraries. A client on the pipe has no certificate:
there is neither a frame nor TLS that could tell of one. A write of a pump that fails may
come at any time after its target has closed, and need not come; a pump that stays in a write
because its target does not drain is not modelled, so that `EitherEndEndsBridge` is about ends that do.
`OnInterceptPublish` is left out with the store (see 6).

### ConnectRouting

`HandleMqttRoutingAsync` as a unit, on a stream of bytes that arrives in pieces. `pc` is the
`EnsureBufferAsync` that is under way and `need` its target; one that is behind
what was read is reached at once. `at` is the position of the field. The chain of fields is
`Type`, `Length`, `Body`, `Name`, `PropertiesLength`, `SkipProperties`, `ClientId`,
`AfterId`, `WillTopic`, `WillMessage`, `User`, `UserName`, and `Decide` is the look-up.
`Encode` is what clients write, from the MQTT formats of 3.1, 3.1.1 and 5; the decoder is not
derived from it; it writes lengths in one to four groups, as the formats do. `TenantOf` is
whose packet it is, in terms of the packet alone: a row of the table that, followed by a dot, is a prefix
of the user name in any letter case. A row that is blank or has a dot of its own is
nobody's, because the code takes the name up to the *first* dot and refuses a blank one.
Three things of the code that the model keeps, where the decoder is not what MQTT asks for:

* Remaining length and properties length are decoded from three bytes at most. The connection of
  a packet with more is closed without an answer, before any of its fields is looked at.
* In version 5 the properties of a will are not skipped. `Known` leaves such packets out
  of `RoutedByUserName` and `CompleteConnectIsDecided`; they are sent, and
  `ForwardedInOrder` holds for them too. `ConnectIsDecided` does not leave them out, and
  `connect_will` shows it violated.
* In version 5 four bytes are asked for at the properties, before it is known how many
  there are (GW 501), so that `Shortest`, the CONNECT of 15 bytes (no properties, an empty id, no will, no user
  name, no password), waits for a byte that need not come. `CompleteConnectIsDecided` excepts this one
  packet by name.

What is abstracted behind the decoder:

* A refusal is one value, `reply`, with the form and the code of the CONNACK. The code writes it to
  `rawStream` (GW 578, 591, 610), in plaintext beneath the `SslStream`, so that no TLS client would
  read it as an answer; the model says which refusal is written and not that it is understood.
* A write that fails, or that the token cancels, is taken to have written nothing: the frame, the
  refusals, the two parts of the stream and the pump (`WriteFails`). What a partial write leaves is
  still a prefix of what is written here in one; the parts of a write are in `Gateway`.
* Of the route table only whether a tenant has a row is modelled. That the first of several rows decides,
  and that its `Host` and `Port` are connected (GW 582-583, 604), is left out; in `Gateway` the
  first row and its endpoint are computed.

Today no connection comes here, because `SslStream` refuses the stream in front
(`gateway_no_sni`); the module says what holds of the code once that is mended.

### ProxyProtocol

The encoder and the decoder are operators on byte sequences with the sizes of the code (12
bytes of signature, 16 of header, 12 or 36 of addresses), `BE16` with the cast to `ushort`
and `U16` for its reverse. The two builders for IPv4 and IPv6 differ in constants only and
are one operator. The reader is a state machine: `field` is the `ReadExactAsync` that is
under way, `ReadSome` one of its reads, and `SignatureRead`, `AddressRead`,
`TlvLengthRead` and `TlvsRead` what the code does with a complete field. The loop over the
entries is a recursive function (`ClientCertValues`). An early return of the reader, its last
return and its exceptions all lead to `bridge`, because `HandleTcpClientAsync` catches
everything and goes on; `stream` is then what the bridge carries to the broker.

Connections come from the gateway (`BuildV2Header`, then the application's bytes, cut off
anywhere), from another proxy that writes the documented format with entries of its own, and
from a client without a frame. A reset and a cancellation end the connection at the next
step of the handler and are in `TenantPlane`. `ReadV2HeaderAsync` has no
caller and is not modelled; the variant `StopAfterAddress` is what it does. Another proxy
sends the entries whose length the 16 bits of the frame can say (`EntryLists`): what one that
lies about it sends is not a frame of the format.

## 3. Runs

| run | instance | what it shows |
|---|---|---|
| `gateway_connection` | 1 client that sends one of 12 first records of 3 bytes (header 1), 5 bytes from the client, 2 from the backend, or 2 clients without a name, 5 and 2 bytes; buffer 2, table of 4 rows with a duplicate tenant, a nested one and a missing TLS port | streams, closes, refusals and pumps are right and `TenantRelay` is implemented, from the first byte to the end of both pumps, with close, reset, partial write and shutdown at every point; handlers end after a shutdown or a hang-up; a waiting client is accepted, or the accept loop has ended |
| `gateway_no_sni` | 1 client without SNI | violation, see findings |
| `connect_routing` | some 200 streams: versions 3.1, 3.1.1 and 5, with and without each field, remaining and properties lengths of one and two bytes, streams that are no CONNECT; a table with one tenant, a dotted one and a blank one | the way taken is the user name's but for wills of version 5; the backend gets every byte in order; a whole packet is decided on, but for wills of version 5 and `Shortest` |
| `connect_will` | a CONNECT of version 5 with a will, sent whole | violation, see findings |
| `runtime` | 3 callers, 2 launches, failing disconnects | a stop comes back, after the loop it cancelled is over; unless a start overtakes a stop, fields, `Status` and loop agree |
| `runtime_orphan` | 2 callers, 2 launches | violation, see findings |
| `manager` | 1 default and 1 added client, 2 concurrent calls, 3 calls and 2 launches in a process, 2 starts of the process | what is listed is stored, removed is away, and silent unless a start overtook a stop or the removal, a restart restores, the shutdown ends |
| `manager_orphan` | 1 default and 1 added client, 2 concurrent calls, 1 launch | violation, see findings |
| `plane_clients` | 2 clients on TCP, or 1 on TLS, or 1 on the pipe | no foreign certificate, no pump on a disposed stream; `StopAsync` ends, handlers end, a bridge ends with either end |
| `plane_certificate` | 1 client with a certificate, on TCP or TLS | violation, see findings |
| `proxy_frames` | IPv4 and IPv6 endpoints, 2 certificates, applications of 4 and 18 bytes, up to 2 of 9 entries | the reader takes a PROXY frame and nothing else; address and certificate come out as they went in, or not at all |
| `proxy_position` | the same | violation, see findings |

Why these bounds are enough to meet the interesting cases:

* 5 bytes from the client are a record of 3 and 2 more, so that reads can stop inside the
  header, inside the record, exactly at its end and past it; a buffer of 2 takes a read
  apart, makes a partial write possible and needs more than one round of the pump; 2 bytes
  from the backend let both pumps be busy at once.
* Handlers of the gateway share nothing except the token, the listener and the route table,
  which is constant, so one client is enough for the properties of a connection. Two are needed
  where one handler could hold up another. `Arrivals` has both: a client that says anything while the
  other one is nobody, and two that are soon turned away.
* The 12 records are: the exact name, another case, with a port, nested tenant, blank
  tenant, empty tenant, the base domain alone, another domain, unknown tenant, unknown
  tenant in front of a known one, no name, no ClientHello.
* The reads of `connect_routing` are cut in every way and the client hangs up at every byte.
  `MaxBuffer` is 1000 and not 256 KB: only its comparison with a target matters,
  and one of the streams asks for more than that. The dotted and the blank row of the table
  are there because user names lead to both, up to the dot, and the decision must be neither.
* Three callers of a runtime are two starts in a race and a stop; two launches are a loop that
  ends and one that starts. `MaxPublished = 1` is enough because the property looks at
  the step that counts and not at the number.
* Two calls of the manager, each of any kind, are every pair of operations on one client or on
  two; three in the life of a process let a third one come after a race. Two starts of the
  process show what the second finds of the first. A default and an added client differ in what
  brings them back.
* Handlers of the tenant plane share the broker's flow, the listeners and `StopAsync`, so two clients
  are needed for the certificate, one of them with a certificate; `Spreads` puts them on the listener
  that takes its certificates from frames, and one alone on each of the other two.
* `connect_will` sends the packet whole and nobody hangs up, so that waiting is the decoder's own doing;
  `manager_orphan` has one launch and one start of the process, which are all that it takes.
* The 9 entries of `proxy_frames` are one for each way through the parser: another type, a
  certificate, one with bytes behind it, flagged absent, cut in its last field, a length beyond
  the value at each field, and the values of one and no byte. Two of them in a frame put
  each before and after a certificate. The two applications are shorter and longer than the 16
  bytes that are read first.

`CHECK_DEADLOCK FALSE` is in every configuration because the systems may stop: all
handlers done after a shutdown, a process that is not started again, or a bound reached.

The passing runs of each module fire every action of it.

### Fairness

`Gateway!Fairness` is weak fairness of the accept loop, of each handler and of each pump: the
thread pool runs continuations that are ready. `ConnectBackend` and `ConnectFails` are in
the handler's disjunction because the operating system answers a connect, one way or the
other. A pump's write is fair because it completes when the reader drains its socket, fails
when it resets, or is cancelled. *Nothing* obliges an end to send, to close or to reset,
nor the host to stop, nor the listener to fail. `StopEndsHandlers` and `HangUpEndsHandler`
therefore hold for ends that stay silent for ever.

`ClientRuntime!Fairness` is strong fairness of a call that has begun, because the semaphore is
taken and given back by others again and again and wakes its waiters in order; and weak
fairness of a *cancelled* loop noticing its token (connect, publish and delay all take
it) and of its disconnect being answered. A loop that nobody cancelled is not obliged to
do anything, and nobody is obliged to call.

`SimulatorManager!Fairness` is weak fairness of the hosted service, of a call that has begun and
of a loop that is no longer `active`: its token is cancelled, or it leaves on its own. Nobody
has to call, and the process need neither start nor end.

`TenantPlane!Fairness` is weak fairness of `StopAsync` once the host has called it, of the accept
loops on a cancelled token, of a pump whose read is over, and, for each client, of `HandlerGoesOn`: it is
accepted, its handler takes its own steps, and a wait for a frame or a handshake that the client's
hang-up or the token has released is over. A client that identifies itself, the broker's answers and a failing write are
not fair.

`ConnectRouting!Fairness` is weak fairness of the decoder, of the steps behind the decision
and of reads of bytes that were sent. A hang-up is not fair.

## 4. Findings

* **A client without SNI is never served** (`gateway_no_sni`, doc/code divergence). The
  AppHost says that this path terminates TLS and routes by user name
  (`src/src/MqttRouting.AppHost/Program.cs:34`). The stream handed to `SslStream` is
  `PrefixedStream`, whose `CanWrite` is false and whose `Write` throws (GW 723, 758); the
  constructor of `SslStream` refuses such a stream.
* **A running client that cannot be stopped** (`runtime_orphan`, code bug). Stop cancels
  loop 1 and releases the semaphore; the loop writes `Stopped`; a start launches loop 2 and
  fills the fields; the first stop goes on and clears them. Loop 2 publishes, `Status` is
  soon `Running` with no token source, and every later stop finds none and returns. A start
  inside a stop is the only way to it: `runtime` checks, and `LoopStoppable` proves, that an active
  loop can be stopped as long as none was `overtaken`.
* **A removed client that goes on publishing** (`manager_orphan`, code bug). A start has looked the
  runtime up (SIM 208); a removal takes the client from the dictionary and stops the runtime, which has
  no loop yet; the start launches one (SIM 211), and the removal deletes the row. The loop is in no list, so that
  neither a call nor `StopAllAsync` reaches it. A start that overtakes a stop or a removal is the only way
  to it, which `RemovedSilent` proves.
* **A will in MQTT 5 is skipped by a wrong length** (`connect_will`, code bug). The comment says that
  topic and message are skipped (GW 538). In version 5 the will has properties in front of the topic (GW 541-551 does
  not look for them), so that all positions behind are wrong. The run shows a
  whole CONNECT whose user name is awaited far behind its end. No connection comes
  to this decoder today, because of `gateway_no_sni`.
* **A certificate never reaches the validation** (`plane_certificate`, doc/code divergence). A
  comment says that `CurrentClientCert` is consumed by `OnValidateConnection` (TP 193). It is an
  `AsyncLocal`, set in the flow of a handler (TP 219, 443); the event runs in a flow of the broker
  that started from `StartAsync` and has its own value, null. The run shows a client over TLS whose
  handler has stored its certificate and who is validated with none. The good side of it is
  `NoForeignCertificate`: nobody is validated with another client's certificate.
* **A LOCAL frame is not taken whole** (`proxy_position`, doc/code divergence). The builder puts
  the length of the TLVs, and the TLVs, behind every header; the reader returns after 16
  bytes for LOCAL (PP 191). `BuildCoreHeader` chooses LOCAL for endpoints of different
  families, which the gateway's are when the client comes in by IPv4 and the backend's name
  resolves to an IPv6 address. The broker then gets the rest of the frame in front of the CONNECT. The
  same run with `bare` connections alone shows the loss of 16 bytes for a client without a frame.

## 5. Proofs

All theorems are checked by `tlapm` with no omitted step. They hold for every value of the constants
that satisfies the `ASSUME`s of the modules:

* `Gateway`: sizes are natural numbers with `0 < HeaderLen < HelloLen`, `Arrivals` are any choices of first records, the route table is a
  finite sequence of rows with a positive port, `Fold` does not turn a blank label into another.
* `ClientRuntime`: `Free` is not a caller, the bounds are numbers.
* `SimulatorManager`: ids are finite, defaults are not among the ids that are drawn (the code
  draws GUIDs), `Host` is not a page's call.
* `TenantPlane`: each connection has one listener, or none, and one certificate or none, and none on the pipe; `Broker` is not a
  connection; "not validated yet" is no certificate.
* `ConnectRouting`: packets, streams and rows of the table are sequences of bytes; a packet has at
  most one will, user name and password; and the limits of MQTT itself, for which there is no
  encoding beyond: fields shorter than 2^16, properties and remaining length shorter than 2^28.
  A client that does not keep to MQTT is in `Garbage`, about which nothing is assumed.
* `ProxyProtocol`: addresses have 4 or 16 bytes and a port 16 bits; a thumbprint is at most 255 bytes
  (it is a SHA-256 of 32) and a certificate's entry shorter than 2^16; `NoCert` is no certificate.
  The casts of the builder are modelled with the cut, so that this is what keeps it from happening.

| theorem | says |
|---|---|
| `GatewayProofs!TypeCorrect` | `Spec => []TypeOK` |
| `GatewayProofs!StreamsKept` | `StreamsIntact`: delivered, carried and unread bytes are all that was sent |
| `GatewayProofs!CloseDelivers` | `GracefulCloseDelivers` |
| `GatewayProofs!PumpsEndFirst` | `NoPumpOutlivesHandler` |
| `GatewayProofs!RefusalsRight` | `RefusalsJustified`, for any table and any name |
| `GatewayProofs!GatewayIsRelay` | `Spec => RelaySpec` |
| `ConnectRoutingProofs!TypeCorrect` | `Spec => []TypeOK` |
| `ConnectRoutingProofs!Decoding` | `Spec => []OnTheWay`: at every await the decoder stands at the field of the packet that it takes itself to be at, for the same packets |
| `ConnectRoutingProofs!RoutedRight` | `RoutedByUserName`, for every packet without a will of version 5, table, cut of the stream and hang-up |
| `ConnectRoutingProofs!ForwardedWhole` | `ForwardedInOrder`, for any stream |
| `ConnectRoutingProofs!RoutedWhenArrived` | nobody is routed by bytes that did not arrive |
| `ProxyProtocolProofs!TypeCorrect` | `Spec => []TypeOK` |
| `ProxyProtocolProofs!FrameTaken` | `ProxyFrameTaken`, for any endpoints, certificate, entries and application |
| `ProxyProtocolProofs!ClientKnownRight` | `ClientKnown`: what the reader says is what the builder was given |
| `ProxyProtocolProofs!LastDecides` | `LastCertificateDecides`, for any list of entries |
| `TenantPlaneProofs!TypeCorrect` | `Spec => []TypeOK` |
| `TenantPlaneProofs!CertificatesKeptApart` | `NoForeignCertificate` |
| `TenantPlaneProofs!PumpsEndFirst` | `NoPumpOutlivesHandler` |
| `ClientRuntimeProofs!TypeCorrect` | `Spec => []TypeOK` |
| `ClientRuntimeProofs!StopIsThorough` | `StoppedLoopIsOver`, always |
| `ClientRuntimeProofs!LoopStoppable` | `StoppableUnlessOvertaken` |
| `ClientRuntimeProofs!StatusTruthful` | `TruthfulUnlessOvertaken` |
| `ClientRuntimeProofs!SilentWhenStopped` | `StoppedClientIsSilent` |
| `SimulatorManagerProofs!TypeCorrect` | `Spec => []TypeOK` |
| `SimulatorManagerProofs!ListedStored` | `ListedIsStored` |
| `SimulatorManagerProofs!RemovedAway` | `RemovedStaysRemoved`, over any number of crashes |
| `SimulatorManagerProofs!RemovedSilent` | `RemovedIsSilent`: no loop that may still publish, cancelled or not |
| `SimulatorManagerProofs!RestartWhole` | `RestartRestores` |

**Gateway.** None of the invariants is inductive alone. `IInv` adds to `TypeOK`:

* `HandlersInOrder`: what is empty, or not yet there, at each `pc` (no bytes out and no
  pump before the replay, no backend before the connect, ...). Without it a step of the handler
  could start from a state with bytes already written.
* `PumpsInOrder`: a pump holds bytes only while it writes, and runs only while
  the handler is at `pump`; this is `NoPumpOutlivesHandler` and the reason why
  `FinishBridge` loses nothing silently.
* `FlowsKept`: `StreamsIntact` extended to flows that were reset or cut, where only "what was
  delivered is a prefix of what was sent" remains. The refinement needs this weaker half
  in the states `StreamsIntact` does not speak about.
* `RoutedToOwner`: the target of a handler that has one belongs to `Owners`.
* `EndsHaveReasons`: what is true of a handler with each outcome; in particular, a bridged
  handler whose pump ended in good order had nothing left to read.

`StreamsProofs` has the arithmetic of runs of numbers (`ReadSplits`, `ConcatGrows`,
`SpanAppend`, `SpanPrefix`) that the steps use; `GatewayRoutingProofs` shows that what
`ExtractTenantFromHost` and `FindBackend` compute is what `Owners` says, by cutting the host
at the length of the suffix. The step of `IInv` has one case per action. `GatewayIsRelay` maps
reads, closes and the routing to stutters, `ConnectBackend` to `Bind`, writes and the replay
to `Deliver`, a cancelled replay to a `Deliver` that also cuts, and every end of a handler to `Sever`.

**ClientRuntime.** `StopsPaired` (a stop that is past its first half waits for a loop that exists
and is cancelled) holds always and gives `StopIsThorough`. Until `overtaken`, the invariant
adds `StopsInOrder`: whoever is about to launch finds no stop under way and no active loop, a stop under
way waits for the newest loop, and the fields name the newest loop or none.

**SimulatorManager.** `ListedIsStored` needs to know what the calls between their two steps
are about. `RowsInOrder` says it: a client that is being added or removed has its row, is not
listed, and no other call adds or removes it; an id that was drawn is not drawn again. That gives
`RemovedAway` too. `LoopsInOrder` is for `RemovedSilent` and says, of an id that no start has overtaken:
an active loop is the one the next `StopAsync` cancels, `busy` is set and nobody waits for it; a
loop that may still publish is the newest, every stop that waits for a loop waits for this one, and its
client is listed or its removal is still in its `StopAsync` (`Stopping`). Without the second part a removal that
cancels and does not wait would delete the row in front of the last message, which the variant
`StopCancelsOnly` does.
`BootInOrder` follows the hosted service through its start, and is `RestartRestores` at its end.

**TenantPlane.** `NoForeignCertificate` follows from `BrokerSeesNone`: no handler writes in the
broker's flow. `HandlersInOrder` (a connection
that was not made has no handler) keeps a step of a handler off the connections that are not there.

**ConnectRouting.** There are two invariants, one on top of the other. `IInv` assumes nothing about what the
client sends. `ConnectArrived` says that behind the remaining length the whole CONNECT has
arrived, and stays so; `HandedOver` what the backend has at each point, as a prefix of the stream.
`PartsJoin` and `BufferHoldsBytes` are the facts about slices that the steps use. A remaining
length that is too short or too long changes which part is sent first, and not the sum. This gives
`TypeCorrect`, `ForwardedWhole` and `RoutedWhenArrived`.

`OnTheWay` is about clients that send a CONNECT the decoder knows. `RoutedByUserName` speaks of the last
moment only, when nothing of the packet's fields is left in the state but the name; to get
there, `Placed` follows the decoder through all of them: the packet stands at the start of the stream,
`total` is its end, `level` and `flags` are its own, `Position` is where each `pc` awaits its field, and
`Decided` what comes out. Three groups of lemmas carry the steps:

* *What clients write.* `VarIntParts`, `FieldParts` and `FlagsParts` are about one part;
  `BodyLayout` and `PacketLayout` place the seven parts, each where those before it end.
* *What the decoder reads.* `VarIntRead` and `FieldRead`: at the place of a length it reads the length, so that
  the next position is that of the next part. The first needs that all groups but the last are
  marked; a fourth group is where the decoder gives up and the invariant holds for `done`.
  `PartsHaveArrived`, `WillHasArrived` and `UserHasArrived` say that what it waits for is inside the
  packet and has been read, without which `Buffer` would be zero there.
* *Whose name it is.* `BeforeTheDot` and `TenantIs`: what stands before the first dot is a row in any
  letter case exactly if the row and a dot are a prefix of the name and the row has no dot.

The packets with a will in version 5 are where this proof cannot go: the decoder is then not at a
field of the packet, and the position that the lemmas would need is false. They are outside `Known`.

**ProxyProtocol.** The invariant says for a connection with the PROXY command where the reader is in
the frame: `got` and `stream` are neighbouring slices of what was sent, cut at `FieldAt` and the bytes
read of the field (`InField`), and `want` is the width of the part that stands there. That holds
because the widths, which the reader takes from the frame, are those that the builder wrote: `U16OfBE16`
(the 16 bits come back), `BlockParts` and `StartParts`. Behind the reader, `Behind` is the
whole frame with its source and certificate, or nothing at all where the gateway broke
off inside it. `ParseInverse` says that `ParseClientCertTlvValue` inverts `CertValue`;
`ParseDecidedByLast` that of all entries the last certificate counts, whatever stands around it.

`ClientCertValues` and `FlattenSeq` are recursive functions. That they exist, and what they yield along the
entries (`WalkExists`, `FlatExists`, `LastValue`, `TlvBlockDivided`), needs induction. The library's
theorems take a predicate as parameter, which the provers cannot instantiate, so `StreamsProofs`
derives one with a set of numbers in its place (`LeastNumber`, `NumbersByInduction`,
`DownwardInduction`), from the smallest element of a set, and each use states its set.

**Only model-checked**: no safety property. Liveness under fairness is beyond the prover and stays with TLC:
`StopEndsHandlers`, `HangUpEndsHandler`, `BacklogServed`, `CompleteConnectIsDecided`, `StopReturns`,
`CancelledLoopEnds`, `ShutdownEnds`, `StopEnds`, `EitherEndEndsBridge`.

## 6. Not modelled, and why

* Certificate loading and generation (cryptography and files), and in the manager the
  upload of a certificate: one row, no runtime.
* The offsets inside a ClientHello; their result is an input of `Gateway`.
* The message store of the tenant plane and its HTTP endpoints: a concurrent queue that only grows,
  written by the broker's event (TP 512-524) and by `POST /messages`
  (`src/src/MqttRouting.TenantPlane/Program.cs:59-63`), read by `GET /messages`. Each is one call of the queue, and
  nothing is decided by what it holds. A message that the broker takes after `StopAsync` has taken the events back
  (TP 125-126) is not stored; nothing promises that it is.
* The pages of the simulator: they show a copy and keep no state that others read.
* `ReadV2HeaderAsync`, which has no caller.
* Ingress (a stateless forwarder, the forwarding itself is a library); service defaults, AppHost
  and Terraform (configuration, whose values are constants of the modules); vendored browser
  libraries. `wwwroot/js/site.js` of the simulator is the template's file: four lines of
  comment and no code, so that there is nothing in it to translate.

The absence of a time limit on reads and of a limit on the message store, and the end of an accept
loop after one exception of its listener, are modelled as the code has them and are not called
errors: nothing in the repository promises otherwise.

## 7. Plan

Done, in this order because the bridge and the routing decision are what the system is for,
and the runtime is where threads meet: `Streams`, `TenantRelay`, `Gateway`, `ClientRuntime`,
`ProxyProtocol`, `SimulatorManager`, `TenantPlane`, `ConnectRouting`, and the proofs of every safety
property that a run checks.

Next:

1. Abstract specifications, in the way of `TenantRelay`, for what is proved as single invariants
   so far: a decision on a CONNECT (named, decided, forwarded), and a client that is listed,
   removed and silent over crashes; with their refinements proved step by step.
2. `ClientHello`: the parser's offsets against a reference definition.
3. `RoutingChain`: gateway, codec and tenant plane together for the path without SNI.

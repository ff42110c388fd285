----------------------- MODULE SimulatorManagerProofs -----------------------
(***************************************************************************)
(* The manager for any number of clients, calls, launches and starts of    *)
(* the process: what is listed is stored, what was removed stays away and  *)
(* is silent, and a start of the process makes whole what the last one     *)
(* left half done.                                                         *)
(***************************************************************************)
EXTENDS SimulatorManager, TLAPS

Adding(p, c)   == call[p].at = "adding" /\ call[p].id = c
Removing(p, c) == call[p].op = "remove" /\ call[p].id = c
Stopping(p)    == call[p].at \in {"stopping", "awaiting"}

\* A call that has begun is about one client; none has before the page is up.
CallsInOrder ==
    /\ \A p \in Callers : call[p].at # "idle" => call[p].id \in Ids
    /\ \A p \in Callers : call[p].op = "remove" =>
                              call[p].at \in {"stopping", "awaiting", "deleting"}
    /\ \A p \in Callers : At(p, "deleting") => call[p].op = "remove"
    /\ phase \notin {"serving", "stopping", "stopped"} => \A p \in Callers : call[p] = Idle

\* A client that is being added, or removed, has its row and is not listed, and no other
\* call adds or removes it; what AddClientAsync has drawn is not drawn again.
RowsInOrder ==
    /\ ListedIsStored
    /\ rows \cap Created \subseteq drawn
    /\ \A p \in Callers, c \in Ids :
          Adding(p, c) => /\ c \in rows \ clients /\ c \in Created
                          /\ \A q \in Callers : ~ Removing(q, c) /\ (Adding(q, c) => q = p)
    /\ \A p \in Callers, c \in Ids :
          Removing(p, c) => /\ c \in rows \ clients
                            /\ \A q \in Callers : Removing(q, c) => q = p
    /\ removed \cap Created \subseteq drawn \ rows

\* A loop that is cancelled is waited for.  A loop that no start has put beside another is
\* the one the next StopAsync cancels, or the one that every StopAsync under way
\* waits for, and its client is listed or its removal has not come past StopAsync.
LoopsInOrder ==
    /\ \A c \in Ids, k \in Launches : k > runtime[c].launched => runtime[c].loop[k] = "none"
    /\ \A c \in Ids, k \in Launches : runtime[c].loop[k] = "cancelled" =>
          \E p \in Callers : At(p, "awaiting") /\ call[p].id = c /\ call[p].task = k
    /\ \A c \in Ids \ overtaken, k \in Launches : Active(c, k) =>
          runtime[c].busy /\ \A p \in Callers : ~ (At(p, "awaiting") /\ call[p].id = c)
    /\ \A c \in Ids \ overtaken, k \in Launches : MayPublish(c, k) =>
          /\ k = runtime[c].cts
          /\ \A p \in Callers : At(p, "awaiting") /\ call[p].id = c => call[p].task = k
          /\ c \in clients \/ \E p \in Callers : Stopping(p) /\ Removing(p, c)

\* While the process starts: nothing is listed before the rows are read, then all rows
\* but those of defaults that were saved a moment ago; each runtime is new until the
\* service has come to it.
BootInOrder ==
    /\ phase \in {"down", "loading"} => clients = {}
    /\ phase \in {"down", "loading", "defaults"} => \A c \in Ids : runtime[c] = NewRuntime
    /\ phase = "defaults" => rows \ Defaults \subseteq clients
    /\ phase = "autostart" =>
          /\ clients = rows /\ Defaults \subseteq clients /\ todo \subseteq clients
          /\ \A c \in todo : runtime[c] = NewRuntime
          /\ \A c \in clients \ todo : runtime[c].launched = 1

IInv == TypeOK /\ CallsInOrder /\ RowsInOrder /\ LoopsInOrder /\ BootInOrder

-----------------------------------------------------------------------------
CallType == [at : Points, op : Operations, id : Ids \cup {"none"}, task : 0 .. MaxLaunches]
RuntimeType == [busy : BOOLEAN, cts : 0 .. MaxLaunches, launched : 0 .. MaxLaunches,
                loop : [Launches -> LoopPoints]]

\* A call that goes on to another point is a call.
LEMMA GoesType ==
    ASSUME call \in [Callers -> CallType], NEW p \in Callers,
           NEW point \in Points, NEW op \in Operations, NEW c \in Ids, Goes(p, point, op, c)
    PROVE  call' \in [Callers -> CallType]
<1> QED
  BY BoundsAssumption DEF Goes, CallType

\* What a StartAsync makes of a runtime.
LEMMA StartsRuntime ==
    ASSUME runtime \in [Ids -> RuntimeType], NEW c \in Ids, RuntimeStarts(c), ~ runtime[c].busy
    PROVE  LET k == runtime[c].launched + 1 IN
           /\ k \in Launches
           /\ runtime' = [runtime EXCEPT ![c] = [busy |-> TRUE, cts |-> k, launched |-> k,
                                        loop |-> [runtime[c].loop EXCEPT ![k] = "active"]]]
           /\ overtaken' = IF Overtakes(c) THEN overtaken \cup {c} ELSE overtaken
<1> QED
  BY DEF RuntimeStarts, RuntimeType

\* A runtime that StartAsync was called on is a runtime.
LEMMA StartsType ==
    ASSUME runtime \in [Ids -> RuntimeType], overtaken \subseteq Ids, NEW c \in Ids,
           RuntimeStarts(c)
    PROVE  runtime' \in [Ids -> RuntimeType] /\ overtaken' \subseteq Ids
<1>1. CASE runtime[c].busy
  BY <1>1 DEF RuntimeStarts
<1>2. CASE ~ runtime[c].busy
  <2> DEFINE k == runtime[c].launched + 1
  <2>1. /\ k \in Launches
        /\ runtime' = [runtime EXCEPT ![c] = [busy |-> TRUE, cts |-> k, launched |-> k,
                                     loop |-> [runtime[c].loop EXCEPT ![k] = "active"]]]
        /\ overtaken' \subseteq Ids
    BY <1>2, StartsRuntime
  <2>2. [runtime[c].loop EXCEPT ![k] = "active"] \in [Launches -> LoopPoints]
    BY <2>1 DEF RuntimeType, LoopPoints
  <2>3. k \in 0 .. MaxLaunches
    BY <2>1, BoundsAssumption DEF Launches
  <2> HIDE DEF k
  <2> QED
    BY <2>1, <2>2, <2>3 DEF RuntimeType
<1> QED
  BY <1>1, <1>2

\* Every step of a call, of a loop and of the hosted service keeps the types.
LEMMA TypeStep == ASSUME IInv, [Next]_vars PROVE TypeOK'
<1> USE IdsAssumption, HostAssumption, BoundsAssumption DEF IInv, TypeOK, CallsInOrder, stored, Ids,
         Callers, Launches, Phases, Points, Operations, LoopPoints, Idle, At, NewRuntime, Active,
         CallType, RuntimeType
<1>1. CASE Boot
  BY <1>1 DEF Boot
<1>2. CASE StopAll
  BY <1>2 DEF StopAll
<1>3. CASE ProcessEnds
  BY <1>3 DEF ProcessEnds
<1>4. CASE LoadPersistedClients
  BY <1>4 DEF LoadPersistedClients
<1>5. ASSUME NEW d \in Defaults, EnsureDefaultRow(d) PROVE TypeOK'
  BY <1>5 DEF EnsureDefaultRow
<1>6. ASSUME NEW d \in Defaults, EnsureDefaultRuntime(d) PROVE TypeOK'
  BY <1>6 DEF EnsureDefaultRuntime
<1>7. CASE DefaultsEnsured
  BY <1>7 DEF DefaultsEnsured
<1>8. ASSUME NEW c \in Ids, AutoStart(c) PROVE TypeOK'
  <2>1. runtime' \in [Ids -> RuntimeType] /\ overtaken' \subseteq Ids
    BY <1>8, StartsType DEF AutoStart
  <2> QED
    BY <1>8, <2>1 DEF AutoStart
<1>9. ASSUME NEW c \in Ids, StopNext(c) PROVE TypeOK'
  <2>1. call' \in [Callers -> CallType]
    BY <1>9, GoesType DEF StopNext
  <2> QED
    BY <1>9, <2>1 DEF StopNext
<1>10. CASE Serve
  BY <1>10 DEF Serve
<1>11. CASE StopAllReturns
  BY <1>11 DEF StopAllReturns
<1>12. ASSUME NEW p \in Calls, AddSaves(p) PROVE TypeOK'
  <2>1. PICK c \in Ids : Goes(p, "adding", "add", c)
    BY <1>12 DEF AddSaves
  <2>2. call' \in [Callers -> CallType]
    BY <2>1, GoesType
  <2> QED
    BY <1>12, <2>2 DEF AddSaves, Begins
<1>13. ASSUME NEW p \in Calls, StartFinds(p) PROVE TypeOK'
  <2>1. PICK c \in Ids : Goes(p, "starting", "start", c)
    BY <1>13 DEF StartFinds
  <2>2. call' \in [Callers -> CallType]
    BY <2>1, GoesType
  <2> QED
    BY <1>13, <2>2 DEF StartFinds, Begins
<1>14. ASSUME NEW p \in Calls, StopFinds(p) PROVE TypeOK'
  <2>1. PICK c \in Ids : Goes(p, "stopping", "stop", c)
    BY <1>14 DEF StopFinds
  <2>2. call' \in [Callers -> CallType]
    BY <2>1, GoesType
  <2> QED
    BY <1>14, <2>2 DEF StopFinds, Begins
<1>15. ASSUME NEW p \in Calls, RemoveUnlists(p) PROVE TypeOK'
  <2>1. PICK c \in Ids : Goes(p, "stopping", "remove", c)
    BY <1>15 DEF RemoveUnlists
  <2>2. call' \in [Callers -> CallType]
    BY <2>1, GoesType
  <2> QED
    BY <1>15, <2>2 DEF RemoveUnlists, Begins
<1>16. ASSUME NEW p \in Callers, AddLists(p) PROVE TypeOK'
  BY <1>16 DEF AddLists, Returns
<1>17. ASSUME NEW p \in Callers, AddFails(p) PROVE TypeOK'
  BY <1>17 DEF AddFails, Returns
<1>18. ASSUME NEW p \in Callers, StartLaunches(p) PROVE TypeOK'
  <2>1. runtime' \in [Ids -> RuntimeType] /\ overtaken' \subseteq Ids
    BY <1>18, StartsType DEF StartLaunches
  <2> QED
    BY <1>18, <2>1 DEF StartLaunches, Returns
<1>19. ASSUME NEW p \in Callers, StopBegins(p) PROVE TypeOK'
  <2> DEFINE c == call[p].id
             r == runtime[c]
  <2>1. c \in Ids /\ r \in RuntimeType
    BY <1>19 DEF StopBegins
  <2>2. call' \in [Callers -> CallType]
    BY <1>19, <2>1 DEF StopBegins, AfterStop
  <2>3. CASE r.cts = 0
    <3>1. runtime' = [runtime EXCEPT ![c] = [r EXCEPT !.busy = FALSE]]
      BY <1>19, <2>3 DEF StopBegins
    <3>2. runtime' \in [Ids -> RuntimeType]
      BY <2>1, <3>1
    <3> QED
      BY <1>19, <2>2, <3>2 DEF StopBegins
  <2>4. CASE r.cts # 0
    <3>1. r.cts \in Launches
      BY <2>1, <2>4
    <3>2. [r.loop EXCEPT ![r.cts] = IF @ = "active" THEN "cancelled" ELSE @]
              \in [Launches -> LoopPoints]
      BY <2>1, <3>1
    <3>3. runtime' = [runtime EXCEPT ![c] = [r EXCEPT !.loop =
                         [r.loop EXCEPT ![r.cts] = IF @ = "active" THEN "cancelled" ELSE @]]]
      BY <1>19, <2>1, <2>4 DEF StopBegins
    <3>4. runtime' \in [Ids -> RuntimeType]
      BY <2>1, <3>2, <3>3
    <3> QED
      BY <1>19, <2>2, <3>4 DEF StopBegins
  <2> QED
    BY <2>3, <2>4
<1>20. ASSUME NEW p \in Callers, StopFinishes(p) PROVE TypeOK'
  <2>1. call' \in [Callers -> CallType]
    BY <1>20 DEF StopFinishes, AfterStop
  <2> DEFINE c == call[p].id
  <2>2. c \in Ids /\ runtime[c] \in RuntimeType
    BY <1>20 DEF StopFinishes
  <2>3. runtime' \in [Ids -> RuntimeType]
    <3>1. runtime' = [runtime EXCEPT ![c] = [runtime[c] EXCEPT !.cts = 0, !.busy = FALSE]]
      BY <1>20, <2>2 DEF StopFinishes
    <3>2. 0 \in 0 .. MaxLaunches
      BY DEF Launches
    <3> HIDE DEF c
    <3>3. [runtime[c] EXCEPT !.cts = 0, !.busy = FALSE] \in RuntimeType
      BY ONLY <2>2, <3>2 DEF RuntimeType
    <3> QED
      BY <2>2, <3>1, <3>3
  <2> QED
    BY <1>20, <2>1, <2>3 DEF StopFinishes
<1>21. ASSUME NEW p \in Callers, StopThrows(p) PROVE TypeOK'
  BY <1>21 DEF StopThrows, Returns
<1>22. ASSUME NEW p \in Callers, RemoveDeletes(p) PROVE TypeOK'
  BY <1>22 DEF RemoveDeletes, Returns
<1>23. ASSUME NEW p \in Callers, RemoveFails(p) PROVE TypeOK'
  BY <1>23 DEF RemoveFails, Returns
<1>24. ASSUME NEW c \in Ids, NEW k \in Launches, LoopConnects(c, k) PROVE TypeOK'
  <2>1. runtime' = [runtime EXCEPT ![c] = [runtime[c] EXCEPT !.busy = TRUE]]
    BY <1>24 DEF LoopConnects
  <2>2. [runtime[c] EXCEPT !.busy = TRUE] \in RuntimeType
    <3>1. runtime[c] \in RuntimeType
      OBVIOUS
    <3> QED
      BY ONLY <3>1 DEF RuntimeType
  <2>3. runtime' \in [Ids -> RuntimeType]
    BY <2>1, <2>2
  <2> QED
    BY <1>24, <2>3 DEF LoopConnects
<1>25. ASSUME NEW c \in Ids, NEW k \in Launches, LoopEnds(c, k) PROVE TypeOK'
  <2>1. PICK end \in {"ended", "failed"}, busy \in {FALSE, runtime[c].busy} :
             runtime' = [runtime EXCEPT ![c].loop[k] = end, ![c].busy = busy]
    BY <1>25 DEF LoopEnds
  <2>2. busy \in BOOLEAN /\ end \in LoopPoints /\ runtime[c] \in RuntimeType
    BY <2>1
  <2>3. [runtime[c].loop EXCEPT ![k] = end] \in [Launches -> LoopPoints]
    BY <2>2
  <2>4. runtime' = [runtime EXCEPT ![c] =
                       [runtime[c] EXCEPT !.loop = [@ EXCEPT ![k] = end], !.busy = busy]]
    BY <2>1, <2>2
  <2>5. runtime' \in [Ids -> RuntimeType]
    BY <2>2, <2>3, <2>4
  <2> QED
    BY <1>25, <2>5 DEF LoopEnds
<1>26. CASE UNCHANGED vars
  BY <1>26 DEF vars
<1> QED
  BY <1>1, <1>2, <1>3, <1>4, <1>5, <1>6, <1>7, <1>8, <1>9, <1>10, <1>11, <1>12,
     <1>13, <1>14, <1>15, <1>16, <1>17, <1>18, <1>19, <1>20, <1>21, <1>22, <1>23,
     <1>24, <1>25, <1>26
  DEF Next, HostStep, CallStep, LoopStep

\* Every step keeps a call about one client, and a removal at its three points.
LEMMA CallsStep == ASSUME IInv, [Next]_vars PROVE CallsInOrder'
<1> USE IdsAssumption, HostAssumption, BoundsAssumption DEF IInv, TypeOK, CallsInOrder, stored, Ids,
         Callers, Idle, At, Points, Operations
<1>1. CASE Boot
  BY <1>1 DEF Boot
<1>2. CASE StopAll
  BY <1>2 DEF StopAll
<1>3. CASE ProcessEnds
  BY <1>3 DEF ProcessEnds
<1>4. CASE LoadPersistedClients
  BY <1>4 DEF LoadPersistedClients
<1>5. ASSUME NEW d \in Defaults, EnsureDefaultRow(d) PROVE CallsInOrder'
  BY <1>5 DEF EnsureDefaultRow
<1>6. ASSUME NEW d \in Defaults, EnsureDefaultRuntime(d) PROVE CallsInOrder'
  BY <1>6 DEF EnsureDefaultRuntime
<1>7. CASE DefaultsEnsured
  BY <1>7 DEF DefaultsEnsured
<1>8. ASSUME NEW c \in Ids, AutoStart(c) PROVE CallsInOrder'
  BY <1>8 DEF AutoStart, RuntimeStarts
<1>9. ASSUME NEW c \in Ids, StopNext(c) PROVE CallsInOrder'
  <2>1. CASE c \in clients
    BY <1>9, <2>1 DEF StopNext, Goes
  <2>2. CASE c \notin clients
    BY <1>9, <2>2 DEF StopNext
  <2> QED
    BY <2>1, <2>2
<1>10. CASE Serve
  BY <1>10 DEF Serve
<1>11. CASE StopAllReturns
  BY <1>11 DEF StopAllReturns
<1>12. ASSUME NEW p \in Calls, AddSaves(p) PROVE CallsInOrder'
  BY <1>12 DEF AddSaves, Begins, Goes
<1>13. ASSUME NEW p \in Calls, StartFinds(p) PROVE CallsInOrder'
  BY <1>13 DEF StartFinds, Begins, Goes
<1>14. ASSUME NEW p \in Calls, StopFinds(p) PROVE CallsInOrder'
  BY <1>14 DEF StopFinds, Begins, Goes
<1>15. ASSUME NEW p \in Calls, RemoveUnlists(p) PROVE CallsInOrder'
  BY <1>15 DEF RemoveUnlists, Begins, Goes
<1>16. ASSUME NEW p \in Callers, AddLists(p) PROVE CallsInOrder'
  BY <1>16 DEF AddLists, Returns
<1>17. ASSUME NEW p \in Callers, AddFails(p) PROVE CallsInOrder'
  BY <1>17 DEF AddFails, Returns
<1>18. ASSUME NEW p \in Callers, StartLaunches(p) PROVE CallsInOrder'
  BY <1>18 DEF StartLaunches, RuntimeStarts, Returns
<1>19. ASSUME NEW p \in Callers, StopBegins(p) PROVE CallsInOrder'
  BY <1>19 DEF StopBegins, AfterStop
<1>20. ASSUME NEW p \in Callers, StopFinishes(p) PROVE CallsInOrder'
  BY <1>20 DEF StopFinishes, AfterStop
<1>21. ASSUME NEW p \in Callers, StopThrows(p) PROVE CallsInOrder'
  BY <1>21 DEF StopThrows, Returns
<1>22. ASSUME NEW p \in Callers, RemoveDeletes(p) PROVE CallsInOrder'
  BY <1>22 DEF RemoveDeletes, Returns
<1>23. ASSUME NEW p \in Callers, RemoveFails(p) PROVE CallsInOrder'
  BY <1>23 DEF RemoveFails, Returns
<1>24. ASSUME NEW c \in Ids, NEW k \in Launches, LoopConnects(c, k) PROVE CallsInOrder'
  BY <1>24 DEF LoopConnects
<1>25. ASSUME NEW c \in Ids, NEW k \in Launches, LoopEnds(c, k) PROVE CallsInOrder'
  BY <1>25 DEF LoopEnds
<1>26. CASE UNCHANGED vars
  BY <1>26 DEF vars
<1> QED
  BY <1>1, <1>2, <1>3, <1>4, <1>5, <1>6, <1>7, <1>8, <1>9, <1>10, <1>11, <1>12,
     <1>13, <1>14, <1>15, <1>16, <1>17, <1>18, <1>19, <1>20, <1>21, <1>22, <1>23,
     <1>24, <1>25, <1>26
  DEF Next, HostStep, CallStep, LoopStep

\* Every step keeps the dictionary within the rows: a row is written before its runtime is
\* listed and deleted behind it, by the one call that adds or removes the client.
LEMMA RowsStep == ASSUME IInv, [Next]_vars PROVE RowsInOrder'
<1> USE IdsAssumption, HostAssumption, BoundsAssumption DEF IInv, TypeOK, CallsInOrder,
         RowsInOrder, ListedIsStored, Adding, Removing, stored, Ids, Callers, Idle, At, Phases,
         Points, Operations
<1>1. CASE Boot
  BY <1>1 DEF Boot
<1>2. CASE StopAll
  BY <1>2 DEF StopAll
<1>3. CASE ProcessEnds
  BY <1>3 DEF ProcessEnds
<1>4. CASE LoadPersistedClients
  BY <1>4 DEF LoadPersistedClients
<1>5. ASSUME NEW d \in Defaults, EnsureDefaultRow(d) PROVE RowsInOrder'
  BY <1>5 DEF EnsureDefaultRow
<1>6. ASSUME NEW d \in Defaults, EnsureDefaultRuntime(d) PROVE RowsInOrder'
  BY <1>6 DEF EnsureDefaultRuntime
<1>7. CASE DefaultsEnsured
  BY <1>7 DEF DefaultsEnsured
<1>8. ASSUME NEW c \in Ids, AutoStart(c) PROVE RowsInOrder'
  BY <1>8 DEF AutoStart, RuntimeStarts
<1>9. ASSUME NEW c \in Ids, StopNext(c) PROVE RowsInOrder'
  <2>1. CASE c \in clients
    BY <1>9, <2>1 DEF StopNext, Goes
  <2>2. CASE c \notin clients
    BY <1>9, <2>2 DEF StopNext
  <2> QED
    BY <2>1, <2>2
<1>10. CASE Serve
  BY <1>10 DEF Serve
<1>11. CASE StopAllReturns
  BY <1>11 DEF StopAllReturns
<1>12. ASSUME NEW p \in Calls, AddSaves(p) PROVE RowsInOrder'
  BY <1>12 DEF AddSaves, Begins, Goes
<1>13. ASSUME NEW p \in Calls, StartFinds(p) PROVE RowsInOrder'
  BY <1>13 DEF StartFinds, Begins, Goes
<1>14. ASSUME NEW p \in Calls, StopFinds(p) PROVE RowsInOrder'
  BY <1>14 DEF StopFinds, Begins, Goes
<1>15. ASSUME NEW p \in Calls, RemoveUnlists(p) PROVE RowsInOrder'
  BY <1>15 DEF RemoveUnlists, Begins, Goes
<1>16. ASSUME NEW p \in Callers, AddLists(p) PROVE RowsInOrder'
  BY <1>16 DEF AddLists, Returns
<1>17. ASSUME NEW p \in Callers, AddFails(p) PROVE RowsInOrder'
  BY <1>17 DEF AddFails, Returns
<1>18. ASSUME NEW p \in Callers, StartLaunches(p) PROVE RowsInOrder'
  BY <1>18 DEF StartLaunches, RuntimeStarts, Returns
<1>19. ASSUME NEW p \in Callers, StopBegins(p) PROVE RowsInOrder'
  BY <1>19 DEF StopBegins, AfterStop
<1>20. ASSUME NEW p \in Callers, StopFinishes(p) PROVE RowsInOrder'
  BY <1>20 DEF StopFinishes, AfterStop
<1>21. ASSUME NEW p \in Callers, StopThrows(p) PROVE RowsInOrder'
  <2>1. call' = [call EXCEPT ![p] = Idle] /\ UNCHANGED <<stored, clients, removed>>
    BY <1>21 DEF StopThrows, Returns
  <2> QED
    BY <2>1
<1>22. ASSUME NEW p \in Callers, RemoveDeletes(p) PROVE RowsInOrder'
  BY <1>22 DEF RemoveDeletes, Returns
<1>23. ASSUME NEW p \in Callers, RemoveFails(p) PROVE RowsInOrder'
  BY <1>23 DEF RemoveFails, Returns
<1>24. ASSUME NEW c \in Ids, NEW k \in Launches, LoopConnects(c, k) PROVE RowsInOrder'
  BY <1>24 DEF LoopConnects
<1>25. ASSUME NEW c \in Ids, NEW k \in Launches, LoopEnds(c, k) PROVE RowsInOrder'
  BY <1>25 DEF LoopEnds
<1>26. CASE UNCHANGED vars
  BY <1>26 DEF vars
<1> QED
  BY <1>1, <1>2, <1>3, <1>4, <1>5, <1>6, <1>7, <1>8, <1>9, <1>10, <1>11, <1>12,
     <1>13, <1>14, <1>15, <1>16, <1>17, <1>18, <1>19, <1>20, <1>21, <1>22, <1>23,
     <1>24, <1>25, <1>26
  DEF Next, HostStep, CallStep, LoopStep
\* What LoopsInOrder says of one loop, so that a step is looked at one loop at a time.
LoopInOrder(c, k) ==
    /\ k > runtime[c].launched => runtime[c].loop[k] = "none"
    /\ runtime[c].loop[k] = "cancelled" =>
          \E p \in Callers : At(p, "awaiting") /\ call[p].id = c /\ call[p].task = k
    /\ c \notin overtaken /\ Active(c, k) =>
          runtime[c].busy /\ \A p \in Callers : ~ (At(p, "awaiting") /\ call[p].id = c)
    /\ c \notin overtaken /\ MayPublish(c, k) =>
          /\ k = runtime[c].cts
          /\ \A p \in Callers : At(p, "awaiting") /\ call[p].id = c => call[p].task = k
          /\ c \in clients \/ \E p \in Callers : Stopping(p) /\ Removing(p, c)

\* The loops are in order when each of them is.
LEMMA LoopByLoop == LoopsInOrder <=> \A c \in Ids, k \in Launches : LoopInOrder(c, k)
<1> QED
  BY DEF LoopsInOrder, LoopInOrder

\* A StartAsync that launches: the new loop is the one the next StopAsync cancels, unless
\* it overtakes; the loops before it are over, cancelled or overtaken already.
LEMMA LaunchKeepsLoops ==
    ASSUME runtime \in [Ids -> RuntimeType], LoopsInOrder, NEW c \in Ids,
           RuntimeStarts(c), ~ runtime[c].busy, clients' = clients,
           \A p \in Callers : call[p].at \in {"stopping", "awaiting"} => call'[p] = call[p],
           \A p \in Callers : call'[p].at = "awaiting" => call'[p] = call[p]
    PROVE  LoopsInOrder'
<1> DEFINE n == runtime[c].launched + 1
           new == [busy |-> TRUE, cts |-> n, launched |-> n,
                   loop |-> [runtime[c].loop EXCEPT ![n] = "active"]]
<1>1. /\ n \in Launches
      /\ runtime' = [runtime EXCEPT ![c] = new]
      /\ overtaken' = IF Overtakes(c) THEN overtaken \cup {c} ELSE overtaken
  BY StartsRuntime
<1>2. runtime[c] \in RuntimeType /\ runtime[c].launched \in Nat
  BY BoundsAssumption DEF RuntimeType
<1>3. \A b \in Ids : b # c => runtime'[b] = runtime[b]
  BY <1>1
<1>4. /\ runtime'[c].cts = n /\ runtime'[c].busy /\ runtime'[c].launched = n
      /\ runtime'[c].loop[n] = "active"
      /\ \A k \in Launches : k # n => runtime'[c].loop[k] = runtime[c].loop[k]
  <2>1. runtime'[c] = new
    BY <1>1
  <2> QED
    BY <1>1, <1>2, <2>1 DEF RuntimeType
<1>5. \A k \in Launches : k > n => k > runtime[c].launched
  BY <1>1, <1>2 DEF Launches
<1>6. c \notin overtaken' =>
         /\ \A p \in Callers : ~ (call[p].at = "awaiting" /\ call[p].id = c)
         /\ c \in clients \/ \E p \in Callers : call[p].at = "stopping" /\ Removing(p, c)
  BY <1>1 DEF Overtakes, At, Removing
<1>7. /\ overtaken \subseteq overtaken'
      /\ \A b \in Ids : b # c => (b \in overtaken' <=> b \in overtaken)
  BY <1>1
<1> HIDE DEF n, new
<1>8. ASSUME NEW b \in Ids, NEW k \in Launches, b # c PROVE LoopInOrder(b, k)'
  <2>1. LoopInOrder(b, k)
    BY LoopByLoop
  <2>2. runtime'[b] = runtime[b] /\ (b \in overtaken' <=> b \in overtaken)
    BY <1>3, <1>7, <1>8
  <2> QED
    BY <2>1, <2>2 DEF LoopInOrder, At, Active, MayPublish, Stopping, Removing
<1>9. ASSUME NEW b \in Ids, NEW k \in Launches, b = c, k # n PROVE LoopInOrder(b, k)'
  <2>1. LoopInOrder(c, k)
    BY LoopByLoop
  <2>2. runtime'[c].loop[k] = runtime[c].loop[k]
    BY <1>4, <1>9
  <2>3. runtime[c].loop[k] = "active" => c \in overtaken'
    BY <2>1, <1>7 DEF LoopInOrder, Active
  <2>4. runtime[c].loop[k] = "cancelled" => c \in overtaken'
    BY <2>1, <1>6 DEF LoopInOrder, At
  <2> QED
    <3>1. b \notin overtaken' => ~ MayPublish(b, k)' /\ ~ Active(b, k)'
      BY <1>9, <2>2, <2>3, <2>4 DEF MayPublish, Active
    <3>2. runtime'[b].loop[k] = "cancelled" =>
             \E p \in Callers : call'[p].at = "awaiting" /\ call'[p].id = b /\ call'[p].task = k
      BY <1>9, <2>1, <2>2 DEF LoopInOrder, At
    <3>3. k > runtime'[b].launched => runtime'[b].loop[k] = "none"
      BY <1>4, <1>5, <1>9, <2>1, <2>2 DEF LoopInOrder
    <3> QED
      BY ONLY <3>1, <3>2, <3>3 DEF LoopInOrder, At
<1>10. ASSUME NEW b \in Ids, NEW k \in Launches, b = c, k = n PROVE LoopInOrder(b, k)'
  <2>1. ~ (n > n)
    BY <1>1 DEF Launches
  <2>2. c \notin overtaken' =>
           /\ \A p \in Callers : ~ (call'[p].at = "awaiting" /\ call'[p].id = c)
           /\ c \in clients' \/ \E p \in Callers : /\ call'[p].at = "stopping"
                                                /\ call'[p].op = "remove" /\ call'[p].id = c
    BY <1>6 DEF Removing
  <2> QED
    BY <1>4, <1>10, <2>1, <2>2 DEF LoopInOrder, At, Active, MayPublish, Stopping, Removing
<1>11. \A b \in Ids, k \in Launches : LoopInOrder(b, k)'
  BY <1>8, <1>9, <1>10
<1> QED
  BY <1>11 DEF LoopsInOrder, LoopInOrder

\* The critical section of StopAsync cancels the only loop of the client that still
\* publishes, and waits for it.
LEMMA StopKeepsLoops ==
    ASSUME runtime \in [Ids -> RuntimeType], call \in [Callers -> CallType], LoopsInOrder,
           NEW p \in Callers, StopBegins(p), call[p].id \in Ids
    PROVE  LoopsInOrder'
<1> DEFINE c == call[p].id
           r == runtime[c]
           t == r.cts
<1>1. c \in Ids /\ r \in RuntimeType /\ call[p].at = "stopping"
  BY DEF StopBegins, At
<1>2. /\ \A q \in Callers : q # p => call'[q] = call[q]
      /\ UNCHANGED <<clients, overtaken>>
  BY DEF StopBegins, AfterStop
<1>3. /\ \A b \in Ids : b # c => runtime'[b] = runtime[b]
      /\ runtime'[c].launched = r.launched
      /\ \A k \in Launches : k # t => runtime'[c].loop[k] = r.loop[k]
      /\ t = 0 => call'[p].at # "awaiting"
      /\ t # 0 => /\ runtime'[c].loop[t] = IF r.loop[t] = "active" THEN "cancelled" ELSE r.loop[t]
                  /\ call'[p].at = "awaiting" /\ call'[p].id = c /\ call'[p].task = t
                  /\ call'[p].op = call[p].op /\ runtime'[c].cts = t
  <2>1. CASE t = 0
    <3>1. runtime' = [runtime EXCEPT ![c] = [r EXCEPT !.busy = FALSE]]
      BY <2>1 DEF StopBegins
    <3>2. call'[p].at # "awaiting"
      BY <1>1, <2>1 DEF StopBegins, AfterStop, CallType, Idle
    <3> HIDE DEF c
    <3> QED
      BY <1>1, <2>1, <3>1, <3>2 DEF RuntimeType
  <2>2. CASE t # 0
    <3>1. t \in Launches
      BY <1>1, <2>2, BoundsAssumption DEF RuntimeType, Launches
    <3>2. runtime' = [runtime EXCEPT ![c] = [r EXCEPT !.loop =
                         [r.loop EXCEPT ![t] = IF @ = "active" THEN "cancelled" ELSE @]]]
      BY <2>2 DEF StopBegins
    <3>3. /\ call'[p].at = "awaiting" /\ call'[p].id = c /\ call'[p].task = t
          /\ call'[p].op = call[p].op
      BY <1>1, <2>2 DEF StopBegins, CallType
    <3> HIDE DEF c
    <3> QED
      BY <1>1, <2>2, <3>1, <3>2, <3>3 DEF RuntimeType
  <2> QED
    BY <2>1, <2>2
<1> HIDE DEF c, r, t
<1>4. ASSUME NEW b \in Ids, NEW k \in Launches, b # c PROVE LoopInOrder(b, k)'
  <2>1. LoopInOrder(b, k)
    BY LoopByLoop
  <2>2. runtime'[b] = runtime[b]
    BY <1>3, <1>4
  <2>3. call[p].id = c /\ (call'[p].at = "awaiting" => call'[p].id = c)
    BY <1>3 DEF c
  <2> QED
    BY <1>1, <1>2, <1>4, <2>1, <2>2, <2>3 DEF LoopInOrder, At, Active, MayPublish, Stopping, Removing
<1>5. ASSUME NEW b \in Ids, NEW k \in Launches, b = c PROVE LoopInOrder(b, k)'
  <2>1. LoopInOrder(c, k)
    BY <1>1, LoopByLoop
  <2>2. r = runtime[c] /\ t = r.cts
    BY DEF r, t
  <2>3. k # t /\ r.loop[k] \in {"active", "cancelled"} => c \in overtaken
    BY <2>1, <2>2 DEF LoopInOrder, MayPublish
  <2>4. k # 0
    BY DEF Launches
  <2>5. runtime'[c].loop[k] = "active" => c \in overtaken'
    BY <1>2, <1>3, <2>3, <2>4
  <2>6. runtime'[c].loop[k] = "cancelled" =>
           \E q \in Callers : call'[q].at = "awaiting" /\ call'[q].id = c /\ call'[q].task = k
    <3>1. CASE k = t
      BY <1>3, <2>4, <3>1
    <3>2. CASE k # t
      <4> SUFFICES ASSUME r.loop[k] = "cancelled"
                   PROVE  \E q \in Callers : /\ call'[q].at = "awaiting"
                                             /\ call'[q].id = c /\ call'[q].task = k
        BY <1>3, <3>2
      <4>1. PICK q \in Callers : call[q].at = "awaiting" /\ call[q].id = c /\ call[q].task = k
        BY <2>1, <2>2 DEF LoopInOrder, At
      <4> QED
        BY <1>1, <1>2, <4>1
    <3> QED
      BY <3>1, <3>2
  <2>7. k > r.launched => runtime'[c].loop[k] = "none"
    BY <1>3, <2>1, <2>2, <2>4 DEF LoopInOrder
  <2>8. ASSUME b \notin overtaken', MayPublish(b, k)'
        PROVE  /\ k = runtime'[b].cts
               /\ \A q \in Callers : call'[q].at = "awaiting" /\ call'[q].id = b => call'[q].task = k
               /\ b \in clients' \/ \E q \in Callers : Stopping(q)' /\ Removing(q, b)'
    <3>1. k = t
      BY <1>2, <1>3, <1>5, <2>3, <2>8 DEF MayPublish
    <3>2. c \notin overtaken /\ MayPublish(c, k)
      BY <1>2, <1>3, <1>5, <2>2, <2>4, <2>8, <3>1 DEF MayPublish
    <3>3. /\ \A q \in Callers : call[q].at = "awaiting" /\ call[q].id = c => call[q].task = k
          /\ c \in clients \/ \E q \in Callers : Stopping(q) /\ Removing(q, c)
      BY <2>1, <3>2 DEF LoopInOrder, At
    <3>4. call'[p].at = "awaiting" /\ call'[p].id = b /\ call'[p].op = call[p].op
      BY <1>3, <1>5, <2>4, <3>1
    <3>5. b \in clients' \/ \E q \in Callers : Stopping(q)' /\ Removing(q, b)'
      <4>1. CASE c \in clients
        BY <1>2, <1>5, <4>1
      <4>2. ASSUME NEW q \in Callers, Stopping(q), Removing(q, c)
            PROVE  Stopping(q)' /\ Removing(q, b)'
        BY <1>2, <1>5, <3>4, <4>2 DEF Stopping, Removing
      <4> QED
        BY <3>3, <4>1, <4>2
    <3> QED
      BY <1>2, <1>3, <1>5, <2>4, <3>1, <3>3, <3>5
  <2> QED
    <3>1. /\ k > runtime'[b].launched => runtime'[b].loop[k] = "none"
          /\ b \notin overtaken' => runtime'[b].loop[k] # "active"
          /\ runtime'[b].loop[k] = "cancelled" =>
                \E q \in Callers : call'[q].at = "awaiting" /\ call'[q].id = b /\ call'[q].task = k
      BY <1>3, <1>5, <2>2, <2>5, <2>6, <2>7
    <3> QED
      BY ONLY <2>8, <3>1 DEF LoopInOrder, At, Active
<1>6. \A b \in Ids, k \in Launches : LoopInOrder(b, k)'
  BY <1>4, <1>5
<1> QED
  BY <1>6 DEF LoopsInOrder, LoopInOrder

\* The loops stay in order: a launch makes the loop that the next StopAsync finds, or counts
\* as overtaking; a StopAsync cancels the only loop that publishes; and while somebody
\* waits for a loop of a client, none of its others publishes.
LEMMA LoopsStep == ASSUME IInv, [Next]_vars PROVE LoopsInOrder'
<1> USE IdsAssumption, HostAssumption, BoundsAssumption DEF IInv, TypeOK, CallsInOrder,
         LoopsInOrder, Removing, stored, Callers, Idle, At, Active, MayPublish, Stopping,
         Launches
<1>1. CASE Boot
  BY <1>1 DEF Boot
<1>2. CASE StopAll
  BY <1>2 DEF StopAll
<1>3. CASE ProcessEnds
  <2>1. \A c \in Ids, k \in Launches : runtime'[c].loop[k] = "none"
    BY <1>3 DEF ProcessEnds, NewRuntime
  <2> QED
    BY <2>1
<1>4. CASE LoadPersistedClients
  BY <1>4 DEF LoadPersistedClients
<1>5. ASSUME NEW d \in Defaults, EnsureDefaultRow(d) PROVE LoopsInOrder'
  BY <1>5 DEF EnsureDefaultRow
<1>6. ASSUME NEW d \in Defaults, EnsureDefaultRuntime(d) PROVE LoopsInOrder'
  BY <1>6 DEF EnsureDefaultRuntime
<1>7. CASE DefaultsEnsured
  BY <1>7 DEF DefaultsEnsured
<1>8. ASSUME NEW c \in Ids, AutoStart(c) PROVE LoopsInOrder'
  <2>1. CASE runtime[c].busy
    <3>1. UNCHANGED <<runtime, overtaken, clients, call>>
      BY <1>8, <2>1 DEF AutoStart, RuntimeStarts
    <3> QED
      BY <3>1
  <2>2. CASE ~ runtime[c].busy
    BY <1>8, <2>2, LaunchKeepsLoops DEF AutoStart, RuntimeType
  <2> QED
    BY <2>1, <2>2
<1>9. ASSUME NEW c \in Ids, StopNext(c) PROVE LoopsInOrder'
  <2>1. CASE c \in clients
    <3>1. UNCHANGED <<runtime, overtaken, clients>>
      BY <1>9 DEF StopNext
    <3>2. \A q \in Callers : call[q].at \in {"stopping", "awaiting"} => call'[q] = call[q]
      BY <1>9, <2>1 DEF StopNext, Goes
    <3>3. \A q \in Callers : call'[q].at = "awaiting" => call'[q] = call[q]
      BY <1>9, <2>1 DEF StopNext, Goes
    <3>4. ASSUME NEW b \in Ids, NEW k \in Launches PROVE LoopInOrder(b, k)'
      <4>1. LoopInOrder(b, k)
        BY LoopByLoop
      <4> QED
        BY ONLY <3>1, <3>2, <3>3, <4>1 DEF LoopInOrder, At, Active, MayPublish, Stopping, Removing
    <3> QED
      BY ONLY <3>4 DEF LoopsInOrder, LoopInOrder
  <2>2. CASE c \notin clients
    BY <1>9, <2>2 DEF StopNext
  <2> QED
    BY <2>1, <2>2
<1>10. CASE Serve
  BY <1>10 DEF Serve
<1>11. CASE StopAllReturns
  BY <1>11 DEF StopAllReturns
<1>12. ASSUME NEW p \in Calls, AddSaves(p) PROVE LoopsInOrder'
  BY <1>12 DEF AddSaves, Begins, Goes
<1>13. ASSUME NEW p \in Calls, StartFinds(p) PROVE LoopsInOrder'
  BY <1>13 DEF StartFinds, Begins, Goes
<1>14. ASSUME NEW p \in Calls, StopFinds(p) PROVE LoopsInOrder'
  BY <1>14 DEF StopFinds, Begins, Goes
<1>15. ASSUME NEW p \in Calls, RemoveUnlists(p) PROVE LoopsInOrder'
  BY <1>15 DEF RemoveUnlists, Begins, Goes
<1>16. ASSUME NEW p \in Callers, AddLists(p) PROVE LoopsInOrder'
  BY <1>16 DEF AddLists, Returns
<1>17. ASSUME NEW p \in Callers, AddFails(p) PROVE LoopsInOrder'
  BY <1>17 DEF AddFails, Returns
<1>18. ASSUME NEW p \in Callers, StartLaunches(p) PROVE LoopsInOrder'
  <2>1. CASE runtime[call[p].id].busy
    BY <1>18, <2>1 DEF StartLaunches, Returns, RuntimeStarts
  <2>2. CASE ~ runtime[call[p].id].busy
    <3>1. call[p].id \in Ids
      BY <1>18 DEF StartLaunches
    <3>2. \A q \in Callers : call[q].at # "starting" => call'[q] = call[q]
      BY <1>18 DEF StartLaunches, Returns
    <3>3. \A q \in Callers : call'[q].at # "idle" => call'[q] = call[q]
      BY <1>18 DEF StartLaunches, Returns
    <3>4. clients' = clients /\ RuntimeStarts(call[p].id)
      BY <1>18 DEF StartLaunches
    <3>5. /\ \A q \in Callers : call[q].at \in {"stopping", "awaiting"} => call'[q] = call[q]
          /\ \A q \in Callers : call'[q].at = "awaiting" => call'[q] = call[q]
          /\ runtime \in [Ids -> RuntimeType] /\ LoopsInOrder
      BY <3>2, <3>3 DEF RuntimeType
    <3> QED
      BY ONLY <2>2, <3>1, <3>4, <3>5, LaunchKeepsLoops
  <2> QED
    BY <2>1, <2>2
<1>19. ASSUME NEW p \in Callers, StopBegins(p) PROVE LoopsInOrder'
  <2>1. call[p].id \in Ids
    BY <1>19 DEF StopBegins
  <2> QED
    BY <1>19, <2>1, StopKeepsLoops DEF CallType, RuntimeType
<1>20. ASSUME NEW p \in Callers, StopFinishes(p) PROVE LoopsInOrder'
  BY <1>20 DEF StopFinishes, AfterStop
<1>21. ASSUME NEW p \in Callers, StopThrows(p) PROVE LoopsInOrder'
  BY <1>21 DEF StopThrows, Returns
<1>22. ASSUME NEW p \in Callers, RemoveDeletes(p) PROVE LoopsInOrder'
  BY <1>22 DEF RemoveDeletes, Returns
<1>23. ASSUME NEW p \in Callers, RemoveFails(p) PROVE LoopsInOrder'
  BY <1>23 DEF RemoveFails, Returns
<1>24. ASSUME NEW c \in Ids, NEW k \in Launches, LoopConnects(c, k) PROVE LoopsInOrder'
  BY <1>24 DEF LoopConnects
<1>25. ASSUME NEW c \in Ids, NEW k \in Launches, LoopEnds(c, k) PROVE LoopsInOrder'
  BY <1>25 DEF LoopEnds
<1>26. CASE UNCHANGED vars
  BY <1>26 DEF vars
<1> QED
  BY <1>1, <1>2, <1>3, <1>4, <1>5, <1>6, <1>7, <1>8, <1>9, <1>10, <1>11, <1>12,
     <1>13, <1>14, <1>15, <1>16, <1>17, <1>18, <1>19, <1>20, <1>21, <1>22, <1>23,
     <1>24, <1>25, <1>26
  DEF Next, HostStep, CallStep, LoopStep

\* The start of the process stays in order: until the page is up nobody calls, and each
\* client the service comes to is started once.
LEMMA BootStep == ASSUME IInv, [Next]_vars PROVE BootInOrder'
<1> USE IdsAssumption, HostAssumption, BoundsAssumption DEF IInv, TypeOK, CallsInOrder, RowsInOrder,
         BootInOrder, ListedIsStored, stored, Ids, Callers, Idle, At, Active, Launches, NewRuntime
<1>1. CASE Boot
  BY <1>1 DEF Boot
<1>2. CASE StopAll
  BY <1>2 DEF StopAll
<1>3. CASE ProcessEnds
  BY <1>3 DEF ProcessEnds
<1>4. CASE LoadPersistedClients
  BY <1>4 DEF LoadPersistedClients
<1>5. ASSUME NEW d \in Defaults, EnsureDefaultRow(d) PROVE BootInOrder'
  BY <1>5 DEF EnsureDefaultRow
<1>6. ASSUME NEW d \in Defaults, EnsureDefaultRuntime(d) PROVE BootInOrder'
  BY <1>6 DEF EnsureDefaultRuntime
<1>7. CASE DefaultsEnsured
  BY <1>7 DEF DefaultsEnsured
<1>8. ASSUME NEW c \in Ids, AutoStart(c) PROVE BootInOrder'
  BY <1>8 DEF AutoStart, RuntimeStarts
<1>9. ASSUME NEW c \in Ids, StopNext(c) PROVE BootInOrder'
  BY <1>9 DEF StopNext, Goes
<1>10. CASE Serve
  BY <1>10 DEF Serve
<1>11. CASE StopAllReturns
  BY <1>11 DEF StopAllReturns
<1>12. ASSUME NEW p \in Calls, AddSaves(p) PROVE BootInOrder'
  BY <1>12 DEF AddSaves, Begins, Goes
<1>13. ASSUME NEW p \in Calls, StartFinds(p) PROVE BootInOrder'
  BY <1>13 DEF StartFinds, Begins, Goes
<1>14. ASSUME NEW p \in Calls, StopFinds(p) PROVE BootInOrder'
  BY <1>14 DEF StopFinds, Begins, Goes
<1>15. ASSUME NEW p \in Calls, RemoveUnlists(p) PROVE BootInOrder'
  BY <1>15 DEF RemoveUnlists, Begins, Goes
<1>16. ASSUME NEW p \in Callers, AddLists(p) PROVE BootInOrder'
  BY <1>16 DEF AddLists, Returns
<1>17. ASSUME NEW p \in Callers, AddFails(p) PROVE BootInOrder'
  BY <1>17 DEF AddFails, Returns
<1>18. ASSUME NEW p \in Callers, StartLaunches(p) PROVE BootInOrder'
  BY <1>18 DEF StartLaunches, RuntimeStarts, Returns
<1>19. ASSUME NEW p \in Callers, StopBegins(p) PROVE BootInOrder'
  BY <1>19 DEF StopBegins, AfterStop
<1>20. ASSUME NEW p \in Callers, StopFinishes(p) PROVE BootInOrder'
  BY <1>20 DEF StopFinishes, AfterStop
<1>21. ASSUME NEW p \in Callers, StopThrows(p) PROVE BootInOrder'
  BY <1>21 DEF StopThrows, Returns
<1>22. ASSUME NEW p \in Callers, RemoveDeletes(p) PROVE BootInOrder'
  BY <1>22 DEF RemoveDeletes, Returns
<1>23. ASSUME NEW p \in Callers, RemoveFails(p) PROVE BootInOrder'
  BY <1>23 DEF RemoveFails, Returns
<1>24. ASSUME NEW c \in Ids, NEW k \in Launches, LoopConnects(c, k) PROVE BootInOrder'
  <2>1. phase \notin {"down", "loading", "defaults"} /\ (phase = "autostart" => c \notin todo)
    BY <1>24 DEF LoopConnects
  <2>2. /\ \A b \in Ids : b # c => runtime'[b] = runtime[b]
        /\ runtime'[c].launched = runtime[c].launched
        /\ UNCHANGED <<phase, clients, rows, todo>>
    BY <1>24 DEF LoopConnects
  <2> QED
    BY <2>1, <2>2
<1>25. ASSUME NEW c \in Ids, NEW k \in Launches, LoopEnds(c, k) PROVE BootInOrder'
  <2>1. phase \notin {"down", "loading", "defaults"} /\ (phase = "autostart" => c \notin todo)
    BY <1>25 DEF LoopEnds, MayPublish
  <2>2. /\ \A b \in Ids : b # c => runtime'[b] = runtime[b]
        /\ runtime'[c].launched = runtime[c].launched
        /\ UNCHANGED <<phase, clients, rows, todo>>
    BY <1>25 DEF LoopEnds
  <2> QED
    BY <2>1, <2>2
<1>26. CASE UNCHANGED vars
  BY <1>26 DEF vars
<1> QED
  BY <1>1, <1>2, <1>3, <1>4, <1>5, <1>6, <1>7, <1>8, <1>9, <1>10, <1>11, <1>12,
     <1>13, <1>14, <1>15, <1>16, <1>17, <1>18, <1>19, <1>20, <1>21, <1>22, <1>23,
     <1>24, <1>25, <1>26
  DEF Next, HostStep, CallStep, LoopStep

-----------------------------------------------------------------------------
\* Before the first start of the process there is nothing.
LEMMA InitInv == Init => IInv
<1> SUFFICES ASSUME Init PROVE IInv
  OBVIOUS
<1> USE BoundsAssumption DEF Init, Idle, NewRuntime, At, Active, MayPublish, Launches, Callers, Ids
<1>1. TypeOK
  BY DEF TypeOK, Phases, Points, Operations, LoopPoints
<1>2. CallsInOrder /\ RowsInOrder
  BY DEF CallsInOrder, RowsInOrder, ListedIsStored, Adding, Removing
<1>3. LoopsInOrder /\ BootInOrder
  BY DEF LoopsInOrder, BootInOrder
<1> QED
  BY <1>1, <1>2, <1>3 DEF IInv

\* The invariant behind the theorems.
THEOREM Invariant == Spec => []IInv
<1>1. IInv /\ [Next]_vars => IInv'
  BY TypeStep, CallsStep, RowsStep, LoopsStep, BootStep DEF IInv
<1> QED
  BY InitInv, <1>1, PTL DEF Spec

\* The types, for any set of clients and calls and any bounds.
THEOREM TypeCorrect == Spec => []TypeOK
<1>1. IInv => TypeOK
  BY DEF IInv
<1> QED
  BY Invariant, <1>1, PTL

\* What the page lists is in the database at every moment: AddClientAsync saves the row
\* before it lists the runtime, and RemoveClientAsync takes the runtime out first.
THEOREM ListedStored == Spec => []ListedIsStored
<1>1. IInv => ListedIsStored
  BY DEF IInv, RowsInOrder
<1> QED
  BY Invariant, <1>1, PTL

\* An added client whose RemoveClientAsync has returned never comes back, over any number
\* of crashes and starts: no other call still adds it, and its id is not drawn again.
THEOREM RemovedAway == Spec => []RemovedStaysRemoved
<1>1. IInv => RemovedStaysRemoved
  BY DEF IInv, RowsInOrder, ListedIsStored, RemovedStaysRemoved
<1> QED
  BY Invariant, <1>1, PTL

\* A client without a row has no loop that is active, or cancelled and not yet over, unless
\* a start has overtaken a stop or the removal: the client of such a loop would be
\* listed, and so stored, or its removal would still be in StopAsync, which is before
\* the row is deleted.
THEOREM RemovedSilent == Spec => []RemovedIsSilent
<1>1. IInv => RemovedIsSilent
  <2> SUFFICES ASSUME IInv, NEW c \in Ids \ rows, c \notin overtaken, NEW k \in Launches
               PROVE  ~ MayPublish(c, k)
    BY DEF RemovedIsSilent
  <2>1. c \notin clients
    BY DEF IInv, RowsInOrder, ListedIsStored
  <2>2. \A p \in Callers : ~ Removing(p, c)
    BY DEF IInv, RowsInOrder
  <2> QED
    BY <2>1, <2>2 DEF IInv, LoopsInOrder
<1> QED
  BY Invariant, <1>1, PTL

\* Every start of the process ends with each row listed and started once, and the default
\* clients among them, whatever the process before it left half done.
THEOREM RestartWhole == Spec => RestartRestores
<1> DEFINE Restored == /\ clients = rows /\ Defaults \subseteq clients
                       /\ \A c \in clients : runtime[c].launched = 1
<1>1. IInv /\ [Next]_vars => [phase' = "serving" /\ phase # "serving" => Restored]_vars
  <2> SUFFICES ASSUME IInv, Next, phase' = "serving", phase # "serving" PROVE Restored
    BY DEF vars
  <2>1. Serve
    BY DEF Next, HostStep, CallStep, LoopStep, Boot, StopAll, ProcessEnds,
           LoadPersistedClients, EnsureDefaultRow, EnsureDefaultRuntime, DefaultsEnsured,
           AutoStart, StopNext, StopAllReturns, AddSaves, StartFinds, StopFinds,
           RemoveUnlists, AddLists, AddFails, StartLaunches, StopBegins, StopFinishes,
           StopThrows, RemoveDeletes, RemoveFails, LoopConnects, LoopEnds
  <2> QED
    BY <2>1 DEF Serve, IInv, BootInOrder
<1> QED
  BY Invariant, <1>1, PTL DEF Spec, RestartRestores
=============================================================================

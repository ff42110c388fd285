------------------------- MODULE ClientRuntimeProofs -------------------------
(***************************************************************************)
(* The runtime for any number of callers and launches: whoever calls, a    *)
(* StopAsync comes back after the loop it cancelled; until a StartAsync     *)
(* overtakes a StopAsync, every active loop can be stopped and Status      *)
(* tells what it does.                                                     *)
(***************************************************************************)
EXTENDS ClientRuntime, TLAPS

\* The semaphore is held by the one call that launches, and only while there is a
\* loop left to launch; loops are launched in the order of their numbers.
GateInOrder ==
    /\ \A p \in Callers : call[p] = "launching" <=> gate = p
    /\ gate # Free => launched < MaxLoops
    /\ \A k \in Loops : k > launched => loop[k] = "none"

TypeInv == TypeOK /\ GateInOrder

\* The two fields change together, and a StopAsync keeps the task of the source it
\* cancelled.
StopsPaired ==
    /\ loopCts = loopTask /\ loopCts <= launched
    /\ \A p \in Callers : Stopping(p) => /\ awaited[p] \in Loops /\ awaited[p] <= launched
                                         /\ cancelled[awaited[p]]
    /\ \A p \in Callers : call[p] = "finishing" => loop[awaited[p]] = "ended"

\* Not overtaken: nothing runs and nobody stops while a loop is launched; the fields
\* name the newest loop or none, and every StopAsync waits for the newest.
StopsInOrder ==
    /\ \A p \in Callers : call[p] = "launching" =>
          /\ \A q \in Callers : ~ Stopping(q)
          /\ \A k \in Loops : ~ Active(k)
    /\ \A p \in Callers : Stopping(p) => awaited[p] = launched
    /\ loopCts \in {0, launched}

IInv == /\ TypeInv /\ StopsPaired
        /\ ~ overtaken => StopsInOrder /\ ActiveLoopIsStoppable /\ StatusIsTruthful

-----------------------------------------------------------------------------
\* The runtime starts stopped, with no loop and no call.
LEMMA TypeInit == Init => TypeInv
<1> SUFFICES ASSUME Init PROVE TypeInv
  OBVIOUS
<1>1. /\ loop \in [Loops -> LoopPoints] /\ cancelled \in [Loops -> BOOLEAN]
      /\ overtaken \in BOOLEAN
  BY DEF Init, LoopPoints
<1>2. /\ call \in [Callers -> {"idle", "launching", "awaiting", "finishing"}]
      /\ awaited \in [Callers -> 0 .. MaxLoops]
  BY BoundsAssumption DEF Init
<1>3. /\ gate \in Callers \cup {Free} /\ status \in Statuses
      /\ loopCts \in 0 .. MaxLoops /\ loopTask \in 0 .. MaxLoops
      /\ published \in Nat /\ launched \in 0 .. MaxLoops
  BY BoundsAssumption DEF Init, Statuses
<1>4. GateInOrder
  BY CallersAssumption DEF Init, GateInOrder
<1> QED
  BY <1>1, <1>2, <1>3, <1>4 DEF TypeInv, TypeOK

\* The types, and the order in which the semaphore lets calls launch loops, hold
\* through every step of StartAsync, StopAsync and RunLoopAsync.
LEMMA TypeInvariant == Spec => []TypeInv
<1>1. TypeInv /\ [Next]_vars => TypeInv'
  <2> SUFFICES ASSUME TypeInv, [Next]_vars PROVE TypeInv'
    OBVIOUS
  <2> USE BoundsAssumption, CallersAssumption
      DEF TypeInv, TypeOK, GateInOrder, Loops, LoopPoints, Statuses
  <2>1. ASSUME NEW p \in Callers, StartReturns(p) PROVE TypeInv'
    BY <2>1 DEF StartReturns, vars, fields, loops
  <2>2. ASSUME NEW p \in Callers, StartEnters(p) PROVE TypeInv'
    BY <2>2 DEF StartEnters, fields, loops
  <2>3. ASSUME NEW p \in Callers, StartLaunches(p) PROVE TypeInv'
    BY <2>3 DEF StartLaunches
  <2>4. ASSUME NEW p \in Callers, StopFindsNothing(p) PROVE TypeInv'
    BY <2>4 DEF StopFindsNothing, loops
  <2>5. ASSUME NEW p \in Callers, StopCancels(p) PROVE TypeInv'
    BY <2>5 DEF StopCancels, fields
  <2>6. ASSUME NEW p \in Callers, StopResumes(p) PROVE TypeInv'
    BY <2>6 DEF StopResumes, fields, loops
  <2>7. ASSUME NEW p \in Callers, StopThrows(p) PROVE TypeInv'
    BY <2>7 DEF StopThrows, fields, loops
  <2>8. ASSUME NEW p \in Callers, StopFinishes(p) PROVE TypeInv'
    BY <2>8 DEF StopFinishes, loops
  <2>9. ASSUME NEW k \in Loops, LoopConnects(k) PROVE TypeInv'
    BY <2>9 DEF LoopConnects
  <2>10. ASSUME NEW k \in Loops, LoopPublishes(k) PROVE TypeInv'
    BY <2>10 DEF LoopPublishes, fields
  <2>11. ASSUME NEW k \in Loops, LoopCancelled(k) PROVE TypeInv'
    BY <2>11 DEF LoopCancelled, EntersFinally
  <2>12. ASSUME NEW k \in Loops, LoopLeaves(k) PROVE TypeInv'
    BY <2>12 DEF LoopLeaves, EntersFinally, fields
  <2>13. ASSUME NEW k \in Loops, LoopFaults(k) PROVE TypeInv'
    BY <2>13 DEF LoopFaults, EntersFinally
  <2>14. ASSUME NEW k \in Loops, LoopEnds(k) PROVE TypeInv'
    BY <2>14 DEF LoopEnds, fields
  <2>15. ASSUME NEW k \in Loops, DisconnectFails(k) PROVE TypeInv'
    BY <2>15 DEF DisconnectFails, fields
  <2>16. CASE UNCHANGED vars
    BY <2>16 DEF vars, fields, loops
  <2> QED
    BY <2>1, <2>2, <2>3, <2>4, <2>5, <2>6, <2>7, <2>8, <2>9, <2>10, <2>11, <2>12,
       <2>13, <2>14, <2>15, <2>16
    DEF Next, CallStep, LoopStep
<1> QED
  BY TypeInit, <1>1, PTL DEF Spec

\* The semaphore, the fields, the loops and the calls keep their types, whoever
\* calls StartAsync and StopAsync, and how ever the calls overlap.
THEOREM TypeCorrect == Spec => []TypeOK
  BY TypeInvariant, PTL DEF TypeInv

-----------------------------------------------------------------------------
(* Any callers.                                                            *)

LEMMA PairedStep == ASSUME TypeInv, StopsPaired, [Next]_vars PROVE StopsPaired'
<1> USE BoundsAssumption, CallersAssumption
    DEF TypeInv, TypeOK, GateInOrder, StopsPaired, Loops, LoopPoints, Stopping
<1>1. ASSUME NEW p \in Callers, StartReturns(p) PROVE StopsPaired'
  BY <1>1 DEF StartReturns, vars, fields, loops
<1>2. ASSUME NEW p \in Callers, StartEnters(p) PROVE StopsPaired'
  BY <1>2 DEF StartEnters, fields, loops
<1>3. ASSUME NEW p \in Callers, StartLaunches(p) PROVE StopsPaired'
  BY <1>3 DEF StartLaunches
<1>4. ASSUME NEW p \in Callers, StopFindsNothing(p) PROVE StopsPaired'
  BY <1>4 DEF StopFindsNothing, loops
<1>5. ASSUME NEW p \in Callers, StopCancels(p) PROVE StopsPaired'
  BY <1>5 DEF StopCancels, fields
<1>6. ASSUME NEW p \in Callers, StopResumes(p) PROVE StopsPaired'
  BY <1>6 DEF StopResumes, fields, loops
<1>7. ASSUME NEW p \in Callers, StopThrows(p) PROVE StopsPaired'
  BY <1>7 DEF StopThrows, fields, loops
<1>8. ASSUME NEW p \in Callers, StopFinishes(p) PROVE StopsPaired'
  BY <1>8 DEF StopFinishes, loops
<1>9. ASSUME NEW k \in Loops, LoopConnects(k) PROVE StopsPaired'
  BY <1>9 DEF LoopConnects
<1>10. ASSUME NEW k \in Loops, LoopPublishes(k) PROVE StopsPaired'
  BY <1>10 DEF LoopPublishes, fields
<1>11. ASSUME NEW k \in Loops, LoopCancelled(k) PROVE StopsPaired'
  BY <1>11 DEF LoopCancelled, EntersFinally
<1>12. ASSUME NEW k \in Loops, LoopLeaves(k) PROVE StopsPaired'
  BY <1>12 DEF LoopLeaves, EntersFinally, fields
<1>13. ASSUME NEW k \in Loops, LoopFaults(k) PROVE StopsPaired'
  BY <1>13 DEF LoopFaults, EntersFinally
<1>14. ASSUME NEW k \in Loops, LoopEnds(k) PROVE StopsPaired'
  BY <1>14 DEF LoopEnds, fields
<1>15. ASSUME NEW k \in Loops, DisconnectFails(k) PROVE StopsPaired'
  BY <1>15 DEF DisconnectFails, fields
<1>16. CASE UNCHANGED vars
  BY <1>16 DEF vars, fields, loops
<1> QED
  BY <1>1, <1>2, <1>3, <1>4, <1>5, <1>6, <1>7, <1>8, <1>9, <1>10, <1>11, <1>12,
     <1>13, <1>14, <1>15, <1>16
  DEF Next, CallStep, LoopStep

LEMMA Paired == Spec => []StopsPaired
<1>1. Init => StopsPaired
  BY DEF Init, StopsPaired, Stopping
<1> QED
  BY TypeInvariant, PairedStep, <1>1, PTL DEF Spec

\* When a StopAsync comes back the loop it waited for is one it cancelled, and is
\* over, for any number of overlapping calls.
THEOREM StopIsThorough == Spec => StoppedLoopIsOver
<1>1. TypeInv /\ StopsPaired /\ [Next]_vars =>
        [\A p \in Callers : Stopping(p) /\ ~ Stopping(p)' =>
            cancelled[awaited[p]] /\ loop[awaited[p]] \in {"ended", "failed"}]_vars
  <2> SUFFICES ASSUME TypeInv, StopsPaired, Next, NEW p \in Callers,
                      Stopping(p), ~ Stopping(p)'
               PROVE  cancelled[awaited[p]] /\ loop[awaited[p]] \in {"ended", "failed"}
    BY DEF vars
  <2>1. cancelled[awaited[p]]
    BY DEF StopsPaired
  <2>2. call \in [Callers -> {"idle", "launching", "awaiting", "finishing"}]
    BY DEF TypeInv, TypeOK
  <2>3. call'[p] # call[p]
    BY DEF Stopping
  <2>4. PICK q \in Callers : StopThrows(q) \/ StopFinishes(q) \/ StartEnters(q)
                             \/ StartLaunches(q) \/ StopCancels(q) \/ StopResumes(q)
    BY <2>3 DEF Next, CallStep, LoopStep, StartReturns, StopFindsNothing, LoopConnects,
                LoopPublishes, LoopCancelled, LoopLeaves, LoopFaults, LoopEnds,
                DisconnectFails, vars
  <2>5. q = p /\ (StopThrows(p) \/ StopFinishes(p))
    BY <2>2, <2>3, <2>4
    DEF StopThrows, StopFinishes, StartEnters, StartLaunches, StopCancels, StopResumes,
        Stopping
  <2>6. StopThrows(p) => loop[awaited[p]] = "failed"
    BY DEF StopThrows
  <2>7. StopFinishes(p) => loop[awaited[p]] = "ended"
    BY DEF StopFinishes, StopsPaired
  <2> QED
    BY <2>1, <2>5, <2>6, <2>7
<1> QED
  BY TypeInvariant, Paired, <1>1, PTL DEF Spec, StoppedLoopIsOver

-----------------------------------------------------------------------------
(* Until a StartAsync overtakes a StopAsync.                                *)

LEMMA InitIInv == Init => IInv
<1> SUFFICES ASSUME Init PROVE IInv
  OBVIOUS
<1>1. TypeInv
  BY TypeInit
<1>2. StopsPaired /\ StopsInOrder
  BY DEF Init, StopsPaired, StopsInOrder, Loops, Stopping, Active
<1>3. ActiveLoopIsStoppable /\ StatusIsTruthful
  BY DEF Init, ActiveLoopIsStoppable, StatusIsTruthful, Active, Busy
<1> QED
  BY <1>1, <1>2, <1>3 DEF IInv

LEMMA StepIInv == ASSUME IInv, [Next]_vars PROVE IInv'
<1> USE BoundsAssumption, CallersAssumption
    DEF IInv, TypeInv, TypeOK, GateInOrder, StopsInOrder, ActiveLoopIsStoppable,
        StatusIsTruthful, StopsPaired, Loops, LoopPoints, Statuses, Stopping, Active, Busy
<1>1. ASSUME NEW p \in Callers, StartReturns(p) PROVE IInv'
  BY <1>1 DEF StartReturns, vars, fields, loops
<1>2. ASSUME NEW p \in Callers, StartEnters(p) PROVE IInv'
  BY <1>2 DEF StartEnters, fields, loops
<1>3. ASSUME NEW p \in Callers, StartLaunches(p) PROVE IInv'
  BY <1>3 DEF StartLaunches
<1>4. ASSUME NEW p \in Callers, StopFindsNothing(p) PROVE IInv'
  BY <1>4 DEF StopFindsNothing, loops
<1>5. ASSUME NEW p \in Callers, StopCancels(p) PROVE IInv'
  BY <1>5 DEF StopCancels, fields
<1>6. ASSUME NEW p \in Callers, StopResumes(p) PROVE IInv'
  BY <1>6 DEF StopResumes, fields, loops
<1>7. ASSUME NEW p \in Callers, StopThrows(p) PROVE IInv'
  BY <1>7 DEF StopThrows, fields, loops
<1>8. ASSUME NEW p \in Callers, StopFinishes(p) PROVE IInv'
  BY <1>8 DEF StopFinishes, loops
<1>9. ASSUME NEW k \in Loops, LoopConnects(k) PROVE IInv'
  BY <1>9 DEF LoopConnects
<1>10. ASSUME NEW k \in Loops, LoopPublishes(k) PROVE IInv'
  BY <1>10 DEF LoopPublishes, fields
<1>11. ASSUME NEW k \in Loops, LoopCancelled(k) PROVE IInv'
  BY <1>11 DEF LoopCancelled, EntersFinally
<1>12. ASSUME NEW k \in Loops, LoopLeaves(k) PROVE IInv'
  BY <1>12 DEF LoopLeaves, EntersFinally, fields
<1>13. ASSUME NEW k \in Loops, LoopFaults(k) PROVE IInv'
  BY <1>13 DEF LoopFaults, EntersFinally
<1>14. ASSUME NEW k \in Loops, LoopEnds(k) PROVE IInv'
  BY <1>14 DEF LoopEnds, fields
<1>15. ASSUME NEW k \in Loops, DisconnectFails(k) PROVE IInv'
  BY <1>15 DEF DisconnectFails, fields
<1>16. CASE UNCHANGED vars
  BY <1>16 DEF vars, fields, loops
<1> QED
  BY <1>1, <1>2, <1>3, <1>4, <1>5, <1>6, <1>7, <1>8, <1>9, <1>10, <1>11, <1>12,
     <1>13, <1>14, <1>15, <1>16
  DEF Next, CallStep, LoopStep

LEMMA Invariant == Spec => []IInv
  BY InitIInv, StepIInv, PTL DEF Spec

\* Until a start overtakes a stop, every loop that connects or publishes is the one
\* whose token the next StopAsync cancels.
THEOREM LoopStoppable == Spec => []StoppableUnlessOvertaken
<1>1. IInv => StoppableUnlessOvertaken
  BY DEF IInv, StoppableUnlessOvertaken
<1> QED
  BY Invariant, <1>1, PTL

\* As long, what the page shows is what the loop does.
THEOREM StatusTruthful == Spec => []TruthfulUnlessOvertaken
<1>1. IInv => TruthfulUnlessOvertaken
  BY DEF IInv, TruthfulUnlessOvertaken
<1> QED
  BY Invariant, <1>1, PTL

\* As long, a client that was stopped publishes nothing more.
THEOREM SilentWhenStopped == Spec => StoppedClientIsSilent
<1>1. IInv /\ [Next]_vars => [published' # published /\ ~ overtaken => loopCts # 0]_vars
  <2> SUFFICES ASSUME IInv, Next, published' # published, ~ overtaken PROVE loopCts # 0
    BY DEF vars, loops
  <2>1. PICK k \in Loops : LoopPublishes(k)
    BY DEF Next, CallStep, LoopStep, StartReturns, StartEnters, StartLaunches,
           StopFindsNothing, StopCancels, StopResumes, StopThrows, StopFinishes,
           LoopConnects, LoopCancelled, LoopLeaves, LoopFaults, LoopEnds,
           DisconnectFails, vars, loops
  <2> QED
    BY <2>1, BoundsAssumption
    DEF LoopPublishes, IInv, ActiveLoopIsStoppable, Active, Loops
<1> QED
  BY Invariant, <1>1, PTL DEF Spec, StoppedClientIsSilent
==============================================================================

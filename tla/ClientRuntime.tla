---------------------------- MODULE ClientRuntime ----------------------------
(***************************************************************************)
(* ClientRuntime of the client simulator: one simulated MQTT client, whose *)
(* publish loop the page's buttons, the hosted service and the removal of  *)
(* the client start and stop from several threads.  StartAsync and         *)
(* StopAsync share a semaphore, but StopAsync lets go of it while it waits *)
(* for the loop, and the loop writes Status without it.                    *)
(*                                                                         *)
(* The k-th StartAsync that launches makes the k-th CancellationTokenSource*)
(* and the k-th RunLoopAsync task: both are known by k, and 0 is null.     *)
(***************************************************************************)
EXTENDS Naturals

CONSTANTS
    Callers,            \* concurrent calls of StartAsync and StopAsync
    MaxLoops,           \* launches at most (bound)
    MaxPublished,       \* messages counted at most (bound)
    DisconnectMayFail,  \* the MQTT library's DisconnectAsync can throw
    Free                \* the semaphore when no call holds it

ASSUME CallersAssumption == Free \notin Callers
ASSUME BoundsAssumption == MaxLoops \in Nat \ {0} /\ MaxPublished \in Nat
ASSUME SwitchAssumption == DisconnectMayFail \in BOOLEAN

Loops == 1 .. MaxLoops

VARIABLES
    gate,       \* _gate: Free, or the call inside
    status,     \* Status
    loopCts,    \* _loopCts
    loopTask,   \* _loopTask
    published,  \* _publishCount
    launched,   \* how many loops were launched
    cancelled,  \* cancelled[k]: the k-th token source was cancelled
    loop,       \* loop[k]: where the k-th RunLoopAsync is
    call,       \* call[p]: where the call p is
    awaited,    \* awaited[p]: runningTask of the StopAsync p
    overtaken   \* history: a StartAsync launched while a StopAsync had not returned

fields == <<status, loopCts, loopTask>>
loops  == <<launched, cancelled, loop, published>>
vars   == <<gate, fields, loops, call, awaited, overtaken>>

Statuses == {"Stopped", "Starting", "Running", "Faulted"}

Init ==
    /\ gate = Free
    /\ status = "Stopped"
    /\ loopCts = 0 /\ loopTask = 0
    /\ published = 0
    /\ launched = 0
    /\ cancelled = [k \in Loops |-> FALSE]
    /\ loop = [k \in Loops |-> "none"]
    /\ call = [p \in Callers |-> "idle"]
    /\ awaited = [p \in Callers |-> 0]
    /\ overtaken = FALSE

Stopping(p) == call[p] \in {"awaiting", "finishing"}

-----------------------------------------------------------------------------
(* StartAsync.                                                             *)

\* Variant: a client that still connects is started once more.
BusyOnceConnected == status = "Running"

Busy == status \in {"Starting", "Running"}

\* The client is on its way or runs: nothing to do.
StartReturns(p) ==
    /\ call[p] = "idle" /\ gate = Free /\ Busy
    /\ UNCHANGED vars

StartEnters(p) ==
    /\ call[p] = "idle" /\ gate = Free /\ ~ Busy
    /\ launched < MaxLoops
    /\ gate' = p
    /\ call' = [call EXCEPT ![p] = "launching"]
    /\ overtaken' = (overtaken \/ \E q \in Callers : Stopping(q))
    /\ UNCHANGED <<fields, loops, awaited>>

StartLaunches(p) ==
    /\ call[p] = "launching"
    /\ status' = "Starting"
    /\ launched' = launched + 1
    /\ loopCts' = launched' /\ loopTask' = launched'
    /\ loop' = [loop EXCEPT ![launched'] = "connecting"]
    /\ gate' = Free
    /\ call' = [call EXCEPT ![p] = "idle"]
    /\ UNCHANGED <<published, cancelled, awaited, overtaken>>

-----------------------------------------------------------------------------
(* StopAsync.                                                              *)

StopFindsNothing(p) ==
    /\ call[p] = "idle" /\ gate = Free /\ loopCts = 0
    /\ status' = "Stopped"
    /\ UNCHANGED <<gate, loopCts, loopTask, loops, call, awaited, overtaken>>

\* Variant: StopAsync keeps the semaphore while it waits for the loop.
StopHoldsGate(p) ==
    /\ call[p] = "idle" /\ gate = Free /\ loopCts # 0
    /\ cancelled' = [cancelled EXCEPT ![loopCts] = TRUE]
    /\ awaited' = [awaited EXCEPT ![p] = loopTask]
    /\ gate' = p
    /\ call' = [call EXCEPT ![p] = "awaiting"]
    /\ UNCHANGED <<fields, launched, loop, published, overtaken>>

StopCancels(p) ==
    /\ call[p] = "idle" /\ gate = Free /\ loopCts # 0
    /\ cancelled' = [cancelled EXCEPT ![loopCts] = TRUE]
    /\ awaited' = [awaited EXCEPT ![p] = loopTask]
    /\ call' = [call EXCEPT ![p] = "awaiting"]
    /\ UNCHANGED <<gate, fields, launched, loop, published, overtaken>>

\* Variant: the task is not awaited.
StopDoesNotWait(p) ==
    /\ call[p] = "awaiting"
    /\ call' = [call EXCEPT ![p] = "finishing"]
    /\ UNCHANGED <<gate, fields, loops, awaited, overtaken>>

\* The awaited task is over, the semaphore is asked for again.
StopResumes(p) ==
    /\ call[p] = "awaiting" /\ loop[awaited[p]] = "ended"
    /\ call' = [call EXCEPT ![p] = "finishing"]
    /\ UNCHANGED <<gate, fields, loops, awaited, overtaken>>

\* The awaited task failed: the exception leaves StopAsync half way.
StopThrows(p) ==
    /\ call[p] = "awaiting" /\ loop[awaited[p]] = "failed"
    /\ call' = [call EXCEPT ![p] = "idle"]
    /\ UNCHANGED <<gate, fields, loops, awaited, overtaken>>

\* It clears the fields of the runtime, whoever set them.
StopFinishes(p) ==
    /\ call[p] = "finishing" /\ gate = Free
    /\ status' = "Stopped"
    /\ loopCts' = 0 /\ loopTask' = 0
    /\ call' = [call EXCEPT ![p] = "idle"]
    /\ UNCHANGED <<gate, loops, awaited, overtaken>>

-----------------------------------------------------------------------------
(* RunLoopAsync, on its own threads.                                       *)

LoopConnects(k) ==
    /\ loop[k] = "connecting"
    /\ loop' = [loop EXCEPT ![k] = "running"]
    /\ status' = "Running"
    /\ UNCHANGED <<gate, loopCts, loopTask, launched, cancelled, published, call, awaited, overtaken>>

\* A message is acknowledged, perhaps while the token is being cancelled.
LoopPublishes(k) ==
    /\ loop[k] = "running" /\ published < MaxPublished
    /\ published' = published + 1
    /\ UNCHANGED <<gate, fields, launched, cancelled, loop, call, awaited, overtaken>>

\* Where the finally block finds the loop: connected to the broker or not.
EntersFinally(k) ==
    \E point \in {"disconnecting", "leaving"} :
        /\ loop[k] = "connecting" => point = "leaving"
        /\ loop' = [loop EXCEPT ![k] = point]

\* Variant: the connect does not get the token.
ConnectIgnoresToken(k) ==
    /\ loop[k] = "running" /\ cancelled[k]
    /\ EntersFinally(k)
    /\ status' = "Stopped"
    /\ UNCHANGED <<gate, loopCts, loopTask, launched, cancelled, published, call, awaited, overtaken>>

\* The token throws out of the connect, the publish or the delay.
LoopCancelled(k) ==
    /\ loop[k] \in {"connecting", "running"} /\ cancelled[k]
    /\ EntersFinally(k)
    /\ status' = "Stopped"
    /\ UNCHANGED <<gate, loopCts, loopTask, launched, cancelled, published, call, awaited, overtaken>>

\* The while condition sees the token first: Status stays as it is.
LoopLeaves(k) ==
    /\ loop[k] = "running" /\ cancelled[k]
    /\ EntersFinally(k)
    /\ UNCHANGED <<gate, fields, launched, cancelled, published, call, awaited, overtaken>>

\* Variant: a failure is logged and Status forgotten.
FaultUnnoticed(k) ==
    /\ loop[k] \in {"connecting", "running"}
    /\ EntersFinally(k)
    /\ UNCHANGED <<gate, fields, launched, cancelled, published, call, awaited, overtaken>>

\* The certificate, the connect or a publish failed.
LoopFaults(k) ==
    /\ loop[k] \in {"connecting", "running"}
    /\ EntersFinally(k)
    /\ status' = "Faulted"
    /\ UNCHANGED <<gate, loopCts, loopTask, launched, cancelled, published, call, awaited, overtaken>>

LoopEnds(k) ==
    /\ loop[k] \in {"disconnecting", "leaving"}
    /\ loop' = [loop EXCEPT ![k] = "ended"]
    /\ UNCHANGED <<gate, fields, launched, cancelled, published, call, awaited, overtaken>>

\* Variant: the task takes over the client's status.
TaskFaulted(k) ==
    /\ DisconnectMayFail /\ loop[k] = "disconnecting"
    /\ loop' = [loop EXCEPT ![k] = "Faulted"]
    /\ UNCHANGED <<gate, fields, launched, cancelled, published, call, awaited, overtaken>>

DisconnectFails(k) ==
    /\ DisconnectMayFail /\ loop[k] = "disconnecting"
    /\ loop' = [loop EXCEPT ![k] = "failed"]
    /\ UNCHANGED <<gate, fields, launched, cancelled, published, call, awaited, overtaken>>

-----------------------------------------------------------------------------
LoopStep(k) == \/ LoopConnects(k) \/ LoopPublishes(k) \/ LoopCancelled(k)
               \/ LoopLeaves(k) \/ LoopFaults(k) \/ LoopEnds(k) \/ DisconnectFails(k)

\* What a call does on its own once it has begun.
CallStep(p) == StartLaunches(p) \/ StopResumes(p) \/ StopThrows(p) \/ StopFinishes(p)

Next == \/ \E p \in Callers : \/ StartReturns(p) \/ StartEnters(p)
                              \/ StopFindsNothing(p) \/ StopCancels(p)
                              \/ CallStep(p)
        \/ \E k \in Loops : LoopStep(k)

Spec == Init /\ [][Next]_vars

\* A call that has begun is run, and the semaphore wakes its waiters in the order
\* they came; a loop whose token is cancelled notices it, and the broker or the
\* network's timeout answers its disconnect.  Nobody has to call.
Fairness == /\ \A p \in Callers : SF_vars(CallStep(p))
            /\ \A k \in Loops : /\ WF_vars(LoopCancelled(k) \/ LoopLeaves(k))
                                /\ WF_vars(LoopEnds(k) \/ DisconnectFails(k))

FairSpec == Spec /\ Fairness

-----------------------------------------------------------------------------
(* Correctness.                                                            *)

LoopPoints == {"none", "connecting", "running", "disconnecting", "leaving", "ended", "failed"}

TypeOK ==
    /\ gate \in Callers \cup {Free}
    /\ status \in Statuses
    /\ loopCts \in 0 .. MaxLoops /\ loopTask \in 0 .. MaxLoops
    /\ published \in Nat
    /\ launched \in 0 .. MaxLoops
    /\ cancelled \in [Loops -> BOOLEAN]
    /\ loop \in [Loops -> LoopPoints]
    /\ call \in [Callers -> {"idle", "launching", "awaiting", "finishing"}]
    /\ awaited \in [Callers -> 0 .. MaxLoops]
    /\ overtaken \in BOOLEAN

Active(k) == loop[k] \in {"connecting", "running"}

\* Every loop that connects or publishes is the one the runtime knows, so that the
\* next StopAsync reaches it; in particular there is never more than one, and none
\* once StopAsync has cleared the fields.
ActiveLoopIsStoppable == \A k \in Loops : Active(k) => loopCts = k /\ loopTask = k

\* Stops may overlap and starts may race: as long as no StartAsync launches while a
\* StopAsync is between its two critical sections, every active loop is stoppable.
StoppableUnlessOvertaken == ~ overtaken => ActiveLoopIsStoppable

\* What the page shows and decides its buttons by is what the loop does: Starting
\* while it connects, Running while it publishes; Starting and Running are not shown
\* without such a loop, save for one that a StopAsync has cancelled.
StatusIsTruthful ==
    /\ \A k \in Loops : /\ loop[k] = "connecting" => status = "Starting"
                        /\ loop[k] = "running" => status = "Running"
    /\ Busy => loopCts # 0 /\ (Active(loopCts) \/ cancelled[loopCts])

\* The same condition keeps Status truthful.
TruthfulUnlessOvertaken == ~ overtaken => StatusIsTruthful

\* A client that was stopped publishes nothing until it is started again, unless a
\* start has overtaken a stop.
StoppedClientIsSilent ==
    [][published' # published /\ ~ overtaken => loopCts # 0]_vars

\* What a StopAsync waited for it had cancelled, and it is over when the StopAsync
\* comes back, by its end or by an exception, whoever called what in the meantime:
\* overlapping calls may put another loop in the fields, but never make a StopAsync
\* wait for a loop that nobody cancelled.
StoppedLoopIsOver ==
    [][\A p \in Callers : Stopping(p) /\ ~ Stopping(p)' =>
          cancelled[awaited[p]] /\ loop[awaited[p]] \in {"ended", "failed"}]_vars

\* A StopAsync that found a loop comes back, whatever is called meanwhile: the
\* loop it waits for has been cancelled and needs no semaphore to end.
StopReturns == \A p \in Callers : Stopping(p) ~> ~ Stopping(p)

\* A cancelled loop is over in the end.
CancelledLoopEnds ==
    \A k \in Loops : cancelled[k] ~> loop[k] \in {"ended", "failed"}
=============================================================================

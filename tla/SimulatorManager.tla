--------------------------- MODULE SimulatorManager ---------------------------
(***************************************************************************)
(* ClientSimulatorManager and its hosted service: clients are rows of the  *)
(* database, which survive the process, and runtimes in the dictionary,    *)
(* which do not.  Every operation changes the two in separate steps with   *)
(* awaits between them, in which it can fail, other operations can run,    *)
(* and the process can end.                                                *)
(*                                                                         *)
(* A runtime is ClientRuntime with its critical sections taken as steps:   *)
(* the k-th launch makes token source k and loop k, and 0 is null.  An id  *)
(* has one runtime object in the life of a process.                        *)
(***************************************************************************)
EXTENDS Naturals, FiniteSets

CONSTANTS
    Defaults,      \* the ids EnsureDefaultClientsAsync asks for
    Created,       \* ids AddClientAsync can draw, each at most once
    Calls,         \* concurrent calls of the pages
    Host,          \* the hosted service's own calls, one after the other
    MaxLaunches,   \* loops of a runtime at most (bound)
    MaxCalls,      \* calls of the pages in the life of a process at most (bound)
    MaxBoots       \* starts of the process at most (bound)

Ids == Defaults \cup Created
Callers == Calls \cup {Host}
Launches == 1 .. MaxLaunches

ASSUME IdsAssumption == IsFiniteSet(Ids) /\ Defaults \cap Created = {}
ASSUME HostAssumption == Host \notin Calls
ASSUME BoundsAssumption == MaxLaunches \in Nat \ {0} /\ {MaxCalls, MaxBoots} \subseteq Nat

VARIABLES
    rows,       \* ClientConfigs: the ids in the database
    drawn,      \* the ids that AddClientAsync has used
    boots,      \* how often the process was started
    begun,      \* how many calls of the pages have begun in this process
    phase,      \* where the hosted service is, or "down" without a process
    clients,    \* _clients: the ids in the dictionary
    todo,       \* the ids that a loop over the clients has not come to
    runtime,    \* runtime[c]: the ClientRuntime of c
    call,       \* call[p]: where a call is
    removed,    \* history: ids whose RemoveClientAsync has returned
    overtaken   \* history: ids started while a stop was under way, or when unlisted

stored == <<rows, drawn, boots>>
vars == <<stored, begun, phase, clients, todo, runtime, call, removed, overtaken>>

NewRuntime == [busy |-> FALSE,      \* Status is Starting or Running
               cts |-> 0,           \* _loopCts, and _loopTask with it
               launched |-> 0,
               loop |-> [k \in Launches |-> "none"]]

Idle == [at |-> "idle", op |-> "none", id |-> "none", task |-> 0]
At(p, point) == call[p].at = point
Goes(p, point, op, c) ==
    call' = [call EXCEPT ![p] = [at |-> point, op |-> op, id |-> c, task |-> 0]]
Returns(p) == call' = [call EXCEPT ![p] = Idle]

Init ==
    /\ rows = {} /\ drawn = {} /\ boots = 0 /\ begun = 0
    /\ phase = "down"
    /\ clients = {} /\ todo = {}
    /\ runtime = [c \in Ids |-> NewRuntime]
    /\ call = [p \in Callers |-> Idle]
    /\ removed = {} /\ overtaken = {}

-----------------------------------------------------------------------------
(* The runtime.                                                            *)

\* The k-th loop connects or publishes, and nobody has cancelled it.
Active(c, k) == runtime[c].loop[k] = "active"

\* It was cancelled, or not, and may publish until its ConnectAsync, PublishAsync or Delay
\* has noticed, and be connected until its DisconnectAsync is answered.
MayPublish(c, k) == runtime[c].loop[k] \in {"active", "cancelled"}

\* A launch that a stop under way does not see, and that no removal is still to stop.
Overtakes(c) ==
    LET stops(point) == {p \in Callers : At(p, point) /\ call[p].id = c}
    IN  \/ stops("awaiting") # {}
        \/ c \notin clients /\ \A p \in stops("stopping") : call[p].op # "remove"

\* ClientRuntime.StartAsync: nothing to do for a busy client.
RuntimeStarts(c) ==
    LET r == runtime[c]
        k == r.launched + 1
    IN  IF r.busy THEN UNCHANGED <<runtime, overtaken>>
        ELSE /\ k \in Launches
             /\ runtime' = [runtime EXCEPT ![c].busy = TRUE, ![c].cts = k,
                                           ![c].launched = k, ![c].loop[k] = "active"]
             /\ overtaken' = IF Overtakes(c) THEN overtaken \cup {c} ELSE overtaken

\* What follows the StopAsync of a call.
AfterStop(p) ==
    call' = [call EXCEPT ![p] = IF @.op = "remove" THEN [@ EXCEPT !.at = "deleting"] ELSE Idle]

\* Variant: the token is cancelled and the loop is not waited for.
StopCancelsOnly(p) ==
    LET c == call[p].id IN
    /\ At(p, "stopping")
    /\ runtime' = IF runtime[c].cts = 0 THEN [runtime EXCEPT ![c].busy = FALSE]
                  ELSE [runtime EXCEPT ![c].loop[runtime[c].cts] =
                                           IF @ = "active" THEN "cancelled" ELSE @]
    /\ AfterStop(p)
    /\ UNCHANGED <<stored, begun, phase, clients, todo, removed, overtaken>>

\* The first half of ClientRuntime.StopAsync, or all of it without a token source.
StopBegins(p) ==
    LET c == call[p].id IN
    /\ At(p, "stopping")
    /\ \/ /\ runtime[c].cts = 0
          /\ runtime' = [runtime EXCEPT ![c].busy = FALSE]
          /\ AfterStop(p)
       \/ /\ runtime[c].cts # 0
          /\ runtime' = [runtime EXCEPT ![c].loop[runtime[c].cts] =
                                           IF @ = "active" THEN "cancelled" ELSE @]
          /\ call' = [call EXCEPT ![p].at = "awaiting", ![p].task = runtime[c].cts]
    /\ UNCHANGED <<stored, begun, phase, clients, todo, removed, overtaken>>

\* The second half, once the loop is over.
StopFinishes(p) ==
    LET c == call[p].id IN
    /\ At(p, "awaiting") /\ runtime[c].loop[call[p].task] = "ended"
    /\ runtime' = [runtime EXCEPT ![c].cts = 0, ![c].busy = FALSE]
    /\ AfterStop(p)
    /\ UNCHANGED <<stored, begun, phase, clients, todo, removed, overtaken>>

\* Variant: the call takes over the state of the task it waited for.
StopFails(p) ==
    /\ At(p, "awaiting") /\ runtime[call[p].id].loop[call[p].task] = "failed"
    /\ call' = [call EXCEPT ![p].at = "failed"]
    /\ UNCHANGED <<stored, begun, phase, clients, todo, runtime, removed, overtaken>>

\* The loop's task failed: the exception leaves StopAsync and whoever called it;
\* StopAllAsync does not come to the clients behind.
StopThrows(p) ==
    /\ At(p, "awaiting") /\ runtime[call[p].id].loop[call[p].task] = "failed"
    /\ Returns(p)
    /\ phase' = IF p = Host THEN "stopped" ELSE phase
    /\ UNCHANGED <<stored, begun, clients, todo, runtime, removed, overtaken>>

\* The loop has connected; it matters to Status only if somebody wrote it meanwhile.
LoopConnects(c, k) ==
    /\ Active(c, k) /\ ~ runtime[c].busy
    /\ runtime' = [runtime EXCEPT ![c].busy = TRUE]
    /\ UNCHANGED <<stored, begun, phase, clients, todo, call, removed, overtaken>>

\* A fault, or the token, and the finally block, whose DisconnectAsync may throw; only
\* the way out through the loop's condition, after a cancellation, leaves Status alone.
LoopEnds(c, k) ==
    /\ MayPublish(c, k)
    /\ \E end \in {"ended", "failed"}, busy \in {FALSE, runtime[c].busy} :
          /\ busy => runtime[c].loop[k] = "cancelled"
          /\ runtime' = [runtime EXCEPT ![c].loop[k] = end, ![c].busy = busy]
    /\ UNCHANGED <<stored, begun, phase, clients, todo, call, removed, overtaken>>

-----------------------------------------------------------------------------
(* The hosted service: the start of the process, and its end.              *)

Boot ==
    /\ phase = "down" /\ boots < MaxBoots
    /\ phase' = "loading" /\ boots' = boots + 1
    /\ UNCHANGED <<rows, drawn, begun, clients, todo, runtime, call, removed, overtaken>>

\* Variant: the runtimes of added clients are not made again.
LoadDefaultsOnly ==
    /\ phase = "loading"
    /\ clients' = clients \cup (rows \cap Defaults)
    /\ phase' = "defaults"
    /\ UNCHANGED <<stored, begun, todo, runtime, call, removed, overtaken>>

LoadPersistedClients ==
    /\ phase = "loading"
    /\ clients' = clients \cup rows
    /\ phase' = "defaults"
    /\ UNCHANGED <<stored, begun, todo, runtime, call, removed, overtaken>>

\* EnsureDefaultClientsAsync saves the row of a default client that has none ...
EnsureDefaultRow(d) ==
    /\ phase = "defaults" /\ d \notin clients /\ d \notin rows
    /\ rows' = rows \cup {d}
    /\ UNCHANGED <<drawn, boots, begun, phase, clients, todo, runtime, call, removed, overtaken>>

\* ... and then adds its runtime.
EnsureDefaultRuntime(d) ==
    /\ phase = "defaults" /\ d \notin clients /\ d \in rows
    /\ clients' = clients \cup {d}
    /\ UNCHANGED <<stored, begun, phase, todo, runtime, call, removed, overtaken>>

\* GetClients: from here on the service starts one client after the other ...
DefaultsEnsured ==
    /\ phase = "defaults" /\ Defaults \subseteq clients
    /\ phase' = "autostart" /\ todo' = clients
    /\ UNCHANGED <<stored, begun, clients, runtime, call, removed, overtaken>>

AutoStart(c) ==
    /\ phase = "autostart" /\ c \in todo
    /\ todo' = todo \ {c}
    /\ RuntimeStarts(c)
    /\ UNCHANGED <<stored, begun, phase, clients, call, removed>>

\* ... and the web server comes up behind it.
Serve ==
    /\ phase = "autostart" /\ todo = {}
    /\ phase' = "serving"
    /\ UNCHANGED <<stored, begun, clients, todo, runtime, call, removed, overtaken>>

\* The web server has stopped, and takes no more calls; StopAllAsync begins.
StopAll ==
    /\ phase = "serving"
    /\ phase' = "stopping" /\ todo' = clients
    /\ UNCHANGED <<stored, begun, clients, runtime, call, removed, overtaken>>

\* Variant: the keys are read again after each client.
StopNextRescans(c) ==
    /\ phase = "stopping" /\ At(Host, "idle") /\ c \in todo
    /\ todo' = clients
    /\ IF c \in clients THEN Goes(Host, "stopping", "stop", c) ELSE UNCHANGED call
    /\ UNCHANGED <<stored, begun, phase, clients, runtime, removed, overtaken>>

\* StopAllAsync comes to the next key; a client removed meanwhile is passed over.
StopNext(c) ==
    /\ phase = "stopping" /\ At(Host, "idle") /\ c \in todo
    /\ todo' = todo \ {c}
    /\ IF c \in clients THEN Goes(Host, "stopping", "stop", c) ELSE UNCHANGED call
    /\ UNCHANGED <<stored, begun, phase, clients, runtime, removed, overtaken>>

StopAllReturns ==
    /\ phase = "stopping" /\ At(Host, "idle") /\ todo = {}
    /\ phase' = "stopped"
    /\ UNCHANGED <<stored, begun, clients, todo, runtime, call, removed, overtaken>>

\* The process ends, after its shutdown or at any other moment: what is left is the
\* database.
ProcessEnds ==
    /\ phase # "down"
    /\ phase' = "down"
    /\ begun' = 0 /\ clients' = {} /\ todo' = {} /\ overtaken' = {}
    /\ runtime' = [c \in Ids |-> NewRuntime]
    /\ call' = [p \in Callers |-> Idle]
    /\ UNCHANGED <<stored, removed>>

-----------------------------------------------------------------------------
(* The calls of the pages.                                                 *)

Begins(p) == /\ p \in Calls /\ phase = "serving" /\ At(p, "idle")
             /\ begun < MaxCalls /\ begun' = begun + 1

\* Variant: the runtime is listed before its row is saved.
AddListsFirst(p) ==
    /\ Begins(p)
    /\ \E c \in Created \ drawn :
          /\ drawn' = drawn \cup {c} /\ clients' = clients \cup {c}
          /\ Goes(p, "adding", "add", c)
    /\ UNCHANGED <<rows, boots, phase, todo, runtime, removed, overtaken>>

\* AddClientAsync saves the row ...
AddSaves(p) ==
    /\ Begins(p)
    /\ \E c \in Created \ drawn :
          /\ drawn' = drawn \cup {c} /\ rows' = rows \cup {c}
          /\ Goes(p, "adding", "add", c)
    /\ UNCHANGED <<boots, phase, clients, todo, runtime, removed, overtaken>>

\* ... reads the certificate, and adds the runtime ...
AddLists(p) ==
    /\ At(p, "adding")
    /\ clients' = clients \cup {call[p].id}
    /\ Returns(p)
    /\ UNCHANGED <<stored, begun, phase, todo, runtime, removed, overtaken>>

\* ... unless the database throws.
AddFails(p) ==
    /\ At(p, "adding")
    /\ Returns(p)
    /\ UNCHANGED <<stored, begun, phase, clients, todo, runtime, removed, overtaken>>

\* StartClientAsync and StopClientAsync look the runtime up and then use it.
StartFinds(p) ==
    /\ Begins(p)
    /\ \E c \in clients : Goes(p, "starting", "start", c)
    /\ UNCHANGED <<stored, phase, clients, todo, runtime, removed, overtaken>>

StartLaunches(p) ==
    /\ At(p, "starting")
    /\ RuntimeStarts(call[p].id)
    /\ Returns(p)
    /\ UNCHANGED <<stored, begun, phase, clients, todo, removed>>

StopFinds(p) ==
    /\ Begins(p)
    /\ \E c \in clients : Goes(p, "stopping", "stop", c)
    /\ UNCHANGED <<stored, phase, clients, todo, runtime, removed, overtaken>>

\* RemoveClientAsync takes the runtime out of the dictionary, stops it ...
RemoveUnlists(p) ==
    /\ Begins(p)
    /\ \E c \in clients : /\ clients' = clients \ {c}
                          /\ Goes(p, "stopping", "remove", c)
    /\ UNCHANGED <<stored, phase, todo, runtime, removed, overtaken>>

\* Variant: the deletion is not saved.
RemoveForgetsSave(p) ==
    /\ At(p, "deleting")
    /\ removed' = removed \cup {call[p].id}
    /\ Returns(p)
    /\ UNCHANGED <<stored, begun, phase, clients, todo, runtime, overtaken>>

\* ... and deletes its row ...
RemoveDeletes(p) ==
    /\ At(p, "deleting")
    /\ rows' = rows \ {call[p].id}
    /\ removed' = removed \cup {call[p].id}
    /\ Returns(p)
    /\ UNCHANGED <<drawn, boots, begun, phase, clients, todo, runtime, overtaken>>

\* ... unless the database throws.
RemoveFails(p) ==
    /\ At(p, "deleting")
    /\ Returns(p)
    /\ UNCHANGED <<stored, begun, phase, clients, todo, runtime, removed, overtaken>>

-----------------------------------------------------------------------------
LoopStep(c, k) == LoopConnects(c, k) \/ LoopEnds(c, k)

HostStep == \/ LoadPersistedClients
            \/ \E d \in Defaults : EnsureDefaultRow(d) \/ EnsureDefaultRuntime(d)
            \/ DefaultsEnsured
            \/ \E c \in Ids : AutoStart(c) \/ StopNext(c)
            \/ Serve \/ StopAllReturns

\* What a call does on its own once it has begun.
CallStep(p) == \/ AddLists(p) \/ AddFails(p) \/ StartLaunches(p)
               \/ StopBegins(p) \/ StopFinishes(p) \/ StopThrows(p)
               \/ RemoveDeletes(p) \/ RemoveFails(p)

Next == \/ Boot \/ StopAll \/ ProcessEnds \/ HostStep
        \/ \E p \in Calls : AddSaves(p) \/ StartFinds(p) \/ StopFinds(p) \/ RemoveUnlists(p)
        \/ \E p \in Callers : CallStep(p)
        \/ \E c \in Ids, k \in Launches : LoopStep(c, k)

Spec == Init /\ [][Next]_vars

\* A call and the hosted service go on once they have begun, and a loop whose token
\* is cancelled leaves and disconnects.  Nobody has to call, to start or to end the
\* process.
Fairness ==
    /\ WF_vars(HostStep)
    /\ \A p \in Callers : WF_vars(CallStep(p))
    /\ \A c \in Ids, k \in Launches : WF_vars(~ Active(c, k) /\ LoopEnds(c, k))

FairSpec == Spec /\ Fairness

-----------------------------------------------------------------------------
(* Correctness.                                                            *)

Points == {"idle", "adding", "starting", "stopping", "awaiting", "deleting"}
Operations == {"none", "add", "start", "stop", "remove"}
LoopPoints == {"none", "active", "cancelled", "ended", "failed"}
Phases == {"down", "loading", "defaults", "autostart", "serving", "stopping", "stopped"}

TypeOK ==
    /\ rows \subseteq Ids /\ drawn \subseteq Created /\ boots \in 0 .. MaxBoots
    /\ begun \in 0 .. MaxCalls
    /\ phase \in Phases
    /\ clients \subseteq Ids /\ todo \subseteq Ids
    /\ runtime \in [Ids -> [busy : BOOLEAN, cts : 0 .. MaxLaunches,
                            launched : 0 .. MaxLaunches,
                            loop : [Launches -> LoopPoints]]]
    /\ call \in [Callers -> [at : Points, op : Operations, id : Ids \cup {"none"},
                             task : 0 .. MaxLaunches]]
    /\ removed \subseteq Ids /\ overtaken \subseteq Ids

\* Whatever the page lists survives a crash at this moment: a client is never in the
\* dictionary without its row, in the middle of whatever additions and removals.
ListedIsStored == clients \subseteq rows

\* Once RemoveClientAsync has returned, an added client stays away, from the page and
\* from the database, over every crash and start of the process.
RemovedStaysRemoved == \A c \in removed \cap Created : c \notin rows \cup clients

\* A client without a row publishes nothing, not even from a loop that is cancelled and
\* still to notice: removal deletes the row behind the end of the loop.  The exception
\* is a start that overtakes a stop or the removal, whose loop nobody can find any
\* more; RemovedSessionIsOver has none, and shows what comes of it.
RemovedIsSilent ==
    \A c \in Ids \ rows : c \in overtaken \/ \A k \in Launches : ~ MayPublish(c, k)

\* The session of a client that was removed is over.
RemovedSessionIsOver == \A c \in Ids \ rows, k \in Launches : ~ MayPublish(c, k)

\* When the page comes up every row has its runtime and every runtime was started, the
\* defaults among them: what a crash or an exception left half done in an addition
\* or a removal is whole again.
RestartRestores ==
    [][phase' = "serving" /\ phase # "serving" =>
          /\ clients = rows /\ Defaults \subseteq clients
          /\ \A c \in clients : runtime[c].launched = 1]_vars

\* StopAllAsync comes to an end, with the clients that are being added, started and
\* removed meanwhile.
ShutdownEnds == phase = "stopping" ~> phase \in {"stopped", "down"}
=============================================================================

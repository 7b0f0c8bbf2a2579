----------------------------- MODULE TrapReceiver -----------------------------
(***************************************************************************)
(* The trap receiver: start_listener, stop_listener, _run_listener and     *)
(* _shutdown_listener of services/runtime.py, driven by                    *)
(* services/traps_service.py, on top of the notification history.          *)
(*                                                                         *)
(* The listener is opened, swapped and torn down by a second copy of the   *)
(* responder's code, so its lifecycle is module Responder over the         *)
(* listener's variables.  What this module adds is what the responder does *)
(* not have: the bundle a listener decodes with, the bundle id its binding *)
(* files events under, and the loop that records each trap and announces   *)
(* it before it asks for the next one.                                     *)
(***************************************************************************)
EXTENDS EventHistory

CONSTANTS
    Calls,        \* start and stop requests that may be in progress
    Listeners,    \* V2cNotificationListener objects that may exist at once
    Ports,        \* UDP ports a start may ask for
    DefaultPort,  \* _DEFAULTS[_LISTENER_PORT_KEY]
    NoPort,
    NoListener    \* None

ASSUME ReceiverPortsAssumption == DefaultPort \in Ports /\ NoPort \notin Ports
ASSUME ReceiverListenersAssumption == NoListener \notin Listeners

VARIABLES
    listener,     \* RuntimeService._listener (and _listener_task)
    binding,      \* RuntimeService._listener_binding.port
    sock, serving, pc, after, req, mine, victim,   \* as in Responder
    savedPort,    \* setting listener_port
    startedAt,    \* setting listener_started_at
    phase,
    made,         \* the bundle each listener object decodes with
    filed,        \* RuntimeService._listener_binding.bundle_set_id
    loop          \* where each listener's _run_listener is in its body

lifeVars == <<listener, binding, sock, serving, pc, after, req, mine, victim,
              savedPort, startedAt, phase>>
vars == <<lifeVars, made, filed, loop, historyVars>>

L == INSTANCE Responder WITH responder <- listener, Endpoints <- Listeners,
                             NoEndpoint <- NoListener

Receiving == {"waiting", "trap", "stats"}

TypeOK ==
    /\ L!TypeOK
    /\ HistoryTypeOK
    /\ made \in [Listeners -> Stamps]
    /\ filed \in Stamps
    /\ loop \in [Listeners -> Receiving]

Init ==
    /\ L!Init
    /\ HistoryInit
    /\ made = [e \in Listeners |-> NoBundle]
    /\ filed = NoBundle
    /\ loop = [e \in Listeners |-> "waiting"]

-----------------------------------------------------------------------------
(* The lifecycle.                                                          *)

\* start_listener constructs its listener with the bundle it has just loaded.
Made(c) ==
    /\ made' = [made EXCEPT ![mine'[c]] = active]
    /\ UNCHANGED <<filed, loop, historyVars>>

\* Mutant: the binding names the bundle that is active when it is written.
FiledLate(c) ==
    filed' = IF listener' # NoListener /\ listener' = mine[c] THEN active ELSE filed

\* A step of call c: if it publishes the listener c has started, the new
\* binding names the bundle c loaded before it opened the socket.
Filed(c) ==
    filed' = IF listener' # NoListener /\ listener' = mine[c]
             THEN made[listener'] ELSE filed

\* Everything the process knew, at its end.
LoseReceiverMemory ==
    /\ made' = [e \in Listeners |-> NoBundle]
    /\ filed' = NoBundle
    /\ loop' = [e \in Listeners |-> "waiting"]
    /\ LoseHistoryMemory
    /\ UNCHANGED <<active, storedVars>>

\* POST /traps/start; a bundle that does not load ends it before any change.
Start(c, p) == L!Start(c, p) /\ Made(c)

\* POST /traps/stop
Stop(c) == L!Stop(c) /\ UNCHANGED <<made, filed, loop, historyVars>>

\* A start or a stop goes on from where it was suspended.
CallStep(c) ==
    \/ /\ L!OpenBinds(c) \/ L!OpenFails(c) \/ L!HandleRefused(c) \/ L!GiveUp(c)
       /\ UNCHANGED <<made, filed, loop, historyVars>>
    \/ /\ L!Swap(c)
       /\ Filed(c)
       /\ UNCHANGED <<made, loop, historyVars>>
    \/ /\ L!CloseVictim(c)
       /\ UNCHANGED <<made, filed, loop, historyVars>>
    \/ /\ after[c] # "exit"
       /\ L!JoinVictim(c)
       /\ Filed(c)
       /\ UNCHANGED <<made, loop, historyVars>>
    \/ /\ after[c] = "exit"
       /\ L!JoinVictim(c)
       /\ LoseReceiverMemory

-----------------------------------------------------------------------------
(* _run_listener.                                                          *)

\* The listener yields a notification: decode, persist, remember, and begin
\* the broadcast (or, if its payload cannot be built, that of the stats).
Receive(e) ==
    /\ e \in serving
    /\ L!Open(e)
    /\ loop[e] = "waiting"
    /\ Record([direction |-> "received", used |-> made[e], bundle |-> filed])
    /\ \E next \in {"trap", "stats"} : loop' = [loop EXCEPT ![e] = next]
    /\ UNCHANGED <<lifeVars, made, filed, active, send, carried>>

\* A broadcast has reached, or given up on, every client.
Announced(e) ==
    /\ e \in serving
    /\ loop[e] # "waiting"
    /\ loop' = [loop EXCEPT ![e] = IF @ = "trap" THEN "stats" ELSE "waiting"]
    /\ UNCHANGED <<lifeVars, made, filed, historyVars>>

\* Mutant: the loop ends in the middle of an announcement when it is closed,
\* and the announcement goes on without it.
LoopEndsEarly(e) ==
    /\ L!TaskEnds(e)
    /\ UNCHANGED <<made, filed, loop, historyVars>>

\* The listener was closed: its iteration stops once the body is done.
LoopEnds(e) ==
    /\ loop[e] = "waiting"
    /\ L!TaskEnds(e)
    /\ UNCHANGED <<made, filed, loop, historyVars>>

\* The iteration or the body raises.
LoopBreaks(e) ==
    /\ L!ServeFails(e) \/ (loop[e] # "waiting" /\ L!TaskEnds(e))
    /\ loop' = [loop EXCEPT ![e] = "waiting"]
    /\ UNCHANGED <<made, filed, historyVars>>

-----------------------------------------------------------------------------
(* The hosting process, and the other writers of the history.              *)

Crash == L!Crash /\ LoseReceiverMemory

Boot == L!Boot /\ UNCHANGED <<made, filed, loop, historyVars>>

\* lifespan, with settings.auto_start_trap_receiver set.
AutoStart(c) == L!AutoStart(c) /\ Made(c)

BootDone == L!BootDone /\ UNCHANGED <<made, filed, loop, historyVars>>

\* The server has drained its requests; shutdown_runtime_service begins.
Shutdown(c) ==
    /\ \A s \in Senders : send[s] = "idle"
    /\ L!Shutdown(c)
    /\ \/ phase' = "down" /\ LoseReceiverMemory
       \/ phase' # "down" /\ UNCHANGED <<made, filed, loop, historyVars>>

\* The requests of EventHistory, and the activation of a bundle at start-up.
HistoryStep ==
    /\ \/ phase = "up" /\ HistoryRequests
       \/ phase = "boot" /\ \E b \in BundleIds : SwitchBundle(b)
    /\ UNCHANGED <<lifeVars, made, filed, loop>>

Next ==
    \/ \E c \in Calls, p \in Ports : Start(c, p)
    \/ \E c \in Calls : Stop(c) \/ CallStep(c) \/ AutoStart(c) \/ Shutdown(c)
    \/ \E e \in Listeners :
          Receive(e) \/ Announced(e) \/ LoopEnds(e) \/ LoopBreaks(e)
    \/ Crash \/ Boot \/ BootDone \/ HistoryStep

Spec == Init /\ [][Next]_vars

\* The event loop runs what is ready, and a broadcast ends: send_json to a
\* client returns or raises.  Traps, requests and failures are never forced.
Fairness ==
    /\ \A c \in Calls : WF_vars(CallStep(c))
    /\ \A e \in Listeners : WF_vars(Announced(e)) /\ WF_vars(LoopEnds(e))

FairSpec == Spec /\ Fairness

-----------------------------------------------------------------------------
(* Properties.  A trap is decoded with the bundle its listener was made    *)
(* with, and filed under the bundle of the binding that is current when it *)
(* arrives: that these are one is part of FilesAsPromised.                 *)

\* The listener the status reports is served by its loop, on the port that
\* the status reports and that a restart of the process would use.
ListenerIsServing == L!CurrentIsServing

\* A trap is announced by the published listener, or by one whose teardown a
\* stop or a start is waiting for: when stop has answered, nothing more comes.
NothingAfterStop ==
    \A e \in Listeners :
        loop[e] # "waiting" => \/ e = listener
                               \/ \E c \in Calls : victim[c] = e

\* Traps are announced one at a time, so clients see them in the order of
\* their ids, across a move of the receiver to another port as well.
OneTrapAtATime ==
    \A e, f \in Listeners :
        loop[e] # "waiting" /\ loop[f] # "waiting" => e = f

\* A listener that runs files under the bundle it decodes with.
ServingFiled == \A e \in serving : filed = made[e]

\* Only a loop that runs is in the middle of an announcement.
AnnouncingServed == \A e \in Listeners : loop[e] # "waiting" => e \in serving

\* The inductive invariant behind FilesAsPromised, NothingAfterStop and
\* OneTrapAtATime, over the invariants of the lifecycle and of the history.
TrapInv ==
    /\ HistoryInv
    /\ made \in [Listeners -> Stamps]
    /\ filed \in Stamps
    /\ loop \in [Listeners -> Receiving]
    /\ ServingFiled
    /\ AnnouncingServed

\* The receiver keeps the promise EventHistory makes of it: whatever else it
\* does, it changes the history only by filing a trap under the bundle that
\* decoded it, and by the loss of memory when the process ends.
FilesAsPromised == HistorySpec

\* Every start and stop returns, however many traps keep arriving.
CallsReturn == L!CallsReturn

=============================================================================

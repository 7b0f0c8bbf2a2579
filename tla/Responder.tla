------------------------------ MODULE Responder ------------------------------
(***************************************************************************)
(* Lifecycle of the simulator's SNMP responder: RuntimeService in          *)
(* services/runtime.py together with the service calls that drive it       *)
(* (services/simulator_service.py) and the process that hosts both         *)
(* (main.py, lifespan).                                                    *)
(*                                                                         *)
(* Everything runs on one asyncio event loop, so the code between two real *)
(* suspension points is one action.  The bodies guarded by `self._lock`    *)
(* never await, hence the lock is never contended and never suspends; the  *)
(* suspension points are exactly: responder.open(), responder.close() and  *)
(* `await task`.  A Call is one request handler in progress (or the start- *)
(* up / shutdown hook); an Endpoint is one V2cResponder object.            *)
(***************************************************************************)
EXTENDS Integers

CONSTANTS
    Calls,        \* request handlers that may be in progress at the same time
    Endpoints,    \* V2cResponder objects that may exist at the same time
    Ports,        \* UDP ports a start may ask for
    DefaultPort,  \* _DEFAULTS[_SIMULATOR_PORT_KEY]
    NoPort,       \* no port: an unopened socket, an absent binding
    NoEndpoint    \* None

ASSUME PortsAssumption == DefaultPort \in Ports /\ NoPort \notin Ports
ASSUME EndpointsAssumption == NoEndpoint \notin Endpoints

VARIABLES
    responder,  \* RuntimeService._responder (and _responder_task, kept in step)
    binding,    \* RuntimeService._responder_binding.port, NoPort for None
    sock,       \* the port each endpoint's socket is bound to
    serving,    \* the endpoints whose _run_responder task has not finished
    pc,         \* the suspension point each call is parked at
    after,      \* what a call does once its _shutdown_responder returns
    req,        \* the port a call's start asks for
    mine,       \* the endpoint a call's start has created and not yet published
    victim,     \* the endpoint a call took off the runtime and is tearing down
    savedPort,  \* setting simulator_port, persisted
    startedAt,  \* setting simulator_started_at, persisted: null or some time
    phase       \* where the hosting process is in its life

callVars == <<pc, after, req, mine, victim>>
slotVars == <<responder, binding, sock, serving>>
diskVars == <<savedPort, startedAt>>
vars == <<slotVars, callVars, diskVars, phase>>

PCs == {"idle", "opening", "reopening", "opened", "refused", "failed",
        "closing", "joining", "restarting"}
Afters == {"none", "stop", "restart", "swap", "retry", "exit"}
Phases == {"down", "boot", "autostart", "up", "stopping"}

TypeOK ==
    /\ responder \in Endpoints \cup {NoEndpoint}
    /\ binding \in Ports \cup {NoPort}
    /\ sock \in [Endpoints -> Ports \cup {NoPort}]
    /\ serving \in SUBSET Endpoints
    /\ pc \in [Calls -> PCs]
    /\ after \in [Calls -> Afters]
    /\ req \in [Calls -> Ports \cup {NoPort}]
    /\ mine \in [Calls -> Endpoints \cup {NoEndpoint}]
    /\ victim \in [Calls -> Endpoints \cup {NoEndpoint}]
    /\ savedPort \in Ports
    /\ startedAt \in {"null", "time"}
    /\ phase \in Phases

\* RuntimeService.__init__: nothing runs, no call is in progress.
FreshMemory ==
    /\ responder = NoEndpoint
    /\ binding = NoPort
    /\ sock = [e \in Endpoints |-> NoPort]
    /\ serving = {}
    /\ pc = [c \in Calls |-> "idle"]
    /\ after = [c \in Calls |-> "none"]
    /\ req = [c \in Calls |-> NoPort]
    /\ mine = [c \in Calls |-> NoEndpoint]
    /\ victim = [c \in Calls |-> NoEndpoint]

Init ==
    /\ FreshMemory
    /\ savedPort = DefaultPort
    /\ startedAt = "null"
    /\ phase = "down"

-----------------------------------------------------------------------------
(* What the steps share.                                                   *)

Open(e) == sock[e] # NoPort

Held(e) == \E c \in Calls : mine[c] = e \/ victim[c] = e

\* An endpoint object that can stand for a newly constructed one.
Unused(e) == ~Open(e) /\ e \notin serving /\ e # responder /\ ~Held(e)

AllIdle == \A c \in Calls : pc[c] = "idle"

\* Mutant: the runtime keeps its reference while the call tears it down.
TakeKeepsReference(c, cont) ==
    /\ responder # NoEndpoint
    /\ victim' = [victim EXCEPT ![c] = responder]
    /\ responder' = responder
    /\ pc' = [pc EXCEPT ![c] = "closing"]
    /\ after' = [after EXCEPT ![c] = cont]

\* _shutdown_responder up to its first await: the references move from the
\* runtime to the call, whatever the caller is going to do afterwards.
Take(c, cont) ==
    /\ responder # NoEndpoint
    /\ victim' = [victim EXCEPT ![c] = responder]
    /\ responder' = NoEndpoint
    /\ pc' = [pc EXCEPT ![c] = "closing"]
    /\ after' = [after EXCEPT ![c] = cont]

\* The tail of start_responder and of simulator_service.start: create the
\* serve task, publish the responder, persist port and start time.
PublishWith(c, port, started) ==
    /\ responder' = mine[c]
    /\ binding' = req[c]
    /\ serving' = serving \cup {mine[c]}
    /\ mine' = [mine EXCEPT ![c] = NoEndpoint]
    /\ req' = [req EXCEPT ![c] = NoPort]
    /\ savedPort' = port
    /\ startedAt' = started
    /\ pc' = [pc EXCEPT ![c] = "idle"]
    /\ after' = [after EXCEPT ![c] = "none"]

\* Mutant: the persisted port is read from the binding before it is replaced.
PublishOldPort(c) == PublishWith(c, binding, "time")

\* Mutant: a start that moves to another port does not set the start time.
PublishNoStartTime(c) == 
    PublishWith(c, req[c], IF savedPort = req[c] THEN "time" ELSE startedAt)

Publish(c) == PublishWith(c, req[c], "time")

\* The tail of simulator_service.stop; a restart goes on to start again.
Stopped(c, cont) ==
    /\ startedAt' = "null"
    /\ pc' = [pc EXCEPT ![c] = IF cont = "restart" THEN "restarting" ELSE "idle"]
    /\ after' = [after EXCEPT ![c] = "none"]
    /\ UNCHANGED savedPort

\* start_responder up to `await responder.open()`: construct the responder.
Construct(c, p) ==
    /\ \E e \in Endpoints :
          /\ Unused(e)
          /\ mine' = [mine EXCEPT ![c] = e]
    /\ req' = [req EXCEPT ![c] = p]
    /\ pc' = [pc EXCEPT ![c] = "opening"]
    /\ UNCHANGED <<slotVars, after, victim, diskVars>>

\* Everything in memory, and every socket, goes with the process.
LoseMemory ==
    /\ responder' = NoEndpoint
    /\ binding' = NoPort
    /\ sock' = [e \in Endpoints |-> NoPort]
    /\ serving' = {}
    /\ pc' = [c \in Calls |-> "idle"]
    /\ after' = [c \in Calls |-> "none"]
    /\ req' = [c \in Calls |-> NoPort]
    /\ mine' = [c \in Calls |-> NoEndpoint]
    /\ victim' = [c \in Calls |-> NoEndpoint]

-----------------------------------------------------------------------------
(* Requests.                                                               *)

\* POST /simulator/start
Start(c, p) ==
    /\ phase = "up"
    /\ pc[c] = "idle"
    /\ Construct(c, p)
    /\ UNCHANGED phase

\* POST /simulator/stop
Stop(c) ==
    /\ phase = "up"
    /\ pc[c] = "idle"
    /\ \/ /\ Take(c, "stop")
          /\ UNCHANGED <<diskVars, binding, sock, serving, req, mine>>
       \/ /\ responder = NoEndpoint
          /\ Stopped(c, "stop")
          /\ UNCHANGED <<slotVars, req, mine, victim>>
    /\ UNCHANGED phase

\* POST /simulator/restart: the port is read before the stop.
Restart(c) ==
    /\ phase = "up"
    /\ pc[c] = "idle"
    /\ req' = [req EXCEPT ![c] = IF binding # NoPort THEN binding ELSE savedPort]
    /\ \/ /\ Take(c, "restart")
          /\ UNCHANGED <<diskVars, binding, sock, serving, mine>>
       \/ /\ responder = NoEndpoint
          /\ Stopped(c, "restart")
          /\ UNCHANGED <<slotVars, mine, victim>>
    /\ UNCHANGED phase

-----------------------------------------------------------------------------
(* The steps of a call between its suspension points.                      *)

\* The start half of a restart, after the stop half has broadcast.
RestartStart(c) ==
    /\ pc[c] = "restarting"
    /\ Construct(c, req[c])
    /\ UNCHANGED phase

\* The start half is refused before there is a responder: the bundle cannot be
\* loaded, or the objects cannot be parsed.  (A start that is refused so early
\* changes nothing at all.)
RestartRefused(c) ==
    /\ pc[c] = "restarting"
    /\ pc' = [pc EXCEPT ![c] = "idle"]
    /\ req' = [req EXCEPT ![c] = NoPort]
    /\ UNCHANGED <<slotVars, after, mine, victim, diskVars, phase>>

\* responder.open() binds the socket.  No two sockets share a port.
OpenBinds(c) ==
    /\ pc[c] \in {"opening", "reopening"}
    /\ \A e \in Endpoints : sock[e] # req[c]
    /\ sock' = [sock EXCEPT ![mine[c]] = req[c]]
    /\ pc' = [pc EXCEPT ![c] = "opened"]
    /\ UNCHANGED <<responder, binding, serving, after, req, mine, victim,
                   diskVars, phase>>

\* responder.open() raises: the port is taken, by this process or by another.
OpenFails(c) ==
    /\ pc[c] \in {"opening", "reopening"}
    /\ pc' = [pc EXCEPT ![c] = IF @ = "opening" THEN "refused" ELSE "failed"]
    /\ UNCHANGED <<slotVars, after, req, mine, victim, diskVars, phase>>

\* Mutant: every refused open is taken for a restart in place.
AnyAddress(c) == binding = binding

\* _same_responder_address, host being "0.0.0.0" in every caller.
SameAddress(c) == binding = req[c]

\* The except clause around the first open().
HandleRefused(c) ==
    /\ pc[c] = "refused"
    /\ \/ /\ SameAddress(c)
          /\ Take(c, "retry")
          /\ UNCHANGED <<binding, sock, serving, req, mine>>
       \/ /\ SameAddress(c)
          /\ responder = NoEndpoint
          /\ pc' = [pc EXCEPT ![c] = "reopening"]
          /\ UNCHANGED <<slotVars, after, req, mine, victim>>
       \/ /\ ~SameAddress(c)
          /\ pc' = [pc EXCEPT ![c] = "failed"]
          /\ UNCHANGED <<slotVars, after, req, mine, victim>>
    /\ UNCHANGED <<diskVars, phase>>

\* The outer except clause: close the responder that never opened and raise.
GiveUp(c) ==
    /\ pc[c] = "failed"
    /\ pc' = [pc EXCEPT ![c] = "idle"]
    /\ mine' = [mine EXCEPT ![c] = NoEndpoint]
    /\ req' = [req EXCEPT ![c] = NoPort]
    /\ UNCHANGED <<slotVars, after, victim, diskVars, phase>>

\* Mutant: the previous responder is not shut down.
SwapWithoutShutdown(c) ==
    /\ pc[c] = "opened"
    /\ Publish(c)
    /\ UNCHANGED <<sock, victim, phase>>

\* open() returned: swap out the previous responder, if there is one.
Swap(c) ==
    /\ pc[c] = "opened"
    /\ \/ /\ Take(c, "swap")
          /\ UNCHANGED <<binding, sock, serving, req, mine, diskVars>>
       \/ /\ responder = NoEndpoint
          /\ Publish(c)
          /\ UNCHANGED <<sock, victim>>
    /\ UNCHANGED phase

\* Mutant: the task is awaited before the responder is closed.
JoinBeforeClose(c) ==
    /\ pc[c] = "closing"
    /\ victim[c] \notin serving
    /\ sock' = [sock EXCEPT ![victim[c]] = NoPort]
    /\ pc' = [pc EXCEPT ![c] = "joining"]
    /\ UNCHANGED <<responder, binding, serving, after, req, mine, victim,
                   diskVars, phase>>

\* `await responder.close()` in _shutdown_responder releases the socket.
CloseVictim(c) ==
    /\ pc[c] = "closing"
    /\ sock' = [sock EXCEPT ![victim[c]] = NoPort]
    /\ pc' = [pc EXCEPT ![c] = "joining"]
    /\ UNCHANGED <<responder, binding, serving, after, req, mine, victim,
                   diskVars, phase>>

\* `await task` returns; the call goes on from where it took the responder.
JoinVictim(c) ==
    /\ pc[c] = "joining"
    /\ victim[c] \notin serving
    /\ \/ /\ after[c] \in {"stop", "restart"}
          /\ Stopped(c, after[c])
          /\ victim' = [victim EXCEPT ![c] = NoEndpoint]
          /\ UNCHANGED <<slotVars, req, mine, phase>>
       \/ /\ after[c] = "swap"
          /\ Publish(c)
          /\ victim' = [victim EXCEPT ![c] = NoEndpoint]
          /\ UNCHANGED <<sock, phase>>
       \/ /\ after[c] = "retry"
          /\ pc' = [pc EXCEPT ![c] = "reopening"]
          /\ after' = [after EXCEPT ![c] = "none"]
          /\ victim' = [victim EXCEPT ![c] = NoEndpoint]
          /\ UNCHANGED <<slotVars, req, mine, diskVars, phase>>
       \/ /\ after[c] = "exit"
          /\ phase' = "down"
          /\ LoseMemory
          /\ UNCHANGED diskVars

CallStep(c) ==
    \/ RestartStart(c) \/ RestartRefused(c) \/ OpenBinds(c) \/ OpenFails(c)
    \/ HandleRefused(c) \/ GiveUp(c) \/ Swap(c) \/ CloseVictim(c) \/ JoinVictim(c)

-----------------------------------------------------------------------------
(* The serve task.                                                         *)

\* Mutant: a task that breaks leaves the runtime's reference behind.
TaskLeavesReference(e) ==
    /\ serving' = serving \ {e}
    /\ UNCHANGED responder

\* The finally clause of _run_responder.
TaskFinally(e) ==
    /\ serving' = serving \ {e}
    /\ responder' = IF responder = e THEN NoEndpoint ELSE responder

\* serve_forever() returns because the responder was closed.
TaskEnds(e) ==
    /\ e \in serving
    /\ ~Open(e)
    /\ TaskFinally(e)
    /\ UNCHANGED <<binding, sock, callVars, diskVars, phase>>

\* serve_forever() raises.  Nothing in _run_responder closes the responder;
\* whether the library has released the socket by then is left open.
ServeFails(e) ==
    /\ e \in serving
    /\ Open(e)
    /\ TaskFinally(e)
    /\ \/ UNCHANGED sock
       \/ sock' = [sock EXCEPT ![e] = NoPort]
    /\ UNCHANGED <<binding, callVars, diskVars, phase>>

-----------------------------------------------------------------------------
(* The hosting process.                                                    *)

Crash ==
    /\ phase # "down"
    /\ phase' = "down"
    /\ LoseMemory
    /\ UNCHANGED diskVars

Boot ==
    /\ phase = "down"
    /\ phase' = "boot"
    /\ UNCHANGED <<slotVars, callVars, diskVars>>

\* lifespan, with settings.auto_start_simulator set: simulator_service.start
\* on the persisted port, awaited before any request is served.
AutoStart(c) ==
    /\ phase = "boot"
    /\ phase' = "autostart"
    /\ Construct(c, savedPort)

\* lifespan reaches its yield: the flag was off, or the start has finished.
BootDone ==
    /\ phase \in {"boot", "autostart"}
    /\ AllIdle
    /\ phase' = "up"
    /\ UNCHANGED <<slotVars, callVars, diskVars>>

\* The finally clause of lifespan, once the server has drained its requests.
Shutdown(c) ==
    /\ phase = "up"
    /\ AllIdle
    /\ \/ /\ Take(c, "exit")
          /\ phase' = "stopping"
          /\ UNCHANGED <<binding, sock, serving, req, mine>>
       \/ /\ responder = NoEndpoint
          /\ phase' = "down"
          /\ LoseMemory
    /\ UNCHANGED diskVars

-----------------------------------------------------------------------------
Next ==
    \/ \E c \in Calls, p \in Ports : Start(c, p)
    \/ \E c \in Calls : Stop(c) \/ Restart(c) \/ CallStep(c)
    \/ \E e \in Endpoints : TaskEnds(e) \/ ServeFails(e)
    \/ \E c \in Calls : AutoStart(c) \/ Shutdown(c)
    \/ Crash \/ Boot \/ BootDone

Spec == Init /\ [][Next]_vars

\* The event loop runs every callback that is ready: an I/O operation that
\* was started completes, a task whose socket closed ends.  Requests, crashes
\* and failures are never forced.
Fairness ==
    /\ \A c \in Calls : WF_vars(CallStep(c))
    /\ \A e \in Endpoints : WF_vars(TaskEnds(e))

FairSpec == Spec /\ Fairness

-----------------------------------------------------------------------------
(* Properties.                                                             *)

\* Whatever start, stop and restart calls interleave: the published responder
\* is being served, its socket is open, and the port the status reports and
\* the port a restart or a reboot will use are the one it really listens on.
CurrentIsServing ==
    responder # NoEndpoint =>
        /\ responder \in serving
        /\ sock[responder] = binding
        /\ savedPort = binding

\* _shutdown_responder hands an endpoint to exactly one call: two calls never
\* close or await the same responder, and none tears down the published one
\* or one that another call is still starting.
SingleTeardown ==
    \A c, d \in Calls :
        victim[c] # NoEndpoint =>
            /\ victim[c] # responder
            /\ victim[c] # mine[d]
            /\ c # d => victim[c] # victim[d]

\* What a parked call holds on to, by the point it is parked at.
CallShape ==
    \A c \in Calls :
        /\ victim[c] # NoEndpoint <=> pc[c] \in {"closing", "joining"}
        /\ after[c] # "none" <=> pc[c] \in {"closing", "joining"}
        /\ mine[c] # NoEndpoint <=>
              \/ pc[c] \in {"opening", "reopening", "opened", "refused", "failed"}
              \/ after[c] \in {"swap", "retry"}
        /\ (mine[c] # NoEndpoint \/ pc[c] = "restarting" \/ after[c] = "restart")
              => req[c] \in Ports
        /\ (pc[c] = "opened" \/ after[c] = "swap") => sock[mine[c]] = req[c]

\* An endpoint under construction belongs to one call and is not served yet.
OwnConstruction ==
    \A c, d \in Calls :
        mine[c] # NoEndpoint =>
            /\ mine[c] # responder
            /\ mine[c] \notin serving
            /\ c # d => mine[c] # mine[d]

\* No call survives the process, and none precedes the auto-start.
QuietBoot == phase \in {"down", "boot"} => AllIdle

\* The inductive invariant behind CurrentIsServing and SingleTeardown.
IInv ==
    /\ TypeOK
    /\ CallShape
    /\ OwnConstruction
    /\ QuietBoot
    /\ SingleTeardown
    /\ CurrentIsServing

\* A socket that answers requests is the published responder or is on its way
\* down: no responder keeps serving after the runtime has forgotten it.
NoOrphan ==
    \A e \in serving : e = responder \/ \E c \in Calls : victim[c] = e

\* A responder that runs has a start time, so its uptime is known.
UptimeKnown == responder # NoEndpoint => startedAt = "time"

\* Handlers that do not overlap: nothing is published during a teardown.
NothingPublishedMeanwhile ==
    \A c \in Calls : victim[c] # NoEndpoint => responder = NoEndpoint

\* The inductive invariant behind NoOrphan and UptimeKnown for such handlers.
SerialInv == NoOrphan /\ UptimeKnown /\ NothingPublishedMeanwhile

\* A running responder goes away by a stop, a restart, a shutdown or its own
\* failure, or by a start that either holds its new socket already or was
\* refused the very port this responder listens on.  A start that fails to
\* bind a NEW address leaves it alone.
OnlyLegitimateTakedown ==
    [][ \A e \in Endpoints :
          (responder = e /\ responder' = NoEndpoint /\ e \in serving') =>
            \E c \in Calls :
                \/ pc[c] = "idle" /\ after'[c] \in {"stop", "restart", "exit"}
                \/ pc[c] = "opened" /\ sock[mine[c]] = req[c]
                \/ pc[c] = "refused" /\ req[c] = sock[e] ]_vars

\* Every start, stop and restart returns: no two calls wait for each other,
\* and `await task` never waits for a responder nobody has closed.
CallsReturn == \A c \in Calls : pc[c] # "idle" ~> pc[c] = "idle"

\* The promise of SingleEndpoint, for request handlers that do not overlap.
Answering ==
    {e \in Endpoints : Open(e) /\ (e \in serving \/ Held(e))}

SE == INSTANCE SingleEndpoint WITH
          live <- {sock[e] : e \in Answering},
          current <- IF responder = NoEndpoint THEN NoPort ELSE sock[responder]

\* Request handlers that do not overlap implement that promise: whatever stop,
\* restart, failed or successful start is called, and wherever the process
\* crashes, a replacement becomes current only once the old one is closed.
OneEndpointAtATime == SE!Spec
=============================================================================

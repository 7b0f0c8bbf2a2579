-------------------------- MODULE TrapReceiverProofs --------------------------
(***************************************************************************)
(* The trap receiver for any number of listeners, ports, bundles and       *)
(* events.  What holds of the responder's lifecycle is taken over through  *)
(* an instance of ResponderProofs (LP, the same substitution as L); what   *)
(* is proved here is about the bundle a trap is filed under and about the  *)
(* traps that are being announced.                                         *)
(***************************************************************************)
EXTENDS TrapReceiver, EventHistoryProofs

LP == INSTANCE ResponderProofs WITH responder <- listener, Endpoints <- Listeners,
                                    NoEndpoint <- NoListener

-----------------------------------------------------------------------------
(* The receiver's lifecycle is the responder's.                            *)

\* Every step of the receiver is a step of the lifecycle, or none.
LEMMA LifecycleStep == [Next]_vars => [L!Next]_(L!vars)
    BY DEF Next, vars, lifeVars, Start, Stop, CallStep, AutoStart, Shutdown, Receive,
           Announced, LoopEnds, LoopBreaks, Crash, Boot, BootDone, HistoryStep,
           L!Next, L!CallStep, L!vars, L!slotVars, L!callVars, L!diskVars

\* The two instances of Responder are one.
LEMMA SameSteps == [L!Next]_(L!vars) <=> [LP!Next]_(LP!vars)
    BY DEF L!Open, LP!Open, L!Held, LP!Held, L!Unused, LP!Unused,
           L!AllIdle, LP!AllIdle, L!Take, LP!Take, L!PublishWith, LP!PublishWith,
           L!Publish, LP!Publish, L!Stopped, LP!Stopped, L!Construct, LP!Construct,
           L!LoseMemory, LP!LoseMemory, L!Start, LP!Start, L!Stop, LP!Stop,
           L!Restart, LP!Restart, L!RestartStart, LP!RestartStart,
           L!RestartRefused, LP!RestartRefused,
           L!OpenBinds, LP!OpenBinds, L!OpenFails, LP!OpenFails,
           L!SameAddress, LP!SameAddress, L!HandleRefused, LP!HandleRefused,
           L!GiveUp, LP!GiveUp, L!Swap, LP!Swap, L!CloseVictim, LP!CloseVictim,
           L!JoinVictim, LP!JoinVictim, L!CallStep, LP!CallStep,
           L!TaskFinally, LP!TaskFinally, L!TaskEnds, LP!TaskEnds,
           L!ServeFails, LP!ServeFails, L!Crash, LP!Crash, L!Boot, LP!Boot,
           L!AutoStart, LP!AutoStart, L!BootDone, LP!BootDone,
           L!Shutdown, LP!Shutdown, L!Next, LP!Next, L!vars, LP!vars,
           L!slotVars, LP!slotVars, L!callVars, LP!callVars,
           L!diskVars, LP!diskVars

LEMMA SameStates ==
    /\ L!Init <=> LP!Init
    /\ L!IInv <=> LP!IInv
    /\ L!SerialInv <=> LP!SerialInv
    /\ L!CurrentIsServing <=> LP!CurrentIsServing
<1>1. L!Init <=> LP!Init
    BY DEF L!Init, LP!Init, L!FreshMemory, LP!FreshMemory
<1>2. L!IInv <=> LP!IInv
    BY DEF L!IInv, LP!IInv, L!TypeOK, LP!TypeOK, L!PCs, LP!PCs, L!Afters, LP!Afters,
           L!Phases, LP!Phases, L!CallShape, LP!CallShape,
           L!OwnConstruction, LP!OwnConstruction, L!QuietBoot, LP!QuietBoot,
           L!AllIdle, LP!AllIdle, L!SingleTeardown, LP!SingleTeardown,
           L!CurrentIsServing, LP!CurrentIsServing
<1>3. L!SerialInv <=> LP!SerialInv
    BY DEF L!SerialInv, LP!SerialInv, L!NoOrphan, LP!NoOrphan,
           L!UptimeKnown, LP!UptimeKnown,
           L!NothingPublishedMeanwhile, LP!NothingPublishedMeanwhile
<1>4. L!CurrentIsServing <=> LP!CurrentIsServing
    BY DEF L!CurrentIsServing, LP!CurrentIsServing
<1> QED
    BY <1>1, <1>2, <1>3, <1>4

LEMMA Lifecycle == Spec => LP!Spec
<1>1. Init => LP!Init
    BY SameStates DEF Init
<1>2. [Next]_vars => [LP!Next]_(LP!vars)
    BY LifecycleStep, SameSteps
<1> QED
    BY <1>1, <1>2, PTL DEF Spec, LP!Spec

LEMMA LifecycleInv == Spec => []L!IInv
<1>1. LP!Spec => []LP!IInv
    BY LP!Inductive, ReceiverPortsAssumption, ReceiverListenersAssumption
<1>2. LP!IInv => L!IInv
    BY SameStates
<1> QED
    BY <1>1, <1>2, Lifecycle, PTL

\* Whatever starts and stops interleave, the listener the status reports is
\* served by its loop on the port the status reports.
THEOREM PublishedListenerIsServing == Spec => []ListenerIsServing
<1>1. L!IInv => ListenerIsServing
    BY DEF L!IInv, ListenerIsServing
<1> QED
    BY <1>1, LifecycleInv, PTL

\* start_listener and stop_listener: whatever listeners are started, stopped and
\* break in between, each step of a call brings it closer to its answer, none
\* of another throws it back, and it waits only for a listener it has closed.
THEOREM ListenerCallsAdvance ==
    Spec => /\ [][\A c \in Calls : LP!GetsOn(c)]_(LP!vars)
            /\ []LP!JoinsClosed
<1>1. LP!Spec => [][\A c \in Calls : LP!GetsOn(c)]_(LP!vars)
    BY LP!CallsAdvance, ReceiverPortsAssumption, ReceiverListenersAssumption
<1>2. LP!Spec => []LP!JoinsClosed
    BY LP!TeardownsEnd, ReceiverPortsAssumption, ReceiverListenersAssumption
<1> QED
    BY <1>1, <1>2, Lifecycle

-----------------------------------------------------------------------------
(* Requests that do not overlap.                                           *)

\* At most one start or stop is in progress.
Serialised == \A c, d \in Calls : c = d

LEMMA SerialLifecycle ==
    ASSUME Serialised
    PROVE  Spec => []L!SerialInv
<1>1. LP!Serialised
    BY DEF Serialised, LP!Serialised
<1>2. LP!Init => LP!SerialInv
    BY DEF LP!Init, LP!FreshMemory, LP!SerialInv, LP!NoOrphan, LP!UptimeKnown,
           LP!NothingPublishedMeanwhile
<1>3. LP!IInv /\ LP!SerialInv /\ [LP!Next]_(LP!vars) => LP!SerialInv'
    BY <1>1, LP!SerialStep, ReceiverPortsAssumption, ReceiverListenersAssumption
<1>4. LP!Spec => []LP!IInv
    BY LP!Inductive, ReceiverPortsAssumption, ReceiverListenersAssumption
<1>5. LP!SerialInv => L!SerialInv
    BY SameStates
<1> QED
    BY <1>2, <1>3, <1>4, <1>5, Lifecycle, PTL DEF LP!Spec

\* While a call publishes a listener, no other listener runs.
LEMMA NothingElseRuns ==
    ASSUME Serialised, L!IInv, L!SerialInv,
           NEW c \in Calls, NEW e \in serving
    PROVE  /\ ~(pc[c] = "opened" /\ listener = NoListener)
           /\ ~(pc[c] = "joining" /\ victim[c] \notin serving)
<1>1. e \in Listeners /\ e # NoListener
    BY ReceiverListenersAssumption DEF L!IInv, L!TypeOK
<1>2. e = listener \/ victim[c] = e
    BY DEF Serialised, L!SerialInv, L!NoOrphan
<1>3. victim[c] # NoListener <=> pc[c] \in {"closing", "joining"}
    BY DEF L!IInv, L!CallShape
<1>4. victim[c] # NoListener => listener = NoListener
    BY DEF L!SerialInv, L!NothingPublishedMeanwhile
<1> QED
    BY <1>1, <1>2, <1>3, <1>4

LEMMA UnchangedHistory == HistoryInv /\ UNCHANGED historyVars => HistoryInv'
    BY HistoryInvStep

\* What the lifecycle's steps do to the set of running listeners.
LEMMA FiledKeeps ==
    ASSUME Serialised, L!IInv, L!SerialInv, TrapInv, NEW c \in Calls,
           L!Swap(c) \/ (after[c] # "exit" /\ L!JoinVictim(c)),
           Filed(c), UNCHANGED <<made, loop, historyVars>>
    PROVE  TrapInv'
<1> USE DEF TrapInv
<1>1. filed' \in Stamps
    <2>1. mine[c] \in Listeners \cup {NoListener}
        BY DEF L!IInv, L!TypeOK
    <2> QED
        BY <2>1 DEF Filed
<1>2. CASE serving' = serving /\ listener' = listener
    <2>1. mine[c] # listener \/ listener = NoListener
        BY DEF L!IInv, L!OwnConstruction
    <2> QED
        BY <1>1, <1>2, <2>1, UnchangedHistory DEF Filed, ServingFiled, AnnouncingServed
<1>3. CASE serving' = serving /\ listener' = NoListener
    BY <1>1, <1>3, UnchangedHistory DEF Filed, ServingFiled, AnnouncingServed
<1>4. CASE L!Publish(c) /\ serving = {} /\ mine[c] # NoListener
    BY <1>1, <1>4, UnchangedHistory
       DEF Filed, ServingFiled, AnnouncingServed, L!Publish, L!PublishWith
<1>5. L!Swap(c) => \/ serving' = serving /\ listener' = NoListener
                   \/ L!Publish(c) /\ serving = {} /\ mine[c] # NoListener
    BY NothingElseRuns DEF L!IInv, L!CallShape, L!Swap, L!Take
<1>6. after[c] # "exit" /\ L!JoinVictim(c) =>
          \/ serving' = serving /\ listener' = listener
          \/ L!Publish(c) /\ serving = {} /\ mine[c] # NoListener
    BY NothingElseRuns DEF L!IInv, L!CallShape, L!JoinVictim, L!slotVars
<1> QED
    BY <1>2, <1>3, <1>4, <1>5, <1>6

LEMMA TrapInvInit == Init => TrapInv
<1> SUFFICES ASSUME Init PROVE TrapInv
    OBVIOUS
<1>1. HistoryInv
    BY HistoryInvInit DEF Init
<1>2. serving = {}
    BY DEF Init, L!Init, L!FreshMemory
<1> QED
    BY <1>1, <1>2
       DEF Init, TrapInv, ServingFiled, AnnouncingServed, Receiving, Stamps

\* The end of the process.
LEMMA LossKeeps ==
    ASSUME TrapInv, LoseReceiverMemory, serving' = {}
    PROVE  TrapInv'
<1>1. HistoryInv'
    BY HistoryInvStep DEF TrapInv, LoseReceiverMemory, HistorySteps, Restart
<1> QED
    BY <1>1
       DEF TrapInv, LoseReceiverMemory, ServingFiled, AnnouncingServed, Receiving, Stamps

\* A step that touches neither the bundles nor the loops, and starts no loop.
LEMMA QuietKeeps ==
    ASSUME TrapInv, UNCHANGED <<serving, made, filed, loop, historyVars>>
    PROVE  TrapInv'
    BY UnchangedHistory DEF TrapInv, ServingFiled, AnnouncingServed

\* A trap that is received is filed as EventHistory says.
LEMMA ReceiveFiles ==
    ASSUME TrapInv, NEW e \in Listeners, Receive(e)
    PROVE  filed \in Stamps /\ FileTrap(filed)
    BY DEF Receive, TrapInv, ServingFiled, FileTrap

LEMMA TrapInvStep ==
    ASSUME Serialised, L!IInv, L!SerialInv, TrapInv, [Next]_vars
    PROVE  TrapInv'
<1>1. ASSUME NEW c \in Calls, NEW p, L!Construct(c, p), Made(c) PROVE TrapInv'
    <2>1. PICK e \in Listeners : L!Unused(e) /\ mine' = [mine EXCEPT ![c] = e]
        BY <1>1 DEF L!Construct
    <2>2. mine'[c] = e /\ e \notin serving /\ serving' = serving
        BY <1>1, <2>1 DEF L!Construct, L!slotVars, L!Unused, L!IInv, L!TypeOK
    <2>3. made' = [made EXCEPT ![e] = active] /\ active \in Stamps
        BY <1>1, <2>2 DEF Made, TrapInv, HistoryInv, HistoryTypeOK
    <2>4. \A f \in serving : f \in Listeners
        BY DEF L!IInv, L!TypeOK
    <2> QED
        BY <1>1, <2>2, <2>3, <2>4, UnchangedHistory
           DEF Made, TrapInv, ServingFiled, AnnouncingServed
<1>2. ASSUME NEW c \in Calls, NEW p \in Ports, Start(c, p) PROVE TrapInv'
    BY <1>1, <1>2 DEF Start, L!Start
<1>3. ASSUME NEW c \in Calls, AutoStart(c) PROVE TrapInv'
    BY <1>1, <1>3 DEF AutoStart, L!AutoStart
<1>4. ASSUME NEW c \in Calls, Stop(c) PROVE TrapInv'
    BY <1>4, QuietKeeps DEF Stop, L!Stop, L!slotVars
<1>5. ASSUME NEW c \in Calls, CallStep(c) PROVE TrapInv'
    <2>1. CASE /\ L!OpenBinds(c) \/ L!OpenFails(c) \/ L!HandleRefused(c) \/ L!GiveUp(c)
               /\ UNCHANGED <<made, filed, loop, historyVars>>
        BY <2>1, QuietKeeps
           DEF L!OpenBinds, L!OpenFails, L!HandleRefused, L!GiveUp, L!slotVars
    <2>2. CASE L!CloseVictim(c) /\ UNCHANGED <<made, filed, loop, historyVars>>
        BY <2>2, QuietKeeps DEF L!CloseVictim
    <2>3. CASE /\ after[c] = "exit"
               /\ L!JoinVictim(c)
               /\ LoseReceiverMemory
        BY <2>3, LossKeeps DEF L!JoinVictim, L!LoseMemory
    <2> QED
        BY <1>5, <2>1, <2>2, <2>3, FiledKeeps DEF CallStep
<1>6. ASSUME NEW c \in Calls, Shutdown(c) PROVE TrapInv'
    <2>1. serving' = serving \/ serving' = {}
        BY <1>6 DEF Shutdown, L!Shutdown, L!LoseMemory
    <2>2. phase' = "down" => serving' = {}
        BY <1>6 DEF Shutdown, L!Shutdown, L!LoseMemory
    <2>3. phase' # "down" => serving' = serving
        BY <1>6 DEF Shutdown, L!Shutdown, L!LoseMemory
    <2> QED
        BY <1>6, <2>2, <2>3, LossKeeps, QuietKeeps DEF Shutdown
<1>7. ASSUME NEW e \in Listeners, Receive(e) PROVE TrapInv'
    <2>3. HistoryInv'
        BY <1>7, ReceiveFiles, FileTrapKeeps DEF TrapInv
    <2>4. loop' \in [Listeners -> Receiving]
        BY <1>7 DEF Receive, TrapInv, Receiving
    <2> QED
        BY <1>7, <2>3, <2>4
           DEF Receive, lifeVars, TrapInv, ServingFiled, AnnouncingServed
<1>8. ASSUME NEW e \in Listeners, Announced(e) PROVE TrapInv'
    <2>1. loop' \in [Listeners -> Receiving]
        BY <1>8 DEF Announced, TrapInv, Receiving
    <2> QED
        BY <1>8, <2>1, UnchangedHistory
           DEF Announced, lifeVars, TrapInv, ServingFiled, AnnouncingServed
<1>9. ASSUME NEW e \in Listeners, LoopEnds(e) \/ LoopBreaks(e) PROVE TrapInv'
    <2>1. serving' = serving \ {e}
        BY <1>9 DEF LoopEnds, LoopBreaks, L!TaskEnds, L!ServeFails, L!TaskFinally
    <2>2. /\ loop' \in [Listeners -> Receiving]
          /\ loop'[e] = "waiting"
          /\ \A f \in Listeners \ {e} : loop'[f] = loop[f]
        BY <1>9 DEF LoopEnds, LoopBreaks, TrapInv, Receiving
    <2>3. UNCHANGED <<made, filed, historyVars>>
        BY <1>9 DEF LoopEnds, LoopBreaks
    <2> QED
        BY <2>1, <2>2, <2>3, UnchangedHistory DEF TrapInv, ServingFiled, AnnouncingServed
<1>10. ASSUME Crash PROVE TrapInv'
    BY <1>10, LossKeeps DEF Crash, L!Crash, L!LoseMemory
<1>11. ASSUME Boot \/ BootDone PROVE TrapInv'
    BY <1>11, QuietKeeps DEF Boot, BootDone, L!Boot, L!BootDone, L!slotVars
<1>12. ASSUME HistoryStep PROVE TrapInv'
    <2>1. HistoryInv'
        BY <1>12, HistoryInvStep DEF HistoryStep, TrapInv, HistorySteps, HistoryRequests
    <2> QED
        BY <1>12, <2>1 DEF HistoryStep, lifeVars, TrapInv, ServingFiled, AnnouncingServed
<1>13. CASE UNCHANGED vars
    BY <1>13, QuietKeeps DEF vars, lifeVars
<1> QED
    BY <1>2, <1>3, <1>4, <1>5, <1>6, <1>7, <1>8, <1>9, <1>10, <1>11, <1>12, <1>13 DEF Next

LEMMA SerialInductive ==
    ASSUME Serialised
    PROVE  Spec => [](L!IInv /\ L!SerialInv /\ TrapInv)
<1>1. L!IInv /\ L!SerialInv /\ TrapInv /\ [Next]_vars => TrapInv'
    BY TrapInvStep
<1> QED
    BY <1>1, TrapInvInit, LifecycleInv, SerialLifecycle, PTL DEF Spec

\* With requests that do not overlap every state is well typed, the listener's
\* lifecycle and the history it writes to included.
THEOREM ReceiverTypeCorrect ==
    ASSUME Serialised
    PROVE  Spec => []TypeOK
<1>1. L!IInv /\ TrapInv => TypeOK
    BY DEF L!IInv, TrapInv, HistoryInv, TypeOK
<1> QED
    BY <1>1, SerialInductive, PTL

\* With requests that do not overlap every trap is filed under the bundle that
\* decoded it, whatever is activated and wherever the process ends.
THEOREM TrapsAreStamped ==
    ASSUME Serialised
    PROVE  Spec => []StampedBundle
<1>1. TrapInv => StampedBundle
    BY DEF TrapInv, HistoryInv
<1> QED
    BY <1>1, SerialInductive, PTL

\* When a stop has answered, no loop it has stopped announces anything.
THEOREM QuietAfterStop ==
    ASSUME Serialised
    PROVE  Spec => []NothingAfterStop
<1>1. L!SerialInv /\ TrapInv => NothingAfterStop
    BY DEF L!SerialInv, L!NoOrphan, TrapInv, AnnouncingServed, NothingAfterStop
<1> QED
    BY <1>1, SerialInductive, PTL

\* No two loops announce traps at the same time.
THEOREM AnnouncedInTurn ==
    ASSUME Serialised
    PROVE  Spec => []OneTrapAtATime
<1>1. L!SerialInv /\ TrapInv => OneTrapAtATime
    <2> SUFFICES ASSUME L!SerialInv, TrapInv,
                        NEW e \in Listeners, NEW f \in Listeners,
                        loop[e] # "waiting", loop[f] # "waiting"
                 PROVE  e = f
        BY DEF OneTrapAtATime
    <2>1. \A g \in {e, f} : g = listener \/ \E c \in Calls : victim[c] = g
        BY DEF TrapInv, AnnouncingServed, L!SerialInv, L!NoOrphan
    <2>2. \A c \in Calls : victim[c] # NoListener => listener = NoListener
        BY DEF L!SerialInv, L!NothingPublishedMeanwhile
    <2> QED
        BY <2>1, <2>2, ReceiverListenersAssumption DEF Serialised
<1> QED
    BY <1>1, SerialInductive, PTL

\* With requests that do not overlap the receiver implements EventHistory.
THEOREM ReceiverImplementsHistory ==
    ASSUME Serialised
    PROVE  Spec => FilesAsPromised
<1>1. Init => HistoryInit
    BY DEF Init
<1>2. TrapInv /\ [Next]_vars => [HistorySteps]_historyVars
    <2> SUFFICES ASSUME TrapInv, [Next]_vars PROVE [HistorySteps]_historyVars
        OBVIOUS
    <2>1. ASSUME NEW e \in Listeners, Receive(e) PROVE HistorySteps
        BY <2>1, ReceiveFiles DEF HistorySteps
    <2>2. LoseReceiverMemory => HistorySteps
        BY DEF LoseReceiverMemory, HistorySteps, Restart
    <2>3. HistoryStep => HistorySteps
        BY DEF HistoryStep, HistorySteps, HistoryRequests
    <2>4. ASSUME NEW c \in Calls, NEW p \in Ports,
                 Start(c, p) \/ Stop(c) \/ CallStep(c) \/ AutoStart(c) \/ Shutdown(c)
          PROVE  LoseReceiverMemory \/ UNCHANGED historyVars
        BY <2>4 DEF Start, Stop, CallStep, AutoStart, Shutdown, Made
    <2>5. ASSUME NEW e \in Listeners, Announced(e) \/ LoopEnds(e) \/ LoopBreaks(e)
          PROVE  UNCHANGED historyVars
        BY <2>5 DEF Announced, LoopEnds, LoopBreaks
    <2>6. Boot \/ BootDone => UNCHANGED historyVars
        BY DEF Boot, BootDone
    <2>7. UNCHANGED vars => UNCHANGED historyVars
        BY DEF vars
    <2> QED
        BY <2>1, <2>2, <2>3, <2>4, <2>5, <2>6, <2>7, ReceiverPortsAssumption DEF Next, Crash
<1> QED
    BY <1>1, <1>2, SerialInductive, PTL DEF Spec, FilesAsPromised, HistorySpec

=============================================================================

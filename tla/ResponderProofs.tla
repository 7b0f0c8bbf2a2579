--------------------------- MODULE ResponderProofs ---------------------------
(***************************************************************************)
(* Proofs about Responder for any number of calls, endpoints and ports.    *)
(* IInv (in Responder) is inductive: IInvInit and IInvStep.  The theorems  *)
(* about the published responder and its teardown follow from it.          *)
(***************************************************************************)
EXTENDS Responder, TLAPS

\* The initial state has its types.
LEMMA TypeInit == Init => TypeOK
  BY PortsAssumption DEF Init, FreshMemory, TypeOK, PCs, Afters, Phases

\* Every step keeps the types (a publish needs CallShape: its port is set).
LEMMA TypeStep == IInv /\ [Next]_vars => TypeOK'
<1> SUFFICES ASSUME IInv, [Next]_vars PROVE TypeOK'
  OBVIOUS
<1> TypeOK /\ CallShape
  BY DEF IInv
<1> USE PortsAssumption
        DEF TypeOK, PCs, Afters, Phases, slotVars, callVars, diskVars
<1>1. ASSUME NEW c \in Calls, NEW p \in Ports, Start(c, p) PROVE TypeOK'
  BY <1>1 DEF Start, Construct
<1>2. ASSUME NEW c \in Calls, Stop(c) PROVE TypeOK'
  BY <1>2 DEF Stop, Take, Stopped
<1>3. ASSUME NEW c \in Calls, Restart(c) PROVE TypeOK'
  BY <1>3 DEF Restart, Take, Stopped
<1>4. ASSUME NEW c \in Calls, RestartStart(c) PROVE TypeOK'
  BY <1>4 DEF RestartStart, Construct
<1>21. ASSUME NEW c \in Calls, RestartRefused(c) PROVE TypeOK'
  BY <1>21 DEF RestartRefused
<1>5. ASSUME NEW c \in Calls, OpenBinds(c) PROVE TypeOK'
  BY <1>5 DEF OpenBinds
<1>6. ASSUME NEW c \in Calls, OpenFails(c) PROVE TypeOK'
  BY <1>6 DEF OpenFails
<1>7. ASSUME NEW c \in Calls, HandleRefused(c) PROVE TypeOK'
  BY <1>7 DEF HandleRefused, Take, SameAddress
<1>8. ASSUME NEW c \in Calls, GiveUp(c) PROVE TypeOK'
  BY <1>8 DEF GiveUp
<1>9. ASSUME NEW c \in Calls, Swap(c) PROVE TypeOK'
  BY <1>9 DEF Swap, Take, Publish, PublishWith, CallShape
<1>10. ASSUME NEW c \in Calls, CloseVictim(c) PROVE TypeOK'
  BY <1>10 DEF CloseVictim
<1>11. ASSUME NEW c \in Calls, JoinVictim(c) PROVE TypeOK'
  BY <1>11 DEF JoinVictim, Stopped, Publish, PublishWith, LoseMemory,
       CallShape
<1>12. ASSUME NEW e \in Endpoints, TaskEnds(e) PROVE TypeOK'
  BY <1>12 DEF TaskEnds, TaskFinally
<1>13. ASSUME NEW e \in Endpoints, ServeFails(e) PROVE TypeOK'
  BY <1>13 DEF ServeFails, TaskFinally, Open
<1>14. ASSUME NEW c \in Calls, AutoStart(c) PROVE TypeOK'
  BY <1>14 DEF AutoStart, Construct
<1>15. ASSUME NEW c \in Calls, Shutdown(c) PROVE TypeOK'
  BY <1>15 DEF Shutdown, Take, LoseMemory
<1>16. CASE Crash
  BY <1>16 DEF Crash, LoseMemory
<1>17. CASE Boot
  BY <1>17 DEF Boot
<1>18. CASE BootDone
  BY <1>18 DEF BootDone
<1>19. CASE UNCHANGED vars
  BY <1>19 DEF vars
<1>20. QED
  BY <1>1, <1>2, <1>3, <1>4, <1>5, <1>6, <1>7, <1>8, <1>9, <1>10, <1>11,
     <1>12, <1>13, <1>14, <1>15, <1>16, <1>17, <1>18, <1>19,
     <1>21 DEF Next, CallStep

\* The inductive invariant holds initially.
LEMMA IInvInit == Init => IInv
  BY TypeInit DEF Init, FreshMemory, IInv, CallShape, OwnConstruction,
                  QuietBoot, AllIdle, SingleTeardown, CurrentIsServing

\* Every step keeps the inductive invariant: one step per action, and under
\* it one per conjunct.
LEMMA IInvStep == IInv /\ [Next]_vars => IInv'
<1> SUFFICES ASSUME IInv, [Next]_vars PROVE IInv'
  OBVIOUS
<1> TypeOK'
  BY TypeStep DEF IInv
<1> USE PortsAssumption, EndpointsAssumption
        DEF IInv, TypeOK, PCs, Afters, Phases, slotVars, callVars, diskVars
<1>1. ASSUME NEW c \in Calls, NEW p \in Ports, Start(c, p) PROVE IInv'
  <2>1. CallShape'
    BY <1>1 DEF Start, Construct, Unused, Held, Open, CallShape,
         OwnConstruction, SingleTeardown
  <2>2. OwnConstruction'
    BY <1>1 DEF Start, Construct, Unused, Held, Open, CallShape,
         OwnConstruction, SingleTeardown
  <2>3. SingleTeardown'
    BY <1>1 DEF Start, Construct, Unused, Held, Open, CallShape,
         OwnConstruction, SingleTeardown
  <2>4. CurrentIsServing'
    BY <1>1 DEF Start, Construct, Unused, Held, Open, CallShape,
         OwnConstruction, SingleTeardown, CurrentIsServing
  <2>5. QuietBoot'
    BY <1>1 DEF Start, Construct, QuietBoot, AllIdle
  <2>6. QED
    BY <2>1, <2>2, <2>3, <2>4, <2>5
<1>2. ASSUME NEW c \in Calls, Stop(c) PROVE IInv'
  <2>1. CallShape'
    BY <1>2 DEF Stop, Take, Stopped, CallShape, OwnConstruction,
         SingleTeardown
  <2>2. OwnConstruction'
    BY <1>2 DEF Stop, Take, Stopped, CallShape, OwnConstruction,
         SingleTeardown
  <2>3. SingleTeardown'
    BY <1>2 DEF Stop, Take, Stopped, CallShape, OwnConstruction,
         SingleTeardown
  <2>4. CurrentIsServing'
    BY <1>2 DEF Stop, Take, Stopped, CallShape, OwnConstruction,
         SingleTeardown, CurrentIsServing
  <2>5. QuietBoot'
    BY <1>2 DEF Stop, Take, Stopped, QuietBoot, AllIdle
  <2>6. QED
    BY <2>1, <2>2, <2>3, <2>4, <2>5
<1>3. ASSUME NEW c \in Calls, Restart(c) PROVE IInv'
  <2>1. CallShape'
    BY <1>3 DEF Restart, Take, Stopped, CallShape, OwnConstruction,
         SingleTeardown
  <2>2. OwnConstruction'
    BY <1>3 DEF Restart, Take, Stopped, CallShape, OwnConstruction,
         SingleTeardown
  <2>3. SingleTeardown'
    BY <1>3 DEF Restart, Take, Stopped, CallShape, OwnConstruction,
         SingleTeardown
  <2>4. CurrentIsServing'
    BY <1>3 DEF Restart, Take, Stopped, CallShape, OwnConstruction,
         SingleTeardown, CurrentIsServing
  <2>5. QuietBoot'
    BY <1>3 DEF Restart, Take, Stopped, QuietBoot, AllIdle
  <2>6. QED
    BY <2>1, <2>2, <2>3, <2>4, <2>5
<1>4. ASSUME NEW c \in Calls, RestartStart(c) PROVE IInv'
  <2>1. CallShape'
    BY <1>4 DEF RestartStart, Construct, Unused, Held, Open, CallShape,
         OwnConstruction, SingleTeardown
  <2>2. OwnConstruction'
    BY <1>4 DEF RestartStart, Construct, Unused, Held, Open, CallShape,
         OwnConstruction, SingleTeardown
  <2>3. SingleTeardown'
    BY <1>4 DEF RestartStart, Construct, Unused, Held, Open, CallShape,
         OwnConstruction, SingleTeardown
  <2>4. CurrentIsServing'
    BY <1>4 DEF RestartStart, Construct, Unused, Held, Open, CallShape,
         OwnConstruction, SingleTeardown, CurrentIsServing
  <2>5. QuietBoot'
    BY <1>4 DEF RestartStart, Construct, QuietBoot, AllIdle
  <2>6. QED
    BY <2>1, <2>2, <2>3, <2>4, <2>5
<1>21. ASSUME NEW c \in Calls, RestartRefused(c) PROVE IInv'
  <2>1. CallShape'
    BY <1>21 DEF RestartRefused, CallShape, OwnConstruction, SingleTeardown
  <2>2. OwnConstruction'
    BY <1>21 DEF RestartRefused, CallShape, OwnConstruction, SingleTeardown
  <2>3. SingleTeardown'
    BY <1>21 DEF RestartRefused, CallShape, OwnConstruction, SingleTeardown
  <2>4. CurrentIsServing'
    BY <1>21 DEF RestartRefused, CurrentIsServing
  <2>5. QuietBoot'
    BY <1>21 DEF RestartRefused, QuietBoot, AllIdle
  <2>6. QED
    BY <2>1, <2>2, <2>3, <2>4, <2>5
<1>5. ASSUME NEW c \in Calls, OpenBinds(c) PROVE IInv'
  <2>1. CallShape'
    BY <1>5 DEF OpenBinds, CallShape, OwnConstruction, SingleTeardown
  <2>2. OwnConstruction'
    BY <1>5 DEF OpenBinds, CallShape, OwnConstruction, SingleTeardown
  <2>3. SingleTeardown'
    BY <1>5 DEF OpenBinds, CallShape, OwnConstruction, SingleTeardown
  <2>4. CurrentIsServing'
    BY <1>5 DEF OpenBinds, CallShape, OwnConstruction, SingleTeardown,
         CurrentIsServing
  <2>5. QuietBoot'
    BY <1>5 DEF OpenBinds, QuietBoot, AllIdle
  <2>6. QED
    BY <2>1, <2>2, <2>3, <2>4, <2>5
<1>6. ASSUME NEW c \in Calls, OpenFails(c) PROVE IInv'
  <2>1. CallShape'
    BY <1>6 DEF OpenFails, CallShape, OwnConstruction, SingleTeardown
  <2>2. OwnConstruction'
    BY <1>6 DEF OpenFails, CallShape, OwnConstruction, SingleTeardown
  <2>3. SingleTeardown'
    BY <1>6 DEF OpenFails, CallShape, OwnConstruction, SingleTeardown
  <2>4. CurrentIsServing'
    BY <1>6 DEF OpenFails, CallShape, OwnConstruction, SingleTeardown,
         CurrentIsServing
  <2>5. QuietBoot'
    BY <1>6 DEF OpenFails, QuietBoot, AllIdle
  <2>6. QED
    BY <2>1, <2>2, <2>3, <2>4, <2>5
<1>7. ASSUME NEW c \in Calls, HandleRefused(c) PROVE IInv'
  <2>1. CallShape'
    BY <1>7 DEF HandleRefused, Take, SameAddress, CallShape, OwnConstruction,
         SingleTeardown
  <2>2. OwnConstruction'
    BY <1>7 DEF HandleRefused, Take, SameAddress, CallShape, OwnConstruction,
         SingleTeardown
  <2>3. SingleTeardown'
    BY <1>7 DEF HandleRefused, Take, SameAddress, CallShape, OwnConstruction,
         SingleTeardown
  <2>4. CurrentIsServing'
    BY <1>7 DEF HandleRefused, Take, SameAddress, CallShape, OwnConstruction,
         SingleTeardown, CurrentIsServing
  <2>5. QuietBoot'
    BY <1>7 DEF HandleRefused, Take, SameAddress, QuietBoot, AllIdle
  <2>6. QED
    BY <2>1, <2>2, <2>3, <2>4, <2>5
<1>8. ASSUME NEW c \in Calls, GiveUp(c) PROVE IInv'
  <2>1. CallShape'
    BY <1>8 DEF GiveUp, CallShape, OwnConstruction, SingleTeardown
  <2>2. OwnConstruction'
    BY <1>8 DEF GiveUp, CallShape, OwnConstruction, SingleTeardown
  <2>3. SingleTeardown'
    BY <1>8 DEF GiveUp, CallShape, OwnConstruction, SingleTeardown
  <2>4. CurrentIsServing'
    BY <1>8 DEF GiveUp, CallShape, OwnConstruction, SingleTeardown,
         CurrentIsServing
  <2>5. QuietBoot'
    BY <1>8 DEF GiveUp, QuietBoot, AllIdle
  <2>6. QED
    BY <2>1, <2>2, <2>3, <2>4, <2>5
<1>9. ASSUME NEW c \in Calls, Swap(c) PROVE IInv'
  <2>1. CallShape'
    BY <1>9 DEF Swap, Take, Publish, PublishWith, CallShape, OwnConstruction,
         SingleTeardown
  <2>2. OwnConstruction'
    BY <1>9 DEF Swap, Take, Publish, PublishWith, CallShape, OwnConstruction,
         SingleTeardown
  <2>3. SingleTeardown'
    BY <1>9 DEF Swap, Take, Publish, PublishWith, CallShape, OwnConstruction,
         SingleTeardown
  <2>4. CurrentIsServing'
    BY <1>9 DEF Swap, Take, Publish, PublishWith, CallShape, OwnConstruction,
         SingleTeardown, CurrentIsServing
  <2>5. QuietBoot'
    BY <1>9 DEF Swap, Take, Publish, PublishWith, QuietBoot, AllIdle
  <2>6. QED
    BY <2>1, <2>2, <2>3, <2>4, <2>5
<1>10. ASSUME NEW c \in Calls, CloseVictim(c) PROVE IInv'
  <2>1. CallShape'
    BY <1>10 DEF CloseVictim, CallShape, OwnConstruction, SingleTeardown
  <2>2. OwnConstruction'
    BY <1>10 DEF CloseVictim, CallShape, OwnConstruction, SingleTeardown
  <2>3. SingleTeardown'
    BY <1>10 DEF CloseVictim, CallShape, OwnConstruction, SingleTeardown
  <2>4. CurrentIsServing'
    BY <1>10 DEF CloseVictim, CallShape, OwnConstruction, SingleTeardown,
         CurrentIsServing
  <2>5. QuietBoot'
    BY <1>10 DEF CloseVictim, QuietBoot, AllIdle
  <2>6. QED
    BY <2>1, <2>2, <2>3, <2>4, <2>5
<1>11. ASSUME NEW c \in Calls, JoinVictim(c) PROVE IInv'
  <2>1. CallShape'
    BY <1>11 DEF JoinVictim, Stopped, Publish, PublishWith, LoseMemory,
         CallShape, OwnConstruction, SingleTeardown
  <2>2. OwnConstruction'
    BY <1>11 DEF JoinVictim, Stopped, Publish, PublishWith, LoseMemory,
         CallShape, OwnConstruction, SingleTeardown
  <2>3. SingleTeardown'
    BY <1>11 DEF JoinVictim, Stopped, Publish, PublishWith, LoseMemory,
         CallShape, OwnConstruction, SingleTeardown
  <2>4. CurrentIsServing'
    BY <1>11 DEF JoinVictim, Stopped, Publish, PublishWith, LoseMemory,
         CallShape, OwnConstruction, SingleTeardown, CurrentIsServing
  <2>5. QuietBoot'
    BY <1>11 DEF JoinVictim, Stopped, Publish, PublishWith, LoseMemory,
         QuietBoot, AllIdle
  <2>6. QED
    BY <2>1, <2>2, <2>3, <2>4, <2>5
<1>12. ASSUME NEW e \in Endpoints, TaskEnds(e) PROVE IInv'
  <2>1. CallShape'
    BY <1>12 DEF TaskEnds, TaskFinally, CallShape, OwnConstruction,
         SingleTeardown
  <2>2. OwnConstruction'
    BY <1>12 DEF TaskEnds, TaskFinally, CallShape, OwnConstruction,
         SingleTeardown
  <2>3. SingleTeardown'
    BY <1>12 DEF TaskEnds, TaskFinally, CallShape, OwnConstruction,
         SingleTeardown
  <2>4. CurrentIsServing'
    BY <1>12 DEF TaskEnds, TaskFinally, CallShape, OwnConstruction,
         SingleTeardown, CurrentIsServing
  <2>5. QuietBoot'
    BY <1>12 DEF TaskEnds, TaskFinally, QuietBoot, AllIdle
  <2>6. QED
    BY <2>1, <2>2, <2>3, <2>4, <2>5
<1>13. ASSUME NEW e \in Endpoints, ServeFails(e) PROVE IInv'
  <2>1. CallShape'
    BY <1>13 DEF ServeFails, TaskFinally, Open, CallShape, OwnConstruction,
         SingleTeardown
  <2>2. OwnConstruction'
    BY <1>13 DEF ServeFails, TaskFinally, Open, CallShape, OwnConstruction,
         SingleTeardown
  <2>3. SingleTeardown'
    BY <1>13 DEF ServeFails, TaskFinally, Open, CallShape, OwnConstruction,
         SingleTeardown
  <2>4. CurrentIsServing'
    BY <1>13 DEF ServeFails, TaskFinally, Open, CallShape, OwnConstruction,
         SingleTeardown, CurrentIsServing
  <2>5. QuietBoot'
    BY <1>13 DEF ServeFails, TaskFinally, Open, QuietBoot, AllIdle
  <2>6. QED
    BY <2>1, <2>2, <2>3, <2>4, <2>5
<1>14. ASSUME NEW c \in Calls, AutoStart(c) PROVE IInv'
  <2>1. CallShape'
    BY <1>14 DEF AutoStart, Construct, Unused, Held, Open, QuietBoot, AllIdle,
         CallShape, OwnConstruction, SingleTeardown
  <2>2. OwnConstruction'
    BY <1>14 DEF AutoStart, Construct, Unused, Held, Open, QuietBoot, AllIdle,
         CallShape, OwnConstruction, SingleTeardown
  <2>3. SingleTeardown'
    BY <1>14 DEF AutoStart, Construct, Unused, Held, Open, QuietBoot, AllIdle,
         CallShape, OwnConstruction, SingleTeardown
  <2>4. CurrentIsServing'
    BY <1>14 DEF AutoStart, Construct, Unused, Held, Open, QuietBoot, AllIdle,
         CallShape, OwnConstruction, SingleTeardown, CurrentIsServing
  <2>5. QuietBoot'
    BY <1>14 DEF AutoStart, Construct, QuietBoot, AllIdle
  <2>6. QED
    BY <2>1, <2>2, <2>3, <2>4, <2>5
<1>15. ASSUME NEW c \in Calls, Shutdown(c) PROVE IInv'
  <2>1. CallShape'
    BY <1>15 DEF Shutdown, Take, LoseMemory, QuietBoot, AllIdle, CallShape,
         OwnConstruction, SingleTeardown
  <2>2. OwnConstruction'
    BY <1>15 DEF Shutdown, Take, LoseMemory, QuietBoot, AllIdle, CallShape,
         OwnConstruction, SingleTeardown
  <2>3. SingleTeardown'
    BY <1>15 DEF Shutdown, Take, LoseMemory, QuietBoot, AllIdle, CallShape,
         OwnConstruction, SingleTeardown
  <2>4. CurrentIsServing'
    BY <1>15 DEF Shutdown, Take, LoseMemory, QuietBoot, AllIdle, CallShape,
         OwnConstruction, SingleTeardown, CurrentIsServing
  <2>5. QuietBoot'
    BY <1>15 DEF Shutdown, Take, LoseMemory, QuietBoot, AllIdle
  <2>6. QED
    BY <2>1, <2>2, <2>3, <2>4, <2>5
<1>16. CASE Crash
  <2>1. CallShape'
    BY <1>16 DEF Crash, LoseMemory, CallShape, OwnConstruction, SingleTeardown
  <2>2. OwnConstruction'
    BY <1>16 DEF Crash, LoseMemory, CallShape, OwnConstruction, SingleTeardown
  <2>3. SingleTeardown'
    BY <1>16 DEF Crash, LoseMemory, CallShape, OwnConstruction, SingleTeardown
  <2>4. CurrentIsServing'
    BY <1>16 DEF Crash, LoseMemory, CallShape, OwnConstruction,
         SingleTeardown, CurrentIsServing
  <2>5. QuietBoot'
    BY <1>16 DEF Crash, LoseMemory, QuietBoot, AllIdle
  <2>6. QED
    BY <2>1, <2>2, <2>3, <2>4, <2>5
<1>17. CASE Boot
  <2>1. CallShape'
    BY <1>17 DEF Boot, CallShape, OwnConstruction, SingleTeardown
  <2>2. OwnConstruction'
    BY <1>17 DEF Boot, CallShape, OwnConstruction, SingleTeardown
  <2>3. SingleTeardown'
    BY <1>17 DEF Boot, CallShape, OwnConstruction, SingleTeardown
  <2>4. CurrentIsServing'
    BY <1>17 DEF Boot, CallShape, OwnConstruction, SingleTeardown,
         CurrentIsServing
  <2>5. QuietBoot'
    BY <1>17 DEF Boot, QuietBoot, AllIdle
  <2>6. QED
    BY <2>1, <2>2, <2>3, <2>4, <2>5
<1>18. CASE BootDone
  <2>1. CallShape'
    BY <1>18 DEF BootDone, CallShape, OwnConstruction, SingleTeardown
  <2>2. OwnConstruction'
    BY <1>18 DEF BootDone, CallShape, OwnConstruction, SingleTeardown
  <2>3. SingleTeardown'
    BY <1>18 DEF BootDone, CallShape, OwnConstruction, SingleTeardown
  <2>4. CurrentIsServing'
    BY <1>18 DEF BootDone, CallShape, OwnConstruction, SingleTeardown,
         CurrentIsServing
  <2>5. QuietBoot'
    BY <1>18 DEF BootDone, QuietBoot, AllIdle
  <2>6. QED
    BY <2>1, <2>2, <2>3, <2>4, <2>5
<1>19. CASE UNCHANGED vars
  BY <1>19 DEF vars, CallShape, OwnConstruction, SingleTeardown,
       CurrentIsServing, QuietBoot, AllIdle
<1>20. QED
  BY <1>1, <1>2, <1>3, <1>4, <1>5, <1>6, <1>7, <1>8, <1>9, <1>10, <1>11,
     <1>12, <1>13, <1>14, <1>15, <1>16, <1>17, <1>18, <1>19,
     <1>21 DEF Next, CallStep

\* The inductive invariant holds in every behaviour.
LEMMA Inductive == Spec => []IInv
  BY IInvInit, IInvStep, PTL DEF Spec

\* Type correctness: every variable keeps its type in every behaviour.
THEOREM TypeCorrect == Spec => []TypeOK
  <1>1. IInv => TypeOK
    BY DEF IInv
  <1>2. QED
    BY <1>1, Inductive, PTL

\* Whatever calls interleave, the published responder is being served, its
\* socket is open on the reported port, and that port is the persisted one.
THEOREM PublishedIsServing == Spec => []CurrentIsServing
  <1>1. IInv => CurrentIsServing
    BY DEF IInv
  <1>2. QED
    BY <1>1, Inductive, PTL

\* No responder is torn down by two calls, and none that is published or that
\* another call is starting is torn down.
THEOREM TeardownIsExclusive == Spec => []SingleTeardown
  <1>1. IInv => SingleTeardown
    BY DEF IInv
  <1>2. QED
    BY <1>1, Inductive, PTL

\* A step that withdraws a responder which is still being served belongs to a
\* stop, a restart, a shutdown, a start that holds its new socket, or a start
\* refused the very port that responder listens on.
LEMMA TakedownStep ==
    ASSUME IInv, [Next]_vars,
           NEW e \in Endpoints,
           responder = e, responder' = NoEndpoint, e \in serving'
    PROVE  \E c \in Calls :
              \/ pc[c] = "idle" /\ after'[c] \in {"stop", "restart", "exit"}
              \/ pc[c] = "opened" /\ sock[mine[c]] = req[c]
              \/ pc[c] = "refused" /\ req[c] = sock[e]
<1> USE EndpointsAssumption DEF IInv, TypeOK, slotVars, callVars, diskVars
<1> responder # NoEndpoint
  OBVIOUS
<1>1. ASSUME NEW c \in Calls, NEW p \in Ports, Start(c, p) PROVE FALSE
  BY <1>1 DEF Start, Construct
<1>2. CASE \E c \in Calls : Stop(c) \/ Restart(c) \/ Shutdown(c)
  BY <1>2 DEF Stop, Restart, Shutdown, Take, AllIdle
<1>3. ASSUME NEW c \in Calls, CallStep(c),
             ~(HandleRefused(c) \/ Swap(c) \/ JoinVictim(c))
      PROVE  FALSE
  BY <1>3 DEF CallStep, RestartStart, RestartRefused, Construct, OpenBinds, OpenFails,
              GiveUp, CloseVictim
<1>4. ASSUME NEW c \in Calls, HandleRefused(c)
      PROVE  pc[c] = "refused" /\ req[c] = sock[e]
  BY <1>4 DEF HandleRefused, Take, SameAddress, CurrentIsServing
<1>5. ASSUME NEW c \in Calls, Swap(c)
      PROVE  pc[c] = "opened" /\ sock[mine[c]] = req[c]
  BY <1>5 DEF Swap, CallShape
<1>6. ASSUME NEW c \in Calls, JoinVictim(c) PROVE FALSE
  BY <1>6 DEF JoinVictim, Publish, PublishWith, LoseMemory, CallShape,
              PCs, Afters
<1>7. ASSUME NEW d \in Endpoints, TaskEnds(d) \/ ServeFails(d) PROVE FALSE
  BY <1>7 DEF TaskEnds, ServeFails, TaskFinally
<1>8. ASSUME NEW c \in Calls, AutoStart(c) PROVE FALSE
  BY <1>8 DEF AutoStart, Construct
<1>9. CASE Crash \/ Boot \/ BootDone
  BY <1>9 DEF Crash, Boot, BootDone, LoseMemory
<1>10. CASE UNCHANGED vars
  BY <1>10 DEF vars
<1>11. QED
  BY <1>1, <1>2, <1>3, <1>4, <1>5, <1>6, <1>7, <1>8, <1>9, <1>10
     DEF Next

\* A running responder is only ever taken down for one of those reasons; in
\* particular a start that fails to bind a new address leaves it running.
THEOREM TakedownIsLegitimate == Spec => OnlyLegitimateTakedown
  <1>1. IInv /\ [Next]_vars =>
          [ \A e \in Endpoints :
              (responder = e /\ responder' = NoEndpoint /\ e \in serving') =>
                \E c \in Calls :
                    \/ pc[c] = "idle" /\ after'[c] \in {"stop", "restart", "exit"}
                    \/ pc[c] = "opened" /\ sock[mine[c]] = req[c]
                    \/ pc[c] = "refused" /\ req[c] = sock[e] ]_vars
    BY TakedownStep
  <1>2. QED
    BY <1>1, Inductive, PTL DEF Spec, OnlyLegitimateTakedown

-----------------------------------------------------------------------------
(* Why every call returns, for any number of calls: ENABLED aside, which    *)
(* is left to the runs, it takes only so many steps, and waits for nothing  *)
(* but a task that ends.                                                    *)

\* How many steps of its own a parked call is from its return, at most: by the
\* point it is parked at, and by what follows a teardown.
Ahead == [idle |-> 0, failed |-> 1, opened |-> 3, reopening |-> 4, refused |-> 7,
          opening |-> 8, restarting |-> 9, closing |-> 1, joining |-> 0]
Onward == [none |-> 0, stop |-> 1, exit |-> 1, swap |-> 1, retry |-> 5, restart |-> 10]

StepsLeft(c) == Ahead[pc[c]] + Onward[after[c]]

\* Every step of a call brings it closer to its return, no other step throws it
\* back: a refused open is retried once, a restart starts once.
GetsOn(c) ==
    pc[c] # "idle" =>
        \/ StepsLeft(c)' < StepsLeft(c)
        \/ StepsLeft(c)' = StepsLeft(c) /\ ~CallStep(c)

\* What CallShape says of a call's program counter alone.
LEMMA AfterTeardown ==
    ASSUME IInv, NEW c \in Calls
    PROVE  /\ pc[c] \in PCs /\ after[c] \in Afters
           /\ after[c] # "none" <=> pc[c] \in {"closing", "joining"}
  BY DEF IInv, TypeOK, CallShape

LEMMA StepsLeftIs ==
    ASSUME IInv, NEW c \in Calls
    PROVE  /\ StepsLeft(c) \in Nat
           /\ pc[c] # "idle" => StepsLeft(c) > 0
  BY AfterTeardown DEF StepsLeft, Ahead, Onward, PCs, Afters

\* A call's own step.
LEMMA OwnStep ==
    ASSUME IInv, NEW c \in Calls, CallStep(c)
    PROVE  StepsLeft(c)' < StepsLeft(c)
<1> USE AfterTeardown DEF StepsLeft, Ahead, Onward, PCs, Afters, slotVars, callVars, diskVars
<1> pc = [d \in Calls |-> pc[d]] /\ after = [d \in Calls |-> after[d]]
  BY DEF IInv, TypeOK
<1>1. CASE RestartStart(c) \/ RestartRefused(c)
  BY <1>1 DEF RestartStart, RestartRefused, Construct
<1>2. CASE OpenBinds(c)
  BY <1>2 DEF OpenBinds
<1>3. CASE OpenFails(c)
  BY <1>3 DEF OpenFails
<1>4. CASE HandleRefused(c)
  BY <1>4 DEF HandleRefused, Take
<1>5. CASE GiveUp(c)
  BY <1>5 DEF GiveUp
<1>6. CASE Swap(c)
  BY <1>6 DEF Swap, Take, Publish, PublishWith
<1>7. CASE CloseVictim(c)
  BY <1>7 DEF CloseVictim
<1>8. CASE JoinVictim(c)
  <2>1. CASE after[c] \in {"stop", "restart"}
    BY <1>8, <2>1 DEF JoinVictim, Stopped
  <2>2. CASE after[c] = "swap"
    BY <1>8, <2>2 DEF JoinVictim, Publish, PublishWith
  <2>3. CASE after[c] = "retry"
    BY <1>8, <2>3 DEF JoinVictim
  <2>4. CASE after[c] = "exit"
    BY <1>8, <2>4 DEF JoinVictim, LoseMemory
  <2> QED
    BY <1>8, <2>1, <2>2, <2>3, <2>4 DEF JoinVictim
<1> QED
  BY <1>1, <1>2, <1>3, <1>4, <1>5, <1>6, <1>7, <1>8 DEF CallStep

\* A step that is not a call's own leaves it parked where it is, or ends it
\* with the process.
LEMMA OthersStep ==
    ASSUME IInv, [Next]_vars, NEW c \in Calls, pc[c] # "idle", ~CallStep(c)
    PROVE  \/ pc'[c] = pc[c] /\ after'[c] = after[c]
           \/ pc'[c] = "idle" /\ after'[c] = "none"
<1> USE DEF slotVars, callVars, diskVars
<1> pc = [d \in Calls |-> pc[d]] /\ after = [d \in Calls |-> after[d]]
  BY DEF IInv, TypeOK
<1>1. ASSUME NEW d \in Calls, NEW p \in Ports, Start(d, p)
      PROVE  pc'[c] = pc[c] /\ after'[c] = after[c]
  BY <1>1 DEF Start, Construct
<1>2. ASSUME NEW d \in Calls, Stop(d) \/ Restart(d)
      PROVE  pc'[c] = pc[c] /\ after'[c] = after[c]
  BY <1>2 DEF Stop, Restart, Take, Stopped
<1>3. ASSUME NEW d \in Calls, CallStep(d)
      PROVE  \/ pc'[c] = pc[c] /\ after'[c] = after[c]
             \/ pc'[c] = "idle" /\ after'[c] = "none"
  <2> c # d
    BY <1>3
  <2>1. CASE RestartStart(d) \/ RestartRefused(d) \/ OpenBinds(d) \/ OpenFails(d) \/ GiveUp(d) \/ CloseVictim(d)
    BY <2>1 DEF RestartStart, RestartRefused, Construct, OpenBinds, OpenFails, GiveUp, CloseVictim
  <2>2. CASE HandleRefused(d) \/ Swap(d)
    BY <2>2 DEF HandleRefused, Swap, Take, Publish, PublishWith
  <2>3. CASE JoinVictim(d)
    BY <2>3 DEF JoinVictim, Stopped, Publish, PublishWith, LoseMemory
  <2> QED
    BY <1>3, <2>1, <2>2, <2>3 DEF CallStep
<1>4. ASSUME NEW e \in Endpoints, TaskEnds(e) \/ ServeFails(e)
      PROVE  pc'[c] = pc[c] /\ after'[c] = after[c]
  BY <1>4 DEF TaskEnds, ServeFails
<1>5. ASSUME NEW d \in Calls, AutoStart(d) PROVE FALSE
  BY <1>5 DEF AutoStart, IInv, QuietBoot, AllIdle
<1>6. ASSUME NEW d \in Calls, Shutdown(d) PROVE FALSE
  BY <1>6 DEF Shutdown, AllIdle
<1>7. CASE Crash
  BY <1>7 DEF Crash, LoseMemory
<1>8. CASE Boot \/ BootDone \/ UNCHANGED vars
  BY <1>8 DEF Boot, BootDone, vars
<1> QED
  BY <1>1, <1>2, <1>3, <1>4, <1>5, <1>6, <1>7, <1>8 DEF Next

\* start_responder, simulator_service.stop and restart: however calls overlap,
\* none goes round in circles; from its first suspension point on a call takes
\* at most eleven steps.
THEOREM CallsAdvance == Spec => [][\A c \in Calls : GetsOn(c)]_vars
<1>1. ASSUME IInv, IInv', [Next]_vars, NEW c \in Calls PROVE GetsOn(c)
  <2> SUFFICES ASSUME pc[c] # "idle"
               PROVE  \/ StepsLeft(c)' < StepsLeft(c)
                      \/ StepsLeft(c)' = StepsLeft(c) /\ ~CallStep(c)
    BY DEF GetsOn
  <2>1. CASE CallStep(c)
    BY <1>1, <2>1, OwnStep
  <2>2. CASE ~CallStep(c)
    <3>1. CASE pc'[c] = pc[c] /\ after'[c] = after[c]
      BY <2>2, <3>1 DEF StepsLeft
    <3>2. CASE pc'[c] = "idle" /\ after'[c] = "none"
      <4>1. StepsLeft(c)' = 0
        BY <3>2 DEF StepsLeft, Ahead, Onward
      <4> QED
        BY <1>1, <4>1, StepsLeftIs
    <3> QED
      BY <1>1, <2>2, <3>1, <3>2, OthersStep
  <2> QED
    BY <2>1, <2>2
<1>2. IInv /\ IInv' /\ [Next]_vars => [\A c \in Calls : GetsOn(c)]_vars
  BY <1>1
<1> QED
  BY <1>2, Inductive, PTL DEF Spec

\* A call awaits only the task of a responder that it has closed.
JoinsClosed == \A c \in Calls : pc[c] = "joining" => ~Open(victim[c])

LEMMA JoinsClosedStep == IInv /\ JoinsClosed /\ [Next]_vars => JoinsClosed'
<1> SUFFICES ASSUME IInv, JoinsClosed, [Next]_vars, NEW c \in Calls, pc'[c] = "joining"
             PROVE  ~Open(victim[c])'
  BY DEF JoinsClosed
<1> USE DEF IInv, TypeOK, slotVars, callVars, diskVars, Open
<1> pc = [d \in Calls |-> pc[d]] /\ sock = [e \in Endpoints |-> sock[e]] /\ victim = [d \in Calls |-> victim[d]]
  OBVIOUS
<1>0. CASE UNCHANGED <<pc, victim, sock>>
  BY <1>0 DEF JoinsClosed
<1>1. ASSUME NEW d \in Calls, NEW p \in Ports, Start(d, p) PROVE ~Open(victim[c])'
  BY <1>1 DEF Start, Construct, JoinsClosed
<1>2. ASSUME NEW d \in Calls, Stop(d) \/ Restart(d) PROVE ~Open(victim[c])'
  BY <1>2 DEF Stop, Restart, Take, Stopped, JoinsClosed
<1>3. ASSUME NEW d \in Calls, RestartStart(d) \/ RestartRefused(d) \/ OpenFails(d) \/ GiveUp(d)
      PROVE  ~Open(victim[c])'
  BY <1>3 DEF RestartStart, RestartRefused, Construct, OpenFails, GiveUp, JoinsClosed
<1>4. ASSUME NEW d \in Calls, OpenBinds(d) PROVE ~Open(victim[c])'
  <2>1. victim[c] # NoEndpoint /\ victim[c] # mine[d] /\ ~Open(victim[c])
    BY <1>4 DEF OpenBinds, JoinsClosed, CallShape, SingleTeardown
  <2> QED
    BY <1>4, <2>1 DEF OpenBinds
<1>5. ASSUME NEW d \in Calls, HandleRefused(d) \/ Swap(d) PROVE ~Open(victim[c])'
  BY <1>5 DEF HandleRefused, Swap, Take, Publish, PublishWith, JoinsClosed
<1>6. ASSUME NEW d \in Calls, CloseVictim(d) PROVE ~Open(victim[c])'
  <2>1. victim[d] \in Endpoints
    BY <1>6 DEF CloseVictim, CallShape
  <2> QED
    BY <1>6, <2>1 DEF CloseVictim, JoinsClosed
<1>7. ASSUME NEW d \in Calls, JoinVictim(d) PROVE ~Open(victim[c])'
  BY <1>7 DEF JoinVictim, Stopped, Publish, PublishWith, LoseMemory, JoinsClosed
<1>8. ASSUME NEW e \in Endpoints, TaskEnds(e) \/ ServeFails(e) PROVE ~Open(victim[c])'
  <2>1. UNCHANGED <<pc, victim>> /\ sock' \in {sock, [sock EXCEPT ![e] = NoPort]}
    BY <1>8 DEF TaskEnds, ServeFails
  <2>2. victim[c] \in Endpoints /\ ~Open(victim[c])
    BY <2>1 DEF JoinsClosed, CallShape
  <2> QED
    BY <2>1, <2>2
<1>9. ASSUME NEW d \in Calls, AutoStart(d) \/ Shutdown(d) PROVE ~Open(victim[c])'
  BY <1>9 DEF AutoStart, Construct, Shutdown, Take, LoseMemory, JoinsClosed
<1>10. CASE Crash
  BY <1>10 DEF Crash, LoseMemory
<1>11. CASE Boot \/ BootDone \/ UNCHANGED vars
  BY <1>0, <1>11 DEF Boot, BootDone, vars
<1> QED
  BY <1>1, <1>2, <1>3, <1>4, <1>5, <1>6, <1>7, <1>8, <1>9, <1>10, <1>11 DEF Next, CallStep

\* _shutdown_responder, however calls overlap: `await task` never waits for a
\* responder that is still open, so the task it waits for is ending.
THEOREM TeardownsEnd == Spec => []JoinsClosed
<1>1. Init => JoinsClosed
  BY DEF Init, FreshMemory, JoinsClosed
<1> QED
  BY <1>1, JoinsClosedStep, Inductive, PTL DEF Spec

\* At most one request handler at a time.
Serialised == \A c, d \in Calls : c = d

\* Under that assumption every step keeps SerialInv.
LEMMA SerialStep ==
    ASSUME Serialised, IInv, SerialInv, [Next]_vars
    PROVE  SerialInv'
<1> USE EndpointsAssumption
        DEF Serialised, IInv, TypeOK, SerialInv, CallShape, PCs, Afters,
            slotVars, callVars, diskVars
<1>1. ASSUME NEW c \in Calls, NEW p \in Ports, Start(c, p) PROVE SerialInv'
  <2>1. NoOrphan'
    BY <1>1 DEF Start, Construct, NoOrphan, NothingPublishedMeanwhile
  <2>2. UptimeKnown'
    BY <1>1 DEF Start, Construct, UptimeKnown, NothingPublishedMeanwhile
  <2>3. NothingPublishedMeanwhile'
    BY <1>1 DEF Start, Construct, NothingPublishedMeanwhile
  <2>4. QED
    BY <2>1, <2>2, <2>3
<1>2. ASSUME NEW c \in Calls, Stop(c) PROVE SerialInv'
  <2>1. NoOrphan'
    BY <1>2 DEF Stop, Take, Stopped, NoOrphan, NothingPublishedMeanwhile
  <2>2. UptimeKnown'
    BY <1>2 DEF Stop, Take, Stopped, UptimeKnown, NothingPublishedMeanwhile
  <2>3. NothingPublishedMeanwhile'
    BY <1>2 DEF Stop, Take, Stopped, NothingPublishedMeanwhile
  <2>4. QED
    BY <2>1, <2>2, <2>3
<1>3. ASSUME NEW c \in Calls, Restart(c) PROVE SerialInv'
  <2>1. NoOrphan'
    BY <1>3 DEF Restart, Take, Stopped, NoOrphan, NothingPublishedMeanwhile
  <2>2. UptimeKnown'
    BY <1>3 DEF Restart, Take, Stopped, UptimeKnown, NothingPublishedMeanwhile
  <2>3. NothingPublishedMeanwhile'
    BY <1>3 DEF Restart, Take, Stopped, NothingPublishedMeanwhile
  <2>4. QED
    BY <2>1, <2>2, <2>3
<1>4. ASSUME NEW c \in Calls, RestartStart(c) PROVE SerialInv'
  <2>1. NoOrphan'
    BY <1>4 DEF RestartStart, Construct, NoOrphan, NothingPublishedMeanwhile
  <2>2. UptimeKnown'
    BY <1>4 DEF RestartStart, Construct, UptimeKnown,
         NothingPublishedMeanwhile
  <2>3. NothingPublishedMeanwhile'
    BY <1>4 DEF RestartStart, Construct, NothingPublishedMeanwhile
  <2>4. QED
    BY <2>1, <2>2, <2>3
<1>21. ASSUME NEW c \in Calls, RestartRefused(c) PROVE SerialInv'
  <2>1. NoOrphan'
    BY <1>21 DEF RestartRefused, NoOrphan
  <2>2. UptimeKnown'
    BY <1>21 DEF RestartRefused, UptimeKnown
  <2>3. NothingPublishedMeanwhile'
    BY <1>21 DEF RestartRefused, NothingPublishedMeanwhile
  <2>4. QED
    BY <2>1, <2>2, <2>3
<1>5. ASSUME NEW c \in Calls, OpenBinds(c) PROVE SerialInv'
  <2>1. NoOrphan'
    BY <1>5 DEF OpenBinds, NoOrphan, NothingPublishedMeanwhile
  <2>2. UptimeKnown'
    BY <1>5 DEF OpenBinds, UptimeKnown, NothingPublishedMeanwhile
  <2>3. NothingPublishedMeanwhile'
    BY <1>5 DEF OpenBinds, NothingPublishedMeanwhile
  <2>4. QED
    BY <2>1, <2>2, <2>3
<1>6. ASSUME NEW c \in Calls, OpenFails(c) PROVE SerialInv'
  <2>1. NoOrphan'
    BY <1>6 DEF OpenFails, NoOrphan, NothingPublishedMeanwhile
  <2>2. UptimeKnown'
    BY <1>6 DEF OpenFails, UptimeKnown, NothingPublishedMeanwhile
  <2>3. NothingPublishedMeanwhile'
    BY <1>6 DEF OpenFails, NothingPublishedMeanwhile
  <2>4. QED
    BY <2>1, <2>2, <2>3
<1>7. ASSUME NEW c \in Calls, HandleRefused(c) PROVE SerialInv'
  <2>1. NoOrphan'
    BY <1>7 DEF HandleRefused, Take, SameAddress, NoOrphan,
         NothingPublishedMeanwhile
  <2>2. UptimeKnown'
    BY <1>7 DEF HandleRefused, Take, SameAddress, UptimeKnown,
         NothingPublishedMeanwhile
  <2>3. NothingPublishedMeanwhile'
    BY <1>7 DEF HandleRefused, Take, SameAddress, NothingPublishedMeanwhile
  <2>4. QED
    BY <2>1, <2>2, <2>3
<1>8. ASSUME NEW c \in Calls, GiveUp(c) PROVE SerialInv'
  <2>1. NoOrphan'
    BY <1>8 DEF GiveUp, NoOrphan, NothingPublishedMeanwhile
  <2>2. UptimeKnown'
    BY <1>8 DEF GiveUp, UptimeKnown, NothingPublishedMeanwhile
  <2>3. NothingPublishedMeanwhile'
    BY <1>8 DEF GiveUp, NothingPublishedMeanwhile
  <2>4. QED
    BY <2>1, <2>2, <2>3
<1>9. ASSUME NEW c \in Calls, Swap(c) PROVE SerialInv'
  <2>1. NoOrphan'
    BY <1>9 DEF Swap, Take, Publish, PublishWith, NoOrphan,
         NothingPublishedMeanwhile
  <2>2. UptimeKnown'
    BY <1>9 DEF Swap, Take, Publish, PublishWith, UptimeKnown,
         NothingPublishedMeanwhile
  <2>3. NothingPublishedMeanwhile'
    BY <1>9 DEF Swap, Take, Publish, PublishWith, NothingPublishedMeanwhile
  <2>4. QED
    BY <2>1, <2>2, <2>3
<1>10. ASSUME NEW c \in Calls, CloseVictim(c) PROVE SerialInv'
  <2>1. NoOrphan'
    BY <1>10 DEF CloseVictim, NoOrphan, NothingPublishedMeanwhile
  <2>2. UptimeKnown'
    BY <1>10 DEF CloseVictim, UptimeKnown, NothingPublishedMeanwhile
  <2>3. NothingPublishedMeanwhile'
    BY <1>10 DEF CloseVictim, NothingPublishedMeanwhile
  <2>4. QED
    BY <2>1, <2>2, <2>3
<1>11. ASSUME NEW c \in Calls, JoinVictim(c) PROVE SerialInv'
  <2>1. NoOrphan'
    BY <1>11 DEF JoinVictim, Stopped, Publish, PublishWith, LoseMemory,
         NoOrphan, NothingPublishedMeanwhile
  <2>2. UptimeKnown'
    BY <1>11 DEF JoinVictim, Stopped, Publish, PublishWith, LoseMemory,
         UptimeKnown, NothingPublishedMeanwhile
  <2>3. NothingPublishedMeanwhile'
    BY <1>11 DEF JoinVictim, Stopped, Publish, PublishWith, LoseMemory,
         NothingPublishedMeanwhile
  <2>4. QED
    BY <2>1, <2>2, <2>3
<1>12. ASSUME NEW e \in Endpoints, TaskEnds(e) PROVE SerialInv'
  <2>1. NoOrphan'
    BY <1>12 DEF TaskEnds, TaskFinally, NoOrphan, NothingPublishedMeanwhile
  <2>2. UptimeKnown'
    BY <1>12 DEF TaskEnds, TaskFinally, UptimeKnown, NothingPublishedMeanwhile
  <2>3. NothingPublishedMeanwhile'
    BY <1>12 DEF TaskEnds, TaskFinally, NothingPublishedMeanwhile
  <2>4. QED
    BY <2>1, <2>2, <2>3
<1>13. ASSUME NEW e \in Endpoints, ServeFails(e) PROVE SerialInv'
  <2>1. NoOrphan'
    BY <1>13 DEF ServeFails, TaskFinally, Open, NoOrphan,
         NothingPublishedMeanwhile
  <2>2. UptimeKnown'
    BY <1>13 DEF ServeFails, TaskFinally, Open, UptimeKnown,
         NothingPublishedMeanwhile
  <2>3. NothingPublishedMeanwhile'
    BY <1>13 DEF ServeFails, TaskFinally, Open, NothingPublishedMeanwhile
  <2>4. QED
    BY <2>1, <2>2, <2>3
<1>14. ASSUME NEW c \in Calls, AutoStart(c) PROVE SerialInv'
  <2>1. NoOrphan'
    BY <1>14 DEF AutoStart, Construct, NoOrphan, NothingPublishedMeanwhile
  <2>2. UptimeKnown'
    BY <1>14 DEF AutoStart, Construct, UptimeKnown, NothingPublishedMeanwhile
  <2>3. NothingPublishedMeanwhile'
    BY <1>14 DEF AutoStart, Construct, NothingPublishedMeanwhile
  <2>4. QED
    BY <2>1, <2>2, <2>3
<1>15. ASSUME NEW c \in Calls, Shutdown(c) PROVE SerialInv'
  <2>1. NoOrphan'
    BY <1>15 DEF Shutdown, Take, LoseMemory, AllIdle, NoOrphan,
         NothingPublishedMeanwhile
  <2>2. UptimeKnown'
    BY <1>15 DEF Shutdown, Take, LoseMemory, AllIdle, UptimeKnown,
         NothingPublishedMeanwhile
  <2>3. NothingPublishedMeanwhile'
    BY <1>15 DEF Shutdown, Take, LoseMemory, AllIdle,
         NothingPublishedMeanwhile
  <2>4. QED
    BY <2>1, <2>2, <2>3
<1>16. CASE Crash
  <2>1. NoOrphan'
    BY <1>16 DEF Crash, LoseMemory, NoOrphan, NothingPublishedMeanwhile
  <2>2. UptimeKnown'
    BY <1>16 DEF Crash, LoseMemory, UptimeKnown, NothingPublishedMeanwhile
  <2>3. NothingPublishedMeanwhile'
    BY <1>16 DEF Crash, LoseMemory, NothingPublishedMeanwhile
  <2>4. QED
    BY <2>1, <2>2, <2>3
<1>17. CASE Boot
  <2>1. NoOrphan'
    BY <1>17 DEF Boot, NoOrphan, NothingPublishedMeanwhile
  <2>2. UptimeKnown'
    BY <1>17 DEF Boot, UptimeKnown, NothingPublishedMeanwhile
  <2>3. NothingPublishedMeanwhile'
    BY <1>17 DEF Boot, NothingPublishedMeanwhile
  <2>4. QED
    BY <2>1, <2>2, <2>3
<1>18. CASE BootDone
  <2>1. NoOrphan'
    BY <1>18 DEF BootDone, NoOrphan, NothingPublishedMeanwhile
  <2>2. UptimeKnown'
    BY <1>18 DEF BootDone, UptimeKnown, NothingPublishedMeanwhile
  <2>3. NothingPublishedMeanwhile'
    BY <1>18 DEF BootDone, NothingPublishedMeanwhile
  <2>4. QED
    BY <2>1, <2>2, <2>3
<1>19. CASE UNCHANGED vars
  BY <1>19 DEF vars, NoOrphan, UptimeKnown, NothingPublishedMeanwhile
<1>20. QED
  BY <1>1, <1>2, <1>3, <1>4, <1>5, <1>6, <1>7, <1>8, <1>9, <1>10, <1>11,
     <1>12, <1>13, <1>14, <1>15, <1>16, <1>17, <1>18, <1>19,
     <1>21 DEF Next, CallStep

\* Handlers that do not overlap never leave a responder serving that the
\* runtime has forgotten.
THEOREM SerialNoOrphan ==
    ASSUME Serialised
    PROVE  Spec => []NoOrphan
  <1>1. Init => SerialInv
    BY DEF Init, FreshMemory, SerialInv, NoOrphan, UptimeKnown,
           NothingPublishedMeanwhile
  <1>2. IInv /\ SerialInv /\ [Next]_vars => SerialInv'
    BY SerialStep
  <1>3. SerialInv => NoOrphan
    BY DEF SerialInv
  <1>4. QED
    BY <1>1, <1>2, <1>3, Inductive, PTL DEF Spec

\* Handlers that do not overlap never clear the start time of a responder
\* that runs.
THEOREM SerialUptimeKnown ==
    ASSUME Serialised
    PROVE  Spec => []UptimeKnown
  <1>1. Init => SerialInv
    BY DEF Init, FreshMemory, SerialInv, NoOrphan, UptimeKnown,
           NothingPublishedMeanwhile
  <1>2. IInv /\ SerialInv /\ [Next]_vars => SerialInv'
    BY SerialStep
  <1>3. SerialInv => UptimeKnown
    BY DEF SerialInv
  <1>4. QED
    BY <1>1, <1>2, <1>3, Inductive, PTL DEF Spec

-----------------------------------------------------------------------------
(* One endpoint at a time.                                                 *)

\* No two sockets share a port; a responder that has not been opened, or whose
\* task is being awaited, has no socket.
SocketInv ==
    /\ \A e, f \in Endpoints : sock[e] # NoPort /\ sock[e] = sock[f] => e = f
    /\ \A c \in Calls :
          pc[c] \in {"opening", "reopening", "refused", "failed"} \/ after[c] = "retry"
              => sock[mine[c]] = NoPort
    /\ \A c \in Calls : pc[c] = "joining" => sock[victim[c]] = NoPort

LEMMA SocketStep ==
    ASSUME IInv, SocketInv, [Next]_vars
    PROVE  SocketInv'
<1> USE PortsAssumption, EndpointsAssumption
        DEF IInv, TypeOK, SocketInv, CallShape, PCs, Afters, slotVars, callVars, diskVars
<1>1. ASSUME NEW c \in Calls, NEW e \in Endpoints, mine' = [mine EXCEPT ![c] = e],
             pc' = [pc EXCEPT ![c] = "opening"], ~Open(e), pc[c] \in {"idle", "restarting"},
             UNCHANGED <<sock, after, victim>>
      PROVE  SocketInv'
    BY <1>1 DEF Open
<1>2. ASSUME NEW c \in Calls, NEW p \in Ports, Start(c, p) PROVE SocketInv'
    BY <1>1, <1>2 DEF Start, Construct, Unused
<1>3. ASSUME NEW c \in Calls, Stop(c) \/ Restart(c) PROVE SocketInv'
    BY <1>3 DEF Stop, Restart, Take, Stopped
<1>4. ASSUME NEW c \in Calls, RestartStart(c) PROVE SocketInv'
    BY <1>1, <1>4 DEF RestartStart, Construct, Unused
<1>5. ASSUME NEW c \in Calls, RestartRefused(c) \/ GiveUp(c) PROVE SocketInv'
    BY <1>5 DEF RestartRefused, GiveUp
<1>6. ASSUME NEW c \in Calls, OpenBinds(c) PROVE SocketInv'
    BY <1>6 DEF OpenBinds, SingleTeardown, OwnConstruction
<1>7. ASSUME NEW c \in Calls, OpenFails(c) PROVE SocketInv'
    BY <1>7 DEF OpenFails
<1>8. ASSUME NEW c \in Calls, HandleRefused(c) PROVE SocketInv'
    BY <1>8 DEF HandleRefused, Take
<1>9. ASSUME NEW c \in Calls, Swap(c) PROVE SocketInv'
    BY <1>9 DEF Swap, Take, Publish, PublishWith
<1>10. ASSUME NEW c \in Calls, CloseVictim(c) PROVE SocketInv'
    BY <1>10 DEF CloseVictim, SingleTeardown
<1>11. ASSUME NEW c \in Calls, JoinVictim(c) PROVE SocketInv'
    BY <1>11 DEF JoinVictim, Stopped, Publish, PublishWith, LoseMemory
<1>12. ASSUME NEW e \in Endpoints, TaskEnds(e) \/ ServeFails(e) PROVE SocketInv'
    BY <1>12 DEF TaskEnds, ServeFails, TaskFinally
<1>13. ASSUME NEW c \in Calls, AutoStart(c) PROVE SocketInv'
    BY <1>1, <1>13 DEF AutoStart, Construct, Unused, QuietBoot, AllIdle
<1>14. ASSUME NEW c \in Calls, Shutdown(c) PROVE SocketInv'
    BY <1>14 DEF Shutdown, Take, LoseMemory
<1>15. CASE Crash
    BY <1>15 DEF Crash, LoseMemory
<1>16. CASE Boot \/ BootDone \/ UNCHANGED vars
    BY <1>16 DEF Boot, BootDone, vars
<1> QED
    BY <1>2, <1>3, <1>4, <1>5, <1>6, <1>7, <1>8, <1>9, <1>10, <1>11, <1>12, <1>13,
       <1>14, <1>15, <1>16 DEF Next, CallStep

\* What SingleEndpoint sees.
Live == {sock[e] : e \in Answering}
Current == IF responder = NoEndpoint THEN NoPort ELSE sock[responder]

LEMMA SameView ==
    ASSUME Answering' = Answering, \A e \in Answering : sock'[e] = sock[e]
    PROVE  Live' = Live
    BY DEF Live

\* Only the published responder, and what the call in progress holds, answers.
LEMMA WhoAnswers ==
    ASSUME Serialised, IInv, SerialInv, NEW c \in Calls
    PROVE  \A e : e \in Answering <=>
              /\ e \in Endpoints /\ sock[e] # NoPort
              /\ e = responder \/ mine[c] = e \/ victim[c] = e
<1> USE EndpointsAssumption
<1>1. \A e : Held(e) <=> mine[c] = e \/ victim[c] = e
    BY DEF Held, Serialised
<1>2. \A e \in serving : e = responder \/ victim[c] = e
    BY DEF SerialInv, NoOrphan, Serialised
<1>3. responder \in Endpoints => responder \in serving
    BY DEF IInv, CurrentIsServing
<1> QED
    BY <1>1, <1>2, <1>3 DEF Answering, Open

LEMMA WhoAnswersNext ==
    ASSUME Serialised, IInv', SerialInv', NEW c \in Calls
    PROVE  \A e : e \in Answering' <=>
              /\ e \in Endpoints /\ sock'[e] # NoPort
              /\ e = responder' \/ mine'[c] = e \/ victim'[c] = e
<1> USE EndpointsAssumption
<1>1. \A e : Held(e)' <=> mine'[c] = e \/ victim'[c] = e
    BY DEF Held, Serialised
<1>2. \A e \in serving' : e = responder' \/ victim'[c] = e
    BY DEF SerialInv, NoOrphan, Serialised
<1>3. responder' \in Endpoints => responder' \in serving'
    BY DEF IInv, CurrentIsServing
<1> QED
    BY <1>1, <1>2, <1>3 DEF Answering, Open

LEMMA SE_Bind ==
    ASSUME NEW p \in Ports, p \notin Live, \A q, r \in Live : q = r,
           Live' = Live \cup {p}, Current' = Current
    PROVE  SE!Next
<1>1. SE!Bind(p)
    BY DEF SE!Bind, Live, Current
<1> QED
    BY <1>1 DEF SE!Next

LEMMA SE_Release ==
    ASSUME NEW p \in Ports, p \in Live, p # Current,
           Live' = Live \ {p}, Current' = Current
    PROVE  SE!Next
<1>1. SE!Release(p)
    BY DEF SE!Release, Live, Current
<1> QED
    BY <1>1 DEF SE!Next

LEMMA SE_Take ==
    ASSUME Serialised, IInv, SerialInv, IInv', SerialInv', NEW c \in Calls,
           NEW cont, Take(c, cont), victim[c] = NoEndpoint, UNCHANGED <<sock, mine>>
    PROVE  SE!Withdraw
<1> USE PortsAssumption, EndpointsAssumption DEF IInv, TypeOK
<1>1. responder' = NoEndpoint /\ victim'[c] = responder /\ responder # NoEndpoint
    BY DEF Take
<1>2. \A e : e \in Answering <=> e \in Answering'
    BY <1>1, WhoAnswers, WhoAnswersNext
<1>3. Live' = Live
    BY <1>2, SameView
<1>4. sock[responder] # NoPort
    BY <1>1 DEF CurrentIsServing
<1> QED
    BY <1>1, <1>3, <1>4 DEF SE!Withdraw, Live

LEMMA SE_Publish ==
    ASSUME Serialised, IInv, SerialInv, SocketInv, IInv', SerialInv', NEW c \in Calls,
           Publish(c), responder = NoEndpoint,
           pc[c] = "opened" \/ (pc[c] = "joining" /\ after[c] = "swap"),
           UNCHANGED sock, victim'[c] = NoEndpoint
    PROVE  SE!Next
<1> USE PortsAssumption, EndpointsAssumption DEF IInv, TypeOK
<1>1. /\ mine[c] \in Endpoints /\ sock[mine[c]] = req[c] /\ req[c] \in Ports
      /\ responder' = mine[c] /\ mine'[c] = NoEndpoint
    BY DEF CallShape, Publish, PublishWith
<1>2. victim[c] = NoEndpoint \/ sock[victim[c]] = NoPort
    BY DEF CallShape, SocketInv
<1>3. \A e : e \in Answering <=> e = mine[c]
    BY <1>1, <1>2, WhoAnswers
<1>4. \A e : e \in Answering' <=> e = mine[c]
    BY <1>1, WhoAnswers, WhoAnswersNext
<1>5. Live = {req[c]} /\ Live' = {req[c]}
    BY <1>1, <1>3, <1>4 DEF Live
<1>6. SE!Promote(req[c])
    BY <1>1, <1>5 DEF SE!Promote, Live
<1> QED
    BY <1>1, <1>6 DEF SE!Next

LEMMA SE_Exit ==
    ASSUME LoseMemory
    PROVE  SE!Exit
<1>1. Answering' = {}
    BY DEF LoseMemory, Answering, Open
<1> QED
    BY <1>1 DEF SE!Exit, LoseMemory

LEMMA SE_Same ==
    ASSUME Answering' = Answering, \A e \in Answering : sock'[e] = sock[e],
           Current' = Current
    PROVE  UNCHANGED SE!vars
    BY SameView DEF SE!vars, Live, Current

\* Every step of calls that do not overlap is one of SingleEndpoint.
LEMMA EndpointStep ==
    ASSUME Serialised, IInv, SerialInv, SocketInv, [Next]_vars
    PROVE  SE!Next \/ UNCHANGED SE!vars
<1> IInv' /\ SerialInv'
    BY IInvStep, SerialStep
<1> USE PortsAssumption, EndpointsAssumption
        DEF IInv, TypeOK, PCs, Afters, slotVars, callVars, diskVars
<1>1. ASSUME NEW c \in Calls, NEW p, Construct(c, p), pc[c] \in {"idle", "restarting"}
      PROVE  UNCHANGED SE!vars
    <2>1. PICK e \in Endpoints : Unused(e) /\ mine' = [mine EXCEPT ![c] = e]
        BY <1>1 DEF Construct
    <2>2. mine[c] = NoEndpoint \/ after[c] # "none"
        BY <1>1 DEF CallShape
    <2>3. mine[c] = NoEndpoint
        BY <1>1, <2>2 DEF CallShape
    <2>4. \A f : f \in Answering <=> f \in Answering'
        BY <1>1, <2>1, <2>3, WhoAnswers, WhoAnswersNext DEF Construct, Unused, Open
    <2>5. UNCHANGED <<responder, sock>>
        BY <1>1 DEF Construct
    <2> QED
        BY <2>4, <2>5, SE_Same DEF Current
<1>2. ASSUME NEW c \in Calls, NEW p \in Ports, Start(c, p) PROVE UNCHANGED SE!vars
    BY <1>1, <1>2 DEF Start
<1>3. ASSUME NEW c \in Calls, RestartStart(c) PROVE UNCHANGED SE!vars
    BY <1>1, <1>3 DEF RestartStart
<1>4. ASSUME NEW c \in Calls, AutoStart(c) PROVE UNCHANGED SE!vars
    BY <1>1, <1>4 DEF AutoStart, QuietBoot, AllIdle
<1>5. ASSUME NEW c \in Calls, UNCHANGED <<responder, sock, victim>>,
             mine' = mine \/ (sock[mine[c]] = NoPort /\ mine'[c] = NoEndpoint)
      PROVE  UNCHANGED SE!vars
    <2>1. \A f : f \in Answering <=> f \in Answering'
        BY <1>5, WhoAnswers, WhoAnswersNext
    <2> QED
        BY <1>5, <2>1, SE_Same DEF Current
<1>6. ASSUME NEW c \in Calls, Stop(c) \/ Restart(c) PROVE SE!Next \/ UNCHANGED SE!vars
    <2>1. victim[c] = NoEndpoint
        BY <1>6 DEF Stop, Restart, CallShape
    <2>2. CASE \E cont : Take(c, cont) /\ UNCHANGED <<sock, mine>>
        BY <2>1, <2>2, SE_Take DEF SE!Next
    <2>3. CASE UNCHANGED <<responder, sock, victim, mine>>
        BY <1>5, <2>3
    <2> QED
        BY <1>6, <2>2, <2>3 DEF Stop, Restart
<1>7. ASSUME NEW c \in Calls, RestartRefused(c) \/ OpenFails(c) PROVE UNCHANGED SE!vars
    BY <1>5, <1>7 DEF RestartRefused, OpenFails
<1>8. ASSUME NEW c \in Calls, GiveUp(c) PROVE UNCHANGED SE!vars
    BY <1>5, <1>8 DEF GiveUp, SocketInv
<1>9. ASSUME NEW c \in Calls, OpenBinds(c) PROVE SE!Next
    <2>1. /\ mine[c] \in Endpoints /\ victim[c] = NoEndpoint /\ req[c] \in Ports
          /\ sock[mine[c]] = NoPort
        BY <1>9 DEF OpenBinds, CallShape, SocketInv
    <2>2. /\ sock' = [sock EXCEPT ![mine[c]] = req[c]]
          /\ UNCHANGED <<responder, mine, victim>>
          /\ \A e \in Endpoints : sock[e] # req[c]
        BY <1>9 DEF OpenBinds
    <2>3. \A e \in Answering : e = responder
        BY <2>1, WhoAnswers
    <2>4. Answering' = Answering \cup {mine[c]} /\ mine[c] \notin Answering
        BY <2>1, <2>2, WhoAnswers, WhoAnswersNext
    <2>5. Live' = Live \cup {req[c]} /\ req[c] \notin Live
        BY <2>1, <2>2, <2>4 DEF Live, Answering
    <2>6. \A q, r \in Live : q = r
        BY <2>3 DEF Live
    <2>7. Current' = Current
        BY <2>1, <2>2 DEF Current, OwnConstruction
    <2>8. PICK p \in Ports : p = req[c]
        BY <2>1
    <2> QED
        BY <2>5, <2>6, <2>7, <2>8, SE_Bind
<1>10. ASSUME NEW c \in Calls, HandleRefused(c) PROVE SE!Next \/ UNCHANGED SE!vars
    <2>1. victim[c] = NoEndpoint
        BY <1>10 DEF HandleRefused, CallShape
    <2>2. CASE Take(c, "retry") /\ UNCHANGED <<sock, mine>>
        BY <2>1, <2>2, SE_Take DEF SE!Next
    <2>3. CASE UNCHANGED <<responder, sock, victim, mine>>
        BY <1>5, <2>3
    <2> QED
        BY <1>10, <2>2, <2>3 DEF HandleRefused
<1>11. ASSUME NEW c \in Calls, Swap(c) PROVE SE!Next
    <2>1. victim[c] = NoEndpoint /\ pc[c] = "opened"
        BY <1>11 DEF Swap, CallShape
    <2>2. CASE Take(c, "swap") /\ UNCHANGED <<sock, mine>>
        BY <2>1, <2>2, SE_Take DEF SE!Next
    <2>3. CASE responder = NoEndpoint /\ Publish(c) /\ UNCHANGED <<sock, victim>>
        BY <2>1, <2>3, SE_Publish
    <2> QED
        BY <1>11, <2>2, <2>3 DEF Swap
<1>12. ASSUME NEW e \in Endpoints, NEW c \in Calls, e = victim[c],
              responder = NoEndpoint, UNCHANGED <<responder, mine, victim>>,
              sock' = [sock EXCEPT ![e] = NoPort]
       PROVE  SE!Next \/ UNCHANGED SE!vars
    <2>1. CASE sock[e] = NoPort
        BY <1>5, <1>12, <2>1
    <2>2. CASE sock[e] # NoPort
        <3>1. e \in Answering /\ \A f : f \in Answering' <=> f \in Answering /\ f # e
            BY <1>12, <2>2, WhoAnswers, WhoAnswersNext
        <3>2. Answering \subseteq Endpoints
            BY DEF Answering
        <3>3. \A f \in Answering : f # e => sock'[f] = sock[f] /\ sock[f] # sock[e]
            BY <1>12, <2>2, <3>2 DEF SocketInv
        <3>4. Live' = Live \ {sock[e]} /\ sock[e] \in Live
            BY <3>1, <3>3 DEF Live
        <3>5. Current = NoPort /\ Current' = NoPort
            BY <1>12 DEF Current
        <3>6. PICK p \in Ports : p = sock[e]
            BY <2>2
        <3> QED
            BY <2>2, <3>4, <3>5, <3>6, SE_Release
    <2> QED
        BY <2>1, <2>2
<1>13. ASSUME NEW c \in Calls, CloseVictim(c) PROVE SE!Next \/ UNCHANGED SE!vars
    <2>1. victim[c] \in Endpoints /\ responder = NoEndpoint
        BY <1>13 DEF CloseVictim, CallShape, SerialInv, NothingPublishedMeanwhile
    <2> QED
        BY <1>12, <1>13, <2>1 DEF CloseVictim
<1>14. ASSUME NEW c \in Calls, JoinVictim(c) PROVE SE!Next \/ UNCHANGED SE!vars
    <2>1. /\ pc[c] = "joining" /\ victim[c] \in Endpoints /\ responder = NoEndpoint
          /\ sock[victim[c]] = NoPort
        BY <1>14 DEF JoinVictim, CallShape, SocketInv, SerialInv, NothingPublishedMeanwhile
    <2>2. CASE /\ UNCHANGED <<responder, sock, mine>>
               /\ victim' = [victim EXCEPT ![c] = NoEndpoint]
        <3>1. \A f : f \in Answering <=> f \in Answering'
            BY <2>1, <2>2, WhoAnswers, WhoAnswersNext
        <3> QED
            BY <2>2, <3>1, SE_Same DEF Current
    <2>3. CASE /\ after[c] = "swap" /\ Publish(c) /\ UNCHANGED sock
               /\ victim' = [victim EXCEPT ![c] = NoEndpoint]
        BY <2>1, <2>3, SE_Publish
    <2>4. CASE LoseMemory
        BY <2>4, SE_Exit DEF SE!Next
    <2> QED
        BY <1>14, <2>2, <2>3, <2>4 DEF JoinVictim
<1>15. ASSUME NEW e \in Endpoints, TaskEnds(e) PROVE UNCHANGED SE!vars
    <2>1. UNCHANGED <<responder, sock, callVars>> /\ sock[e] = NoPort /\ serving' = serving \ {e}
        BY <1>15 DEF TaskEnds, TaskFinally, Open, CurrentIsServing
    <2>2. Answering' = Answering
        BY <2>1 DEF Answering, Open, Held
    <2> QED
        BY <2>1, <2>2, SE_Same DEF Current
<1>16. ASSUME NEW e \in Endpoints, ServeFails(e) PROVE SE!Next \/ UNCHANGED SE!vars
    <2>1. e \in serving /\ sock[e] # NoPort /\ serving' = serving \ {e} /\ UNCHANGED callVars
        BY <1>16 DEF ServeFails, TaskFinally, Open
    <2>2. sock' = sock \/ sock' = [sock EXCEPT ![e] = NoPort]
        BY <1>16 DEF ServeFails
    <2>3. CASE e = responder
        <3>1. responder' = NoEndpoint
            BY <1>16, <2>3 DEF ServeFails, TaskFinally
        <3>2. ~Held(e) /\ ~Held(e)'
            BY <2>1, <2>3 DEF Held, SingleTeardown, OwnConstruction
        <3>3. e \in Answering /\ Answering' = Answering \ {e}
            BY <2>1, <2>2, <3>2 DEF Answering, Open, Held
        <3>4. \A f \in Answering : f # e => sock'[f] = sock[f] /\ sock[f] # sock[e]
            BY <2>1, <2>2 DEF Answering, SocketInv
        <3>5. Live' = Live \ {sock[e]}
            BY <3>3, <3>4 DEF Live
        <3>6. SE!Break
            BY <2>1, <2>3, <3>1, <3>5 DEF SE!Break, Live
        <3> QED
            BY <3>6 DEF SE!Next
    <2>4. CASE e # responder
        <3>1. PICK c \in Calls : victim[c] = e
            BY <2>1, <2>4 DEF SerialInv, NoOrphan
        <3>2. responder = NoEndpoint /\ UNCHANGED <<responder, mine, victim>>
            BY <1>16, <2>4, <3>1
            DEF SerialInv, NothingPublishedMeanwhile, ServeFails, TaskFinally
        <3>3. CASE sock' = sock
            BY <1>5, <3>2, <3>3
        <3>4. CASE sock' = [sock EXCEPT ![e] = NoPort]
            BY <1>12, <3>1, <3>2, <3>4
        <3> QED
            BY <2>2, <3>3, <3>4
    <2> QED
        BY <2>3, <2>4
<1>17. ASSUME NEW c \in Calls, Shutdown(c) PROVE SE!Next
    <2>1. victim[c] = NoEndpoint
        BY <1>17 DEF Shutdown, AllIdle, CallShape
    <2>2. CASE Take(c, "exit") /\ UNCHANGED <<sock, mine>>
        BY <2>1, <2>2, SE_Take DEF SE!Next
    <2>3. CASE LoseMemory
        BY <2>3, SE_Exit DEF SE!Next
    <2> QED
        BY <1>17, <2>2, <2>3 DEF Shutdown
<1>18. CASE Crash
    BY <1>18, SE_Exit DEF Crash, SE!Next
<1>19. CASE Boot \/ BootDone \/ UNCHANGED vars
    <2>1. UNCHANGED <<responder, sock, serving, callVars>>
        BY <1>19 DEF Boot, BootDone, vars
    <2>2. Answering' = Answering
        BY <2>1 DEF Answering, Open, Held
    <2> QED
        BY <2>1, <2>2, SE_Same DEF Current
<1> QED
    BY <1>2, <1>3, <1>4, <1>6, <1>7, <1>8, <1>9, <1>10, <1>11, <1>13, <1>14, <1>15,
       <1>16, <1>17, <1>18, <1>19 DEF Next, CallStep

\* Handlers that do not overlap implement SingleEndpoint: a replacement becomes
\* current only once nothing else answers.
THEOREM ImplementsSingleEndpoint ==
    ASSUME Serialised
    PROVE  Spec => OneEndpointAtATime
<1>1. Init => SerialInv /\ SocketInv
    BY PortsAssumption
    DEF Init, FreshMemory, SerialInv, NoOrphan, UptimeKnown, NothingPublishedMeanwhile, SocketInv
<1>2. Init => SE!Init
    BY DEF Init, FreshMemory, SE!Init, Answering, Open
<1>3. IInv /\ SerialInv /\ [Next]_vars => SerialInv'
    BY SerialStep
<1>4. IInv /\ SocketInv /\ [Next]_vars => SocketInv'
    BY SocketStep
<1>5. IInv /\ SerialInv /\ SocketInv /\ [Next]_vars => [SE!Next]_(SE!vars)
    BY EndpointStep
<1> QED
    BY <1>1, <1>2, <1>3, <1>4, <1>5, Inductive, PTL DEF Spec, OneEndpointAtATime, SE!Spec

=============================================================================

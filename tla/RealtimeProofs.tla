--------------------------- MODULE RealtimeProofs ---------------------------
(***************************************************************************)
(* Proofs about Realtime, for any number of connections, broadcasts,       *)
(* sessions, threads and timeouts.                                         *)
(***************************************************************************)
EXTENDS Realtime, TLAPS

-----------------------------------------------------------------------------
(* Types.                                                                  *)

\* Idle is a request: there is a token.
LEMMA IdleType ==
    ASSUME Tokens # {}
    PROVE  Idle \in Request
BY MaxAgeAssumption DEF Idle, Request

\* What the operators of Sessions yield.
LEMMA ValidateType ==
    ASSUME TypeOK, NEW t \in Tokens, NEW touch \in BOOLEAN, Validate(t, touch)
    PROVE  /\ age' \in [Tokens -> {Unissued, Over} \cup 0 .. MaxAge]
           /\ cache' \in Timeouts \cup {None}
<1>1. Resolved \in Timeouts \cup {None}
  BY DEF TypeOK, SettingsTypeOK, Resolved
<1>2. cache' \in Timeouts \cup {None}
  BY <1>1 DEF Validate, TypeOK, SettingsTypeOK
<1>3. age' \in [Tokens -> {Unissued, Over} \cup 0 .. MaxAge]
  <2>1. 0 \in 0 .. MaxAge
    BY MaxAgeAssumption
  <2>2. CASE Valid(t)
    BY <2>1, <2>2 DEF Validate, TypeOK, SessionTypeOK
  <2>3. CASE ~Valid(t)
    BY <2>3 DEF Validate, TypeOK, SessionTypeOK
  <2> QED
    BY <2>2, <2>3
<1> QED
  BY <1>2, <1>3

LEMMA ConcludeType ==
    ASSUME TypeOK, NEW p \in Threads, NEW timeout, Conclude(p, timeout)
    PROVE  SessionTypeOK'
<1>1. serve[p] \in Request /\ serve[p].token \in Tokens
  BY DEF TypeOK, SessionTypeOK, Request
<1>2. 0 \in 0 .. MaxAge
  BY MaxAgeAssumption
<1>3. Idle \in Request
  BY <1>1, IdleType
<1>4. serve' \in [Threads -> Request]
  BY <1>3 DEF Conclude, TypeOK, SessionTypeOK
<1>5. age' \in [Tokens -> {Unissued, Over} \cup 0 .. MaxAge]
  BY <1>1, <1>2 DEF Conclude, TypeOK, SessionTypeOK
<1> QED
  BY <1>4, <1>5 DEF SessionTypeOK

\* Time and threads keep the types of sessions and settings.
LEMMA SessionStepType ==
    ASSUME TypeOK, SessionStep
    PROVE  SettingsTypeOK' /\ SessionTypeOK'
<1> USE DEF TypeOK
<1>1. CASE Tick
  BY <1>1, MaxAgeAssumption
     DEF Tick, SettingsTypeOK, SessionTypeOK, settingsVars, Unissued, Over
<1>2. ASSUME NEW t \in Tokens, Login(t)
      PROVE  SettingsTypeOK' /\ SessionTypeOK'
  BY <1>2, MaxAgeAssumption
     DEF Login, SettingsTypeOK, SessionTypeOK, settingsVars
<1>3. ASSUME NEW p \in Threads, ThreadStep(p)
      PROVE  SettingsTypeOK' /\ SessionTypeOK'
  <2>1. ASSUME NEW op \in {"check", "logout"}, NEW t \in Tokens, FindSession(p, op, t)
        PROVE  SettingsTypeOK' /\ SessionTypeOK'
    <3>1. age[t] \in 0 .. MaxAge /\ 0 \in 0 .. MaxAge
      BY <2>1, MaxAgeAssumption DEF FindSession, HasRow, SessionTypeOK, Unissued, Over
    <3>2. [op |-> op, token |-> t, elapsed |-> IF op = "check" THEN age[t] ELSE 0]
             \in Request
      BY <3>1 DEF Request
    <3> QED
      BY <2>1, <3>2 DEF FindSession, SettingsTypeOK, SessionTypeOK, settingsVars
  <2>2. CASE UseCached(p)
    BY <2>2, ConcludeType DEF UseCached, SettingsTypeOK, settingsVars
  <2>3. CASE LookUp(p)
    BY <2>3 DEF LookUp, ReadRow, SettingsTypeOK, SessionTypeOK, sessionVars
  <2>4. CASE UseRead(p)
    <3>1. SessionTypeOK'
      BY <2>4, ConcludeType DEF UseRead
    <3>2. SettingsTypeOK'
      BY <2>4 DEF UseRead, StoreCache, SettingsTypeOK, YesNo
    <3> QED
      BY <3>1, <3>2
  <2> QED
    BY <1>3, <2>1, <2>2, <2>3, <2>4 DEF ThreadStep
<1>4. CASE SaveStep
  BY <1>4 DEF SaveStep, PopCache, ResolveSaved, Resolved, SettingsTypeOK, SessionTypeOK,
              sessionVars, YesNo
<1>5. ASSUME NEW t \in Tokens, NEW value \in Timeouts, SaveTimeout(t, value)
      PROVE  SettingsTypeOK' /\ SessionTypeOK'
  <2>1. /\ age' \in [Tokens -> {Unissued, Over} \cup 0 .. MaxAge]
        /\ cache' \in Timeouts \cup {None}
    BY <1>5, ValidateType DEF SaveTimeout
  <2> QED
    BY <1>5, <2>1 DEF SaveTimeout, CommitTimeout, SettingsTypeOK, SessionTypeOK
<1> QED
  BY <1>1, <1>2, <1>3, <1>4, <1>5 DEF SessionStep

\* What a task becomes keeps what it still has to do.
LEMMA FinishedFacts ==
    ASSUME NEW rest \in TaskRecord
    PROVE  /\ Finished(rest) \in TaskRecord
           /\ Finished(rest).todo = rest.todo
           /\ Finished(rest).dead = rest.dead
           /\ rest.todo # {} => Finished(rest).payload = rest.payload
           /\ Finished(rest).pc # "drop"
           /\ Finished(rest).pc = "close" => rest.todo = {}
<1>1. NoTask \in TaskRecord
  BY DEF NoTask, TaskRecord
<1>2. CASE rest.todo # {}
  BY <1>2 DEF Finished, TaskRecord
<1>3. CASE rest.todo = {} /\ rest.dead # {}
  BY <1>3 DEF Finished, TaskRecord
<1>4. CASE rest.todo = {} /\ rest.dead = {}
  BY <1>1, <1>4 DEF Finished, NoTask, TaskRecord
<1> QED
  BY <1>2, <1>3, <1>4

LEMMA TypeStep ==
    ASSUME TypeOK, [Next]_vars
    PROVE  TypeOK'
<1>1. CASE SessionStep /\ UNCHANGED realtimeVars
  <2>1. SettingsTypeOK' /\ SessionTypeOK'
    BY <1>1, SessionStepType
  <2> QED
    BY <1>1, <2>1 DEF TypeOK, RealtimeTypeOK, realtimeVars
<1>2. ASSUME NEW k \in Conns, NEW t \in Tokens, Connect(k, t)
      PROVE  TypeOK'
  <2>1. /\ age' \in [Tokens -> {Unissued, Over} \cup 0 .. MaxAge]
        /\ cache' \in Timeouts \cup {None}
    BY <1>2, ValidateType DEF Connect
  <2> QED
    BY <1>2, <2>1 DEF Connect, Referenced, TypeOK, SettingsTypeOK, SessionTypeOK,
                      RealtimeTypeOK, Socks
<1>3. ASSUME NEW k \in Conns, Accepted(k) \/ AcceptFails(k) \/ Leave(k)
      PROVE  TypeOK'
  BY <1>3 DEF Accepted, SendFullState, AcceptFails, Leave, OweNothing, TypeOK, SettingsTypeOK,
              SessionTypeOK, RealtimeTypeOK, Socks, settingsVars, sessionVars
<1>4. ASSUME NEW k \in Conns, Receive(k)
      PROVE  TypeOK'
  <2>1. tok[k] \in Tokens
    BY DEF TypeOK, RealtimeTypeOK
  <2>2. /\ age' \in [Tokens -> {Unissued, Over} \cup 0 .. MaxAge]
        /\ cache' \in Timeouts \cup {None}
    BY <1>4, <2>1, ValidateType DEF Receive
  <2> QED
    BY <1>4, <2>2 DEF Receive, OweNothing, TypeOK, SettingsTypeOK, SessionTypeOK, RealtimeTypeOK, Socks
<1>5. ASSUME NEW k \in Conns, HandlerEnds(k)
      PROVE  TypeOK'
  BY <1>5 DEF HandlerEnds, Unlist, TypeOK, SettingsTypeOK, SessionTypeOK, RealtimeTypeOK,
              Socks, settingsVars, sessionVars
<1>6. ASSUME NEW b \in Tasks, NEW what \in Messages(b), Announce(b, what)
      PROVE  TypeOK'
  <2>1. \A a \in Tasks : [task[a] EXCEPT !.payload = task[a].payload \ what] \in TaskRecord
    BY DEF TypeOK, RealtimeTypeOK, TaskRecord
  <2>2. what \subseteq Announced
    BY <1>6 DEF Messages, Announced
  <2>3. Broadcast(what) \in TaskRecord
    <3>1. NoTask \in TaskRecord
      BY DEF NoTask, TaskRecord
    <3>2. [pc |-> "visit", payload |-> what, todo |-> conns, dead |-> {}] \in TaskRecord
      BY <2>2 DEF TaskRecord, TypeOK, RealtimeTypeOK
    <3> QED
      BY <3>1, <3>2 DEF Broadcast
  <2>4. task' \in [Tasks -> TaskRecord]
    BY <1>6, <2>1, <2>3 DEF Announce
  <2>5. owed' \in [Conns -> SUBSET Announced]
    BY <1>6, <2>2 DEF Announce, Due, TypeOK, RealtimeTypeOK
  <2> QED
    BY <1>6, <2>4, <2>5 DEF Announce, TypeOK, SettingsTypeOK, SessionTypeOK, RealtimeTypeOK,
                      settingsVars, sessionVars
<1>7. ASSUME NEW b \in Tasks, NEW k \in Conns, Visit(b, k)
      PROVE  TypeOK'
  <2> DEFINE rest == [task[b] EXCEPT !.todo = task[b].todo \ {k}]
             aside == [rest EXCEPT !.dead = rest.dead \cup {k}]
  <2>1. tok[k] \in Tokens
    BY DEF TypeOK, RealtimeTypeOK
  <2>2. /\ age' \in [Tokens -> {Unissued, Over} \cup 0 .. MaxAge]
        /\ cache' \in Timeouts \cup {None}
    BY <1>7, <2>1, ValidateType DEF Visit
  <2>3. rest \in TaskRecord /\ aside \in TaskRecord
    BY DEF TypeOK, RealtimeTypeOK, TaskRecord
  <2>4. Finished(rest) \in TaskRecord /\ Finished(aside) \in TaskRecord
    BY <2>3, FinishedFacts
  <2>5. task' \in [Tasks -> TaskRecord]
    BY <1>7, <2>4 DEF Visit, TypeOK, RealtimeTypeOK
  <2>6. owed' \in [Conns -> SUBSET Announced]
    BY <1>7 DEF Visit, TypeOK, RealtimeTypeOK
  <2> QED
    BY <1>7, <2>2, <2>5, <2>6
       DEF Visit, TypeOK, SettingsTypeOK, SessionTypeOK, RealtimeTypeOK
<1>8. ASSUME NEW b \in Tasks, NEW k \in Conns, Close(b, k)
      PROVE  TypeOK'
  <2>1. [task[b] EXCEPT !.pc = "drop", !.todo = {k}] \in TaskRecord
    BY DEF TypeOK, RealtimeTypeOK, TaskRecord
  <2>2. task' \in [Tasks -> TaskRecord]
    BY <1>8, <2>1 DEF Close, TypeOK, RealtimeTypeOK
  <2> QED
    BY <1>8, <2>2 DEF Close, OweNothing, TypeOK, SettingsTypeOK, SessionTypeOK, RealtimeTypeOK, Socks,
                      settingsVars, sessionVars
<1>9. ASSUME NEW b \in Tasks, NEW k \in Conns, Drop(b, k)
      PROVE  TypeOK'
  <2> DEFINE rest == [task[b] EXCEPT !.todo = {}, !.dead = task[b].dead \ {k}]
  <2>1. rest \in TaskRecord
    BY DEF TypeOK, RealtimeTypeOK, TaskRecord
  <2>2. Finished(rest) \in TaskRecord
    BY <2>1, FinishedFacts
  <2>3. task' \in [Tasks -> TaskRecord]
    BY <1>9, <2>2 DEF Drop, TypeOK, RealtimeTypeOK
  <2> QED
    BY <1>9, <2>3 DEF Drop, Unlist, TypeOK, SettingsTypeOK, SessionTypeOK, RealtimeTypeOK,
                      settingsVars, sessionVars
<1>10. ASSUME NEW b \in Tasks, NEW t \in Tokens, UpdateCredentials(b, t)
       PROVE  TypeOK'
  <2> DEFINE rest == [NoTask EXCEPT !.dead = conns]
  <2>1. rest \in TaskRecord
    BY DEF NoTask, TaskRecord, TypeOK, RealtimeTypeOK
  <2>2. Finished(rest) \in TaskRecord
    BY <2>1, FinishedFacts
  <2>3. task' \in [Tasks -> TaskRecord]
    BY <1>10, <2>2 DEF UpdateCredentials, Reauth, TypeOK, RealtimeTypeOK
  <2>4. /\ age' \in [Tokens -> {Unissued, Over} \cup 0 .. MaxAge]
        /\ cache' \in Timeouts \cup {None}
    BY <1>10 DEF UpdateCredentials, WipeSessions, Resolved, TypeOK, SettingsTypeOK, SessionTypeOK
  <2> QED
    BY <1>10, <2>3, <2>4
       DEF UpdateCredentials, Reauth, TypeOK, SettingsTypeOK, SessionTypeOK, RealtimeTypeOK
<1>11. CASE Restart
  <2>1. NoTask \in TaskRecord
    BY DEF NoTask, TaskRecord
  <2>2. \A p \in Threads : Idle \in Request
    BY IdleType DEF TypeOK, SessionTypeOK, Request
  <2>3. SettingsTypeOK' /\ SessionTypeOK'
    BY <1>11, <2>2 DEF Restart, ForgetSettings, TypeOK, SettingsTypeOK, SessionTypeOK, YesNo
  <2>4. RealtimeTypeOK'
    BY <1>11, <2>1 DEF Restart, TypeOK, RealtimeTypeOK, Socks
  <2> QED
    BY <2>3, <2>4 DEF TypeOK
<1>12. CASE UNCHANGED vars
  BY <1>12 DEF vars, settingsVars, sessionVars, realtimeVars, TypeOK, SettingsTypeOK,
               SessionTypeOK, RealtimeTypeOK
<1> QED
  BY <1>1, <1>2, <1>3, <1>4, <1>5, <1>6, <1>7, <1>8, <1>9, <1>10, <1>11, <1>12
     DEF Next, ConnStep, TaskStep

\* The type invariant of Realtime, as soon as there is a token to speak of.
THEOREM TypeCorrect ==
    ASSUME Tokens # {}
    PROVE  Spec => []TypeOK
<1>1. Init => TypeOK
  <2>1. Idle \in Request /\ Idle.token \in Tokens
    BY IdleType DEF Idle, Request
  <2>2. NoTask \in TaskRecord
    BY DEF NoTask, TaskRecord
  <2> QED
    BY <2>1, <2>2, TimeoutsAssumption
       DEF Init, SettingsInit, SessionInit, NoConnections, TypeOK, SettingsTypeOK,
           SessionTypeOK, RealtimeTypeOK, YesNo, Socks
<1>2. TypeOK /\ [Next]_vars => TypeOK'
  BY TypeStep
<1> QED
  BY <1>1, <1>2, PTL DEF Spec

-----------------------------------------------------------------------------
(* Settings.                                                               *)

\* What a thread holds is the row's value unless it was overtaken by a save.
SettingsInv ==
    /\ saving # "committed" /\ late = "no" => cache \in {None, row}
    /\ \A p \in Threads : held[p] \in {None, row} \/ p \in overtaken

LEMMA SettingsStep ==
    ASSUME TypeOK, SettingsInv, [Next]_vars
    PROVE  SettingsInv'
<1> USE DEF SettingsInv
\* A validation on the loop can only fill an empty cache with the row.
<1>1. ASSUME NEW t, NEW touch, LoopFree, Validate(t, touch),
             UNCHANGED <<row, held, saving, overtaken, late>>
      PROVE  SettingsInv'
  BY <1>1 DEF Validate, Resolved, LoopFree
<1>2. ASSUME UNCHANGED settingsVars
      PROVE  SettingsInv'
  BY <1>2 DEF settingsVars
<1>3. ASSUME NEW p \in Threads, ThreadStep(p)
      PROVE  SettingsInv'
  <2>1. CASE LookUp(p)
    BY <2>1 DEF LookUp, ReadRow, TypeOK, SettingsTypeOK
  <2>2. CASE UseRead(p)
    BY <2>2 DEF UseRead, StoreCache, TypeOK, SettingsTypeOK
  <2> QED
    BY <1>2, <1>3, <2>1, <2>2 DEF ThreadStep, FindSession, UseCached
<1>4. CASE SaveStep
  BY <1>4 DEF SaveStep, PopCache, ResolveSaved, Resolved
<1>5. ASSUME NEW t \in Tokens, NEW value \in Timeouts, SaveTimeout(t, value)
      PROVE  SettingsInv'
  BY <1>5 DEF SaveTimeout, CommitTimeout
<1>6. CASE SessionStep
  BY <1>2, <1>3, <1>4, <1>5, <1>6 DEF SessionStep, Tick, Login
<1>7. ASSUME NEW k \in Conns, ConnStep(k)
      PROVE  SettingsInv'
  BY <1>1, <1>2, <1>7
     DEF ConnStep, Connect, Accepted, AcceptFails, Leave, Receive, HandlerEnds
<1>8. ASSUME NEW b \in Tasks, (\E what \in Messages(b) : Announce(b, what)) \/ TaskStep(b)
      PROVE  SettingsInv'
  BY <1>1, <1>2, <1>8 DEF Announce, TaskStep, Visit, Close, Drop
<1>9. ASSUME NEW b \in Tasks, NEW t \in Tokens, UpdateCredentials(b, t)
      PROVE  SettingsInv'
  BY <1>9 DEF UpdateCredentials, WipeSessions, Resolved, LoopFree
<1>10. CASE Restart
  BY <1>10 DEF Restart, ForgetSettings, TypeOK, SettingsTypeOK
<1> QED
  BY <1>2, <1>6, <1>7, <1>8, <1>9, <1>10 DEF Next, vars

\* A saved timeout is in effect for any number of threads that read next to
\* the save, but for the one interleaving that late records.
THEOREM SavedTimeoutApplies ==
    ASSUME Tokens # {}
    PROVE  Spec => []SavedTimeoutInEffect
<1>1. Init => SettingsInv
  BY DEF Init, SettingsInit, SettingsInv
<1>2. TypeOK /\ SettingsInv /\ [Next]_vars => SettingsInv'
  BY SettingsStep
<1>3. SettingsInv => SavedTimeoutInEffect
  BY DEF SettingsInv, SavedTimeoutInEffect
<1> QED
  BY <1>1, <1>2, <1>3, TypeCorrect, PTL DEF Spec

-----------------------------------------------------------------------------
(* Sessions.                                                               *)

\* No step brings back an ended session, or makes an issued token unissued.
LEMMA AgeStep ==
    ASSUME TypeOK, [Next]_vars
    PROVE  \A t \in Tokens : /\ age[t] = Over => age'[t] = Over
                             /\ age[t] # Unissued => age'[t] # Unissued
<1> DEFINE Kept == \A t \in Tokens : /\ age[t] = Over => age'[t] = Over
                                     /\ age[t] # Unissued => age'[t] # Unissued
<1> USE DEF Unissued, Over
<1>1. ASSUME UNCHANGED age
      PROVE  Kept
  BY <1>1
<1>2. ASSUME NEW t \in Tokens, NEW touch \in BOOLEAN, Validate(t, touch)
      PROVE  Kept
  BY <1>2 DEF Validate, Valid, HasRow, TypeOK, SessionTypeOK
<1>3. CASE SessionStep
  <2>1. CASE Tick
    BY <2>1 DEF Tick, TypeOK, SessionTypeOK
  <2>2. ASSUME NEW t \in Tokens, Login(t)
        PROVE  Kept
    BY <2>2 DEF Login, TypeOK, SessionTypeOK
  <2>3. ASSUME NEW p \in Threads, NEW timeout, Conclude(p, timeout)
        PROVE  Kept
    BY <2>3 DEF Conclude, HasRow, TypeOK, SessionTypeOK, Request
  <2>4. ASSUME NEW p \in Threads, ThreadStep(p)
        PROVE  Kept
    BY <1>1, <2>3, <2>4 DEF ThreadStep, FindSession, UseCached, LookUp, UseRead, sessionVars
  <2>5. CASE SaveStep
    BY <1>1, <2>5 DEF SaveStep, sessionVars
  <2>6. ASSUME NEW t \in Tokens, NEW value \in Timeouts, SaveTimeout(t, value)
        PROVE  Kept
    BY <1>2, <2>6 DEF SaveTimeout
  <2> QED
    BY <1>3, <2>1, <2>2, <2>4, <2>5, <2>6 DEF SessionStep
<1>4. ASSUME NEW k \in Conns, ConnStep(k)
      PROVE  Kept
  <2>1. tok[k] \in Tokens
    BY DEF TypeOK, RealtimeTypeOK
  <2> QED
    BY <1>1, <1>2, <1>4, <2>1
       DEF ConnStep, Connect, Accepted, AcceptFails, Leave, Receive, HandlerEnds, sessionVars
<1>5. ASSUME NEW b \in Tasks, (\E what \in Messages(b) : Announce(b, what)) \/ TaskStep(b)
      PROVE  Kept
  <2>1. \A k \in Conns : tok[k] \in Tokens
    BY DEF TypeOK, RealtimeTypeOK
  <2> QED
    BY <1>1, <1>2, <1>5, <2>1 DEF Announce, TaskStep, Visit, Close, Drop, sessionVars
<1>6. ASSUME NEW b \in Tasks, NEW t \in Tokens, UpdateCredentials(b, t)
      PROVE  Kept
  BY <1>6 DEF UpdateCredentials, WipeSessions, HasRow, TypeOK, SessionTypeOK
<1> QED
  BY <1>1, <1>3, <1>4, <1>5, <1>6 DEF Next, Restart, vars, sessionVars

\* An ended session stays over, for any number of threads and sessions.
THEOREM EndedForGood ==
    ASSUME Tokens # {}
    PROVE  Spec => SessionsStayOver
<1>1. TypeOK /\ [Next]_vars => [\A t \in Tokens : age[t] = Over => age'[t] = Over]_age
  BY AgeStep
<1> QED
  BY <1>1, TypeCorrect, PTL DEF Spec, SessionsStayOver

-----------------------------------------------------------------------------
(* Connections and broadcasts.                                             *)

\* A websocket was opened with a token that had been issued.
TokenIssued == \A k \in Conns : sock[k] # "away" => age[tok[k]] # Unissued

\* No task knows a connection that is not listed yet.
FreshNames == \A k \in Conns : sock[k] = "accepting" => ~Referenced(k)

\* An open browser is listed; one in accept() is owed parts of the state only,
\* one that is gone nothing.
OpenListed ==
    \A k \in Conns : /\ sock[k] = "open" => k \in conns
                     /\ sock[k] = "accepting" => owed[k] \subseteq Parts
                     /\ sock[k] \notin {"accepting", "open"} => owed[k] = {}

\* Closing starts when everything has been visited; what is to be dropped has
\* been closed.
TaskShape ==
    \A b \in Tasks :
        /\ task[b].pc = "close" => task[b].todo = {}
        /\ task[b].pc = "drop" => /\ task[b].todo \subseteq task[b].dead
                                  /\ \A k \in task[b].todo : sock[k] # "open"

\* What a task sets aside is over, or its socket is not open any more.
DeadAreOver ==
    \A b \in Tasks : \A k \in task[b].dead : sock[k] = "open" => age[tok[k]] = Over

ConnInv ==
    /\ TokenIssued
    /\ FreshNames
    /\ OpenListed
    /\ TaskShape
    /\ DeadAreOver
    /\ NothingMissed
    /\ ReauthReachesAll
    /\ ClosedSessionIsOver

\* Tokens of connections are tokens, what tasks refer to are connections.
LEMMA References ==
    ASSUME TypeOK
    PROVE  /\ \A k \in Conns : tok[k] \in Tokens
           /\ conns \subseteq Conns /\ revoked \subseteq Conns
           /\ \A b \in Tasks : /\ task[b] \in TaskRecord
                               /\ task[b].todo \subseteq Conns
                               /\ task[b].dead \subseteq Conns
BY DEF TypeOK, RealtimeTypeOK, TaskRecord

\* Steps that touch neither connections nor tasks.
LEMMA QuietStep ==
    ASSUME TypeOK, ConnInv, [Next]_vars, UNCHANGED realtimeVars
    PROVE  ConnInv'
<1>1. \A t \in Tokens : /\ age[t] = Over => age'[t] = Over
                        /\ age[t] # Unissued => age'[t] # Unissued
  BY AgeStep
<1>2. TokenIssued' /\ DeadAreOver' /\ ClosedSessionIsOver'
  BY <1>1, References
     DEF ConnInv, realtimeVars, TokenIssued, DeadAreOver, ClosedSessionIsOver
<1>3. FreshNames' /\ OpenListed' /\ TaskShape' /\ NothingMissed' /\ ReauthReachesAll'
  BY DEF ConnInv, realtimeVars, FreshNames, Referenced, OpenListed, TaskShape, NothingMissed,
         ReauthReachesAll
<1> QED
  BY <1>2, <1>3 DEF ConnInv

\* A connection's own steps.
LEMMA ConnectionStep ==
    ASSUME TypeOK, ConnInv, [Next]_vars, NEW k \in Conns, ConnStep(k)
    PROVE  ConnInv'
<1>1. \A t \in Tokens : /\ age[t] = Over => age'[t] = Over
                        /\ age[t] # Unissued => age'[t] # Unissued
  BY AgeStep
<1> USE References
<1>2. ASSUME NEW t \in Tokens, Connect(k, t)
      PROVE  ConnInv'
  <2>1. TokenIssued'
    BY <1>1, <1>2 DEF Connect, ConnInv, TokenIssued, TypeOK, RealtimeTypeOK
  <2>2. FreshNames' /\ OpenListed' /\ TaskShape'
    BY <1>2 DEF Connect, ConnInv, FreshNames, OpenListed, TaskShape, Referenced, TypeOK, RealtimeTypeOK
  <2>3. DeadAreOver'
    BY <1>1, <1>2 DEF Connect, ConnInv, DeadAreOver, Referenced, TypeOK, RealtimeTypeOK
  <2>4. NothingMissed' /\ ReauthReachesAll'
    BY <1>2 DEF Connect, ConnInv, NothingMissed, ReauthReachesAll, TypeOK, RealtimeTypeOK
  <2>5. ClosedSessionIsOver'
    BY <1>1, <1>2 DEF Connect, ConnInv, ClosedSessionIsOver, TypeOK, RealtimeTypeOK
  <2> QED
    BY <2>1, <2>2, <2>3, <2>4, <2>5 DEF ConnInv
<1>3. CASE Accepted(k)
  <2>1. TokenIssued' /\ FreshNames' /\ OpenListed' /\ TaskShape'
    BY <1>3 DEF Accepted, SendFullState, ConnInv, TokenIssued, FreshNames, OpenListed, TaskShape,
                Referenced, TypeOK, RealtimeTypeOK, sessionVars
  <2>2. DeadAreOver' /\ ClosedSessionIsOver'
    BY <1>3 DEF Accepted, SendFullState, ConnInv, FreshNames, Referenced, DeadAreOver, ClosedSessionIsOver,
                TypeOK, RealtimeTypeOK, sessionVars
  <2>3. owed'[k] = {}
    BY <1>3 DEF Accepted, SendFullState, ConnInv, OpenListed, TypeOK, RealtimeTypeOK
  <2>4. NothingMissed' /\ ReauthReachesAll'
    BY <1>3, <2>3 DEF Accepted, SendFullState, ConnInv, NothingMissed, ReauthReachesAll, TypeOK,
                      RealtimeTypeOK
  <2> QED
    BY <2>1, <2>2, <2>4 DEF ConnInv
<1>4. CASE AcceptFails(k) \/ Leave(k)
  <2>1. TokenIssued' /\ FreshNames' /\ OpenListed' /\ TaskShape'
    BY <1>4 DEF AcceptFails, Leave, OweNothing, ConnInv, TokenIssued, FreshNames, OpenListed,
                TaskShape, Referenced, TypeOK, RealtimeTypeOK, sessionVars
  <2>2. DeadAreOver' /\ ClosedSessionIsOver'
    BY <1>4 DEF AcceptFails, Leave, ConnInv, DeadAreOver, ClosedSessionIsOver, TypeOK,
                RealtimeTypeOK, sessionVars
  <2>3. NothingMissed' /\ ReauthReachesAll'
    BY <1>4 DEF AcceptFails, Leave, OweNothing, ConnInv, NothingMissed, ReauthReachesAll, TypeOK,
                RealtimeTypeOK
  <2> QED
    BY <2>1, <2>2, <2>3 DEF ConnInv
<1>5. CASE Receive(k)
  <2>1. ~Valid(tok[k]) => age'[tok[k]] = Over
    BY <1>5 DEF Receive, Validate, TypeOK, SessionTypeOK
  <2>2. TokenIssued' /\ DeadAreOver' /\ ClosedSessionIsOver'
    BY <1>1, <1>5, <2>1 DEF Receive, ConnInv, TokenIssued, DeadAreOver, ClosedSessionIsOver,
                            TypeOK, RealtimeTypeOK
  <2>3. FreshNames' /\ OpenListed' /\ TaskShape' /\ ReauthReachesAll'
    BY <1>5 DEF Receive, OweNothing, ConnInv, FreshNames, OpenListed, TaskShape, Referenced,
                ReauthReachesAll, TypeOK, RealtimeTypeOK
  <2>4. NothingMissed'
    BY <1>5 DEF Receive, OweNothing, ConnInv, NothingMissed, TypeOK, RealtimeTypeOK
  <2> QED
    BY <2>2, <2>3, <2>4 DEF ConnInv
<1>6. CASE HandlerEnds(k)
  <2>1. TokenIssued' /\ FreshNames' /\ OpenListed' /\ TaskShape'
    BY <1>6 DEF HandlerEnds, Unlist, ConnInv, TokenIssued, FreshNames, OpenListed, TaskShape,
                Referenced, TypeOK, RealtimeTypeOK, sessionVars
  <2>2. DeadAreOver' /\ ClosedSessionIsOver'
    BY <1>6 DEF HandlerEnds, Unlist, ConnInv, DeadAreOver, ClosedSessionIsOver, TypeOK,
                RealtimeTypeOK, sessionVars
  <2>3. NothingMissed' /\ ReauthReachesAll'
    BY <1>6 DEF HandlerEnds, Unlist, ConnInv, NothingMissed, ReauthReachesAll, TypeOK,
                RealtimeTypeOK
  <2> QED
    BY <2>1, <2>2, <2>3 DEF ConnInv
<1> QED
  BY <1>2, <1>3, <1>4, <1>5, <1>6 DEF ConnStep

\* An announcement leaves what other tasks still have to do as it is, but for
\* what it replaces, which is on its way to everyone listed.
LEMMA AnnounceStep ==
    ASSUME TypeOK, ConnInv, NEW b \in Tasks, NEW what \in Messages(b), Announce(b, what)
    PROVE  ConnInv'
<1> USE References
<1>0. what \subseteq Announced
  BY DEF Messages, Announced
<1>1. \A a \in Tasks : /\ task'[a].dead = task[a].dead
                       /\ a # b => /\ task'[a].todo = task[a].todo
                                   /\ task'[a].pc = task[a].pc
                                   /\ task'[a].payload = task[a].payload \ what
  <2>1. ASSUME NEW a \in Tasks, a # b
        PROVE  /\ task'[a].dead = task[a].dead /\ task'[a].todo = task[a].todo
               /\ task'[a].pc = task[a].pc /\ task'[a].payload = task[a].payload \ what
    <3>1. /\ task'[a] = [task[a] EXCEPT !.payload = task[a].payload \ what]
          /\ task[a] \in TaskRecord
      BY <2>1 DEF Announce
    <3> QED
      BY <3>1 DEF TaskRecord
  <2>2. task'[b].dead = {} /\ task[b].dead = {}
    BY DEF Announce, Broadcast, NoTask
  <2> QED
    BY <2>1, <2>2
<1>2. /\ task'[b].todo = conns
      /\ conns # {} => task'[b].payload = what
      /\ task'[b].pc \in {"none", "visit"}
  BY DEF Announce, Broadcast, TypeOK, RealtimeTypeOK, NoTask
<1>3. TokenIssued' /\ DeadAreOver' /\ ClosedSessionIsOver'
  BY <1>1 DEF Announce, ConnInv, TokenIssued, DeadAreOver, ClosedSessionIsOver, sessionVars
<1>4. TaskShape'
  BY <1>1, <1>2 DEF Announce, ConnInv, TaskShape
<1>5. FreshNames'
  BY <1>1, <1>2 DEF Announce, ConnInv, FreshNames, Referenced, TypeOK, RealtimeTypeOK
<1>6. OpenListed'
  BY DEF Announce, Due, ConnInv, OpenListed
<1>7. NothingMissed'
  <2> SUFFICES ASSUME NEW k \in Conns, sock[k] = "open", NEW item \in owed'[k]
               PROVE  \E a \in Tasks : \/ item \in task'[a].payload /\ k \in task'[a].todo
                                       \/ k \in task'[a].dead
    BY DEF Announce, NothingMissed
  <2>1. k \in conns
    BY DEF ConnInv, OpenListed
  <2>2. CASE item \in what
    BY <1>2, <2>1, <2>2
  <2>3. CASE item \notin what
    <3>1. item \in owed[k]
      BY <2>3 DEF Announce, Due
    <3>2. PICK a \in Tasks : \/ item \in task[a].payload /\ k \in task[a].todo
                             \/ k \in task[a].dead
      BY <3>1 DEF ConnInv, NothingMissed
    <3>3. a # b
      BY <3>2 DEF Announce, NoTask
    <3> QED
      BY <1>1, <2>3, <3>2, <3>3
  <2> QED
    BY <2>2, <2>3
<1>8. ReauthReachesAll'
  BY <1>1 DEF Announce, ConnInv, ReauthReachesAll
<1> QED
  BY <1>3, <1>4, <1>5, <1>6, <1>7, <1>8 DEF ConnInv

\* A visit takes a connection off the task's list, and sets it aside when its
\* session is over or its socket is not open.
LEMMA VisitStep ==
    ASSUME TypeOK, ConnInv, [Next]_vars, NEW b \in Tasks, NEW k \in Conns, Visit(b, k)
    PROVE  ConnInv'
<1> DEFINE rest == [task[b] EXCEPT !.todo = task[b].todo \ {k}]
           aside == [rest EXCEPT !.dead = rest.dead \cup {k}]
<1> USE References
<1>1. \A t \in Tokens : /\ age[t] = Over => age'[t] = Over
                        /\ age[t] # Unissued => age'[t] # Unissued
  BY AgeStep
<1>2. /\ rest \in TaskRecord /\ aside \in TaskRecord
      /\ rest.todo = task[b].todo \ {k} /\ aside.todo = task[b].todo \ {k}
      /\ rest.dead = task[b].dead /\ aside.dead = task[b].dead \cup {k}
      /\ rest.payload = task[b].payload /\ aside.payload = task[b].payload
  BY DEF TaskRecord
<1>3. \A a \in Tasks : a # b => task'[a] = task[a]
  BY DEF Visit, TypeOK, RealtimeTypeOK
<1>4. /\ task'[b].todo = task[b].todo \ {k}
      /\ task'[b].todo # {} => task'[b].payload = task[b].payload
      /\ task'[b].pc # "drop"
      /\ task'[b].pc = "close" => task'[b].todo = {}
  <2>1. task'[b] \in {Finished(rest), Finished(aside)}
    BY DEF Visit, TypeOK, RealtimeTypeOK
  <2> HIDE DEF rest, aside
  <2> QED
    BY <1>2, <2>1, FinishedFacts
<1>5. /\ task[b].dead \subseteq task'[b].dead
      /\ task'[b].dead \subseteq task[b].dead \cup {k}
      /\ k \in task'[b].dead \/ owed'[k] \cap task[b].payload = {}
      /\ \A j \in Conns : owed'[j] \subseteq owed[j]
      /\ k \in task'[b].dead \ task[b].dead => ~Valid(tok[k]) \/ sock[k] # "open"
  <2>1. \/ /\ task'[b] = Finished(rest)
           /\ owed' = [owed EXCEPT ![k] = owed[k] \ rest.payload]
        \/ /\ task'[b] = Finished(aside)
           /\ ~Valid(tok[k]) \/ sock[k] # "open"
           /\ owed' = owed
    BY DEF Visit, TypeOK, RealtimeTypeOK
  <2> HIDE DEF rest, aside
  <2>2. CASE task'[b] = Finished(rest) /\ owed' = [owed EXCEPT ![k] = owed[k] \ rest.payload]
    <3>1. owed' = [owed EXCEPT ![k] = owed[k] \ task[b].payload]
      BY <1>2, <2>2
    <3>2. owed'[k] \cap task[b].payload = {} /\ \A j \in Conns : owed'[j] \subseteq owed[j]
      BY <3>1 DEF TypeOK, RealtimeTypeOK
    <3> QED
      BY <1>2, <2>2, <3>2, FinishedFacts
  <2>3. CASE task'[b] = Finished(aside) /\ (~Valid(tok[k]) \/ sock[k] # "open") /\ owed' = owed
    BY <1>2, <2>3, FinishedFacts
  <2> QED
    BY <2>1, <2>2, <2>3
<1>6. ~Valid(tok[k]) => age'[tok[k]] = Over
  BY DEF Visit, Validate, TypeOK, SessionTypeOK
<1>7. TokenIssued' /\ ClosedSessionIsOver'
  BY <1>1 DEF Visit, ConnInv, TokenIssued, ClosedSessionIsOver
<1>8. DeadAreOver'
  BY <1>1, <1>3, <1>5, <1>6 DEF Visit, ConnInv, DeadAreOver
<1>9. TaskShape'
  BY <1>3, <1>4 DEF Visit, ConnInv, TaskShape
<1>10. FreshNames'
  BY <1>3, <1>4, <1>5 DEF Visit, ConnInv, FreshNames, Referenced
<1>11. OpenListed'
  BY <1>5 DEF Visit, ConnInv, OpenListed
<1>12. NothingMissed'
  <2> SUFFICES ASSUME NEW j \in Conns, sock[j] = "open", NEW item \in owed'[j]
               PROVE  \E a \in Tasks : \/ item \in task'[a].payload /\ j \in task'[a].todo
                                       \/ j \in task'[a].dead
    BY DEF Visit, NothingMissed
  <2>1. PICK a \in Tasks : \/ item \in task[a].payload /\ j \in task[a].todo
                           \/ j \in task[a].dead
    BY <1>5 DEF ConnInv, NothingMissed
  <2>2. CASE a # b
    BY <1>3, <2>1, <2>2
  <2>3. CASE a = b /\ j # k
    BY <1>4, <1>5, <2>1, <2>3
  <2>4. CASE a = b /\ j = k
    BY <1>5, <2>1, <2>4
  <2> QED
    BY <2>2, <2>3, <2>4
<1>13. ReauthReachesAll'
  BY <1>3, <1>5 DEF Visit, ConnInv, ReauthReachesAll
<1> QED
  BY <1>7, <1>8, <1>9, <1>10, <1>11, <1>12, <1>13 DEF ConnInv

\* Only a connection that was set aside is closed.
LEMMA CloseStep ==
    ASSUME TypeOK, ConnInv, NEW b \in Tasks, NEW k \in Conns, Close(b, k)
    PROVE  ConnInv'
<1> USE References
<1>1. \A a \in Tasks : /\ a # b => task'[a] = task[a]
                       /\ task'[a].dead = task[a].dead
                       /\ task'[a].payload = task[a].payload
  BY DEF Close, TypeOK, RealtimeTypeOK, TaskRecord
<1>2. task'[b].todo = {k} /\ task'[b].pc = "drop" /\ task[b].todo = {}
  BY DEF Close, ConnInv, TaskShape, TypeOK, RealtimeTypeOK, TaskRecord
<1>3. \A j \in Conns : sock'[j] = IF j = k /\ sock[j] = "open" THEN "closed" ELSE sock[j]
  BY DEF Close, TypeOK, RealtimeTypeOK
<1>4. TokenIssued' /\ DeadAreOver' /\ ClosedSessionIsOver'
  BY <1>1, <1>3 DEF Close, ConnInv, TokenIssued, DeadAreOver, ClosedSessionIsOver, sessionVars
<1>5. TaskShape'
  <2>1. ASSUME NEW a \in Tasks, a # b
        PROVE  /\ task'[a].pc = "close" => task'[a].todo = {}
               /\ task'[a].pc = "drop" => /\ task'[a].todo \subseteq task'[a].dead
                                          /\ \A j \in task'[a].todo : sock'[j] # "open"
    BY <1>1, <1>3, <2>1 DEF ConnInv, TaskShape
  <2>2. k \in task'[b].dead /\ sock'[k] # "open"
    BY <1>1, <1>3 DEF Close
  <2> QED
    BY <1>2, <2>1, <2>2 DEF TaskShape
<1>6. FreshNames' /\ OpenListed'
  BY <1>1, <1>2, <1>3 DEF Close, OweNothing, ConnInv, FreshNames, OpenListed, Referenced,
                          TypeOK, RealtimeTypeOK
<1>7. NothingMissed' /\ ReauthReachesAll'
  BY <1>1, <1>2, <1>3 DEF Close, OweNothing, ConnInv, NothingMissed, ReauthReachesAll,
                          TypeOK, RealtimeTypeOK
<1> QED
  BY <1>4, <1>5, <1>6, <1>7 DEF ConnInv

\* What is dropped is listed no more.
LEMMA DropStep ==
    ASSUME TypeOK, ConnInv, NEW b \in Tasks, NEW k \in Conns, Drop(b, k)
    PROVE  ConnInv'
<1> DEFINE rest == [task[b] EXCEPT !.todo = {}, !.dead = task[b].dead \ {k}]
<1> USE References
<1>1. /\ rest \in TaskRecord
      /\ rest.todo = {} /\ rest.dead = task[b].dead \ {k}
  BY DEF TaskRecord
<1>2. \A a \in Tasks : a # b => task'[a] = task[a]
  BY DEF Drop, TypeOK, RealtimeTypeOK
<1>3. /\ task'[b].todo = {} /\ task'[b].dead = task[b].dead \ {k}
      /\ task'[b].pc # "drop"
  BY <1>1, FinishedFacts DEF Drop, TypeOK, RealtimeTypeOK
<1>4. task[b].todo \subseteq task[b].dead
  BY DEF Drop, ConnInv, TaskShape
<1>5. TokenIssued' /\ DeadAreOver' /\ ClosedSessionIsOver'
  BY <1>2, <1>3 DEF Drop, ConnInv, TokenIssued, DeadAreOver, ClosedSessionIsOver, sessionVars
<1>6. TaskShape'
  BY <1>2, <1>3 DEF Drop, ConnInv, TaskShape
<1>7. FreshNames' /\ OpenListed'
  <2>1. sock[k] # "open"
    BY DEF Drop, ConnInv, TaskShape
  <2> QED
    BY <1>2, <1>3, <2>1 DEF Drop, Unlist, ConnInv, FreshNames, OpenListed, Referenced
<1>8. NothingMissed'
  <2> SUFFICES ASSUME NEW j \in Conns, sock[j] = "open", NEW item \in owed[j]
               PROVE  \E a \in Tasks : \/ item \in task'[a].payload /\ j \in task'[a].todo
                                       \/ j \in task'[a].dead
    BY DEF Drop, NothingMissed
  <2>1. PICK a \in Tasks : \/ item \in task[a].payload /\ j \in task[a].todo
                           \/ j \in task[a].dead
    BY DEF ConnInv, NothingMissed
  <2>2. j # k
    BY DEF Drop, ConnInv, TaskShape
  <2> QED
    BY <1>2, <1>3, <1>4, <2>1, <2>2
<1>9. ReauthReachesAll'
  BY <1>2, <1>3 DEF Drop, Unlist, ConnInv, ReauthReachesAll
<1> QED
  BY <1>5, <1>6, <1>7, <1>8, <1>9 DEF ConnInv

\* A change of credentials ends every session and sets every listed
\* connection aside.
LEMMA CredentialsStep ==
    ASSUME TypeOK, ConnInv, NEW b \in Tasks, NEW t \in Tokens, UpdateCredentials(b, t)
    PROVE  ConnInv'
<1> DEFINE rest == [NoTask EXCEPT !.dead = conns]
<1> USE References
<1>1. rest \in TaskRecord /\ rest.todo = {} /\ rest.dead = conns
  BY DEF TaskRecord, NoTask
<1>2. \A a \in Tasks : a # b => task'[a] = task[a]
  BY DEF UpdateCredentials, Reauth, TypeOK, RealtimeTypeOK
<1>3. /\ task'[b].todo = {} /\ task'[b].dead = conns
      /\ task'[b].pc # "drop"
  BY <1>1, FinishedFacts DEF UpdateCredentials, Reauth, TypeOK, RealtimeTypeOK
<1>4. task[b].todo = {} /\ task[b].dead = {}
  BY DEF UpdateCredentials, NoTask
<1>5. \A u \in Tokens : /\ age[u] # Unissued => age'[u] = Over
                        /\ age[u] = Over => age'[u] = Over
  BY MaxAgeAssumption
     DEF UpdateCredentials, WipeSessions, HasRow, TypeOK, SessionTypeOK, Unissued, Over
<1>6. \A j \in Conns : sock[j] # "away" => age'[tok[j]] = Over
  BY <1>5 DEF ConnInv, TokenIssued
<1>7. TokenIssued' /\ DeadAreOver' /\ ClosedSessionIsOver'
  <2>1. Over # Unissued
    BY DEF Over, Unissued
  <2>2. \A a \in Tasks : task'[a].dead \subseteq Conns
    BY <1>2, <1>3
  <2> QED
    BY <1>2, <1>3, <1>6, <2>1, <2>2
       DEF UpdateCredentials, TokenIssued, DeadAreOver, ClosedSessionIsOver
<1>8. TaskShape'
  BY <1>2, <1>3 DEF UpdateCredentials, ConnInv, TaskShape
<1>9. FreshNames' /\ OpenListed'
  BY <1>2, <1>3 DEF UpdateCredentials, ConnInv, FreshNames, OpenListed, Referenced, TypeOK,
                    RealtimeTypeOK
<1>10. NothingMissed'
  BY <1>3 DEF UpdateCredentials, ConnInv, OpenListed, NothingMissed
<1>11. ReauthReachesAll'
  BY <1>3 DEF UpdateCredentials, ReauthReachesAll
<1> QED
  BY <1>7, <1>8, <1>9, <1>10, <1>11 DEF ConnInv

LEMMA ConnStepLemma ==
    ASSUME TypeOK, ConnInv, [Next]_vars
    PROVE  ConnInv'
<1>1. CASE UNCHANGED realtimeVars
  BY <1>1, QuietStep
<1>2. ASSUME NEW k \in Conns, ConnStep(k)
      PROVE  ConnInv'
  BY <1>2, ConnectionStep
<1>3. ASSUME NEW b \in Tasks, (\E what \in Messages(b) : Announce(b, what)) \/ TaskStep(b)
      PROVE  ConnInv'
  BY <1>3, AnnounceStep, VisitStep, CloseStep, DropStep DEF TaskStep
<1>4. ASSUME NEW b \in Tasks, NEW t \in Tokens, UpdateCredentials(b, t)
      PROVE  ConnInv'
  BY <1>4, CredentialsStep
<1>5. CASE Restart
  <2>1. \A b \in Tasks : task'[b] = NoTask
    BY <1>5 DEF Restart
  <2>2. \A k \in Conns : sock'[k] = "away"
    BY <1>5 DEF Restart
  <2> QED
    BY <1>5, <2>1, <2>2
       DEF Restart, NoTask, ConnInv, TokenIssued, FreshNames, OpenListed, TaskShape, DeadAreOver,
           NothingMissed, ReauthReachesAll, ClosedSessionIsOver
<1> QED
  BY <1>1, <1>2, <1>3, <1>4, <1>5 DEF Next, vars

LEMMA ConnInductive ==
    ASSUME Tokens # {}
    PROVE  Spec => []ConnInv
<1>1. Init => ConnInv
  BY DEF Init, NoConnections, NoTask, ConnInv, TokenIssued, FreshNames, OpenListed, TaskShape,
         DeadAreOver, NothingMissed, ReauthReachesAll, ClosedSessionIsOver
<1>2. TypeOK /\ ConnInv /\ [Next]_vars => ConnInv'
  BY ConnStepLemma
<1> QED
  BY <1>1, <1>2, TypeCorrect, PTL DEF Spec

\* Whatever the number of browsers, broadcasts, sessions and parts of the state,
\* an open browser has each part as it was announced last, and each event
\* announced since it was listed, or a broadcast is still bringing it.
THEOREM AnnouncementsArrive ==
    ASSUME Tokens # {}
    PROVE  Spec => []NothingMissed
<1>1. ConnInv => NothingMissed
  BY DEF ConnInv
<1> QED
  BY <1>1, ConnInductive, PTL

\* A change of credentials sends away everyone who is listed at that moment.
THEOREM CredentialsReachAll ==
    ASSUME Tokens # {}
    PROVE  Spec => []ReauthReachesAll
<1>1. ConnInv => ReauthReachesAll
  BY DEF ConnInv
<1> QED
  BY <1>1, ConnInductive, PTL

\* The server hangs up on ended sessions only.
THEOREM HangsUpOnEnded ==
    ASSUME Tokens # {}
    PROVE  Spec => []ClosedSessionIsOver
<1>1. ConnInv => ClosedSessionIsOver
  BY DEF ConnInv
<1> QED
  BY <1>1, ConnInductive, PTL
-----------------------------------------------------------------------------
(* Why ended sessions leave, fairness aside.                               *)

\* A listed browser whose session has ended.
Leaving(k) == k \in conns /\ age[tok[k]] = Over

\* Its socket is as it was, or not open any more.
Fades(k) == sock'[k] = sock[k] \/ (sock[k] = "open" /\ sock'[k] # "open")

\* It is not listed any more, or is one step nearer to that, or it was not its
\* handler's turn.
GoesOn(k) ==
    \/ k \notin conns'
    \/ Leaving(k)' /\ sock[k] = "open" /\ sock'[k] # "open"
    \/ Leaving(k)' /\ sock'[k] = sock[k] /\ ~Receive(k) /\ ~HandlerEnds(k)

\* Nothing lists it anew, revives its session or reopens its socket; its next
\* message closes the socket, and the handler of a closed socket takes it off.
LeavesForGood == [][\A k \in Conns : Leaving(k) => GoesOn(k)]_vars

\* A step of somebody else.
LEMMA OthersLeaveAlone ==
    ASSUME TypeOK, Next, NEW k \in conns, ~Receive(k), ~HandlerEnds(k)
    PROVE  \/ k \notin conns'
           \/ tok'[k] = tok[k] /\ Fades(k)
<1> DEFINE Alone == \/ k \notin conns'
                    \/ tok'[k] = tok[k] /\ Fades(k)
<1>0. k \in Conns /\ sock[k] \notin {"away", "accepting"}
  BY References DEF TypeOK, RealtimeTypeOK
<1>1. CASE UNCHANGED <<sock, tok>>
  BY <1>1 DEF Fades
<1>2. ASSUME NEW j \in Conns, ConnStep(j) PROVE Alone
  <2>1. CASE j = k
    BY <1>0, <1>2, <2>1 DEF ConnStep, Connect, Accepted, AcceptFails, Leave, Fades,
                                 TypeOK, RealtimeTypeOK
  <2>2. CASE j # k
    BY <1>0, <1>2, <2>2 DEF ConnStep, Connect, Accepted, AcceptFails, Leave, Receive, HandlerEnds,
                            Fades, TypeOK, RealtimeTypeOK
  <2> QED
    BY <2>1, <2>2
<1>3. ASSUME NEW b \in Tasks, NEW j \in Conns, Visit(b, j) \/ Close(b, j) \/ Drop(b, j) PROVE Alone
  BY <1>0, <1>3 DEF Visit, Close, Drop, Fades, TypeOK, RealtimeTypeOK
<1>4. CASE Restart
  BY <1>4 DEF Restart
<1> QED
  BY <1>1, <1>2, <1>3, <1>4 DEF Next, realtimeVars, Announce, TaskStep, UpdateCredentials

\* ws.py and realtime.py: however saves, broadcasts, threads and other browsers
\* come in between, a browser whose session has ended is two steps of its own
\* handler from being off the list, and nothing leads away from there.
THEOREM EndedOnlyLeave ==
    ASSUME Tokens # {}
    PROVE  Spec => LeavesForGood
<1>1. ASSUME TypeOK, TypeOK', [Next]_vars, NEW k \in Conns, Leaving(k) PROVE vars' = vars \/ GoesOn(k)
  <2> SUFFICES ASSUME Next, k \in conns' PROVE GoesOn(k)
    BY <1>1 DEF GoesOn
  <2>1. tok[k] \in Tokens /\ k \in conns /\ age[tok[k]] = Over /\ age'[tok[k]] = Over
    BY <1>1, AgeStep, References DEF Leaving
  <2>2. CASE Receive(k)
    <3>1. ~Valid(tok[k])
      BY <2>1 DEF Valid, HasRow, Over
    <3>2. sock[k] = "open" /\ sock'[k] = "closed" /\ UNCHANGED tok
      BY <1>1, <2>2, <3>1 DEF Receive, TypeOK, RealtimeTypeOK
    <3> QED
      BY <2>1, <3>2 DEF GoesOn, Leaving
  <2>3. CASE HandlerEnds(k)
    BY <2>3 DEF HandlerEnds, Unlist
  <2>4. CASE ~Receive(k) /\ ~HandlerEnds(k)
    <3>1. tok'[k] = tok[k] /\ Fades(k)
      BY <1>1, <2>1, <2>4, OthersLeaveAlone
    <3>2. Leaving(k)'
      BY <2>1, <3>1 DEF Leaving
    <3> QED
      BY <2>4, <3>1, <3>2 DEF GoesOn, Fades
  <2> QED
    BY <2>2, <2>3, <2>4
<1>2. TypeOK /\ TypeOK' /\ [Next]_vars => [\A k \in Conns : Leaving(k) => GoesOn(k)]_vars
  BY <1>1
<1> QED
  BY <1>2, TypeCorrect, PTL DEF Spec, LeavesForGood
=============================================================================

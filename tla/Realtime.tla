------------------------------ MODULE Realtime ------------------------------
(***************************************************************************)
(* Pushing state to browsers: api/routes/ws.py and services/realtime.py,   *)
(* composed with the sessions they validate and the settings these are     *)
(* judged by.  All of it runs on the event loop and gives way to others    *)
(* only where a socket is awaited.  What is announced is a part of the     *)
(* state, of which a payload only tells whether a newer one has been       *)
(* announced since, or an event, which nothing replaces and which goes by  *)
(* the name of its broadcast.  The order of _connections is left out: a    *)
(* task may visit in any order.                                            *)
(***************************************************************************)
EXTENDS Sessions, FiniteSets

CONSTANTS
    Conns,      \* connections; a name is used again once nothing refers to it
    Tasks,      \* bound: broadcasts in progress at a time
    Parts       \* what the state sent to browsers is made of

VARIABLES
    sock,     \* where each websocket is in its life
    tok,      \* the token each was opened with
    conns,    \* ws_manager._connections
    owed,     \* auxiliary: what was announced and has yet to be sent to each
    task,     \* broadcasts in progress
    revoked   \* auxiliary: listed when the credentials last changed

realtimeVars == <<sock, tok, conns, owed, task, revoked>>
vars == <<settingsVars, sessionVars, realtimeVars>>

\* away, accept() awaited, open, gone on the browser's side, closed by us
Socks == {"away", "accepting", "open", "lost", "closed"}

\* A trap or a line of the simulator's log goes by the name of its broadcast.
Announced == Parts \cup Tasks

NoTask == [pc |-> "none", payload |-> {}, todo |-> {}, dead |-> {}]
TaskRecord ==
    [pc : {"none", "visit", "close", "drop"}, payload : SUBSET Announced,
     todo : SUBSET Conns, dead : SUBSET Conns]

RealtimeTypeOK ==
    /\ sock \in [Conns -> Socks]
    /\ tok \in [Conns -> Tokens]
    /\ conns \subseteq {k \in Conns : sock[k] \notin {"away", "accepting"}}
    /\ owed \in [Conns -> SUBSET Announced]
    /\ task \in [Tasks -> TaskRecord]
    /\ revoked \subseteq Conns

TypeOK == SettingsTypeOK /\ SessionTypeOK /\ RealtimeTypeOK

NoConnections ==
    /\ sock = [k \in Conns |-> "away"]
    /\ conns = {}
    /\ owed = [k \in Conns |-> {}]
    /\ task = [b \in Tasks |-> NoTask]
    /\ revoked = {}

Init ==
    /\ SettingsInit
    /\ SessionInit
    /\ NoConnections
    /\ tok = [k \in Conns |-> Idle.token]

Referenced(k) == k \in conns \/ \E b \in Tasks : k \in task[b].todo \cup task[b].dead

-----------------------------------------------------------------------------
(* One connection: websocket_endpoint.                                     *)

\* A browser that is gone is owed nothing.
OweNothing(k) == owed' = [owed EXCEPT ![k] = {}]

\* The token is validated and accept() awaited, or the socket is closed.
Connect(k, t) ==
    /\ LoopFree
    /\ sock[k] = "away" /\ ~Referenced(k)
    /\ age[t] # Unissued
    /\ Validate(t, TRUE)
    /\ sock' = IF Valid(t) THEN [sock EXCEPT ![k] = "accepting"] ELSE sock
    /\ tok' = IF Valid(t) THEN [tok EXCEPT ![k] = t] ELSE tok
    /\ UNCHANGED <<serve, row, held, saving, overtaken, late,
                   conns, owed, task, revoked>>

\* Mutant: the full state is built before accept() is awaited.
SendEarlierState(k) == UNCHANGED owed

\* build_full_state gives way to nobody, so what is sent is every part of the
\* state as it is now; traps and log lines are no part of it.
SendFullState(k) == owed' = [owed EXCEPT ![k] = owed[k] \ Parts]

\* accept() returns; the connection is listed and the full state sent.
Accepted(k) ==
    /\ LoopFree
    /\ sock[k] = "accepting"
    /\ sock' = [sock EXCEPT ![k] = "open"]
    /\ conns' = conns \cup {k}
    /\ SendFullState(k)
    /\ UNCHANGED <<settingsVars, sessionVars, tok, task, revoked>>

\* The browser gave up: accept() or the sending of the full state raises.
AcceptFails(k) ==
    /\ LoopFree
    /\ sock[k] = "accepting"
    /\ sock' = [sock EXCEPT ![k] = "away"]
    /\ OweNothing(k)
    /\ UNCHANGED <<settingsVars, sessionVars, tok, conns, task, revoked>>

\* The browser goes away; the handler has yet to be told.
Leave(k) ==
    /\ sock[k] = "open"
    /\ sock' = [sock EXCEPT ![k] = "lost"]
    /\ OweNothing(k)
    /\ UNCHANGED <<settingsVars, sessionVars, tok, conns, task, revoked>>

\* Mutant: messages are answered without looking at the session.
ReceiveTrusts(k) ==
    /\ LoopFree
    /\ sock[k] = "open"
    /\ UNCHANGED vars

\* A message, usually the browser's ping: the token is validated again.
Receive(k) ==
    /\ LoopFree
    /\ sock[k] = "open"
    /\ Validate(tok[k], TRUE)
    /\ \/ Valid(tok[k]) /\ UNCHANGED <<sock, owed>>
       \/ ~Valid(tok[k]) /\ sock' = [sock EXCEPT ![k] = "closed"] /\ OweNothing(k)
    /\ UNCHANGED <<serve, row, held, saving, overtaken, late,
                   tok, conns, task, revoked>>

Unlist(k) ==
    /\ conns' = conns \ {k}
    /\ revoked' = revoked \ {k}

\* The handler learns that the socket is closed and disconnects.
HandlerEnds(k) ==
    /\ LoopFree
    /\ sock[k] \in {"lost", "closed"}
    /\ sock' = [sock EXCEPT ![k] = "away"]
    /\ Unlist(k)
    /\ UNCHANGED <<settingsVars, sessionVars, tok, owed, task>>

-----------------------------------------------------------------------------
(* Broadcasts.                                                             *)

Finished(rest) ==
    IF rest.todo # {} THEN [rest EXCEPT !.pc = "visit"]
    ELSE IF rest.dead # {} THEN [rest EXCEPT !.pc = "close", !.payload = {}]
    ELSE NoTask

\* broadcast() copies the list; with nobody to tell it returns.
Broadcast(what) ==
    IF conns = {} THEN NoTask
    ELSE [pc |-> "visit", payload |-> what, todo |-> conns, dead |-> {}]

\* An open browser is to be sent it; one in accept() is to know the state,
\* while no code sends it the events that it was too early for.
Due(k, what) ==
    CASE sock[k] = "open" -> what
      [] sock[k] = "accepting" -> what \cap Parts
      [] OTHER -> {}

\* A part of the state changes or an event occurs: the payload is built and
\* the broadcast begun in one step.
Announce(b, what) ==
    /\ LoopFree
    /\ task[b] = NoTask
    /\ owed' = [k \in Conns |-> owed[k] \cup Due(k, what)]
    /\ task' = [a \in Tasks |->
                  IF a = b THEN Broadcast(what)
                  ELSE [task[a] EXCEPT !.payload = task[a].payload \ what]]
    /\ UNCHANGED <<settingsVars, sessionVars, sock, tok, conns, revoked>>

\* The messages there are: each but reauth_required is announced like this.
Messages(b) == {{part} : part \in Parts} \cup {{b}}

\* broadcast() comes to a connection: an invalid one is set aside, as is one
\* whose send raises; a send to a browser that left may also go unnoticed.
Visit(b, k) ==
    LET rest == [task[b] EXCEPT !.todo = task[b].todo \ {k}] IN
    /\ LoopFree
    /\ task[b].pc = "visit" /\ k \in task[b].todo
    /\ Validate(tok[k], FALSE)
    /\ \/ /\ Valid(tok[k]) /\ sock[k] \in {"open", "lost"}
          /\ owed' = [owed EXCEPT ![k] = owed[k] \ rest.payload]
          /\ task' = [task EXCEPT ![b] = Finished(rest)]
       \/ /\ ~Valid(tok[k]) \/ sock[k] # "open"
          /\ task' = [task EXCEPT ![b] = Finished([rest EXCEPT !.dead = rest.dead \cup {k}])]
          /\ UNCHANGED owed
    /\ UNCHANGED <<serve, row, held, saving, overtaken, late,
                   sock, tok, conns, revoked>>

\* _close_connection: close() is awaited, ...
Close(b, k) ==
    /\ LoopFree
    /\ task[b].pc = "close" /\ k \in task[b].dead
    /\ sock' = [sock EXCEPT ![k] = IF @ = "open" THEN "closed" ELSE @]
    /\ OweNothing(k)
    /\ task' = [task EXCEPT ![b] = [task[b] EXCEPT !.pc = "drop", !.todo = {k}]]
    /\ UNCHANGED <<settingsVars, sessionVars, tok, conns, revoked>>

\* ... then the connection is taken off the list.
Drop(b, k) ==
    LET rest == [task[b] EXCEPT !.todo = {}, !.dead = task[b].dead \ {k}] IN
    /\ LoopFree
    /\ task[b].pc = "drop" /\ k \in task[b].todo
    /\ Unlist(k)
    /\ task' = [task EXCEPT ![b] = Finished(rest)]
    /\ UNCHANGED <<settingsVars, sessionVars, sock, tok, owed>>

\* Mutant: only the connections of the session that asked are closed.
ReauthOwn(t) == Finished([NoTask EXCEPT !.dead = {k \in conns : tok[k] = t}])

\* broadcast_reauth_required tells and closes every listed connection; that
\* the telling may raise changes nothing.
Reauth(t) == Finished([NoTask EXCEPT !.dead = conns])

\* POST /settings/auth: every session is deleted, then everybody listed at
\* that moment is sent away.
UpdateCredentials(b, t) ==
    /\ LoopFree
    /\ task[b] = NoTask
    /\ WipeSessions(t)
    /\ task' = [task EXCEPT ![b] = Reauth(t)]
    /\ revoked' = conns
    /\ UNCHANGED <<serve, row, held, saving, overtaken, late,
                   sock, tok, conns, owed>>

TaskStep(b) ==
    \E k \in Conns : Visit(b, k) \/ Close(b, k) \/ Drop(b, k)

-----------------------------------------------------------------------------

\* The process restarts: rows stay, memory goes and every socket with it.
Restart ==
    /\ sock' = [k \in Conns |-> "away"]
    /\ conns' = {}
    /\ owed' = [k \in Conns |-> {}]
    /\ task' = [b \in Tasks |-> NoTask]
    /\ revoked' = {}
    /\ serve' = [p \in Threads |-> Idle]
    /\ ForgetSettings
    /\ UNCHANGED <<age, tok>>

SessionStep ==
    \/ Tick
    \/ \E t \in Tokens : Login(t)
    \/ \E p \in Threads : ThreadStep(p)
    \/ SaveStep
    \/ \E t \in Tokens, value \in Timeouts : SaveTimeout(t, value)

ConnStep(k) ==
    \/ \E t \in Tokens : Connect(k, t)
    \/ Accepted(k)
    \/ AcceptFails(k)
    \/ Leave(k)
    \/ Receive(k)
    \/ HandlerEnds(k)

Next ==
    \/ SessionStep /\ UNCHANGED realtimeVars
    \/ \E k \in Conns : ConnStep(k)
    \/ \E b \in Tasks : (\E what \in Messages(b) : Announce(b, what)) \/ TaskStep(b)
    \/ \E b \in Tasks, t \in Tokens : UpdateCredentials(b, t)
    \/ Restart

Spec == Init /\ [][Next]_vars

\* The loop runs what is ready in the order it became ready, so a step that
\* is ready again and again is taken even if saves come in between; browsers
\* send a ping every 30 seconds.
FairSpec ==
    /\ Spec
    /\ WF_vars(SaveStep /\ UNCHANGED realtimeVars)
    /\ \A k \in Conns : SF_vars(Receive(k)) /\ SF_vars(HandlerEnds(k))

-----------------------------------------------------------------------------
(* Properties.                                                             *)

\* Nothing announced is missed: an open browser has been sent each part of the
\* state as it was announced last, and each event announced since it was
\* listed, or the broadcast has yet to come to it, however connecting and
\* broadcasting were interleaved.
NothingMissed ==
    \A k \in Conns : sock[k] = "open" => \A what \in owed[k] :
        \E b \in Tasks :
            \/ what \in task[b].payload /\ k \in task[b].todo
            \/ k \in task[b].dead

\* Whoever was connected when the credentials changed is off the list when
\* broadcast_reauth_required ends, whatever other broadcasts, pings and
\* failures came in between.
ReauthReachesAll ==
    \A k \in revoked : k \in conns /\ \E b \in Tasks : k \in task[b].dead

\* The server hangs up only on sessions that are over: no browser whose
\* session goes on is closed by a broadcast, a ping or a stale timeout.
ClosedSessionIsOver ==
    \A k \in Conns : sock[k] = "closed" => age[tok[k]] = Over

\* A listed browser whose session has ended does not stay connected.
EndedSessionsLeave ==
    \A k \in Conns : k \in conns /\ age[tok[k]] = Over ~> k \notin conns
=============================================================================

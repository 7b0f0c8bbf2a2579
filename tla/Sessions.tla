------------------------------ MODULE Sessions ------------------------------
(***************************************************************************)
(* Sessions of services/session.py: rows that age, expire when they are    *)
(* looked at, and are removed by a logout or a change of credentials.      *)
(* Login, logout and check run on worker threads, everything else on the   *)
(* event loop, where a validation is one step.                             *)
(***************************************************************************)
EXTENDS AppSettings

CONSTANTS
    Tokens,  \* session tokens, each issued once
    MaxAge   \* bound: the age at which a session stops growing older

ASSUME MaxAgeAssumption == MaxAge \in Nat

VARIABLES
    age,   \* ticks since last_seen_at of each token's row
    serve  \* the request each thread serves

sessionVars == <<age, serve>>

Unissued == -1
Over == -2

Idle == [op |-> "idle", token |-> CHOOSE t \in Tokens : TRUE, elapsed |-> 0]
Request == [op : {"idle", "check", "logout"}, token : Tokens, elapsed : 0 .. MaxAge]

SessionTypeOK ==
    /\ age \in [Tokens -> {Unissued, Over} \cup 0 .. MaxAge]
    /\ serve \in [Threads -> Request]

SessionInit ==
    /\ age = [t \in Tokens |-> Unissued]
    /\ serve = [p \in Threads |-> Idle]

HasRow(t) == age[t] >= 0

\* Time passes for every session.
Tick ==
    /\ \E t \in Tokens : age[t] \in 0 .. MaxAge - 1
    /\ age' = [t \in Tokens |-> IF age[t] \in 0 .. MaxAge - 1 THEN age[t] + 1 ELSE age[t]]
    /\ UNCHANGED <<serve, settingsVars>>

\* login: a new row.
Login(t) ==
    /\ age[t] = Unissued
    /\ age' = [age EXCEPT ![t] = 0]
    /\ UNCHANGED <<serve, settingsVars>>

-----------------------------------------------------------------------------
(* validate_token on the event loop.                                       *)

Valid(t) == HasRow(t) /\ age[t] <= Resolved

\* Mutant: an expired session is refused and its row stays.
ValidateKeepsExpired(t, touch) ==
    /\ age' = IF Valid(t) /\ touch THEN [age EXCEPT ![t] = 0] ELSE age
    /\ cache' = IF HasRow(t) THEN Resolved ELSE cache

\* An expired row is deleted, a valid one touched when asked to.  The timeout
\* is only looked up for a row that is there.  When a thread deletes the row
\* between the SELECT and the commit, the commit raises and the handler ends as
\* it does for a row that is gone: the deletion is taken to have come first.
Validate(t, touch) ==
    /\ age' = IF Valid(t) THEN IF touch THEN [age EXCEPT ![t] = 0] ELSE age
              ELSE [age EXCEPT ![t] = Over]
    /\ cache' = IF HasRow(t) THEN Resolved ELSE cache

\* update_credentials: with a valid session, every row is deleted.
WipeSessions(t) ==
    /\ Valid(t)
    /\ age' = [u \in Tokens |-> IF HasRow(u) THEN Over ELSE age[u]]
    /\ cache' = Resolved

-----------------------------------------------------------------------------
(* _require_session on a worker thread.                                    *)

\* The row is read and its elapsed time taken; a logout deletes the row
\* whatever that is.
FindSession(p, op, t) ==
    /\ serve[p].op = "idle"
    /\ HasRow(t)
    /\ serve' = [serve EXCEPT ![p] = 
                  [op |-> op, token |-> t,
                   elapsed |-> IF op = "check" THEN age[t] ELSE 0]]
    /\ UNCHANGED <<age, settingsVars>>

\* Mutant: the touched row is written back whether or not it is still there.
ConcludeRevives(p, timeout) ==
    LET t == serve[p].token IN
    /\ age' = [age EXCEPT ![t] =
                IF serve[p].elapsed > timeout \/ serve[p].op = "logout" THEN Over ELSE 0]
    /\ serve' = [serve EXCEPT ![p] = Idle]

\* Expired or logged out: the row is deleted.  Otherwise it is touched, unless
\* somebody deleted it meanwhile.
Conclude(p, timeout) ==
    LET t == serve[p].token IN
    /\ age' = [age EXCEPT ![t] =
                IF serve[p].elapsed > timeout \/ serve[p].op = "logout" THEN Over
                ELSE IF HasRow(t) THEN 0 ELSE @]
    /\ serve' = [serve EXCEPT ![p] = Idle]

\* The timeout is cached ...
UseCached(p) ==
    /\ serve[p].op # "idle" /\ held[p] = None
    /\ cache # None
    /\ Conclude(p, cache)
    /\ UNCHANGED settingsVars

\* ... or read from the row ...
LookUp(p) ==
    /\ serve[p].op # "idle" /\ held[p] = None
    /\ ReadRow(p)
    /\ UNCHANGED sessionVars

\* ... and stored.
UseRead(p) ==
    /\ StoreCache(p)
    /\ Conclude(p, held[p])

ThreadStep(p) ==
    \/ \E op \in {"check", "logout"}, t \in Tokens : FindSession(p, op, t)
    \/ UseCached(p)
    \/ LookUp(p)
    \/ UseRead(p)

SaveStep == (PopCache \/ ResolveSaved) /\ UNCHANGED sessionVars

\* POST /settings/app: the session is checked, then the timeout committed.
SaveTimeout(t, value) ==
    /\ Valid(t)
    /\ CommitTimeout(value)
    /\ Validate(t, TRUE)
    /\ UNCHANGED serve

\* What has ended a session ends it for good, whatever a thread that found it
\* earlier goes on to do with it.
SessionsStayOver == [][\A t \in Tokens : age[t] = Over => age'[t] = Over]_age
=============================================================================

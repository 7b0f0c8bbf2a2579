SPECIFICATION FairSpec
CONSTANTS
    k1 = k1  t1 = t1  t2 = t2  b1 = b1  b2 = b2  p1 = p1
    Timeouts = {0, 1}
    Default = 0
    Threads = {p1}
    Tokens = {t1, t2}
    MaxAge = 1
    Conns = {k1}
    Tasks = {b1, b2}
    Parts = {"status"}
INVARIANTS SavedTimeoutInEffect NothingMissed ReauthReachesAll ClosedSessionIsOver
PROPERTIES SessionsStayOver EndedSessionsLeave

\* Two handlers at a time; no symmetry, as liveness is checked.
CONSTANTS
    Calls = {c1, c2}
    Endpoints = {e1, e2, e3, e4}
    Ports = {p1, p2}
    DefaultPort = p1
    NoPort = noPort
    NoEndpoint = noEndpoint
SPECIFICATION FairSpec
INVARIANTS TypeOK CurrentIsServing SingleTeardown
PROPERTIES OnlyLegitimateTakedown CallsReturn

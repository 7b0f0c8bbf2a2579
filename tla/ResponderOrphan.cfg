\* Two overlapping starts: the old responder's replacement is forgotten.
CONSTANTS
    Calls = {c1, c2}
    Endpoints = {e1, e2, e3}
    Ports = {p1, p2, p3}
    DefaultPort = p1
    NoPort = noPort
    NoEndpoint = noEndpoint
SPECIFICATION Spec
INVARIANT NoOrphan

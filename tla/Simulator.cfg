\* One handler at a time: endpoint promise, objects served, defaults.
CONSTANTS
    Calls = {c1}
    Endpoints = {e1, e2, e3}
    Ports = {p1, p2}
    DefaultPort = p1
    NoPort = noPort
    NoEndpoint = noEndpoint
    old = old
    new = new
    level = level
    label = label
    Bundles = {old, new}
    NoBundle = noBundle
    Oids = {level, label}
    Objects <- MCObjects
    Types <- MCTypes
    Declared <- MCDeclared
    Payloads <- MCPayloads
    Corrupt = corrupt
SPECIFICATION SimSpec
INVARIANTS NoOrphan UptimeKnown ServesStored RestartRequiredIsRight DefaultsAccepted
PROPERTIES OneEndpointAtATime

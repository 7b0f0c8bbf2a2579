\* Custom data saved under one bundle and started under another.
CONSTANTS
    Calls = {c1}
    Endpoints = {e1, e2, e3}
    Ports = {p1, p2}
    DefaultPort = p1
    NoPort = noPort
    NoEndpoint = noEndpoint
    old = old
    new = new
    level = level
    label = label
    Bundles = {old, new}
    NoBundle = noBundle
    Oids = {level, label}
    Objects <- MCObjects
    Types <- MCTypes
    Declared <- MCDeclared
    Payloads <- MCPayloads
    Corrupt = corrupt
SPECIFICATION SimSpec
INVARIANT BadDataCannotBlockStart

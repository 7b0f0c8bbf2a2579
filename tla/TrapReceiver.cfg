SPECIFICATION FairSpec
CONSTANTS
    Calls = {c1}
    Listeners = {e1, e2}
    Ports = {p1, p2}
    DefaultPort = p1
    NoPort = noPort
    NoListener = noListener
    BundleIds = {b1, b2}
    NoBundle = none
    Senders = {}
    MaxId = 1
    BufferLimit = 1
INVARIANTS
    NothingAfterStop
    OneTrapAtATime
PROPERTIES
    CallsReturn
    FilesAsPromised

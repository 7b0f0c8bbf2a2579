SPECIFICATION HistorySpec
CONSTANTS
    BundleIds = {b1, b2}
    NoBundle = none
    Senders = {s1, s2}
    MaxId = 3
    BufferLimit = 2
INVARIANTS
    HistoryTypeOK
    MirrorFaithful
    StampedBundle
    OnlyReceivedDeleted

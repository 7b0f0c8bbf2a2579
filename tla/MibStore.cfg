\* No status thread: the operations, their jobs, failures and crashes.
SPECIFICATION FairSpec
CONSTANTS
    base = base
    derived = derived
    Mibs = {base, derived}
    Imports <- MCImports
    Batches <- SmallBatches
    MaxRuns = 2
    NoScan = NoScan
INVARIANTS
    TypeOK
    InventoryFresh
    NoSourceLost
PROPERTIES
    RebuildServesTree
    UsesBundles
    OperationEnds

SPECIFICATION ViewSpec
CONSTANTS
    base = base
    vendor = vendor
    x = x
    y = y
    old = old
    new = new
    Contents <- MCContents
    StarterContent = "starter"
    ModulesOf <- MCModulesOf
    MaxRuns = 3
    NodesOf <- MCNodesOf
    Hits <- MCHits
    Internet <- Root
    MaxDepth = 6
    Limits = {1, 3}
INVARIANTS
    FlagIsPointer
    MemoryServesActive
    FailureChangesNothing
    BundlesComeFromRuns
    ListingHangsTogether
    DiffExplains
    TreesShowAll
    SearchAgreesWithTree
PROPERTY SwitchesCatalog

SPECIFICATION UploadsOnly
CONSTANTS
    base = base
    derived = derived
    Mibs = {base, derived}
    Imports <- MCImports
    Batches <- SmallBatches
    MaxRuns = 2
    NoScan = NoScan
PROPERTY UploadKeepsAggregate

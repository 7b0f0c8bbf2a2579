SPECIFICATION ReaderSpec
CONSTANTS
    base = base
    derived = derived
    reader = reader
    Mibs = {base, derived}
    Imports <- MCImports
    Batches <- SmallBatches
    Readers = {reader}
    MaxRuns = 2
    NoScan = NoScan
PROPERTY UploadFindsItsFiles

\* An accepted subscriber across a reorganisation.
CONSTANTS
    MaxBlock = 2
    MaxReorgs = 1
    Finalities = {"accepted"}
    BatchSizes = {1, 2}
    Filters <- MCFilters
    StartCursors <- MCStartCursors
    MaxReconfigs = 2
SPECIFICATION Spec
INVARIANT NoMissedData
\* The server idles when the chain and the client stop.
CHECK_DEADLOCK FALSE

\* Finalized-only subscribers over a chain that reorganises once.
CONSTANTS
    MaxBlock = 2
    MaxReorgs = 1
    Finalities = {"finalized"}
    BatchSizes = {1, 2}
    Filters <- MCFilters
    StartCursors <- MCStartCursors
    MaxReconfigs = 2
SPECIFICATION Spec
INVARIANT TypeOK
INVARIANT FinalizedDataIsFinal
INVARIANT NoMissedData
PROPERTY FinalizedWorkEventuallyPolled
PROPERTY ImplementsFinalizedStream
\* The server idles when the chain and the client stop.
CHECK_DEADLOCK FALSE

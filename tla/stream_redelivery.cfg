\* A finalized batch in which no block matches the filter.
CONSTANTS
    MaxBlock = 2
    MaxReorgs = 0
    Finalities = {"finalized"}
    BatchSizes = {1, 2}
    Filters <- MCFilters
    StartCursors <- MCStartCursors
    MaxReconfigs = 2
SPECIFICATION Spec
INVARIANT NoRedelivery
\* The server idles when the chain and the client stop.
CHECK_DEADLOCK FALSE

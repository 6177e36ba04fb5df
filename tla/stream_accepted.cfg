\* Accepted and pending subscribers over a chain that never reorganises.
CONSTANTS
    MaxBlock = 2
    MaxReorgs = 0
    Finalities = {"accepted", "pending"}
    BatchSizes = {1, 2}
    Filters <- MCFilters
    StartCursors <- MCStartCursors
    MaxReconfigs = 2
SPECIFICATION Spec
INVARIANT NoMissedData
PROPERTY FinalizedDataEventuallySent
\* The server idles when the chain and the client stop.
CHECK_DEADLOCK FALSE

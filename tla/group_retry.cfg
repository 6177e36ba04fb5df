\* A storage error on the group put, the event handed over again.
CONSTANTS
    SegmentSize = 2
    GroupSize = 2
    MaxSegments = 6
    MaxFailures = 1
    MaxRestarts = 0
SPECIFICATION Spec


\* The chain provides MaxSegments segments and then the pipeline stops.
CHECK_DEADLOCK FALSE
INVARIANT GroupsPartitionSegments

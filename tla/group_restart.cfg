\* A process restart in the middle of a group.
CONSTANTS
    SegmentSize = 2
    GroupSize = 2
    MaxSegments = 6
    MaxFailures = 0
    MaxRestarts = 1
SPECIFICATION Spec


\* The chain provides MaxSegments segments and then the pipeline stops.
CHECK_DEADLOCK FALSE
INVARIANT GroupsAligned

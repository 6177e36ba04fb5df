\* Segment group builder under storage errors retried by the caller and a restart.
CONSTANTS
    SegmentSize = 2
    GroupSize = 2
    MaxSegments = 6
    MaxFailures = 2
    MaxRestarts = 1
SPECIFICATION Spec
INVARIANT GroupTypeOK
INVARIANT NoGroupOverwrite
PROPERTY GroupsPutInOrder
\* The chain provides MaxSegments segments and then the pipeline stops.
CHECK_DEADLOCK FALSE

\* Block fetch meeting a transport error (ProviderError::Other).
CONSTANTS
    Errors = {"other"}
    BlockNumbers = {7}
    RequestTimes = {0, 1}
SPECIFICATION Spec
INVARIANT TransientErrorsRetried
\* A fetch ends with a block or an error, and nothing follows it.
CHECK_DEADLOCK FALSE

\* Block fetch with retry: every gateway error and every shape of gateway
\* block, requests of 0 or 5 s.
CONSTANTS
    Errors = {"rateLimited", "starknetError", "other"}
    BlockNumbers = {7}
    RequestTimes = {0, 1}
SPECIFICATION Spec
INVARIANT FetchTypeOK
INVARIANT RetryWithinBudget
PROPERTY FetchEnds
\* A fetch ends with a block or an error, and nothing follows it.
CHECK_DEADLOCK FALSE

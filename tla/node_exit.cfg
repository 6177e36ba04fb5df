\* Node start: a task ending with an error, a panic or cancellation.
SPECIFICATION Spec
INVARIANT OkMeansCleanShutdown
\* start returns once, and ended tasks do nothing more.
CHECK_DEADLOCK FALSE

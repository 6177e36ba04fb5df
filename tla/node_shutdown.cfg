\* Node start: three tasks, fatal errors at any time, cancellation.
SPECIFICATION Spec
PROPERTY ShutdownCompletes
\* start returns once, and ended tasks do nothing more.
CHECK_DEADLOCK FALSE

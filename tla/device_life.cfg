\* Three callers on one host, two with the same interface name and all with
\* the default port, two faults.
SPECIFICATION Spec
CONSTANTS
    Callers <- MCCallers
    Name <- MCName
    Port <- MCPort
    MaxPending = 2
    MaxFaults = 2
INVARIANTS
    RunningConnected
    NothingLeaks
PROPERTY
    RetrySucceeds
CHECK_DEADLOCK FALSE

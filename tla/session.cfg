\* Two sessions, the first with a proxy that is used; four clicks and losses, and two attempts
\* of the reconnect loop.
SPECIFICATION Spec
CONSTANTS
    MaxTasks = 2
    MaxConnects = 2
    MaxEvents = 4
    MaxAttempts = 2
    Used = {1}
INVARIANTS OriginalKept ReconnectGuard
PROPERTY ButtonComesBack
CHECK_DEADLOCK FALSE

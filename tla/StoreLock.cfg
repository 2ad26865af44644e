SPECIFICATION Spec
CONSTANTS
    Daemons = {d1, d2}
    MaxInode = 3
INVARIANT OneDaemonPerStore
CHECK_DEADLOCK FALSE

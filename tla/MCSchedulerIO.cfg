SPECIFICATION Spec
CONSTANTS
    NPROC = 2
    NIOREQ = 2
    QUANTUM = 2
    Methods <- AnyMethod
    MIN_INT_ARRTIME = 1
    MAX_INT_ARRTIME = 2
    MIN_SERVTIME = 1
    MAX_SERVTIME = 3
    MIN_IO_SERVTIME = 0
    MAX_IO_SERVTIME = 2
    MIN_IOREQ_INT_ARRTIME = 0
    MaxTime = 20
INVARIANTS
    IOOnlyWhenNotTerminating

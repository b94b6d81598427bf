\* Up to 32 items through a buffer of up to 8, the numbers of the example, the
\* producer or the consumer called first.  The program stops when the driver has
\* ended, so a state without a successor is no error.
SPECIFICATION Spec
CONSTANTS
    MaxItems = 32
    MaxSize = 8
INVARIANTS
    TypeOK
    SemaphoresCount
    ItemsInOrder
    OrderDecidesLeftovers
PROPERTY DriverEnds
CHECK_DEADLOCK FALSE

SPECIFICATION Spec
CONSTANTS a = a b = b c = c d = d
CONSTANTS Requests <- Four Streaming <- Streams1 MaxConcurrent = 2
INVARIANTS PermitsConserved NoLostWakeup QueueIsExact
PROPERTY ImplementsPool
CHECK_DEADLOCK FALSE

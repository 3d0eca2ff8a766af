SPECIFICATION FairSpec
CONSTANTS a = a b = b c = c
CONSTANTS Requests <- Three Streaming <- Streams MaxConcurrent = 1
INVARIANT UnloadMeetsOrphansOnly
PROPERTIES StartsOnlyWhenReady RequestsEnd StopEnds ImplementsCapacity
CHECK_DEADLOCK FALSE

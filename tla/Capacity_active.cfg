SPECIFICATION Spec
CONSTANTS a = a b = b c = c d = d
CONSTANTS Requests <- Three Streaming <- Streams1 MaxConcurrent = 1
INVARIANT ActiveGenerationsBounded
CHECK_DEADLOCK FALSE

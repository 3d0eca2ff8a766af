SPECIFICATION FairSpec
CONSTANTS MaxChunks = 4 Hold = 1
INVARIANTS FinalIsComplete StopIsNotSent EventsInOrder
PROPERTIES StreamEnds ThreadsEnd

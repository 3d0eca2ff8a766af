SPECIFICATION FairSpec
INVARIANTS ServerTypeOK ServerIsNotLost FailedLoadIsClean LoadedIsServing
PROPERTIES CallsEnd ImplementsEngine

SPECIFICATION FairSpec
INVARIANTS ReadyMeansServable FailureUnloads LeakOnlyAfterCancel NeverReadyAgain
PROPERTIES StoppedIsFinal RegressOnlyByCancel ShutdownCompletes

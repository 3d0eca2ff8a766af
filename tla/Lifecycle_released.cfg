SPECIFICATION Spec
INVARIANT StoppedMeansReleased

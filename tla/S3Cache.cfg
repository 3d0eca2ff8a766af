SPECIFICATION FairSpec
CONSTANTS r1 = r1 r2 = r2 v1 = v1 v2 = v2 f1 = f1 f2 = f2 Nobody = Nobody
CONSTANTS Replicas <- TwoReplicas Revisions <- TwoRevisions Files <- OneFile
INVARIANTS NeverBlended OneWriterAndNoLitter InUseStaysWhole
PROPERTIES ResolvedIsWhole ResolveEnds

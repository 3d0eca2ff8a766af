----------------------------- MODULE MCS3Cache -----------------------------
(***************************************************************************)
(* Instances of S3Cache for TLC: two replicas, two revisions uploaded to   *)
(* one prefix in turn, one or two artifacts in each.                       *)
(***************************************************************************)
EXTENDS S3Cache

CONSTANTS r1, r2, v1, v2, f1, f2

TwoReplicas == {r1, r2}
TwoRevisions == {v1, v2}
TwoFiles == {f1, f2}
OneFile == {f1}
=============================================================================

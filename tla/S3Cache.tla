------------------------------ MODULE S3Cache ------------------------------
(***************************************************************************)
(* The verified model cache: S3ModelStorage.resolve (storage/s3.py) in the *)
(* replicas that share a MODEL_CACHE_DIR, the use ModelManager.initialize  *)
(* makes of the path it returns, and scripts/upload_model.py re-uploading  *)
(* the same prefix meanwhile.                                              *)
(*                                                                         *)
(* A replica is a process: it may be killed between two steps, and the     *)
(* system then releases its file lock.  A directory maps the names in it   *)
(* to the revision whose bytes they hold; an empty one counts as none.     *)
(***************************************************************************)
CONSTANTS Replicas,   \* the processes that share the cache
          Revisions,  \* the checkpoints uploaded to the prefix, by manifest digest
          Files,      \* the paths every manifest declares
          Nobody      \* no replica, and no revision

ASSUME S3CacheAssumption == /\ Nobody \notin Replicas \cup Revisions
                            /\ Files \cap {"manifest", "marker"} = {}
                            /\ Revisions \cap {"absent", "torn"} = {}

VARIABLES
  bucket,     \* the revision of each artifact object under the prefix
  published,  \* the revision whose manifest object is there
  upload,     \* the revision being uploaded
  left,       \* its artifacts still to upload
  target,     \* the cache directory of each revision
  lock,       \* who holds the lock of that directory
  pc,         \* where each replica is
  want,       \* the manifest it read
  temp,       \* its temporary directory
  faulted     \* history: a disk failed to read or remove, or lost its power

vars == <<bucket, published, upload, left, target, lock, pc, want, temp, faulted>>
remote == <<bucket, published, upload, left>>

Unsynced == {"manifest", "marker"}  \* written without fsync; .complete is the marker
Names == Files \cup Unsynced
Contents == Revisions \cup {"absent", "torn"}
Missing == [n \in Names |-> "absent"]
Whole(v) == \A n \in Names : target[v][n] = v

Locked == {"checking", "removing", "filling", "marking"}
Resolving == Locked \cup {"locking"}
Using == {"resolved", "loading"}

Init ==
  /\ bucket = [f \in Files |-> Nobody] /\ published = Nobody
  /\ upload = Nobody /\ left = {}
  /\ target = [v \in Revisions |-> Missing]
  /\ lock = [v \in Revisions |-> Nobody]
  /\ pc = [r \in Replicas |-> "idle"]
  /\ want = [r \in Replicas |-> Nobody]
  /\ temp = [r \in Replicas |-> Missing]
  /\ faulted = FALSE

-----------------------------------------------------------------------------
(* upload_model.py: the artifacts in any order, the manifest last.        *)

StartUpload(v) ==
  /\ upload = Nobody /\ upload' = v /\ left' = Files
  /\ UNCHANGED <<bucket, published, target, lock, pc, want, temp, faulted>>

UploadFile(f) ==
  /\ f \in left /\ left' = left \ {f}
  /\ bucket' = [bucket EXCEPT ![f] = upload]
  /\ UNCHANGED <<published, upload, target, lock, pc, want, temp, faulted>>

UploadManifest ==
  /\ upload # Nobody /\ left = {}
  /\ published' = upload /\ upload' = Nobody
  /\ UNCHANGED <<bucket, left, target, lock, pc, want, temp, faulted>>

UploadAborts ==
  /\ upload # Nobody /\ upload' = Nobody /\ left' = {}
  /\ UNCHANGED <<bucket, published, target, lock, pc, want, temp, faulted>>

-----------------------------------------------------------------------------
(* resolve.                                                               *)

Goto(r, to) == pc' = [pc EXCEPT ![r] = to]
Unlock(r) == lock' = [lock EXCEPT ![want[r]] = Nobody]

GetManifest(r) ==
  /\ pc[r] = "idle"
  /\ IF published = Nobody THEN Goto(r, "failed") /\ UNCHANGED want
     ELSE Goto(r, "locking") /\ want' = [want EXCEPT ![r] = published]
  /\ UNCHANGED <<remote, target, lock, temp, faulted>>

TakeLock(r) ==
  /\ pc[r] = "locking" /\ lock[want[r]] = Nobody
  /\ lock' = [lock EXCEPT ![want[r]] = r] /\ Goto(r, "checking")
  /\ UNCHANGED <<remote, target, want, temp, faulted>>

(* Defect: the lock has no timeout.                                       *)
LockNeverTimesOut(r) == pc[r] = "locking" /\ FALSE /\ UNCHANGED vars

LockTimeout(r) ==  \* 900 seconds
  /\ pc[r] = "locking" /\ lock[want[r]] # Nobody /\ Goto(r, "failed")
  /\ UNCHANGED <<remote, target, lock, want, temp, faulted>>

(* Defect: the marker alone makes a hit.                                  *)
HitByMarker(r) ==
  /\ pc[r] = "checking" /\ target[want[r]]["marker"] = want[r]
  /\ Goto(r, "resolved") /\ Unlock(r)
  /\ UNCHANGED <<remote, target, want, temp, faulted>>

Hit(r) ==
  /\ pc[r] = "checking" /\ Whole(want[r])
  /\ Goto(r, "resolved") /\ Unlock(r)
  /\ UNCHANGED <<remote, target, want, temp, faulted>>

(* Defect: a directory that validates is removed like one that does not.  *)
MissAlways(r) ==
  /\ pc[r] = "checking" /\ Goto(r, "removing")
  /\ UNCHANGED <<remote, target, lock, want, temp, faulted>>

(* No marker, a wrong one, or a directory that does not validate: an      *)
(* error in reading the marker or an artifact counts as the latter.       *)
Miss(r) ==
  /\ pc[r] = "checking"
  /\ faulted' = (faulted \/ Whole(want[r]))
  /\ Goto(r, "removing")
  /\ UNCHANGED <<remote, target, lock, want, temp>>

RemoveEntry(r) ==
  /\ pc[r] = "removing"
  /\ \E n \in Names : /\ target[want[r]][n] # "absent"
                      /\ target' = [target EXCEPT ![want[r]][n] = "absent"]
  /\ UNCHANGED <<remote, lock, pc, want, temp, faulted>>

RemoveFails(r) ==
  /\ pc[r] = "removing" /\ target[want[r]] # Missing
  /\ Goto(r, "failed") /\ Unlock(r) /\ faulted' = TRUE
  /\ UNCHANGED <<remote, target, want, temp>>

StartFilling(r) ==
  /\ pc[r] = "removing" /\ target[want[r]] = Missing
  /\ Goto(r, "filling")
  /\ temp' = [temp EXCEPT ![r] = [Missing EXCEPT !["manifest"] = want[r]]]
  /\ UNCHANGED <<remote, target, lock, want, faulted>>

(* An object whose size and hash are the manifest's.                      *)
Fetch(r) ==
  /\ pc[r] = "filling"
  /\ \E f \in Files : /\ temp[r][f] = "absent" /\ bucket[f] = want[r]
                      /\ temp' = [temp EXCEPT ![r][f] = bucket[f]]
  /\ UNCHANGED <<remote, target, lock, pc, want, faulted>>

Mark(r) ==
  /\ pc[r] = "filling" /\ \A f \in Files : temp[r][f] = want[r]
  /\ Goto(r, "marking") /\ temp' = [temp EXCEPT ![r]["marker"] = want[r]]
  /\ UNCHANGED <<remote, target, lock, want, faulted>>

Publish(r) ==  \* os.replace, onto nothing
  /\ pc[r] = "marking" /\ target[want[r]] = Missing
  /\ target' = [target EXCEPT ![want[r]] = temp[r]]
  /\ temp' = [temp EXCEPT ![r] = Missing]
  /\ Goto(r, "resolved") /\ Unlock(r)
  /\ UNCHANGED <<remote, want, faulted>>

(* Defect: a failed download leaves its temporary directory behind.       *)
AbandonLitter(r) ==
  /\ pc[r] \in {"filling", "marking"}
  /\ Goto(r, "failed") /\ Unlock(r)
  /\ UNCHANGED <<remote, target, want, temp, faulted>>

(* The wrong object, none, or an I/O error: except BaseException.  rmtree *)
(* with ignore_errors may leave the directory or part of it and does not  *)
(* tell.  Nobody reads what is left: the manifest stands for any of it.   *)
Abandon(r) ==
  /\ pc[r] \in {"filling", "marking"}
  /\ \/ temp' = [temp EXCEPT ![r] = Missing] /\ UNCHANGED faulted
     \/ /\ temp' = [temp EXCEPT ![r] = [Missing EXCEPT !["manifest"] = want[r]]]
        /\ faulted' = TRUE
  /\ Goto(r, "failed") /\ Unlock(r)
  /\ UNCHANGED <<remote, target, want>>

-----------------------------------------------------------------------------
(* initialize, once it has the path: it validates and loads unlocked.     *)

Validate(r) ==
  /\ pc[r] = "resolved"
  /\ \/ Whole(want[r]) /\ Goto(r, "loading")
     \/ Goto(r, "failed")
  /\ UNCHANGED <<remote, target, lock, want, temp, faulted>>

Load(r) ==
  /\ pc[r] = "loading" /\ \E how \in {"loaded", "failed"} : Goto(r, how)
  /\ UNCHANGED <<remote, target, lock, want, temp, faulted>>

(* The process ends, wherever it is, and starts afresh.  Nobody looks for *)
(* the temporary directory it leaves.                                     *)
Kill(r) ==
  /\ pc[r] # "idle" /\ Goto(r, "idle")
  /\ want' = [want EXCEPT ![r] = Nobody] /\ temp' = [temp EXCEPT ![r] = Missing]
  /\ lock' = [v \in Revisions |-> IF lock[v] = r THEN Nobody ELSE lock[v]]
  /\ UNCHANGED <<remote, target, faulted>>

(* Defect: the artifacts are not synced either.                           *)
PowerLossUnsynced ==
  /\ faulted' = TRUE
  /\ \E v \in Revisions, torn \in SUBSET Names :
       target' = [target EXCEPT ![v] = [n \in Names |->
                    IF n \in torn /\ target[v][n] # "absent" THEN "torn"
                    ELSE target[v][n]]]
  /\ pc' = [r \in Replicas |-> "idle"] /\ want' = [r \in Replicas |-> Nobody]
  /\ temp' = [r \in Replicas |-> Missing] /\ lock' = [v \in Revisions |-> Nobody]
  /\ UNCHANGED remote

(* The machine ends: what was not synced may be lost.                     *)
PowerLoss ==
  /\ faulted' = TRUE
  /\ \E v \in Revisions, torn \in SUBSET Unsynced :
       target' = [target EXCEPT ![v] = [n \in Names |->
                    IF n \in torn /\ target[v][n] # "absent" THEN "torn"
                    ELSE target[v][n]]]
  /\ pc' = [r \in Replicas |-> "idle"] /\ want' = [r \in Replicas |-> Nobody]
  /\ temp' = [r \in Replicas |-> Missing] /\ lock' = [v \in Revisions |-> Nobody]
  /\ UNCHANGED remote

-----------------------------------------------------------------------------
Resolve(r) ==
  \/ TakeLock(r) \/ LockTimeout(r) \/ Hit(r) \/ Miss(r) \/ RemoveEntry(r)
  \/ RemoveFails(r) \/ StartFilling(r) \/ Fetch(r) \/ Mark(r) \/ Publish(r)
  \/ Abandon(r)

Upload == \/ \E v \in Revisions : StartUpload(v)
          \/ \E f \in Files : UploadFile(f)
          \/ UploadManifest \/ UploadAborts

Next == \/ Upload \/ PowerLoss
        \/ \E r \in Replicas : \/ GetManifest(r) \/ Resolve(r)
                               \/ Validate(r) \/ Load(r) \/ Kill(r)

Spec == Init /\ [][Next]_vars

(* S3 answers or fails, the disk works or fails, the lock has a timeout.  *)
FairSpec == Spec /\ \A r \in Replicas : WF_vars(Resolve(r))

-----------------------------------------------------------------------------
TypeOK ==
  /\ bucket \in [Files -> Revisions \cup {Nobody}]
  /\ published \in Revisions \cup {Nobody} /\ upload \in Revisions \cup {Nobody}
  /\ left \subseteq Files
  /\ target \in [Revisions -> [Names -> Contents]]
  /\ lock \in [Revisions -> Replicas \cup {Nobody}]
  /\ pc \in [Replicas -> Resolving \cup Using \cup {"idle", "loaded", "failed"}]
  /\ want \in [Replicas -> Revisions \cup {Nobody}]
  /\ temp \in [Replicas -> [Names -> Contents]]
  /\ faulted \in BOOLEAN

(* A path leaves resolve only when every artifact, the manifest and the   *)
(* marker are there, whatever a killed process, a torn write or another   *)
(* replica had left in its place (docs/ARCHITECTURE.md:16).               *)
ResolvedIsWhole ==
  [][\A r \in Replicas :
       pc[r] # "resolved" /\ pc'[r] = "resolved" => Whole(want[r])']_vars

(* Re-uploads never blend two revisions in a cache directory: every file  *)
(* in it holds the bytes its manifest declares (s3.py:102-125).           *)
NeverBlended ==
  \A v \in Revisions, n \in Names :
    target[v][n] \in {"absent", v} \cup (IF n \in Unsynced THEN {"torn"} ELSE {})

(* One replica at a time checks, removes or fills a directory, and a      *)
(* resolve that is over, however it went, keeps neither the lock nor, as  *)
(* long as no disk has failed, its temporary directory (s3.py:77, 132-134:*)
(* a removal that fails is ignored).                                      *)
OneWriterAndNoLitter ==
  /\ \A v \in Revisions, r \in Replicas :
       lock[v] = r <=> pc[r] \in Locked /\ want[r] = v
  /\ ~faulted => \A r \in Replicas : temp[r] # Missing => pc[r] \in {"filling", "marking"}

(* Every resolve ends, in a path or an error, and with it its lock, even  *)
(* while other replicas die holding one.                                  *)
ResolveEnds == \A r \in Replicas : pc[r] \in Resolving ~> pc[r] \notin Resolving

(* The directory a replica was given stays whole until it has loaded the  *)
(* model, though it holds no lock meanwhile: no other replica's restart,  *)
(* crash or new revision disturbs it, as long as no disk has failed.      *)
InUseStaysWhole == ~faulted => \A r \in Replicas : pc[r] \in Using => Whole(want[r])

-----------------------------------------------------------------------------
(* Refuted claims.                                                        *)

(* upload_model.py:29, "Upload the manifest last so readers never observe *)
(* an incomplete revision as publishable": a second upload to the prefix  *)
(* replaces artifacts under the first one's manifest.                     *)
ManifestMeansComplete ==
  published # Nobody => \A f \in Files : bucket[f] = published
=============================================================================

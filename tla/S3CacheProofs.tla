---------------------------- MODULE S3CacheProofs ---------------------------
(***************************************************************************)
(* Proofs about S3Cache: the directories are never blended, one replica    *)
(* writes each, and without disk faults the directory a replica uses stays *)
(* whole, for any number of replicas, revisions and artifacts.  And about  *)
(* ManifestRules, by which what is whole is judged: what one part lets     *)
(* through the next one accepts.                                           *)
(***************************************************************************)
EXTENDS S3Cache, ManifestRules, TLAPS

Busy == {"removing", "filling", "marking"}

(* A replica that resolves or uses a path knows its revision, and its     *)
(* temporary directory holds nothing else; one that is not filling has    *)
(* such a directory only if it failed.                                    *)
TempInv ==
  /\ \A r \in Replicas : pc[r] \in Resolving \cup Using => want[r] \in Revisions
  /\ \A r \in Replicas, n \in Names : temp[r][n] \in {"absent", want[r]}
  /\ \A r \in Replicas : temp[r] # Missing => pc[r] \in {"filling", "marking", "failed"}
  /\ \A r \in Replicas : pc[r] = "marking" => \A n \in Names : temp[r][n] = want[r]
  /\ \A r \in Replicas : pc[r] = "filling" => temp[r]["manifest"] = want[r]

(* Without faults nobody rebuilds a directory that is whole, so that the  *)
(* directory of a replica that uses it is nobody's to rebuild.            *)
UseInv == ~faulted =>
  /\ \A r \in Replicas : pc[r] \in Using => Whole(want[r])
  /\ \A r \in Replicas : pc[r] \in Busy => ~Whole(want[r])

IInv == TypeOK /\ NeverBlended /\ OneWriterAndNoLitter /\ TempInv /\ UseInv

(* An empty bucket and an empty cache.                                    *)
LEMMA InitInv == Init => IInv
<1> USE S3CacheAssumption DEF Init
<1>0. Missing \in [Names -> Contents]
  BY DEF Missing, Contents
<1>1. Init => TypeOK
  BY <1>0 DEF TypeOK, Resolving, Locked, Using
<1>2. Init => NeverBlended
  BY DEF NeverBlended, Missing
<1>3. Init => OneWriterAndNoLitter
  BY DEF OneWriterAndNoLitter, Locked
<1>4. Init => TempInv /\ UseInv
  BY DEF TempInv, UseInv, Missing, Locked, Resolving, Using, Busy
<1> QED BY <1>1, <1>2, <1>3, <1>4 DEF IInv

(* Uploads leave the replicas and their directories alone.                *)
LEMMA UploadPreserves ==
  ASSUME IInv, Upload
  PROVE  IInv'
<1>1. UNCHANGED <<target, lock, pc, want, temp, faulted>>
  BY DEF Upload, StartUpload, UploadFile, UploadManifest, UploadAborts
<1>2. NeverBlended' /\ OneWriterAndNoLitter' /\ TempInv' /\ UseInv'
  BY <1>1 DEF IInv, NeverBlended, OneWriterAndNoLitter, TempInv, UseInv, Whole
<1>3. /\ bucket' \in [Files -> Revisions \cup {Nobody}]
      /\ published' \in Revisions \cup {Nobody} /\ upload' \in Revisions \cup {Nobody}
      /\ left' \subseteq Files
  BY DEF IInv, TypeOK, Upload, StartUpload, UploadFile, UploadManifest, UploadAborts
<1>4. TypeOK'
  BY <1>1, <1>3 DEF IInv, TypeOK
<1> QED BY <1>2, <1>4 DEF IInv

(* resolve, one step per action.                                          *)
LEMMA ResolvePreserves ==
  ASSUME IInv, NEW r \in Replicas, Resolve(r)
  PROVE  IInv'
<1> USE S3CacheAssumption DEF IInv, TypeOK, TempInv, Resolving, Locked, Using, Goto, Unlock,
                              remote
<1>1. CASE TakeLock(r)
  <2>1. TypeOK'
    BY <1>1 DEF TakeLock, Contents, Missing, Names, Unsynced
  <2>2. NeverBlended'
    BY <1>1 DEF TakeLock, NeverBlended
  <2>3. OneWriterAndNoLitter'
    BY <1>1 DEF TakeLock, OneWriterAndNoLitter
  <2>4. TempInv'
    BY <1>1 DEF TakeLock, OneWriterAndNoLitter
  <2>5. UseInv'
    BY <1>1 DEF TakeLock, OneWriterAndNoLitter, UseInv, Missing, Names, Unsynced, Busy, Whole
  <2> QED BY <2>1, <2>2, <2>3, <2>4, <2>5
<1>2. CASE LockTimeout(r)
  <2>1. TypeOK'
    BY <1>2 DEF LockTimeout, Contents, Missing, Names, Unsynced
  <2>2. NeverBlended'
    BY <1>2 DEF LockTimeout, NeverBlended
  <2>3. OneWriterAndNoLitter'
    BY <1>2 DEF LockTimeout, OneWriterAndNoLitter
  <2>4. TempInv'
    BY <1>2 DEF LockTimeout, OneWriterAndNoLitter
  <2>5. UseInv'
    BY <1>2 DEF LockTimeout, OneWriterAndNoLitter, UseInv, Missing, Names, Unsynced, Busy, Whole
  <2> QED BY <2>1, <2>2, <2>3, <2>4, <2>5
<1>3. CASE Hit(r)
  <2>1. TypeOK'
    BY <1>3 DEF Hit, Contents, Missing, Names, Unsynced
  <2>2. NeverBlended'
    BY <1>3 DEF Hit, NeverBlended
  <2>3. OneWriterAndNoLitter'
    BY <1>3 DEF Hit, OneWriterAndNoLitter
  <2>4. TempInv'
    BY <1>3 DEF Hit, OneWriterAndNoLitter
  <2>5. UseInv'
    BY <1>3 DEF Hit, OneWriterAndNoLitter, UseInv, Missing, Names, Unsynced, Busy, Whole
  <2> QED BY <2>1, <2>2, <2>3, <2>4, <2>5
<1>4. CASE Miss(r)
  <2>0. faulted' \in BOOLEAN
    BY <1>4 DEF Miss
  <2>1. TypeOK'
    BY <1>4, <2>0 DEF Miss, Contents, Missing, Names, Unsynced
  <2>2. NeverBlended'
    BY <1>4 DEF Miss, NeverBlended
  <2>3. OneWriterAndNoLitter'
    BY <1>4 DEF Miss, OneWriterAndNoLitter
  <2>4. TempInv'
    BY <1>4 DEF Miss, OneWriterAndNoLitter
  <2>5. UseInv'
    <3>1. ~faulted' => ~faulted /\ ~Whole(want[r])
      BY <1>4 DEF Miss
    <3> QED BY <1>4, <3>1 DEF Miss, OneWriterAndNoLitter, UseInv, Busy, Whole
  <2> QED BY <2>1, <2>2, <2>3, <2>4, <2>5
<1>5. CASE RemoveEntry(r)
  <2>0. PICK n \in Names : target' = [target EXCEPT ![want[r]][n] = "absent"]
    BY <1>5 DEF RemoveEntry
  <2>a. want[r] \in Revisions /\ [target[want[r]] EXCEPT ![n] = "absent"] \in [Names -> Contents]
    BY <1>5 DEF RemoveEntry, Contents
  <2>1. TypeOK'
    BY <1>5, <2>0, <2>a DEF RemoveEntry, Contents, Missing, Names, Unsynced
  <2>2. NeverBlended'
    BY <1>5 DEF RemoveEntry, NeverBlended
  <2>3. OneWriterAndNoLitter'
    BY <1>5 DEF RemoveEntry, OneWriterAndNoLitter
  <2>4. TempInv'
    BY <1>5 DEF RemoveEntry, OneWriterAndNoLitter
  <2>5. UseInv'
    BY <1>5 DEF RemoveEntry, OneWriterAndNoLitter, UseInv, Missing, Names, Unsynced, Busy, Whole
  <2> QED BY <2>1, <2>2, <2>3, <2>4, <2>5
<1>6. CASE RemoveFails(r)
  <2>1. TypeOK'
    BY <1>6 DEF RemoveFails, Contents, Missing, Names, Unsynced
  <2>2. NeverBlended'
    BY <1>6 DEF RemoveFails, NeverBlended
  <2>3. OneWriterAndNoLitter'
    BY <1>6 DEF RemoveFails, OneWriterAndNoLitter
  <2>4. TempInv'
    BY <1>6 DEF RemoveFails, OneWriterAndNoLitter
  <2>5. UseInv'
    BY <1>6 DEF RemoveFails, OneWriterAndNoLitter, UseInv, Missing, Names, Unsynced, Busy, Whole
  <2> QED BY <2>1, <2>2, <2>3, <2>4, <2>5
<1>7. CASE StartFilling(r)
  <2>1. TypeOK'
    BY <1>7 DEF StartFilling, Contents, Missing, Names, Unsynced
  <2>2. NeverBlended'
    BY <1>7 DEF StartFilling, NeverBlended
  <2>3. OneWriterAndNoLitter'
    BY <1>7 DEF StartFilling, OneWriterAndNoLitter
  <2>4. TempInv'
    BY <1>7 DEF StartFilling, OneWriterAndNoLitter, Missing, Names, Unsynced
  <2>5. UseInv'
    BY <1>7 DEF StartFilling, OneWriterAndNoLitter, UseInv, Missing, Names, Unsynced, Busy, Whole
  <2> QED BY <2>1, <2>2, <2>3, <2>4, <2>5
<1>8. CASE Fetch(r)
  <2>0. PICK f \in Files : bucket[f] = want[r] /\ temp' = [temp EXCEPT ![r][f] = bucket[f]]
    BY <1>8 DEF Fetch
  <2>a. want[r] \in Revisions /\ [temp[r] EXCEPT ![f] = bucket[f]] \in [Names -> Contents]
    BY <1>8, <2>0 DEF Fetch, Contents
  <2>1. TypeOK'
    BY <1>8, <2>0, <2>a DEF Fetch, Contents, Missing, Names, Unsynced
  <2>2. NeverBlended'
    BY <1>8 DEF Fetch, NeverBlended
  <2>3. OneWriterAndNoLitter'
    BY <1>8 DEF Fetch, OneWriterAndNoLitter
  <2>4. TempInv'
    BY <1>8 DEF Fetch, OneWriterAndNoLitter, Missing, Names, Unsynced
  <2>5. UseInv'
    BY <1>8 DEF Fetch, OneWriterAndNoLitter, UseInv, Missing, Names, Unsynced, Busy, Whole
  <2> QED BY <2>1, <2>2, <2>3, <2>4, <2>5
<1>9. CASE Mark(r)
  <2>1. TypeOK'
    BY <1>9 DEF Mark, Contents, Missing, Names, Unsynced
  <2>2. NeverBlended'
    BY <1>9 DEF Mark, NeverBlended
  <2>3. OneWriterAndNoLitter'
    BY <1>9 DEF Mark, OneWriterAndNoLitter
  <2>4. TempInv'
    BY <1>9 DEF Mark, OneWriterAndNoLitter, Missing, Names, Unsynced
  <2>5. UseInv'
    BY <1>9 DEF Mark, OneWriterAndNoLitter, UseInv, Missing, Names, Unsynced, Busy, Whole
  <2> QED BY <2>1, <2>2, <2>3, <2>4, <2>5
<1>10. CASE Publish(r)
  <2>1. TypeOK'
    BY <1>10 DEF Publish, Contents, Missing, Names, Unsynced
  <2>2. NeverBlended'
    BY <1>10 DEF Publish, NeverBlended
  <2>3. OneWriterAndNoLitter'
    BY <1>10 DEF Publish, OneWriterAndNoLitter
  <2>4. TempInv'
    BY <1>10 DEF Publish, OneWriterAndNoLitter, Missing, Names, Unsynced
  <2>5. UseInv'
    BY <1>10 DEF Publish, OneWriterAndNoLitter, UseInv, Missing, Names, Unsynced, Busy, Whole
  <2> QED BY <2>1, <2>2, <2>3, <2>4, <2>5
<1>11. CASE Abandon(r)
  <2> DEFINE rest == [Missing EXCEPT !["manifest"] = want[r]]
  <2>0. /\ pc[r] \in {"filling", "marking"} /\ pc' = [pc EXCEPT ![r] = "failed"]
        /\ lock' = [lock EXCEPT ![want[r]] = Nobody] /\ UNCHANGED <<remote, target, want>>
    BY <1>11 DEF Abandon
  <2>a. PICK litter \in {Missing, rest} :
          /\ temp' = [temp EXCEPT ![r] = litter]
          /\ faulted' = TRUE \/ (litter = Missing /\ faulted' = faulted)
    BY <1>11 DEF Abandon
  <2>b. /\ litter \in [Names -> Contents] /\ want[r] \in Revisions
        /\ \A n \in Names : litter[n] \in {"absent", want[r]}
    BY <2>0 DEF Contents, Missing, Names, Unsynced
  <2> HIDE DEF rest
  <2>1. TypeOK'
    BY <2>0, <2>a, <2>b
  <2>2. NeverBlended'
    BY <2>0 DEF NeverBlended
  <2>3. OneWriterAndNoLitter'
    BY <2>0, <2>a, <2>b DEF OneWriterAndNoLitter
  <2>4. TempInv'
    BY <2>0, <2>a, <2>b
  <2>5. UseInv'
    BY <2>0, <2>a DEF UseInv, Busy, Whole
  <2> QED BY <2>1, <2>2, <2>3, <2>4, <2>5
<1> QED BY <1>1, <1>2, <1>3, <1>4, <1>5, <1>6, <1>7, <1>8, <1>9, <1>10, <1>11 DEF Resolve

(* What a replica does before and after resolve, and how it may end.      *)
LEMMA OtherPreserves ==
  ASSUME IInv
  PROVE  /\ \A r \in Replicas : GetManifest(r) \/ Validate(r) \/ Load(r) \/ Kill(r) => IInv'
         /\ PowerLoss => IInv'
<1> USE S3CacheAssumption DEF IInv, TypeOK, TempInv, Resolving, Locked, Using, Goto, Unlock,
                              remote
<1>1. ASSUME NEW r \in Replicas, GetManifest(r) PROVE IInv'
  <2>1. CASE published = Nobody
    <3>1. pc' = [pc EXCEPT ![r] = "failed"] /\ UNCHANGED <<remote, target, lock, want, temp, faulted>>
      BY <1>1, <2>1 DEF GetManifest
    <3>2. TypeOK' /\ NeverBlended'
      BY <3>1 DEF NeverBlended
    <3>3. OneWriterAndNoLitter' /\ TempInv'
      BY <1>1, <3>1 DEF GetManifest, OneWriterAndNoLitter
    <3>4. UseInv'
      BY <3>1 DEF UseInv, Whole, Busy
    <3> QED BY <3>2, <3>3, <3>4
  <2>2. CASE published # Nobody
    <3>1. /\ pc' = [pc EXCEPT ![r] = "locking"] /\ want' = [want EXCEPT ![r] = published]
          /\ published \in Revisions /\ UNCHANGED <<remote, target, lock, temp, faulted>>
      BY <1>1, <2>2 DEF GetManifest
    <3>2. temp[r] = Missing
      BY <1>1 DEF GetManifest
    <3>3. TypeOK' /\ NeverBlended'
      BY <3>1 DEF NeverBlended
    <3>4. OneWriterAndNoLitter'
      BY <1>1, <3>1 DEF GetManifest, OneWriterAndNoLitter
    <3>5. TempInv'
      BY <3>1, <3>2 DEF Missing
    <3>6. UseInv'
      BY <3>1 DEF UseInv, Whole, Busy
    <3> QED BY <3>3, <3>4, <3>5, <3>6
  <2> QED BY <2>1, <2>2
<1>2. ASSUME NEW r \in Replicas, Validate(r) PROVE IInv'
  <2>0. \E to \in {"loading", "failed"} : pc' = [pc EXCEPT ![r] = to]
    BY <1>2 DEF Validate
  <2>1. TypeOK'
    BY <1>2, <2>0 DEF Validate, Contents, Missing, Names, Unsynced
  <2>2. NeverBlended'
    BY <1>2 DEF Validate, NeverBlended
  <2>3. OneWriterAndNoLitter'
    BY <1>2, <2>0 DEF Validate, OneWriterAndNoLitter
  <2>4. TempInv'
    BY <1>2, <2>0 DEF Validate
  <2>5. UseInv'
    <3>1. pc'[r] = "loading" => Whole(want[r])
      BY <1>2 DEF Validate
    <3>2. UNCHANGED <<target, want, faulted>>
      BY <1>2 DEF Validate
    <3> QED BY <2>0, <3>1, <3>2 DEF UseInv, Busy, Whole
  <2> QED BY <2>1, <2>2, <2>3, <2>4, <2>5
<1>3. ASSUME NEW r \in Replicas, Load(r) PROVE IInv'
  <2>1. TypeOK'
    <3>1. PICK to \in {"loaded", "failed"} : pc' = [pc EXCEPT ![r] = to]
      BY <1>3 DEF Load
    <3>2. pc' \in [Replicas -> Resolving \cup Using \cup {"idle", "loaded", "failed"}]
      BY ONLY <3>1, TypeOK
    <3>3. UNCHANGED <<remote, target, lock, want, temp, faulted>>
      BY <1>3 DEF Load
    <3> QED BY ONLY <3>2, <3>3, TypeOK, Zenon
  <2>2. NeverBlended'
    BY <1>3 DEF Load, NeverBlended
  <2>3. OneWriterAndNoLitter'
    BY <1>3 DEF Load, OneWriterAndNoLitter
  <2>4. TempInv'
    BY <1>3 DEF Load, OneWriterAndNoLitter
  <2>5. UseInv'
    BY <1>3 DEF Load, OneWriterAndNoLitter, UseInv, Missing, Names, Unsynced, Busy, Whole
  <2> QED BY <2>1, <2>2, <2>3, <2>4, <2>5
<1>4. ASSUME NEW r \in Replicas, Kill(r) PROVE IInv'
  <2>1. TypeOK'
    BY <1>4 DEF Kill, Contents, Missing, Names, Unsynced
  <2>2. NeverBlended'
    BY <1>4 DEF Kill, NeverBlended
  <2>3. OneWriterAndNoLitter'
    BY <1>4 DEF Kill, OneWriterAndNoLitter
  <2>4. TempInv'
    BY <1>4 DEF Kill, OneWriterAndNoLitter, Missing, Names, Unsynced
  <2>5. UseInv'
    BY <1>4 DEF Kill, OneWriterAndNoLitter, UseInv, Missing, Names, Unsynced, Busy, Whole
  <2> QED BY <2>1, <2>2, <2>3, <2>4, <2>5
<1>5. ASSUME PowerLoss PROVE IInv'
  <2>1. TypeOK'
    BY <1>5 DEF PowerLoss, Contents, Missing, Names, Unsynced
  <2>2. NeverBlended'
    BY <1>5 DEF PowerLoss, NeverBlended
  <2>3. OneWriterAndNoLitter'
    BY <1>5 DEF PowerLoss, OneWriterAndNoLitter
  <2>4. TempInv'
    BY <1>5 DEF PowerLoss, OneWriterAndNoLitter, Missing, Names, Unsynced
  <2>5. UseInv'
    BY <1>5 DEF PowerLoss, OneWriterAndNoLitter, UseInv, Missing, Names, Unsynced, Busy, Whole
  <2> QED BY <2>1, <2>2, <2>3, <2>4, <2>5
<1> QED BY <1>1, <1>2, <1>3, <1>4, <1>5

(* The inductive invariant, whose parts the theorems below cite.          *)
THEOREM Invariance == Spec => []IInv
<1>1. ASSUME IInv, UNCHANGED vars PROVE IInv'
  BY <1>1 DEF vars, IInv, TypeOK, NeverBlended, OneWriterAndNoLitter, TempInv, UseInv,
              Whole
<1>2. ASSUME IInv, [Next]_vars PROVE IInv'
  BY <1>1, <1>2, UploadPreserves, ResolvePreserves, OtherPreserves DEF Next
<1> QED BY <1>2, InitInv, PTL DEF Spec

(* The types, for any number of replicas, revisions and artifacts.        *)
THEOREM TypeCorrect == Spec => []TypeOK
<1>1. IInv => TypeOK
  BY DEF IInv
<1> QED BY <1>1, Invariance, PTL

(* However often the prefix is re-uploaded during downloads, and whatever *)
(* fails, a cache directory holds bytes of its own revision only.         *)
THEOREM RevisionsAreNotBlended == Spec => []NeverBlended
<1>1. IInv => NeverBlended
  BY DEF IInv
<1> QED BY <1>1, Invariance, PTL

(* The lock protects every directory and every way out of resolve gives   *)
(* it back; until a disk fails none leaves a temporary directory either,  *)
(* but that of a process which is killed.                                 *)
THEOREM WritersAreAlone == Spec => []OneWriterAndNoLitter
<1>1. IInv => OneWriterAndNoLitter
  BY DEF IInv
<1> QED BY <1>1, Invariance, PTL

(* As long as no disk has failed a replica's directory stays whole until  *)
(* it has loaded, although it holds no lock on it.                        *)
THEOREM InUseIsWhole == Spec => []InUseStaysWhole
<1>1. IInv => InUseStaysWhole
  BY DEF IInv, UseInv, InUseStaysWhole
<1> QED BY <1>1, Invariance, PTL

(* What resolve returns is whole, whatever it found in the cache.         *)
THEOREM ResolvesToWhole == Spec => ResolvedIsWhole
<1> DEFINE A == \A r \in Replicas :
                  pc[r] # "resolved" /\ pc'[r] = "resolved" => Whole(want[r])'
<1>1. ASSUME IInv, [Next]_vars PROVE [A]_vars
  <2> SUFFICES ASSUME NEW r \in Replicas, Next, pc[r] # "resolved", pc'[r] = "resolved"
               PROVE  Whole(want[r])'
    BY <1>1 DEF vars
  <2>1. Hit(r) \/ Publish(r)
    <3>1. PICK s \in Replicas : GetManifest(s) \/ Resolve(s) \/ Validate(s) \/ Load(s) \/ Kill(s)
      BY DEF Next, Upload, StartUpload, UploadFile, UploadManifest, UploadAborts, PowerLoss
    <3>2. s = r
      BY <1>1, <3>1 DEF IInv, TypeOK, GetManifest, Resolve, TakeLock, LockTimeout, Hit, Miss,
           RemoveEntry, RemoveFails, StartFilling, Fetch, Mark, Publish, Abandon, Validate,
           Load, Kill, Goto
    <3> QED BY <1>1, <3>1, <3>2 DEF IInv, TypeOK, GetManifest, Resolve, TakeLock, LockTimeout,
           Miss, RemoveEntry, RemoveFails, StartFilling, Fetch, Mark, Abandon, Validate,
           Load, Kill, Goto
  <2>2. CASE Hit(r)
    BY <2>2 DEF Hit, Whole
  <2>3. CASE Publish(r)
    BY <1>1, <2>3 DEF Publish, Whole, IInv, TypeOK, TempInv, Resolving, Locked
  <2> QED BY <2>1, <2>2, <2>3
<1> QED BY <1>1, Invariance, PTL DEF Spec, ResolvedIsWhole

-----------------------------------------------------------------------------
(* What build_model_manifest.py makes of a directory, the service accepts, *)
(* strictly or not, if no weight file spells its suffix in capitals: the   *)
(* manifest counts weights by their exact suffix (manifest.py:88-89, 148), *)
(* validation rejects the other format's in any case (validation.py:51).   *)
THEOREM BuiltIsValid ==
  ASSUME NEW d, NEW wanted, NEW m, NEW strict \in BOOLEAN, NameLaws,
         Builds(d, wanted, m),
         \A p \in Listed(d) : \A f \in Formats :
           Lower(Suffix(p)) = WeightSuffix[f] => Suffix(p) = WeightSuffix[f]
  PROVE  Validates(d, m, strict)
<1>1. Accepted(m) /\ NoSymlinks(d) BY DEF Builds
<1>2. Counted(d) \subseteq Listed(d) /\ Paths(m) = Listed(d)
  BY DEF Builds, Counted, Listed
<1>3. \A p \in Counted(d) : Lower(Suffix(p)) \notin UNSAFE_SUFFIXES
  BY <1>2 DEF Builds, SafePath
<1>4. ASSUME NEW p \in Counted(d),
             Lower(Suffix(p)) = WeightSuffix[OtherFormat[m.model_format]]
      PROVE  FALSE
  <2> DEFINE other == OtherFormat[m.model_format]
  <2>1. other \in Formats /\ WeightSuffix[other] \in ALLOWED_SUFFIXES
    BY <1>1 DEF Accepted, Formats, OtherFormat, WeightSuffix, ALLOWED_SUFFIXES
  <2>2. Suffix(p) = WeightSuffix[other] BY <1>2, <1>4, <2>1
  <2>3. Ends(p, WeightSuffix[other]) BY <2>1, <2>2 DEF NameLaws
  <2>4. p \in Weights(Paths(m), other) BY <1>2, <2>3 DEF Weights
  <2> QED BY <1>1, <2>4 DEF Accepted, RequiredFiles
<1>5. \A i \in DOMAIN m.files :
        /\ m.files[i].path \in DOMAIN d.files
        /\ Matches(m.files[i], d.files[m.files[i].path])
  BY <1>2 DEF Builds, Listed, Paths
<1> QED BY <1>1, <1>2, <1>3, <1>4, <1>5 DEF Validates

-----------------------------------------------------------------------------
(* What upload_model.py has checked, every replica accepts: if the objects *)
(* are the files of a directory that validates strictly, each download     *)
(* passes its check and the filled directory validates, strictly or not    *)
(* (upload_model.py:21, s3.py:102-127), whatever else the uploader's       *)
(* directory holds that validation does not count.                         *)
THEOREM UploadedIsResolved ==
  ASSUME NEW d, NEW m, NEW dirs, NEW strict \in BOOLEAN, Validates(d, m, TRUE)
  PROVE  /\ Downloads(d.files, m)
         /\ Validates(Filled(d.files, m, dirs), m, strict)
<1> DEFINE t == Filled(d.files, m, dirs)
<1>1. /\ t.links = {} /\ DOMAIN t.files = Paths(m)
      /\ \A p \in Paths(m) : t.files[p] = d.files[p]
  BY DEF Filled
<1> HIDE DEF t
<1>2. Paths(m) \subseteq DOMAIN d.files BY DEF Validates, Paths
<1>3. Counted(t) \subseteq Counted(d) /\ Counted(t) \subseteq Paths(m)
  BY <1>1, <1>2 DEF Counted
<1>4. \A i \in DOMAIN m.files :
        m.files[i].path \in Paths(m) /\ Matches(m.files[i], d.files[m.files[i].path])
  BY DEF Validates, Paths
<1>5. Validates(t, m, strict)
  <2>1. NoSymlinks(t) /\ Accepted(m) BY <1>1 DEF Validates, NoSymlinks
  <2>2. \A p \in Counted(t) :
          /\ Lower(Suffix(p)) \notin UNSAFE_SUFFIXES
          /\ Lower(Suffix(p)) # WeightSuffix[OtherFormat[m.model_format]]
    BY <1>3 DEF Validates
  <2>3. \A i \in DOMAIN m.files :
          /\ m.files[i].path \in DOMAIN t.files
          /\ Matches(m.files[i], t.files[m.files[i].path])
    BY <1>1, <1>4
  <2> QED BY <1>3, <2>1, <2>2, <2>3 DEF Validates
<1> QED BY <1>4, <1>5 DEF Downloads, t

(* A directory that resolve has validated and marked is a hit for the next *)
(* one: the marker is no artifact, and no manifest can declare one that it *)
(* would overwrite (s3.py:79-85, 127-128; validation.py:47).               *)
THEOREM MarkedIsHit ==
  ASSUME NEW d, NEW m, NEW text, NEW strict \in BOOLEAN, NameLaws,
         Validates(d, m, strict)
  PROVE  Validates(Marked(d, text), m, strict)
<1> DEFINE t == Marked(d, text)
<1>1. /\ t.links = d.links
      /\ DOMAIN t.files = DOMAIN d.files \cup {".complete"}
      /\ \A p \in DOMAIN d.files : p # ".complete" => t.files[p] = d.files[p]
  BY DEF Marked
<1> HIDE DEF t
<1>2. Counted(t) = Counted(d) BY <1>1 DEF Counted, NameLaws
<1>3. ".complete" \notin Paths(m)
  <2>1. Lower(Suffix(".complete")) = "" BY DEF NameLaws
  <2>2. "" \notin ALLOWED_SUFFIXES BY DEF ALLOWED_SUFFIXES
  <2> QED BY <2>1, <2>2 DEF Validates, Accepted, SafePath
<1>4. \A i \in DOMAIN m.files :
        /\ m.files[i].path \in DOMAIN t.files
        /\ Matches(m.files[i], t.files[m.files[i].path])
  BY <1>1, <1>3 DEF Validates, Paths
<1> QED BY <1>1, <1>2, <1>4 DEF Validates, NoSymlinks, t

-----------------------------------------------------------------------------
(* The llama.cpp engine serves only the file that the manifest declares    *)
(* and whose digest was verified, also where validation lets files pass    *)
(* that the manifest does not list (llama_cpp.py:229-234; SECURITY.md:15). *)
THEOREM TakenIsVerified ==
  ASSUME NEW d, NEW m, NEW p, NEW strict \in BOOLEAN,
         Validates(d, m, strict), Takes(d, m, p)
  PROVE  \E i \in DOMAIN m.files :
           m.files[i].path = p /\ Matches(m.files[i], d.files[p])
<1>1. PICK q : Weights(Paths(m), "gguf") = {q}
  BY DEF Takes, Validates, Accepted, RequiredFiles
<1>2. q \in Paths(m) /\ Ends(q, ".gguf") BY <1>1 DEF Weights, WeightSuffix
<1>3. PICK i \in DOMAIN m.files : m.files[i].path = q BY <1>2 DEF Paths
<1>4. q \in DOMAIN d.files /\ Matches(m.files[i], d.files[q])
  BY <1>3 DEF Validates
<1>5. q = p BY <1>2, <1>4 DEF Takes
<1> QED BY <1>3, <1>4, <1>5
=============================================================================

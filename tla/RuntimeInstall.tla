--------------------------- MODULE RuntimeInstall ---------------------------
(***************************************************************************)
(* scripts/download_llama_runtime.py: runs that install the llama.cpp      *)
(* runtime into one destination directory, one after another or at once.   *)
(*                                                                         *)
(* A run downloads and unpacks into a temporary directory beside the       *)
(* destination, then renames twice: the destination into the temporary     *)
(* directory, the new runtime to the destination.  It may fail or be       *)
(* interrupted (the temporary directory is then removed, with what is in   *)
(* it), be killed or lose its power (it then stays, for nobody to find).   *)
(***************************************************************************)
CONSTANT Installers

VARIABLES
  dest,      \* what the destination holds
  archive,   \* the archive each run has downloaded
  staging,   \* its staging directory
  previous,  \* the directory it has set aside
  pc,        \* where it is
  strayed,   \* a killed run had set a runtime aside: it is still on the disk
  owed       \* history: a runtime has been at the destination since the last mishap

vars == <<dest, archive, staging, previous, pc, strayed, owed>>

(* A "runtime" is whole: found there, or verified by a run.               *)
Directories == {"none", "empty", "foreign", "runtime", "partial", "wrong", "torn"}
Renaming == {"aside", "swapping", "restoring"}
Working == {"downloading", "checking", "extracting", "verifying", "staged", "moving"}
Leaving == {"cleaning", "failing"}
Over == {"idle", "done", "failed"}

Init ==
  /\ dest \in {"none", "empty", "foreign", "runtime"}
  /\ archive = [i \in Installers |-> "none"]
  /\ staging = [i \in Installers |-> "none"]
  /\ previous = [i \in Installers |-> "none"]
  /\ pc = [i \in Installers |-> "idle"]
  /\ strayed = FALSE /\ owed = (dest = "runtime")

Goto(i, to) == pc' = [pc EXCEPT ![i] = to]
Occupied == dest \notin {"none", "empty"}  \* os.replace onto it raises ENOTEMPTY

(* The run has yet to put back, or to give up, the runtime it set aside.  *)
SetAsideIn(i) == pc[i] \in Renaming /\ previous[i] = "runtime"

-----------------------------------------------------------------------------
(* Up to the verified runtime in the staging directory.                   *)

Start(i) ==  \* a directory without an executable is refused
  /\ pc[i] \in Over
  /\ Goto(i, IF dest \in {"foreign", "partial"} THEN "failed" ELSE "downloading")
  /\ UNCHANGED <<dest, archive, staging, previous, strayed, owed>>

Download(i) ==
  /\ pc[i] = "downloading" /\ Goto(i, "checking")
  /\ \E bytes \in {"good", "wrong"} : archive' = [archive EXCEPT ![i] = bytes]
  /\ UNCHANGED <<dest, staging, previous, strayed, owed>>

(* Defect: a matching size will do.                                       *)
CheckArchiveSize(i) ==
  /\ pc[i] = "checking" /\ Goto(i, "extracting")
  /\ UNCHANGED <<dest, archive, staging, previous, strayed, owed>>

CheckArchive(i) ==  \* size and SHA-256
  /\ pc[i] = "checking"
  /\ Goto(i, IF archive[i] = "good" THEN "extracting" ELSE "failing")
  /\ UNCHANGED <<dest, archive, staging, previous, strayed, owed>>

Extract(i) ==  \* file by file, here in two steps
  /\ pc[i] = "extracting"
  /\ \/ /\ staging[i] = "none" /\ UNCHANGED pc
        /\ staging' = [staging EXCEPT ![i] = "partial"]
     \/ /\ staging[i] = "partial" /\ Goto(i, "verifying")
        /\ staging' = [staging EXCEPT ![i] = IF archive[i] = "good" THEN "runtime" ELSE "wrong"]
  /\ UNCHANGED <<dest, archive, previous, strayed, owed>>

Verify(i) ==  \* it runs and names its build
  /\ pc[i] = "verifying" /\ Goto(i, "staged")
  /\ UNCHANGED <<dest, archive, staging, previous, strayed, owed>>

-----------------------------------------------------------------------------
(* The two renames.                                                       *)

(* Defect: an earlier runtime is not set aside but removed.               *)
LookAndRemove(i) ==
  /\ pc[i] = "staged" /\ Goto(i, "swapping")
  /\ dest' = IF dest = "none" THEN dest ELSE "none"
  /\ UNCHANGED <<archive, staging, previous, strayed, owed>>

Look(i) ==
  /\ pc[i] = "staged" /\ Goto(i, IF dest = "none" THEN "swapping" ELSE "moving")
  /\ UNCHANGED <<dest, archive, staging, previous, strayed, owed>>

SetAside(i) ==
  /\ pc[i] = "moving"
  /\ IF dest = "none"  \* another run took it: FileNotFoundError
     THEN Goto(i, "failing") /\ UNCHANGED <<dest, previous>>
     ELSE /\ Goto(i, "aside")
          /\ previous' = [previous EXCEPT ![i] = dest] /\ dest' = "none"
  /\ UNCHANGED <<archive, staging, strayed, owed>>

EnterTry(i) ==
  /\ pc[i] = "aside" /\ Goto(i, "swapping")
  /\ UNCHANGED <<dest, archive, staging, previous, strayed, owed>>

(* An interrupt may come after the rename and yet inside the try block.   *)
Swap(i) ==
  /\ pc[i] = "swapping" /\ ~Occupied
  /\ \E to \in {"cleaning", "restoring"} : Goto(i, to)
  /\ dest' = staging[i] /\ staging' = [staging EXCEPT ![i] = "none"]
  /\ owed' = (owed \/ staging[i] = "runtime")
  /\ UNCHANGED <<archive, previous, strayed>>

SwapFails(i) ==
  /\ pc[i] = "swapping" /\ Goto(i, "restoring")
  /\ UNCHANGED <<dest, archive, staging, previous, strayed, owed>>

Restore(i) ==
  /\ pc[i] = "restoring" /\ ~(previous[i] # "none" /\ Occupied)
  /\ Goto(i, "failing")
  /\ IF previous[i] = "none" THEN UNCHANGED <<dest, previous>>
     ELSE dest' = previous[i] /\ previous' = [previous EXCEPT ![i] = "none"]
  /\ UNCHANGED <<archive, staging, strayed, owed>>

RestoreFails(i) ==  \* or another run has come in between
  /\ pc[i] = "restoring" /\ previous[i] # "none" /\ Goto(i, "failing")
  /\ owed' = (owed /\ (dest = "runtime" \/ previous[i] # "runtime"))
  /\ UNCHANGED <<dest, archive, staging, previous, strayed>>

-----------------------------------------------------------------------------
(* The ends of a run.                                                     *)

Fails(i) ==  \* an error or an interrupt, up to the first rename
  /\ pc[i] \in Working /\ Goto(i, "failing")
  /\ UNCHANGED <<dest, archive, staging, previous, strayed, owed>>

(* A KeyboardInterrupt raised as os.replace returns, before the try.      *)
InterruptedAside(i) ==
  /\ pc[i] = "aside"
  /\ Goto(i, "failing") /\ owed' = (owed /\ previous[i] # "runtime")
  /\ UNCHANGED <<dest, archive, staging, previous, strayed>>

(* An error in removing the temporary directory fails the run.            *)
CleanUp(i) ==
  /\ pc[i] \in Leaving
  /\ \/ Goto(i, "failed")
     \/ pc[i] = "cleaning" /\ Goto(i, "done")
  /\ archive' = [archive EXCEPT ![i] = "none"]
  /\ staging' = [staging EXCEPT ![i] = "none"]
  /\ previous' = [previous EXCEPT ![i] = "none"]
  /\ UNCHANGED <<dest, strayed, owed>>

Abandoned(R) ==  \* the temporary directories of the runs R are nobody's now
  /\ pc' = [i \in Installers |-> IF i \in R THEN "idle" ELSE pc[i]]
  /\ archive' = [i \in Installers |-> IF i \in R THEN "none" ELSE archive[i]]
  /\ staging' = [i \in Installers |-> IF i \in R THEN "none" ELSE staging[i]]
  /\ previous' = [i \in Installers |-> IF i \in R THEN "none" ELSE previous[i]]
  /\ strayed' = (strayed \/ \E i \in R : SetAsideIn(i))

Kill(i) ==
  /\ pc[i] \notin Over /\ Abandoned({i}) /\ UNCHANGED <<dest, owed>>

PowerLoss ==  \* nothing was synced
  /\ Abandoned(Installers)
  /\ \/ UNCHANGED <<dest, owed>>
     \/ owed' = FALSE /\ dest' = IF dest = "runtime" THEN "torn" ELSE dest

-----------------------------------------------------------------------------
Run(i) ==
  \/ Start(i) \/ Download(i) \/ CheckArchive(i) \/ Extract(i) \/ Verify(i)
  \/ Look(i) \/ SetAside(i) \/ EnterTry(i) \/ Swap(i) \/ SwapFails(i)
  \/ Restore(i) \/ RestoreFails(i) \/ CleanUp(i)
  \/ Fails(i) \/ InterruptedAside(i) \/ Kill(i)

Next == (\E i \in Installers : Run(i)) \/ PowerLoss

Spec == Init /\ [][Next]_vars

-----------------------------------------------------------------------------
TypeOK ==
  /\ dest \in Directories
  /\ archive \in [Installers -> {"none", "good", "wrong"}]
  /\ staging \in [Installers -> Directories]
  /\ previous \in [Installers -> Directories]
  /\ pc \in [Installers -> Working \cup Renaming \cup Leaving \cup Over]
  /\ strayed \in BOOLEAN /\ owed \in BOOLEAN

(* The destination only ever holds what was there, or a complete runtime  *)
(* of the pinned digest that has run: wherever a run is killed and        *)
(* however two of them interleave, another run is not refused for what    *)
(* it finds (download_llama_runtime.py:192-197, 206-228).                 *)
DestinationIsWhole == dest \notin {"partial", "wrong"}

(* A runtime that was installed is never lost to runs that fail, are      *)
(* killed or race each other for the destination: it is there, or set     *)
(* aside by a run that has not given it up or that was killed.  Three     *)
(* mishaps excepted: an interrupt right between the first rename and the  *)
(* try block, a second rename that fails and cannot be undone (lines      *)
(* 220-228; the temporary directory goes with the runtime in it), and a   *)
(* power loss, as nothing is synced.                                      *)
RuntimeSurvives ==
  owed =>
    dest = "runtime" \/ strayed \/ \E i \in Installers : SetAsideIn(i)
=============================================================================

---------------------------- MODULE QwenDownload ----------------------------
(***************************************************************************)
(* The resumable download of the approved model, scripts/                  *)
(* download_qwen_gcp.py: it writes to a part file, resumes it with a Range *)
(* request, verifies it and renames it.  Runs are killed, restarted and    *)
(* may overlap; the mirror's object may be replaced; the power may fail.   *)
(*                                                                         *)
(* A file is its blocks and how many of them are on the disk for certain.  *)
(* Block i of the approved artifact is i; 0 is any other block.  An open   *)
(* file follows its name when it is renamed and is `gone' when it is       *)
(* removed or replaced: nobody reads it any more.                          *)
(***************************************************************************)
EXTENDS Integers, SequencesExt

CONSTANTS Runs,  \* processes that run the script, again and again
          Size   \* artifact.expected_bytes, in blocks

ASSUME QwenAssumption == Size \in Nat \ {0}

VARIABLES
  object,    \* what the mirror serves
  part, dest, manifest,          \* the profile directory
  pc, offset, body, written,     \* per run: locals, and the answer still to come
  handle, append,                \* per run: the part file it has opened, and how
  alone,     \* history: runs that no other run has overlapped
  taint      \* history: what has happened that makes a part file useless

files  == <<part, dest, manifest>>
locals == <<offset, body, written, handle, append>>
history == <<alone, taint>>
vars == <<object, files, pc, locals, history>>

Approved == [i \in 1 .. Size |-> i]
Objects  == {Approved, [i \in 1 .. Size |-> 0], Append(Approved, 0)}
Absent   == [data |-> <<>>, synced |-> -1]
Ended    == {"idle", "done"}
Active   == {p \in Runs : pc[p] \notin Ended}

Init ==
  /\ object \in Objects
  /\ part = Absent /\ dest = Absent /\ manifest = FALSE
  /\ pc = [p \in Runs |-> "idle"]
  /\ offset = [p \in Runs |-> 0] /\ written = [p \in Runs |-> 0]
  /\ body = [p \in Runs |-> <<>>]
  /\ handle = [p \in Runs |-> "none"] /\ append = [p \in Runs |-> FALSE]
  /\ alone = {}
  /\ taint = IF object = Approved THEN {} ELSE {"mirror"}

-----------------------------------------------------------------------------
Goto(p, place) == pc' = [pc EXCEPT ![p] = place]

(* Open files follow their inode: what was at `from' is now at `to'.      *)
Follow(h, from, to) == [q \in Runs |-> IF h[q] = from THEN to ELSE h[q]]

(* A run is done with its part file: what it knew of it is forgotten.     *)
Closed(p) ==
  /\ handle' = [handle EXCEPT ![p] = "none"] /\ append' = [append EXCEPT ![p] = FALSE]
  /\ body' = [body EXCEPT ![p] = <<>>]
  /\ offset' = [offset EXCEPT ![p] = 0] /\ written' = [written EXCEPT ![p] = 0]

Ends(p, outcome) == Goto(p, outcome) /\ Closed(p) /\ alone' = alone \ {p}

Start(p, force) ==
  /\ pc[p] \in Ended
  /\ Goto(p, IF force THEN "discard dest" ELSE "exists")
  /\ alone' = IF Active = {} THEN {p} ELSE {}
  /\ taint' = IF Active = {} THEN taint ELSE taint \cup {"overlap"}
  /\ UNCHANGED <<object, files, locals>>

DiscardDest(p) ==
  /\ pc[p] = "discard dest" /\ Goto(p, "discard part")
  /\ dest' = Absent /\ handle' = Follow(handle, "dest", "gone")
  /\ UNCHANGED <<object, part, manifest, offset, body, written, append, history>>

DiscardPart(p) ==
  /\ pc[p] = "discard part" /\ Goto(p, "exists")
  /\ part' = Absent /\ handle' = Follow(handle, "part", "gone")
  /\ UNCHANGED <<object, dest, manifest, offset, body, written, append, history>>

Exists(p) ==
  /\ pc[p] = "exists"
  /\ Goto(p, IF dest # Absent THEN "verify dest" ELSE "stat")
  /\ UNCHANGED <<object, files, locals, history>>

(* verify_file: the size and the digest, of what the name leads to.       *)
Verified(file) == file.data = Approved

VerifyDest(p) ==
  /\ pc[p] = "verify dest"
  /\ IF Verified(dest)
     THEN Goto(p, "manifest") /\ UNCHANGED <<locals, alone>>
     ELSE Ends(p, "idle")
  /\ UNCHANGED <<object, files, taint>>

Stat(p) ==
  /\ pc[p] = "stat"
  /\ IF Len(part.data) > Size
     THEN Ends(p, "idle")
     ELSE /\ offset' = [offset EXCEPT ![p] = Len(part.data)]
          /\ Goto(p, "request")
          /\ UNCHANGED <<body, written, handle, append, alone>>
  /\ UNCHANGED <<object, files, taint>>

(* The mirror honours the Range of the request (206) or ignores it (200); *)
(* _stream_response opens the part file accordingly.  Defect: it appends  *)
(* whenever it asked for a range.                                         *)
Answered(p, ranged, appending) ==
  /\ pc[p] = "request"
  /\ ranged => offset[p] \in 1 .. Len(object) - 1
  /\ body' = [body EXCEPT ![p] = IF ranged THEN SubSeq(object, offset[p] + 1, Len(object))
                                           ELSE object]
  /\ append' = [append EXCEPT ![p] = appending]
  /\ written' = [written EXCEPT ![p] = IF ranged THEN offset[p] ELSE 0]
  /\ offset' = [offset EXCEPT ![p] = 0]
  /\ Goto(p, "open")
  /\ UNCHANGED <<object, files, handle, history>>

AnswerAppending(p, ranged) == Answered(p, ranged, offset[p] > 0)

Answer(p, ranged) == Answered(p, ranged, ranged)

(* 416: there is nothing after the offset; the part file may be complete, *)
(* though an earlier run was killed before it called fsync.               *)
NothingLeft(p) ==
  /\ pc[p] = "request" /\ offset[p] >= Len(object)
  /\ IF offset[p] = Size
     THEN Goto(p, "verify part") /\ UNCHANGED <<locals, alone>>
     ELSE Ends(p, "idle")
  /\ taint' = IF part.synced < Len(part.data) THEN taint \cup {"unsynced"} ELSE taint
  /\ UNCHANGED <<object, files>>

Open(p) ==
  /\ pc[p] = "open" /\ Goto(p, "read")
  /\ part' = IF part = Absent \/ ~append[p] THEN [data |-> <<>>, synced |-> 0] ELSE part
  /\ handle' = [handle EXCEPT ![p] = "part"]
  /\ UNCHANGED <<object, dest, manifest, offset, body, written, append, history>>

(* Where the next block goes: to the end, or to the writer's position,    *)
(* with a hole before it when another run has truncated the file.         *)
Place(p, file) == IF append[p] THEN Len(file.data) + 1 ELSE written[p] + 1

Write(p, file) ==
  LET at == Place(p, file)
  IN  [data   |-> [i \in 1 .. Max({at, Len(file.data)}) |->
                     IF i = at THEN Head(body[p])
                     ELSE IF i <= Len(file.data) THEN file.data[i] ELSE 0],
       synced |-> Min({file.synced, at - 1})]

(* Defect: what exceeds the approved size is written before it is noticed. *)
ReadWrites(p, limit) ==
  /\ pc[p] = "read" /\ body[p] # <<>> /\ written[p] < limit
  /\ part' = IF handle[p] = "part" THEN Write(p, part) ELSE part
  /\ dest' = IF handle[p] = "dest" THEN Write(p, dest) ELSE dest
  /\ written' = [written EXCEPT ![p] = @ + 1]
  /\ body' = [body EXCEPT ![p] = Tail(@)]
  /\ UNCHANGED <<object, manifest, pc, offset, handle, append, history>>

ReadLate(p) == ReadWrites(p, Size + 1)

Read(p) == ReadWrites(p, Size)

Exceeds(p) ==
  /\ pc[p] = "read" /\ body[p] # <<>> /\ written[p] >= Size
  /\ Ends(p, "idle")
  /\ UNCHANGED <<object, files, taint>>

Synced(file) == [file EXCEPT !.synced = Len(file.data)]

(* The answer is over, perhaps because the connection was: fsync, close.  *)
(* Defect: no fsync.                                                      *)
SyncNot(p) ==
  /\ pc[p] = "read" /\ Closed(p) /\ Goto(p, "verify part")
  /\ UNCHANGED <<object, files, history>>

Sync(p) ==
  /\ pc[p] = "read" /\ Closed(p) /\ Goto(p, "verify part")
  /\ part' = IF handle[p] = "part" THEN Synced(part) ELSE part
  /\ dest' = IF handle[p] = "dest" THEN Synced(dest) ELSE dest
  /\ UNCHANGED <<object, manifest, history>>

(* Defect: only the size is verified.                                     *)
VerifySize(p) ==
  /\ pc[p] = "verify part"
  /\ IF Len(part.data) = Size
     THEN Goto(p, "replace") /\ UNCHANGED <<locals, alone>>
     ELSE Ends(p, "idle")
  /\ UNCHANGED <<object, files, taint>>

VerifyPart(p) ==
  /\ pc[p] = "verify part"
  /\ IF Verified(part)
     THEN Goto(p, "replace") /\ UNCHANGED <<locals, alone>>
     ELSE Ends(p, "idle")
  /\ UNCHANGED <<object, files, taint>>

Replace(p) ==
  /\ pc[p] = "replace" /\ part # Absent
  /\ dest' = part /\ part' = Absent
  /\ handle' = Follow(Follow(handle, "dest", "gone"), "part", "dest")
  /\ Goto(p, "manifest")
  /\ UNCHANGED <<object, manifest, offset, body, written, append, history>>

WriteManifest(p) ==
  /\ pc[p] = "manifest" /\ manifest' = TRUE /\ Ends(p, "done")
  /\ UNCHANGED <<object, part, dest, taint>>

(* The network, the disk, a file that is gone or a signal ends the run.   *)
Breaks(p) == p \in Active /\ Ends(p, "idle") /\ UNCHANGED <<object, files, taint>>

-----------------------------------------------------------------------------
(* What a power loss may leave of a file: the blocks that are on the disk *)
(* for certain, and any of the others, or zeros instead.  (A rename that  *)
(* it undoes leaves the names as before the rename.)                      *)
Torn(file) ==
  IF file = Absent THEN {Absent}
  ELSE {[data |-> [i \in 1 .. n |-> IF i \in lost THEN 0 ELSE file.data[i]], synced |-> n] :
          n \in file.synced .. Len(file.data),
          lost \in SUBSET (file.synced + 1 .. Len(file.data))}

PowerLoss ==
  /\ part' \in Torn(part) /\ dest' \in Torn(dest)
  /\ pc' = [p \in Runs |-> "idle"]
  /\ offset' = [p \in Runs |-> 0] /\ written' = [p \in Runs |-> 0]
  /\ body' = [p \in Runs |-> <<>>]
  /\ handle' = [p \in Runs |-> "none"] /\ append' = [p \in Runs |-> FALSE]
  /\ alone' = {} /\ taint' = taint \cup {"power"}
  /\ UNCHANGED <<object, manifest>>

MirrorChanges ==
  /\ object' \in Objects \ {object} /\ taint' = taint \cup {"mirror"}
  /\ UNCHANGED <<files, pc, locals, alone>>

Run(p) ==
  \/ \E force \in BOOLEAN : Start(p, force)
  \/ DiscardDest(p) \/ DiscardPart(p) \/ Exists(p) \/ VerifyDest(p) \/ Stat(p)
  \/ \E ranged \in BOOLEAN : Answer(p, ranged)
  \/ NothingLeft(p) \/ Open(p) \/ Read(p) \/ Exceeds(p) \/ Sync(p)
  \/ VerifyPart(p) \/ Replace(p) \/ WriteManifest(p) \/ Breaks(p)

Next == (\E p \in Runs : Run(p)) \/ PowerLoss \/ MirrorChanges

Spec == Init /\ [][Next]_vars

-----------------------------------------------------------------------------
(* Types; and no part file outgrows the artifact unless runs overlap (141).*)
TypeOK ==
  /\ object \in Objects /\ manifest \in BOOLEAN
  /\ \A file \in {part, dest} :
       \/ file = Absent
       \/ file.data \in Seq(0 .. Size) /\ file.synced \in 0 .. Len(file.data)
  /\ \A p \in Runs : offset[p] \in 0 .. Size /\ written[p] \in 0 .. Size
  /\ \A p \in Runs : body[p] \in Seq(0 .. Size) /\ append[p] \in BOOLEAN
  /\ \A p \in Runs : handle[p] \in {"none", "part", "dest", "gone"}
  /\ alone \subseteq Active
  /\ "overlap" \notin taint => Len(part.data) <= Size

(* Whatever the mirror serves, and wherever runs are killed or the power  *)
(* fails, the model's name leads to the approved bytes or to nothing.     *)
(* Two exceptions: runs that overlap, and a power loss after a run that   *)
(* found the part file complete and did not sync it (192-201).            *)
PublishedIsApproved ==
  "overlap" \in taint \/ {"power", "unsynced"} \subseteq taint
    \/ dest = Absent \/ Verified(dest)

(* A run that no other one overlaps reports success only for the approved *)
(* artifact and its manifest, even if it finds what overlapping runs have *)
(* left (171-174, 199-202).                                               *)
AloneIsSound ==
  [][\A p \in Runs : p \in alone /\ pc'[p] = "done" => Verified(dest) /\ manifest']_vars

(* Interrupted anywhere, a download can be resumed: unless the mirror has *)
(* changed, the power failed or runs overlapped, a part file is the start *)
(* of the artifact, so that --force is never needed (176-190).            *)
ResumeIsSound == taint \subseteq {"unsynced"} => IsPrefix(part.data, Approved)
=============================================================================

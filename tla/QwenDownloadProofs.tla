------------------------- MODULE QwenDownloadProofs -------------------------
(***************************************************************************)
(* Proofs about QwenDownload, for any number of runs and any size of the   *)
(* artifact: what is published is approved, a run that none overlaps does  *)
(* not report success for anything else, and its part file can be resumed. *)
(* While no two runs overlap, the one there is knows how long the part     *)
(* file is, and what is still to come: this is what the invariant says.    *)
(***************************************************************************)
EXTENDS QwenDownload, TLAPS, SequenceTheorems

Places == {"idle", "done", "discard dest", "discard part", "exists", "verify dest", "stat",
           "request", "open", "read", "verify part", "replace", "manifest"}

IsFile(file) == /\ file \in [data : Seq(0 .. Size), synced : Nat]
                /\ file.synced <= Len(file.data)

Types ==
  /\ object \in Objects /\ manifest \in BOOLEAN
  /\ (IsFile(part) \/ part = Absent) /\ (IsFile(dest) \/ dest = Absent)
  /\ pc \in [Runs -> Places]
  /\ offset \in [Runs -> 0 .. Size] /\ written \in [Runs -> 0 .. Size]
  /\ body \in [Runs -> Seq(0 .. Size)] /\ append \in [Runs -> BOOLEAN]
  /\ handle \in [Runs -> {"none", "part", "dest", "gone"}]

(* An open file that a name leads to is there.                             *)
HandleInv ==
  \A p \in Runs : /\ handle[p] = "part" => IsFile(part)
                  /\ handle[p] = "dest" => IsFile(dest)

(* The runs that no other one overlaps.                                    *)
AloneInv ==
  /\ alone \subseteq Active
  /\ \A p \in alone : \A q \in Active : p = q
  /\ "overlap" \notin taint => Active \subseteq alone

(* What a run expects of the artifact after the first n blocks.            *)
IsRest(rest, n) ==
  /\ Len(rest) = Size - n
  /\ \A i \in 1 .. Len(rest) : rest[i] = n + i

IsStart(data) ==
  /\ Len(data) <= Size
  /\ \A i \in 1 .. Len(data) : data[i] = i

OnDisk(file) == "unsynced" \in taint \/ file.synced = Len(file.data)

(* What a run knows that no other one overlaps.                            *)
Knows(p) ==
  /\ pc[p] = "request" => offset[p] = Len(part.data)
  /\ pc[p] = "open" => IF append[p] THEN written[p] > 0 /\ written[p] = Len(part.data)
                                    ELSE written[p] = 0
  /\ pc[p] = "read" => handle[p] = "part" /\ written[p] = Len(part.data)
  /\ pc[p] \in {"open", "read"} /\ "mirror" \notin taint => IsRest(body[p], written[p])
  /\ pc[p] \in {"verify part", "replace"} => OnDisk(part)
  /\ pc[p] = "replace" => Verified(part)
  /\ pc[p] = "manifest" => Verified(dest)

KnowsInv == \A p \in alone : Knows(p)

(* What is published, and its part file, if runs have never overlapped.    *)
PublishedInv ==
  "overlap" \notin taint /\ dest # Absent =>
    /\ "power" \notin taint \/ "unsynced" \notin taint => Verified(dest)
    /\ OnDisk(dest)

PartInv ==
  "overlap" \notin taint =>
    /\ Len(part.data) <= Size
    /\ "mirror" \notin taint /\ "power" \notin taint => IsStart(part.data)

MirrorInv == "mirror" \notin taint => object = Approved

IInv == /\ Types /\ HandleInv /\ AloneInv /\ KnowsInv
        /\ PublishedInv /\ PartInv /\ MirrorInv

-----------------------------------------------------------------------------
(* Files and blocks.                                                       *)

LEMMA MaxMin ==
  ASSUME NEW a \in Int, NEW b \in Int
  PROVE  /\ Max({a, b}) = IF a >= b THEN a ELSE b
         /\ Min({a, b}) = IF a <= b THEN a ELSE b
<1>1. Max({a, b}) = IF a >= b THEN a ELSE b
  <2> DEFINE m == IF a >= b THEN a ELSE b
             R(x) == \A y \in {a, b} : x >= y
  <2>1. m \in {a, b} /\ R(m)
    OBVIOUS
  <2>2. \A x \in {a, b} : R(x) => x = m
    OBVIOUS
  <2> HIDE DEF R, m
  <2>3. (CHOOSE x \in {a, b} : R(x)) = m
    BY <2>1, <2>2
  <2> QED BY <2>3 DEF R, m, Max
<1>2. Min({a, b}) = IF a <= b THEN a ELSE b
  <2> DEFINE m == IF a <= b THEN a ELSE b
             R(x) == \A y \in {a, b} : x =< y
  <2>1. m \in {a, b} /\ R(m)
    OBVIOUS
  <2>2. \A x \in {a, b} : R(x) => x = m
    OBVIOUS
  <2> HIDE DEF R, m
  <2>3. (CHOOSE x \in {a, b} : R(x)) = m
    BY <2>1, <2>2
  <2> QED BY <2>3 DEF R, m, Min
<1> QED BY <1>1, <1>2

LEMMA FileFacts ==
  ASSUME NEW f, IsFile(f) \/ f = Absent
  PROVE  /\ f.data \in Seq(0 .. Size) /\ Len(f.data) \in Nat /\ f.synced \in Int
         /\ DOMAIN f.data = 1 .. Len(f.data) /\ f.synced <= Len(f.data)
         /\ IsFile(f) <=> f # Absent
         /\ f = Absent => f.data = <<>> /\ Len(f.data) = 0
<1>1. CASE IsFile(f)
  <2>1. f.data \in Seq(0 .. Size) /\ f.synced \in Nat /\ f.synced <= Len(f.data)
    BY <1>1 DEF IsFile
  <2>2. f # Absent
    BY <2>1 DEF Absent
  <2> QED BY <1>1, <2>1, <2>2, LenProperties
<1>2. CASE f = Absent
  <2>1. f.data = <<>> /\ f.synced = -1
    BY <1>2 DEF Absent
  <2>2. ~IsFile(f)
    BY <2>1 DEF IsFile
  <2>3. f.data \in Seq(0 .. Size) /\ Len(f.data) = 0 /\ DOMAIN f.data = 1 .. 0
    BY <2>1, EmptySeq
  <2> QED BY <1>2, <2>1, <2>2, <2>3
<1> QED BY <1>1, <1>2

LEMMA ApprovedFacts ==
  /\ Approved \in Seq(0 .. Size) /\ Len(Approved) = Size /\ Size \in Nat \ {0}
  /\ \A i \in 1 .. Size : Approved[i] = i
<1>1. Size \in Nat \ {0}
  BY QwenAssumption DEF QwenAssumption
<1>2. Approved \in [1 .. Size -> 0 .. Size]
  BY <1>1 DEF Approved
<1>3. Approved \in Seq(0 .. Size)
  BY <1>1, <1>2, SeqDef
<1>4. Len(Approved) = Size
  BY <1>1, <1>2, <1>3, LenProperties
<1> QED BY <1>1, <1>3, <1>4 DEF Approved

LEMMA ObjectFacts == Objects \subseteq Seq(0 .. Size)
<1>1. Size \in Nat \ {0} /\ Approved \in Seq(0 .. Size) /\ 0 \in 0 .. Size
  BY ApprovedFacts
<1>2. [i \in 1 .. Size |-> 0] \in Seq(0 .. Size)
  <2>1. [i \in 1 .. Size |-> 0] \in [1 .. Size -> 0 .. Size]
    BY <1>1
  <2> QED BY <1>1, <2>1, SeqDef
<1>3. Append(Approved, 0) \in Seq(0 .. Size)
  BY <1>1, AppendProperties
<1> QED BY <1>1, <1>2, <1>3 DEF Objects

(* What is verified is there, and starts as the artifact does.             *)
LEMMA VerifiedFacts ==
  ASSUME NEW f, IsFile(f) \/ f = Absent, Verified(f)
  PROVE  IsFile(f) /\ Len(f.data) = Size /\ IsStart(f.data)
  BY FileFacts, ApprovedFacts DEF Verified, IsStart

LEMMA StartIsPrefix ==
  ASSUME NEW d \in Seq(0 .. Size), IsStart(d)
  PROVE  IsPrefix(d, Approved)
<1>1. /\ Len(d) \in Nat /\ Len(d) <= Size /\ Len(Approved) = Size /\ Size \in Nat
      /\ \A i \in 1 .. Len(d) : d[i] = i /\ d[i] = Approved[i]
  BY ApprovedFacts, LenProperties DEF IsStart
<1>2. \A i \in 1 .. Len(d) : d[i] \in 0 .. Size /\ Approved[i] \in 0 .. Size
  BY <1>1
<1> DEFINE s == SubSeq(d, 1, Len(d))
           t == SubSeq(Approved, 1, Len(d))
<1>3. /\ s \in Seq(0 .. Size) /\ Len(s) = Len(d)
      /\ \A i \in 1 .. Len(d) : s[i] = d[1 + i - 1]
  BY <1>1, <1>2, SubSeqProperties
<1>4. /\ t \in Seq(0 .. Size) /\ Len(t) = Len(d)
      /\ \A i \in 1 .. Len(d) : t[i] = Approved[1 + i - 1]
  BY <1>1, <1>2, SubSeqProperties
<1> HIDE DEF s, t
<1>5. s = t
  <2>1. \A i \in 1 .. Len(s) : s[i] = t[i]
    BY <1>1, <1>3, <1>4
  <2> QED BY <1>3, <1>4, <2>1, SeqEqual
<1> QED BY <1>1, <1>5 DEF IsPrefix, s, t

-----------------------------------------------------------------------------
(* What every step of a run keeps.                                         *)

LEMMA RunFacts ==
  ASSUME IInv, NEW p \in Active
  PROVE  /\ p \in Runs /\ pc[p] \notin Ended /\ alone \subseteq {p}
         /\ "overlap" \notin taint => p \in alone
         /\ p \in alone => Knows(p)
  BY DEF IInv, AloneInv, KnowsInv, Active

LEMMA PublishedKeeps ==
  ASSUME PublishedInv, dest' = dest, taint \subseteq taint'
  PROVE  PublishedInv'
  BY DEF PublishedInv, OnDisk, Verified

LEMMA PartKeeps ==
  ASSUME PartInv, part' = part, taint \subseteq taint'
  PROVE  PartInv'
  BY DEF PartInv, IsStart

LEMMA MirrorKeeps ==
  ASSUME MirrorInv, object' = object, taint \subseteq taint'
  PROVE  MirrorInv'
  BY DEF MirrorInv

LEMMA ClosedFacts ==
  ASSUME IInv, NEW p \in Runs, Closed(p)
  PROVE  /\ offset' \in [Runs -> 0 .. Size] /\ written' \in [Runs -> 0 .. Size]
         /\ body' \in [Runs -> Seq(0 .. Size)] /\ append' \in [Runs -> BOOLEAN]
         /\ handle' \in [Runs -> {"none", "part", "dest", "gone"}]
         /\ \A q \in Runs : handle'[q] \in {"none", handle[q]}
<1>1. /\ handle' = [handle EXCEPT ![p] = "none"] /\ append' = [append EXCEPT ![p] = FALSE]
      /\ body' = [body EXCEPT ![p] = <<>>]
      /\ offset' = [offset EXCEPT ![p] = 0] /\ written' = [written EXCEPT ![p] = 0]
  BY DEF Closed
<1>2. offset' \in [Runs -> 0 .. Size] /\ written' \in [Runs -> 0 .. Size]
  <2>1. 0 \in 0 .. Size
    BY ApprovedFacts
  <2> QED BY <1>1, <2>1 DEF IInv, Types
<1>3. body' \in [Runs -> Seq(0 .. Size)]
  BY <1>1, EmptySeq DEF IInv, Types
<1>4. /\ append' \in [Runs -> BOOLEAN] /\ handle' \in [Runs -> {"none", "part", "dest", "gone"}]
      /\ \A q \in Runs : handle'[q] \in {"none", handle[q]}
  BY <1>1 DEF IInv, Types
<1> QED BY <1>2, <1>3, <1>4

(* A run ends: it knows nothing any more.                                  *)
LEMMA EndsKeeps ==
  ASSUME IInv, NEW p \in Active, NEW outcome \in Ended, Ends(p, outcome),
         UNCHANGED <<object, part, dest>>, manifest' \in BOOLEAN, taint \subseteq taint'
  PROVE  IInv'
<1>1. p \in Runs /\ alone \subseteq {p} /\ ("overlap" \notin taint => p \in alone)
  BY RunFacts
<1>2. pc' = [pc EXCEPT ![p] = outcome] /\ alone' = alone \ {p} /\ Closed(p)
  BY DEF Ends, Goto
<1>3. Types'
  <2>1. pc' \in [Runs -> Places]
    BY <1>2 DEF IInv, Types, Ended, Places
  <2> QED BY <1>1, <1>2, <2>1, ClosedFacts DEF IInv, Types, IsFile, Absent
<1>4. HandleInv'
  BY <1>1, <1>2, ClosedFacts DEF IInv, HandleInv, IsFile
<1>5. AloneInv' /\ KnowsInv'
  <2>1. alone' = {}
    BY <1>1, <1>2
  <2>2. "overlap" \notin taint' => Active' = {}
    BY <1>1, <1>2 DEF IInv, Types, AloneInv, Active
  <2> QED BY <2>1, <2>2 DEF AloneInv, KnowsInv
<1> QED BY <1>3, <1>4, <1>5, PublishedKeeps, PartKeeps, MirrorKeeps DEF IInv

(* A run goes on: the others know what they knew.                          *)
LEMMA GoesOn ==
  ASSUME IInv, NEW p \in Active, NEW place \in Places \ Ended, Goto(p, place),
         alone' = alone, taint \subseteq taint', p \in alone => Knows(p)'
  PROVE  /\ pc' \in [Runs -> Places] /\ pc'[p] = place
         /\ AloneInv' /\ KnowsInv'
<1>1. p \in Runs /\ alone \subseteq {p}
  BY RunFacts
<1>2. pc' = [pc EXCEPT ![p] = place] /\ pc \in [Runs -> Places]
  BY DEF Goto, IInv, Types
<1>3. pc' \in [Runs -> Places] /\ pc'[p] = place
  BY <1>1, <1>2
<1>4. Active' = Active
  BY <1>1, <1>2, <1>3 DEF Active
<1> QED BY <1>1, <1>3, <1>4 DEF IInv, AloneInv, KnowsInv

(* A run goes on, and only looks at the files.                             *)
LEMMA LooksKeeps ==
  ASSUME IInv, NEW p \in Active, NEW place \in Places \ Ended, Goto(p, place),
         UNCHANGED <<object, files, locals, alone>>, taint \subseteq taint',
         p \in alone => Knows(p)'
  PROVE  IInv'
<1>1. UNCHANGED <<object, part, dest, manifest, offset, body, written, handle, append, alone>>
  BY DEF files, locals
<1>2. pc' \in [Runs -> Places] /\ AloneInv' /\ KnowsInv'
  BY <1>1, GoesOn
<1>3. Types' /\ HandleInv'
  BY <1>1, <1>2 DEF IInv, Types, HandleInv, IsFile, Absent
<1> QED BY <1>1, <1>2, <1>3, PublishedKeeps, PartKeeps, MirrorKeeps DEF IInv

-----------------------------------------------------------------------------
(* The actions of a run.                                                   *)

LEMMA StartKeeps ==
  ASSUME IInv, NEW p \in Runs, NEW force \in BOOLEAN, Start(p, force)
  PROVE  IInv'
<1>1. /\ UNCHANGED <<object, part, dest, manifest, offset, body, written, handle, append>>
      /\ pc[p] \in Ended /\ p \notin alone /\ pc \in [Runs -> Places]
  BY DEF Start, files, locals, IInv, Types, AloneInv, Active
<1>2. /\ \E place \in {"discard dest", "exists"} : pc' = [pc EXCEPT ![p] = place]
      /\ taint \subseteq taint'
  BY DEF Start, Goto
<1>3. pc' \in [Runs -> Places] /\ pc'[p] \in {"discard dest", "exists"}
      /\ Active' = Active \cup {p}
  BY <1>1, <1>2 DEF Places, Active, Ended
<1>4. Types' /\ HandleInv'
  BY <1>1, <1>3 DEF IInv, Types, HandleInv, IsFile, Absent
<1>5. AloneInv'
  BY <1>3 DEF Start, AloneInv
<1>6. KnowsInv'
  <2>1. alone' \subseteq {p}
    BY DEF Start
  <2>2. Knows(p)'
    BY <1>3 DEF Knows
  <2> QED BY <2>1, <2>2 DEF KnowsInv
<1> QED BY <1>1, <1>2, <1>4, <1>5, <1>6, PublishedKeeps, PartKeeps, MirrorKeeps DEF IInv

LEMMA DiscardKeeps ==
  ASSUME IInv, NEW p \in Runs, DiscardDest(p) \/ DiscardPart(p)
  PROVE  IInv'
<1>1. /\ UNCHANGED <<object, manifest, offset, body, written, append, alone, taint>>
      /\ p \in Active
  BY DEF DiscardDest, DiscardPart, Active, Ended, history
<1>2. CASE DiscardDest(p)
  <2>1. Goto(p, "discard part") /\ dest' = Absent /\ part' = part
        /\ handle' = Follow(handle, "dest", "gone")
    BY <1>2 DEF DiscardDest
  <2>2. /\ pc' \in [Runs -> Places] /\ pc'[p] = "discard part" /\ AloneInv' /\ KnowsInv'
    <3>1. pc'[p] = "discard part"
      BY <1>1, <2>1, RunFacts DEF Goto, IInv, Types
    <3>2. Knows(p)'
      BY <3>1 DEF Knows
    <3> QED BY <1>1, <2>1, <3>2, GoesOn DEF Places, Ended
  <2>3. Types' /\ HandleInv'
    BY <1>1, <2>1, <2>2 DEF IInv, Types, HandleInv, Follow, IsFile, Absent
  <2>4. PublishedInv'
    BY <2>1 DEF PublishedInv, Absent
  <2> QED BY <1>1, <2>1, <2>2, <2>3, <2>4, PartKeeps, MirrorKeeps DEF IInv
<1>3. CASE DiscardPart(p)
  <2>1. Goto(p, "exists") /\ part' = Absent /\ dest' = dest
        /\ handle' = Follow(handle, "part", "gone")
    BY <1>3 DEF DiscardPart
  <2>2. /\ pc' \in [Runs -> Places] /\ pc'[p] = "exists" /\ AloneInv' /\ KnowsInv'
    <3>1. pc'[p] = "exists"
      BY <1>1, <2>1, RunFacts DEF Goto, IInv, Types
    <3>2. Knows(p)'
      BY <3>1 DEF Knows
    <3> QED BY <1>1, <2>1, <3>2, GoesOn DEF Places, Ended
  <2>3. Types' /\ HandleInv'
    BY <1>1, <2>1, <2>2 DEF IInv, Types, HandleInv, Follow, IsFile, Absent
  <2>4. PartInv'
    <3>1. Len(part'.data) = 0
      BY <2>1, FileFacts
    <3> QED BY <3>1, ApprovedFacts DEF PartInv, IsStart
  <2> QED BY <1>1, <2>1, <2>2, <2>3, <2>4, PublishedKeeps, MirrorKeeps DEF IInv
<1> QED BY <1>2, <1>3

LEMMA ExistsKeeps ==
  ASSUME IInv, NEW p \in Runs, Exists(p)
  PROVE  IInv'
<1>1. /\ p \in Active /\ UNCHANGED <<object, files, locals, alone>> /\ taint' = taint
      /\ \E place \in {"verify dest", "stat"} : Goto(p, place)
  BY DEF Exists, Active, Ended, history
<1>2. PICK place \in {"verify dest", "stat"} : Goto(p, place)
  BY <1>1
<1>3. pc'[p] = place
  BY <1>2 DEF Goto, IInv, Types
<1>4. Knows(p)'
  BY <1>3 DEF Knows
<1> QED BY <1>1, <1>2, <1>4, LooksKeeps DEF Places, Ended

LEMMA VerifyKeeps ==
  ASSUME IInv, NEW p \in Runs, VerifyDest(p) \/ VerifyPart(p)
  PROVE  IInv'
<1>1. p \in Active /\ UNCHANGED <<object, part, dest, manifest, files>> /\ taint' = taint
  BY DEF VerifyDest, VerifyPart, Active, Ended, files
<1>2. CASE Ends(p, "idle")
  BY <1>1, <1>2, EndsKeeps DEF Ended, IInv, Types
<1>3. CASE Verified(dest) /\ Goto(p, "manifest") /\ UNCHANGED <<locals, alone>>
  <2>1. pc'[p] = "manifest"
    BY <1>3 DEF Goto, IInv, Types
  <2>2. Knows(p)'
    BY <1>1, <1>3, <2>1 DEF Knows, Verified
  <2> QED BY <1>1, <1>3, <2>2, LooksKeeps DEF Places, Ended
<1>4. CASE /\ pc[p] = "verify part" /\ Verified(part) /\ Goto(p, "replace")
           /\ UNCHANGED <<locals, alone>>
  <2>1. pc'[p] = "replace"
    BY <1>4 DEF Goto, IInv, Types
  <2>2. p \in alone => Knows(p)'
    BY <1>1, <1>4, <2>1, RunFacts DEF Knows, Verified, OnDisk
  <2> QED BY <1>1, <1>4, <2>2, LooksKeeps DEF Places, Ended
<1> QED BY <1>2, <1>3, <1>4 DEF VerifyDest, VerifyPart

LEMMA StatKeeps ==
  ASSUME IInv, NEW p \in Runs, Stat(p)
  PROVE  IInv'
<1>1. p \in Active /\ UNCHANGED <<object, part, dest, manifest>> /\ taint' = taint
  BY DEF Stat, Active, Ended, files
<1>2. CASE Ends(p, "idle")
  BY <1>1, <1>2, EndsKeeps DEF Ended, IInv, Types
<1>3. CASE ~(Len(part.data) > Size)
  <2>1. /\ offset' = [offset EXCEPT ![p] = Len(part.data)] /\ Goto(p, "request")
        /\ UNCHANGED <<body, written, handle, append, alone>>
    BY <1>3 DEF Stat
  <2>2. Len(part.data) \in 0 .. Size
    BY <1>3, FileFacts, ApprovedFacts DEF IInv, Types
  <2>3. offset' \in [Runs -> 0 .. Size] /\ offset'[p] = Len(part.data) /\ pc'[p] = "request"
    BY <2>1, <2>2 DEF Goto, IInv, Types
  <2>4. Knows(p)'
    BY <1>1, <2>3 DEF Knows
  <2>5. pc' \in [Runs -> Places] /\ AloneInv' /\ KnowsInv'
    BY <1>1, <2>1, <2>4, GoesOn DEF Places, Ended
  <2>6. Types' /\ HandleInv'
    BY <1>1, <2>1, <2>3, <2>5 DEF IInv, Types, HandleInv, IsFile, Absent
  <2> QED BY <1>1, <2>5, <2>6, PublishedKeeps, PartKeeps, MirrorKeeps DEF IInv
<1> QED BY <1>2, <1>3 DEF Stat

LEMMA NothingLeftKeeps ==
  ASSUME IInv, NEW p \in Runs, NothingLeft(p)
  PROVE  IInv'
<1>1. /\ p \in Active /\ UNCHANGED <<object, part, dest, manifest, files>>
      /\ taint \subseteq taint'
      /\ part.synced < Len(part.data) => "unsynced" \in taint'
  BY DEF NothingLeft, Active, Ended, files
<1>2. CASE Ends(p, "idle")
  BY <1>1, <1>2, EndsKeeps DEF Ended, IInv, Types
<1>3. CASE Goto(p, "verify part") /\ UNCHANGED <<locals, alone>>
  <2>1. pc'[p] = "verify part"
    BY <1>3 DEF Goto, IInv, Types
  <2>2. "unsynced" \in taint' \/ part'.synced = Len(part'.data)
    BY <1>1, FileFacts DEF IInv, Types
  <2>3. Knows(p)'
    BY <2>1, <2>2 DEF Knows, OnDisk
  <2> QED BY <1>1, <1>3, <2>3, LooksKeeps DEF Places, Ended
<1> QED BY <1>2, <1>3 DEF NothingLeft

LEMMA RestFacts ==
  ASSUME NEW S, NEW q \in Seq(S), NEW o \in Nat, o < Len(q)
  PROVE  /\ SubSeq(q, o + 1, Len(q)) \in Seq(S)
         /\ Len(SubSeq(q, o + 1, Len(q))) = Len(q) - o
         /\ \A i \in 1 .. Len(q) - o : SubSeq(q, o + 1, Len(q))[i] = q[o + i]
<1>1. PICK k \in Nat : k = Len(q)
  BY LenProperties
<1>2. PICK m \in Nat : m = o + 1
  OBVIOUS
<1>3. m <= k /\ k - m + 1 = k - o /\ \A i \in m .. k : q[i] \in S
  BY <1>1, <1>2, ElementOfSeq
<1>4. /\ SubSeq(q, m, k) \in Seq(S)
      /\ Len(SubSeq(q, m, k)) = IF m <= k THEN k - m + 1 ELSE 0
      /\ \A i \in 1 .. k - m + 1 : SubSeq(q, m, k)[i] = q[m + i - 1]
  BY <1>3, SubSeqProperties
<1>5. \A i \in 1 .. k - o : SubSeq(q, m, k)[i] = q[o + i]
  <2> SUFFICES ASSUME NEW i \in 1 .. k - o PROVE SubSeq(q, m, k)[i] = q[o + i]
    OBVIOUS
  <2>1. i \in 1 .. k - m + 1 /\ m + i - 1 = o + i
    BY <1>2, <1>3
  <2> QED BY <1>4, <2>1
<1> QED BY <1>1, <1>2, <1>3, <1>4, <1>5

(* The answer gives what follows the part file, or everything.             *)
LEMMA AnswerKeeps ==
  ASSUME IInv, NEW p \in Runs, NEW ranged \in BOOLEAN, Answer(p, ranged)
  PROVE  IInv'
<1> DEFINE rest == SubSeq(object, offset[p] + 1, Len(object))
           n == IF ranged THEN offset[p] ELSE 0
           b == IF ranged THEN rest ELSE object
<1>1. /\ p \in Active /\ UNCHANGED <<object, part, dest, manifest, handle, alone, taint>>
      /\ pc[p] = "request" /\ Goto(p, "open")
      /\ ranged => offset[p] \in 1 .. Len(object) - 1
      /\ body' = [body EXCEPT ![p] = b] /\ append' = [append EXCEPT ![p] = ranged]
      /\ written' = [written EXCEPT ![p] = n] /\ offset' = [offset EXCEPT ![p] = 0]
  BY DEF Answer, Answered, Active, Ended, files, history
<1>2. /\ object \in Seq(0 .. Size) /\ Len(object) \in Nat /\ offset[p] \in 0 .. Size
      /\ 0 \in 0 .. Size /\ Size \in Nat
      /\ \A i \in 1 .. Len(object) : object[i] \in 0 .. Size
  BY ObjectFacts, ApprovedFacts, LenProperties, ElementOfSeq DEF IInv, Types
<1>3. ranged => /\ rest \in Seq(0 .. Size) /\ Len(rest) = Len(object) - offset[p]
                /\ \A i \in 1 .. Len(object) - offset[p] : rest[i] = object[offset[p] + i]
  <2> SUFFICES ASSUME ranged
               PROVE  /\ rest \in Seq(0 .. Size) /\ Len(rest) = Len(object) - offset[p]
                      /\ \A i \in 1 .. Len(object) - offset[p] :
                           rest[i] = object[offset[p] + i]
    OBVIOUS
  <2>1. offset[p] \in Nat /\ offset[p] < Len(object)
    BY <1>1, <1>2
  <2> QED BY <1>2, <2>1, RestFacts
<1> HIDE DEF rest
<1>4. b \in Seq(0 .. Size) /\ n \in 0 .. Size
  BY <1>2, <1>3
<1> HIDE DEF b
<1>5. /\ body' \in [Runs -> Seq(0 .. Size)] /\ append' \in [Runs -> BOOLEAN]
      /\ offset' \in [Runs -> 0 .. Size] /\ written' \in [Runs -> 0 .. Size]
      /\ body'[p] = b /\ append'[p] = ranged /\ written'[p] = n /\ pc'[p] = "open"
  BY <1>1, <1>2, <1>4 DEF Goto, IInv, Types
<1>6. p \in alone => Knows(p)'
  <2> SUFFICES ASSUME p \in alone PROVE Knows(p)'
    OBVIOUS
  <2>1. offset[p] = Len(part.data)
    BY <1>1, RunFacts DEF Knows
  <2>2. IF append'[p] THEN written'[p] > 0 /\ written'[p] = Len(part'.data)
                      ELSE written'[p] = 0
    BY <1>1, <1>2, <1>5, <2>1
  <2>3. "mirror" \notin taint' => IsRest(body'[p], written'[p])
    <3> SUFFICES ASSUME "mirror" \notin taint' PROVE IsRest(b, n)
      BY <1>5
    <3>1. /\ object = Approved /\ Len(object) = Size /\ \A i \in 1 .. Size : object[i] = i
      BY <1>1, ApprovedFacts DEF IInv, MirrorInv
    <3>2. CASE ranged
      <4>1. n = offset[p] /\ b = rest /\ Len(rest) = Size - offset[p]
        BY <1>3, <3>1, <3>2 DEF b
      <4>2. \A i \in 1 .. Size - offset[p] : rest[i] = offset[p] + i
        <5> SUFFICES ASSUME NEW i \in 1 .. Size - offset[p] PROVE rest[i] = offset[p] + i
          OBVIOUS
        <5>1. offset[p] + i \in 1 .. Size
          BY <1>2
        <5> QED BY <1>3, <3>1, <3>2, <5>1
      <4> QED BY <4>1, <4>2 DEF IsRest
    <3>3. CASE ~ranged
      BY <1>2, <3>1, <3>3 DEF IsRest, b
    <3> QED BY <3>2, <3>3
  <2> QED BY <1>5, <2>2, <2>3 DEF Knows
<1>7. pc' \in [Runs -> Places] /\ AloneInv' /\ KnowsInv'
  BY <1>1, <1>6, GoesOn DEF Places, Ended
<1>8. Types' /\ HandleInv'
  BY <1>1, <1>5, <1>7 DEF IInv, Types, HandleInv, IsFile, Absent
<1> QED BY <1>1, <1>7, <1>8, PublishedKeeps, PartKeeps, MirrorKeeps DEF IInv

(* A resumed part file is appended to: it is there and as long as before.  *)
LEMMA OpenKeeps ==
  ASSUME IInv, NEW p \in Runs, Open(p)
  PROVE  IInv'
<1>1. /\ p \in Active /\ pc[p] = "open" /\ Goto(p, "read")
      /\ part' = (IF part = Absent \/ ~append[p] THEN [data |-> <<>>, synced |-> 0] ELSE part)
      /\ handle' = [handle EXCEPT ![p] = "part"]
      /\ UNCHANGED <<object, dest, manifest, offset, body, written, append, alone, taint>>
  BY DEF Open, Active, Ended, history
<1>2. IsFile([data |-> <<>>, synced |-> 0]) /\ Len(<<>>) = 0
  BY EmptySeq, ApprovedFacts DEF IsFile
<1>3. IsFile(part')
  BY <1>1, <1>2 DEF IInv, Types
<1>4. pc'[p] = "read" /\ handle'[p] = "part"
  BY <1>1 DEF Goto, IInv, Types
<1>5. p \in alone => Knows(p)'
  <2> SUFFICES ASSUME p \in alone PROVE Knows(p)'
    OBVIOUS
  <2>1. Knows(p)
    BY <1>1, RunFacts
  <2>2. written[p] = Len(part'.data)
    <3>1. part = Absent => Len(part.data) = 0
      BY FileFacts DEF IInv, Types
    <3>2. CASE append[p]
      <4>1. written[p] > 0 /\ written[p] = Len(part.data) /\ part # Absent
        BY <1>1, <2>1, <3>1, <3>2 DEF Knows
      <4> QED BY <1>1, <3>2, <4>1
    <3>3. CASE ~append[p]
      BY <1>1, <1>2, <2>1, <3>3 DEF Knows
    <3> QED BY <3>2, <3>3
  <2>3. "mirror" \notin taint' => IsRest(body'[p], written'[p])
    BY <1>1, <2>1 DEF Knows
  <2> QED BY <1>1, <1>4, <2>2, <2>3 DEF Knows
<1>6. pc' \in [Runs -> Places] /\ AloneInv' /\ KnowsInv'
  BY <1>1, <1>5, GoesOn DEF Places, Ended
<1>7. Types' /\ HandleInv'
  BY <1>1, <1>3, <1>6 DEF IInv, Types, HandleInv, IsFile, Absent
<1>8. PartInv'
  <2>1. part' = part \/ Len(part'.data) = 0
    BY <1>1, <1>2
  <2>2. CASE part' = part
    BY <1>1, <2>2 DEF IInv, PartInv, IsStart
  <2>3. CASE Len(part'.data) = 0
    BY <1>1, <2>3, ApprovedFacts DEF PartInv, IsStart
  <2> QED BY <2>1, <2>2, <2>3
<1> QED BY <1>1, <1>6, <1>7, <1>8, PublishedKeeps, MirrorKeeps DEF IInv

(* A block is written, at the end of the file or anywhere else.            *)
LEMMA WriteFacts ==
  ASSUME IInv, NEW p \in Runs, body[p] # <<>>, NEW f, IsFile(f)
  PROVE  /\ IsFile(Write(p, f))
         /\ (append[p] \/ written[p] = Len(f.data)) =>
              /\ Len(Write(p, f).data) = Len(f.data) + 1
              /\ \A i \in 1 .. Len(f.data) : Write(p, f).data[i] = f.data[i]
              /\ Write(p, f).data[Len(f.data) + 1] = Head(body[p])
<1> DEFINE at == Place(p, f)
           l == Len(f.data)
           top == IF at >= l THEN at ELSE l
           d == [i \in 1 .. top |-> IF i = at THEN Head(body[p])
                                    ELSE IF i <= l THEN f.data[i] ELSE 0]
           s == IF f.synced <= at - 1 THEN f.synced ELSE at - 1
<1>1. /\ l \in Nat /\ f.synced \in Nat /\ f.synced <= l
      /\ \A i \in 1 .. l : f.data[i] \in 0 .. Size
  BY FileFacts, ElementOfSeq DEF IsFile
<1>2. /\ at \in Nat \ {0}
      /\ append[p] \/ written[p] = l => at = l + 1
  <2>1. written[p] \in Nat
    BY ApprovedFacts DEF IInv, Types
  <2> QED BY <1>1, <2>1 DEF Place
<1>3. Head(body[p]) \in 0 .. Size /\ 0 \in 0 .. Size
  BY HeadTailProperties, ApprovedFacts DEF IInv, Types
<1> HIDE DEF at, l
<1>4. d \in Seq(0 .. Size) /\ Len(d) = top /\ top \in Nat
  <2>1. d \in [1 .. top -> 0 .. Size] /\ top \in Nat
    BY <1>1, <1>2, <1>3
  <2> HIDE DEF d, top
  <2>2. d \in Seq(0 .. Size)
    BY <2>1, SeqDef
  <2> QED BY <2>1, <2>2, LenProperties
<1>5. Write(p, f) = [data |-> d, synced |-> s]
  <2>1. Max({at, l}) = top /\ Min({f.synced, at - 1}) = s
    <3>1. at \in Int /\ l \in Int /\ f.synced \in Int /\ at - 1 \in Int
      BY <1>1, <1>2
    <3> QED BY <3>1, MaxMin
  <2> QED BY <2>1 DEF Write, at, l
<1>6. s \in Nat /\ s <= top
  BY <1>1, <1>2
<1>7. append[p] \/ written[p] = l =>
        top = l + 1 /\ (\A i \in 1 .. l : d[i] = f.data[i]) /\ d[l + 1] = Head(body[p])
  BY <1>1, <1>2
<1> HIDE DEF d, s, top
<1>8. Write(p, f).data = d /\ Write(p, f).synced = s
  BY <1>5
<1>9. IsFile(Write(p, f))
  BY <1>4, <1>5, <1>6 DEF IsFile
<1> QED BY <1>4, <1>7, <1>8, <1>9 DEF l

LEMMA TailFacts ==
  ASSUME NEW S, NEW q \in Seq(S), q # <<>>
  PROVE  /\ Tail(q) \in Seq(S) /\ Len(q) \in Nat \ {0} /\ Len(Tail(q)) = Len(q) - 1
         /\ Head(q) = q[1] /\ \A i \in 1 .. Len(q) - 1 : Tail(q)[i] = q[i + 1]
<1>1. Len(q) \in Nat \ {0}
  BY EmptySeq, LenProperties
<1>2. /\ Tail(q) \in Seq(S) /\ Len(Tail(q)) = Len(q) - 1
      /\ \A i \in 1 .. Len(Tail(q)) : Tail(q)[i] = q[i + 1]
  BY HeadTailProperties
<1>3. Head(q) = q[1]
  BY HeadTailProperties
<1> QED BY <1>1, <1>2, <1>3

LEMMA RestShrinks ==
  ASSUME NEW S, NEW q \in Seq(S), q # <<>>, NEW n \in Nat, IsRest(q, n)
  PROVE  Head(q) = n + 1 /\ IsRest(Tail(q), n + 1)
<1>1. /\ Len(q) \in Nat \ {0} /\ Len(Tail(q)) = Len(q) - 1 /\ Head(q) = q[1]
      /\ \A i \in 1 .. Len(q) - 1 : Tail(q)[i] = q[i + 1]
  BY TailFacts
<1>2. Len(q) = Size - n /\ Size \in Nat /\ \A i \in 1 .. Len(q) : q[i] = n + i
  BY ApprovedFacts DEF IsRest
<1>3. Len(Tail(q)) = Size - (n + 1)
  BY <1>1, <1>2
<1>4. \A i \in 1 .. Len(Tail(q)) : Tail(q)[i] = n + 1 + i
  <2> SUFFICES ASSUME NEW i \in 1 .. Len(q) - 1 PROVE Tail(q)[i] = n + 1 + i
    BY <1>1
  <2>1. i + 1 \in 1 .. Len(q) /\ n + (i + 1) = n + 1 + i
    BY <1>1
  <2> QED BY <1>1, <1>2, <2>1
<1> QED BY <1>1, <1>2, <1>3, <1>4 DEF IsRest

LEMMA StartGrows ==
  ASSUME NEW d, NEW e, IsStart(d), Len(d) \in Nat, Len(e) = Len(d) + 1, Len(e) <= Size,
         \A i \in 1 .. Len(d) : e[i] = d[i], e[Len(d) + 1] = Len(d) + 1
  PROVE  IsStart(e)
<1> SUFFICES ASSUME NEW i \in 1 .. Len(d) + 1 PROVE e[i] = i
  BY DEF IsStart
<1>1. i \in 1 .. Len(d) \/ i = Len(d) + 1
  OBVIOUS
<1> QED BY <1>1 DEF IsStart

(* A run that nobody overlaps writes the next block to the part file.      *)
LEMMA ReadKeeps ==
  ASSUME IInv, NEW p \in Runs, Read(p)
  PROVE  IInv'
<1>1. /\ p \in Active /\ pc[p] = "read" /\ body[p] # <<>> /\ written[p] < Size
      /\ part' = (IF handle[p] = "part" THEN Write(p, part) ELSE part)
      /\ dest' = (IF handle[p] = "dest" THEN Write(p, dest) ELSE dest)
      /\ written' = [written EXCEPT ![p] = @ + 1] /\ body' = [body EXCEPT ![p] = Tail(@)]
      /\ UNCHANGED <<object, manifest, pc, offset, handle, append, alone, taint>>
  BY DEF Read, ReadWrites, Active, Ended, history
<1>2. /\ handle[p] = "part" => IsFile(part) /\ IsFile(part')
      /\ handle[p] = "dest" => IsFile(dest) /\ IsFile(dest')
      /\ IsFile(part) => IsFile(part')
      /\ IsFile(dest) => IsFile(dest')
  BY <1>1, WriteFacts DEF IInv, HandleInv
<1>3. /\ written[p] \in Nat /\ written'[p] = written[p] + 1 /\ written[p] + 1 \in 0 .. Size
      /\ body[p] \in Seq(0 .. Size) /\ body'[p] = Tail(body[p])
      /\ Tail(body[p]) \in Seq(0 .. Size)
  <2>1. written[p] \in 0 .. Size /\ body[p] \in Seq(0 .. Size) /\ Size \in Nat
    BY ApprovedFacts DEF IInv, Types
  <2>2. Tail(body[p]) \in Seq(0 .. Size)
    BY <1>1, <2>1, TailFacts
  <2> QED BY <1>1, <2>1, <2>2 DEF IInv, Types
<1>4. Types' /\ HandleInv'
  <2>1. written' \in [Runs -> 0 .. Size] /\ body' \in [Runs -> Seq(0 .. Size)]
    BY <1>1, <1>3 DEF IInv, Types
  <2>2. (IsFile(part') \/ part' = Absent) /\ (IsFile(dest') \/ dest' = Absent)
    BY <1>1, <1>2 DEF IInv, Types
  <2> QED BY <1>1, <1>2, <2>1, <2>2 DEF IInv, Types, HandleInv, IsFile, Absent
<1>5. AloneInv'
  BY <1>1 DEF IInv, AloneInv, Active
<1>6. p \in alone =>
        /\ dest' = dest /\ Len(part'.data) = written[p] + 1 /\ Len(part.data) = written[p]
        /\ \A i \in 1 .. Len(part.data) : part'.data[i] = part.data[i]
        /\ part'.data[written[p] + 1] = Head(body[p])
        /\ handle[p] = "part"
        /\ "mirror" \notin taint => IsRest(body[p], written[p])
  <2> SUFFICES ASSUME p \in alone
               PROVE  /\ dest' = dest /\ Len(part'.data) = written[p] + 1
                      /\ Len(part.data) = written[p]
                      /\ \A i \in 1 .. Len(part.data) : part'.data[i] = part.data[i]
                      /\ part'.data[written[p] + 1] = Head(body[p])
                      /\ handle[p] = "part"
                      /\ "mirror" \notin taint => IsRest(body[p], written[p])
    OBVIOUS
  <2>1. /\ handle[p] = "part" /\ written[p] = Len(part.data)
        /\ "mirror" \notin taint => IsRest(body[p], written[p])
    BY <1>1, RunFacts DEF Knows
  <2> QED BY <1>1, <1>2, <2>1, WriteFacts
<1>7. KnowsInv'
  <2> SUFFICES ASSUME p \in alone PROVE Knows(p)'
    BY <1>1, RunFacts DEF KnowsInv
  <2>1. "mirror" \notin taint' => IsRest(body'[p], written'[p])
    BY <1>1, <1>3, <1>6, RestShrinks
  <2> QED BY <1>1, <1>3, <1>6, <2>1 DEF Knows
<1>8. PublishedInv'
  <2>1. "overlap" \notin taint => dest' = dest
    BY <1>1, <1>6, RunFacts
  <2> QED BY <1>1, <2>1 DEF IInv, PublishedInv, OnDisk, Verified
<1>9. PartInv'
  <2> SUFFICES ASSUME "overlap" \notin taint'
               PROVE  /\ Len(part'.data) <= Size
                      /\ "mirror" \notin taint' /\ "power" \notin taint' =>
                           IsStart(part'.data)
    BY DEF PartInv
  <2>1. p \in alone
    BY <1>1, RunFacts
  <2>2. Len(part'.data) <= Size
    BY <1>1, <1>3, <1>6, <2>1, ApprovedFacts
  <2>3. ASSUME "mirror" \notin taint', "power" \notin taint' PROVE IsStart(part'.data)
    <3>1. IsStart(part.data) /\ IsRest(body[p], written[p])
      BY <1>1, <1>6, <2>1, <2>3 DEF IInv, PartInv
    <3>2. Head(body[p]) = written[p] + 1
      BY <1>1, <1>3, <3>1, RestShrinks
    <3>3. Len(part.data) \in Nat
      BY <1>3, <1>6, <2>1
    <3> QED BY <1>6, <2>1, <2>2, <3>1, <3>2, <3>3, StartGrows
  <2> QED BY <2>2, <2>3
<1> QED BY <1>1, <1>4, <1>5, <1>7, <1>8, <1>9, MirrorKeeps DEF IInv

LEMMA SyncedFacts ==
  ASSUME NEW f, IsFile(f)
  PROVE  IsFile(Synced(f)) /\ Synced(f).data = f.data /\ Synced(f).synced = Len(f.data)
<1>1. f \in [data : Seq(0 .. Size), synced : Nat] /\ Len(f.data) \in Nat
  BY FileFacts DEF IsFile
<1>2. /\ Synced(f) \in [data : Seq(0 .. Size), synced : Nat]
      /\ Synced(f).data = f.data /\ Synced(f).synced = Len(f.data)
  BY <1>1 DEF Synced
<1> QED BY <1>1, <1>2 DEF IsFile

LEMMA SyncKeeps ==
  ASSUME IInv, NEW p \in Runs, Sync(p)
  PROVE  IInv'
<1>1. /\ p \in Active /\ pc[p] = "read" /\ Closed(p) /\ Goto(p, "verify part")
      /\ part' = (IF handle[p] = "part" THEN Synced(part) ELSE part)
      /\ dest' = (IF handle[p] = "dest" THEN Synced(dest) ELSE dest)
      /\ UNCHANGED <<object, manifest, alone, taint>>
  BY DEF Sync, Active, Ended, history
<1>2. /\ part'.data = part.data /\ dest'.data = dest.data
      /\ IsFile(part) => IsFile(part')
      /\ IsFile(dest) => IsFile(dest')
      /\ handle[p] = "part" => part'.synced = Len(part'.data)
  BY <1>1, SyncedFacts DEF IInv, HandleInv
<1>3. pc'[p] = "verify part"
  BY <1>1 DEF Goto, IInv, Types
<1>4. p \in alone => handle[p] = "part" /\ dest' = dest /\ Knows(p)'
  <2> SUFFICES ASSUME p \in alone PROVE handle[p] = "part" /\ dest' = dest /\ Knows(p)'
    OBVIOUS
  <2>1. handle[p] = "part"
    BY <1>1, RunFacts DEF Knows
  <2> QED BY <1>1, <1>2, <1>3, <2>1 DEF Knows, OnDisk
<1>5. pc' \in [Runs -> Places] /\ AloneInv' /\ KnowsInv'
  BY <1>1, <1>4, GoesOn DEF Places, Ended
<1>6. Types' /\ HandleInv'
  <2>1. (IsFile(part') \/ part' = Absent) /\ (IsFile(dest') \/ dest' = Absent)
    BY <1>1, <1>2, SyncedFacts DEF IInv, Types, HandleInv
  <2>2. HandleInv'
    BY <1>1, <1>2, ClosedFacts DEF IInv, HandleInv, IsFile
  <2> QED BY <1>1, <1>5, <2>1, <2>2, ClosedFacts DEF IInv, Types, IsFile, Absent
<1>7. PublishedInv'
  <2>1. "overlap" \notin taint => dest' = dest
    BY <1>1, <1>4, RunFacts
  <2> QED BY <1>1, <2>1 DEF IInv, PublishedInv, OnDisk, Verified
<1>8. PartInv'
  BY <1>1, <1>2 DEF IInv, PartInv, IsStart
<1> QED BY <1>1, <1>5, <1>6, <1>7, <1>8, MirrorKeeps DEF IInv

(* What was verified gets the model's name.                                *)
LEMMA ReplaceKeeps ==
  ASSUME IInv, NEW p \in Runs, Replace(p)
  PROVE  IInv'
<1>1. /\ p \in Active /\ pc[p] = "replace" /\ part # Absent /\ Goto(p, "manifest")
      /\ dest' = part /\ part' = Absent
      /\ handle' = Follow(Follow(handle, "dest", "gone"), "part", "dest")
      /\ UNCHANGED <<object, manifest, offset, body, written, append, alone, taint>>
  BY DEF Replace, Active, Ended, history
<1>2. pc'[p] = "manifest"
  BY <1>1 DEF Goto, IInv, Types
<1>3. p \in alone => Verified(part) /\ OnDisk(part)
  BY <1>1, RunFacts DEF Knows
<1>4. p \in alone => Knows(p)'
  BY <1>1, <1>2, <1>3 DEF Knows, Verified
<1>5. pc' \in [Runs -> Places] /\ AloneInv' /\ KnowsInv'
  BY <1>1, <1>4, GoesOn DEF Places, Ended
<1>6. Types' /\ HandleInv'
  <2>1. IsFile(dest')
    BY <1>1 DEF IInv, Types
  <2>2. /\ handle' \in [Runs -> {"none", "part", "dest", "gone"}]
        /\ \A q \in Runs : handle'[q] # "part"
    BY <1>1 DEF Follow, IInv, Types
  <2> QED BY <1>1, <1>5, <2>1, <2>2 DEF IInv, Types, HandleInv, IsFile, Absent
<1>7. PublishedInv'
  BY <1>1, <1>3, RunFacts DEF PublishedInv, OnDisk, Verified
<1>8. PartInv'
  <2>1. Len(part'.data) = 0
    BY <1>1, FileFacts
  <2> QED BY <2>1, ApprovedFacts DEF PartInv, IsStart
<1> QED BY <1>1, <1>5, <1>6, <1>7, <1>8, MirrorKeeps DEF IInv

LEMMA EndingKeeps ==
  ASSUME IInv, NEW p \in Runs, Exceeds(p) \/ WriteManifest(p) \/ Breaks(p)
  PROVE  IInv'
<1>1. /\ p \in Active /\ UNCHANGED <<object, part, dest, taint>> /\ manifest' \in BOOLEAN
      /\ \E outcome \in Ended : Ends(p, outcome)
  BY DEF Exceeds, WriteManifest, Breaks, Active, Ended, files, IInv, Types
<1> QED BY <1>1, EndsKeeps

-----------------------------------------------------------------------------
(* The environment.                                                        *)

(* A power loss shortens a file or damages what was not on the disk.       *)
LEMMA TornFacts ==
  ASSUME NEW f, IsFile(f) \/ f = Absent, NEW g \in Torn(f)
  PROVE  /\ IsFile(g) \/ g = Absent
         /\ Len(g.data) <= Len(f.data)
         /\ g # Absent => f # Absent /\ g.synced = Len(g.data)
         /\ f.synced = Len(f.data) => g.data = f.data
<1>1. CASE f = Absent
  BY <1>1, FileFacts DEF Torn
<1>2. CASE f # Absent
  <2> DEFINE cut(n, lost) == [i \in 1 .. n |-> IF i \in lost THEN 0 ELSE f.data[i]]
  <2>1. /\ IsFile(f) /\ f.data \in Seq(0 .. Size) /\ Len(f.data) \in Nat /\ f.synced \in Nat
        /\ f.synced <= Len(f.data) /\ DOMAIN f.data = 1 .. Len(f.data)
        /\ \A i \in 1 .. Len(f.data) : f.data[i] \in 0 .. Size
    BY <1>2, FileFacts, ElementOfSeq DEF IsFile
  <2>2. PICK n \in f.synced .. Len(f.data), lost \in SUBSET (f.synced + 1 .. Len(f.data)) :
          g = [data |-> cut(n, lost), synced |-> n]
    <3>1. Torn(f) = {[data |-> cut(n, lost), synced |-> n] :
                n \in f.synced .. Len(f.data), lost \in SUBSET (f.synced + 1 .. Len(f.data))}
      BY <1>2 DEF Torn
    <3> HIDE DEF cut
    <3> QED BY <3>1
  <2>3. n \in Nat /\ n <= Len(f.data) /\ 0 \in 0 .. Size
    BY <2>1, ApprovedFacts
  <2>4. cut(n, lost) \in [1 .. n -> 0 .. Size]
    BY <2>1, <2>3
  <2>5. f.synced = Len(f.data) => cut(n, lost) = f.data
    <3> SUFFICES ASSUME f.synced = Len(f.data) PROVE cut(n, lost) = f.data
      OBVIOUS
    <3>1. n = Len(f.data) /\ \A i \in 1 .. n : i \notin lost
      BY <2>1, <2>3
    <3>2. \A i \in 1 .. n : cut(n, lost)[i] = f.data[i]
      BY <3>1
    <3> HIDE DEF cut
    <3>3. f.data \in [1 .. n -> 0 .. Size]
      BY <2>1, <3>1, LenProperties
    <3> QED BY <2>4, <3>2, <3>3
  <2> HIDE DEF cut
  <2>6. cut(n, lost) \in Seq(0 .. Size) /\ Len(cut(n, lost)) = n
    <3>1. cut(n, lost) \in Seq(0 .. Size)
      BY <2>3, <2>4, SeqDef
    <3> QED BY <2>3, <2>4, <3>1, LenProperties
  <2>7. g.data = cut(n, lost) /\ g.synced = n
    BY <2>2
  <2>8. IsFile(g)
    BY <2>2, <2>3, <2>6 DEF IsFile
  <2> QED BY <1>2, <2>3, <2>5, <2>6, <2>7, <2>8
<1> QED BY <1>1, <1>2

LEMMA PowerLossKeeps ==
  ASSUME IInv, PowerLoss
  PROVE  IInv'
<1>1. /\ part' \in Torn(part) /\ dest' \in Torn(dest) /\ alone' = {}
      /\ pc' = [p \in Runs |-> "idle"] /\ handle' = [p \in Runs |-> "none"]
      /\ offset' = [p \in Runs |-> 0] /\ written' = [p \in Runs |-> 0]
      /\ body' = [p \in Runs |-> <<>>] /\ append' = [p \in Runs |-> FALSE]
      /\ UNCHANGED <<object, manifest>> /\ taint' = taint \cup {"power"}
  BY DEF PowerLoss
<1>2. /\ IsFile(part') \/ part' = Absent
      /\ Len(part'.data) <= Len(part.data)
      /\ Len(part'.data) \in Nat /\ Len(part.data) \in Nat
  BY <1>1, TornFacts, FileFacts DEF IInv, Types
<1>3. /\ IsFile(dest') \/ dest' = Absent
      /\ dest' # Absent => dest # Absent /\ dest'.synced = Len(dest'.data)
      /\ dest.synced = Len(dest.data) => dest'.data = dest.data
  BY <1>1, TornFacts DEF IInv, Types
<1>4. Types' /\ HandleInv'
  <2>1. offset' \in [Runs -> 0 .. Size] /\ written' \in [Runs -> 0 .. Size]
    BY <1>1, ApprovedFacts
  <2>2. body' \in [Runs -> Seq(0 .. Size)]
    BY <1>1, EmptySeq
  <2> QED BY <1>1, <1>2, <1>3, <2>1, <2>2 DEF IInv, Types, HandleInv, Places, IsFile, Absent
<1>5. AloneInv' /\ KnowsInv'
  BY <1>1 DEF AloneInv, KnowsInv, Active, Ended
<1>6. PublishedInv'
  <2> SUFFICES ASSUME "overlap" \notin taint', dest' # Absent
               PROVE  /\ "unsynced" \notin taint' => Verified(dest)'
                      /\ OnDisk(dest)'
    BY <1>1 DEF PublishedInv
  <2>1. "unsynced" \notin taint => Verified(dest) /\ OnDisk(dest)
    BY <1>1, <1>3 DEF IInv, PublishedInv
  <2> QED BY <1>1, <1>3, <2>1 DEF OnDisk, Verified
<1>7. PartInv'
  BY <1>1, <1>2, ApprovedFacts DEF IInv, PartInv
<1>8. MirrorInv'
  BY <1>1 DEF IInv, MirrorInv
<1> QED BY <1>4, <1>5, <1>6, <1>7, <1>8 DEF IInv

LEMMA MirrorChangesKeeps ==
  ASSUME IInv, MirrorChanges
  PROVE  IInv'
<1>1. /\ UNCHANGED <<part, dest, manifest, pc, offset, body, written, handle, append, alone>>
      /\ object' \in Objects /\ taint' = taint \cup {"mirror"}
  BY DEF MirrorChanges, files, locals
<1>2. Types' /\ HandleInv' /\ AloneInv'
  BY <1>1 DEF IInv, Types, HandleInv, AloneInv, Active, IsFile, Absent
<1>3. KnowsInv'
  BY <1>1 DEF IInv, KnowsInv, Knows, OnDisk, Verified
<1>4. PartInv' /\ MirrorInv'
  BY <1>1 DEF IInv, PartInv, MirrorInv
<1> QED BY <1>1, <1>2, <1>3, <1>4, PublishedKeeps DEF IInv

-----------------------------------------------------------------------------
LEMMA InitInv == Init => IInv
<1> SUFFICES ASSUME Init PROVE IInv
  OBVIOUS
<1>1. Types /\ HandleInv
  <2>1. offset \in [Runs -> 0 .. Size] /\ written \in [Runs -> 0 .. Size]
    BY ApprovedFacts DEF Init
  <2>2. body \in [Runs -> Seq(0 .. Size)]
    BY EmptySeq DEF Init
  <2> QED BY <2>1, <2>2 DEF Init, Types, HandleInv, Places
<1>2. AloneInv /\ KnowsInv /\ MirrorInv
  BY DEF Init, AloneInv, KnowsInv, MirrorInv, Active, Ended
<1>3. PublishedInv
  BY DEF Init, PublishedInv
<1>4. PartInv
  <2>1. Len(part.data) = 0
    BY FileFacts DEF Init
  <2> QED BY <2>1, ApprovedFacts DEF PartInv, IsStart
<1> QED BY <1>1, <1>2, <1>3, <1>4 DEF IInv

LEMMA StepKeeps ==
  ASSUME IInv, [Next]_vars
  PROVE  IInv'
<1>1. CASE \E p \in Runs : Run(p)
  <2>1. PICK p \in Runs : Run(p)
    BY <1>1
  <2> QED BY <2>1, StartKeeps, DiscardKeeps, ExistsKeeps, VerifyKeeps, StatKeeps, AnswerKeeps,
             NothingLeftKeeps, OpenKeeps, ReadKeeps, SyncKeeps, ReplaceKeeps, EndingKeeps
          DEF Run
<1>2. CASE PowerLoss
  BY <1>2, PowerLossKeeps
<1>3. CASE MirrorChanges
  BY <1>3, MirrorChangesKeeps
<1>4. CASE UNCHANGED vars
  BY <1>4 DEF vars, files, locals, history, IInv, Types, HandleInv, AloneInv, KnowsInv, Knows,
     PublishedInv, PartInv, MirrorInv, Active, OnDisk, Verified, IsFile, Absent, IsStart
<1> QED BY <1>1, <1>2, <1>3, <1>4 DEF Next

(* The invariant holds of every state of the runs and of the disk.         *)
THEOREM Invariance == Spec => []IInv
  BY InitInv, StepKeeps, PTL DEF Spec

-----------------------------------------------------------------------------
(* Types, for any number of runs; and no part file outgrows the artifact   *)
(* unless runs overlap (download_qwen_gcp.py:141).                         *)
THEOREM TypeCorrect == Spec => []TypeOK
<1>1. IInv => TypeOK
  <2> SUFFICES ASSUME IInv PROVE TypeOK
    OBVIOUS
  <2>1. \A file \in {part, dest} :
          file = Absent \/ (file.data \in Seq(0 .. Size) /\ file.synced \in 0 .. Len(file.data))
    BY FileFacts DEF IInv, Types, IsFile
  <2>2. alone \subseteq Active /\ ("overlap" \notin taint => Len(part.data) <= Size)
    BY DEF IInv, AloneInv, PartInv
  <2> QED BY <2>1, <2>2 DEF IInv, Types, TypeOK
<1> QED BY <1>1, Invariance, PTL

(* Whatever the mirror serves and wherever runs are killed, the model's    *)
(* name leads to the approved bytes or to nothing, with the two exceptions *)
(* that the property names (download_qwen_gcp.py:192-201).                 *)
THEOREM PublishedStaysApproved == Spec => []PublishedIsApproved
<1>1. IInv => PublishedIsApproved
  BY DEF IInv, PublishedInv, PublishedIsApproved
<1> QED BY <1>1, Invariance, PTL

(* A part file that neither the mirror, nor a power loss, nor a second run *)
(* has spoilt is the start of the artifact (download_qwen_gcp.py:176-190). *)
THEOREM ResumeStaysSound == Spec => []ResumeIsSound
<1>1. IInv => ResumeIsSound
  <2> SUFFICES ASSUME IInv, taint \subseteq {"unsynced"} PROVE IsPrefix(part.data, Approved)
    BY DEF ResumeIsSound
  <2>1. IsStart(part.data) /\ part.data \in Seq(0 .. Size)
    BY FileFacts DEF IInv, Types, PartInv
  <2> QED BY <2>1, StartIsPrefix
<1> QED BY <1>1, Invariance, PTL

(* A run that none overlaps reports success for the approved artifact and  *)
(* its manifest alone, whatever it found (download_qwen_gcp.py:171-202).   *)
THEOREM AloneStaysSound == Spec => AloneIsSound
<1>1. ASSUME IInv, [Next]_vars
      PROVE  [\A p \in Runs : p \in alone /\ pc'[p] = "done" => Verified(dest) /\ manifest']_vars
  <2> SUFFICES ASSUME Next, NEW p \in Runs, p \in alone, pc'[p] = "done"
               PROVE  Verified(dest) /\ manifest'
    BY <1>1
  <2>1. pc \in [Runs -> Places] /\ pc[p] \notin Ended /\ \A q \in Active : q = p
    BY <1>1 DEF IInv, Types, AloneInv, Active
  <2>2. PICK q \in Runs : Run(q)
    BY <2>1 DEF Next, PowerLoss, MirrorChanges, Ended
  <2>3. CASE \E force \in BOOLEAN : Start(q, force)
    BY <2>1, <2>3 DEF Start, Goto, Ended
  <2>4. CASE WriteManifest(q)
    <3>1. q = p
      BY <2>1, <2>4 DEF WriteManifest, Active, Ended
    <3> QED BY <1>1, <2>4, <3>1 DEF WriteManifest, IInv, KnowsInv, Knows
  <2>5. CASE ~(\E force \in BOOLEAN : Start(q, force)) /\ ~WriteManifest(q)
    <3>1. /\ q = p
      BY <2>1, <2>2, <2>5 DEF Run, DiscardDest, DiscardPart, Exists, VerifyDest, Stat, Answer,
         Answered, NothingLeft, Open, Read, ReadWrites, Exceeds, Sync, VerifyPart, Replace,
         Breaks, Active, Ended
    <3>2. pc'[p] # "done"
      BY <2>1, <2>2, <2>5, <3>1 DEF Run, DiscardDest, DiscardPart, Exists, VerifyDest, Stat,
         Answer, Answered, NothingLeft, Open, Read, ReadWrites, Exceeds, Sync, VerifyPart,
         Replace, Breaks, Ends, Goto, Ended
    <3> QED BY <3>2
  <2> QED BY <2>3, <2>4, <2>5
<1> QED BY <1>1, Invariance, PTL DEF Spec, AloneIsSound
=============================================================================

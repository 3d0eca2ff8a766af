----------------------------- MODULE StopFilter -----------------------------
(***************************************************************************)
(* The stop filter of a Transformers stream, _BufferedStopFilter, against  *)
(* what it stands for, _truncate_at_stop on the whole text, for every way  *)
(* to split a text into chunks (engines/transformers.py:22-60).            *)
(***************************************************************************)
EXTENDS Integers, SequencesExt

CONSTANTS Chars,
          MaxStop,   \* bound: characters of a stop string
          MaxStops,  \* bound: stop strings of a request
          MaxChunk,  \* bound: characters of a chunk
          MaxText    \* bound: characters the model generates

ASSUME StopFilterAssumption == {MaxStop, MaxStops, MaxChunk, MaxText} \subseteq Nat

VARIABLES
  stops,    \* the request's stop strings
  text,     \* what the model has generated
  seen,     \* how much of it was pushed before the filter stopped
  buffer, stopped,  \* the filter
  emitted,  \* all it has returned
  closed    \* finish() was called

vars == <<stops, text, seen, buffer, stopped, emitted, closed>>

Strings == BoundedSeq(Chars, MaxStop) \ {<<>>}

Init ==
  /\ stops \in SUBSET Strings /\ Cardinality(stops) <= MaxStops
  /\ text = <<>> /\ seen = 0
  /\ buffer = <<>> /\ stopped = FALSE /\ emitted = <<>> /\ closed = FALSE

-----------------------------------------------------------------------------
Positions(t) ==
  {i \in DOMAIN t : \E s \in stops : IsPrefix(s, SubSeq(t, i, Len(t)))}

Truncate(t) == SubSeq(t, 1, Min(Positions(t)) - 1)

(* Defect: one character too few for the longest stop string.             *)
TailShort == Max({Len(s) - 2 : s \in stops} \cup {0})

TailChars == Max({Len(s) - 1 : s \in stops} \cup {0})

(* How much of t is let out.                                              *)
LetOut(t) == Max({Len(t) - TailChars, 0})

Push(chunk) ==
  /\ ~closed /\ Len(text) + Len(chunk) <= MaxText
  /\ text' = text \o chunk
  /\ IF stopped THEN UNCHANGED <<seen, buffer, stopped, emitted>>
     ELSE LET t == buffer \o chunk IN
          /\ seen' = Len(text')
          /\ stopped' = (Positions(t) # {})
          /\ LET out == IF stopped' THEN Truncate(t) ELSE SubSeq(t, 1, LetOut(t)) IN
             /\ emitted' = emitted \o out
             /\ buffer' = IF stopped' THEN <<>> ELSE SubSeq(t, Len(out) + 1, Len(t))
  /\ UNCHANGED <<stops, closed>>

(* Defect: what is held back at the end is forgotten.                     *)
FinishDropping ==
  /\ ~closed /\ closed' = TRUE /\ buffer' = <<>>
  /\ UNCHANGED <<stops, text, seen, stopped, emitted>>

Finish ==
  /\ ~closed /\ closed' = TRUE
  /\ emitted' = emitted \o buffer /\ buffer' = <<>>
  /\ UNCHANGED <<stops, text, seen, stopped>>

Closed == closed /\ UNCHANGED vars

Next == (\E chunk \in BoundedSeq(Chars, MaxChunk) : Push(chunk)) \/ Finish \/ Closed

Spec == Init /\ [][Next]_vars

-----------------------------------------------------------------------------
(* Less is held back than the longest stop string has (36, 50-53).        *)
TypeOK ==
  /\ stops \subseteq Strings
  /\ text \in BoundedSeq(Chars, MaxText) /\ seen \in 0 .. Len(text)
  /\ buffer \in BoundedSeq(Chars, TailChars)
  /\ stopped \in BOOLEAN /\ closed \in BOOLEAN
  /\ emitted \in BoundedSeq(Chars, MaxText)

Reference(t) == IF Positions(t) = {} THEN t ELSE Truncate(t)

(* A stream shows what _truncate_at_stop leaves of the text that had been *)
(* pushed when a stop string was first complete, or of all the text, and  *)
(* before that all but what is held back (transformers.py:38-60).         *)
StreamIsTruncation ==
  IF stopped \/ closed
  THEN /\ emitted = Reference(SubSeq(text, 1, seen))
       /\ stopped = (Positions(SubSeq(text, 1, seen)) # {})
  ELSE emitted \o buffer = text /\ Positions(text) = {}

(* With stop strings of one length the chunks do not matter: a stream and *)
(* a plain completion of the same text are the same (188, 262).           *)
SameAsGenerate ==
  (\A s, t \in stops : Len(s) = Len(t)) /\ closed => emitted = Reference(text)
=============================================================================

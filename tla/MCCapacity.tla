----------------------------- MODULE MCCapacity -----------------------------
(***************************************************************************)
(* Instances of Capacity for TLC: four requests for one or two permits, so *)
(* that two can be in line while a third resumes and a fourth arrives.     *)
(***************************************************************************)
EXTENDS Capacity

CONSTANTS a, b, c, d

Three == {a, b, c}
Four == {a, b, c, d}
Streams1 == {a}
=============================================================================

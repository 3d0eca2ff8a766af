----------------------------- MODULE MCService -----------------------------
(***************************************************************************)
(* An instance of Service for TLC: a stream and two plain requests that    *)
(* share one permit, so that two wait while the server is stopped.         *)
(***************************************************************************)
EXTENDS Service

CONSTANTS a, b, c

Three == {a, b, c}
Streams == {a}
=============================================================================

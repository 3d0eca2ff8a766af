----------------------------- MODULE PermitPool -----------------------------
(***************************************************************************)
(* What the capacity limit promises: at most Permits clients hold one at a *)
(* time, and those who have to wait for one stand in a line, enter from    *)
(* its head, and may give up; a client passes by the line only when it is  *)
(* empty.  The line is the clients in it and who is ahead of whom.         *)
(***************************************************************************)
EXTENDS FiniteSets, Naturals

CONSTANTS Clients, Permits
VARIABLES holders, line, ahead

vars == <<holders, line, ahead>>

Free == Cardinality(holders) < Permits
Outside == Clients \ (holders \cup line)

Init == holders = {} /\ line = {} /\ ahead = {}

(* c leaves the line; the others keep their order.                         *)
Without(c) == /\ line' = line \ {c}
              /\ ahead' = {p \in ahead : p[1] # c /\ p[2] # c}

WalkIn(c) == c \in Outside /\ line = {} /\ Free
             /\ holders' = holders \cup {c} /\ UNCHANGED <<line, ahead>>
Join(c) == c \in Outside
           /\ line' = line \cup {c} /\ ahead' = ahead \cup (line \X {c})
           /\ UNCHANGED holders
Enter(c) == c \in line /\ (\A d \in line : <<d, c>> \notin ahead) /\ Free
            /\ holders' = holders \cup {c} /\ Without(c)
GiveUp(c) == c \in line /\ Without(c) /\ UNCHANGED holders
Leave(c) == c \in holders /\ holders' = holders \ {c} /\ UNCHANGED <<line, ahead>>

Next == \E c \in Clients : WalkIn(c) \/ Join(c) \/ Enter(c) \/ GiveUp(c) \/ Leave(c)

Spec == Init /\ [][Next]_vars
=============================================================================

----------------------------- MODULE EngineLife -----------------------------
(***************************************************************************)
(* What the life cycle assumes of an engine (engines/base.py, and the      *)
(* thread actions of Lifecycle): load publishes its model once, before it  *)
(* returns; one that fails may or may not take it back; unload always      *)
(* does.  Nothing else changes whether a model is resident.                *)
(***************************************************************************)
CONSTANT Callers  \* the tasks that call unload

VARIABLES resident,  \* the engine holds a model
          job,       \* the thread in engine.load
          unload     \* the thread of each caller in engine.unload

vars == <<resident, job, unload>>

Init == resident = FALSE /\ job = "loading" /\ unload = [c \in Callers |-> "none"]

Publish ==
  /\ job = "loading" /\ job' = "published" /\ resident' = TRUE
  /\ UNCHANGED unload

Return == job = "published" /\ job' = "ok" /\ UNCHANGED <<resident, unload>>

Fail ==
  /\ job \in {"loading", "published"} /\ job' = "failed"
  /\ resident' \in {resident, FALSE}
  /\ UNCHANGED unload

Call(c) ==
  /\ unload[c] = "none" /\ unload' = [unload EXCEPT ![c] = "queued"]
  /\ UNCHANGED <<resident, job>>

Clear(c) ==
  /\ unload[c] = "queued" /\ unload' = [unload EXCEPT ![c] = "cleared"]
  /\ resident' = FALSE /\ UNCHANGED job

End(c) ==
  /\ unload[c] = "cleared"
  /\ \E how \in {"returned", "raised"} : unload' = [unload EXCEPT ![c] = how]
  /\ UNCHANGED <<resident, job>>

Next == \/ Publish \/ Return \/ Fail
        \/ \E c \in Callers : Call(c) \/ Clear(c) \/ End(c)

Spec == Init /\ [][Next]_vars
=============================================================================

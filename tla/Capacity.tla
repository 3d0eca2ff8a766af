------------------------------ MODULE Capacity ------------------------------
(***************************************************************************)
(* Chat requests competing for generation permits: ModelManager.generate   *)
(* and .stream (model/manager.py) around their asyncio.Semaphore, the two  *)
(* route handlers that call them under a generation timeout                *)
(* (api/routes_chat.py), and the engine threads that do the work           *)
(* (engines/transformers.py).                                              *)
(*                                                                         *)
(* A request is one asyncio task; an action is what it does between two    *)
(* awaits.  A timeout or a server cancellation reaches a task at its       *)
(* current await; a semaphore waiter learns of it only when the loop       *)
(* resumes it, and other tasks run in between.                             *)
(***************************************************************************)
EXTENDS FiniteSets, Integers, SequencesExt

CONSTANTS Requests,      \* the chat requests
          Streaming,     \* those that ask for an event stream
          MaxConcurrent  \* settings.max_concurrent_requests

ASSUME CapacityAssumption == /\ IsFiniteSet(Requests)
                             /\ Streaming \subseteq Requests
                             /\ MaxConcurrent \in Nat \ {0}

VARIABLES
  pc,          \* where each request is
  result,      \* how it ends, or would end if nothing else happened to it
  phase,       \* of the manager's life: manager.ready is phase = "up"
  value,       \* Semaphore._value
  waiters,     \* Semaphore._waiters, the requests whose futures it holds
  inProgress,  \* the in_progress gauge
  work         \* the requests for which an engine thread is generating

vars == <<pc, result, phase, value, waiters, inProgress, work>>

Handed == {"granted", "revoked"}           \* future done: a permit is set aside
Lined == {"waiting", "granted"}             \* in line for a permit, or about to have one
Queued == Handed \cup {"waiting", "cancelled"}
Holding == {"running", "sending", "abandoned", "closing"}
Interrupts == {"saturated", "timeout", "cut"}
Results == Interrupts \cup {"none", "success", "error", "unavailable",
                            "disconnected", "dropped"}

In(pcs) == {r \in Requests : pc[r] \in pcs}

Init ==
  /\ pc = [r \in Requests |-> "idle"]
  /\ result = [r \in Requests |-> "none"]
  /\ phase = "starting"
  /\ value = MaxConcurrent /\ waiters = <<>>
  /\ inProgress = 0 /\ work = {}

-----------------------------------------------------------------------------
(* asyncio.Semaphore.                                                     *)

Ahead(a, b) == \E i, j \in DOMAIN waiters : i < j /\ waiters[i] = a /\ waiters[j] = b

(* locked(): a future that is pending or done, not one that is cancelled. *)
Locked == value = 0 \/ In(Queued \ {"cancelled"}) # {}

(* The first n pending futures, all of them if they are fewer, get a      *)
(* permit.                                                                *)
Woken(n) ==
  LET pending == In({"waiting"}) IN
  {G \in SUBSET pending :
     /\ Cardinality(G) = IF n < Cardinality(pending) THEN n ELSE Cardinality(pending)
     /\ \A g \in G, p \in pending : Ahead(p, g) => p \in G}

Grant(G, f) == [r \in Requests |-> IF r \in G THEN "granted" ELSE f[r]]

(* Defect: the permit is counted back by hand, and nobody is woken.       *)
ReleaseSilently(r) ==
  /\ pc' = [pc EXCEPT ![r] = "done"]
  /\ value' = value + 1 /\ inProgress' = inProgress - 1
  /\ UNCHANGED waiters

(* release(): wakes one waiter at most. *)
Release(r) ==
  \E G \in Woken(1) :
    /\ pc' = Grant(G, [pc EXCEPT ![r] = "done"])
    /\ value' = value + 1 - Cardinality(G)
    /\ inProgress' = inProgress - 1
    /\ UNCHANGED waiters

(* acquire() resumes: its future leaves the deque, a permit granted to a  *)
(* cancelled waiter comes back, and as many as are free are handed out.   *)
LeaveQueue(r, next) ==
  LET free == IF pc[r] = "revoked" THEN value + 1 ELSE value IN
  \E G \in Woken(free) :
    /\ pc' = Grant(G, [pc EXCEPT ![r] = next])
    /\ value' = free - Cardinality(G)
    /\ \E i \in DOMAIN waiters : waiters[i] = r /\ waiters' = RemoveAt(waiters, i)

-----------------------------------------------------------------------------
(* The start of a request.                                                *)

Reject(r, why) ==
  /\ pc' = [pc EXCEPT ![r] = "done"] /\ result' = [result EXCEPT ![r] = why]
  /\ UNCHANGED <<phase, value, waiters, inProgress, work>>

(* Defect: whether to wait is decided by the semaphore's value.           *)
AcquireByValue(r) ==
  /\ IF value = 0
     THEN /\ waiters' = Append(waiters, r) /\ pc' = [pc EXCEPT ![r] = "waiting"]
          /\ UNCHANGED <<value, inProgress, work>>
     ELSE /\ value' = value - 1 /\ pc' = [pc EXCEPT ![r] = "running"]
          /\ inProgress' = inProgress + 1 /\ work' = work \cup {r}
          /\ UNCHANGED waiters
  /\ UNCHANGED <<result, phase>>

(* From manager.generate or .stream to the first await under the permit.  *)
Acquire(r) ==
  /\ IF Locked
     THEN /\ waiters' = Append(waiters, r) /\ pc' = [pc EXCEPT ![r] = "waiting"]
          /\ UNCHANGED <<value, inProgress, work>>
     ELSE /\ value' = value - 1 /\ pc' = [pc EXCEPT ![r] = "running"]
          /\ inProgress' = inProgress + 1 /\ work' = work \cup {r}
          /\ UNCHANGED waiters
  /\ UNCHANGED <<result, phase>>

Generate(r) ==
  /\ pc[r] = "idle" /\ r \notin Streaming
  /\ IF phase = "up" THEN Acquire(r) ELSE Reject(r, "unavailable")

(* The route answers a stream 200 at once; its generator starts later and *)
(* looks at the state again.                                              *)
AcceptStream(r) ==
  /\ pc[r] = "idle" /\ r \in Streaming
  /\ IF phase = "up"
     THEN /\ pc' = [pc EXCEPT ![r] = "accepted"]
          /\ UNCHANGED <<result, phase, value, waiters, inProgress, work>>
     ELSE Reject(r, "unavailable")

BeginStream(r) ==
  /\ pc[r] = "accepted"
  /\ IF phase = "up" THEN Acquire(r) ELSE Reject(r, "error")

(* The loop resumes waiters in the order their futures were granted.      *)
ResumeGranted(r) ==
  /\ pc[r] = "granted" /\ \A s \in In(Handed) : ~Ahead(s, r)
  /\ LeaveQueue(r, "running")
  /\ inProgress' = inProgress + 1 /\ work' = work \cup {r}
  /\ UNCHANGED <<result, phase>>

(* Defect: the try whose finally releases begins before the wait.         *)
ResumeReleasing(r) ==
  /\ \/ pc[r] = "cancelled"
     \/ pc[r] = "revoked" /\ \A s \in In(Handed) : ~Ahead(s, r)
  /\ \E i \in DOMAIN waiters : waiters[i] = r /\ waiters' = RemoveAt(waiters, i)
  /\ LET free == IF pc[r] = "revoked" THEN value + 2 ELSE value + 1 IN
     \E G \in Woken(free) :
       pc' = Grant(G, [pc EXCEPT ![r] = "done"]) /\ value' = free - Cardinality(G)
  /\ UNCHANGED <<result, phase, inProgress, work>>

ResumeInterrupted(r) ==
  /\ \/ pc[r] = "cancelled"
     \/ pc[r] = "revoked" /\ \A s \in In(Handed) : ~Ahead(s, r)
  /\ LeaveQueue(r, "done")
  /\ UNCHANGED <<result, phase, inProgress, work>>

-----------------------------------------------------------------------------
(* Timeouts and cancellation.                                             *)

Interrupt(r, to, why) ==
  /\ pc' = [pc EXCEPT ![r] = to] /\ result' = [result EXCEPT ![r] = why]
  /\ UNCHANGED <<phase, value, waiters, inProgress, work>>

(* Defect: the request gives up without cancelling its acquire().         *)
InterruptShielded(r, why) == pc[r] = "waiting" /\ Interrupt(r, "done", why)

InterruptWait(r, why) ==
  \/ pc[r] = "waiting" /\ Interrupt(r, "cancelled", why)
  \/ pc[r] = "granted" /\ Interrupt(r, "revoked", why)

QueueTimeout(r) == InterruptWait(r, "saturated")

(* A non-streaming task releases at once: its engine thread runs on.  A   *)
(* stream first joins its threads, for a second interrupt to cut short;   *)
(* one suspended at a yield is dropped by its consumer, which may report  *)
(* the interrupt if it was checking for a disconnection.                  *)
InterruptWork(r, why) ==
  \/ /\ pc[r] = "running" /\ r \notin Streaming
     /\ Release(r) /\ result' = [result EXCEPT ![r] = why] /\ UNCHANGED <<phase, work>>
  \/ pc[r] = "running" /\ r \in Streaming /\ Interrupt(r, "closing", why)
  \/ pc[r] = "sending" /\ Interrupt(r, "abandoned", "dropped")
  \/ pc[r] = "sending" /\ Interrupt(r, "abandoned", why)

(* Defect: the generation timeout ends with the wait for a permit.        *)
TimeoutInQueue(r) == InterruptWait(r, "timeout")

GenerationTimeout(r) ==
  \/ InterruptWait(r, "timeout")
  \/ InterruptWork(r, "timeout")
  \/ pc[r] \in {"cancelled", "revoked"} /\ result[r] = "saturated"
     /\ Interrupt(r, pc[r], "timeout")
  \/ /\ pc[r] = "closing" /\ result[r] \in {"success", "error"}
     /\ Release(r) /\ result' = [result EXCEPT ![r] = "timeout"] /\ UNCHANGED <<phase, work>>

(* The framework cancels the task: the server's grace period for requests *)
(* is over, or the client of an event stream has gone.  The task of a     *)
(* stream belongs to a cancel scope, which passes by a task whose awaited *)
(* future is done, to try again after it has resumed.                     *)
Cut(r) ==
  \/ pc[r] = "accepted" /\ Reject(r, "dropped")
  \/ (r \in Streaming => pc[r] = "waiting") /\ InterruptWait(r, "cut")
  \/ InterruptWork(r, "cut")
  \/ r \notin Streaming /\ pc[r] \in {"cancelled", "revoked"}
     /\ result[r] # "cut" /\ Interrupt(r, pc[r], "cut")
  \/ /\ pc[r] = "closing" /\ result[r] \in {"success", "error", "timeout"}
     /\ Release(r) /\ result' = [result EXCEPT ![r] = "cut"] /\ UNCHANGED <<phase, work>>

-----------------------------------------------------------------------------
(* Generation.                                                            *)

WorkEnds(r) ==
  /\ r \in work /\ work' = work \ {r}
  /\ UNCHANGED <<pc, result, phase, value, waiters, inProgress>>

Answer(r) ==  \* a non-streaming result, or the engine's exception
  /\ pc[r] = "running" /\ r \notin Streaming /\ r \notin work
  /\ Release(r)
  /\ \E how \in {"success", "unavailable"} : result' = [result EXCEPT ![r] = how]
  /\ UNCHANGED <<phase, work>>

Move(r, to, how) ==
  /\ pc' = [pc EXCEPT ![r] = to] /\ result' = [result EXCEPT ![r] = how]
  /\ UNCHANGED <<phase, value, waiters, inProgress, work>>

Streams(r, at) == r \in Streaming /\ pc[r] = at

Chunk(r) == Streams(r, "running") /\ Move(r, "sending", "none")
Sent(r) == Streams(r, "sending") /\ Move(r, "running", "none")
LastSent(r) == Streams(r, "sending") /\ r \notin work /\ Move(r, "closing", "success")
EngineFails(r) == Streams(r, "running") /\ Move(r, "closing", "error")

(* The client is gone when a chunk arrives: the route returns and leaves  *)
(* manager.stream suspended at its yield, for the loop's async-generator  *)
(* finalizer to close.                                                    *)
Disconnect(r) == Streams(r, "running") /\ Move(r, "abandoned", "disconnected")
Finalize(r) == pc[r] = "abandoned" /\ Move(r, "closing", result[r])

(* Both threads joined, or given up on after join(5.0).                   *)
Closed(r) ==
  /\ pc[r] = "closing"
  /\ Release(r) /\ UNCHANGED <<result, phase, work>>

(* The manager's own steps, in any order with the requests'.              *)
BecomeReady == phase = "starting" /\ phase' = "up"
               /\ UNCHANGED <<pc, result, value, waiters, inProgress, work>>
Stop == phase # "down" /\ phase' = "down"
        /\ UNCHANGED <<pc, result, value, waiters, inProgress, work>>

-----------------------------------------------------------------------------
Start(r) == Generate(r) \/ AcceptStream(r)
Resume(r) == ResumeGranted(r) \/ ResumeInterrupted(r)
Stream(r) == Chunk(r) \/ Sent(r) \/ LastSent(r) \/ EngineFails(r) \/ Disconnect(r)
Timers(r) == QueueTimeout(r) \/ GenerationTimeout(r)

Next ==
  \/ \E r \in Requests :
       \/ Start(r) \/ BeginStream(r) \/ Resume(r) \/ Timers(r) \/ Cut(r)
       \/ WorkEnds(r) \/ Answer(r) \/ Stream(r) \/ Finalize(r) \/ Closed(r)
  \/ BecomeReady \/ Stop

Spec == Init /\ [][Next]_vars

-----------------------------------------------------------------------------
TypeOK ==
  /\ pc \in [Requests -> Queued \cup Holding \cup {"idle", "accepted", "done"}]
  /\ result \in [Requests -> Results]
  /\ phase \in {"starting", "up", "down"}
  /\ value \in Nat /\ inProgress \in Nat
  /\ waiters \in Seq(Requests)
  /\ work \subseteq Requests

(* Through every race of grants, timeouts and releases no permit is lost  *)
(* or minted: those free, those set aside for a waiter that has yet to    *)
(* resume and those in use make MAX_CONCURRENT_REQUESTS, and the          *)
(* in_progress gauge counts the latter (manager.py:149-162, 166-184).     *)
PermitsConserved ==
  /\ value + Cardinality(In(Handed)) + Cardinality(In(Holding)) = MaxConcurrent
  /\ inProgress = Cardinality(In(Holding))

(* A free permit never sits beside a pending waiter unless a granted one  *)
(* is about to resume and hand it on: no wakeup is lost when a queue      *)
(* timeout meets a grant (manager.py:150-154).                            *)
NoLostWakeup == value > 0 /\ In({"waiting"}) # {} => In(Handed) # {}

(* The deque holds exactly the requests inside acquire(), each once: a    *)
(* waiter that times out leaves nothing behind for release to wake.       *)
QueueIsExact == /\ ToSet(waiters) = In(Queued)
                /\ Len(waiters) = Cardinality(In(Queued))

(* docs/ARCHITECTURE.md:22, "A bounded semaphore limits active            *)
(* generations": refuted, the permit of a timed-out request is released   *)
(* while its thread generates.                                            *)
ActiveGenerationsBounded == Cardinality(work) <= MaxConcurrent

(* Capacity is a pool of permits with a line: nobody overtakes a request  *)
(* that is still waiting in it.                                           *)
Pool == INSTANCE PermitPool WITH
  Clients <- Requests, Permits <- MaxConcurrent, holders <- In(Holding),
  line <- In(Lined),
  ahead <- {p \in In(Lined) \X In(Lined) : Ahead(p[1], p[2])}

(* Every step of the requests is one of the pool's, or none: a request    *)
(* that is still waiting is never overtaken, not even by a newcomer that  *)
(* finds the semaphore's value positive (manager.py:150, 167).            *)
ImplementsPool == Pool!Spec
=============================================================================

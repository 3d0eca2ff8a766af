------------------------------ MODULE Service ------------------------------
(***************************************************************************)
(* The service as one process: the life of the model (Lifecycle) and the   *)
(* requests that use it (Capacity) under the server that starts and ends   *)
(* both (main.run, uvicorn).                                               *)
(*                                                                         *)
(* On a signal the server stops accepting and waits for the tasks of its   *)
(* requests; after timeout_graceful_shutdown it cancels those that are     *)
(* left and shuts the lifespan down WITHOUT waiting for them to unwind.    *)
(* A cancelled task learns of it when the loop next resumes it; that of a  *)
(* stream then cancels the child in which the stream runs.                 *)
(***************************************************************************)
EXTENDS FiniteSets, Integers, SequencesExt

CONSTANTS Requests, Streaming, MaxConcurrent  \* as in Capacity

ASSUME ServiceAssumption == /\ IsFiniteSet(Requests)
                            /\ Streaming \subseteq Requests
                            /\ MaxConcurrent \in Nat \ {0}

VARIABLES
  state, gauge, loads, failures, resident, init, raised, job, cancelled,
  unload, span, ready,                              \* as in Lifecycle
  pc, result, value, waiters, inProgress, work,     \* as in Capacity
  server,  \* "up" until the signal, then "draining", then "closed"
  tasks,   \* the requests whose task the server still has
  doomed   \* those it has cancelled and whom that has not reached yet

life == <<state, gauge, loads, failures, resident, init, raised, job,
          cancelled, unload, span, ready>>
requests == <<pc, result, value, waiters, inProgress, work>>
vars == <<life, requests, server, tasks, doomed>>

(* What a request can tell of the manager: ready, not yet or not any more. *)
Phase == IF state = "ready" THEN "up"
         ELSE IF span \in {"unloading", "exited", "aborted"} THEN "down"
         ELSE "starting"

L == INSTANCE Lifecycle
C == INSTANCE Capacity WITH phase <- Phase

Init == /\ L!Init /\ C!Init
        /\ server = "up" /\ tasks = {} /\ doomed = {}

-----------------------------------------------------------------------------
(* The requests.                                                          *)

(* A request's task is over when its answer is, and an abandoned stream   *)
(* is closed by a task of the loop's own.                                 *)
Tracked(r) == tasks' = {q \in tasks \cup {r} : pc'[q] \notin {"done", "abandoned"}}

Arrives(r) ==
  /\ server = "up"
  /\ UNCHANGED <<life, server, doomed>> /\ C!Start(r) /\ Tracked(r)

(* The steps of a request of its own, and of what has no task.  The client *)
(* of a stream may go at any time.                                         *)
OwnStep(r) == \/ C!BeginStream(r) \/ C!Resume(r) \/ C!Timers(r) \/ C!Answer(r)
              \/ C!Stream(r) \/ C!Finalize(r) \/ C!Closed(r)
              \/ r \in Streaming /\ C!Cut(r)

(* StreamingResponse runs a stream in a child of the task that the server  *)
(* cancels: until that task has resumed, and as long as what the child     *)
(* awaits is done, the stream goes on.                                     *)
Proceeds(r, Step) ==
  /\ r \in doomed => r \in Streaming
  /\ UNCHANGED <<life, server>> /\ Step
  /\ doomed' = IF pc'[r] \in {"done", "abandoned"} THEN doomed \ {r} ELSE doomed
  /\ tasks' = {q \in tasks : pc'[q] \notin {"done", "abandoned"}}

Unwinds(r) ==
  /\ r \in doomed /\ doomed' = doomed \ {r}
  /\ UNCHANGED <<life, server>> /\ C!Cut(r)
  /\ tasks' = {q \in tasks : pc'[q] \notin {"done", "abandoned"}}

ThreadEnds(r) ==
  UNCHANGED <<life, server, tasks, doomed>> /\ C!WorkEnds(r)

-----------------------------------------------------------------------------
(* The server.                                                            *)

StopsAccepting ==
  /\ server = "up" /\ server' = "draining"
  /\ UNCHANGED <<life, requests, tasks, doomed>>

Drained ==
  /\ server = "draining" /\ tasks = {}
  /\ server' = "closed" /\ L!Signal
  /\ UNCHANGED <<requests, tasks, doomed>>

(* Defect: the server goes on without cancelling anybody.                 *)
DrainExpiresQuietly ==
  /\ server = "draining" /\ server' = "closed" /\ L!Signal
  /\ UNCHANGED <<requests, tasks, doomed>>

DrainExpires ==  \* a task that is unwinding from a cancellation stays so
  /\ server = "draining" /\ server' = "closed" /\ L!Signal
  /\ doomed' = {r \in tasks : result[r] # "cut"}
  /\ UNCHANGED <<requests, tasks>>

-----------------------------------------------------------------------------
(* The manager and the lifespan, beside the requests.                     *)

Beside(Step) == Step /\ UNCHANGED <<requests, server, tasks, doomed>>

Next ==
  \/ \E r \in Requests : \/ Arrives(r) \/ Proceeds(r, OwnStep(r))
                         \/ Unwinds(r) \/ ThreadEnds(r)
  \/ StopsAccepting \/ Drained \/ DrainExpires
  \/ Beside(L!LoadTask) \/ Beside(L!SpanTask) \/ Beside(L!StageJob)
  \/ \E t \in L!Tasks : Beside(L!UnloadJob(t))
  \/ Beside(L!GraceExpires)

Spec == Init /\ [][Next]_vars

(* As in the two parts: the loop runs, its timers fire, joins and unload  *)
(* are bounded.  No thread has to finish, no client to read, no signal to *)
(* come, and no cancellation to reach a stream.                           *)
FairSpec ==
  /\ Spec
  /\ \A r \in Requests :
       /\ WF_vars(Proceeds(r, C!BeginStream(r))) /\ WF_vars(Proceeds(r, C!Resume(r)))
       /\ WF_vars(Proceeds(r, C!QueueTimeout(r)))
       /\ WF_vars(Proceeds(r, C!GenerationTimeout(r)))
       /\ WF_vars(Proceeds(r, C!Finalize(r))) /\ WF_vars(Proceeds(r, C!Closed(r)))
       /\ r \notin Streaming => WF_vars(Unwinds(r))
  /\ WF_vars(DrainExpires)
  /\ WF_vars(Beside(L!LoadTask \/ L!SpanTask))
  /\ WF_vars(Beside(L!GraceExpires))
  /\ \A t \in L!Tasks : WF_vars(Beside(L!UnloadJob(t)))

-----------------------------------------------------------------------------
TypeOK == /\ L!TypeOK /\ C!TypeOK
          /\ server \in {"up", "draining", "closed"}
          /\ tasks \subseteq Requests /\ doomed \subseteq tasks

(* Readiness is checked before the wait for a permit (manager.py:148,     *)
(* 165), so that a waiter may resume when the manager has begun to unload *)
(* (manager.py:189).  One kind does: a stream that the server has         *)
(* cancelled and that got the permit of another cancelled request before  *)
(* the cancellation reached it.  No other generation starts unless the    *)
(* manager is READY at that moment.                                       *)
StartsOnlyWhenReady ==
  [][\A r \in work' \ work :
       state = "ready" \/ (r \in doomed \cap Streaming /\ pc[r] = "granted")]_vars

(* unload clears the model while requests may be reading it from the loop *)
(* or from threads (transformers.py:298, llama_cpp.py:280): it only ever  *)
(* meets requests that the server has cancelled, those that are already   *)
(* cut short, and the orphaned threads of these.                          *)
UnloadMeetsOrphansOnly ==
  ~resident => \A r \in Requests :
    /\ pc[r] \in {"running", "sending"} => r \in doomed
    /\ r \in work => r \in doomed \/ result[r] \in
                       {"timeout", "cut", "disconnected", "dropped", "error"}

(* Every request that arrives is over in bounded time and its permit is   *)
(* back, though an engine thread may never finish and a client never      *)
(* read, and also when the server is stopped meanwhile: the timeouts of   *)
(* routes_chat.py:64, 108 and the bounded joins see to it.                *)
RequestsEnd == \A r \in Requests : pc[r] # "idle" ~> pc[r] = "done"

(* After a signal the process gets to the end of its lifespan, whatever   *)
(* its requests, their threads and the load of the model are doing        *)
(* (main.py:48-55, 121).                                                  *)
StopEnds == server = "draining" ~> span \in {"exited", "aborted"}

(* Seen from the requests, the manager and the server only do what        *)
(* Capacity lets its environment do: ready once, then down for good.      *)
ImplementsCapacity == C!Spec
=============================================================================

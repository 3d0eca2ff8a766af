----------------------------- MODULE Lifecycle -----------------------------
(***************************************************************************)
(* The life of the resident model: ModelManager.initialize and .shutdown   *)
(* (model/manager.py), the FastAPI lifespan that drives them (main.py),    *)
(* and the executor threads both of them wait for.                         *)
(*                                                                         *)
(* Two asyncio tasks, "load" (initialize) and "span" (the lifespan after   *)
(* its yield), run one at a time between two awaits: ready is the event    *)
(* loop's FIFO queue of tasks to resume.  What they await are jobs in the  *)
(* default thread pool; cancelling a task abandons its job, and the thread *)
(* runs on.                                                                *)
(***************************************************************************)
EXTENDS Naturals, SequencesExt

VARIABLES
  state,      \* ModelManager.state
  gauge,      \* the model_ready gauge
  loads,      \* the model_loads counter
  failures,   \* the model_load_failures counter
  resident,   \* the engine holds a model (self.model) or a server (self.process)
  init,       \* where the load task is in initialize
  raised,     \* how initialize ended, if it raised
  job,        \* the thread job of initialize's current stage
  cancelled,  \* load_task.cancel() was called
  unload,     \* the engine.unload job submitted by each task
  span,       \* where the lifespan is after its yield
  ready       \* the event loop's queue of tasks to resume

vars == <<state, gauge, loads, failures, resident, init, raised, job,
          cancelled, unload, span, ready>>
mgrVars == <<state, gauge, loads, failures>>

Tasks == {"load", "span"}
ModelStates == {"new", "resolving", "validating", "loading", "warming",
                "ready", "failed", "stopping", "stopped"}
Stages == {"resolve", "validate", "load", "warmup"}
Ended == {"returned", "raised"}
Exceptions == {"error", "timeout"}  \* "timeout": TimeoutError, as filelock.Timeout is

(* A task is queued once: a second wakeup finds its future done already.  *)
Put(t, q) == IF Contains(q, t) THEN q ELSE Append(q, t)
Wake(t) == Put(t, ready)

Resumes(t) == ready # <<>> /\ Head(ready) = t
Finished == init \in Ended

Init ==
  /\ state = "new" /\ gauge = FALSE /\ loads = 0 /\ failures = 0
  /\ resident = FALSE
  /\ init = "created" /\ raised = "none" /\ job = "none" /\ cancelled = FALSE
  /\ unload = [t \in Tasks |-> "none"]
  /\ span = "serving"
  /\ ready = <<"load">>

-----------------------------------------------------------------------------
(* initialize, one action for the code between two awaits.                *)

Begin(stage, st) ==
  /\ init' = stage
  /\ job' = IF stage = "load" THEN "loading" ELSE "running"
  /\ state' = st
  /\ ready' = Tail(ready)
  /\ UNCHANGED <<gauge, failures, resident, raised, cancelled, unload, span>>

(* Defect: a cancelled initialize goes on when its stage had finished.    *)
ContinuesRegardless(stage) == Resumes("load") /\ init = stage /\ job = "ok"

Continues(stage) == Resumes("load") /\ init = stage /\ job = "ok" /\ ~cancelled

StartResolving ==
  /\ Resumes("load") /\ init = "created" /\ state \in {"new", "failed"}
  /\ Begin("resolve", "resolving") /\ UNCHANGED loads
StartValidating ==
  Continues("resolve") /\ Begin("validate", "validating") /\ UNCHANGED loads
StartLoading ==
  Continues("validate") /\ Begin("load", "loading") /\ UNCHANGED loads
StartWarming ==
  Continues("load") /\ Begin("warmup", "warming") /\ loads' = loads + 1

(* The load task ends: the lifespan's shielded wait on it is over too. *)
EndLoadTask(how) ==
  /\ init' = how
  /\ ready' = IF span = "grace" THEN Put("span", Tail(ready)) ELSE Tail(ready)

BecomeReady ==
  /\ Continues("warmup")
  /\ state' = "ready" /\ gauge' = TRUE /\ job' = "none"
  /\ EndLoadTask("returned")
  /\ UNCHANGED <<loads, failures, resident, raised, cancelled, unload, span>>

(* The llama.cpp engine's client awaits its connection's close before     *)
(* CancelledError leaves generate: one pass here for the several it may   *)
(* take.  A Transformers warm-up is a thread and does not unwind.         *)
WarmupUnwinds ==
  /\ Resumes("load") /\ init = "warmup" /\ cancelled
  /\ init' = "unwinding" /\ job' = "none"
  /\ ready' = Put("load", Tail(ready))
  /\ UNCHANGED <<state, gauge, loads, failures, resident, raised, cancelled,
                 unload, span>>

Failure ==  \* what the try block raises when the load task resumes
  IF cancelled THEN {"cancelled"}
  ELSE IF job \in Exceptions THEN {job}
  ELSE IF init = "created" THEN {"error"}                 \* storage_for_source
  ELSE IF init = "validate" /\ job = "ok" THEN {"error"}  \* model_format, diagnostics
  ELSE {}

(* Defect: the failed load raises at once, its engine not unloaded.       *)
InitializeFailsLoaded ==
  /\ Resumes("load") /\ init \in Stages \cup {"created", "unwinding"}
  /\ raised' \in Failure
  /\ state' = "failed" /\ gauge' = FALSE /\ failures' = failures + 1
  /\ job' = IF job \in {"loading", "published"} THEN job ELSE "none"
  /\ EndLoadTask("raised")
  /\ UNCHANGED <<loads, resident, cancelled, unload, span>>

(* except BaseException: FAILED whatever the state was, then unload.      *)
(* An abandoned engine.load thread stays in job; other stages' are moot.  *)
InitializeFails ==
  /\ Resumes("load") /\ init \in Stages \cup {"created", "unwinding"}
  /\ raised' \in Failure
  /\ state' = "failed" /\ gauge' = FALSE /\ failures' = failures + 1
  /\ init' = "cleanup"
  /\ job' = IF job \in {"loading", "published"} THEN job ELSE "none"
  /\ unload' = [unload EXCEPT !["load"] = "queued"]
  /\ ready' = Tail(ready)
  /\ UNCHANGED <<loads, resident, cancelled, span>>

(* A second exception in the cleanup replaces the first only when it is   *)
(* the cancellation; an Exception of unload is logged and dropped.        *)
InitializeRaises ==
  /\ Resumes("load") /\ init = "cleanup"
  /\ raised' = IF cancelled THEN "cancelled" ELSE raised
  /\ EndLoadTask("raised")
  /\ UNCHANGED <<state, gauge, loads, failures, resident, job, cancelled,
                 unload, span>>

-----------------------------------------------------------------------------
(* The threads.                                                           *)

Awaited == init \in Stages /\ ~cancelled

(* engine.load assigns self.model, or self.process, before it returns.    *)
LoadPublishes ==
  /\ job = "loading"
  /\ job' = "published" /\ resident' = TRUE
  /\ UNCHANGED <<mgrVars, init, raised, cancelled, unload, span, ready>>

(* A stage's thread ends; nobody hears of it once it is abandoned.  A     *)
(* load that fails after publishing may have released (llama.cpp) or not. *)
JobEnds ==
  /\ \/ job \in {"running", "published"} /\ job' = "ok" /\ UNCHANGED resident
     \/ job = "loading" /\ job' \in Exceptions /\ UNCHANGED resident
     \/ job = "running" /\ job' \in Exceptions /\ UNCHANGED resident
     \/ /\ job = "published" /\ job' \in Exceptions
        /\ resident' \in {resident, FALSE}
  /\ Awaited /\ ready' = Wake("load")
  /\ UNCHANGED <<mgrVars, init, raised, cancelled, unload, span>>

AbandonedJobEnds ==
  /\ ~Awaited /\ job \in {"running", "loading", "published"}
  /\ resident' \in IF job = "published" THEN {resident, FALSE} ELSE {resident}
  /\ job' = "none"
  /\ UNCHANGED <<mgrVars, init, raised, cancelled, unload, span, ready>>

UnloadClears(t) ==
  /\ unload[t] = "queued"
  /\ unload' = [unload EXCEPT ![t] = "cleared"]
  /\ resident' = FALSE
  /\ UNCHANGED <<mgrVars, init, raised, job, cancelled, span, ready>>

(* unload raises when the server survives its kill (TimeoutExpired).      *)
UnloadEnds(t) ==
  /\ unload[t] = "cleared"
  /\ \E how \in Ended : unload' = [unload EXCEPT ![t] = how]
  /\ ready' = IF t = "span" \/ init = "cleanup" THEN Wake(t) ELSE ready
  /\ UNCHANGED <<mgrVars, resident, init, raised, job, cancelled, span>>

-----------------------------------------------------------------------------
(* The lifespan.                                                          *)

Signal ==  \* the server delivers the shutdown event
  /\ span = "serving"
  /\ span' = "stopping" /\ ready' = Wake("span")
  /\ UNCHANGED <<mgrVars, resident, init, raised, job, cancelled, unload>>

(* Defect: STOPPED is written before the unload thread is heard.          *)
ShutdownAtOnce(rest) ==
  /\ ready' = rest
  /\ IF state \in {"stopping", "stopped"}
     THEN span' = "exited" /\ UNCHANGED <<state, gauge, unload>>
     ELSE /\ span' = "unloading" /\ state' = "stopped" /\ gauge' = FALSE
          /\ unload' = [unload EXCEPT !["span"] = "queued"]
  /\ UNCHANGED <<loads, failures, resident, init, raised, job>>

(* manager.shutdown up to its await; rest is the queue it leaves behind.  *)
Shutdown(rest) ==
  /\ ready' = rest
  /\ IF state \in {"stopping", "stopped"}
     THEN span' = "exited" /\ UNCHANGED <<state, gauge, unload>>
     ELSE /\ span' = "unloading" /\ state' = "stopping" /\ gauge' = FALSE
          /\ unload' = [unload EXCEPT !["span"] = "queued"]
  /\ UNCHANGED <<loads, failures, resident, init, raised, job>>

(* Defect: the lifespan shuts down beside a load it does not wait for.    *)
StopWithoutWaiting ==
  /\ Resumes("span") /\ span = "stopping"
  /\ Shutdown(Tail(ready)) /\ UNCHANGED cancelled

StopOrWait ==
  /\ Resumes("span") /\ span = "stopping"
  /\ IF Finished
     THEN Shutdown(Tail(ready)) /\ UNCHANGED cancelled
     ELSE /\ span' = "grace" /\ ready' = Tail(ready)
          /\ UNCHANGED <<mgrVars, resident, init, raised, job, cancelled, unload>>

(* Defect: the timer interrupts no wait that is not over anyway.          *)
GraceExpiresLate ==
  /\ span = "grace" /\ Finished
  /\ span' = "expired" /\ ready' = Wake("span")
  /\ UNCHANGED <<mgrVars, resident, init, raised, job, cancelled, unload>>

GraceExpires ==  \* wait_for's timer, even when the wait is already over
  /\ span = "grace"
  /\ span' = "expired" /\ ready' = Wake("span")
  /\ UNCHANGED <<mgrVars, resident, init, raised, job, cancelled, unload>>

(* The load task ended within the grace period.  A TimeoutError of its    *)
(* own is caught like the grace timeout; any other exception leaves the   *)
(* lifespan before manager.shutdown().                                    *)
WaitReturns ==
  /\ Resumes("span") /\ span = "grace"
  /\ IF raised = "error"
     THEN /\ span' = "aborted" /\ ready' = Tail(ready)
          /\ UNCHANGED <<mgrVars, resident, init, raised, job, cancelled, unload>>
     ELSE Shutdown(Tail(ready)) /\ UNCHANGED cancelled

(* Defect: the grace period is over and nobody cancels the load.          *)
ExpireWithoutCancel ==
  /\ Resumes("span") /\ span = "expired"
  /\ Shutdown(Tail(ready)) /\ UNCHANGED cancelled

CancelLoad ==
  /\ Resumes("span") /\ span = "expired"
  /\ cancelled' = ~Finished
  /\ Shutdown(IF Finished THEN Tail(ready) ELSE Put("load", Tail(ready)))

ShutdownReturns ==
  /\ Resumes("span") /\ span = "unloading"
  /\ ready' = Tail(ready)
  /\ IF unload["span"] = "returned"
     THEN span' = "exited" /\ state' = "stopped"
     ELSE span' = "aborted" /\ UNCHANGED state
  /\ UNCHANGED <<gauge, loads, failures, resident, init, raised, job,
                 cancelled, unload>>

Exited == span \in {"exited", "aborted"} /\ UNCHANGED vars

-----------------------------------------------------------------------------
LoadTask == \/ StartResolving \/ StartValidating \/ StartLoading
            \/ StartWarming \/ BecomeReady \/ WarmupUnwinds
            \/ InitializeFails \/ InitializeRaises
SpanTask == StopOrWait \/ WaitReturns \/ CancelLoad \/ ShutdownReturns
StageJob == LoadPublishes \/ JobEnds \/ AbandonedJobEnds
UnloadJob(t) == UnloadClears(t) \/ UnloadEnds(t)

Next == \/ LoadTask \/ SpanTask \/ StageJob
        \/ \E t \in Tasks : UnloadJob(t)
        \/ Signal \/ GraceExpires \/ Exited

Spec == Init /\ [][Next]_vars

(* The loop runs, its timer fires and unload is bounded (terminate, then  *)
(* kill).  Nothing bounds the thread of a stage: it gets no fairness.     *)
FairSpec == /\ Spec
            /\ WF_vars(LoadTask \/ SpanTask)
            /\ WF_vars(GraceExpires)
            /\ \A t \in Tasks : WF_vars(UnloadJob(t))

-----------------------------------------------------------------------------
TypeOK ==
  /\ state \in ModelStates /\ gauge \in BOOLEAN
  /\ loads \in Nat /\ failures \in Nat /\ resident \in BOOLEAN
  /\ init \in Stages \cup Ended \cup {"created", "unwinding", "cleanup"}
  /\ raised \in Exceptions \cup {"none", "cancelled"}
  /\ job \in Exceptions \cup {"none", "running", "loading", "published", "ok"}
  /\ cancelled \in BOOLEAN
  /\ unload \in [Tasks -> Ended \cup {"none", "queued", "cleared"}]
  /\ span \in {"serving", "stopping", "grace", "expired", "unloading",
               "exited", "aborted"}
  /\ ready \in Seq(Tasks)

(* Whatever the interleaving of load, cancellation and unload threads, a  *)
(* manager that says READY (manager.py:119) has its one model in place    *)
(* with no unload under way, and the gauge never says ready for it        *)
(* otherwise.                                                             *)
ReadyMeansServable ==
  /\ state = "ready" => /\ resident /\ loads = 1 /\ failures = 0
                        /\ \A t \in Tasks : unload[t] = "none"
  /\ gauge <=> state = "ready"

(* initialize never ends in an exception of its own with a model still    *)
(* resident: the cleanup of manager.py:137-140 has run its unload after   *)
(* the last moment the failed load could publish.                         *)
FailureUnloads == init = "raised" /\ raised \in Exceptions => ~resident

(* A model outlives a completed shutdown only when the grace timeout      *)
(* abandoned a load in flight (main.py:53-55).                            *)
LeakOnlyAfterCancel ==
  span = "exited" /\ resident => cancelled

(* Once the lifespan is past manager.shutdown's first step (manager.py:   *)
(* 189) no late completion makes the service ready again, and when the    *)
(* lifespan dies of a load error instead there is nothing resident.       *)
NeverReadyAgain ==
  /\ span \in {"unloading", "exited", "aborted"} => state # "ready" /\ ~gauge
  /\ span = "aborted" /\ unload["span"] = "none" => state = "failed" /\ ~resident

(* The FAILED that a cancelled initialize writes over STOPPING            *)
(* (manager.py:132) never overwrites STOPPED (manager.py:192), because    *)
(* the loop resumes the cancelled task before the unload thread can be    *)
(* heard; unless the task's warm-up takes several passes to unwind.       *)
StoppedIsFinal ==
  [][state = "stopped" => state' = "stopped" \/ init = "unwinding"]_vars

(* FAILED over STOPPING happens only to a load the lifespan cancelled.    *)
RegressOnlyByCancel ==
  [][state = "stopping" => state' \in {"stopping", "stopped"} \/ cancelled]_vars

(* However long a stage's thread runs, the lifespan ends (main.py:48-55). *)
ShutdownCompletes == span = "stopping" ~> span \in {"exited", "aborted"}

-----------------------------------------------------------------------------
(* A refuted claim of the documentation.                                  *)

(* engines/base.py:53, "Release model resources during shutdown.", as     *)
(* test_api.py:186-187 asserts it: a stopped manager has no model.        *)
StoppedMeansReleased == state = "stopped" => ~resident
=============================================================================

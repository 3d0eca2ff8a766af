--------------------------- MODULE ServiceProofs ----------------------------
(***************************************************************************)
(* Proofs about Service, for any requests and any limit: the life of the   *)
(* model in it is Lifecycle's, so that LifecycleProofs holds of it; no     *)
(* generation starts unless the manager is READY, but that of a cancelled  *)
(* stream which does not know it yet; an unload meets only requests that   *)
(* are cancelled or cut short; and Capacity sees a manager that is ready   *)
(* once and then down for good.                                            *)
(***************************************************************************)
EXTENDS Service, TLAPS

LP == INSTANCE LifecycleProofs
CP == INSTANCE CapacityProofs WITH phase <- Phase

-----------------------------------------------------------------------------
(* The model's life.                                                       *)

(* Every step is one of the life's, or leaves it alone.                    *)
LEMMA LifeStep == [Next]_vars => [L!Next]_life
<1> SUFFICES ASSUME Next, life' # life PROVE L!Next
  BY DEF vars
<1>1. CASE StopsAccepting \/ \E r \in Requests : \/ Arrives(r) \/ Proceeds(r, OwnStep(r))
                                                 \/ Unwinds(r) \/ ThreadEnds(r)
  BY <1>1 DEF StopsAccepting, Arrives, Proceeds, Unwinds, ThreadEnds
<1>2. CASE Drained \/ DrainExpires
  BY <1>2 DEF Drained, DrainExpires, L!Next
<1>3. CASE \/ Beside(L!LoadTask) \/ Beside(L!SpanTask) \/ Beside(L!StageJob)
           \/ \E t \in L!Tasks : Beside(L!UnloadJob(t))
           \/ Beside(L!GraceExpires)
  BY <1>3 DEF Beside, L!Next
<1> QED BY <1>1, <1>2, <1>3 DEF Next

(* The life the proofs are about is the same.                              *)
LEMMA SameLife == /\ L!Init => LP!Init
                  /\ (L!Next => LP!Next) /\ (UNCHANGED life => UNCHANGED LP!vars)
<1>1. (UNCHANGED life => UNCHANGED LP!vars) /\ (L!Init => LP!Init)
  BY DEF LP!vars, life, L!Init, LP!Init, L!Tasks, LP!Tasks
<1>2. L!LoadTask => LP!LoadTask
  BY DEF L!LoadTask, LP!LoadTask, L!StartResolving, LP!StartResolving,
         L!StartValidating, LP!StartValidating, L!StartLoading,
         LP!StartLoading, L!StartWarming, LP!StartWarming, L!BecomeReady,
         LP!BecomeReady, L!WarmupUnwinds, LP!WarmupUnwinds,
         L!InitializeFails, LP!InitializeFails, L!InitializeRaises,
         LP!InitializeRaises, L!Begin, LP!Begin, L!Resumes, LP!Resumes,
         L!Continues, LP!Continues, L!EndLoadTask, LP!EndLoadTask, L!Put,
         LP!Put, L!Contains, LP!Contains, L!Failure, LP!Failure,
         L!Exceptions, LP!Exceptions, L!Stages, LP!Stages
<1>3. L!SpanTask => LP!SpanTask
  BY DEF L!SpanTask, LP!SpanTask, L!StopOrWait, LP!StopOrWait,
         L!WaitReturns, LP!WaitReturns, L!CancelLoad, LP!CancelLoad,
         L!ShutdownReturns, LP!ShutdownReturns, L!Shutdown, LP!Shutdown,
         L!Resumes, LP!Resumes, L!Finished, LP!Finished, L!Ended, LP!Ended,
         L!Put, LP!Put, L!Contains, LP!Contains, L!mgrVars, LP!mgrVars
<1>4. L!StageJob => LP!StageJob
  BY DEF L!StageJob, LP!StageJob, L!LoadPublishes, LP!LoadPublishes,
         L!JobEnds, LP!JobEnds, L!AbandonedJobEnds, LP!AbandonedJobEnds,
         L!Awaited, LP!Awaited, L!Stages, LP!Stages, L!Exceptions,
         LP!Exceptions, L!Wake, LP!Wake, L!Put, LP!Put, L!Contains,
         LP!Contains, L!mgrVars, LP!mgrVars
<1>5. ASSUME NEW t, L!UnloadJob(t) PROVE LP!UnloadJob(t)
  BY <1>5 DEF L!UnloadJob, LP!UnloadJob, L!UnloadClears, LP!UnloadClears,
         L!UnloadEnds, LP!UnloadEnds, L!Ended, LP!Ended, L!Wake, LP!Wake,
         L!Put, LP!Put, L!Contains, LP!Contains, L!mgrVars, LP!mgrVars
<1>6. (L!Signal => LP!Signal) /\ (L!GraceExpires => LP!GraceExpires)
  BY DEF L!Signal, LP!Signal, L!GraceExpires, LP!GraceExpires, L!Wake,
         LP!Wake, L!Put, LP!Put, L!Contains, LP!Contains, L!mgrVars,
         LP!mgrVars
<1>7. L!Exited => LP!Exited
  BY DEF L!Exited, LP!Exited, L!vars, LP!vars
<1> QED BY <1>1, <1>2, <1>3, <1>4, <1>5, <1>6, <1>7 DEF L!Next, LP!Next, L!Tasks, LP!Tasks

THEOREM LifeInvariance == Spec => []LP!IInv
<1>1. Init => LP!Init
  BY SameLife DEF Init
<1>2. [Next]_vars => [LP!Next]_LP!vars
  BY LifeStep, SameLife
<1> QED BY <1>1, <1>2, LP!Invariance, PTL DEF Spec, LP!Spec

(* What is proved of Lifecycle on its own holds beside any requests and    *)
(* under any server: READY means a loaded model, a failed load is unloaded, *)
(* only a cancelled one outlives the shutdown, and the service is never    *)
(* ready again after it (manager.py:54-141, 186-192).                      *)
THEOREM ServiceLife ==
  Spec => [](/\ L!ReadyMeansServable /\ L!FailureUnloads
             /\ L!LeakOnlyAfterCancel /\ L!NeverReadyAgain)
<1>1. Spec => LP!Spec
  <2>1. Init => LP!Init
    BY SameLife DEF Init
  <2>2. [Next]_vars => [LP!Next]_LP!vars
    BY LifeStep, SameLife
  <2> QED BY <2>1, <2>2, PTL DEF Spec, LP!Spec
<1>2. /\ LP!ReadyMeansServable => L!ReadyMeansServable
      /\ LP!FailureUnloads => L!FailureUnloads
      /\ LP!LeakOnlyAfterCancel => L!LeakOnlyAfterCancel
      /\ LP!NeverReadyAgain => L!NeverReadyAgain
  BY DEF L!ReadyMeansServable, LP!ReadyMeansServable, L!FailureUnloads,
     LP!FailureUnloads, L!LeakOnlyAfterCancel, LP!LeakOnlyAfterCancel,
     L!NeverReadyAgain, LP!NeverReadyAgain, L!Tasks, LP!Tasks, L!Exceptions,
     LP!Exceptions
<1> QED BY <1>1, <1>2, LP!ReadyIsServable, LP!FailureIsUnloaded,
           LP!LeaksComeFromCancel, LP!StoppingIsForGood, PTL

-----------------------------------------------------------------------------
(* The requests.                                                           *)

Places == C!Queued \cup C!Holding \cup {"idle", "accepted", "done"}
PcType == pc \in [Requests -> Places] /\ result \in [Requests -> C!Results]

(* On the way to an answer, by nobody cut short.                           *)
Live == {"accepted", "waiting", "granted", "running", "sending"}
Orphaned == {"timeout", "cut", "disconnected", "dropped", "error"}

(* What an engine thread that still runs works for.                        *)
WorkIsKnown(r) == \/ pc[r] \in {"running", "sending"}
                  \/ pc[r] \in {"closing", "abandoned", "done"} /\ result[r] \in Orphaned

(* What a step of r does to the other requests: it may grant permits.      *)
Others(r) ==
  /\ work' \ {r} = work \ {r}
  /\ \A q \in Requests \ {r} :
       /\ result'[q] = result[q]
       /\ pc'[q] = pc[q] \/ (pc[q] = "waiting" /\ pc'[q] = "granted")

(* And to r: it comes to life when the manager is ready, and an engine     *)
(* thread starts for one that was granted or found the manager ready.      *)
Itself(r) ==
  /\ pc'[r] = "idle" => pc[r] = "idle" /\ result'[r] = result[r]
  /\ pc'[r] \in Live => /\ pc[r] \in Live \/ (pc[r] = "idle" /\ Phase = "up")
                        /\ result'[r] \in {result[r], "none"}
  /\ (r \in work => WorkIsKnown(r)) => (r \in work' => WorkIsKnown(r)')
  /\ r \in work' \ work => Phase = "up" \/ pc[r] = "granted"

Steps(r) == PcType' /\ Others(r) /\ Itself(r)

LEMMA GrantFacts ==
  ASSUME PcType, NEW r \in Requests, NEW to \in Places, NEW n, NEW G \in C!Woken(n),
         pc[r] # "waiting", pc' = C!Grant(G, [pc EXCEPT ![r] = to])
  PROVE  /\ pc' \in [Requests -> Places] /\ pc'[r] = to
         /\ \A q \in Requests \ {r} :
              pc'[q] = pc[q] \/ (pc[q] = "waiting" /\ pc'[q] = "granted")
<1>1. G \subseteq {q \in Requests : pc[q] = "waiting"}
  BY DEF C!Woken, C!In
<1>2. "granted" \in Places
  BY DEF Places, C!Queued, C!Handed
<1> QED BY <1>1, <1>2 DEF PcType, C!Grant

(* A holder that is done, for whichever reason.                            *)
LEMMA ReleaseSteps ==
  ASSUME PcType, NEW r \in Requests, pc[r] \in C!Holding, C!Release(r),
         NEW how \in C!Results, result' = [result EXCEPT ![r] = how],
         UNCHANGED work,
         r \in work /\ WorkIsKnown(r) => how \in Orphaned
  PROVE  Steps(r) /\ pc'[r] = "done"
<1>1. PICK G \in C!Woken(1) : pc' = C!Grant(G, [pc EXCEPT ![r] = "done"])
  BY DEF C!Release
<1>2. pc[r] # "waiting" /\ "done" \in Places
  BY DEF C!Holding, Places
<1>3. /\ pc' \in [Requests -> Places] /\ pc'[r] = "done"
      /\ \A q \in Requests \ {r} :
           pc'[q] = pc[q] \/ (pc[q] = "waiting" /\ pc'[q] = "granted")
  BY <1>1, <1>2, GrantFacts
<1>4. PcType' /\ Others(r)
  BY <1>3 DEF PcType, Others
<1>5. r \in work => result'[r] = how /\ (WorkIsKnown(r) => how \in Orphaned)
  BY DEF WorkIsKnown, PcType
<1>6. Itself(r)
  BY <1>3, <1>5 DEF Itself, WorkIsKnown, Live
<1> QED BY <1>3, <1>4, <1>6 DEF Steps

(* A request moves alone.                                                  *)
LEMMA MoveSteps ==
  ASSUME PcType, NEW r \in Requests, NEW to \in Places, NEW how \in C!Results,
         pc' = [pc EXCEPT ![r] = to], result' = [result EXCEPT ![r] = how],
         UNCHANGED work,
         to # "idle",
         to \in Live => pc[r] \in Live /\ how \in {result[r], "none"},
         r \in work /\ WorkIsKnown(r) =>
           to \in {"running", "sending"} \/
           (to \in {"closing", "abandoned", "done"} /\ how \in Orphaned)
  PROVE  Steps(r) /\ pc'[r] = to
<1>1. /\ PcType' /\ pc'[r] = to /\ result'[r] = how
      /\ \A q \in Requests \ {r} : pc'[q] = pc[q] /\ result'[q] = result[q]
  BY DEF PcType
<1>2. Others(r)
  BY <1>1 DEF Others
<1>3. Itself(r)
  BY <1>1 DEF Itself, WorkIsKnown
<1> QED BY <1>1, <1>2, <1>3 DEF Steps

LEMMA AcquireSteps ==
  ASSUME PcType, NEW r \in Requests, pc[r] \in {"idle", "accepted"}, Phase = "up",
         C!Acquire(r)
  PROVE  Steps(r)
<1>1. PICK to \in {"waiting", "running"} :
         /\ pc' = [pc EXCEPT ![r] = to] /\ result' = result
         /\ work' = IF to = "running" THEN work \cup {r} ELSE work
  BY DEF C!Acquire
<1>2. /\ PcType' /\ pc'[r] = to
      /\ \A q \in Requests \ {r} : pc'[q] = pc[q]
  BY <1>1 DEF PcType, Places, C!Queued, C!Holding
<1>3. Others(r)
  BY <1>1, <1>2 DEF Others
<1>4. Itself(r)
  BY <1>1, <1>2 DEF Itself, WorkIsKnown, Live
<1> QED BY <1>2, <1>3, <1>4 DEF Steps

(* A waiter resumes.                                                       *)
LEMMA ResumeSteps ==
  ASSUME PcType, NEW r \in Requests, C!Resume(r)
  PROVE  Steps(r)
<1>1. PICK to \in {"running", "done"} :
        /\ \E n : \E G \in C!Woken(n) : pc' = C!Grant(G, [pc EXCEPT ![r] = to])
        /\ result' = result
        /\ work' = IF to = "running" THEN work \cup {r} ELSE work
        /\ pc[r] \in IF to = "running" THEN {"granted"} ELSE {"cancelled", "revoked"}
  BY DEF C!Resume, C!ResumeGranted, C!ResumeInterrupted, C!LeaveQueue
<1>2. pc[r] # "waiting" /\ to \in Places
  BY <1>1 DEF Places, C!Holding
<1>3. /\ pc' \in [Requests -> Places] /\ pc'[r] = to
      /\ \A q \in Requests \ {r} :
           pc'[q] = pc[q] \/ (pc[q] = "waiting" /\ pc'[q] = "granted")
  BY <1>1, <1>2, GrantFacts
<1>4. PcType' /\ Others(r)
  BY <1>1, <1>3 DEF PcType, Others
<1>5. Itself(r)
  BY <1>1, <1>3 DEF Itself, WorkIsKnown, Live
<1> QED BY <1>4, <1>5 DEF Steps

(* A request starts, or its stream does.                                   *)
LEMMA StartSteps ==
  ASSUME PcType, NEW r \in Requests, C!Start(r) \/ C!BeginStream(r),
         r \in work => WorkIsKnown(r)
  PROVE  Steps(r)
<1>1. r \notin work \/ pc[r] \notin {"idle", "accepted"}
  BY DEF WorkIsKnown
<1>2. ASSUME pc[r] \in {"idle", "accepted"}, NEW why \in C!Results, C!Reject(r, why)
      PROVE  Steps(r)
  BY <1>1, <1>2, MoveSteps DEF C!Reject, Places, Live
<1>3. CASE C!Generate(r)
  BY <1>2, <1>3, AcquireSteps DEF C!Generate, C!Results
<1>4. CASE C!BeginStream(r)
  BY <1>2, <1>4, AcquireSteps DEF C!BeginStream, C!Results
<1>5. CASE C!AcceptStream(r)
  <2>1. CASE Phase = "up"
    <3>1. /\ pc[r] = "idle" /\ pc' = [pc EXCEPT ![r] = "accepted"]
          /\ UNCHANGED <<result, work>>
      BY <1>5, <2>1 DEF C!AcceptStream
    <3>2. PcType' /\ Others(r) /\ pc'[r] = "accepted"
      BY <3>1 DEF PcType, Others, Places
    <3>3. Itself(r)
      BY <1>1, <2>1, <3>1, <3>2 DEF Itself, Live
    <3> QED BY <3>2, <3>3 DEF Steps
  <2>2. CASE Phase # "up"
    BY <1>2, <1>5, <2>2 DEF C!AcceptStream, C!Results
  <2> QED BY <2>1, <2>2
<1> QED BY <1>3, <1>4, <1>5 DEF C!Start

(* What cuts a request short, wherever it is, takes it out of Live.        *)
LEMMA InterruptSteps ==
  ASSUME PcType, NEW r \in Requests, C!Timers(r) \/ C!Cut(r)
  PROVE  Steps(r) /\ pc'[r] \notin Live
<1> DEFINE Goal == Steps(r) /\ pc'[r] \notin Live
<1>1. ASSUME NEW to \in {"cancelled", "revoked"}, pc[r] \in {"waiting", "granted", to},
             NEW why \in C!Results, C!Interrupt(r, to, why)
      PROVE  Goal
  <2>1. to \in Places /\ to \notin Live /\ to # "idle" /\ ~WorkIsKnown(r)
    BY <1>1 DEF Places, C!Queued, C!Handed, Live, WorkIsKnown
  <2> QED BY <1>1, <2>1, MoveSteps DEF C!Interrupt
<1>2. ASSUME pc[r] \in {"running", "closing"}, C!Release(r),
             NEW why \in {"timeout", "cut"},
             result' = [result EXCEPT ![r] = why], UNCHANGED work
      PROVE  Goal
  <2>1. why \in C!Results /\ why \in Orphaned /\ pc[r] \in C!Holding
    BY <1>2 DEF C!Results, C!Interrupts, Orphaned, C!Holding
  <2>2. Steps(r) /\ pc'[r] = "done"
    BY <1>2, <2>1, ReleaseSteps
  <2> QED BY <2>2 DEF Live
<1>3. ASSUME NEW to \in {"closing", "abandoned"}, NEW why \in {"timeout", "cut", "dropped"},
             C!Interrupt(r, to, why)
      PROVE  Goal
  <2>1. /\ why \in C!Results /\ why \in Orphaned
        /\ to \in Places /\ to \notin Live /\ to # "idle"
    BY DEF C!Results, C!Interrupts, Orphaned, Places, C!Holding, Live
  <2>2. Steps(r) /\ pc'[r] = to
    BY <1>3, <2>1, MoveSteps DEF C!Interrupt
  <2> QED BY <2>1, <2>2
<1>4. ASSUME NEW why \in {"timeout", "cut"}, C!InterruptWork(r, why) PROVE Goal
  BY <1>2, <1>3, <1>4 DEF C!InterruptWork
<1>5. ASSUME NEW why \in {"saturated", "timeout", "cut"},
             \/ C!InterruptWait(r, why)
             \/ pc[r] \in {"cancelled", "revoked"} /\ C!Interrupt(r, pc[r], why)
      PROVE  Goal
  <2>1. why \in C!Results
    BY DEF C!Results, C!Interrupts
  <2> QED BY <1>1, <1>5, <2>1 DEF C!InterruptWait
<1>6. ASSUME pc[r] = "accepted", C!Reject(r, "dropped") PROVE Goal
  <2>1. "dropped" \in C!Results /\ "done" \in Places /\ "done" \notin Live
        /\ ~WorkIsKnown(r)
    BY <1>6 DEF C!Results, Places, Live, WorkIsKnown
  <2> QED BY <1>6, <2>1, MoveSteps DEF C!Reject
<1>7. PICK why \in {"saturated", "timeout", "cut"} :
        \/ C!InterruptWait(r, why)
        \/ pc[r] \in {"cancelled", "revoked"} /\ C!Interrupt(r, pc[r], why)
        \/ why # "saturated" /\ C!InterruptWork(r, why)
        \/ why # "saturated" /\ pc[r] = "closing" /\ C!Release(r)
           /\ result' = [result EXCEPT ![r] = why] /\ UNCHANGED work
        \/ pc[r] = "accepted" /\ C!Reject(r, "dropped")
  <2>1. CASE C!Timers(r)
    BY <2>1 DEF C!Timers, C!QueueTimeout, C!GenerationTimeout
  <2>2. CASE C!Cut(r)
    BY <2>2 DEF C!Cut
  <2> QED BY <2>1, <2>2
<1>8. CASE \/ C!InterruptWait(r, why)
           \/ pc[r] \in {"cancelled", "revoked"} /\ C!Interrupt(r, pc[r], why)
  BY <1>5, <1>8
<1>9. CASE why # "saturated" /\ C!InterruptWork(r, why)
  BY <1>4, <1>9
<1>10. CASE why # "saturated" /\ pc[r] = "closing" /\ C!Release(r)
            /\ result' = [result EXCEPT ![r] = why] /\ UNCHANGED work
  BY <1>2, <1>10
<1> QED BY <1>6, <1>7, <1>8, <1>9, <1>10

(* A request generates, streams and ends.                                  *)
LEMMA WorkSteps ==
  ASSUME PcType, NEW r \in Requests,
         C!WorkEnds(r) \/ C!Answer(r) \/ C!Stream(r) \/ C!Finalize(r) \/ C!Closed(r)
  PROVE  Steps(r)
<1>1. CASE C!WorkEnds(r)
  BY <1>1 DEF C!WorkEnds, Steps, PcType, Others, Itself, WorkIsKnown
<1>2. CASE C!Answer(r)
  BY <1>2, ReleaseSteps DEF C!Answer, C!Results, C!Holding
<1>3. CASE C!Closed(r)
  <2>1. result' = [result EXCEPT ![r] = result[r]] /\ result[r] \in C!Results
    BY <1>3 DEF C!Closed, PcType
  <2>2. WorkIsKnown(r) => result[r] \in Orphaned
    BY <1>3 DEF C!Closed, WorkIsKnown
  <2> QED BY <1>3, <2>1, <2>2, ReleaseSteps DEF C!Closed, C!Holding
<1>4. CASE C!Chunk(r) \/ C!Sent(r)
  BY <1>4, MoveSteps DEF C!Chunk, C!Sent, C!Streams, C!Move, Places, C!Holding, C!Results,
     Live
<1>5. CASE C!LastSent(r) \/ C!EngineFails(r) \/ C!Disconnect(r)
  BY <1>5, MoveSteps DEF C!LastSent, C!EngineFails, C!Disconnect, C!Streams, C!Move,
     Places, C!Holding, C!Results, Live, Orphaned
<1>6. CASE C!Finalize(r)
  <2>1. result[r] \in C!Results /\ (WorkIsKnown(r) => result[r] \in Orphaned)
    BY <1>6 DEF C!Finalize, PcType, WorkIsKnown
  <2> QED BY <1>6, <2>1, MoveSteps DEF C!Finalize, C!Move, Places, C!Holding, Live
<1> QED BY <1>1, <1>2, <1>3, <1>4, <1>5, <1>6 DEF C!Stream

-----------------------------------------------------------------------------
(* The invariant relates a request to the model's life and to the server:  *)
(* one that is alive has seen the manager ready, has a task, and is        *)
(* cancelled once the server has closed, though that may not have reached  *)
(* it.                                                                     *)
ServerInv == /\ span = "serving" <=> server # "closed"
             /\ doomed # {} => server = "closed"

RequestInv(r) ==
  /\ pc[r] \in Live \cup {"idle"} => result[r] = "none"
  /\ pc[r] \in Live => /\ r \in tasks /\ init = "returned"
                       /\ server = "closed" => r \in doomed
  /\ r \in work => WorkIsKnown(r) /\ init = "returned"

ServiceInv == /\ PcType /\ ServerInv
              /\ \A r \in Requests : RequestInv(r)

(* READY is where a returned initialize stays until the shutdown begins.   *)
LEMMA ReadyFacts ==
  ASSUME LP!IInv
  PROVE  /\ Phase = "up" <=> state = "ready"
         /\ state = "ready" => init = "returned" /\ span \in LP!Before
         /\ init = "returned" /\ span \in LP!Before => state = "ready" /\ resident
<1>1. state = "ready" => init = "returned" /\ span \in LP!Before
  BY DEF LP!IInv, LP!TypeOK, LP!CreatedInv, LP!StageInv, LP!CancelledInv, LP!FailedInv,
         LP!SpanInv, LP!Stages, LP!Ended, LP!StateOf
<1>2. init = "returned" /\ span \in LP!Before => state = "ready" /\ resident
  BY DEF LP!IInv, LP!ReturnedInv
<1> QED BY <1>1, <1>2 DEF Phase

(* A step of a request, whoever takes it.                                  *)
LEMMA RequestPreserves ==
  ASSUME ServiceInv, LP!IInv, NEW r \in Requests, Steps(r),
         UNCHANGED <<life, server>>, doomed' \in {doomed, doomed \ {r}},
         NEW X \in {{}, {r}},
         tasks' = {q \in tasks \cup X : pc'[q] \notin {"done", "abandoned"}},
         pc[r] = "idle" /\ pc'[r] \in Live => X = {r},
         server = "closed" /\ pc'[r] \in Live => r \in doomed'
  PROVE  ServiceInv'
<1>1. PcType' /\ ServerInv'
  BY DEF Steps, ServiceInv, ServerInv, life
<1>2. ASSUME NEW q \in Requests \ {r} PROVE RequestInv(q)'
  <2>1. /\ pc'[q] = pc[q] \/ (pc[q] \in Live /\ pc'[q] = "granted")
        /\ result'[q] = result[q] /\ (q \in work' <=> q \in work)
        /\ q \in doomed => q \in doomed'
    BY <1>2 DEF Steps, Others, Live
  <2>2. RequestInv(q)
    BY DEF ServiceInv
  <2>3. pc'[q] \in Live => pc[q] \in Live /\ q \in tasks'
    BY <2>1, <2>2 DEF RequestInv, Live
  <2>4. q \in work => pc'[q] = pc[q]
    BY <2>1, <2>2 DEF RequestInv, WorkIsKnown, Steps, Others
  <2>5. UNCHANGED <<server, init>>
    BY DEF life
  <2> QED BY <2>1, <2>2, <2>3, <2>4, <2>5 DEF RequestInv, WorkIsKnown, Live
<1>3. RequestInv(r)'
  <2>1. RequestInv(r) /\ Itself(r)
    BY DEF ServiceInv, Steps
  <2>2. Phase = "up" => init = "returned"
    BY ReadyFacts
  <2>3. UNCHANGED <<server, init>>
    BY DEF life
  <2>4. pc'[r] \in Live => r \in tasks' /\ init = "returned" /\ result[r] = "none"
    BY <2>1, <2>2 DEF RequestInv, Itself, Live
  <2>5. pc'[r] \in Live \cup {"idle"} => result'[r] = "none"
    BY <2>1, <2>4 DEF RequestInv, Itself, Live
  <2>6. r \in work' => WorkIsKnown(r)' /\ init = "returned"
    BY <2>1, <2>2 DEF RequestInv, Itself, Live
  <2> QED BY <2>3, <2>4, <2>5, <2>6 DEF RequestInv
<1> QED BY <1>1, <1>2, <1>3 DEF ServiceInv

LEMMA RequestsPreserve ==
  ASSUME ServiceInv, LP!IInv, NEW r \in Requests,
         Arrives(r) \/ Proceeds(r, OwnStep(r)) \/ Unwinds(r) \/ ThreadEnds(r)
  PROVE  ServiceInv'
<1>1. PcType /\ RequestInv(r) /\ ServerInv /\ (r \in work => WorkIsKnown(r))
  BY DEF ServiceInv, RequestInv
<1>2. CASE Arrives(r)
  <2>1. Steps(r) /\ server = "up" /\ UNCHANGED <<life, server, doomed>>
        /\ tasks' = {q \in tasks \cup {r} : pc'[q] \notin {"done", "abandoned"}}
    BY <1>1, <1>2, StartSteps DEF Arrives, Tracked
  <2> QED BY <2>1, RequestPreserves
<1>3. CASE Proceeds(r, OwnStep(r))
  <2>1. /\ OwnStep(r) /\ UNCHANGED <<life, server>> /\ doomed' \in {doomed, doomed \ {r}}
        /\ pc'[r] \notin {"done", "abandoned"} => doomed' = doomed
        /\ tasks' = {q \in tasks \cup {} : pc'[q] \notin {"done", "abandoned"}}
    BY <1>3 DEF Proceeds
  <2>2. Steps(r)
    BY <1>1, <2>1, StartSteps, ResumeSteps, InterruptSteps, WorkSteps DEF OwnStep
  <2>3. pc[r] # "idle"
    BY <2>1 DEF OwnStep, C!BeginStream, C!Resume, C!ResumeGranted, C!ResumeInterrupted,
       C!Timers, C!QueueTimeout, C!GenerationTimeout, C!InterruptWait, C!InterruptWork,
       C!Answer, C!Stream, C!Streams, C!Chunk, C!Sent, C!LastSent, C!EngineFails,
       C!Disconnect, C!Finalize, C!Closed, C!Cut
  <2>4. server = "closed" /\ pc'[r] \in Live => r \in doomed'
    BY <1>1, <2>1, <2>2, <2>3 DEF RequestInv, Steps, Itself, Live
  <2> QED BY <2>1, <2>2, <2>3, <2>4, RequestPreserves
<1>4. CASE Unwinds(r)
  <2>1. /\ C!Cut(r) /\ doomed' = doomed \ {r} /\ UNCHANGED <<life, server>>
        /\ tasks' = {q \in tasks \cup {} : pc'[q] \notin {"done", "abandoned"}}
    BY <1>4 DEF Unwinds
  <2>2. Steps(r) /\ pc'[r] \notin Live
    BY <1>1, <2>1, InterruptSteps
  <2> QED BY <2>1, <2>2, RequestPreserves
<1>5. CASE ThreadEnds(r)
  BY <1>5 DEF ThreadEnds, C!WorkEnds, ServiceInv, RequestInv, ServerInv, PcType,
     WorkIsKnown, life
<1> QED BY <1>2, <1>3, <1>4, <1>5

(* The server cancels whoever is left and closes.                          *)
LEMMA ServerPreserves ==
  ASSUME ServiceInv, StopsAccepting \/ Drained \/ DrainExpires
  PROVE  ServiceInv'
<1>1. PcType' /\ UNCHANGED <<pc, result, work, tasks, init>>
  BY DEF StopsAccepting, Drained, DrainExpires, ServiceInv, PcType, requests, life, L!Signal
<1>2. CASE StopsAccepting
  BY <1>1, <1>2 DEF StopsAccepting, ServiceInv, ServerInv, RequestInv, WorkIsKnown, life
<1>3. CASE Drained \/ DrainExpires
  <2>1. ServerInv' /\ server' = "closed"
    BY <1>3 DEF Drained, DrainExpires, L!Signal, ServerInv
  <2>2. ASSUME NEW r \in Requests, pc[r] \in Live PROVE r \in doomed'
    <3>1. r \in tasks /\ result[r] = "none"
      BY <2>2 DEF ServiceInv, RequestInv
    <3> QED BY <1>3, <3>1 DEF Drained, DrainExpires
  <2> QED BY <1>1, <2>1, <2>2 DEF ServiceInv, RequestInv, WorkIsKnown
<1> QED BY <1>2, <1>3

(* The model's life goes on beside the requests; a returned initialize     *)
(* stays returned, and only the server ends the serving.                   *)
LEMMA LifePreserves ==
  ASSUME ServiceInv,
         \/ Beside(L!LoadTask) \/ Beside(L!SpanTask) \/ Beside(L!StageJob)
         \/ \E t \in L!Tasks : Beside(L!UnloadJob(t))
         \/ Beside(L!GraceExpires)
  PROVE  ServiceInv'
<1>1. (init = "returned" => init' = "returned") /\ (span = "serving" <=> span' = "serving")
  <2>1. CASE L!LoadTask
    BY <2>1 DEF L!LoadTask, L!StartResolving, L!StartValidating, L!StartLoading,
       L!StartWarming, L!BecomeReady, L!WarmupUnwinds, L!InitializeFails,
       L!InitializeRaises, L!Begin, L!Continues, L!EndLoadTask, L!Stages
  <2>2. CASE L!SpanTask
    BY <2>2 DEF L!SpanTask, L!StopOrWait, L!WaitReturns, L!CancelLoad,
       L!ShutdownReturns, L!Shutdown
  <2>3. CASE L!StageJob \/ \E t \in L!Tasks : L!UnloadJob(t)
    BY <2>3 DEF L!StageJob, L!LoadPublishes, L!JobEnds, L!AbandonedJobEnds, L!UnloadJob,
       L!UnloadClears, L!UnloadEnds
  <2>4. CASE L!GraceExpires
    BY <2>4 DEF L!GraceExpires
  <2> QED BY <2>1, <2>2, <2>3, <2>4 DEF Beside
<1>2. UNCHANGED <<pc, result, work, server, tasks, doomed>>
  BY DEF Beside, requests
<1> QED BY <1>1, <1>2 DEF ServiceInv, PcType, ServerInv, RequestInv, WorkIsKnown

THEOREM ServiceInvariance == Spec => []ServiceInv
<1>1. Init => ServiceInv
  BY DEF Init, L!Init, C!Init, ServiceInv, PcType, ServerInv, RequestInv, Places, Live,
     C!Results
<1>2. ASSUME ServiceInv, LP!IInv, [Next]_vars PROVE ServiceInv'
  <2>1. CASE UNCHANGED vars
    BY <1>2, <2>1 DEF vars, life, requests, ServiceInv, PcType, ServerInv, RequestInv,
       WorkIsKnown
  <2> QED BY <1>2, <2>1, RequestsPreserve, ServerPreserves, LifePreserves DEF Next
<1> QED BY <1>1, <1>2, LifeInvariance, PTL DEF Spec

-----------------------------------------------------------------------------
(* The server's books: it waits for requests that are not over, and those  *)
(* it has cancelled and that have not resumed are among them.              *)
TasksInv == /\ server \in {"up", "draining", "closed"}
            /\ tasks \subseteq Requests /\ doomed \subseteq tasks
            /\ \A r \in tasks : pc[r] \notin {"done", "abandoned"}

(* A request's step takes only its own task off the books, and the server  *)
(* cancels only tasks it has (main.py:113-122, Service's Tracked).         *)
THEOREM TasksAreTracked == Spec => []TasksInv
<1>1. Init => TasksInv
  BY DEF Init, TasksInv
<1>2. ASSUME TasksInv, ServiceInv, [Next]_vars PROVE TasksInv'
  <2>1. ASSUME NEW r \in Requests, Steps(r), server' = server,
               NEW X \in {{}, {r}},
               tasks' = {q \in tasks \cup X : pc'[q] \notin {"done", "abandoned"}},
               doomed' \subseteq doomed,
               r \in doomed' => pc'[r] \notin {"done", "abandoned"}
        PROVE  TasksInv'
    <3>1. \A q \in Requests \ {r} : pc'[q] = pc[q] \/ pc'[q] = "granted"
      BY <2>1 DEF Steps, Others
    <3>2. doomed' \subseteq tasks'
      BY <1>2, <2>1, <3>1 DEF TasksInv
    <3> QED BY <1>2, <2>1, <3>2 DEF TasksInv
  <2>2. ASSUME NEW r \in Requests PROVE PcType /\ (r \in work => WorkIsKnown(r))
    BY <1>2 DEF ServiceInv, RequestInv
  <2>3. ASSUME NEW r \in Requests, Arrives(r) PROVE TasksInv'
    <3>1. Steps(r) /\ doomed' = {}
      BY <1>2, <2>2, <2>3, StartSteps DEF Arrives, ServiceInv, ServerInv
    <3> QED BY <2>1, <2>3, <3>1 DEF Arrives, Tracked
  <2>4. ASSUME NEW r \in Requests, Proceeds(r, OwnStep(r)) PROVE TasksInv'
    <3>1. Steps(r)
      BY <2>2, <2>4, StartSteps, ResumeSteps, InterruptSteps, WorkSteps DEF Proceeds, OwnStep
    <3>2. tasks' = {q \in tasks \cup {} : pc'[q] \notin {"done", "abandoned"}}
      BY <2>4 DEF Proceeds
    <3> QED BY <2>1, <2>4, <3>1, <3>2 DEF Proceeds
  <2>5. ASSUME NEW r \in Requests, Unwinds(r) PROVE TasksInv'
    <3>1. Steps(r)
      BY <2>2, <2>5, InterruptSteps DEF Unwinds
    <3>2. tasks' = {q \in tasks \cup {} : pc'[q] \notin {"done", "abandoned"}}
      BY <2>5 DEF Unwinds
    <3> QED BY <2>1, <2>5, <3>1, <3>2 DEF Unwinds
  <2>6. ASSUME NEW r \in Requests, ThreadEnds(r) PROVE TasksInv'
    BY <1>2, <2>6 DEF ThreadEnds, C!WorkEnds, TasksInv
  <2>7. CASE StopsAccepting \/ Drained \/ DrainExpires
    BY <1>2, <2>7 DEF StopsAccepting, Drained, DrainExpires, TasksInv, requests
  <2>8. CASE UNCHANGED <<requests, server, tasks, doomed>>
    BY <1>2, <2>8 DEF TasksInv, requests
  <2> QED BY <1>2, <2>3, <2>4, <2>5, <2>6, <2>7, <2>8 DEF Next, vars, Beside
<1> QED BY <1>1, <1>2, ServiceInvariance, PTL DEF Spec

-----------------------------------------------------------------------------
(* No generation starts unless the manager is READY at that moment, though *)
(* it was asked before the wait for a permit (manager.py:148): a waiter    *)
(* that the shutdown could overtake has been cancelled, and only a stream  *)
(* can go on before it learns of that.                                     *)
THEOREM StartsWhenReady == Spec => StartsOnlyWhenReady
<1> DEFINE Late(r) == r \in doomed \cap Streaming /\ pc[r] = "granted"
           A == \A r \in work' \ work : state = "ready" \/ Late(r)
<1>1. ASSUME ServiceInv, LP!IInv, [Next]_vars PROVE A
  <2> SUFFICES ASSUME NEW q \in work' \ work PROVE state = "ready" \/ Late(q)
    OBVIOUS
  <2>1. PICK r \in Requests : Arrives(r) \/ Proceeds(r, OwnStep(r)) \/ Unwinds(r)
    BY <1>1 DEF Next, vars, requests, ThreadEnds, C!WorkEnds, StopsAccepting, Drained,
       DrainExpires, Beside
  <2>2. PcType /\ RequestInv(r) /\ ServerInv /\ (r \in work => WorkIsKnown(r))
    BY <1>1 DEF ServiceInv, RequestInv
  <2>3. Steps(r) /\ (Unwinds(r) => work' = work)
    <3>1. Arrives(r) => C!Start(r)
      BY DEF Arrives
    <3>2. Proceeds(r, OwnStep(r)) => OwnStep(r)
      BY DEF Proceeds
    <3>3. Unwinds(r) => C!Cut(r) /\ work' = work
      BY DEF Unwinds, C!Cut, C!Reject, C!InterruptWait, C!InterruptWork, C!Interrupt
    <3> QED BY <2>1, <2>2, <3>1, <3>2, <3>3, StartSteps, ResumeSteps, InterruptSteps,
               WorkSteps DEF OwnStep
  <2>4. q = r /\ (Phase = "up" \/ pc[r] = "granted")
    BY <2>3 DEF Steps, Others, Itself
  <2>5. CASE Phase = "up"
    BY <1>1, <2>5, ReadyFacts
  <2>6. CASE pc[r] = "granted"
    <3>1. CASE r \in doomed
      <4>1. Proceeds(r, OwnStep(r))
        BY <2>1, <2>3, <2>4, <2>6 DEF Arrives, C!Start, C!Generate, C!AcceptStream
      <4>2. r \in Streaming
        BY <3>1, <4>1 DEF Proceeds
      <4> QED BY <2>4, <2>6, <3>1, <4>2
    <3>2. CASE r \notin doomed
      <4>1. init = "returned" /\ span = "serving"
        BY <2>2, <2>6, <3>2 DEF RequestInv, ServerInv, Live
      <4> QED BY <1>1, <4>1, ReadyFacts DEF LP!Before
    <3> QED BY <3>1, <3>2
  <2> QED BY <2>4, <2>5, <2>6
<1>2. ASSUME ServiceInv, LP!IInv, [Next]_vars PROVE [A]_vars
  BY <1>1, <1>2
<1> QED BY <1>2, ServiceInvariance, LifeInvariance, PTL DEF Spec, StartsOnlyWhenReady

(* unload clears the model under nobody but requests already cut short and *)
(* their orphaned threads (transformers.py:298, llama_cpp.py:280).         *)
THEOREM UnloadMeetsOrphans == Spec => []UnloadMeetsOrphansOnly
<1>1. ServiceInv /\ LP!IInv => UnloadMeetsOrphansOnly
  <2> SUFFICES ASSUME ServiceInv, LP!IInv, ~resident, NEW r \in Requests
               PROVE  /\ pc[r] \in {"running", "sending"} => r \in doomed
                      /\ r \in work => r \in doomed \/ result[r] \in
                           {"timeout", "cut", "disconnected", "dropped", "error"}
    BY DEF UnloadMeetsOrphansOnly
  <2>1. RequestInv(r) /\ ServerInv
    BY DEF ServiceInv
  <2>2. init = "returned" => server = "closed"
    BY <2>1, ReadyFacts DEF ServerInv, LP!Before
  <2> QED BY <2>1, <2>2 DEF RequestInv, WorkIsKnown, Live, Orphaned
<1> QED BY <1>1, ServiceInvariance, LifeInvariance, PTL

-----------------------------------------------------------------------------
(* What the requests see of the life: ready once, then down for good.      *)
LEMMA PhaseStep ==
  ASSUME LP!IInv, LP!IInv', [L!Next]_life
  PROVE  \/ Phase' = Phase
         \/ Phase = "starting" /\ Phase' = "up"
         \/ Phase # "down" /\ Phase' = "down"
<1>1. CASE Phase = "down"
  <2>1. span \notin LP!Before
    BY <1>1 DEF Phase, LP!Before
  <2>2. span' \in {"unloading", "exited", "aborted"}
    <3>1. span \in {"unloading", "exited", "aborted"}
      BY <1>1 DEF Phase
    <3>2. CASE L!LoadTask
      BY <3>1, <3>2 DEF L!LoadTask, L!StartResolving, L!StartValidating, L!StartLoading,
         L!StartWarming, L!BecomeReady, L!WarmupUnwinds, L!InitializeFails,
         L!InitializeRaises, L!Begin
    <3>3. CASE L!SpanTask
      BY <3>1, <3>3 DEF L!SpanTask, L!StopOrWait, L!WaitReturns, L!CancelLoad,
         L!ShutdownReturns
    <3>4. CASE L!StageJob \/ \E t \in L!Tasks : L!UnloadJob(t)
      BY <3>1, <3>4 DEF L!StageJob, L!LoadPublishes, L!JobEnds, L!AbandonedJobEnds,
         L!UnloadJob, L!UnloadClears, L!UnloadEnds
    <3>5. CASE L!Signal \/ L!GraceExpires \/ L!Exited \/ UNCHANGED life
      BY <3>1, <3>5 DEF L!Signal, L!GraceExpires, L!Exited, L!vars, life
    <3> QED BY <3>2, <3>3, <3>4, <3>5 DEF L!Next
  <2>3. state' # "ready"
    BY <2>2 DEF LP!IInv, LP!SpanInv, LP!Before
  <2> QED BY <1>1, <2>2, <2>3 DEF Phase
<1>2. CASE Phase = "up"
  <2>1. state = "ready" /\ init = "returned" /\ span \in LP!Before
    BY <1>2, ReadyFacts
  <2>2. state' = "ready" \/ span' \in {"unloading", "exited", "aborted"}
    <3>1. CASE L!LoadTask
      BY <2>1, <3>1 DEF L!LoadTask, L!StartResolving, L!StartValidating, L!StartLoading,
         L!StartWarming, L!BecomeReady, L!WarmupUnwinds, L!InitializeFails,
         L!InitializeRaises, L!Continues, L!Stages
    <3>2. CASE L!SpanTask
      BY <2>1, <3>2 DEF L!SpanTask, L!StopOrWait, L!WaitReturns, L!CancelLoad,
         L!ShutdownReturns, L!Shutdown, L!mgrVars
    <3>3. CASE L!StageJob \/ \E t \in L!Tasks : L!UnloadJob(t)
      BY <2>1, <3>3 DEF L!StageJob, L!LoadPublishes, L!JobEnds, L!AbandonedJobEnds,
         L!UnloadJob, L!UnloadClears, L!UnloadEnds, L!mgrVars
    <3>4. CASE L!Signal \/ L!GraceExpires \/ L!Exited \/ UNCHANGED life
      BY <2>1, <3>4 DEF L!Signal, L!GraceExpires, L!Exited, L!vars, L!mgrVars, life
    <3> QED BY <3>1, <3>2, <3>3, <3>4 DEF L!Next
  <2>3. Phase' \in {"up", "down"}
    BY <2>2 DEF Phase
  <2> QED BY <1>2, <2>3
<1>3. Phase \in {"starting", "up", "down"} /\ Phase' \in {"starting", "up", "down"}
  BY DEF Phase
<1> QED BY <1>1, <1>2, <1>3

(* Capacity's environment is faithful: every step of the service is one    *)
(* that Capacity takes, or none (manager.py:119, 143-148, 187-189).        *)
THEOREM ServiceImplementsCapacity == Spec => ImplementsCapacity
<1>1. Init => C!Init
  BY DEF Init, C!Init
<1>2. ASSUME LP!IInv, LP!IInv', [Next]_vars PROVE [C!Next]_(C!vars)
  <2>1. ASSUME UNCHANGED requests PROVE [C!Next]_(C!vars)
    <3>1. /\ UNCHANGED <<pc, result, value, waiters, inProgress, work>>
          /\ \/ Phase' = Phase
             \/ Phase = "starting" /\ Phase' = "up"
             \/ Phase # "down" /\ Phase' = "down"
      BY <1>2, <2>1, LifeStep, PhaseStep DEF requests
    <3> QED BY <3>1 DEF C!vars, C!Next, C!BecomeReady, C!Stop
  <2>2. ASSUME NEW r \in Requests,
               Arrives(r) \/ Proceeds(r, OwnStep(r)) \/ Unwinds(r) \/ ThreadEnds(r)
        PROVE  [C!Next]_(C!vars)
    <3>1. \/ C!Start(r) \/ OwnStep(r) \/ C!Cut(r) \/ C!WorkEnds(r)
      BY <2>2 DEF Arrives, Proceeds, Unwinds, ThreadEnds
    <3>2. C!Next
      BY <3>1 DEF OwnStep, C!Next
    <3> QED BY <3>2
  <2> QED BY <1>2, <2>1, <2>2
          DEF Next, vars, StopsAccepting, Drained, DrainExpires, Beside
<1> QED BY <1>1, <1>2, LifeInvariance, PTL DEF Spec, ImplementsCapacity, C!Spec

-----------------------------------------------------------------------------
(* What is proved of Capacity on its own holds in the service, whose       *)
(* ServiceAssumption is Capacity's assumption on the same constants.       *)
LEMMA SameCardinality == \A S : C!Cardinality(S) = CP!Cardinality(S)
  BY DEF C!Cardinality, CP!Cardinality, C!IsFiniteSet, CP!IsFiniteSet

LEMMA SameRequests == /\ C!Init => CP!Init
                      /\ C!Next => CP!Next
                      /\ UNCHANGED C!vars => UNCHANGED CP!vars
<1>1. (C!Init => CP!Init) /\ (UNCHANGED C!vars => UNCHANGED CP!vars)
  BY DEF C!Init, CP!Init, C!vars, CP!vars
<1>2. ASSUME NEW r \in Requests
      PROVE  /\ C!Start(r) => CP!Start(r)
             /\ C!BeginStream(r) => CP!BeginStream(r)
             /\ C!Resume(r) => CP!Resume(r)
             /\ C!Timers(r) => CP!Timers(r)
             /\ C!Cut(r) => CP!Cut(r)
             /\ C!WorkEnds(r) => CP!WorkEnds(r)
             /\ C!Answer(r) => CP!Answer(r)
             /\ C!Stream(r) => CP!Stream(r)
             /\ C!Finalize(r) => CP!Finalize(r)
             /\ C!Closed(r) => CP!Closed(r)
  <2>1. C!Start(r) => CP!Start(r)
    BY DEF C!Start, CP!Start, C!Generate, CP!Generate, C!AcceptStream,
       CP!AcceptStream, C!Acquire, CP!Acquire, C!Locked, CP!Locked, C!Queued,
       CP!Queued, C!Handed, CP!Handed, C!In, CP!In, C!Reject, CP!Reject
  <2>2. C!BeginStream(r) => CP!BeginStream(r)
    BY DEF C!BeginStream, CP!BeginStream, C!Acquire, CP!Acquire, C!Locked,
       CP!Locked, C!Queued, CP!Queued, C!Handed, CP!Handed, C!In, CP!In,
       C!Reject, CP!Reject
  <2>3. C!Resume(r) => CP!Resume(r)
    BY SameCardinality DEF C!Resume, CP!Resume, C!ResumeGranted, CP!ResumeGranted,
       C!ResumeInterrupted, CP!ResumeInterrupted, C!LeaveQueue,
       CP!LeaveQueue, C!Handed, CP!Handed, C!Woken, CP!Woken, C!In, CP!In,
       C!Ahead, CP!Ahead, C!Grant, CP!Grant, C!RemoveAt, CP!RemoveAt
  <2>4. C!Timers(r) => CP!Timers(r)
    BY SameCardinality DEF C!Timers, CP!Timers, C!QueueTimeout, CP!QueueTimeout,
       C!GenerationTimeout, CP!GenerationTimeout, C!InterruptWait,
       CP!InterruptWait, C!InterruptWork, CP!InterruptWork, C!Interrupt,
       CP!Interrupt, C!Release, CP!Release, C!Woken, CP!Woken, C!In, CP!In,
       C!Ahead, CP!Ahead, C!Grant, CP!Grant
  <2>5. C!Cut(r) => CP!Cut(r)
    BY SameCardinality DEF C!Cut, CP!Cut, C!Reject, CP!Reject, C!InterruptWait,
       CP!InterruptWait, C!InterruptWork, CP!InterruptWork, C!Interrupt,
       CP!Interrupt, C!Release, CP!Release, C!Woken, CP!Woken, C!In, CP!In,
       C!Ahead, CP!Ahead, C!Grant, CP!Grant
  <2>6. C!WorkEnds(r) => CP!WorkEnds(r)
    BY DEF C!WorkEnds, CP!WorkEnds
  <2>7. C!Answer(r) => CP!Answer(r)
    BY SameCardinality DEF C!Answer, CP!Answer, C!Release, CP!Release, C!Woken, CP!Woken,
       C!In, CP!In, C!Ahead, CP!Ahead, C!Grant, CP!Grant
  <2>8. C!Stream(r) => CP!Stream(r)
    BY DEF C!Stream, CP!Stream, C!Streams, CP!Streams, C!Chunk, CP!Chunk,
       C!Sent, CP!Sent, C!LastSent, CP!LastSent, C!EngineFails,
       CP!EngineFails, C!Disconnect, CP!Disconnect, C!Move, CP!Move
  <2>9. C!Finalize(r) => CP!Finalize(r)
    BY DEF C!Finalize, CP!Finalize, C!Move, CP!Move
  <2>10. C!Closed(r) => CP!Closed(r)
    BY SameCardinality DEF C!Closed, CP!Closed, C!Release, CP!Release, C!Woken, CP!Woken,
       C!In, CP!In, C!Ahead, CP!Ahead, C!Grant, CP!Grant
  <2> QED BY <2>1, <2>2, <2>3, <2>4, <2>5, <2>6, <2>7, <2>8, <2>9, <2>10
<1>3. (C!BecomeReady => CP!BecomeReady) /\ (C!Stop => CP!Stop)
  BY DEF C!BecomeReady, CP!BecomeReady, C!Stop, CP!Stop
<1> QED BY <1>1, <1>2, <1>3 DEF C!Next, CP!Next

LEMMA RequestsBehave == (Spec => CP!Spec) /\ CP!CapacityAssumption
<1>1. C!Spec => CP!Spec
  <2>1. [C!Next]_(C!vars) => [CP!Next]_(CP!vars)
    BY SameRequests
  <2> QED BY <2>1, SameRequests, PTL DEF C!Spec, CP!Spec
<1>2. CP!CapacityAssumption
  BY ServiceAssumption DEF ServiceAssumption, CP!CapacityAssumption, IsFiniteSet,
     CP!IsFiniteSet
<1> QED BY <1>1, <1>2, ServiceImplementsCapacity DEF ImplementsCapacity

(* No permit is lost or minted, no wakeup is lost and the semaphore's      *)
(* deque is exact under a server that starts, drains, cancels and closes   *)
(* as it will, for any requests and any limit (manager.py:147-184).        *)
THEOREM ServicePermits ==
  Spec => [](C!PermitsConserved /\ C!NoLostWakeup /\ C!QueueIsExact)
<1>1. CP!PermitsConserved /\ CP!NoLostWakeup /\ CP!QueueIsExact =>
        C!PermitsConserved /\ C!NoLostWakeup /\ C!QueueIsExact
  BY SameCardinality
     DEF C!PermitsConserved, CP!PermitsConserved, C!NoLostWakeup, CP!NoLostWakeup,
     C!QueueIsExact, CP!QueueIsExact, C!In, CP!In, C!Handed, CP!Handed, C!Queued,
     CP!Queued, C!Holding, CP!Holding, C!ToSet, CP!ToSet
<1> QED BY <1>1, RequestsBehave, CP!PermitsAreConserved, CP!WakeupsAreNotLost,
           CP!QueueStaysExact, PTL

(* The types of every variable of the service and of its two parts.        *)
THEOREM TypeCorrect == Spec => []TypeOK
<1>1. LP!IInv => L!TypeOK
  BY DEF LP!IInv, LP!TypeOK, L!TypeOK, L!Stages, LP!Stages, L!Exceptions, LP!Exceptions,
     L!Tasks, LP!Tasks, L!ModelStates, LP!ModelStates, L!Ended, LP!Ended
<1>2. CP!TypeOK => C!TypeOK
  BY DEF CP!TypeOK, C!TypeOK, CP!Queued, C!Queued, CP!Handed, C!Handed, CP!Holding,
     C!Holding, CP!Results, C!Results, CP!Interrupts, C!Interrupts
<1>3. TasksInv /\ L!TypeOK /\ C!TypeOK => TypeOK
  BY DEF TasksInv, TypeOK
<1> QED BY <1>1, <1>2, <1>3, LifeInvariance, RequestsBehave, CP!TypeCorrect,
           TasksAreTracked, PTL
=============================================================================

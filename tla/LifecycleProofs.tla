-------------------------- MODULE LifecycleProofs ---------------------------
(***************************************************************************)
(* Proofs about Lifecycle: its types and the safety invariants, from one   *)
(* inductive invariant that says, for each place the load task can be in,  *)
(* what the engine, its threads and the lifespan may be doing; and from    *)
(* the order of the event loop's queue, that STOPPED is final.             *)
(***************************************************************************)
EXTENDS Lifecycle, TLAPS, SequenceTheorems

Before == {"serving", "stopping", "grace", "expired"}  \* before manager.shutdown()
NoDuplicates(q) == \A i, j \in DOMAIN q : q[i] = q[j] => i = j
StateOf(stage) == CASE stage = "resolve" -> "resolving" [] stage = "validate" -> "validating"
                    [] stage = "load" -> "loading" [] stage = "warmup" -> "warming"

(* No task is queued twice, and the two waits that end in more than one   *)
(* way are over when their task is queued.                                *)
QueueInv ==
  /\ NoDuplicates(ready)
  /\ span = "grace" /\ Contains(ready, "span") => Finished
  /\ init = "cleanup" /\ ~cancelled /\ Contains(ready, "load") => unload["load"] \in Ended

CreatedInv == init = "created" =>
  /\ state = "new" /\ gauge = FALSE /\ loads = 0 /\ failures = 0
  /\ resident = FALSE /\ raised = "none" /\ job = "none" /\ cancelled = FALSE
  /\ unload["load"] = "none" /\ span \in {"serving", "stopping"}
  /\ ready # <<>> /\ Head(ready) = "load"

StageInv == init \in Stages /\ ~cancelled =>
  /\ state = StateOf(init) /\ gauge = FALSE /\ failures = 0 /\ raised = "none"
  /\ loads = (IF init = "warmup" THEN 1 ELSE 0)
  /\ unload["load"] = "none" /\ span \in Before
  /\ job \in Exceptions \cup {"ok"} \cup
       (IF init = "load" THEN {"loading", "published"} ELSE {"running"})
  /\ (init \in {"resolve", "validate"} \/ job = "loading") => resident = FALSE
  /\ (init = "warmup" \/ job = "published") => resident = TRUE
  /\ (init = "load" /\ job = "ok") => resident = TRUE

CancelledInv ==
  /\ cancelled => span \notin Before /\ init \notin {"created", "returned"}
  /\ init = "unwinding" => cancelled

FailedInv ==
  /\ raised \in Exceptions => /\ init \in {"cleanup", "raised"} /\ job = "none"
                              /\ (unload["load"] \notin {"none", "queued"} => ~resident)
                              /\ (init = "raised" => unload["load"] \in Ended)
  /\ init \in {"cleanup", "raised"} =>
       /\ unload["load"] # "none" /\ raised # "none"
       /\ (raised = "cancelled" => cancelled)
       /\ state \in {"failed", "stopping", "stopped"} /\ gauge = FALSE

ReturnedInv == init = "returned" =>
  /\ raised = "none" /\ loads = 1 /\ failures = 0 /\ job = "none"
  /\ unload["load"] = "none"
  /\ (span \in Before => state = "ready" /\ gauge = TRUE /\ resident = TRUE)

SpanInv ==
  /\ span \in Before => unload["span"] = "none" /\ state \notin {"stopping", "stopped"}
  /\ span \notin Before => gauge = FALSE /\ state # "ready" /\ (cancelled \/ Finished)
  /\ span \in {"unloading", "exited"} => unload["span"] # "none"
  /\ unload["span"] \notin {"none", "queued"} /\ ~cancelled => ~resident
  /\ span = "aborted" /\ unload["span"] = "none" =>
       init = "raised" /\ raised = "error" /\ state = "failed"
  /\ span = "exited" => unload["span"] = "returned"
  /\ gauge <=> state = "ready"

IInv == TypeOK /\ QueueInv /\ CreatedInv /\ StageInv /\ CancelledInv /\ FailedInv
        /\ ReturnedInv /\ SpanInv

-----------------------------------------------------------------------------
(* The queue of the event loop.                                           *)

(* The head leaves a queue.                                               *)
LEMMA TailFacts ==
  ASSUME NEW q \in Seq(Tasks), q # <<>>, NoDuplicates(q)
  PROVE  /\ Tail(q) \in Seq(Tasks) /\ NoDuplicates(Tail(q))
         /\ \A t : Contains(Tail(q), t) <=> Contains(q, t) /\ t # Head(q)
<1>1. /\ Len(q) \in Nat \ {0} /\ DOMAIN q = 1 .. Len(q) /\ Head(q) = q[1]
  BY EmptySeq, LenProperties
<1>2. /\ Tail(q) \in Seq(Tasks) /\ Len(Tail(q)) = Len(q) - 1
      /\ \A i \in 1 .. Len(Tail(q)) : Tail(q)[i] = q[i + 1]
      /\ DOMAIN Tail(q) = 1 .. Len(Tail(q))
  BY HeadTailProperties, LenProperties
<1>3. NoDuplicates(Tail(q))
  BY <1>1, <1>2 DEF NoDuplicates
<1>4. ASSUME NEW t PROVE Contains(Tail(q), t) <=> Contains(q, t) /\ t # Head(q)
  <2>1. ASSUME Contains(Tail(q), t) PROVE Contains(q, t) /\ t # Head(q)
    <3>1. PICK i \in 1 .. Len(Tail(q)) : q[i + 1] = t
      BY <1>2, <2>1 DEF Contains
    <3> QED BY <1>1, <1>2, <3>1 DEF Contains, NoDuplicates
  <2>2. ASSUME Contains(q, t), t # Head(q) PROVE Contains(Tail(q), t)
    <3>1. PICK i \in 1 .. Len(q) : q[i] = t /\ i # 1
      BY <1>1, <2>2 DEF Contains
    <3>2. i - 1 \in 1 .. Len(Tail(q)) /\ Tail(q)[i - 1] = t
      BY <1>1, <1>2, <3>1
    <3> QED BY <3>2 DEF Contains
  <2> QED BY <2>1, <2>2
<1> QED BY <1>2, <1>3, <1>4

(* A task that is not in the queue joins it.                              *)
LEMMA AppendFacts ==
  ASSUME NEW q \in Seq(Tasks), NEW t \in Tasks, ~Contains(q, t), NoDuplicates(q)
  PROVE  /\ Append(q, t) \in Seq(Tasks) /\ Append(q, t) # <<>>
         /\ NoDuplicates(Append(q, t))
         /\ \A u : Contains(Append(q, t), u) <=> Contains(q, u) \/ u = t
         /\ q # <<>> => Head(Append(q, t)) = Head(q)
<1> DEFINE p == Append(q, t)
<1>1. /\ Len(q) \in Nat /\ DOMAIN q = 1 .. Len(q)
      /\ p \in Seq(Tasks) /\ p # <<>> /\ Len(p) = Len(q) + 1
      /\ DOMAIN p = 1 .. Len(q) + 1 /\ p[Len(q) + 1] = t
      /\ \A i \in 1 .. Len(q) : p[i] = q[i]
  BY AppendProperties, LenProperties
<1> HIDE DEF p
<1>2. NoDuplicates(p)
  BY <1>1 DEF NoDuplicates, Contains
<1>3. ASSUME NEW u PROVE Contains(p, u) <=> Contains(q, u) \/ u = t
  BY <1>1 DEF Contains
<1>4. q # <<>> => Head(p) = Head(q)
  BY HeadTailAppend DEF p
<1> QED BY <1>1, <1>2, <1>3, <1>4 DEF p

(* A task is woken, perhaps for the second time.                          *)
LEMMA PutFacts ==
  ASSUME NEW q \in Seq(Tasks), NEW t \in Tasks, NoDuplicates(q)
  PROVE  /\ Put(t, q) \in Seq(Tasks) /\ Put(t, q) # <<>> /\ NoDuplicates(Put(t, q))
         /\ \A u : Contains(Put(t, q), u) <=> Contains(q, u) \/ u = t
         /\ q # <<>> => Head(Put(t, q)) = Head(q)
<1>1. CASE Contains(q, t)
  <2>1. q # <<>>
    BY <1>1, EmptySeq DEF Contains
  <2> QED BY <1>1, <2>1 DEF Put
<1>2. CASE ~Contains(q, t)
  BY <1>2, AppendFacts DEF Put
<1> QED BY <1>1, <1>2

(* The invariant holds before the load task first runs.                   *)
LEMMA InitInv == Init => IInv
<1> SUFFICES ASSUME Init PROVE IInv
  OBVIOUS
<1>1. /\ ready \in Seq(Tasks) /\ NoDuplicates(ready) /\ ready # <<>>
      /\ Head(ready) = "load" /\ ~Contains(ready, "span")
  BY DEF Init, Tasks, NoDuplicates, Contains
<1> QED BY <1>1
    DEF Init, IInv, TypeOK, QueueInv, CreatedInv, StageInv, CancelledInv, FailedInv,
        ReturnedInv, SpanInv, Tasks, ModelStates, Stages, Ended, Exceptions, Before,
        Finished

-----------------------------------------------------------------------------
(* What one update of unload leaves, for the provers.                     *)
LEMMA UnloadUpdate ==
  ASSUME TypeOK, NEW t \in Tasks, NEW v \in Ended \cup {"none", "queued", "cleared"}
  PROVE  /\ [unload EXCEPT ![t] = v] \in
              [Tasks -> Ended \cup {"none", "queued", "cleared"}]
         /\ [unload EXCEPT ![t] = v][t] = v
         /\ \A u \in Tasks \ {t} : [unload EXCEPT ![t] = v][u] = unload[u]
  BY DEF TypeOK

(* The types after InitializeFails, from what it assigns.                  *)
LEMMA FailTypes ==
  ASSUME TypeOK, Tail(ready) \in Seq(Tasks),
         raised' \in Exceptions \cup {"cancelled"},
         unload' \in [Tasks -> Ended \cup {"none", "queued", "cleared"}],
         job' \in Exceptions \cup {"none", "running", "loading", "published", "ok"},
         state' = "failed" /\ gauge' = FALSE /\ failures' = failures + 1,
         init' = "cleanup" /\ ready' = Tail(ready),
         UNCHANGED <<loads, resident, cancelled, span>>
  PROVE  TypeOK'
<1>1. ready' \in Seq(Tasks)
  OBVIOUS
<1>2. failures' \in Nat
  BY DEF TypeOK
<1>3. state' \in ModelStates /\ gauge' \in BOOLEAN
  BY DEF ModelStates
<1>4. loads' \in Nat /\ resident' \in BOOLEAN /\ cancelled' \in BOOLEAN
  BY DEF TypeOK
<1>5. span' \in {"serving", "stopping", "grace", "expired", "unloading",
                 "exited", "aborted"}
  BY DEF TypeOK
<1>6. init' \in Stages \cup Ended \cup {"created", "unwinding", "cleanup"}
  OBVIOUS
<1>7. raised' \in Exceptions \cup {"none", "cancelled"}
  OBVIOUS
<1> QED BY <1>1, <1>2, <1>3, <1>4, <1>5, <1>6, <1>7 DEF TypeOK

(* initialize.  One lemma per group of actions, one step per action.      *)
LEMMA LoadTaskPreserves ==
  ASSUME IInv, LoadTask
  PROVE  IInv'
<1> USE DEF IInv, TypeOK, QueueInv, CreatedInv, StageInv, CancelledInv, FailedInv,
            ReturnedInv, SpanInv, Tasks, ModelStates, Stages, Ended, Exceptions,
            Before, Finished, StateOf, Resumes
<1>1. /\ ready # <<>> /\ Head(ready) = "load" /\ Contains(ready, "load")
      /\ Tail(ready) \in Seq(Tasks) /\ NoDuplicates(Tail(ready))
      /\ \A t : Contains(Tail(ready), t) <=> Contains(ready, t) /\ t # "load"
  <2>1. ready # <<>> /\ Head(ready) = "load"
    BY DEF LoadTask, StartResolving, StartValidating, StartLoading, StartWarming,
           BecomeReady, WarmupUnwinds, InitializeFails, InitializeRaises, Continues
  <2>2. Len(ready) \in Nat /\ Len(ready) >= 1 /\ ready[1] = "load"
    BY <2>1, EmptySeq
  <2>3. Contains(ready, "load")
    BY <2>2 DEF Contains
  <2> QED BY <2>1, <2>3, TailFacts
<1>2. CASE StartResolving
  BY <1>1, <1>2 DEF StartResolving, Begin
<1>3. CASE StartValidating
  BY <1>1, <1>3 DEF StartValidating, Begin, Continues
<1>4. CASE StartLoading
  BY <1>1, <1>4 DEF StartLoading, Begin, Continues
<1>5. CASE StartWarming
  BY <1>1, <1>5 DEF StartWarming, Begin, Continues
<1>6. /\ Put("span", Tail(ready)) \in Seq(Tasks)
      /\ NoDuplicates(Put("span", Tail(ready)))
      /\ \A t : Contains(Put("span", Tail(ready)), t) <=>
                 Contains(Tail(ready), t) \/ t = "span"
  BY <1>1, PutFacts
<1>7. CASE BecomeReady
  BY <1>1, <1>6, <1>7 DEF BecomeReady, Continues, EndLoadTask
<1>8. CASE WarmupUnwinds
  <2>1. /\ Put("load", Tail(ready)) \in Seq(Tasks)
        /\ NoDuplicates(Put("load", Tail(ready)))
        /\ \A t : Contains(Put("load", Tail(ready)), t) <=>
                   Contains(Tail(ready), t) \/ t = "load"
    BY <1>1, PutFacts
  <2> QED BY <1>1, <1>8, <2>1 DEF WarmupUnwinds
<1>9. CASE InitializeFails
  <2>1. raised' \in Exceptions \cup {"cancelled"} /\ (raised' = "cancelled" <=> cancelled)
    BY <1>9 DEF InitializeFails, Failure
  <2>11. TypeOK'
    <3>1. unload' \in [Tasks -> Ended \cup {"none", "queued", "cleared"}]
      BY <1>9, UnloadUpdate DEF InitializeFails
    <3>2. job' \in Exceptions \cup {"none", "running", "loading", "published", "ok"}
      BY <1>9 DEF InitializeFails
    <3>3. /\ state' = "failed" /\ gauge' = FALSE /\ failures' = failures + 1
          /\ init' = "cleanup" /\ ready' = Tail(ready)
          /\ UNCHANGED <<loads, resident, cancelled, span>>
      BY <1>9 DEF InitializeFails
    <3> QED BY <1>1, <2>1, <3>1, <3>2, <3>3, FailTypes
  <2>12. QueueInv'
    BY <1>1, <1>9, <2>1 DEF InitializeFails
  <2>13. CreatedInv'
    BY <1>1, <1>9, <2>1 DEF InitializeFails
  <2>14. StageInv'
    BY <1>1, <1>9, <2>1 DEF InitializeFails
  <2>15. CancelledInv'
    BY <1>1, <1>9, <2>1 DEF InitializeFails
  <2>16. FailedInv'
    <3>1. unload'["load"] = "queued"
      BY <1>9 DEF InitializeFails
    <3>2. init' = "cleanup" /\ state' = "failed" /\ gauge' = FALSE
      BY <1>9 DEF InitializeFails
    <3>3. raised' \in Exceptions => job' = "none"
      BY <1>9, <2>1 DEF InitializeFails, Failure
    <3> QED BY <2>1, <3>1, <3>2, <3>3, <1>9 DEF InitializeFails
  <2>17. ReturnedInv'
    BY <1>1, <1>9, <2>1 DEF InitializeFails
  <2>18. SpanInv'
    BY <1>1, <1>9, <2>1 DEF InitializeFails
  <2> QED BY <2>11, <2>12, <2>13, <2>14, <2>15, <2>16, <2>17, <2>18
<1>10. CASE InitializeRaises
  BY <1>1, <1>6, <1>10 DEF InitializeRaises, EndLoadTask
<1> QED BY <1>2, <1>3, <1>4, <1>5, <1>7, <1>8, <1>9, <1>10 DEF LoadTask

(* The threads of the stages and of unload.                               *)
LEMMA ThreadsPreserve ==
  ASSUME IInv, StageJob \/ \E t \in Tasks : UnloadJob(t)
  PROVE  IInv'
<1> USE DEF IInv, TypeOK, QueueInv, CreatedInv, StageInv, CancelledInv, FailedInv,
            ReturnedInv, SpanInv, Tasks, ModelStates, Stages, Ended, Exceptions,
            Before, Finished, StateOf, mgrVars
<1>1. \A t \in Tasks :
         /\ Wake(t) \in Seq(Tasks) /\ Wake(t) # <<>> /\ NoDuplicates(Wake(t))
         /\ \A u : Contains(Wake(t), u) <=> Contains(ready, u) \/ u = t
         /\ ready # <<>> => Head(Wake(t)) = Head(ready)
  BY PutFacts DEF Wake
<1>2. CASE LoadPublishes
  BY <1>2 DEF LoadPublishes
<1>3. CASE JobEnds
  <2>11. TypeOK'
    <3>1. resident' = resident \/ resident' = FALSE
      BY <1>3, Zenon DEF JobEnds
    <3>2. resident' \in BOOLEAN
      BY <3>1, Zenon
    <3>3. /\ UNCHANGED <<state, gauge, loads, failures, init, raised, cancelled, unload, span>>
          /\ job' \in Exceptions \cup {"ok"}
      BY <1>3 DEF JobEnds
    <3>4. ready' \in Seq(Tasks)
      BY <1>1, <1>3 DEF JobEnds
    <3> QED BY ONLY <3>2, <3>3, <3>4, IInv
  <2>12. QueueInv'
    BY <1>1, <1>3 DEF JobEnds, Awaited
  <2>13. CreatedInv'
    BY <1>1, <1>3 DEF JobEnds, Awaited
  <2>14. StageInv'
    BY <1>1, <1>3 DEF JobEnds, Awaited
  <2>15. CancelledInv'
    BY <1>1, <1>3 DEF JobEnds, Awaited
  <2>16. FailedInv'
    BY <1>1, <1>3 DEF JobEnds, Awaited
  <2>17. ReturnedInv'
    BY <1>1, <1>3 DEF JobEnds, Awaited
  <2>18. SpanInv'
    BY <1>1, <1>3 DEF JobEnds, Awaited
  <2> QED BY <2>11, <2>12, <2>13, <2>14, <2>15, <2>16, <2>17, <2>18
<1>4. CASE AbandonedJobEnds
  <2>11. TypeOK'
    <3>1. resident' = resident \/ resident' = FALSE
      BY <1>4, Zenon DEF AbandonedJobEnds
    <3>2. resident' \in BOOLEAN
      BY <3>1, Zenon
    <3>3. /\ UNCHANGED <<state, gauge, loads, failures, init, raised, cancelled, unload, span,
                        ready>>
          /\ job' = "none"
      BY <1>4 DEF AbandonedJobEnds
    <3> QED BY ONLY <3>2, <3>3, IInv
  <2>12. QueueInv'
    BY <1>4 DEF AbandonedJobEnds, Awaited
  <2>13. CreatedInv'
    BY <1>4 DEF AbandonedJobEnds, Awaited
  <2>14. StageInv'
    BY <1>4 DEF AbandonedJobEnds, Awaited
  <2>15. CancelledInv'
    BY <1>4 DEF AbandonedJobEnds, Awaited
  <2>16. FailedInv'
    BY <1>4 DEF AbandonedJobEnds, Awaited
  <2>17. ReturnedInv'
    BY <1>4 DEF AbandonedJobEnds, Awaited
  <2>18. SpanInv'
    BY <1>4 DEF AbandonedJobEnds, Awaited
  <2> QED BY <2>11, <2>12, <2>13, <2>14, <2>15, <2>16, <2>17, <2>18
<1>5. ASSUME NEW t \in Tasks, UnloadClears(t) PROVE IInv'
  <2>11. TypeOK'
    <3>1. unload' \in [Tasks -> Ended \cup {"none", "queued", "cleared"}]
      BY <1>5, UnloadUpdate DEF UnloadClears
    <3>2. /\ state' = state /\ gauge' = gauge /\ loads' = loads
          /\ failures' = failures /\ init' = init /\ raised' = raised
          /\ job' = job /\ cancelled' = cancelled /\ span' = span
          /\ ready' = ready /\ resident' \in BOOLEAN
      BY <1>5 DEF UnloadClears
    <3> HIDE DEF Tasks, IInv, QueueInv, CreatedInv, StageInv, CancelledInv,
                 FailedInv, ReturnedInv, SpanInv
    <3>3. TypeOK
      BY DEF IInv
    <3> QED BY <3>1, <3>2, <3>3
  <2>12. QueueInv'
    BY <1>5 DEF UnloadClears
  <2>13. CreatedInv'
    BY <1>5 DEF UnloadClears
  <2>14. StageInv'
    BY <1>5 DEF UnloadClears
  <2>15. CancelledInv'
    BY <1>5 DEF UnloadClears
  <2>16. FailedInv'
    BY <1>5 DEF UnloadClears
  <2>17. ReturnedInv'
    BY <1>5 DEF UnloadClears
  <2>18. SpanInv'
    BY <1>5 DEF UnloadClears
  <2> QED BY <2>11, <2>12, <2>13, <2>14, <2>15, <2>16, <2>17, <2>18
<1>6. ASSUME NEW t \in Tasks, UnloadEnds(t) PROVE IInv'
  BY <1>1, <1>6 DEF UnloadEnds
<1> QED BY <1>2, <1>3, <1>4, <1>5, <1>6 DEF StageJob, UnloadJob

(* The lifespan, the shutdown signal and the grace timer.                 *)
LEMMA SpanTaskPreserves ==
  ASSUME IInv, SpanTask \/ Signal \/ GraceExpires
  PROVE  IInv'
<1> USE DEF IInv, TypeOK, QueueInv, CreatedInv, StageInv, CancelledInv, FailedInv,
            ReturnedInv, SpanInv, Tasks, ModelStates, Stages, Ended, Exceptions,
            Before, Finished, StateOf, Resumes, mgrVars
<1>1. ASSUME SpanTask
      PROVE  /\ ready # <<>> /\ Head(ready) = "span" /\ Contains(ready, "span")
             /\ Tail(ready) \in Seq(Tasks) /\ NoDuplicates(Tail(ready))
             /\ \A t : Contains(Tail(ready), t) <=> Contains(ready, t) /\ t # "span"
  <2>1. ready # <<>> /\ Head(ready) = "span"
    BY <1>1 DEF SpanTask, StopOrWait, WaitReturns, CancelLoad, ShutdownReturns
  <2>2. Len(ready) \in Nat /\ Len(ready) >= 1 /\ ready[1] = "span"
    BY <2>1, EmptySeq
  <2>3. Contains(ready, "span")
    BY <2>2 DEF Contains
  <2> QED BY <2>1, <2>3, TailFacts
<1>2. /\ Wake("span") \in Seq(Tasks) /\ Wake("span") # <<>>
      /\ NoDuplicates(Wake("span"))
      /\ \A u : Contains(Wake("span"), u) <=> Contains(ready, u) \/ u = "span"
      /\ ready # <<>> => Head(Wake("span")) = Head(ready)
  BY PutFacts DEF Wake
<1>3. CASE StopOrWait
  <2>1. CASE Finished
    <3>1. span = "stopping" /\ Shutdown(Tail(ready)) /\ UNCHANGED cancelled
      BY <1>3, <2>1 DEF StopOrWait
    <3>2. TypeOK' /\ QueueInv'
      BY <1>1, <1>3, <2>1, <3>1 DEF SpanTask, Shutdown
    <3>3. CreatedInv' /\ StageInv' /\ CancelledInv'
      BY <1>1, <1>3, <2>1, <3>1 DEF SpanTask, Shutdown
    <3>4. FailedInv' /\ ReturnedInv' /\ SpanInv'
      BY <1>1, <1>3, <2>1, <3>1 DEF SpanTask, Shutdown
    <3> QED BY <3>2, <3>3, <3>4
  <2>2. CASE ~Finished
    <3>1. /\ span = "stopping" /\ span' = "grace" /\ ready' = Tail(ready)
          /\ UNCHANGED <<state, gauge, loads, failures, resident, init, raised, job, cancelled,
                        unload>>
      BY <1>3, <2>2 DEF StopOrWait
    <3>2. /\ Tail(ready) \in Seq(Tasks) /\ NoDuplicates(Tail(ready)) /\ init # "created"
          /\ \A t : Contains(Tail(ready), t) <=> Contains(ready, t) /\ t # "span"
      BY <1>1, <1>3 DEF SpanTask
    <3>3. TypeOK' /\ QueueInv'
      BY ONLY <3>1, <3>2, IInv
    <3>4. CreatedInv' /\ StageInv' /\ CancelledInv'
      BY ONLY <3>1, <3>2, IInv
    <3>5. FailedInv' /\ ReturnedInv' /\ SpanInv'
      BY ONLY <3>1, IInv
    <3> QED BY <3>3, <3>4, <3>5
  <2> QED BY <2>1, <2>2
<1>4. CASE WaitReturns
  <2>1. TypeOK' /\ QueueInv'
    BY <1>1, <1>4 DEF SpanTask, WaitReturns, Shutdown
  <2>2. CreatedInv' /\ StageInv' /\ CancelledInv'
    BY <1>1, <1>4 DEF SpanTask, WaitReturns, Shutdown
  <2>3. FailedInv' /\ ReturnedInv' /\ SpanInv'
    BY <1>1, <1>4 DEF SpanTask, WaitReturns, Shutdown
  <2> QED BY <2>1, <2>2, <2>3
<1>5. CASE CancelLoad
  <2> DEFINE rest == IF Finished THEN Tail(ready) ELSE Put("load", Tail(ready))
  <2>1. rest \in Seq(Tasks) /\ NoDuplicates(rest)
    BY <1>1, <1>5, PutFacts DEF SpanTask
  <2>2. ready' = rest
    BY <1>5 DEF CancelLoad, Shutdown
  <2> HIDE DEF rest
  <2>11. TypeOK'
    <3>1. (gauge' = gauge \/ gauge' = FALSE) /\ cancelled' = ~Finished
      BY <1>5, Zenon DEF CancelLoad, Shutdown
    <3>2. gauge' \in BOOLEAN /\ cancelled' \in BOOLEAN
      BY <3>1, Zenon
    <3>3. /\ UNCHANGED <<loads, failures, resident, init, raised, job>>
          /\ state' \in {state, "stopping"} /\ span' \in {"exited", "unloading"}
          /\ unload' = unload \/ unload' = [unload EXCEPT !["span"] = "queued"]
      BY <1>5 DEF CancelLoad, Shutdown
    <3> QED BY ONLY <2>1, <2>2, <3>2, <3>3, IInv
  <2>12. QueueInv'
    BY <1>1, <1>5, <2>1, <2>2 DEF SpanTask, CancelLoad, Shutdown
  <2>13. CreatedInv'
    BY <1>1, <1>5, <2>1, <2>2 DEF SpanTask, CancelLoad, Shutdown
  <2>14. StageInv'
    BY <1>1, <1>5, <2>1, <2>2 DEF SpanTask, CancelLoad, Shutdown
  <2>15. CancelledInv'
    BY <1>1, <1>5, <2>1, <2>2 DEF SpanTask, CancelLoad, Shutdown
  <2>16. FailedInv'
    BY <1>1, <1>5, <2>1, <2>2 DEF SpanTask, CancelLoad, Shutdown
  <2>17. ReturnedInv'
    BY <1>1, <1>5, <2>1, <2>2 DEF SpanTask, CancelLoad, Shutdown
  <2>18. SpanInv'
    BY <1>1, <1>5, <2>1, <2>2 DEF SpanTask, CancelLoad, Shutdown
  <2> QED BY <2>11, <2>12, <2>13, <2>14, <2>15, <2>16, <2>17, <2>18
<1>6. CASE ShutdownReturns
  BY <1>1, <1>6 DEF SpanTask, ShutdownReturns
<1>7. CASE Signal
  BY <1>2, <1>7 DEF Signal
<1>8. CASE GraceExpires
  BY <1>2, <1>8 DEF GraceExpires
<1> QED BY <1>3, <1>4, <1>5, <1>6, <1>7, <1>8 DEF SpanTask

-----------------------------------------------------------------------------
(* The inductive invariant, whose parts the theorems below cite.          *)
THEOREM Invariance == Spec => []IInv
<1>1. ASSUME IInv, UNCHANGED vars PROVE IInv'
  BY <1>1 DEF vars, IInv, TypeOK, QueueInv, CreatedInv, StageInv, CancelledInv,
              FailedInv, ReturnedInv, SpanInv, Finished
<1>2. ASSUME IInv, [Next]_vars PROVE IInv'
  BY <1>1, <1>2, LoadTaskPreserves, ThreadsPreserve, SpanTaskPreserves DEF Next, Exited
<1> QED BY <1>2, InitInv, PTL DEF Spec

(* The types, for either kind of engine.                                  *)
THEOREM TypeCorrect == Spec => []TypeOK
<1>1. IInv => TypeOK
  BY DEF IInv
<1> QED BY <1>1, Invariance, PTL

(* READY means a loaded model nobody is unloading, and only READY shows   *)
(* in the gauge, in every interleaving of threads, timer and tasks.       *)
THEOREM ReadyIsServable == Spec => []ReadyMeansServable
<1>1. IInv => ReadyMeansServable
  <2> SUFFICES ASSUME IInv PROVE ReadyMeansServable
    OBVIOUS
  <2>1. gauge <=> state = "ready"
    BY DEF IInv, SpanInv
  <2>2. ASSUME state = "ready" PROVE init = "returned" /\ span \in Before
    BY <2>2 DEF IInv, TypeOK, CreatedInv, StageInv, CancelledInv, FailedInv, SpanInv,
                Stages, Ended, StateOf
  <2>3. ASSUME state = "ready"
        PROVE  /\ resident /\ loads = 1 /\ failures = 0
               /\ \A t \in Tasks : unload[t] = "none"
    BY <2>2, <2>3 DEF IInv, ReturnedInv, SpanInv, Tasks
  <2> QED BY <2>1, <2>3 DEF ReadyMeansServable
<1> QED BY <1>1, Invariance, PTL

(* A load that fails by itself leaves no model behind.                    *)
THEOREM FailureIsUnloaded == Spec => []FailureUnloads
<1>1. IInv => FailureUnloads
  BY DEF IInv, FailedInv, FailureUnloads, Ended
<1> QED BY <1>1, Invariance, PTL

(* A completed shutdown leaves a model behind only if it cut a load short. *)
THEOREM LeaksComeFromCancel == Spec => []LeakOnlyAfterCancel
<1>1. IInv => LeakOnlyAfterCancel
  BY DEF IInv, SpanInv, LeakOnlyAfterCancel
<1> QED BY <1>1, Invariance, PTL

(* Nothing makes the service ready again after manager.shutdown() began.  *)
THEOREM StoppingIsForGood == Spec => []NeverReadyAgain
<1>1. IInv => NeverReadyAgain
  BY DEF IInv, SpanInv, FailedInv, NeverReadyAgain, Before, Exceptions, Ended
<1> QED BY <1>1, Invariance, PTL

(* Only a load the lifespan cancelled writes over STOPPING.               *)
THEOREM RegressComesFromCancel == Spec => RegressOnlyByCancel
<1> DEFINE A == state = "stopping" => state' \in {"stopping", "stopped"} \/ cancelled
<1>1. ASSUME IInv, [Next]_vars PROVE [A]_vars
  <2> SUFFICES ASSUME state = "stopping", ~cancelled, Next
               PROVE  state' \in {"stopping", "stopped"}
    BY <1>1 DEF vars
  <2>1. Finished
    BY <1>1 DEF IInv, SpanInv
  <2>2. CASE LoadTask
    BY <2>1, <2>2 DEF LoadTask, Finished, Ended, Stages, Continues, StartResolving,
         StartValidating, StartLoading, StartWarming, BecomeReady, WarmupUnwinds,
         InitializeFails, InitializeRaises
  <2>3. CASE SpanTask
    BY <2>3 DEF SpanTask, StopOrWait, WaitReturns, CancelLoad, ShutdownReturns,
         Shutdown, mgrVars
  <2>4. CASE StageJob
    BY <2>4 DEF StageJob, LoadPublishes, JobEnds, AbandonedJobEnds, mgrVars
  <2>5. CASE \E t \in Tasks : UnloadJob(t)
    BY <2>5 DEF UnloadJob, UnloadClears, UnloadEnds, mgrVars
  <2>6. CASE Signal \/ GraceExpires \/ Exited
    BY <2>6 DEF Signal, GraceExpires, Exited, vars, mgrVars
  <2> QED BY <2>2, <2>3, <2>4, <2>5, <2>6 DEF Next
<1> QED BY <1>1, Invariance, PTL DEF Spec, RegressOnlyByCancel

-----------------------------------------------------------------------------
(* STOPPED is final because of an order: the load task that the lifespan   *)
(* has cancelled in a stage is the next to run, and until it has run the   *)
(* lifespan does not learn that unload is over.                            *)
CutShortInv == init \in Stages /\ cancelled =>
  ready # <<>> /\ Head(ready) = "load" /\ state # "stopped"

(* What the load task and the lifespan do to it.                           *)
LEMMA TasksKeepCutShort ==
  ASSUME IInv, CutShortInv, LoadTask \/ SpanTask
  PROVE  CutShortInv'
<1>1. CASE LoadTask
  BY <1>1 DEF LoadTask, StartResolving, StartValidating, StartLoading, StartWarming,
       BecomeReady, WarmupUnwinds, InitializeFails, InitializeRaises, Continues, Begin,
       EndLoadTask, CutShortInv, IInv, CreatedInv, Stages, Ended
<1>2. CASE StopOrWait \/ WaitReturns
  <2>1. ~cancelled
    BY <1>2 DEF StopOrWait, WaitReturns, IInv, CancelledInv, Before
  <2> QED BY <1>2, <2>1 DEF StopOrWait, WaitReturns, CutShortInv, mgrVars
<1>3. CASE CancelLoad
  <2>1. /\ ready \in Seq(Tasks) /\ NoDuplicates(ready) /\ ready # <<>>
        /\ Head(ready) = "span"
    BY <1>3 DEF CancelLoad, Resumes, IInv, TypeOK, QueueInv
  <2>2. /\ Tail(ready) \in Seq(Tasks) /\ NoDuplicates(Tail(ready))
        /\ ~Contains(Tail(ready), "span")
    BY <2>1, TailFacts
  <2>3. Tail(ready) # <<>> => Head(Tail(ready)) = "load"
    <3> DEFINE q == Tail(ready)
    <3>1. q # <<>> => Len(q) >= 1 /\ 1 \in DOMAIN q /\ q[1] \in Tasks /\ Head(q) = q[1]
      BY <2>2, EmptySeq, LenProperties, ElementOfSeq
    <3> HIDE DEF q
    <3>2. q # <<>> => q[1] # "span"
      BY <2>2, <3>1 DEF q, Contains
    <3> QED BY <3>1, <3>2 DEF Tasks, q
  <2>4. LET q == Put("load", Tail(ready)) IN q # <<>> /\ Head(q) = "load"
    <3>1. CASE Tail(ready) # <<>>
      BY <2>2, <2>3, <3>1, PutFacts DEF Tasks
    <3>2. CASE Tail(ready) = <<>>
      <4>1. Put("load", <<>>) = Append(<<>>, "load")
        BY DEF Put, Contains
      <4>2. Append(<<>>, "load") # <<>> /\ Head(Append(<<>>, "load")) = "load"
        BY EmptySeq, HeadTailAppend DEF Tasks
      <4> QED BY <3>2, <4>1, <4>2
    <3> QED BY <3>1, <3>2
  <2>5. init \in Stages => ~Finished
    BY DEF Finished, Stages, Ended
  <2>6. /\ init' = init /\ (init \in Stages => ready' = Put("load", Tail(ready)))
        /\ state' \in {state, "stopping"}
    BY <1>3, <2>5 DEF CancelLoad, Shutdown
  <2>7. state # "stopped"
    BY <1>3 DEF CancelLoad, IInv, SpanInv, Before
  <2> QED BY <2>4, <2>6, <2>7 DEF CutShortInv
<1>4. CASE ShutdownReturns
  BY <1>4 DEF ShutdownReturns, Resumes, CutShortInv
<1> QED BY <1>1, <1>2, <1>3, <1>4 DEF SpanTask

(* Threads, the signal and the timer put nobody ahead of it.               *)
LEMMA OthersKeepCutShort ==
  ASSUME IInv, CutShortInv, [Next]_vars, ~LoadTask, ~SpanTask
  PROVE  CutShortInv'
<1>1. /\ UNCHANGED <<state, init, cancelled>>
      /\ ready' = ready \/ \E t \in Tasks : ready' = Wake(t)
  BY DEF Next, StageJob, LoadPublishes, JobEnds, AbandonedJobEnds, UnloadJob, UnloadClears,
         UnloadEnds, Signal, GraceExpires, Exited, vars, mgrVars, Tasks
<1>2. \A t \in Tasks : Wake(t) # <<>> /\ (ready # <<>> => Head(Wake(t)) = Head(ready))
  BY PutFacts DEF Wake, IInv, TypeOK, QueueInv
<1> QED BY <1>1, <1>2 DEF CutShortInv

THEOREM CutShortInvariance == Spec => []CutShortInv
<1>1. Init => CutShortInv
  BY DEF Init, CutShortInv, Stages
<1>2. ASSUME IInv, CutShortInv, [Next]_vars PROVE CutShortInv'
  BY <1>2, TasksKeepCutShort, OthersKeepCutShort
<1> QED BY <1>1, <1>2, Invariance, PTL DEF Spec

(* Nothing is written over STOPPED (manager.py:132, 192), except by a      *)
(* warm-up that takes several passes of the loop to unwind.                *)
THEOREM StoppedStays == Spec => StoppedIsFinal
<1> DEFINE A == state = "stopped" => state' = "stopped" \/ init = "unwinding"
<1>1. ASSUME IInv, CutShortInv, [Next]_vars PROVE [A]_vars
  <2> SUFFICES ASSUME state = "stopped", init # "unwinding", Next
               PROVE  state' = "stopped"
    BY <1>1 DEF vars
  <2>1. span \notin Before /\ init \notin Stages \cup {"created"}
    BY <1>1 DEF IInv, SpanInv, CreatedInv, CutShortInv, StageInv, StateOf, Stages
  <2>2. CASE LoadTask
    BY <2>1, <2>2 DEF LoadTask, Stages, Continues, StartResolving, StartValidating,
         StartLoading, StartWarming, BecomeReady, WarmupUnwinds, InitializeFails,
         InitializeRaises
  <2>3. CASE SpanTask
    BY <2>1, <2>3 DEF SpanTask, StopOrWait, WaitReturns, CancelLoad, ShutdownReturns,
         Before
  <2>4. CASE StageJob
    BY <2>4 DEF StageJob, LoadPublishes, JobEnds, AbandonedJobEnds, mgrVars
  <2>5. CASE \E t \in Tasks : UnloadJob(t)
    BY <2>5 DEF UnloadJob, UnloadClears, UnloadEnds, mgrVars
  <2>6. CASE Signal \/ GraceExpires \/ Exited
    BY <2>6 DEF Signal, GraceExpires, Exited, vars, mgrVars
  <2> QED BY <2>2, <2>3, <2>4, <2>5, <2>6 DEF Next
<1> QED BY <1>1, Invariance, CutShortInvariance, PTL DEF Spec, StoppedIsFinal
=============================================================================

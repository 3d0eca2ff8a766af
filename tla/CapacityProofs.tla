--------------------------- MODULE CapacityProofs ---------------------------
(***************************************************************************)
(* Proofs about Capacity for any set of requests and any limit: its types, *)
(* the conservation of permits, that no wakeup is lost, that the deque is  *)
(* exact, and that Capacity implements PermitPool.  The first part counts  *)
(* requests by the place they are in; a step moves one request and grants  *)
(* a set of pending ones a permit each.  The second follows the order of   *)
(* the deque.                                                              *)
(***************************************************************************)
EXTENDS Capacity, TLAPS, FiniteSetTheorems, SequenceTheorems

Places == Queued \cup Holding \cup {"idle", "accepted", "done"}

Count(f, S) == Cardinality({r \in Requests : f[r] \in S})

(* Moving r from one place to another changes each count by at most one.  *)
LEMMA CountMove ==
  ASSUME NEW f \in [Requests -> Places], NEW g \in [Requests -> Places],
         NEW r \in Requests, \A q \in Requests \ {r} : g[q] = f[q], NEW S
  PROVE  /\ Count(f, S) \in Nat /\ Count(g, S) \in Nat
         /\ Count(g, S) = Count(f, S) + (IF g[r] \in S THEN 1 ELSE 0)
                                     - (IF f[r] \in S THEN 1 ELSE 0)
<1> DEFINE A == {q \in Requests : f[q] \in S}
           B == {q \in Requests : g[q] \in S}
<1>1. IsFiniteSet(A) /\ Cardinality(A) \in Nat /\ Cardinality(B) \in Nat
  BY FS_Subset, FS_CardinalityType, CapacityAssumption DEF CapacityAssumption
<1>2. B = IF g[r] \in S THEN A \cup {r} ELSE A \ {r}
  OBVIOUS
<1>3. (r \in A) = (f[r] \in S)
  OBVIOUS
<1>4. Cardinality(A \cup {r}) = IF r \in A THEN Cardinality(A) ELSE Cardinality(A) + 1
  BY <1>1, FS_AddElement
<1>5. Cardinality(A \ {r}) = IF r \in A THEN Cardinality(A) - 1 ELSE Cardinality(A)
  BY <1>1, FS_RemoveElement
<1>6. Count(f, S) = Cardinality(A) /\ Count(g, S) = Cardinality(B)
  BY DEF Count
<1> HIDE DEF A, B
<1> QED BY <1>1, <1>2, <1>3, <1>4, <1>5, <1>6

(* Granting permits to pending requests adds them to a count of places    *)
(* that has "granted" but not "waiting".                                  *)
LEMMA CountGrant ==
  ASSUME NEW f \in [Requests -> Places], NEW S, "waiting" \notin S,
         NEW G \in SUBSET {q \in Requests : f[q] = "waiting"}
  PROVE  /\ Count(f, S) \in Nat /\ Cardinality(G) \in Nat
         /\ Count(Grant(G, f), S) =
              Count(f, S) + (IF "granted" \in S THEN Cardinality(G) ELSE 0)
<1> DEFINE A == {q \in Requests : f[q] \in S}
           B == {q \in Requests : Grant(G, f)[q] \in S}
<1>1. /\ IsFiniteSet(A) /\ Cardinality(A) \in Nat
      /\ IsFiniteSet(G) /\ Cardinality(G) \in Nat
  BY FS_Subset, FS_CardinalityType, CapacityAssumption DEF CapacityAssumption
<1>2. A \cap G = {}
  OBVIOUS
<1>3. B = IF "granted" \in S THEN A \cup G ELSE A
  BY DEF Grant
<1>4. Cardinality(A \cup G) = Cardinality(A) + Cardinality(G)
  BY <1>1, <1>2, FS_Union, FS_EmptySet
<1>5. Count(f, S) = Cardinality(A) /\ Count(Grant(G, f), S) = Cardinality(B)
  BY DEF Count
<1> HIDE DEF A, B
<1> QED BY <1>1, <1>3, <1>4, <1>5

(* The requests woken are pending ones, as many as asked for or all.      *)
LEMMA WokenFacts ==
  ASSUME TypeOK, NEW n \in Nat, NEW G \in Woken(n)
  PROVE  /\ G \in SUBSET In({"waiting"})
         /\ Cardinality(G) \in Nat /\ Cardinality(G) <= n
         /\ Cardinality(G) < n => G = In({"waiting"})
<1>1. IsFiniteSet(In({"waiting"})) /\ Cardinality(In({"waiting"})) \in Nat
  BY FS_Subset, FS_CardinalityType, CapacityAssumption DEF CapacityAssumption, In
<1>2. /\ G \in SUBSET In({"waiting"})
      /\ Cardinality(G) = IF n < Cardinality(In({"waiting"}))
                          THEN n ELSE Cardinality(In({"waiting"}))
  BY DEF Woken
<1>3. Cardinality(G) = Cardinality(In({"waiting"})) => G = In({"waiting"})
  BY <1>1, <1>2, FS_Subset
<1> QED BY <1>1, <1>2, <1>3

(* Removing an element keeps a sequence a sequence.                       *)
LEMMA RemoveAtType ==
  ASSUME NEW S, NEW s \in Seq(S), NEW i \in DOMAIN s
  PROVE  RemoveAt(s, i) \in Seq(S)
<1>1. SubSeq(s, 1, i - 1) \in Seq(S) /\ SubSeq(s, i + 1, Len(s)) \in Seq(S)
  BY LenProperties, ElementOfSeq, SubSeqProperties
<1> QED BY <1>1, ConcatProperties DEF RemoveAt

-----------------------------------------------------------------------------
(* NoLostWakeup is not inductive alone: that a permit on its way back     *)
(* finds its waiter needs the conservation of permits, and both need the  *)
(* types.                                                                 *)
Inv == TypeOK /\ PermitsConserved /\ NoLostWakeup

(* The part of Inv about the variables a release or a resumption changes. *)
PoolInv == /\ pc \in [Requests -> Places]
           /\ value \in Nat /\ inProgress \in Nat
           /\ waiters \in Seq(Requests)
           /\ PermitsConserved /\ NoLostWakeup

(* release() by a holder that is done keeps the pool's invariant.         *)
LEMMA ReleasePreserves ==
  ASSUME Inv, NEW r \in Requests, pc[r] \in Holding, Release(r)
  PROVE  PoolInv'
<1> DEFINE f == [pc EXCEPT ![r] = "done"]
<1>1. PICK G \in Woken(1) : /\ pc' = Grant(G, f)
                            /\ value' = value + 1 - Cardinality(G)
                            /\ inProgress' = inProgress - 1
                            /\ waiters' = waiters
  BY DEF Release
<1>2. /\ G \in SUBSET In({"waiting"}) /\ Cardinality(G) \in Nat
      /\ Cardinality(G) <= 1 /\ (Cardinality(G) < 1 => G = In({"waiting"}))
  BY WokenFacts DEF Inv
<1>3. pc \in [Requests -> Places] /\ value \in Nat /\ inProgress \in Nat
      /\ waiters \in Seq(Requests)
  BY DEF Inv, TypeOK, Places
<1>4. /\ f \in [Requests -> Places] /\ f[r] = "done"
      /\ G \in SUBSET {q \in Requests : f[q] = "waiting"}
  BY <1>2, <1>3 DEF In, Places, Holding
<1>5. /\ Count(f, Handed) = Count(pc, Handed)
      /\ Count(f, Holding) = Count(pc, Holding) - 1
      /\ Count(pc, Handed) \in Nat /\ Count(f, Holding) \in Nat
      /\ Count(pc, Holding) \in Nat
  <2>1. "done" \notin Handed /\ "done" \notin Holding /\ pc[r] \notin Handed
    BY DEF Handed, Holding
  <2>2. \A q \in Requests \ {r} : f[q] = pc[q]
    BY <1>3
  <2> HIDE DEF f
  <2> QED BY <1>3, <1>4, <2>1, <2>2, CountMove
<1>6. /\ Count(pc', Handed) = Count(pc, Handed) + Cardinality(G)
      /\ Count(pc', Holding) = Count(pc, Holding) - 1
  <2>1. /\ "waiting" \notin Handed /\ "waiting" \notin Holding
        /\ "granted" \in Handed /\ "granted" \notin Holding
    BY DEF Handed, Holding
  <2> HIDE DEF f
  <2> QED BY <1>1, <1>4, <1>5, <2>1, CountGrant
<1>7. PermitsConserved'
  <2>1. /\ value + Count(pc, Handed) + Count(pc, Holding) = MaxConcurrent
        /\ inProgress = Count(pc, Holding)
    BY DEF Inv, PermitsConserved, Count, In
  <2>2. /\ value' + Count(pc', Handed) + Count(pc', Holding) = MaxConcurrent
        /\ inProgress' = Count(pc', Holding)
    BY <1>1, <1>2, <1>3, <1>5, <1>6, <2>1
  <2> QED BY <2>2 DEF PermitsConserved, Count, In
<1>8. NoLostWakeup'
  <2>1. CASE Cardinality(G) < 1
    BY <1>1, <1>2, <1>3, <2>1 DEF NoLostWakeup, In, Grant
  <2>2. CASE Cardinality(G) = 1
    <3>1. PICK g \in G : TRUE
      BY <2>2, FS_EmptySet
    <3>2. g \in In(Handed)'
      BY <1>1, <1>2, <3>1 DEF In, Handed, Grant
    <3> QED BY <3>2 DEF NoLostWakeup
  <2> QED BY <1>2, <2>1, <2>2
<1>9. pc' \in [Requests -> Places]
  BY <1>1, <1>4 DEF Grant, Places, Queued, Handed
<1>10. value' \in Nat /\ inProgress' \in Nat
  <2>1. inProgress = Count(pc, Holding)
    BY DEF Inv, PermitsConserved, Count, In
  <2>2. Count(pc, Holding) - 1 \in Nat
    BY <1>5
  <2> QED BY <1>1, <1>2, <1>3, <2>1, <2>2
<1> QED BY <1>1, <1>3, <1>7, <1>8, <1>9, <1>10 DEF PoolInv

(* So does a waiter that leaves the queue, with its permit or without.    *)
LEMMA LeaveQueuePreserves ==
  ASSUME Inv, NEW r \in Requests, NEW next, LeaveQueue(r, next),
         \/ pc[r] = "granted" /\ next = "running" /\ inProgress' = inProgress + 1
         \/ pc[r] \in {"cancelled", "revoked"} /\ next = "done" /\ UNCHANGED inProgress
  PROVE  PoolInv'
<1> DEFINE f == [pc EXCEPT ![r] = next]
           free == IF pc[r] = "revoked" THEN value + 1 ELSE value
<1>1. PICK G \in Woken(free) : pc' = Grant(G, f) /\ value' = free - Cardinality(G)
  BY DEF LeaveQueue
<1>2. pc \in [Requests -> Places] /\ value \in Nat /\ inProgress \in Nat
      /\ free \in Nat
  BY DEF Inv, TypeOK, Places
<1>3. /\ G \in SUBSET In({"waiting"}) /\ Cardinality(G) \in Nat
      /\ Cardinality(G) <= free /\ (Cardinality(G) < free => G = In({"waiting"}))
  BY <1>2, WokenFacts DEF Inv
<1>4. /\ f \in [Requests -> Places] /\ f[r] = next
      /\ G \in SUBSET {q \in Requests : f[q] = "waiting"}
      /\ \A q \in Requests \ {r} : f[q] = pc[q]
  BY <1>2, <1>3 DEF In, Places, Holding
<1>5. /\ Count(f, Handed) = Count(pc, Handed) - (IF pc[r] \in Handed THEN 1 ELSE 0)
      /\ Count(f, Holding) = Count(pc, Holding) + (IF next = "running" THEN 1 ELSE 0)
      /\ Count(pc, Handed) \in Nat /\ Count(f, Handed) \in Nat
      /\ Count(pc, Holding) \in Nat /\ Count(f, Holding) \in Nat
  <2>1. /\ next \notin Handed /\ pc[r] \notin Holding
        /\ next \in Holding <=> next = "running"
    BY DEF Handed, Holding
  <2> HIDE DEF f
  <2> QED BY <1>2, <1>4, <2>1, CountMove
<1>6. /\ Count(pc', Handed) = Count(f, Handed) + Cardinality(G)
      /\ Count(pc', Holding) = Count(f, Holding)
  <2>1. /\ "waiting" \notin Handed /\ "waiting" \notin Holding
        /\ "granted" \in Handed /\ "granted" \notin Holding
    BY DEF Handed, Holding
  <2> HIDE DEF f
  <2> QED BY <1>1, <1>4, <1>5, <2>1, CountGrant
<1>7. PermitsConserved'
  <2>1. /\ value + Count(pc, Handed) + Count(pc, Holding) = MaxConcurrent
        /\ inProgress = Count(pc, Holding)
    BY DEF Inv, PermitsConserved, Count, In
  <2>2. free = value + (IF pc[r] = "revoked" THEN 1 ELSE 0)
    BY <1>2
  <2>3. /\ pc[r] \in Handed <=> pc[r] # "cancelled"
        /\ pc[r] = "granted" <=> next = "running"
    BY DEF Handed
  <2>4. /\ value' + Count(pc', Handed) + Count(pc', Holding) = MaxConcurrent
        /\ inProgress' = Count(pc', Holding)
    <3> HIDE DEF f, free
    <3>1. CASE pc[r] = "granted"
      BY <1>1, <1>2, <1>3, <1>5, <1>6, <2>1, <2>2, <2>3, <3>1
    <3>2. CASE pc[r] = "cancelled"
      BY <1>1, <1>2, <1>3, <1>5, <1>6, <2>1, <2>2, <2>3, <3>2
    <3>3. CASE pc[r] = "revoked"
      BY <1>1, <1>2, <1>3, <1>5, <1>6, <2>1, <2>2, <2>3, <3>3
    <3> QED BY <3>1, <3>2, <3>3
  <2> QED BY <2>4 DEF PermitsConserved, Count, In
<1>8. NoLostWakeup'
  <2>1. CASE Cardinality(G) < free
    <3>1. In({"waiting"})' = {}
      BY <1>1, <1>2, <1>3, <2>1 DEF In, Grant
    <3> QED BY <3>1 DEF NoLostWakeup
  <2>2. CASE Cardinality(G) = free
    BY <1>1, <1>2, <1>3, <2>2 DEF NoLostWakeup
  <2> HIDE DEF free
  <2> QED BY <1>2, <1>3, <2>1, <2>2
<1>9. pc' \in [Requests -> Places]
  BY <1>1, <1>4 DEF Grant, Places, Queued, Handed
<1>10. value' \in Nat /\ inProgress' \in Nat
  <2> HIDE DEF free
  <2> QED BY <1>1, <1>2, <1>3
<1>11. waiters' \in Seq(Requests)
  BY RemoveAtType DEF LeaveQueue, Inv, TypeOK
<1> QED BY <1>7, <1>8, <1>9, <1>10, <1>11 DEF PoolInv

(* Every other step of a request moves it alone, between places that      *)
(* neither hold a permit nor wait for one, or within those that do.       *)
LEMMA MovePreserves ==
  ASSUME Inv, NEW r \in Requests, NEW to \in Places \ {"waiting"},
         pc' = [pc EXCEPT ![r] = to],
         UNCHANGED <<value, waiters, inProgress>>,
         pc[r] \in Handed <=> to \in Handed,
         pc[r] \in Holding <=> to \in Holding
  PROVE  PoolInv'
<1>1. pc \in [Requests -> Places] /\ pc' \in [Requests -> Places]
      /\ \A q \in Requests \ {r} : pc'[q] = pc[q]
      /\ pc'[r] = to
  BY DEF Inv, TypeOK, Places
<1>2. Count(pc', Handed) = Count(pc, Handed)
      /\ Count(pc', Holding) = Count(pc, Holding)
  <2> DEFINE f == pc'
  <2>1. /\ f \in [Requests -> Places] /\ f[r] = to
        /\ \A q \in Requests \ {r} : f[q] = pc[q]
    BY <1>1
  <2> HIDE DEF f
  <2>2. /\ Count(pc, Handed) \in Nat
        /\ Count(f, Handed) = Count(pc, Handed) + (IF to \in Handed THEN 1 ELSE 0)
                                               - (IF pc[r] \in Handed THEN 1 ELSE 0)
    BY <1>1, <2>1, CountMove
  <2>3. /\ Count(pc, Holding) \in Nat
        /\ Count(f, Holding) = Count(pc, Holding) + (IF to \in Holding THEN 1 ELSE 0)
                                                 - (IF pc[r] \in Holding THEN 1 ELSE 0)
    BY <1>1, <2>1, CountMove
  <2>4. Count(f, Handed) = Count(pc, Handed) /\ Count(f, Holding) = Count(pc, Holding)
    BY <2>2, <2>3
  <2> QED BY <2>4 DEF f
<1>3. PermitsConserved'
  BY <1>2 DEF Inv, PermitsConserved, Count, In
<1>4. NoLostWakeup'
  <2>1. In({"waiting"})' \subseteq In({"waiting"})
    BY <1>1 DEF In
  <2>2. In(Handed) # {} => In(Handed)' # {}
    BY <1>1 DEF In
  <2> QED BY <2>1, <2>2 DEF Inv, NoLostWakeup
<1> QED BY <1>1, <1>3, <1>4 DEF PoolInv, Inv, TypeOK

(* acquire() without waiting takes a free permit that nobody is promised; *)
(* a request that has to wait joins the queue.                            *)
LEMMA AcquirePreserves ==
  ASSUME Inv, NEW r \in Requests, pc[r] \in {"idle", "accepted"}, Acquire(r)
  PROVE  PoolInv'
<1>1. pc \in [Requests -> Places] /\ value \in Nat /\ inProgress \in Nat
      /\ waiters \in Seq(Requests)
  BY DEF Inv, TypeOK, Places
<1>2. pc[r] \notin Handed /\ pc[r] \notin Holding
  BY DEF Handed, Holding
<1>3. CASE Locked
  <2>1. /\ waiters' = Append(waiters, r) /\ pc' = [pc EXCEPT ![r] = "waiting"]
        /\ UNCHANGED <<value, inProgress>>
    BY <1>3 DEF Acquire
  <2>2. /\ pc' \in [Requests -> Places] /\ pc'[r] = "waiting"
        /\ \A q \in Requests \ {r} : pc'[q] = pc[q]
    BY <1>1, <2>1 DEF Places, Queued
  <2>3. Count(pc', Handed) = Count(pc, Handed)
        /\ Count(pc', Holding) = Count(pc, Holding)
    <3>1. "waiting" \notin Handed /\ "waiting" \notin Holding
      BY DEF Handed, Holding
    <3>2. pc \in [Requests -> Places]
      BY <1>1
    <3> QED BY <1>2, <2>2, <3>1, <3>2, CountMove
  <2>4. PermitsConserved'
    BY <2>1, <2>3 DEF Inv, PermitsConserved, Count, In
  <2>5. NoLostWakeup'
    <3>1. value = 0 \/ In({"waiting"}) # {} \/ In(Handed) # {}
      BY <1>3 DEF Locked, In, Queued
    <3>2. In(Handed) \subseteq In(Handed)'
      BY <1>2, <2>2 DEF In
    <3> QED BY <1>1, <2>1, <3>1, <3>2 DEF Inv, NoLostWakeup
  <2>6. waiters' \in Seq(Requests)
    BY <1>1, <2>1, AppendProperties
  <2> QED BY <1>1, <2>1, <2>2, <2>4, <2>5, <2>6 DEF PoolInv
<1>4. CASE ~Locked
  <2>1. /\ value' = value - 1 /\ inProgress' = inProgress + 1
        /\ pc' = [pc EXCEPT ![r] = "running"] /\ waiters' = waiters
    BY <1>4 DEF Acquire
  <2>2. pc' \in [Requests -> Places] /\ pc'[r] = "running"
        /\ \A q \in Requests \ {r} : pc'[q] = pc[q]
    BY <1>1, <2>1 DEF Places, Holding
  <2>3. /\ Count(pc', Handed) = Count(pc, Handed)
        /\ Count(pc', Holding) = Count(pc, Holding) + 1
        /\ Count(pc, Handed) \in Nat /\ Count(pc, Holding) \in Nat
    <3>1. "running" \notin Handed /\ "running" \in Holding
      BY DEF Handed, Holding
    <3> QED BY <1>1, <1>2, <2>2, <3>1, CountMove
  <2>4. value - 1 \in Nat
    BY <1>1, <1>4 DEF Locked
  <2>5. PermitsConserved'
    <3>1. /\ value + Count(pc, Handed) + Count(pc, Holding) = MaxConcurrent
          /\ inProgress = Count(pc, Holding)
      BY DEF Inv, PermitsConserved, Count, In
    <3>2. /\ value' + Count(pc', Handed) + Count(pc', Holding) = MaxConcurrent
          /\ inProgress' = Count(pc', Holding)
      BY <1>1, <2>1, <2>3, <3>1
    <3> QED BY <3>2 DEF PermitsConserved, Count, In
  <2>6. NoLostWakeup'
    <3>1. In({"waiting"})' = {}
      BY <1>4, <2>2 DEF Locked, In, Queued
    <3> QED BY <3>1 DEF NoLostWakeup
  <2> QED BY <1>1, <2>1, <2>2, <2>4, <2>5, <2>6 DEF PoolInv
<1> QED BY <1>3, <1>4

-----------------------------------------------------------------------------
RestType == /\ result \in [Requests -> Results]
            /\ phase \in {"starting", "up", "down"}
            /\ work \subseteq Requests

(* The invariant is its two parts.                                        *)
LEMMA InvFromParts == ASSUME PoolInv', RestType' PROVE Inv'
  BY DEF Inv, TypeOK, PoolInv, RestType, Places

(* A request that waits is interrupted in its place in the queue.         *)
LEMMA InterruptWaitPreserves ==
  ASSUME Inv, NEW r \in Requests, NEW why \in Results, InterruptWait(r, why)
  PROVE  Inv'
<1>1. CASE pc[r] = "waiting" /\ Interrupt(r, "cancelled", why)
  <2>1. PoolInv'
    BY <1>1, MovePreserves DEF Interrupt, Places, Queued, Handed, Holding
  <2>2. RestType'
    BY <1>1 DEF Interrupt, RestType, Inv, TypeOK
  <2> QED BY <2>1, <2>2, InvFromParts
<1>2. CASE pc[r] = "granted" /\ Interrupt(r, "revoked", why)
  <2>1. PoolInv'
    BY <1>2, MovePreserves DEF Interrupt, Places, Queued, Handed, Holding
  <2>2. RestType'
    BY <1>2 DEF Interrupt, RestType, Inv, TypeOK
  <2> QED BY <2>1, <2>2, InvFromParts
<1> QED BY <1>1, <1>2 DEF InterruptWait

(* A request that holds a permit releases it or moves among the holders.  *)
LEMMA InterruptWorkPreserves ==
  ASSUME Inv, NEW r \in Requests, NEW why \in Results, InterruptWork(r, why)
  PROVE  Inv'
<1>1. CASE pc[r] = "running" /\ Release(r)
           /\ result' = [result EXCEPT ![r] = why] /\ UNCHANGED <<phase, work>>
  <2>1. PoolInv'
    BY <1>1, ReleasePreserves DEF Holding
  <2>2. RestType'
    BY <1>1 DEF RestType, Inv, TypeOK
  <2> QED BY <2>1, <2>2, InvFromParts
<1>2. ASSUME NEW to \in {"closing", "abandoned"}, NEW how \in Results,
             pc[r] \in {"running", "sending"}, Interrupt(r, to, how)
      PROVE  Inv'
  <2>1. PoolInv'
    BY <1>2, MovePreserves DEF Interrupt, Places, Queued, Handed, Holding
  <2>2. RestType'
    BY <1>2 DEF Interrupt, RestType, Inv, TypeOK
  <2> QED BY <2>1, <2>2, InvFromParts
<1>3. "dropped" \in Results
  BY DEF Results
<1> QED BY <1>1, <1>2, <1>3 DEF InterruptWork

(* A holder whose result is how is done and releases.                     *)
LEMMA DonePreserves ==
  ASSUME Inv, NEW r \in Requests, pc[r] \in Holding, Release(r),
         NEW how \in Results, result' = [result EXCEPT ![r] = how],
         UNCHANGED <<phase, work>>
  PROVE  Inv'
<1>1. PoolInv'
  BY ReleasePreserves
<1>2. RestType'
  BY DEF RestType, Inv, TypeOK
<1> QED BY <1>1, <1>2, InvFromParts

(* A request that neither waits nor holds moves, or one moves among the   *)
(* holders; in both cases the pool is left alone.                         *)
LEMMA PlainMovePreserves ==
  ASSUME Inv, NEW r \in Requests, NEW to \in Places \ {"waiting"}, NEW how \in Results,
         pc' = [pc EXCEPT ![r] = to], result' = [result EXCEPT ![r] = how],
         UNCHANGED <<phase, value, waiters, inProgress, work>>,
         pc[r] \in Handed <=> to \in Handed,
         pc[r] \in Holding <=> to \in Holding
  PROVE  Inv'
<1>1. PoolInv'
  BY MovePreserves
<1>2. RestType'
  BY DEF RestType, Inv, TypeOK
<1> QED BY <1>1, <1>2, InvFromParts

(* All permits are free before the first request.                          *)
LEMMA InitInv == Init => Inv
<1> SUFFICES ASSUME Init PROVE Inv
  OBVIOUS
<1>1. TypeOK
  BY CapacityAssumption, EmptySeq DEF Init, TypeOK, CapacityAssumption, Results
<1>2. In(Handed) = {} /\ In(Holding) = {} /\ In({"waiting"}) = {}
  BY DEF Init, In, Handed, Holding
<1>3. PermitsConserved
  BY <1>2, CapacityAssumption, FS_EmptySet DEF Init, PermitsConserved, CapacityAssumption
<1>4. NoLostWakeup
  BY <1>2 DEF NoLostWakeup
<1> QED BY <1>1, <1>3, <1>4 DEF Inv

(* A request arrives.                                                     *)
LEMMA StartPreserves ==
  ASSUME Inv, NEW r \in Requests, Start(r) \/ BeginStream(r)
  PROVE  Inv'
<1>1. ASSUME pc[r] \in {"idle", "accepted"}, Acquire(r) PROVE Inv'
  <2>1. PoolInv'
    BY <1>1, AcquirePreserves
  <2>2. RestType'
    BY <1>1 DEF Acquire, RestType, Inv, TypeOK
  <2> QED BY <2>1, <2>2, InvFromParts
<1>2. ASSUME pc[r] \in {"idle", "accepted"}, NEW why \in Results, Reject(r, why)
      PROVE  Inv'
  BY <1>2, PlainMovePreserves DEF Reject, Places, Queued, Handed, Holding
<1>3. CASE Generate(r)
  BY <1>1, <1>2, <1>3 DEF Generate, Results
<1>4. CASE AcceptStream(r)
  <2>1. CASE phase = "up"
    <3>1. /\ pc' = [pc EXCEPT ![r] = "accepted"] /\ pc[r] = "idle"
          /\ UNCHANGED <<result, phase, value, waiters, inProgress, work>>
      BY <1>4, <2>1 DEF AcceptStream
    <3>2. PoolInv'
      BY <3>1, MovePreserves DEF Places, Queued, Handed, Holding
    <3>3. RestType'
      BY <3>1 DEF RestType, Inv, TypeOK
    <3> QED BY <3>2, <3>3, InvFromParts
  <2>2. CASE phase # "up"
    BY <1>2, <1>4, <2>2 DEF AcceptStream, Results
  <2> QED BY <2>1, <2>2
<1>5. CASE BeginStream(r)
  BY <1>1, <1>2, <1>5 DEF BeginStream, Results
<1> QED BY <1>3, <1>4, <1>5 DEF Start

(* A waiter resumes.                                                      *)
LEMMA ResumePreserves ==
  ASSUME Inv, NEW r \in Requests, Resume(r)
  PROVE  Inv'
<1>1. CASE ResumeGranted(r)
  <2>1. PoolInv'
    BY <1>1, LeaveQueuePreserves DEF ResumeGranted
  <2>2. RestType'
    BY <1>1 DEF ResumeGranted, RestType, Inv, TypeOK
  <2> QED BY <2>1, <2>2, InvFromParts
<1>2. CASE ResumeInterrupted(r)
  <2>1. PoolInv'
    BY <1>2, LeaveQueuePreserves DEF ResumeInterrupted
  <2>2. RestType'
    BY <1>2 DEF ResumeInterrupted, RestType, Inv, TypeOK
  <2> QED BY <2>1, <2>2, InvFromParts
<1> QED BY <1>1, <1>2 DEF Resume

(* A timer fires or the framework cancels a request.                      *)
LEMMA InterruptPreserves ==
  ASSUME Inv, NEW r \in Requests, Timers(r) \/ Cut(r)
  PROVE  Inv'
<1> USE DEF Results, Interrupts
<1>1. CASE QueueTimeout(r)
  BY <1>1, InterruptWaitPreserves DEF QueueTimeout
<1>2. ASSUME pc[r] \in {"cancelled", "revoked"}, NEW why \in Results,
             Interrupt(r, pc[r], why)
      PROVE  Inv'
  BY <1>2, PlainMovePreserves DEF Interrupt, Places, Queued, Handed, Holding
<1>3. ASSUME pc[r] = "closing", NEW why \in Results, Release(r),
             result' = [result EXCEPT ![r] = why], UNCHANGED <<phase, work>>
      PROVE  Inv'
  BY <1>3, DonePreserves DEF Holding
<1>4. CASE GenerationTimeout(r)
  BY <1>2, <1>3, <1>4, InterruptWaitPreserves, InterruptWorkPreserves
     DEF GenerationTimeout
<1>5. ASSUME pc[r] = "accepted", Reject(r, "dropped") PROVE Inv'
  BY <1>5, PlainMovePreserves DEF Reject, Places, Queued, Handed, Holding
<1>6. CASE Cut(r)
  BY <1>2, <1>3, <1>5, <1>6, InterruptWaitPreserves, InterruptWorkPreserves
     DEF Cut
<1> QED BY <1>1, <1>4, <1>6 DEF Timers

(* A request generates, streams and ends.                                 *)
LEMMA WorkPreserves ==
  ASSUME Inv, NEW r \in Requests,
         WorkEnds(r) \/ Answer(r) \/ Stream(r) \/ Finalize(r) \/ Closed(r)
  PROVE  Inv'
<1>1. CASE WorkEnds(r)
  <2>1. PoolInv' /\ RestType'
    BY <1>1 DEF WorkEnds, PoolInv, RestType, Inv, TypeOK, Places,
                PermitsConserved, NoLostWakeup, In
  <2> QED BY <2>1, InvFromParts
<1>2. CASE Answer(r)
  BY <1>2, DonePreserves DEF Answer, Holding, Results
<1>3. ASSUME NEW to \in {"running", "sending", "abandoned", "closing"},
             NEW how \in Results, pc[r] \in Holding, Move(r, to, how)
      PROVE  Inv'
  BY <1>3, PlainMovePreserves DEF Move, Places, Queued, Handed, Holding
<1>4. CASE Stream(r)
  BY <1>3, <1>4 DEF Stream, Streams, Chunk, Sent, LastSent, EngineFails,
                    Disconnect, Holding, Results
<1>5. CASE Finalize(r)
  BY <1>3, <1>5 DEF Finalize, Holding, Inv, TypeOK
<1>6. CASE Closed(r)
  <2>1. PoolInv'
    BY <1>6, ReleasePreserves DEF Closed, Holding
  <2>2. RestType'
    BY <1>6 DEF Closed, RestType, Inv, TypeOK
  <2> QED BY <2>1, <2>2, InvFromParts
<1> QED BY <1>1, <1>2, <1>4, <1>5, <1>6

(* The manager becomes ready or stops.                                    *)
LEMMA PhasePreserves ==
  ASSUME Inv, BecomeReady \/ Stop \/ UNCHANGED vars
  PROVE  Inv'
<1>1. PoolInv' /\ RestType'
  BY DEF BecomeReady, Stop, vars, PoolInv, RestType, Inv, TypeOK, Places,
         PermitsConserved, NoLostWakeup, In
<1> QED BY <1>1, InvFromParts

(* Inv is an invariant of the specification.                              *)
THEOREM Invariance == Spec => []Inv
<1>1. ASSUME Inv, [Next]_vars PROVE Inv'
  BY <1>1, StartPreserves, ResumePreserves, InterruptPreserves, WorkPreserves,
     PhasePreserves DEF Next
<1> QED BY <1>1, InitInv, PTL DEF Spec

(* The types, for any number of requests and any limit.                   *)
THEOREM TypeCorrect == Spec => []TypeOK
<1>1. Inv => TypeOK
  BY DEF Inv
<1> QED BY <1>1, Invariance, PTL

(* No permit is lost or minted, whatever the limit and however many       *)
(* requests, timeouts and cancellations meet (manager.py:147-184).        *)
THEOREM PermitsAreConserved == Spec => []PermitsConserved
<1>1. Inv => PermitsConserved
  BY DEF Inv
<1> QED BY <1>1, Invariance, PTL

(* No free permit is ever stranded beside a pending waiter.               *)
THEOREM WakeupsAreNotLost == Spec => []NoLostWakeup
<1>1. Inv => NoLostWakeup
  BY DEF Inv
<1> QED BY <1>1, Invariance, PTL

(* What MAX_CONCURRENT_REQUESTS does bound: the requests that hold a      *)
(* permit, and with it an in_progress count (not the engine's threads).   *)
THEOREM HoldersAreBounded ==
  Spec => [](Cardinality(In(Holding)) <= MaxConcurrent /\ inProgress <= MaxConcurrent)
<1>1. Inv => Cardinality(In(Holding)) <= MaxConcurrent /\ inProgress <= MaxConcurrent
  <2> SUFFICES ASSUME Inv
               PROVE  Cardinality(In(Holding)) <= MaxConcurrent /\ inProgress <= MaxConcurrent
    OBVIOUS
  <2>1. IsFiniteSet(In(Handed)) /\ IsFiniteSet(In(Holding))
    BY FS_Subset, CapacityAssumption DEF CapacityAssumption, In
  <2>2. Cardinality(In(Handed)) \in Nat /\ Cardinality(In(Holding)) \in Nat
    BY <2>1, FS_CardinalityType
  <2> QED BY <2>2, CapacityAssumption
          DEF Inv, TypeOK, PermitsConserved, CapacityAssumption
<1> QED BY <1>1, Invariance, PTL

-----------------------------------------------------------------------------
(* One element leaves a sequence, and the rest moves up.                  *)
LEMMA RemoveAtFacts ==
  ASSUME NEW S, NEW s \in Seq(S), NEW i \in DOMAIN s
  PROVE  /\ RemoveAt(s, i) \in Seq(S)
         /\ DOMAIN RemoveAt(s, i) = 1 .. Len(s) - 1
         /\ \A j \in 1 .. Len(s) - 1 :
              RemoveAt(s, i)[j] = IF j < i THEN s[j] ELSE s[j + 1]
<1> DEFINE t == SubSeq(s, 1, i - 1)
           u == SubSeq(s, i + 1, Len(s))
<1>1. Len(s) \in Nat /\ i \in 1 .. Len(s) /\ \A j \in 1 .. Len(s) : s[j] \in S
  BY LenProperties, ElementOfSeq
<1>2. /\ t \in Seq(S) /\ Len(t) = i - 1
      /\ \A j \in 1 .. i - 1 : t[j] = s[j]
  BY <1>1, SubSeqProperties
<1>3. /\ u \in Seq(S) /\ Len(u) = Len(s) - i
      /\ \A j \in 1 .. Len(s) - i : u[j] = s[i + j]
  <2>1. \A j \in i + 1 .. Len(s) : s[j] \in S
    BY <1>1
  <2> QED BY <1>1, <2>1, SubSeqProperties
<1> HIDE DEF t, u
<1>4. /\ t \o u \in Seq(S) /\ Len(t \o u) = Len(s) - 1
      /\ \A j \in 1 .. Len(s) - 1 :
           (t \o u)[j] = IF j <= i - 1 THEN t[j] ELSE u[j - (i - 1)]
  <2>1. /\ t \o u \in Seq(S) /\ Len(t \o u) = Len(t) + Len(u)
        /\ \A j \in 1 .. Len(t) + Len(u) :
             (t \o u)[j] = IF j <= Len(t) THEN t[j] ELSE u[j - Len(t)]
    BY <1>2, <1>3, ConcatProperties
  <2>2. Len(t) + Len(u) = Len(s) - 1
    BY <1>1, <1>2, <1>3
  <2> QED BY <1>2, <2>1, <2>2
<1>5. \A j \in 1 .. Len(s) - 1 : (t \o u)[j] = IF j < i THEN s[j] ELSE s[j + 1]
  <2> SUFFICES ASSUME NEW j \in 1 .. Len(s) - 1
               PROVE  (t \o u)[j] = IF j < i THEN s[j] ELSE s[j + 1]
    OBVIOUS
  <2>1. CASE j < i
    BY <1>1, <1>2, <1>4, <2>1
  <2>2. CASE ~(j < i)
    <3>1. j - (i - 1) \in 1 .. Len(s) - i /\ i + (j - (i - 1)) = j + 1
      BY <1>1, <2>2
    <3>2. u[j - (i - 1)] = s[j + 1]
      BY <1>3, <3>1
    <3>3. ~(j <= i - 1)
      BY <1>1, <2>2
    <3> QED BY <1>4, <2>2, <3>2, <3>3
  <2> QED BY <2>1, <2>2
<1> QED BY <1>4, <1>5, LenProperties DEF RemoveAt, t, u

-----------------------------------------------------------------------------
(* QueueIsExact and the refinement of the pool need to know that nobody is *)
(* in the deque twice and that permits are set aside in its order.         *)
Distinct == \A i, j \in DOMAIN waiters : waiters[i] = waiters[j] => i = j
GrantsInOrder == \A w \in In({"waiting"}), g \in In({"granted"}) : ~Ahead(w, g)

QueueInv == Distinct /\ ToSet(waiters) = In(Queued) /\ GrantsInOrder

(* Nobody is ahead of himself, and of two in the deque one is.             *)
LEMMA AheadIsOrder ==
  ASSUME TypeOK, Distinct
  PROVE  /\ \A a : ~Ahead(a, a)
         /\ \A a, b : Ahead(a, b) => ~Ahead(b, a)
         /\ \A a, b, c : Ahead(a, b) /\ Ahead(b, c) => Ahead(a, c)
<1>1. /\ Len(waiters) \in Nat /\ DOMAIN waiters = 1 .. Len(waiters)
      /\ \A i, j \in DOMAIN waiters : waiters[i] = waiters[j] => i = j
  BY LenProperties DEF TypeOK, Distinct
<1>2. ASSUME NEW a, NEW b, NEW c, Ahead(a, b), Ahead(b, c)
      PROVE  Ahead(a, c) /\ a # c
  <2>1. PICK i, j \in DOMAIN waiters : i < j /\ waiters[i] = a /\ waiters[j] = b
    BY <1>2 DEF Ahead
  <2>2. PICK k, m \in DOMAIN waiters : k < m /\ waiters[k] = b /\ waiters[m] = c
    BY <1>2 DEF Ahead
  <2>3. j = k /\ i < m
    BY <1>1, <2>1, <2>2
  <2> QED BY <1>1, <2>1, <2>2, <2>3 DEF Ahead
<1>3. \A a : ~Ahead(a, a)
  BY <1>1 DEF Ahead
<1> QED BY <1>2, <1>3

(* A request leaves the deque; the others keep their order in it.          *)
LEMMA LeavingKeepsOrder ==
  ASSUME TypeOK, Distinct, NEW r \in Requests,
         \E i \in DOMAIN waiters : waiters[i] = r /\ waiters' = RemoveAt(waiters, i)
  PROVE  /\ Distinct' /\ ToSet(waiters') = ToSet(waiters) \ {r}
         /\ \A a, b : Ahead(a, b)' <=> Ahead(a, b) /\ a # r /\ b # r
<1>1. PICK i \in DOMAIN waiters : waiters[i] = r /\ waiters' = RemoveAt(waiters, i)
  OBVIOUS
<1>2. /\ Len(waiters) \in Nat /\ DOMAIN waiters = 1 .. Len(waiters)
      /\ DOMAIN waiters' = 1 .. Len(waiters) - 1
      /\ \A j \in 1 .. Len(waiters) - 1 :
           waiters'[j] = IF j < i THEN waiters[j] ELSE waiters[j + 1]
      /\ \A j, k \in DOMAIN waiters : waiters[j] = waiters[k] => j = k
  BY <1>1, RemoveAtFacts, LenProperties DEF TypeOK, Distinct
<1> DEFINE old(j) == IF j < i THEN j ELSE j + 1
<1>3. ASSUME NEW j \in DOMAIN waiters'
      PROVE  old(j) \in DOMAIN waiters /\ waiters'[j] = waiters[old(j)] /\ old(j) # i
  BY <1>1, <1>2, <1>3
<1>4. ASSUME NEW m \in DOMAIN waiters, m # i
      PROVE  \E j \in DOMAIN waiters' : old(j) = m
  <2>1. CASE m < i
    BY <1>1, <1>2, <2>1
  <2>2. CASE ~(m < i)
    <3>1. m - 1 \in DOMAIN waiters' /\ ~(m - 1 < i) /\ (m - 1) + 1 = m
      BY <1>1, <1>2, <1>4, <2>2
    <3> QED BY <3>1
  <2> QED BY <2>1, <2>2
<1>5. \A j, k \in DOMAIN waiters' : (j < k <=> old(j) < old(k)) /\ (old(j) = old(k) => j = k)
  BY <1>1, <1>2
<1> HIDE DEF old
<1>6. \A m \in DOMAIN waiters : waiters[m] = r => m = i
  BY <1>1, <1>2
<1>7. Distinct'
  BY <1>2, <1>3, <1>5 DEF Distinct
<1>8. ToSet(waiters') = ToSet(waiters) \ {r}
  BY <1>1, <1>3, <1>4, <1>6 DEF ToSet
<1>9. ASSUME NEW a, NEW b
      PROVE  Ahead(a, b)' <=> Ahead(a, b) /\ a # r /\ b # r
  <2>1. ASSUME Ahead(a, b)' PROVE Ahead(a, b) /\ a # r /\ b # r
    <3>1. PICK j, k \in DOMAIN waiters' : j < k /\ waiters'[j] = a /\ waiters'[k] = b
      BY <2>1 DEF Ahead
    <3> QED BY <1>3, <1>5, <1>6, <3>1 DEF Ahead
  <2>2. ASSUME Ahead(a, b), a # r, b # r PROVE Ahead(a, b)'
    <3>1. PICK m, n \in DOMAIN waiters : m < n /\ waiters[m] = a /\ waiters[n] = b
      BY <2>2 DEF Ahead
    <3>2. m # i /\ n # i
      BY <1>1, <2>2, <3>1
    <3>3. PICK j, k \in DOMAIN waiters' : old(j) = m /\ old(k) = n
      BY <1>4, <3>2
    <3> QED BY <1>3, <1>5, <3>1, <3>3 DEF Ahead
  <2> QED BY <2>1, <2>2
<1> QED BY <1>7, <1>8, <1>9

(* A request joins the deque behind all who are in it.                     *)
LEMMA JoiningKeepsOrder ==
  ASSUME TypeOK, Distinct, NEW r \in Requests, r \notin ToSet(waiters),
         waiters' = Append(waiters, r)
  PROVE  /\ Distinct' /\ ToSet(waiters') = ToSet(waiters) \cup {r}
         /\ \A a, b : Ahead(a, b)' <=> Ahead(a, b) \/ (a \in ToSet(waiters) /\ b = r)
<1>1. /\ Len(waiters) \in Nat /\ DOMAIN waiters = 1 .. Len(waiters)
      /\ DOMAIN waiters' = 1 .. Len(waiters) + 1
      /\ waiters'[Len(waiters) + 1] = r
      /\ \A i \in 1 .. Len(waiters) : waiters'[i] = waiters[i]
      /\ \A i \in 1 .. Len(waiters) : waiters[i] # r
  BY AppendProperties, LenProperties DEF TypeOK, ToSet
<1>2. Distinct'
  BY <1>1 DEF Distinct
<1>3. ToSet(waiters') = ToSet(waiters) \cup {r}
  <2>1. ToSet(waiters') \subseteq ToSet(waiters) \cup {r}
    BY <1>1 DEF ToSet
  <2>2. ToSet(waiters) \cup {r} \subseteq ToSet(waiters')
    BY <1>1 DEF ToSet
  <2> QED BY <2>1, <2>2
<1>4. ASSUME NEW a, NEW b
      PROVE  Ahead(a, b)' <=> Ahead(a, b) \/ (a \in ToSet(waiters) /\ b = r)
  <2>1. ASSUME Ahead(a, b)' PROVE Ahead(a, b) \/ (a \in ToSet(waiters) /\ b = r)
    <3>1. PICK i, j \in DOMAIN waiters' : i < j /\ waiters'[i] = a /\ waiters'[j] = b
      BY <2>1 DEF Ahead
    <3>2. i \in DOMAIN waiters /\ waiters[i] = a
      BY <1>1, <3>1
    <3>3. CASE j = Len(waiters) + 1
      BY <1>1, <3>1, <3>2, <3>3 DEF ToSet
    <3>4. CASE j # Len(waiters) + 1
      <4>1. j \in DOMAIN waiters /\ waiters[j] = b
        BY <1>1, <3>1, <3>4
      <4> QED BY <3>1, <3>2, <4>1 DEF Ahead
    <3> QED BY <3>3, <3>4
  <2>2. ASSUME Ahead(a, b) PROVE Ahead(a, b)'
    BY <1>1, <2>2 DEF Ahead
  <2>3. ASSUME a \in ToSet(waiters), b = r PROVE Ahead(a, b)'
    <3>1. PICK i \in DOMAIN waiters : waiters[i] = a
      BY <2>3 DEF ToSet
    <3>2. /\ i \in DOMAIN waiters' /\ Len(waiters) + 1 \in DOMAIN waiters'
          /\ i < Len(waiters) + 1 /\ waiters'[i] = a
      BY <1>1, <3>1
    <3> QED BY <1>1, <2>3, <3>2 DEF Ahead
  <2> QED BY <2>1, <2>2, <2>3
<1> QED BY <1>2, <1>3, <1>4

-----------------------------------------------------------------------------
(* Steps that leave the deque alone and grant nothing.                     *)
LEMMA SameQueue ==
  ASSUME QueueInv, UNCHANGED waiters, In(Queued)' = In(Queued),
         In({"waiting"})' \subseteq In({"waiting"}),
         In({"granted"})' \subseteq In({"granted"})
  PROVE  QueueInv'
<1>1. \A a, b : Ahead(a, b)' <=> Ahead(a, b)
  BY DEF Ahead
<1> QED BY <1>1 DEF QueueInv, Distinct, GrantsInOrder

(* Grants go to the first who wait: behind those who have one already,     *)
(* before those who go on waiting.                                         *)
LEMMA GrantingKeepsOrder ==
  ASSUME TypeOK, QueueInv, NEW n \in Nat, NEW G \in Woken(n),
         NEW w \in In({"waiting"}) \ G, NEW g \in In({"granted"}) \cup G
  PROVE  ~Ahead(w, g)
<1>1. CASE g \in In({"granted"})
  BY <1>1 DEF QueueInv, GrantsInOrder
<1>2. CASE g \in G
  BY <1>2 DEF Woken
<1> QED BY <1>1, <1>2

(* release() by a holder.                                                  *)
LEMMA ReleaseKeepsQueue ==
  ASSUME Inv, QueueInv, NEW r \in Requests, pc[r] \in Holding, Release(r)
  PROVE  /\ QueueInv' /\ In(Lined)' = In(Lined) /\ In(Holding)' = In(Holding) \ {r}
         /\ UNCHANGED waiters
<1>1. PICK G \in Woken(1) : /\ pc' = Grant(G, [pc EXCEPT ![r] = "done"])
                            /\ waiters' = waiters
  BY DEF Release
<1>2. G \in SUBSET In({"waiting"}) /\ pc \in [Requests -> Places]
  BY WokenFacts DEF Inv, TypeOK, Places
<1>3. \A q \in Requests : pc'[q] = IF q \in G THEN "granted"
                                  ELSE IF q = r THEN "done" ELSE pc[q]
  BY <1>1, <1>2 DEF Grant
<1>4. /\ In(Queued)' = In(Queued) /\ In(Lined)' = In(Lined)
      /\ In(Holding)' = In(Holding) \ {r}
      /\ In({"waiting"})' = In({"waiting"}) \ G
      /\ In({"granted"})' = In({"granted"}) \cup G
  BY <1>2, <1>3 DEF In, Queued, Handed, Lined, Holding
<1>5. \A a, b : Ahead(a, b)' <=> Ahead(a, b)
  BY <1>1 DEF Ahead
<1>6. GrantsInOrder'
  BY <1>4, <1>5, GrantingKeepsOrder DEF GrantsInOrder, Inv
<1> QED BY <1>1, <1>4, <1>6 DEF QueueInv, Distinct

(* acquire() resumes, with its permit or without.                          *)
LEMMA LeaveQueueKeepsQueue ==
  ASSUME Inv, QueueInv, NEW r \in Requests, NEW next, LeaveQueue(r, next),
         \/ pc[r] = "granted" /\ next = "running"
         \/ pc[r] \in {"cancelled", "revoked"} /\ next = "done"
  PROVE  /\ QueueInv' /\ In(Lined)' = In(Lined) \ {r}
         /\ In(Holding)' = In(Holding) \cup (IF next = "running" THEN {r} ELSE {})
         /\ \A a, b : Ahead(a, b)' <=> Ahead(a, b) /\ a # r /\ b # r
<1> DEFINE free == IF pc[r] = "revoked" THEN value + 1 ELSE value
<1>1. PICK G \in Woken(free) : pc' = Grant(G, [pc EXCEPT ![r] = next])
  BY DEF LeaveQueue
<1>2. free \in Nat /\ pc \in [Requests -> Places]
  BY DEF Inv, TypeOK, Places
<1> HIDE DEF free
<1>3. G \in SUBSET In({"waiting"})
  BY <1>2, WokenFacts DEF Inv
<1>4. \A q \in Requests : pc'[q] = IF q \in G THEN "granted"
                                  ELSE IF q = r THEN next ELSE pc[q]
  BY <1>1, <1>2, <1>3 DEF Grant
<1>5. /\ In(Queued)' = In(Queued) \ {r} /\ In(Lined)' = In(Lined) \ {r}
      /\ In(Holding)' = In(Holding) \cup (IF next = "running" THEN {r} ELSE {})
      /\ In({"waiting"})' = In({"waiting"}) \ G
      /\ In({"granted"})' = (In({"granted"}) \cup G) \ {r}
  BY <1>2, <1>3, <1>4 DEF In, Queued, Handed, Lined, Holding
<1>6. /\ Distinct' /\ ToSet(waiters') = ToSet(waiters) \ {r}
      /\ \A a, b : Ahead(a, b)' <=> Ahead(a, b) /\ a # r /\ b # r
  BY LeavingKeepsOrder DEF LeaveQueue, Inv, QueueInv
<1>7. GrantsInOrder'
  BY <1>2, <1>5, <1>6, GrantingKeepsOrder DEF GrantsInOrder, Inv
<1> QED BY <1>5, <1>6, <1>7 DEF QueueInv

(* A request acquires: without waiting, or to the end of the line.         *)
LEMMA AcquireKeepsQueue ==
  ASSUME Inv, QueueInv, NEW r \in Requests, pc[r] \in {"idle", "accepted"}, Acquire(r)
  PROVE  /\ QueueInv' /\ r \notin In(Lined) /\ r \notin In(Holding)
         /\ \/ /\ Locked /\ In(Holding)' = In(Holding)
               /\ In(Lined)' = In(Lined) \cup {r}
               /\ \A a, b : Ahead(a, b)' <=>
                     Ahead(a, b) \/ (a \in In(Queued) /\ b = r)
            \/ /\ ~Locked /\ In(Holding)' = In(Holding) \cup {r}
               /\ In(Lined)' = In(Lined) /\ UNCHANGED waiters
<1>1. pc \in [Requests -> Places]
  BY DEF Inv, TypeOK, Places
<1>2. r \notin In(Queued) /\ r \notin In(Lined) /\ r \notin In(Holding)
  BY DEF In, Queued, Handed, Lined, Holding
<1>3. CASE Locked
  <2>1. waiters' = Append(waiters, r) /\ pc' = [pc EXCEPT ![r] = "waiting"]
    BY <1>3 DEF Acquire
  <2>2. /\ In(Queued)' = In(Queued) \cup {r} /\ In(Lined)' = In(Lined) \cup {r}
        /\ In(Holding)' = In(Holding)
        /\ In({"waiting"})' = In({"waiting"}) \cup {r}
        /\ In({"granted"})' = In({"granted"})
    BY <1>1, <1>2, <2>1 DEF In, Queued, Handed, Lined, Holding
  <2>3. /\ Distinct' /\ ToSet(waiters') = ToSet(waiters) \cup {r}
        /\ \A a, b : Ahead(a, b)' <=> Ahead(a, b) \/ (a \in ToSet(waiters) /\ b = r)
    BY <1>2, <2>1, JoiningKeepsOrder DEF Inv, QueueInv
  <2>4. \A b : ~Ahead(r, b)
    BY <1>2 DEF Ahead, QueueInv, ToSet
  <2>5. GrantsInOrder'
    <3>1. r \notin In({"granted"})
      BY DEF In
    <3> QED BY <2>2, <2>3, <2>4, <3>1 DEF GrantsInOrder, QueueInv
  <2> QED BY <1>2, <1>3, <2>2, <2>3, <2>5 DEF QueueInv
<1>4. CASE ~Locked
  <2>1. waiters' = waiters /\ pc' = [pc EXCEPT ![r] = "running"]
    BY <1>4 DEF Acquire
  <2>2. /\ In(Queued)' = In(Queued) /\ In(Lined)' = In(Lined)
        /\ In(Holding)' = In(Holding) \cup {r}
        /\ In({"waiting"})' = In({"waiting"}) /\ In({"granted"})' = In({"granted"})
    BY <1>1, <2>1 DEF In, Queued, Handed, Lined, Holding
  <2>3. QueueInv'
    BY <2>1, <2>2, SameQueue
  <2> QED BY <1>2, <1>4, <2>1, <2>2, <2>3
<1> QED BY <1>3, <1>4

-----------------------------------------------------------------------------
(* A step of the requests is at most one of the pool's.                    *)
Step == QueueInv' /\ [Pool!Next]_(Pool!vars)

(* Who is ahead of whom in the pool's line.                                *)
LineOrder == {p \in In(Lined) \X In(Lined) : Ahead(p[1], p[2])}

LEMMA PoolVars ==
  ASSUME In(Holding)' = In(Holding), In(Lined)' = In(Lined), LineOrder' = LineOrder
  PROVE  UNCHANGED Pool!vars
  BY DEF Pool!vars, LineOrder

(* The pool's clients: those who hold a permit are not in line.            *)
LEMMA LinedDoNotHold ==
  ASSUME Inv
  PROVE  /\ In(Lined) \cap In(Holding) = {} /\ In(Lined) \subseteq In(Queued)
         /\ In(Lined) \subseteq Requests /\ In(Holding) \subseteq Requests
  BY DEF In, Lined, Holding, Queued, Handed

(* A permit that is free or set aside is one that nobody holds.            *)
LEMMA PermitIsFree ==
  ASSUME Inv, value # 0 \/ In(Handed) # {}
  PROVE  Pool!Free
<1>1. /\ IsFiniteSet(In(Handed)) /\ Cardinality(In(Handed)) \in Nat
      /\ Cardinality(In(Holding)) \in Nat
  BY FS_Subset, FS_CardinalityType, CapacityAssumption DEF CapacityAssumption, In
<1>2. In(Handed) # {} => Cardinality(In(Handed)) # 0
  BY <1>1, FS_EmptySet
<1>3. value \in Nat /\ value + Cardinality(In(Handed)) + Cardinality(In(Holding)) = MaxConcurrent
  BY DEF Inv, TypeOK, PermitsConserved
<1>4. Cardinality(In(Holding)) < MaxConcurrent
  BY <1>1, <1>2, <1>3, CapacityAssumption DEF CapacityAssumption
<1>5. Pool!Cardinality(In(Holding)) = Cardinality(In(Holding))
  BY DEF Pool!Cardinality, Cardinality
<1> QED BY <1>4, <1>5 DEF Pool!Free

(* Requests that move elsewhere are none of the pool's business.           *)
LEMMA SamePool ==
  ASSUME QueueInv, UNCHANGED waiters, In(Queued)' = In(Queued),
         In({"waiting"})' = In({"waiting"}), In({"granted"})' = In({"granted"}),
         In(Holding)' = In(Holding)
  PROVE  Step
<1>1. QueueInv'
  BY SameQueue
<1>2. In(Lined)' = In(Lined)
  BY DEF In, Lined
<1>3. LineOrder' = LineOrder
  BY <1>2 DEF LineOrder, Ahead
<1> QED BY <1>1, <1>2, <1>3, PoolVars DEF Step

(* So for one request that moves between places of one kind.               *)
LEMMA MoveIsStutter ==
  ASSUME Inv, QueueInv, NEW r \in Requests, NEW to,
         pc' = [pc EXCEPT ![r] = to], UNCHANGED waiters,
         pc[r] \notin Lined, to \notin Lined,
         pc[r] \in Queued <=> to \in Queued,
         pc[r] \in Holding <=> to \in Holding
  PROVE  Step
<1>1. pc \in [Requests -> Places]
  BY DEF Inv, TypeOK, Places
<1>2. \A q \in Requests : pc'[q] = IF q = r THEN to ELSE pc[q]
  BY <1>1
<1>3. /\ In(Queued)' = In(Queued) /\ In(Holding)' = In(Holding)
      /\ In({"waiting"})' = In({"waiting"}) /\ In({"granted"})' = In({"granted"})
  BY <1>2 DEF In, Lined
<1> QED BY <1>3, SamePool

(* A holder leaves.                                                        *)
LEMMA ReleaseIsLeave ==
  ASSUME Inv, QueueInv, NEW r \in Requests, pc[r] \in Holding, Release(r)
  PROVE  Step
<1>1. /\ QueueInv' /\ In(Lined)' = In(Lined) /\ In(Holding)' = In(Holding) \ {r}
      /\ UNCHANGED waiters
  BY ReleaseKeepsQueue
<1>2. LineOrder' = LineOrder
  BY <1>1 DEF LineOrder, Ahead
<1>3. r \in In(Holding)
  BY DEF In
<1>4. Pool!Leave(r)
  BY <1>1, <1>2, <1>3 DEF Pool!Leave, LineOrder
<1> QED BY <1>1, <1>4 DEF Step, Pool!Next

(* A request in line gives up.                                             *)
LEMMA InterruptIsGiveUp ==
  ASSUME Inv, QueueInv, NEW r \in Requests, NEW why, InterruptWait(r, why)
  PROVE  Step
<1>1. PICK to \in {"cancelled", "revoked"} :
        /\ pc[r] \in Lined /\ pc' = [pc EXCEPT ![r] = to] /\ waiters' = waiters
  BY DEF InterruptWait, Interrupt, Lined
<1>2. pc \in [Requests -> Places]
  BY DEF Inv, TypeOK, Places
<1>3. \A q \in Requests : pc'[q] = IF q = r THEN to ELSE pc[q]
  BY <1>1, <1>2
<1>4. /\ In(Queued)' = In(Queued) /\ In(Holding)' = In(Holding)
      /\ In({"waiting"})' \subseteq In({"waiting"})
      /\ In({"granted"})' \subseteq In({"granted"})
      /\ In(Lined)' = In(Lined) \ {r} /\ r \in In(Lined)
  BY <1>1, <1>3 DEF In, Queued, Handed, Holding, Lined
<1>5. QueueInv'
  BY <1>1, <1>4, SameQueue
<1>6. LineOrder' = {p \in LineOrder : p[1] # r /\ p[2] # r}
  BY <1>1, <1>4 DEF LineOrder, Ahead
<1>7. Pool!GiveUp(r)
  BY <1>4, <1>6 DEF Pool!GiveUp, Pool!Without, LineOrder
<1> QED BY <1>5, <1>7 DEF Step, Pool!Next

(* The waiter that resumes with a permit is the head of the line; one that *)
(* resumes without was not in it any more.                                 *)
LEMMA ResumeIsEnter ==
  ASSUME Inv, QueueInv, NEW r \in Requests, Resume(r)
  PROVE  Step
<1>1. CASE ResumeGranted(r)
  <2>1. pc[r] = "granted" /\ LeaveQueue(r, "running")
        /\ \A s \in In(Handed) : ~Ahead(s, r)
    BY <1>1 DEF ResumeGranted
  <2>2. /\ QueueInv' /\ In(Lined)' = In(Lined) \ {r}
        /\ In(Holding)' = In(Holding) \cup {r}
        /\ \A a, b : Ahead(a, b)' <=> Ahead(a, b) /\ a # r /\ b # r
    BY <2>1, LeaveQueueKeepsQueue
  <2>3. LineOrder' = {p \in LineOrder : p[1] # r /\ p[2] # r}
    BY <2>2 DEF LineOrder
  <2>4. r \in In(Lined) /\ r \in In({"granted"}) /\ In(Handed) # {}
    BY <2>1 DEF In, Lined, Handed
  <2>5. \A d \in In(Lined) : <<d, r>> \notin LineOrder
    <3>1. In(Lined) \subseteq In(Handed) \cup In({"waiting"})
      BY DEF In, Lined, Handed
    <3>2. \A d \in In({"waiting"}) : ~Ahead(d, r)
      BY <2>4 DEF QueueInv, GrantsInOrder
    <3> QED BY <2>1, <3>1, <3>2 DEF LineOrder
  <2>6. Pool!Free
    BY <2>4, PermitIsFree
  <2>7. Pool!Enter(r)
    BY <2>2, <2>3, <2>4, <2>5, <2>6 DEF Pool!Enter, Pool!Without, LineOrder
  <2> QED BY <2>2, <2>7 DEF Step, Pool!Next
<1>2. CASE ResumeInterrupted(r)
  <2>1. pc[r] \in {"cancelled", "revoked"} /\ LeaveQueue(r, "done")
    BY <1>2 DEF ResumeInterrupted
  <2>2. /\ QueueInv' /\ In(Lined)' = In(Lined) \ {r} /\ In(Holding)' = In(Holding)
        /\ \A a, b : Ahead(a, b)' <=> Ahead(a, b) /\ a # r /\ b # r
    BY <2>1, LeaveQueueKeepsQueue
  <2>3. r \notin In(Lined)
    BY <2>1 DEF In, Lined
  <2>4. LineOrder' = LineOrder /\ In(Lined)' = In(Lined)
    BY <2>2, <2>3 DEF LineOrder
  <2> QED BY <2>2, <2>4, PoolVars DEF Step
<1> QED BY <1>1, <1>2 DEF Resume

(* A newcomer walks in past an empty line only.                            *)
LEMMA AcquireIsJoinOrWalkIn ==
  ASSUME Inv, QueueInv, NEW r \in Requests, pc[r] \in {"idle", "accepted"}, Acquire(r)
  PROVE  Step
<1>1. QueueInv' /\ r \notin In(Lined) /\ r \notin In(Holding)
  BY AcquireKeepsQueue
<1>2. r \in Pool!Outside
  BY <1>1 DEF Pool!Outside
<1>3. CASE Locked
  <2>1. /\ In(Holding)' = In(Holding) /\ In(Lined)' = In(Lined) \cup {r}
        /\ \A a, b : Ahead(a, b)' <=> Ahead(a, b) \/ (a \in In(Queued) /\ b = r)
    BY <1>3, AcquireKeepsQueue
  <2>2. \A a, b : Ahead(a, b) => a # r /\ b # r
    <3>1. r \notin In(Queued)
      BY DEF In, Queued, Handed
    <3> QED BY <3>1 DEF Ahead, QueueInv, ToSet
  <2>3. r \notin In(Queued) /\ In(Lined) \subseteq In(Queued)
    BY LinedDoNotHold DEF In, Queued, Handed
  <2>4. LineOrder' = LineOrder \cup (In(Lined) \X {r})
    BY <2>1, <2>2, <2>3 DEF LineOrder
  <2>5. Pool!Join(r)
    BY <1>2, <2>1, <2>4 DEF Pool!Join, LineOrder
  <2> QED BY <1>1, <2>5 DEF Step, Pool!Next
<1>4. CASE ~Locked
  <2>1. /\ In(Holding)' = In(Holding) \cup {r} /\ In(Lined)' = In(Lined)
        /\ UNCHANGED waiters
    BY <1>4, AcquireKeepsQueue
  <2>2. LineOrder' = LineOrder
    BY <2>1 DEF LineOrder, Ahead
  <2>3. In(Lined) = {} /\ Pool!Free
    <3>1. value # 0 /\ In(Lined) = {}
      BY <1>4 DEF Locked, In, Queued, Lined, Handed
    <3> QED BY <3>1, PermitIsFree
  <2>4. Pool!WalkIn(r)
    BY <1>2, <2>1, <2>2, <2>3 DEF Pool!WalkIn, LineOrder
  <2> QED BY <1>1, <2>4 DEF Step, Pool!Next
<1> QED BY <1>3, <1>4

-----------------------------------------------------------------------------
(* The steps of Next, in the order of its disjuncts.                       *)
LEMMA StartIsPoolStep ==
  ASSUME Inv, QueueInv, NEW r \in Requests, Start(r) \/ BeginStream(r)
  PROVE  Step
<1>1. ASSUME pc[r] \in {"idle", "accepted"}, NEW to \in {"accepted", "done"},
             pc' = [pc EXCEPT ![r] = to], UNCHANGED waiters
      PROVE  Step
  BY <1>1, MoveIsStutter DEF Queued, Handed, Holding, Lined
<1> QED BY <1>1, AcquireIsJoinOrWalkIn
        DEF Start, Generate, AcceptStream, BeginStream, Reject

LEMMA InterruptIsPoolStep ==
  ASSUME Inv, QueueInv, NEW r \in Requests, Timers(r) \/ Cut(r)
  PROVE  Step
<1>1. ASSUME NEW why, InterruptWork(r, why) PROVE Step
  <2>1. CASE pc[r] = "running" /\ Release(r)
    BY <2>1, ReleaseIsLeave DEF Holding
  <2>2. ASSUME pc[r] \in {"running", "sending"}, NEW to \in {"closing", "abandoned"},
               NEW how, Interrupt(r, to, how)
        PROVE  Step
    BY <2>2, MoveIsStutter DEF Interrupt, Queued, Handed, Holding, Lined
  <2> QED BY <1>1, <2>1, <2>2 DEF InterruptWork
<1>2. ASSUME NEW why, pc[r] \in {"cancelled", "revoked"}, Interrupt(r, pc[r], why)
      PROVE  Step
  BY <1>2, MoveIsStutter DEF Interrupt, Queued, Handed, Holding, Lined
<1>3. ASSUME pc[r] = "closing", Release(r) PROVE Step
  BY <1>3, ReleaseIsLeave DEF Holding
<1>4. ASSUME pc[r] = "accepted", NEW why, Reject(r, why) PROVE Step
  BY <1>4, MoveIsStutter DEF Reject, Queued, Handed, Holding, Lined
<1>5. CASE Timers(r)
  BY <1>1, <1>2, <1>3, <1>5, InterruptIsGiveUp DEF Timers, QueueTimeout, GenerationTimeout
<1>6. CASE Cut(r)
  BY <1>1, <1>2, <1>3, <1>4, <1>6, InterruptIsGiveUp DEF Cut
<1> QED BY <1>5, <1>6

LEMMA WorkIsPoolStep ==
  ASSUME Inv, QueueInv, NEW r \in Requests,
         WorkEnds(r) \/ Answer(r) \/ Stream(r) \/ Finalize(r) \/ Closed(r)
  PROVE  Step
<1>1. ASSUME UNCHANGED <<pc, waiters>> PROVE Step
  BY <1>1, SamePool DEF In
<1>2. ASSUME pc[r] \in Holding, NEW to \in Holding, NEW how, Move(r, to, how)
      PROVE  Step
  BY <1>2, MoveIsStutter DEF Move, Queued, Handed, Holding, Lined
<1>3. ASSUME pc[r] \in Holding, Release(r) PROVE Step
  BY <1>3, ReleaseIsLeave
<1>4. CASE Stream(r) \/ Finalize(r)
  BY <1>2, <1>4 DEF Stream, Streams, Chunk, Sent, LastSent, EngineFails, Disconnect,
                    Finalize, Holding
<1> QED BY <1>1, <1>3, <1>4 DEF WorkEnds, Answer, Closed, Holding

LEMMA EveryStepIsPoolStep ==
  ASSUME Inv, QueueInv, [Next]_vars
  PROVE  Step
<1>1. CASE BecomeReady \/ Stop \/ UNCHANGED vars
  <2>1. UNCHANGED <<pc, waiters>>
    BY <1>1 DEF BecomeReady, Stop, vars
  <2> QED BY <2>1, SamePool DEF In
<1> QED BY <1>1, StartIsPoolStep, ResumeIsEnter, InterruptIsPoolStep, WorkIsPoolStep
        DEF Next

LEMMA InitQueue == Init => QueueInv /\ Pool!Init
<1> SUFFICES ASSUME Init PROVE QueueInv /\ Pool!Init
  OBVIOUS
<1>1. DOMAIN waiters = {} /\ \A S : In(S) # {} => "idle" \in S
  BY DEF Init, In
<1>2. In(Queued) = {} /\ In(Lined) = {} /\ In(Holding) = {}
      /\ In({"waiting"}) = {} /\ In({"granted"}) = {}
  BY <1>1 DEF Queued, Handed, Lined, Holding
<1> QED BY <1>1, <1>2 DEF QueueInv, Distinct, ToSet, GrantsInOrder, Pool!Init

THEOREM QueueInvariance == Spec => []QueueInv
<1>1. ASSUME Inv, QueueInv, [Next]_vars PROVE QueueInv'
  BY <1>1, EveryStepIsPoolStep DEF Step
<1> QED BY <1>1, InitQueue, Invariance, PTL DEF Spec

(* A sequence without duplicates is as long as its elements are many.      *)
LEMMA DistinctLength ==
  ASSUME NEW S, NEW s \in Seq(S), \A i, j \in DOMAIN s : s[i] = s[j] => i = j
  PROVE  Len(s) = Cardinality(ToSet(s))
<1>1. Len(s) \in Nat /\ DOMAIN s = 1 .. Len(s) /\ s \in [1 .. Len(s) -> S]
  BY LenProperties
<1>2. IsFiniteSet(1 .. Len(s)) /\ Cardinality(1 .. Len(s)) = Len(s)
  BY <1>1, FS_Interval
<1>3. ExistsBijection(1 .. Len(s), ToSet(s))
  <2>1. s \in [1 .. Len(s) -> ToSet(s)] /\ \A t \in ToSet(s) : \E i \in 1 .. Len(s) : s[i] = t
    BY <1>1 DEF ToSet
  <2>2. s \in Bijection(1 .. Len(s), ToSet(s))
    BY <1>1, <2>1 DEF Bijection, Injection, Surjection, IsInjective
  <2> QED BY <2>2 DEF ExistsBijection
<1> QED BY <1>2, <1>3, FS_Bijection

(* The deque holds exactly the requests inside acquire(), each once.       *)
THEOREM QueueStaysExact == Spec => []QueueIsExact
<1>1. Inv /\ QueueInv => QueueIsExact
  BY DistinctLength DEF Inv, TypeOK, QueueInv, Distinct, QueueIsExact
<1> QED BY <1>1, Invariance, QueueInvariance, PTL

(* The semaphore with its timeouts and cancellations is a pool of permits  *)
(* with a line that nobody jumps, whatever the limit (manager.py:147-184). *)
THEOREM CapacityImplementsPool == Spec => ImplementsPool
<1>1. Inv /\ QueueInv /\ [Next]_vars => [Pool!Next]_(Pool!vars)
  BY EveryStepIsPoolStep DEF Step
<1> QED BY <1>1, InitQueue, Invariance, QueueInvariance, PTL
        DEF Spec, ImplementsPool, Pool!Spec
=============================================================================

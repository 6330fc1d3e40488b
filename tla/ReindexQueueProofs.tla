------------------------- MODULE ReindexQueueProofs -------------------------
(***************************************************************************)
(* Proofs about ReindexQueue, for every set of paths and every finite set  *)
(* of workers.  The inductive invariant QueueInv conjoins the named        *)
(* invariants: NoIdleWorkerBesideWork needs PendingMirrorsDeque for        *)
(* nothing, but ReturnedMeansDrained and NobodySleepsOnceClosed support    *)
(* each other, and the refinement of PathDemand needs them all.            *)
(***************************************************************************)
EXTENDS ReindexQueue, FiniteSetTheorems, SequenceTheorems, TLAPS

QueueInv ==
    /\ TypeOK
    /\ PendingMirrorsDeque
    /\ NoIdleWorkerBesideWork
    /\ NobodySleepsOnceClosed
    /\ ReturnedMeansDrained
    /\ HoldsPathWhileWorking

LEMMA TypeStep == ASSUME TypeOK, [Next]_vars PROVE TypeOK'
<1> USE DEF TypeOK, PcValues
<1>1. ASSUME NEW p \in Paths, Enqueue(p) PROVE TypeOK'
  BY <1>1 DEF Enqueue, NotifyOne, At
<1>2. ASSUME NEW p \in Paths, EnqueueDropped(p) PROVE TypeOK'
  BY <1>2 DEF EnqueueDropped, vars
<1>3. CASE Close
  BY <1>3 DEF Close
<1>4. ASSUME NEW w \in Workers, RecvPath(w) PROVE TypeOK'
  BY <1>4 DEF RecvPath
<1>5. ASSUME NEW w \in Workers, RecvNone(w) PROVE TypeOK'
  BY <1>5 DEF RecvNone
<1>6. ASSUME NEW w \in Workers, RecvWait(w) PROVE TypeOK'
  BY <1>6 DEF RecvWait
<1>7. ASSUME NEW w \in Workers, SpuriousWake(w) PROVE TypeOK'
  BY <1>7 DEF SpuriousWake
<1>8. ASSUME NEW w \in Workers, WorkDone(w) PROVE TypeOK'
  BY <1>8 DEF WorkDone
<1>9. CASE UNCHANGED vars
  BY <1>9 DEF vars
<1> QED
  BY <1>1, <1>2, <1>3, <1>4, <1>5, <1>6, <1>7, <1>8, <1>9 DEF Next, Recv

(* The state is well typed in every reachable state.                       *)
THEOREM TypeCorrect == Spec => []TypeOK
<1>1. Init => TypeOK
  BY EmptySeq DEF Init, TypeOK, PcValues
<1>2. TypeOK /\ [Next]_vars => TypeOK'
  BY TypeStep
<1> QED
  BY <1>1, <1>2, PTL DEF Spec

(* Moving one worker into or out of a control point changes the number of  *)
(* workers there by one.                                                   *)
LEMMA AtFinite ==
  ASSUME NEW l
  PROVE  /\ IsFiniteSet(At(l))
         /\ Cardinality(At(l)) \in Nat
BY QueueAssumption, FS_Subset, FS_CardinalityType DEF At

LEMMA AtEnters ==
  ASSUME TypeOK, NEW w \in Workers, NEW a \in PcValues, NEW b \in PcValues,
         a # b, pc[w] = a, pc' = [pc EXCEPT ![w] = b]
  PROVE  /\ At(b)' = At(b) \cup {w}
         /\ At(a)' = At(a) \ {w}
         /\ \A c \in PcValues \ {a, b} : At(c)' = At(c)
         /\ Cardinality(At(b)') = Cardinality(At(b)) + 1
         /\ Cardinality(At(a)') = Cardinality(At(a)) - 1
<1>1. At(b)' = At(b) \cup {w}
  BY DEF At, TypeOK
<1>2. At(a)' = At(a) \ {w}
  BY DEF At, TypeOK
<1>3. \A c \in PcValues \ {a, b} : At(c)' = At(c)
  BY DEF At, TypeOK
<1>4. w \in At(a) /\ w \notin At(b)
  BY DEF At
<1>5. Cardinality(At(b) \cup {w}) = Cardinality(At(b)) + 1
  BY <1>4, AtFinite, FS_AddElement
<1>6. Cardinality(At(a) \ {w}) = Cardinality(At(a)) - 1
  BY <1>4, AtFinite, FS_RemoveElement
<1> QED
  BY <1>1, <1>2, <1>3, <1>5, <1>6

(* Popping the head of a deque without duplicates removes that path from   *)
(* the set of queued paths and nothing else.                               *)
LEMMA PopRemovesHead ==
  ASSUME TypeOK, PendingMirrorsDeque, deque # <<>>, deque' = Tail(deque)
  PROVE  /\ Head(deque) \in Queued
         /\ Queued' = Queued \ {Head(deque)}
         /\ Len(deque') = Len(deque) - 1
         /\ \A i, j \in 1..Len(deque') : deque'[i] = deque'[j] => i = j
<1>1. /\ Len(deque) \in Nat \ {0}
      /\ Len(deque') = Len(deque) - 1
      /\ \A i \in 1..Len(deque') : deque'[i] = deque[i+1]
      /\ Head(deque) = deque[1]
  BY DEF TypeOK
<1>2. \A i, j \in 1..Len(deque') : deque'[i] = deque'[j] => i = j
  BY <1>1 DEF PendingMirrorsDeque
<1>3. Head(deque) \in Queued
  BY <1>1 DEF Queued
<1>4. Queued' \subseteq Queued \ {Head(deque)}
  BY <1>1 DEF Queued, PendingMirrorsDeque
<1>5. Queued \ {Head(deque)} \subseteq Queued'
  <2> SUFFICES ASSUME NEW i \in 1..Len(deque), deque[i] # deque[1]
               PROVE  \E j \in 1..Len(deque') : deque[i] = deque'[j]
    BY <1>1 DEF Queued
  <2>1. i - 1 \in 1..Len(deque') /\ deque'[i-1] = deque[i]
    BY <1>1
  <2> QED
    BY <2>1
<1> QED
  BY <1>1, <1>2, <1>3, <1>4, <1>5

LEMMA PushAddsPath ==
  ASSUME TypeOK, PendingMirrorsDeque, NEW p \in Paths, p \notin pending,
         deque' = Append(deque, p)
  PROVE  /\ Queued' = Queued \cup {p}
         /\ Len(deque') = Len(deque) + 1
         /\ \A i, j \in 1..Len(deque') : deque'[i] = deque'[j] => i = j
<1>1. /\ Len(deque) \in Nat
      /\ Len(deque') = Len(deque) + 1
      /\ deque'[Len(deque')] = p
      /\ \A i \in 1..Len(deque) : deque'[i] = deque[i]
  BY DEF TypeOK
<1>2. Queued' = Queued \cup {p}
  BY <1>1 DEF Queued
<1>3. \A i \in 1..Len(deque) : deque[i] # p
  BY DEF PendingMirrorsDeque, Queued
<1>4. \A i, j \in 1..Len(deque') : deque'[i] = deque'[j] => i = j
  BY <1>1, <1>3 DEF PendingMirrorsDeque
<1> QED
  BY <1>1, <1>2, <1>4

(* Each conjunct of QueueInv that is not about types is inductive relative *)
(* to the others.                                                          *)
LEMMA MirrorStep ==
  ASSUME QueueInv, [Next]_vars
  PROVE  PendingMirrorsDeque'
<1> USE DEF QueueInv
<1>1. ASSUME NEW p \in Paths, Enqueue(p) PROVE PendingMirrorsDeque'
  BY <1>1, PushAddsPath DEF Enqueue, PendingMirrorsDeque
<1>2. ASSUME NEW w \in Workers, RecvPath(w) PROVE PendingMirrorsDeque'
  BY <1>2, PopRemovesHead DEF RecvPath, PendingMirrorsDeque
<1>3. CASE UNCHANGED <<deque, pending>>
  BY <1>3 DEF PendingMirrorsDeque, Queued
<1> QED
  BY <1>1, <1>2, <1>3
  DEF Next, Recv, EnqueueDropped, Close, RecvNone, RecvWait, SpuriousWake,
      WorkDone, vars

LEMMA WakeUpStep ==
  ASSUME QueueInv, [Next]_vars
  PROVE  NoIdleWorkerBesideWork'
<1> USE DEF QueueInv
<1>0. /\ Len(deque) \in Nat
      /\ \A l \in PcValues : Cardinality(At(l)) \in Nat
  BY AtFinite DEF TypeOK
<1>1. ASSUME NEW p \in Paths, Enqueue(p) PROVE NoIdleWorkerBesideWork'
  <2>1. Len(deque') = Len(deque) + 1
    BY <1>1, PushAddsPath DEF Enqueue
  <2>2. CASE At("waiting") = {} /\ pc' = pc
    BY <2>2 DEF NoIdleWorkerBesideWork, At
  <2>3. CASE \E w \in At("waiting") : pc' = [pc EXCEPT ![w] = "checking"]
    <3>1. PICK w \in At("waiting") : pc' = [pc EXCEPT ![w] = "checking"]
      BY <2>3
    <3>2. Cardinality(At("checking")') = Cardinality(At("checking")) + 1
      BY <3>1, AtEnters, "waiting" \in PcValues, "checking" \in PcValues
      DEF At, PcValues
    <3> QED
      BY <1>0, <2>1, <3>1, <3>2 DEF NoIdleWorkerBesideWork, PcValues
  <2> QED
    BY <1>1, <2>2, <2>3 DEF Enqueue, NotifyOne
<1>2. CASE Close
  BY <1>2 DEF Close, NoIdleWorkerBesideWork, At, TypeOK
<1>3. ASSUME NEW w \in Workers, RecvPath(w) PROVE NoIdleWorkerBesideWork'
  <2>1. /\ Cardinality(At("checking")') = Cardinality(At("checking")) - 1
        /\ At("waiting")' = At("waiting")
    BY <1>3, AtEnters DEF RecvPath, PcValues
  <2>2. Len(deque') = Len(deque) - 1
    BY <1>3, PopRemovesHead DEF RecvPath
  <2> QED
    BY <1>0, <2>1, <2>2 DEF NoIdleWorkerBesideWork, PcValues
<1>4. ASSUME NEW w \in Workers, RecvNone(w) PROVE NoIdleWorkerBesideWork'
  <2>1. At("waiting")' = At("waiting") /\ At("waiting") = {}
    BY <1>4, AtEnters DEF RecvNone, PcValues, NobodySleepsOnceClosed
  <2> QED
    BY <2>1 DEF NoIdleWorkerBesideWork
<1>5. ASSUME NEW w \in Workers, RecvWait(w) PROVE NoIdleWorkerBesideWork'
  <2>1. Len(deque') = 0
    BY <1>5 DEF RecvWait
  <2>2. Cardinality(At("checking")') = Cardinality(At("checking")) - 1
    BY <1>5, AtEnters DEF RecvWait, PcValues
  <2>3. Cardinality(At("checking")) # 0
    <3>1. w \in At("checking")
      BY <1>5 DEF RecvWait, At
    <3>2. IsFiniteSet(At("checking"))
      BY AtFinite
    <3> QED
      BY <3>1, <3>2, FS_EmptySet
  <2> QED
    BY <1>0, <2>1, <2>2, <2>3 DEF NoIdleWorkerBesideWork, PcValues
<1>6. ASSUME NEW w \in Workers, SpuriousWake(w) PROVE NoIdleWorkerBesideWork'
  <2>1. /\ Cardinality(At("checking")') = Cardinality(At("checking")) + 1
        /\ At("waiting") # {}
    BY <1>6, AtEnters DEF SpuriousWake, PcValues, At
  <2> QED
    BY <1>0, <1>6, <2>1 DEF SpuriousWake, NoIdleWorkerBesideWork, PcValues
<1>7. ASSUME NEW w \in Workers, WorkDone(w) PROVE NoIdleWorkerBesideWork'
  <2>1. /\ Cardinality(At("checking")') = Cardinality(At("checking")) + 1
        /\ At("waiting")' = At("waiting")
    BY <1>7, AtEnters DEF WorkDone, PcValues
  <2> QED
    BY <1>0, <1>7, <2>1 DEF WorkDone, NoIdleWorkerBesideWork, PcValues
<1>8. CASE UNCHANGED vars
  BY <1>8 DEF vars, NoIdleWorkerBesideWork, At
<1> QED
  BY <1>1, <1>2, <1>3, <1>4, <1>5, <1>6, <1>7, <1>8
  DEF Next, Recv, EnqueueDropped

LEMMA RestStep ==
  ASSUME QueueInv, [Next]_vars
  PROVE  /\ NobodySleepsOnceClosed'
         /\ ReturnedMeansDrained'
         /\ HoldsPathWhileWorking'
<1> USE DEF QueueInv, TypeOK, NobodySleepsOnceClosed, ReturnedMeansDrained,
            HoldsPathWhileWorking, At, PcValues
<1>1. ASSUME NEW p \in Paths, Enqueue(p)
      PROVE  /\ NobodySleepsOnceClosed'
             /\ ReturnedMeansDrained'
             /\ HoldsPathWhileWorking'
  BY <1>1 DEF Enqueue, NotifyOne
<1>2. CASE Close
  BY <1>2 DEF Close
<1>3. ASSUME NEW w \in Workers, RecvPath(w)
      PROVE  /\ NobodySleepsOnceClosed'
             /\ ReturnedMeansDrained'
             /\ HoldsPathWhileWorking'
  <2>1. Head(deque) \in Paths
    BY <1>3, PopRemovesHead DEF RecvPath, Queued
  <2> QED
    BY <1>3, <2>1, QueueAssumption DEF RecvPath
<1>4. ASSUME NEW w \in Workers,
             RecvNone(w) \/ RecvWait(w) \/ SpuriousWake(w) \/ WorkDone(w)
      PROVE  /\ NobodySleepsOnceClosed'
             /\ ReturnedMeansDrained'
             /\ HoldsPathWhileWorking'
  BY <1>4 DEF RecvNone, RecvWait, SpuriousWake, WorkDone
<1>5. CASE UNCHANGED vars
  BY <1>5 DEF vars
<1> QED
  BY <1>1, <1>2, <1>3, <1>4, <1>5 DEF Next, Recv, EnqueueDropped

LEMMA QueueInvInit == Init => QueueInv
<1> SUFFICES ASSUME Init PROVE QueueInv
  OBVIOUS
<1>1. TypeOK
  BY EmptySeq DEF Init, TypeOK, PcValues
<1>2. Len(deque) = 0 /\ Queued = {}
  BY DEF Init, Queued
<1>3. At("waiting") = {} /\ At("returned") = {}
  BY DEF Init, At
<1>4. PendingMirrorsDeque
  BY <1>2 DEF Init, PendingMirrorsDeque
<1> QED
  BY <1>1, <1>3, <1>4
  DEF Init, QueueInv, NoIdleWorkerBesideWork, NobodySleepsOnceClosed,
      ReturnedMeansDrained, HoldsPathWhileWorking

LEMMA QueueInvStep == ASSUME QueueInv, [Next]_vars PROVE QueueInv'
BY TypeStep, MirrorStep, WakeUpStep, RestStep DEF QueueInv

(* Every named invariant of ReindexQueue holds in every reachable state:   *)
(* dedup agrees with the deque, no wake-up is lost, close leaves nobody    *)
(* asleep and no worker leaves a path behind.                              *)
THEOREM QueueSafety ==
  Spec => [](/\ PendingMirrorsDeque
             /\ NoIdleWorkerBesideWork
             /\ NobodySleepsOnceClosed
             /\ ReturnedMeansDrained
             /\ HoldsPathWhileWorking)
<1>1. QueueInv /\ [Next]_vars => QueueInv'
  BY QueueInvStep
<1> QED
  BY <1>1, QueueInvInit, PTL DEF Spec, QueueInv

(* A worker of run_worker returns only once the queue is closed and        *)
(* drained: recv looks at the deque before the closed flag, and enqueue at *)
(* the closed flag before the deque.                                       *)
THEOREM NoPathLeftBehind == Spec => []ReturnedMeansDrained
<1>1. QueueInv => ReturnedMeansDrained
  BY DEF QueueInv
<1>2. QueueInv /\ [Next]_vars => QueueInv'
  BY QueueInvStep
<1> QED
  BY <1>1, <1>2, QueueInvInit, PTL DEF Spec

LEMMA DemandStep == ASSUME QueueInv, [Next]_vars PROVE [Demand!Next]_(Demand!vars)
<1> USE DEF QueueInv
<1>1. ASSUME NEW p \in Paths, Enqueue(p) PROVE Demand!Request(p)
  <2>1. Queued' = Queued \cup {p}
    BY <1>1, PushAddsPath DEF Enqueue
  <2>2. At("returned")' = At("returned")
    BY <1>1 DEF Enqueue, NotifyOne, At, TypeOK
  <2> QED
    BY <1>1, <2>1, <2>2 DEF Enqueue, Demand!Request
<1>2. CASE Close
  <2>1. At("returned")' = At("returned")
    BY <1>2 DEF Close, At, TypeOK
  <2> QED
    BY <1>2, <2>1 DEF Close, Queued, Demand!Shut, Demand!Next
<1>3. ASSUME NEW w \in Workers, RecvPath(w)
      PROVE  Demand!Take(w, Head(deque)) /\ Head(deque) \in Paths
  <2>1. /\ Head(deque) \in Queued
        /\ Queued' = Queued \ {Head(deque)}
    BY <1>3, PopRemovesHead DEF RecvPath
  <2>2. Head(deque) \in Paths
    BY <2>1 DEF TypeOK, Queued
  <2>3. At("returned")' = At("returned") /\ w \notin At("returned")
    BY <1>3 DEF RecvPath, At, TypeOK
  <2>4. current[w] = NoPath
    BY <1>3 DEF RecvPath, HoldsPathWhileWorking
  <2> QED
    BY <1>3, <2>1, <2>2, <2>3, <2>4 DEF RecvPath, Demand!Take
<1>4. ASSUME NEW w \in Workers, RecvNone(w) PROVE Demand!Leave(w)
  <2>1. At("returned")' = At("returned") \cup {w}
    BY <1>4 DEF RecvNone, At, TypeOK
  <2>2. Queued = {} /\ Queued' = Queued
    BY <1>4 DEF RecvNone, Queued
  <2>3. current[w] = NoPath
    BY <1>4 DEF RecvNone, HoldsPathWhileWorking
  <2> QED
    BY <1>4, <2>1, <2>2, <2>3 DEF RecvNone, Demand!Leave
<1>5. ASSUME NEW w \in Workers, RecvWait(w) \/ SpuriousWake(w)
      PROVE  UNCHANGED Demand!vars
  BY <1>5 DEF RecvWait, SpuriousWake, At, TypeOK, Queued, Demand!vars
<1>6. ASSUME NEW w \in Workers, WorkDone(w) PROVE Demand!Finish(w)
  <2>1. At("returned")' = At("returned")
    BY <1>6 DEF WorkDone, At, TypeOK
  <2>2. current[w] # NoPath
    BY <1>6 DEF WorkDone, HoldsPathWhileWorking
  <2> QED
    BY <1>6, <2>1, <2>2 DEF WorkDone, Queued, Demand!Finish
<1>7. CASE UNCHANGED vars
  BY <1>7 DEF vars, Queued, At, Demand!vars
<1> QED
  BY <1>1, <1>2, <1>3, <1>4, <1>5, <1>6, <1>7
  DEF Next, Recv, EnqueueDropped, Demand!Next

(* The deque, the dedup set and the condition variable implement           *)
(* PathDemand: every step of the queue is one of its steps or changes      *)
(* nothing it can see.                                                     *)
THEOREM QueueImplementsDemand == Spec => DemandSpec
<1>1. Init => Demand!Init
  BY DEF Init, Demand!Init, Queued, At
<1>2. QueueInv /\ [Next]_vars => [Demand!Next]_(Demand!vars)
  BY DemandStep
<1>3. Spec => []QueueInv
  BY QueueSafety, TypeCorrect, PTL DEF QueueInv
<1> QED
  BY <1>1, <1>2, <1>3, PTL DEF Spec, DemandSpec, Demand!Spec

=============================================================================

---------------------------- MODULE ReindexQueue ----------------------------
(***************************************************************************)
(* ChannelReindexQueue of caw-core/src/reindex.rs: a Mutex around a deque  *)
(* of paths, the set of paths still pending and a closed flag, plus one    *)
(* Condvar.  Any thread may enqueue; each worker thread runs run_worker,   *)
(* which calls recv until it returns None.                                 *)
(*                                                                         *)
(* Every access happens under the mutex, and cv.wait releases it and goes  *)
(* to sleep in one step, so one action is one critical section.  A woken   *)
(* worker has to take the mutex again and re-check: between the            *)
(* notification and that check another worker can take the path, and a     *)
(* waiter may wake for no reason (std::sync::Condvar documents spurious    *)
(* wake-ups).                                                              *)
(***************************************************************************)
EXTENDS Naturals, Sequences, FiniteSets

CONSTANTS
    Paths,     \* the paths that are enqueued
    Workers,   \* the threads that run run_worker
    NoPath     \* no path

ASSUME QueueAssumption ==
    /\ NoPath \notin Paths
    /\ IsFiniteSet(Workers)

VARIABLES
    deque,     \* State.deque: the paths in arrival order
    pending,   \* State.pending: the paths that dedup treats as queued
    closed,    \* State.closed
    pc,        \* where each worker is in run_worker / recv
    current    \* the path each worker's work closure is given

vars == <<deque, pending, closed, pc, current>>

(* "checking": about to run the body of recv's loop (called recv, or was   *)
(* woken); "waiting": asleep in cv.wait; "working": inside work(&path);    *)
(* "returned": recv gave None and run_worker ended.                        *)
PcValues == {"checking", "waiting", "working", "returned"}

At(where) == {w \in Workers : pc[w] = where}

Queued == {deque[i] : i \in 1..Len(deque)}

Init ==
    /\ deque = <<>>
    /\ pending = {}
    /\ closed = FALSE
    /\ pc = [w \in Workers |-> "checking"]
    /\ current = [w \in Workers |-> NoPath]

(* Condvar::notify_one: one of the waiters, if there is one, wakes.        *)
NotifyOne ==
    \/ \E w \in At("waiting") : pc' = [pc EXCEPT ![w] = "checking"]
    \/ At("waiting") = {} /\ pc' = pc

(* Mutant of Enqueue: a worker is woken only when the deque was empty.     *)
EnqueueWakesIfEmpty(p) ==
    /\ ~closed
    /\ p \notin pending
    /\ pending' = pending \cup {p}
    /\ deque' = Append(deque, p)
    /\ IF deque = <<>> THEN NotifyOne ELSE pc' = pc
    /\ UNCHANGED <<closed, current>>

(* Mutant of Enqueue: the notification is forgotten.                       *)
EnqueueSilent(p) ==
    /\ ~closed
    /\ p \notin pending
    /\ pending' = pending \cup {p}
    /\ deque' = Append(deque, p)
    /\ UNCHANGED <<closed, pc, current>>

(* Mutant of Enqueue: the closed flag is not looked at.                    *)
EnqueueAfterClose(p) ==
    /\ p \notin pending
    /\ pending' = pending \cup {p}
    /\ deque' = Append(deque, p)
    /\ NotifyOne
    /\ UNCHANGED <<closed, current>>

(* A path is pushed only if pending.insert says it was not there.          *)
Enqueue(p) ==
    /\ ~closed
    /\ p \notin pending
    /\ pending' = pending \cup {p}
    /\ deque' = Append(deque, p)
    /\ NotifyOne
    /\ UNCHANGED <<closed, current>>

(* enqueue on a closed queue, or of a path still pending, is dropped.      *)
EnqueueDropped(p) ==
    /\ closed \/ p \in pending
    /\ UNCHANGED vars

(* Mutant of Close: notify_one in the place of notify_all.                 *)
CloseWakesOne ==
    /\ closed' = TRUE
    /\ NotifyOne
    /\ UNCHANGED <<deque, pending, current>>

(* close may be called again; it wakes every waiter each time.             *)
Close ==
    /\ closed' = TRUE
    /\ pc' = [w \in Workers |-> IF pc[w] = "waiting" THEN "checking" ELSE pc[w]]
    /\ UNCHANGED <<deque, pending, current>>

RecvPath(w) ==
    /\ pc[w] = "checking"
    /\ deque # <<>>
    /\ deque' = Tail(deque)
    /\ pending' = pending \ {Head(deque)}
    /\ current' = [current EXCEPT ![w] = Head(deque)]
    /\ pc' = [pc EXCEPT ![w] = "working"]
    /\ UNCHANGED closed

(* Mutant of RecvNone: closed is checked before the deque.                 *)
RecvNoneUndrained(w) ==
    /\ pc[w] = "checking"
    /\ closed
    /\ pc' = [pc EXCEPT ![w] = "returned"]
    /\ UNCHANGED <<deque, pending, closed, current>>

RecvNone(w) ==
    /\ pc[w] = "checking"
    /\ deque = <<>>
    /\ closed
    /\ pc' = [pc EXCEPT ![w] = "returned"]
    /\ UNCHANGED <<deque, pending, closed, current>>

RecvWait(w) ==
    /\ pc[w] = "checking"
    /\ deque = <<>>
    /\ ~closed
    /\ pc' = [pc EXCEPT ![w] = "waiting"]
    /\ UNCHANGED <<deque, pending, closed, current>>

SpuriousWake(w) ==
    /\ pc[w] = "waiting"
    /\ pc' = [pc EXCEPT ![w] = "checking"]
    /\ UNCHANGED <<deque, pending, closed, current>>

(* work(&path) returns, whatever came of it, and the loop calls recv.      *)
WorkDone(w) ==
    /\ pc[w] = "working"
    /\ current' = [current EXCEPT ![w] = NoPath]
    /\ pc' = [pc EXCEPT ![w] = "checking"]
    /\ UNCHANGED <<deque, pending, closed>>

Recv(w) == RecvPath(w) \/ RecvNone(w) \/ RecvWait(w)

Next ==
    \/ \E p \in Paths : Enqueue(p) \/ EnqueueDropped(p)
    \/ Close
    \/ \E w \in Workers : Recv(w) \/ SpuriousWake(w) \/ WorkDone(w)

Spec == Init /\ [][Next]_vars

(* A runnable thread is scheduled and gets the mutex in the end, and the   *)
(* work closure returns.  Nobody has to enqueue or close, and no fairness  *)
(* is assumed of spurious wake-ups.                                        *)
Fairness == \A w \in Workers : WF_vars(Recv(w)) /\ WF_vars(WorkDone(w))

FairSpec == Spec /\ Fairness

-----------------------------------------------------------------------------
TypeOK ==
    /\ deque \in Seq(Paths)
    /\ pending \subseteq Paths
    /\ closed \in BOOLEAN
    /\ pc \in [Workers -> PcValues]
    /\ current \in [Workers -> Paths \cup {NoPath}]

(* The dedup set and the deque are the same set of paths and the deque     *)
(* holds each once.  A path left in pending after it is popped would make  *)
(* enqueue drop every later request for it, silently and for good.         *)
PendingMirrorsDeque ==
    /\ pending = Queued
    /\ \A i, j \in 1..Len(deque) : deque[i] = deque[j] => i = j

(* No wake-up is lost: while a worker sleeps, the paths in the deque are   *)
(* no more than the workers already on their way to take them.  Waking     *)
(* only on the transition from empty to non-empty would break it.          *)
NoIdleWorkerBesideWork ==
    At("waiting") # {} => Len(deque) <= Cardinality(At("checking"))

(* After close nobody sleeps, so shutdown needs no further notification.   *)
NobodySleepsOnceClosed == closed => At("waiting") = {}

(* A worker returns only when the queue is closed and drained, and nothing *)
(* enters the deque afterwards: no accepted path is left without a worker. *)
ReturnedMeansDrained == At("returned") # {} => closed /\ deque = <<>>

(* A worker holds a path exactly while its work closure runs.              *)
HoldsPathWhileWorking ==
    \A w \in Workers : (current[w] # NoPath) <=> (pc[w] = "working")

(* Every accepted path is taken in the end.                                *)
PendingIsTaken == \A p \in Paths : p \in pending ~> p \notin pending

(* After close every worker returns.                                       *)
CloseEndsWorkers == closed ~> \A w \in Workers : pc[w] = "returned"

(* The queue keeps the promise of PathDemand.                              *)
Demand == INSTANCE PathDemand WITH
    open <- ~closed,
    want <- Queued,
    holds <- current,
    gone <- At("returned")

DemandSpec == Demand!Spec

=============================================================================

--------------------------- MODULE ReindexingProofs ---------------------------
(***************************************************************************)
(* Proofs about Reindexing for any paths, workers, versions and number of  *)
(* restarts.  StaleIsScheduled is inductive with the types and with the    *)
(* invariant of the queue: a path dropped by enqueue on an open queue is   *)
(* pending, and what is pending is in the deque; a worker takes a path     *)
(* only when it holds none.  What is done to the queue here, it can do by  *)
(* itself, so its promise is kept, with a restart beginning it anew.       *)
(***************************************************************************)
EXTENDS Reindexing, ReindexQueueProofs, NumberLemmas

ReindexInv == QueueInv /\ ReindexingTypeOK /\ StaleIsScheduled

-----------------------------------------------------------------------------
(* What the statements do to the stale paths.                              *)
LEMMA FreshRows ==
    ASSUME NEW p \in Paths, NEW v \in Versions, NEW m \in Nat
    PROVE  /\ RowsOf(p, v, m) \subseteq Rows
           /\ \A r \in RowsOf(p, v, m) : r.path = p /\ r.stale = FALSE
<1>1. ChunksOf[v] \in Nat
  BY RowsAssumption, ElementOfSeq DEF Versions
<1> SUFFICES ASSUME NEW i \in 1..ChunksOf[v], NEW r,
                    r = [path |-> p, chunk |-> i, of |-> ChunksOf[v],
                         version |-> v, mtime |-> m, stale |-> FALSE]
             PROVE  r \in Rows /\ r.path = p /\ r.stale = FALSE
  BY Zenon DEF RowsOf
<1>2. i \in Nat
  BY <1>1
<1> QED
  BY <1>1, <1>2 DEF Rows

LEMMA DeletedRows ==
    ASSUME NEW p \in Paths
    PROVE  /\ DeletePath(rows, p) \subseteq rows
           /\ StalePaths(DeletePath(rows, p)) = StalePaths(rows) \ {p}
BY DEF DeletePath, RowsAt, StalePaths

LEMMA ReplacedRows ==
    ASSUME rows \subseteq Rows, NEW p \in Paths, NEW v \in Versions, NEW m \in Nat
    PROVE  /\ ReplacePath(rows, p, RowsOf(p, v, m)) \subseteq Rows
           /\ StalePaths(ReplacePath(rows, p, RowsOf(p, v, m))) \subseteq StalePaths(rows) \ {p}
<1>1. RowsOf(p, v, m) \subseteq Rows /\ \A r \in RowsOf(p, v, m) : r.stale = FALSE
  BY FreshRows
<1> QED
  BY <1>1, DeletedRows DEF ReplacePath, StalePaths

LEMMA MarkedRows ==
    ASSUME rows \subseteq Rows, NEW p \in Paths
    PROVE  /\ MarkPathStale(rows, p) \subseteq Rows
           /\ StalePaths(MarkPathStale(rows, p)) \subseteq StalePaths(rows) \cup {p}
<1>1. ASSUME NEW r \in RowsAt(rows, p)
      PROVE  [r EXCEPT !.stale = TRUE] \in Rows /\ [r EXCEPT !.stale = TRUE].path = p
  BY <1>1 DEF RowsAt, Rows
<1>2. \A r \in MarkPathStale(rows, p) : r \in Rows /\ (r \in rows \/ r.path = p)
  BY <1>1, DeletedRows DEF MarkPathStale
<1> QED
  BY <1>2 DEF StalePaths

(* The two outcomes of enqueue on an open queue.                           *)
LEMMA SignalledIsQueued ==
    ASSUME QueueInv, NEW p \in Paths, Signal(p), ~closed'
    PROVE  /\ p \in Queued'
           /\ Queued \subseteq Queued'
           /\ current' = current
           /\ failed' = failed \ {p}
<1>1. CASE Enqueue(p)
  BY <1>1, PushAddsPath DEF Signal, Enqueue, QueueInv
<1>2. CASE EnqueueDropped(p)
  <2>1. Queued' = Queued /\ closed' = closed /\ current' = current
    BY <1>2 DEF EnqueueDropped, vars, Queued
  <2> QED
    BY <1>2, <2>1 DEF EnqueueDropped, QueueInv, PendingMirrorsDeque, Signal
<1> QED
  BY <1>1, <1>2 DEF Signal

(* A path leaves the deque only into the hands of a worker that had none.  *)
LEMMA TakenIsHeld ==
    ASSUME QueueInv, NEW w \in Workers, Recv(w)
    PROVE  \A p \in Paths :
             p \in Queued \/ (\E u \in Workers : current[u] = p)
             => p \in Queued' \/ (\E u \in Workers : current'[u] = p)
<1>1. CASE RecvPath(w)
  <2>1. Queued' = Queued \ {Head(deque)}
    BY <1>1, PopRemovesHead DEF RecvPath, QueueInv
  <2>2. current[w] = NoPath /\ current' = [current EXCEPT ![w] = Head(deque)]
    BY <1>1 DEF RecvPath, QueueInv, HoldsPathWhileWorking
  <2> QED
    BY <2>1, <2>2, QueueAssumption DEF QueueInv, TypeOK
<1>2. CASE RecvNone(w) \/ RecvWait(w)
  BY <1>2 DEF RecvNone, RecvWait, Queued
<1> QED
  BY <1>1, <1>2 DEF Recv

-----------------------------------------------------------------------------
LEMMA ReindexInvInit == ReindexingInit => ReindexInv
<1> SUFFICES ASSUME ReindexingInit PROVE ReindexInv
  OBVIOUS
<1>1. QueueInv
  BY QueueInvInit DEF ReindexingInit
<1>2. rows \subseteq Rows /\ StalePaths(rows) = {}
  <2>1. 1 \in Versions
    BY RowsAssumption, EmptySeq, LenProperties DEF Versions
  <2>2. \A r \in rows : r \in Rows /\ r.stale = FALSE
    <3>1. \A p \in Paths : \A r \in RowsOf(p, 1, 1) : r \in Rows /\ r.stale = FALSE
      BY <2>1, FreshRows
    <3> QED
      BY <3>1 DEF ReindexingInit
  <2> QED
    BY <2>2 DEF StalePaths
<1>3. ReindexingTypeOK
  <2>1. 1 \in Versions
    BY RowsAssumption, EmptySeq, LenProperties DEF Versions
  <2>2. file \in [Paths -> Files]
    BY <2>1 DEF ReindexingInit, Files
  <2> QED
    BY <1>1, <1>2, <2>2 DEF ReindexingInit, ReindexingTypeOK, QueueInv, Readers, Jobs
<1> QED
  BY <1>1, <1>2, <1>3 DEF ReindexInv, StaleIsScheduled

-----------------------------------------------------------------------------
(* One lemma per group of actions.  Files change, and nothing else does.    *)
LEMMA FilesStep ==
    ASSUME ReindexInv, NEW p \in Paths, Edit(p) \/ Remove(p)
    PROVE  ReindexInv'
<1>1. file' \in [Paths -> Files]
  <2>1. file[p] \in Files
    BY DEF ReindexInv, ReindexingTypeOK
  <2>2. file[p].version + 1 \in Versions /\ file[p].mtime + 1 \in Nat
        => [there |-> TRUE, version |-> file[p].version + 1,
            mtime |-> file[p].mtime + 1] \in Files
    BY DEF Files
  <2>3. [file[p] EXCEPT !.there = FALSE] \in Files
    BY <2>1 DEF Files
  <2>4. file[p].mtime + 1 \in Nat
    BY <2>1 DEF Files
  <2> QED
    BY <2>2, <2>3, <2>4 DEF Edit, Remove, ReindexInv, ReindexingTypeOK
<1>2. UNCHANGED <<vars, rows, reader, job, sweep, failed>>
  BY DEF Edit, Remove
<1>3. QueueInv'
  BY <1>2, QueueInvStep DEF ReindexInv
<1>4. ReindexingTypeOK'
  BY <1>1, <1>2, <1>3 DEF ReindexInv, ReindexingTypeOK, QueueInv, vars
<1>5. StaleIsScheduled'
  BY <1>2 DEF ReindexInv, StaleIsScheduled, StalePaths, Scheduled, Queued, vars
<1> QED
  BY <1>3, <1>4, <1>5 DEF ReindexInv

(* The row get_content has selected.                                       *)
LEMMA ReaderRow ==
    ASSUME ReindexingTypeOK, reader # Idle
    PROVE  /\ reader.row \in Rows /\ reader.row.path \in Paths
           /\ \A at \in {"stat", "mark", "enqueue", "read"} :
                /\ ReaderAt(at) \in Readers
                /\ ReaderAt(at).at = at /\ ReaderAt(at).row = reader.row
<1>1. reader \in [at : {"stat", "mark", "enqueue", "read"}, row : Rows]
  BY DEF ReindexingTypeOK, Readers
<1> QED
  BY <1>1 DEF ReaderAt, Readers, Rows

LEMMA GetRowStep ==
    ASSUME ReindexInv, GetRow
    PROVE  ReindexInv'
<1>1. PICK r \in rows : reader' = [at |-> IF r.stale THEN "enqueue" ELSE "stat", row |-> r]
  BY DEF GetRow
<1>2. UNCHANGED <<vars, file, rows, job, sweep, failed>> /\ reader = Idle
  BY DEF GetRow
<1>3. QueueInv'
  BY <1>2, QueueInvStep DEF ReindexInv
<1>4. reader' \in Readers
  BY <1>1 DEF ReindexInv, ReindexingTypeOK, Readers
<1>5. ReindexingTypeOK'
  BY <1>2, <1>3, <1>4 DEF ReindexInv, ReindexingTypeOK, QueueInv, vars
<1>6. StaleIsScheduled'
  BY <1>2 DEF ReindexInv, StaleIsScheduled, StalePaths, Scheduled, Queued, vars, Idle
<1> QED
  BY <1>3, <1>5, <1>6 DEF ReindexInv

LEMMA GetContentStep ==
    ASSUME ReindexInv, GetContent
    PROVE  ReindexInv'
<1> USE DEF ReindexInv
<1>1. reader # Idle /\ reader.row.path \in Paths
  BY ReaderRow DEF GetContent, StatFile, MarkStale, SignalStale, ReadBytes, Idle
<1>2. CASE StatFile \/ ReadBytes
  <2>1. UNCHANGED <<vars, file, rows, job, sweep, failed>> /\ reader' \in Readers
    BY <1>1, <1>2, ReaderRow DEF StatFile, ReadBytes, Readers
  <2>2. reader.at # "enqueue"
    BY <1>2 DEF StatFile, ReadBytes
  <2>3. QueueInv'
    BY <2>1, QueueInvStep
  <2>4. ReindexingTypeOK'
    BY <2>1, <2>3 DEF ReindexingTypeOK, QueueInv, vars
  <2>5. StaleIsScheduled'
    BY <2>1, <2>2 DEF StaleIsScheduled, StalePaths, Scheduled, Queued, vars
  <2> QED
    BY <2>3, <2>4, <2>5
<1>3. CASE MarkStale
  <2>1. /\ UNCHANGED <<vars, file, job, sweep, failed>> /\ reader' \in Readers
        /\ reader'.at = "enqueue" /\ reader'.row.path = reader.row.path
        /\ reader.at = "mark"
    BY <1>1, <1>3, ReaderRow DEF MarkStale
  <2>2. /\ rows' \subseteq Rows
        /\ StalePaths(rows') \subseteq StalePaths(rows) \cup {reader.row.path}
    BY <1>1, <1>3, MarkedRows DEF MarkStale, ReindexingTypeOK
  <2>3. QueueInv'
    BY <2>1, QueueInvStep
  <2>4. ReindexingTypeOK'
    BY <2>1, <2>2, <2>3 DEF ReindexingTypeOK, QueueInv, vars
  <2>5. StaleIsScheduled'
    BY <2>1, <2>2 DEF StaleIsScheduled, Scheduled, Queued, vars
  <2> QED
    BY <2>3, <2>4, <2>5
<1>4. CASE SignalStale
  <2>1. /\ Signal(reader.row.path) /\ reader' = Idle
        /\ UNCHANGED <<file, rows, job, sweep>>
    BY <1>4 DEF SignalStale
  <2>2. [Next]_vars
    BY <1>1, <2>1 DEF Signal, Next
  <2>3. QueueInv'
    BY <2>2, QueueInvStep
  <2>4. \A w \in Workers : pc[w] = "working" => pc'[w] = "working"
    BY <2>1 DEF Signal, Enqueue, EnqueueDropped, NotifyOne, At, vars, ReindexingTypeOK, TypeOK
  <2>5. ReindexingTypeOK'
    BY <2>1, <2>3, <2>4 DEF ReindexingTypeOK, QueueInv, Signal, Readers
  <2>6. closed' = closed
    BY <2>1 DEF Signal, Enqueue, EnqueueDropped, vars
  <2>7. StaleIsScheduled'
    BY <1>1, <2>1, <2>6, SignalledIsQueued DEF StaleIsScheduled, Scheduled, StalePaths
  <2> QED
    BY <2>3, <2>5, <2>7
<1> QED
  BY <1>2, <1>3, <1>4 DEF GetContent

-----------------------------------------------------------------------------
(* A worker takes a path, wakes or returns from recv.                      *)
LEMMA TakePathStep ==
    ASSUME ReindexInv, NEW w \in Workers, TakePath(w) \/ Wake(w)
    PROVE  ReindexInv'
<1> USE DEF ReindexInv
<1>1. UNCHANGED storeVars /\ (Recv(w) \/ SpuriousWake(w))
  BY DEF TakePath, Wake
<1>2. QueueInv'
  BY <1>1, QueueInvStep DEF Next
<1>3. /\ \A u \in Workers : pc[u] = "working" => pc'[u] = "working"
      /\ closed' = closed
  BY <1>1 DEF Recv, RecvPath, RecvNone, RecvWait, SpuriousWake, QueueInv, TypeOK
<1>4. ReindexingTypeOK'
  BY <1>1, <1>2, <1>3 DEF ReindexingTypeOK, QueueInv, storeVars
<1>5. \A p \in Paths :
        p \in Queued \/ (\E u \in Workers : current[u] = p)
        => p \in Queued' \/ (\E u \in Workers : current'[u] = p)
  <2>1. CASE Recv(w)
    BY <2>1, TakenIsHeld
  <2>2. CASE SpuriousWake(w)
    BY <2>2 DEF SpuriousWake, Queued
  <2> QED
    BY <1>1, <2>1, <2>2
<1>6. StalePaths(rows) \subseteq Paths
  BY DEF ReindexingTypeOK, Rows, StalePaths
<1>7. StaleIsScheduled'
  BY <1>1, <1>3, <1>5, <1>6 DEF StaleIsScheduled, Scheduled, storeVars
<1> QED
  BY <1>2, <1>4, <1>7

(* A work closure looks at its file.                                       *)
LEMMA LoadStep ==
    ASSUME ReindexInv, NEW w \in Workers, LoadContent(w) \/ LoadMtime(w)
    PROVE  ReindexInv'
<1> USE DEF ReindexInv
<1>1. UNCHANGED <<vars, file, rows, reader, sweep, failed>>
  BY DEF LoadContent, LoadMtime
<1>2. job \in [Workers -> Jobs]
  BY DEF ReindexingTypeOK
<1>3. PICK j : job' = [job EXCEPT ![w] = j] /\ j \in Jobs /\ pc[w] = "working"
  <2>1. current[w] \in Paths \/ pc[w] # "working"
    BY DEF QueueInv, TypeOK, HoldsPathWhileWorking
  <2>2. CASE LoadContent(w)
    <3>1. file[current[w]] \in Files
      BY <2>1, <2>2 DEF LoadContent, ReindexingTypeOK
    <3> QED
      BY <2>2, <3>1 DEF LoadContent, Jobs, Files
  <2>3. CASE LoadMtime(w)
    <3>1. job[w] # NoJob /\ job[w].did = "read" /\ job[w] \in Jobs
      BY <1>2, <2>3 DEF LoadMtime, NoJob
    <3>2. pc[w] = "working" /\ job[w].version \in Versions
      BY <3>1 DEF ReindexingTypeOK, Jobs, Missed, NoJob
    <3>3. file[current[w]] \in Files
      BY <2>1, <3>2 DEF ReindexingTypeOK
    <3> QED
      BY <2>3, <3>2, <3>3 DEF LoadMtime, Jobs, Files
  <2> QED
    BY <2>2, <2>3
<1>4. QueueInv'
  BY <1>1, QueueInvStep
<1>5. ReindexingTypeOK'
  BY <1>1, <1>2, <1>3, <1>4 DEF ReindexingTypeOK, QueueInv, vars
<1>6. StaleIsScheduled'
  BY <1>1 DEF StaleIsScheduled, StalePaths, Scheduled, Queued, vars
<1> QED
  BY <1>4, <1>5, <1>6

(* A work closure returns: its path is replaced, dropped or has failed.    *)
LEMMA ReturnStep ==
    ASSUME ReindexInv, NEW w \in Workers, Reingest(w) \/ DropMissing(w) \/ Fail(w)
    PROVE  ReindexInv'
<1> USE DEF ReindexInv
<1>1. /\ WorkDone(w) /\ job' = [job EXCEPT ![w] = NoJob]
      /\ UNCHANGED <<file, reader, sweep, deque, pending, closed>>
  BY DEF Reingest, DropMissing, Fail, Return, WorkDone
<1>2. current[w] \in Paths
  BY <1>1 DEF WorkDone, QueueInv, TypeOK, HoldsPathWhileWorking
<1>3. /\ rows' \subseteq Rows
      /\ StalePaths(rows') \subseteq StalePaths(rows)
      /\ failed \subseteq failed' /\ failed' \subseteq Paths
      /\ current[w] \in StalePaths(rows') => current[w] \in failed'
  <2>1. CASE Reingest(w)
    <3>1. job[w] \in Jobs /\ job[w].did = "loaded"
      BY <2>1 DEF Reingest, ReindexingTypeOK
    <3>2. job[w].version \in Versions /\ job[w].mtime \in Nat
      BY <3>1 DEF Jobs, NoJob, Missed
    <3> QED
      BY <1>2, <2>1, <3>2, ReplacedRows DEF Reingest, ReindexingTypeOK
  <2>2. CASE DropMissing(w)
    BY <1>2, <2>2, DeletedRows DEF DropMissing, ReindexingTypeOK
  <2>3. CASE Fail(w)
    BY <1>2, <2>3 DEF Fail, ReindexingTypeOK
  <2> QED
    BY <2>1, <2>2, <2>3
<1>4. QueueInv'
  BY <1>1, QueueInvStep DEF Next
<1>5. ReindexingTypeOK'
  <2>1. /\ job' \in [Workers -> Jobs]
        /\ \A u \in Workers : job'[u] # NoJob => pc'[u] = "working"
    BY <1>1 DEF ReindexingTypeOK, Jobs, WorkDone, QueueInv, TypeOK
  <2> QED
    BY <1>1, <1>3, <1>4, <2>1 DEF ReindexingTypeOK, QueueInv
<1>6. \A u \in Workers : u # w => current'[u] = current[u]
  BY <1>1 DEF WorkDone, QueueInv, TypeOK
<1>7. StaleIsScheduled'
  <2> SUFFICES ASSUME ~closed, NEW p \in StalePaths(rows'), p \notin failed'
               PROVE  Scheduled(p)'
    BY <1>1 DEF StaleIsScheduled, StalePaths
  <2>1. p # current[w] /\ Scheduled(p)
    BY <1>3 DEF StaleIsScheduled
  <2> QED
    BY <1>1, <1>6, <2>1 DEF Scheduled, Queued
<1> QED
  BY <1>4, <1>5, <1>7

-----------------------------------------------------------------------------
(* After a restart the queue is as it was at first and the sweep holds     *)
(* every stale path.                                                       *)
LEMMA RestartStep ==
    ASSUME ReindexInv, Restart
    PROVE  ReindexInv'
<1>1. /\ deque' = <<>> /\ pending' = {} /\ closed' = FALSE
      /\ pc' = [w \in Workers |-> "checking"]
      /\ current' = [w \in Workers |-> NoPath]
      /\ reader' = Idle /\ job' = [w \in Workers |-> NoJob]
      /\ sweep' = StalePaths(rows) /\ failed' = {}
      /\ UNCHANGED <<file, rows>>
  BY DEF Restart
<1>2. QueueInv'
  <2>1. TypeOK'
    BY <1>1, EmptySeq DEF TypeOK, PcValues
  <2>2. Len(deque') = 0 /\ Queued' = {}
    BY <1>1 DEF Queued
  <2>3. At("waiting")' = {} /\ At("returned")' = {}
    BY <1>1 DEF At
  <2>4. PendingMirrorsDeque'
    BY <1>1, <2>2 DEF PendingMirrorsDeque
  <2> QED
    BY <1>1, <2>1, <2>3, <2>4
    DEF QueueInv, NoIdleWorkerBesideWork, NobodySleepsOnceClosed,
        ReturnedMeansDrained, HoldsPathWhileWorking
<1>3. StalePaths(rows) \subseteq Paths
  BY DEF ReindexInv, ReindexingTypeOK, Rows, StalePaths
<1>4. ReindexingTypeOK'
  BY <1>1, <1>2, <1>3
  DEF ReindexInv, ReindexingTypeOK, QueueInv, Readers, Jobs
<1>5. StaleIsScheduled'
  BY <1>1 DEF StaleIsScheduled, StalePaths, Scheduled
<1> QED
  BY <1>2, <1>4, <1>5 DEF ReindexInv

LEMMA SweepStep ==
    ASSUME ReindexInv, SweepOne
    PROVE  ReindexInv'
<1> USE DEF ReindexInv
<1>1. PICK p \in sweep : Signal(p) /\ sweep' = sweep \ {p}
  BY DEF SweepOne
<1>2. UNCHANGED <<file, rows, reader, job>> /\ p \in Paths
  BY DEF SweepOne, ReindexingTypeOK
<1>3. [Next]_vars
  BY <1>1, <1>2 DEF Signal, Next
<1>4. QueueInv'
  BY <1>3, QueueInvStep
<1>5. \A w \in Workers : pc[w] = "working" => pc'[w] = "working"
  BY <1>1 DEF Signal, Enqueue, EnqueueDropped, NotifyOne, At, vars, ReindexingTypeOK, TypeOK
<1>6. ReindexingTypeOK'
  BY <1>1, <1>2, <1>4, <1>5 DEF ReindexingTypeOK, QueueInv, Signal
<1>7. closed' = closed
  BY <1>1 DEF Signal, Enqueue, EnqueueDropped, vars
<1>8. StaleIsScheduled'
  BY <1>1, <1>2, <1>7, SignalledIsQueued DEF StaleIsScheduled, Scheduled, StalePaths
<1> QED
  BY <1>4, <1>6, <1>8

(* Once the queue is closed StaleIsScheduled asks nothing.                 *)
LEMMA ShutdownStep ==
    ASSUME ReindexInv, Shutdown
    PROVE  ReindexInv'
<1>1. Close /\ UNCHANGED storeVars
  BY DEF Shutdown
<1>2. QueueInv'
  BY <1>1, QueueInvStep DEF Next, ReindexInv
<1>3. \A w \in Workers : pc[w] = "working" => pc'[w] = "working"
  BY <1>1 DEF Close
<1>4. ReindexingTypeOK'
  BY <1>1, <1>2, <1>3 DEF ReindexInv, ReindexingTypeOK, QueueInv, storeVars
<1>5. StaleIsScheduled'
  BY <1>1 DEF Close, StaleIsScheduled
<1> QED
  BY <1>2, <1>4, <1>5 DEF ReindexInv

LEMMA StutterStep ==
    ASSUME ReindexInv, UNCHANGED allVars
    PROVE  ReindexInv'
<1>1. UNCHANGED vars /\ UNCHANGED storeVars
  BY DEF allVars
<1>2. QueueInv'
  BY <1>1, QueueInvStep DEF ReindexInv
<1>3. ReindexingTypeOK'
  BY <1>1, <1>2 DEF ReindexInv, ReindexingTypeOK, QueueInv, vars, storeVars
<1>4. StaleIsScheduled'
  BY <1>1 DEF ReindexInv, StaleIsScheduled, StalePaths, Scheduled, Queued, vars, storeVars
<1> QED
  BY <1>2, <1>3, <1>4 DEF ReindexInv

LEMMA ReindexInvStep == ReindexInv /\ [ReindexingNext]_allVars => ReindexInv'
<1> SUFFICES ASSUME ReindexInv, [ReindexingNext]_allVars PROVE ReindexInv'
  OBVIOUS
<1>1. ASSUME NEW p \in Paths, Edit(p) \/ Remove(p) PROVE ReindexInv'
  BY <1>1, FilesStep
<1>2. CASE GetRow
  BY <1>2, GetRowStep
<1>3. CASE GetContent
  BY <1>3, GetContentStep
<1>4. ASSUME NEW w \in Workers, TakePath(w) \/ Wake(w) \/ Reingestion(w)
      PROVE  ReindexInv'
  BY <1>4, TakePathStep, LoadStep, ReturnStep DEF Reingestion
<1>5. CASE Restart
  BY <1>5, RestartStep
<1>6. CASE SweepOne
  BY <1>6, SweepStep
<1>7. CASE Shutdown
  BY <1>7, ShutdownStep
<1>8. CASE UNCHANGED allVars
  BY <1>8, StutterStep
<1> QED
  BY <1>1, <1>2, <1>3, <1>4, <1>5, <1>6, <1>7, <1>8 DEF ReindexingNext

LEMMA ReindexInvariant == ReindexingSpec => []ReindexInv
BY ReindexInvInit, ReindexInvStep, PTL DEF ReindexingSpec

(* Types hold, and a work closure has seen a file only while its worker    *)
(* works: run_worker lets nothing of one message leak into the next.       *)
THEOREM ReindexingTypeCorrect == ReindexingSpec => []ReindexingTypeOK
<1>1. ReindexInv => ReindexingTypeOK
  BY DEF ReindexInv
<1> QED
  BY <1>1, ReindexInvariant, PTL

(* mark_path_stale, the enqueue after it, recv and the startup sweep leave *)
(* no path with stale rows that is nobody's to repair, unless its          *)
(* reingestion has failed or the queue is closed.                          *)
THEOREM StaleNeverForgotten == ReindexingSpec => []StaleIsScheduled
<1>1. ReindexInv => StaleIsScheduled
  BY DEF ReindexInv
<1> QED
  BY <1>1, ReindexInvariant, PTL

-----------------------------------------------------------------------------
(* RowsAreOneVersion is a consequence of this: from any row of a path all  *)
(* its rows are found by running through the chunks the row is one of.     *)
WholeAt(p) ==
    \A r \in RowsAt(rows, p) : RowsAt(rows, p) = {[r EXCEPT !.chunk = i] : i \in 1..r.of}

RowsWhole == \A p \in Paths : WholeAt(p)

(* As many chunks as the row says.                                         *)
LEMMA ChunksCounted ==
    ASSUME NEW r \in Rows
    PROVE  Cardinality({[r EXCEPT !.chunk = i] : i \in 1..r.of}) = r.of
<1> DEFINE T == {[r EXCEPT !.chunk = i] : i \in 1..r.of}
           f == [i \in 1..r.of |-> [r EXCEPT !.chunk = i]]
<1>1. r.of \in Nat
  BY DEF Rows
<1>2. \A i \in 1..r.of : [r EXCEPT !.chunk = i].chunk = i
  BY DEF Rows
<1>3. \A i, j \in 1..r.of : f[i] = f[j] => i = j
  BY <1>2
<1>4. f \in Bijection(1..r.of, T)
  <2>1. f \in [1..r.of -> T]
    OBVIOUS
  <2>2. \A t \in T : \E i \in 1..r.of : f[i] = t
    OBVIOUS
  <2> HIDE DEF f, T
  <2> QED
    BY <1>3, <2>1, <2>2 DEF Bijection, Injection, Surjection, IsInjective
<1>5. ExistsBijection(1..r.of, T)
  BY <1>4 DEF ExistsBijection
<1>6. IsFiniteSet(1..r.of) /\ Cardinality(1..r.of) = r.of
  BY <1>1, CountTo
<1> HIDE DEF T
<1>7. Cardinality(T) = r.of
  BY <1>5, <1>6, FS_Bijection
<1> QED
  BY <1>7 DEF T

LEMMA WholeIsOneVersion ==
    ASSUME rows \subseteq Rows, RowsWhole
    PROVE  RowsAreOneVersion
<1> SUFFICES ASSUME NEW r \in rows, NEW s \in rows, r.path = s.path
             PROVE  /\ r.version = s.version /\ r.mtime = s.mtime /\ r.stale = s.stale
                    /\ r.of = Cardinality(RowsAt(rows, r.path))
  BY DEF RowsAreOneVersion
<1>1. r \in Rows /\ r.path \in Paths /\ r \in RowsAt(rows, r.path) /\ s \in RowsAt(rows, r.path)
  BY DEF Rows, RowsAt
<1>2. RowsAt(rows, r.path) = {[r EXCEPT !.chunk = i] : i \in 1..r.of}
  BY <1>1 DEF RowsWhole, WholeAt
<1>3. PICK i \in 1..r.of : s = [r EXCEPT !.chunk = i]
  BY <1>1, <1>2
<1>4. r.version = s.version /\ r.mtime = s.mtime /\ r.stale = s.stale
  BY <1>1, <1>3 DEF Rows
<1> QED
  BY <1>1, <1>2, <1>4, ChunksCounted

(* Only the rows at p are touched.                                         *)
LEMMA OthersUntouched ==
    ASSUME NEW p \in Paths, NEW q \in Paths, q # p, NEW items,
           \A r \in items : r.path = p
    PROVE  RowsAt(DeletePath(rows, p) \cup items, q) = RowsAt(rows, q)
BY DEF DeletePath, RowsAt

LEMMA ItemsAlone ==
    ASSUME NEW p \in Paths, NEW items, \A r \in items : r.path = p
    PROVE  RowsAt(DeletePath(rows, p) \cup items, p) = items
BY DEF DeletePath, RowsAt

(* Two rows with these keys that differ in their chunk alone.              *)
LEMMA OneFieldApart ==
    ASSUME NEW P, NEW K, NEW N, NEW V, NEW M, NEW S,
           NEW r \in [path : P, chunk : K, of : N, version : V, mtime : M, stale : S],
           NEW J,
           NEW s \in [path : P, chunk : J, of : N, version : V, mtime : M, stale : S],
           NEW i,
           s.path = r.path, s.chunk = i, s.of = r.of,
           s.version = r.version, s.mtime = r.mtime, s.stale = r.stale
    PROVE  [r EXCEPT !.chunk = i] = s
OBVIOUS

(* A stub turned into another chunk of its file.                           *)
LEMMA Rechunked ==
    ASSUME NEW p, NEW k, NEW i, NEW n, NEW v, NEW m, NEW r, NEW s,
           r = [path |-> p, chunk |-> k, of |-> n,
                version |-> v, mtime |-> m, stale |-> FALSE],
           s = [path |-> p, chunk |-> i, of |-> n,
                version |-> v, mtime |-> m, stale |-> FALSE]
    PROVE  [r EXCEPT !.chunk = i] = s
<1>1. r \in [path : {p}, chunk : {k}, of : {n}, version : {v}, mtime : {m}, stale : {FALSE}]
  OBVIOUS
<1>2. s \in [path : {p}, chunk : {i}, of : {n}, version : {v}, mtime : {m}, stale : {FALSE}]
  OBVIOUS
<1>3. /\ s.path = r.path /\ s.of = r.of /\ s.version = r.version
      /\ s.mtime = r.mtime /\ s.stale = r.stale /\ s.chunk = i
  OBVIOUS
<1> QED
  BY <1>1, <1>2, <1>3, OneFieldApart

LEMMA FreshWhole ==
    ASSUME NEW p \in Paths, NEW v \in Versions, NEW m \in Nat, NEW r \in RowsOf(p, v, m)
    PROVE  RowsOf(p, v, m) = {[r EXCEPT !.chunk = i] : i \in 1..r.of}
<1> DEFINE n == ChunksOf[v]
           chunk(i) == [path |-> p, chunk |-> i, of |-> n,
                        version |-> v, mtime |-> m, stale |-> FALSE]
<1>1. RowsOf(p, v, m) = {chunk(i) : i \in 1..n}
  BY Zenon DEF RowsOf
<1>2. PICK k \in 1..n : r = chunk(k)
  BY <1>1
<1>3. r.of = n
  BY <1>2
<1>4. ASSUME NEW i \in 1..n PROVE [r EXCEPT !.chunk = i] = chunk(i)
  <2> DEFINE s == chunk(i)
  <2>1. r = [path |-> p, chunk |-> k, of |-> n,
             version |-> v, mtime |-> m, stale |-> FALSE]
    BY <1>2, Zenon
  <2>2. s = [path |-> p, chunk |-> i, of |-> n,
             version |-> v, mtime |-> m, stale |-> FALSE]
    BY Zenon
  <2> HIDE DEF s
  <2>3. [r EXCEPT !.chunk = i] = s
    BY <2>1, <2>2, Rechunked
  <2> QED
    BY <2>3 DEF s
<1> HIDE DEF chunk, n
<1> QED
  BY <1>1, <1>3, <1>4

LEMMA MarkedWhole ==
    ASSUME rows \subseteq Rows, NEW p \in Paths, WholeAt(p),
           NEW r \in {[s EXCEPT !.stale = TRUE] : s \in RowsAt(rows, p)}
    PROVE  {[s EXCEPT !.stale = TRUE] : s \in RowsAt(rows, p)}
              = {[r EXCEPT !.chunk = i] : i \in 1..r.of}
<1>1. PICK s \in RowsAt(rows, p) : r = [s EXCEPT !.stale = TRUE]
  OBVIOUS
<1> DEFINE chunk(i) == [s EXCEPT !.chunk = i]
           marked(t) == [t EXCEPT !.stale = TRUE]
           rechunked(i) == [r EXCEPT !.chunk = i]
<1>2. s \in Rows /\ RowsAt(rows, p) = {chunk(i) : i \in 1..s.of}
  BY DEF WholeAt, RowsAt
<1>3. r.of = s.of
  BY <1>1, <1>2 DEF Rows
<1>4. ASSUME NEW i \in 1..s.of PROVE marked(chunk(i)) = rechunked(i)
  BY <1>1, <1>2 DEF Rows
<1> HIDE DEF chunk, marked, rechunked
<1>5. {marked(t) : t \in RowsAt(rows, p)} = {rechunked(i) : i \in 1..r.of}
  BY <1>2, <1>3, <1>4
<1> QED
  BY <1>5 DEF marked, rechunked

LEMMA OneWholePath ==
    ASSUME RowsWhole, NEW p \in Paths, NEW items, rows' = DeletePath(rows, p) \cup items,
           \A r \in items : r.path = p,
           \A r \in items : items = {[r EXCEPT !.chunk = i] : i \in 1..r.of}
    PROVE  RowsWhole'
<1>1. ASSUME NEW q \in Paths, q # p PROVE RowsAt(rows', q) = RowsAt(rows, q)
  BY <1>1, OthersUntouched
<1>2. RowsAt(rows', p) = items
  BY ItemsAlone
<1>3. ASSUME NEW q \in Paths PROVE WholeAt(q)'
  <2>1. CASE q = p
    BY <1>2, <2>1 DEF WholeAt
  <2>2. CASE q # p
    BY <1>1, <2>2 DEF RowsWhole, WholeAt
  <2> QED
    BY <2>1, <2>2
<1> QED
  BY <1>3 DEF RowsWhole

LEMMA WholeStep == ReindexInv /\ RowsWhole /\ [ReindexingNext]_allVars => RowsWhole'
<1> SUFFICES ASSUME ReindexInv, RowsWhole, [ReindexingNext]_allVars PROVE RowsWhole'
  OBVIOUS
<1>1. rows \subseteq Rows
  BY DEF ReindexInv, ReindexingTypeOK
<1>2. CASE rows' = rows
  BY <1>2 DEF RowsWhole, WholeAt
<1>4. CASE MarkStale
  <2> DEFINE p == reader.row.path
             items == {[s EXCEPT !.stale = TRUE] : s \in RowsAt(rows, p)}
  <2>1. p \in Paths
    BY <1>4, ReaderRow DEF ReindexInv, MarkStale, Idle
  <2>2. \A s \in RowsAt(rows, p) : [s EXCEPT !.stale = TRUE].path = p
    BY <1>1 DEF RowsAt, Rows
  <2>3. \A r \in items : r.path = p
    BY <2>2
  <2>4. \A r \in items : items = {[r EXCEPT !.chunk = i] : i \in 1..r.of}
    BY <1>1, <2>1, MarkedWhole DEF RowsWhole
  <2>5. rows' = rows \/ rows' = DeletePath(rows, p) \cup items
    BY <1>4 DEF MarkStale, MarkPathStale
  <2> HIDE DEF items, p
  <2> QED
    BY <1>2, <2>1, <2>3, <2>4, <2>5, OneWholePath
<1>5. ASSUME NEW w \in Workers, Reingest(w) PROVE RowsWhole'
  <2>1. job[w] \in Jobs /\ job[w].did = "loaded" /\ pc[w] = "working"
    BY <1>5 DEF Reingest, Return, WorkDone, ReindexInv, ReindexingTypeOK
  <2>2. current[w] \in Paths
    BY <2>1 DEF ReindexInv, QueueInv, TypeOK, HoldsPathWhileWorking
  <2>3. job[w].version \in Versions /\ job[w].mtime \in Nat
    BY <2>1 DEF Jobs, NoJob, Missed
  <2> DEFINE items == RowsOf(current[w], job[w].version, job[w].mtime)
  <2>4. \A r \in items : r.path = current[w]
    <3>1. items \subseteq Rows /\ \A r \in items : r.path = current[w] /\ r.stale = FALSE
      BY <2>2, <2>3, FreshRows
    <3> QED
      BY <3>1
  <2>5. \A r \in items : items = {[r EXCEPT !.chunk = i] : i \in 1..r.of}
    BY <2>2, <2>3, FreshWhole
  <2>6. rows' = DeletePath(rows, current[w]) \cup items
    BY <1>5 DEF Reingest, ReplacePath
  <2> HIDE DEF items
  <2> QED
    BY <2>2, <2>4, <2>5, <2>6, OneWholePath
<1>6. ASSUME NEW w \in Workers, DropMissing(w) PROVE RowsWhole'
  <2>1. current[w] \in Paths
    BY <1>6 DEF DropMissing, Return, WorkDone, ReindexInv, QueueInv, TypeOK, HoldsPathWhileWorking
  <2> DEFINE items == {}
  <2>2. rows' = DeletePath(rows, current[w]) \cup items
    BY <1>6 DEF DropMissing
  <2>3. items = {}
    OBVIOUS
  <2> HIDE DEF items
  <2>4. /\ \A r \in items : r.path = current[w]
        /\ \A r \in items : items = {[r EXCEPT !.chunk = i] : i \in 1..r.of}
    BY <2>3
  <2> QED
    BY <2>1, <2>2, <2>4, OneWholePath
<1>7. ASSUME \/ \E p \in Paths : Edit(p) \/ Remove(p)
             \/ GetRow \/ StatFile \/ SignalStale \/ ReadBytes
             \/ \E w \in Workers : \/ TakePath(w) \/ Wake(w)
                                   \/ LoadContent(w) \/ LoadMtime(w) \/ Fail(w)
             \/ Restart \/ SweepOne \/ Shutdown \/ UNCHANGED allVars
      PROVE  rows' = rows
  BY <1>7 DEF Edit, Remove, GetRow, StatFile, SignalStale, ReadBytes, TakePath, Wake,
              LoadContent, LoadMtime, Fail, Restart, SweepOne, Shutdown, allVars, storeVars
<1> QED
  BY <1>2, <1>4, <1>5, <1>6, <1>7 DEF ReindexingNext, GetContent, Reingestion

LEMMA WholeAtFirst == ReindexingInit => RowsWhole
<1> SUFFICES ASSUME ReindexingInit, NEW p \in Paths PROVE WholeAt(p)
  BY DEF RowsWhole
<1>1. 1 \in Versions /\ 1 \in Nat
  BY RowsAssumption, EmptySeq, LenProperties DEF Versions
<1>2. ASSUME NEW q \in Paths PROVE \A r \in RowsOf(q, 1, 1) : r.path = q
  <2>1. /\ RowsOf(q, 1, 1) \subseteq Rows
        /\ \A r \in RowsOf(q, 1, 1) : r.path = q /\ r.stale = FALSE
    BY <1>1, FreshRows
  <2> QED
    BY <2>1
<1>3. RowsAt(rows, p) = RowsOf(p, 1, 1)
  BY <1>2 DEF ReindexingInit, RowsAt
<1> QED
  BY <1>1, <1>3, FreshWhole DEF WholeAt

(* However readers, workers, editors and restarts interleave, the rows of  *)
(* a path are all the chunks of one version with one mtime, stale together *)
(* or not at all: the transactions of replace_path and delete_path and the *)
(* one statement of mark_path_stale keep the rows of a path whole.         *)
THEOREM PathsStayWhole == ReindexingSpec => []RowsAreOneVersion
<1>1. ReindexInv /\ RowsWhole => RowsAreOneVersion
  BY WholeIsOneVersion DEF ReindexInv, ReindexingTypeOK
<1> QED
  BY <1>1, ReindexInvariant, WholeAtFirst, WholeStep, PTL DEF ReindexingSpec

-----------------------------------------------------------------------------
(* What the store, the readers and the sweep do to the queue, the queue    *)
(* can do by itself; only a restart is no step of it.                      *)
LEMMA StoreStepsQueue ==
    ASSUME ReindexInv, [ReindexingNext]_allVars, ~Restart
    PROVE  [Next]_vars
<1>1. ASSUME NEW p \in Paths, Signal(p) PROVE Next
  BY <1>1 DEF Signal, Next
<1>2. CASE SignalStale
  <2>1. reader.row.path \in Paths /\ Signal(reader.row.path)
    BY <1>2 DEF SignalStale, ReindexInv, ReindexingTypeOK, Readers, Rows, Idle
  <2> QED
    BY <1>1, <2>1
<1>3. CASE SweepOne
  <2>1. PICK p \in sweep : Signal(p)
    BY <1>3 DEF SweepOne
  <2>2. p \in Paths
    BY DEF ReindexInv, ReindexingTypeOK
  <2> QED
    BY <1>1, <2>1, <2>2
<1>4. ASSUME NEW w \in Workers, TakePath(w) \/ Wake(w) \/ Reingest(w) \/ DropMissing(w) \/ Fail(w)
      PROVE  Next
  BY <1>4 DEF TakePath, Wake, Reingest, DropMissing, Fail, Return, Next
<1>5. CASE Shutdown
  BY <1>5 DEF Shutdown, Next
<1>6. ASSUME \/ \E p \in Paths : Edit(p) \/ Remove(p)
             \/ GetRow \/ StatFile \/ MarkStale \/ ReadBytes
             \/ \E w \in Workers : LoadContent(w) \/ LoadMtime(w)
             \/ UNCHANGED allVars
      PROVE  UNCHANGED vars
  BY <1>6 DEF Edit, Remove, GetRow, StatFile, MarkStale, ReadBytes, LoadContent, LoadMtime, allVars
<1> QED
  BY <1>2, <1>3, <1>4, <1>5, <1>6 DEF ReindexingNext, GetContent, Reingestion

LEMMA RestartBeginsDemand == Restart => Demand!Init'
BY DEF Restart, Demand!Init, Queued, At

(* With its store, its readers and its sweep around it, the queue keeps    *)
(* the promise of PathDemand in every life of the process: a step is one   *)
(* that PathDemand allows, or a restart, which begins PathDemand anew.  No *)
(* wake-up is lost and no worker leaves a path behind, across restarts.    *)
THEOREM QueueServesStore ==
  ReindexingSpec =>
    /\ [](NoIdleWorkerBesideWork /\ ReturnedMeansDrained)
    /\ Demand!Init
    /\ [][Demand!Next \/ (Restart /\ Demand!Init')]_(Demand!vars)
<1>1. ReindexInv => NoIdleWorkerBesideWork /\ ReturnedMeansDrained
  BY DEF ReindexInv, QueueInv
<1>2. ReindexingInit => Demand!Init
  BY DEF ReindexingInit, Init, Demand!Init, Queued, At
<1>3. ReindexInv /\ [ReindexingNext]_allVars => [Demand!Next \/ (Restart /\ Demand!Init')]_(Demand!vars)
  <2>1. SUFFICES ASSUME ReindexInv, [ReindexingNext]_allVars
                 PROVE  [Demand!Next \/ (Restart /\ Demand!Init')]_(Demand!vars)
    OBVIOUS
  <2>2. CASE Restart
    BY <2>2, RestartBeginsDemand
  <2>3. CASE ~Restart
    <3>1. QueueInv /\ [Next]_vars
      BY <2>1, <2>3, StoreStepsQueue DEF ReindexInv
    <3>2. [Demand!Next]_(Demand!vars)
      BY <3>1, DemandStep
    <3> QED
      BY <3>2
  <2> QED
    BY <2>2, <2>3
<1> QED
  BY <1>1, <1>2, <1>3, ReindexInvariant, PTL DEF ReindexingSpec

=============================================================================

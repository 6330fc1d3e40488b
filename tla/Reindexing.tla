------------------------------ MODULE Reindexing ------------------------------
(***************************************************************************)
(* A stub store with a reindex queue and workers, as reindex.rs documents  *)
(* it: get_content notices that a file has changed, marks its rows stale   *)
(* and enqueues its path; workers load the file again and replace the      *)
(* rows; a restart sweeps up the stale rows whose messages were lost.      *)
(*                                                                         *)
(* The reader, the workers and whoever edits the files interleave at       *)
(* every statement on the database, look at the file system and critical   *)
(* section of the queue.                                                   *)
(*                                                                         *)
(* A file is a version and an mtime, which the indexer has recorded (never *)
(* 0).  Edits come at least a second apart, the resolution of the code.    *)
(* The work closure is the application's; it is taken to load the file     *)
(* with SourceDocument::from_path and to use delete_path or replace_path,  *)
(* as their comments say.                                                  *)
(***************************************************************************)
EXTENDS ReindexQueue, StubRows

CONSTANT
    MaxRestarts    \* bound: crashes of the process

ASSUME ReindexingAssumption == MaxRestarts \in Nat

VARIABLES
    file,      \* each file: there or not, its version, its mtime
    rows,      \* the stubs table
    reader,    \* the call of get_content
    job,       \* what each work closure has loaded
    sweep,     \* stale paths found at startup and not yet enqueued
    restarts,  \* how often the process was killed
    failed     \* history: paths whose last reingestion failed

storeVars == <<file, rows, reader, job, sweep, restarts, failed>>
allVars == <<vars, storeVars>>

Versions == DOMAIN ChunksOf
Files == [there : BOOLEAN, version : Versions, mtime : Nat]
Rows == [path : Paths, chunk : Nat, of : Nat, version : Versions, mtime : Nat,
         stale : BOOLEAN]

(* What get_content does next, with the row it has selected.               *)
Idle == [at |-> "idle"]
Readers == {Idle} \cup [at : {"stat", "mark", "enqueue", "read"}, row : Rows]
ReaderAt(at) == [at |-> at, row |-> reader.row]

(* What a work closure has seen of its file.                               *)
NoJob == [did |-> "nothing"]
Missed == [did |-> "missed"]
Jobs == {NoJob, Missed} \cup [did : {"read"}, version : Versions]
            \cup [did : {"loaded"}, version : Versions, mtime : Nat]

ReindexingInit ==
    /\ Init
    /\ file = [p \in Paths |-> [there |-> TRUE, version |-> 1, mtime |-> 1]]
    /\ rows = UNION {RowsOf(p, 1, 1) : p \in Paths}
    /\ reader = Idle
    /\ job = [w \in Workers |-> NoJob]
    /\ sweep = {}
    /\ restarts = 0
    /\ failed = {}

-----------------------------------------------------------------------------
(* Files change under the store: written, removed, written again.          *)
Edit(p) ==
    /\ file[p].version + 1 \in Versions
    /\ file' = [file EXCEPT ![p] =
                    [there |-> TRUE, version |-> @.version + 1, mtime |-> @.mtime + 1]]
    /\ UNCHANGED <<vars, rows, reader, job, sweep, restarts, failed>>

Remove(p) ==
    /\ file[p].there
    /\ file' = [file EXCEPT ![p].there = FALSE]
    /\ UNCHANGED <<vars, rows, reader, job, sweep, restarts, failed>>

-----------------------------------------------------------------------------
(* get_content.  The row is selected; one already stale is not served.     *)
GetRow ==
    /\ reader = Idle
    /\ \E r \in rows :
        reader' = [at |-> IF r.stale THEN "enqueue" ELSE "stat", row |-> r]
    /\ UNCHANGED <<vars, file, rows, job, sweep, restarts, failed>>

(* The file is missing, or is not the one that was indexed.                *)
Differs(r) == ~file[r.path].there \/ file[r.path].mtime # r.mtime

StatFile ==
    /\ reader.at = "stat"
    /\ \/ reader' = ReaderAt(IF Differs(reader.row) THEN "mark" ELSE "read")
       \/ reader' = ReaderAt("mark")    \* the stat fails
    /\ UNCHANGED <<vars, file, rows, job, sweep, restarts, failed>>

(* Mutant of MarkStale: the row is marked and nobody is told.              *)
MarkQuietly ==
    /\ reader.at = "mark"
    /\ rows' = MarkPathStale(rows, reader.row.path)
    /\ reader' = Idle
    /\ UNCHANGED <<vars, file, job, sweep, restarts, failed>>

(* An error of mark_path_stale is ignored.                                 *)
MarkStale ==
    /\ reader.at = "mark"
    /\ rows' \in {rows, MarkPathStale(rows, reader.row.path)}
    /\ reader' = ReaderAt("enqueue")
    /\ UNCHANGED <<vars, file, job, sweep, restarts, failed>>

(* enqueue of a path; a failure before it no longer matters.               *)
Signal(p) ==
    /\ Enqueue(p) \/ EnqueueDropped(p)
    /\ failed' = failed \ {p}

SignalStale ==
    /\ reader.at = "enqueue"
    /\ Signal(reader.row.path)
    /\ reader' = Idle
    /\ UNCHANGED <<file, rows, job, sweep, restarts>>

(* The bytes are read, or an open or a read of a file that has changed     *)
(* meanwhile fails.                                                        *)
ReadBytes ==
    /\ reader.at = "read"
    /\ reader' = Idle
    /\ UNCHANGED <<vars, file, rows, job, sweep, restarts, failed>>

GetContent == StatFile \/ MarkStale \/ SignalStale \/ ReadBytes

-----------------------------------------------------------------------------
TakePath(w) == Recv(w) /\ UNCHANGED storeVars

Wake(w) == SpuriousWake(w) /\ UNCHANGED storeVars

(* SourceDocument::from_path reads the file ...                            *)
LoadContent(w) ==
    /\ pc[w] = "working" /\ job[w] = NoJob
    /\ LET f == file[current[w]] IN
       job' = [job EXCEPT ![w] = IF f.there THEN [did |-> "read", version |-> f.version]
                                 ELSE Missed]
    /\ UNCHANGED <<vars, file, rows, reader, sweep, restarts, failed>>

(* ... and stats it afterwards.                                            *)
LoadMtime(w) ==
    /\ job[w].did = "read"
    /\ file[current[w]].there
    /\ job' = [job EXCEPT ![w] = [did |-> "loaded", version |-> job[w].version,
                                  mtime |-> file[current[w]].mtime]]
    /\ UNCHANGED <<vars, file, rows, reader, sweep, restarts, failed>>

Return(w) ==
    /\ WorkDone(w)
    /\ job' = [job EXCEPT ![w] = NoJob]
    /\ UNCHANGED <<file, reader, sweep, restarts>>

(* Ingested, embedded and committed.                                       *)
Reingest(w) ==
    /\ job[w].did = "loaded"
    /\ rows' = ReplacePath(rows, current[w],
                           RowsOf(current[w], job[w].version, job[w].mtime))
    /\ Return(w)
    /\ UNCHANGED failed

DropMissing(w) ==
    /\ job[w].did = "missed"
    /\ rows' = DeletePath(rows, current[w])
    /\ Return(w)
    /\ UNCHANGED failed

(* Loading, embedding or committing fails; run_worker swallows it.         *)
Fail(w) ==
    /\ pc[w] = "working"
    /\ failed' = failed \cup {current[w]}
    /\ Return(w)
    /\ UNCHANGED rows

Reingestion(w) == LoadContent(w) \/ LoadMtime(w) \/ Reingest(w) \/ DropMissing(w) \/ Fail(w)

-----------------------------------------------------------------------------
(* Mutant of Restart: no startup sweep.                                    *)
RestartUnswept ==
    /\ restarts < MaxRestarts
    /\ restarts' = restarts + 1
    /\ deque' = <<>> /\ pending' = {} /\ closed' = FALSE
    /\ pc' = [w \in Workers |-> "checking"]
    /\ current' = [w \in Workers |-> NoPath]
    /\ reader' = Idle
    /\ job' = [w \in Workers |-> NoJob]
    /\ sweep' = {} /\ failed' = {}
    /\ UNCHANGED <<file, rows>>

(* The process dies, or is shut down, and starts again: what was in memory *)
(* is gone, what is in the database and the files stays.                   *)
Restart ==
    /\ restarts < MaxRestarts
    /\ restarts' = restarts + 1
    /\ deque' = <<>> /\ pending' = {} /\ closed' = FALSE
    /\ pc' = [w \in Workers |-> "checking"]
    /\ current' = [w \in Workers |-> NoPath]
    /\ reader' = Idle
    /\ job' = [w \in Workers |-> NoJob]
    /\ sweep' = StalePaths(rows) /\ failed' = {}
    /\ UNCHANGED <<file, rows>>

SweepOne ==
    /\ \E p \in sweep : Signal(p) /\ sweep' = sweep \ {p}
    /\ UNCHANGED <<file, rows, reader, job, restarts>>

Shutdown == Close /\ UNCHANGED storeVars

ReindexingNext ==
    \/ \E p \in Paths : Edit(p) \/ Remove(p)
    \/ GetRow \/ GetContent
    \/ \E w \in Workers : TakePath(w) \/ Wake(w) \/ Reingestion(w)
    \/ Restart \/ SweepOne \/ Shutdown

ReindexingSpec == ReindexingInit /\ [][ReindexingNext]_allVars

(* A call of get_content returns, the sweep goes through its list, workers *)
(* are scheduled and their closures return, with or without success.       *)
FairReindexingSpec ==
    /\ ReindexingSpec
    /\ WF_allVars(GetContent)
    /\ WF_allVars(SweepOne)
    /\ \A w \in Workers : WF_allVars(TakePath(w)) /\ WF_allVars(Reingestion(w))

-----------------------------------------------------------------------------
(* A closure has seen a file only while it works.                          *)
ReindexingTypeOK ==
    /\ TypeOK
    /\ file \in [Paths -> Files]
    /\ rows \subseteq Rows
    /\ reader \in Readers
    /\ job \in [Workers -> Jobs]
    /\ \A w \in Workers : job[w] # NoJob => pc[w] = "working"
    /\ sweep \subseteq Paths
    /\ failed \subseteq Paths

(* Recall sees one version of a file: the rows of a path are all the       *)
(* chunks of one version and go stale together, though two workers may     *)
(* replace them at a time and chunks get other ids.                        *)
RowsAreOneVersion ==
    \A r, s \in rows : r.path = s.path =>
        /\ r.version = s.version /\ r.mtime = s.mtime /\ r.stale = s.stale
        /\ r.of = Cardinality(RowsAt(rows, r.path))

(* Stale rows are never forgotten: their path is in the sweep, in the      *)
(* queue, with a worker or about to be enqueued.  They are hidden from     *)
(* search, so that no recall would bring them up again.                    *)
Scheduled(p) ==
    \/ p \in sweep
    \/ p \in Queued
    \/ \E w \in Workers : current[w] = p
    \/ reader.at = "enqueue" /\ reader.row.path = p

StaleIsScheduled ==
    ~closed => \A p \in StalePaths(rows) \ failed : Scheduled(p)

(* While the queue is open and reingestion works, stale rows are replaced  *)
(* or dropped in the end, across restarts.                                 *)
Overdue(p) == ~closed /\ p \in StalePaths(rows) \ failed

StaleIsRepaired == \A p \in Paths : Overdue(p) ~> ~Overdue(p)

(* "detects staleness from an mtime mismatch": rows that carry the mtime   *)
(* of the file are of its version.  A file edited between the read and the *)
(* stat of from_path gets its new mtime with its old content, and no later *)
(* stat can tell.                                                          *)
SameMtimeSameVersion ==
    \A r \in rows : ~Differs(r) => file[r.path].version = r.version

=============================================================================

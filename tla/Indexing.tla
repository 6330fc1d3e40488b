------------------------------- MODULE Indexing -------------------------------
(***************************************************************************)
(* The index builder (caw-bench/src/bin/build_index.rs) over the stub      *)
(* store, and the loader of what it builds (load_prebuilt_index in         *)
(* caw-bench/src/main.rs).                                                 *)
(*                                                                         *)
(* Producers of a pool of their own ingest the files the store does not    *)
(* know and send their stubs into a bounded channel; one consumer gathers  *)
(* batches, embeds them on rayon's global pool and inserts each of them in *)
(* one transaction.  A failure to embed or to insert ends the process, and *)
(* so is a crash of it.  The corpus is a snapshot: it is edited between    *)
(* builds only.  A file has one mtime per version.                         *)
(***************************************************************************)
EXTENDS StubRows

CONSTANTS
    Paths,
    Skipped,            \* paths should_skip turns away
    Producers,          \* threads of the producer pool
    GlobalPool,         \* threads of rayon's global pool, the tokenizer's
    ChannelCapacity,
    BatchSize

ASSUME IndexingAssumption ==
    /\ Skipped \subseteq Paths
    /\ ChannelCapacity \in Nat /\ BatchSize \in Nat \ {0}
    /\ GlobalPool \in Nat \ {0}

VARIABLES
    files,      \* path -> version
    rows,       \* the stubs table, embeddings with it
    building,   \* the builder runs
    todo,       \* paths no producer has taken
    sending,    \* producer -> stubs of its file it has yet to send
    channel,    \* stubs in the channel
    buf,        \* the consumer's batch
    unreadable, \* history: paths the build that runs could not read
    companion,  \* the points of the graph in "{index}.hnsw", or NoGraph
    graph       \* the points of the graph a bench run serves, or NoGraph

buildVars == <<building, todo, sending, channel, buf, unreadable>>
vars == <<files, rows, buildVars, companion, graph>>

Versions == DOMAIN ChunksOf
AllStubs == UNION {RowsOf(p, v, v) : p \in Paths, v \in Versions}
NoGraph == {}

IndexingTypeOK ==
    /\ files \in [Paths -> Versions]
    /\ rows \subseteq AllStubs
    /\ building \in BOOLEAN
    /\ todo \subseteq Paths
    /\ sending \in [Producers -> Seq(AllStubs)]
    /\ channel \in Seq(AllStubs)
    /\ buf \in Seq(AllStubs)
    /\ unreadable \subseteq Paths

Init ==
    /\ files \in [Paths -> {1}]
    /\ rows = {}
    /\ building = FALSE
    /\ todo = {}
    /\ sending = [i \in Producers |-> <<>>]
    /\ channel = <<>>
    /\ buf = <<>>
    /\ unreadable = {}
    /\ companion = NoGraph
    /\ graph = NoGraph

-----------------------------------------------------------------------------

(* The groups of rows of one path and one mtime.                           *)
Group(rs, g) == {r \in RowsAt(rs, g[1]) : r.mtime = g[2] /\ ~r.stale}
Groups(rs) == {<<r.path, r.mtime>> : r \in {s \in rs : ~s.stale}}

(* Mutant of IndexedPaths: SELECT DISTINCT, without the HAVING.            *)
IndexedPathsDistinct(rs) == Groups(rs)

(* The files a build may leave alone: all of their chunks are there.       *)
IndexedPaths(rs) ==
    {g \in Groups(rs) : \A r \in Group(rs, g) : Cardinality(Group(rs, g)) >= r.of}

(* INSERT OR REPLACE of a batch, in one transaction, in order.             *)
InsertBatch(rs, items) ==
    LET last == {k \in DOMAIN items :
                    \A l \in DOMAIN items : l > k => Id(items[l]) # Id(items[k])}
    IN  {r \in rs : \A k \in last : Id(items[k]) # Id(r)} \cup {items[k] : k \in last}

(* What the vector index is built from: stub ids with their embeddings.    *)
AllEmbeddings(rs) == {<<Id(r), r.version>> : r \in {s \in rs : ~s.stale}}

(* The stubs of a file in the order ingest returns them.                   *)
Ingested(p) ==
    [i \in 1..ChunksOf[files[p]] |->
        CHOOSE r \in RowsOf(p, files[p], files[p]) : r.chunk = i]

-----------------------------------------------------------------------------

(* The head of main: --rebuild removes the index and its companion; the    *)
(* walk leaves what is indexed out.  A build that has nothing to do ends.  *)
StartBuild(rebuild) ==
    LET opened == IF rebuild THEN {} ELSE rows
        new == {p \in Paths : <<p, files[p]>> \notin IndexedPaths(opened)}
    IN  /\ ~building
        /\ rows' = opened
        /\ companion' = IF rebuild THEN NoGraph ELSE companion
        /\ todo' = new
        /\ building' = (new # {})
        /\ graph' = NoGraph
        /\ UNCHANGED <<files, sending, channel, buf, unreadable>>

(* A producer takes a path.  What should_skip refuses yields nothing, and  *)
(* neither does what from_path fails to read.                              *)
Ingest(i) ==
    /\ building
    /\ sending[i] = <<>>
    /\ \E p \in todo :
        /\ todo' = todo \ {p}
        /\ \/ /\ sending' = [sending EXCEPT ![i] = IF p \in Skipped THEN <<>> ELSE Ingested(p)]
              /\ UNCHANGED unreadable
           \/ /\ p \notin Skipped
              /\ unreadable' = unreadable \cup {p}
              /\ UNCHANGED sending
    /\ UNCHANGED <<files, rows, building, channel, buf, companion, graph>>

Blocked == {i \in Producers : sending[i] # <<>> /\ Len(channel) >= ChannelCapacity}

Send(i) ==
    /\ building
    /\ sending[i] # <<>>
    /\ i \notin Blocked
    /\ channel' = Append(channel, Head(sending[i]))
    /\ sending' = [sending EXCEPT ![i] = Tail(@)]
    /\ UNCHANGED <<files, rows, building, todo, buf, unreadable, companion, graph>>

(* par_iter is through and tx dropped: recv fails once the channel is      *)
(* empty.                                                                  *)
Disconnected == todo = {} /\ channel = <<>> /\ \A i \in Producers : sending[i] = <<>>

(* Mutant of BatchDue: the rest of the last batch is not flushed.          *)
BatchDueWhenFull == Len(buf) >= BatchSize

(* A batch is flushed when it is full, and what is left after the loop.    *)
BatchDue == Len(buf) >= BatchSize \/ (Disconnected /\ buf # <<>>)

Receive ==
    /\ building
    /\ ~BatchDue
    /\ channel # <<>>
    /\ buf' = Append(buf, Head(channel))
    /\ channel' = Tail(channel)
    /\ UNCHANGED <<files, rows, building, todo, sending, unreadable, companion, graph>>

(* Mutant of TokenizerWorkers: the producers run on the global pool.       *)
TokenizerWorkersShared == GlobalPool - Cardinality(Blocked)

(* Threads encode_batch finds: the producers have a pool of their own.     *)
TokenizerWorkers == GlobalPool

FlushBatch ==
    /\ building
    /\ BatchDue
    /\ TokenizerWorkers > 0
    /\ rows' = InsertBatch(rows, buf)
    /\ buf' = <<>>
    /\ UNCHANGED <<files, building, todo, sending, channel, unreadable, companion, graph>>

EndBuild ==
    /\ building
    /\ Disconnected
    /\ ~BatchDue
    /\ building' = FALSE
    /\ buf' = <<>> /\ unreadable' = {}
    /\ UNCHANGED <<files, rows, todo, sending, channel, companion, graph>>

(* flush_batch fails or the process is killed: what is not committed is    *)
(* gone with it.                                                           *)
Crash ==
    /\ building
    /\ building' = FALSE
    /\ todo' = {}
    /\ sending' = [i \in Producers |-> <<>>]
    /\ channel' = <<>>
    /\ buf' = <<>> /\ unreadable' = {}
    /\ UNCHANGED <<files, rows, companion, graph>>

(* load_prebuilt_index: a companion of as many points as there are         *)
(* embeddings is served as it is; else the graph is built, and saved if it *)
(* can be.                                                                 *)
LoadPrebuiltIndex ==
    LET all == AllEmbeddings(rows)
        usable == companion # NoGraph /\ Cardinality(companion) = Cardinality(all)
    IN  /\ ~building
        /\ rows # {}
        /\ graph' = IF usable THEN companion ELSE all
        /\ IF usable THEN companion' = companion ELSE companion' \in {companion, all}
        /\ UNCHANGED <<files, rows, buildVars>>

Edit(p) ==
    /\ ~building
    /\ files[p] + 1 \in Versions
    /\ files' = [files EXCEPT ![p] = @ + 1]
    /\ UNCHANGED <<rows, buildVars, companion, graph>>

Next ==
    \/ \E rebuild \in BOOLEAN : StartBuild(rebuild)
    \/ \E i \in Producers : Ingest(i) \/ Send(i)
    \/ Receive
    \/ FlushBatch
    \/ EndBuild
    \/ Crash
    \/ LoadPrebuiltIndex
    \/ \E p \in Paths : Edit(p)

Fairness ==
    /\ \A i \in Producers : WF_vars(Ingest(i)) /\ WF_vars(Send(i))
    /\ WF_vars(Receive)
    /\ WF_vars(FlushBatch)
    /\ WF_vars(EndBuild)

IndexingSpec == Init /\ [][Next]_vars /\ Fairness

-----------------------------------------------------------------------------

(* A file the builder would leave out of a resumed build has every chunk   *)
(* of the version of that mtime, whatever builds, crashes and edits there  *)
(* were (indexed_paths counts chunks for that).                            *)
SkippedIsWhole ==
    \A g \in IndexedPaths(rows) :
        {r.chunk : r \in Group(rows, g)} = 1..ChunksOf[g[2]]

(* A build that ends has indexed every file it could read, in its current  *)
(* version: no stub is lost in a producer, the channel or the last batch,  *)
(* and none was skipped for the remains of an interrupted build.  A file   *)
(* it could not read, of which it says nothing, is not taken for indexed   *)
(* by the next build.                                                      *)
BuildComplete ==
    [][EndBuild =>
        \A p \in Paths \ Skipped :
            IF p \in unreadable THEN <<p, files[p]>> \notin IndexedPaths(rows')
            ELSE RowsOf(p, files[p], files[p]) \subseteq rows']_vars

(* A build ends: the producers blocked on the full channel do not keep the *)
(* tokenizer from the batch the consumer has to embed first.               *)
BuildEnds == building ~> ~building

=============================================================================

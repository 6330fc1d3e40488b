# A TLA+ model of opencaw

opencaw gives a language model a workspace of recalled fragments: it indexes a
corpus as stubs, searches them with the user's query, the model's reasoning and
its explicit probes, loads what matters within a token budget, lets what the
model stops using decay and be evicted, and asks the model again while there is
new context.  This directory holds TLA+ modules translated from the Rust source,
the TLC configurations that check them, and TLAPS proofs about them.
`PROJECT.json` maps every definition to the lines it stands for, lists the runs,
the mutants that show each property can fail, the hazards of the code and the
findings.

## Inventory

| component | state | operations | interacts with | what is hard | what makes it correct |
|---|---|---|---|---|---|
| **Reindex queue** `caw-core/src/reindex.rs` | deque, pending set, closed flag, a condition variable | `enqueue`, `close`, `recv`, `run_worker` | stub store enqueues, workers take | threads, lost and spurious wake-ups, shutdown | no accepted path is lost, none is queued twice, close ends every worker |
| **Recall workspace** `caw-orchestrator/src/dynamic.rs` | `loaded`, `loaded_ids`, `loaded_source_counts`, `relevance_scores` | `load_fragments`, `upgrade_stub_to_body`, `process_line_references`, decay, refresh, `evict_stale_fragments`, `reset_session` | retriever reads, provenance and store record notes | four structures kept by hand, growth in place, several limits at once | the indexes agree, every limit holds, only faded fragments leave |
| **Recall turn** `dynamic.rs`, `run_turn` | locals of the turn, session turns | initial search and gate, candidate list, completion with retries, passive injection, trace / probe / line recall, convergence, session log | everything in the orchestrator; model adapter calls back during generation | order of admission, eviction and completion; errors at every call; three nested loops | what is recalled reaches the model, the best answer is kept, every turn ends |
| **Degradation monitor** `degradation.rs` | health of two services, recent probes | `record_*`, `effective_tier` | run_turn asks it before automatic recall and tells it of calls made there | recovery needs the calls that degradation switches off | no unearned recovery, a rate that holds |
| **Stub store** `caw-index/src/storage/sqlite_store.rs` | stub, embedding and note rows, stale and ignored flags | `insert_batch`, `replace_path`, `delete_path`, `get_content`, `mark_*`, `stale_paths`, `indexed_paths`, `apply_cawignore` | retriever reads it, `get_content` feeds the reindex queue, workers, builders and sessions write | files edited between stat and read, several writers, crash before the queue is drained, resume after a killed build | the rows of a path are one version, staleness is repaired in the end, what a resume skips is whole, a marked file is not found |
| **Budget scheduler, one-shot recall** `scheduler.rs`, `caw-orchestrator/src/lib.rs`, `probe_recall.rs`, `thinking_trace.rs` | workspace, scores at admission, what a turn has seen | `schedule`, three turns over it | retriever, adapter | hysteresis on a score that is not updated | the budget holds, what is loaded stays |
| **Ledger and notes** `provenance.rs`, `consolidation.rs`, `caw-bench/src/shared.rs` | entries, notes, search terms | record, note, search, consolidate | `run_turn`, evictions | none | what was seen is found again |
| **Session file** `session.rs` | an append-only file | write, parse, compress, inject | `run_turn`, the next session | what is parsed back is not what was written | every turn comes back once, no degenerate sample does |
| **Text of models** `caw-core/src/lib.rs`, `caw-transform`, `thinking_trace.rs` | none | think blocks, chat boundaries, loops, probes, references, notes, JSON in prose | adapters, `run_turn` | markers open, nested or cut | markers do not reach the user, thought does not reach the answer |
| **Intents and ranges** `caw-core/src/lib.rs` | none | classifier replies to intents, the vote, hints; `Range` | CLI, retriever, store | near-miss keys, reversed ranges | a majority decides |
| **Ingestion** `caw-ingest` | the bodies being cut, the chunks so far | chunking, outlines, summaries | build-index, CLI | sizes, items, characters and overlaps at once | the chunks tile the file |
| **Index build** `caw-bench/src/bin/build_index.rs` | producers, bounded channel, batch, rows | ingest, send, embed and insert, resume, load with the HNSW companion | stub store | backpressure against a shared pool, a kill between batches | a build that ends is complete, and it ends |
| **Retrieval** `caw-index` (`lib.rs`, `bm25.rs`, `hnsw_index.rs`, `flat_index.rs`, `graph_edges.rs`) | in-memory indexes, edges | add, search, fuse, read a range, expand | store, embedders | two scales, ties, hits that are gone | a stub better in both lists is not placed behind |
| **Curation** `caw-curation` | what a pass over the conversation has made so far | history, tool output, prompt budget | a chat pipeline | limits at boundaries, an empty text that counts as one token | a cut prompt keeps its budget, every turn is summarised or kept |
| **claude adapter** `claude_code.rs` | child process, reader thread, channel | one call | orchestrators | a watchdog racing lines, exit and result | no child outlives its call, a stall ends |
| **llama.cpp adapter** `llama_cpp.rs` | KV cache, text, window | prefill, sample, check, inject | passive injection of `run_turn` | injections against the cache limit | the cache holds what was shown |
| **HTTP adapters** `ollama.rs`, `openai.rs`, `groq.rs`, `anthropic.rs`, `replay.rs` | none | complete, stream of thinking | orchestrators | deltas cut anywhere, two encodings | no step of thinking is lost |
| **Trace sink** `tracing.rs` | counter, mutex, file | `log` | parallel bench | two writes per line | lines are whole |
| **Proxy** `caw-server/src/lib.rs` | embedder, index, store, each under a mutex | chat request, retrieve diagnostic | clients, upstream | panics poison mutexes, the clamp | every request is answered, the injection keeps its budget |
| **Evaluation** `caw-eval`, `judge.rs`, `intent.rs` | events of a session, its step | record, report, metrics | `run_turn` feeds it | two clocks | the report is that of the session |
| **Command line** `caw-cli/src/main.rs` | index, questions | ingest, ignore sweep, load, ask | store, orchestrator | several sessions on one database | a marked file is not found |
| **Embedding providers, Qdrant store, bindings, workloads of the bench** | - | calls to models and services, measurement | - | - | - |

One `run_turn` runs at a time per orchestrator (`&mut self`).  Concurrency is in
the reindex queue and its workers, which share a database file with the reader;
in the index build; in the claude adapter; in the proxy; in the bench's pools;
and between sessions on one database.  Non-determinism elsewhere comes from
outside: the retriever, the embedder, the adapter and the text of the model.

## Modules

| module | what it is |
|---|---|
| `PathDemand` | abstract specification of a reindex queue: a set of wanted paths |
| `ReindexQueue`, `ReindexQueueProofs` | `ChannelReindexQueue` and its workers, one action per critical section |
| `StubRows` | the rows of the stubs table and what the store's statements make of them |
| `Reindexing`, `ReindexingProofs` | `ReindexQueue` and `StubRows` together: `get_content`, the workers, file edits, crashes and the startup sweep |
| `Indexing` | the index build over `StubRows`: producers, channel, batches, resume, crash, and the loader of the result |
| `CliSession` | sessions of the command line over one database and `.cawignore` |
| `Workspace`, `WorkspaceProofs` | the workspace operations, in any order |
| `RecallTurn`, `RecallTurnProofs` | `run_turn` over `Workspace`, one turn after another |
| `Degradation` | the health machines, the probe limiter and the tier |
| `MonitoredTurn`, `MonitoredTurnProofs` | `RecallTurn` and `Degradation` side by side: `run_turn` with a monitor; the proofs are about the monitor, alone and in the pair |
| `RecallLoop` | the three simple orchestrators over the greedy scheduler |
| `ClaudeCall`, `LlamaGeneration` | one call of each adapter that holds state while it runs |
| `ProxyServer` | concurrent requests to the proxy under panics |
| `TraceSink` | the trace file under the bench's parallel phases |
| `Evaluation` (over `Metrics`) | the session evaluator fed by the orchestrator |
| `Classification` (over `QueryIntents`) | the command line asking its intent classifiers about one question after another |
| `Chunking` | the loops that cut a document into tiles and their bodies into chunks |
| `Curation` | one curation of a conversation: the prompt cut to its budget, the old turns summarised, tool outputs compressed |
| `Fusion` | one query: the hits of the vector index and of BM25 made into one ranking, by the library and by the proxy |
| `ThinkingStream` | the Ollama adapter reading a stream of thinking, delta by delta |
| `LibraryProofs` | theorems about `RecallLoop`, `LlamaGeneration`, `Evaluation`, `Classification`, `Chunking`, `Curation`, `Fusion` and `ThinkingStream` |
| `SessionLog` | sessions that write their turns to a file each and read the files of the earlier ones |
| `KindedText` | texts of tokens that have a kind, and `str::trim` of them, for `ThinkingStream` and `SessionLog` |
| `ServicesProofs` | theorems about `Indexing`, `CliSession`, `ClaudeCall`, `TraceSink`, `ProxyServer` and `SessionLog` |
| `NumberLemmas` | facts about numbers and finite sets of them that these proofs share |
| `ResponseText`, `AdapterReplies`, `ModelMarkers`, `QueryIntents`, `Outlines`, `ContentRanges`, `Retrieval`, `Ledger`, `Metrics` | operators: what the pure parts compute |
| `MCOperations` | each of these operators applied to enumerated inputs |
| `MCLibrary`, `MCServices` | components that do not interact, side by side in one instance each |
| `MCRecallTurn`, `MCMonitoredTurn`, `MCReindexing` | instances of the compositions |

`MCLibrary` and `MCServices` pick a component in the initial state (`part`) and
take its steps only; the others keep their initial values.  This is no
composition: it lets one run of TLC check components that share nothing.  Where
components do interact they are composed for real: the queue with the store
(`Reindexing`), the turn with the workspace (`RecallTurn`) and with the monitor
(`MonitoredTurn`), the builder with the rows (`Indexing`).

### ReindexQueue

Every access to `State` is under one mutex and `cv.wait` releases it and sleeps
in one step, so an action is a critical section: `Enqueue`, `EnqueueDropped`,
`Close`, and for each worker `RecvPath`, `RecvNone`, `RecvWait`.  `pc` says
whether a worker is about to run the body of `recv`'s loop, sleeps, runs its work
closure or has returned; a notification moves a sleeper to "checking", where it
competes for the mutex with the others, and `SpuriousWake` does so for no reason.

`PathDemand` has no deque, no wake-ups and no dedup flag: a request makes a path
wanted, a take by one worker removes it, a worker leaves only when the queue is
shut and nothing is wanted.  `DemandSpec` is the refinement, with `want` the set
of queued paths and `gone` the workers that have returned.

### StubRows and Reindexing

A row of `StubRows` is a chunk of a version of a file, with the mtime recorded
for it and its stale flag; `ReplacePath`, `DeletePath` and `MarkPathStale` are one
transaction or statement each.  Embeddings live and die with their rows and are
left out.

`Reindexing` extends the queue: its `Recv`, `WorkDone`, `Enqueue` and `Close` are
the steps in which workers and the reader meet.  `get_content` is four of them,
since the file can change and workers can commit between any two: `GetRow` selects
a row (a stale one goes straight to the enqueue), `StatFile` compares mtimes or
fails, `MarkStale` sets the flags, its error ignored, `SignalStale` enqueues;
`ReadBytes` ends a call that served.  A worker's closure reads the file, stats it
(the order of `SourceDocument::from_path`), and replaces or deletes the rows, or
fails at any point.  `Restart` keeps rows and files and loses everything else;
`SweepOne` is the startup sweep over `stale_paths`.

The closure and the sweep belong to the application: nothing in the repository
outside tests calls `run_worker`, `replace_path`, `delete_path` or `stale_paths`.
They are modelled as the comments of `reindex.rs` and `sqlite_store.rs` tell the
application to write them.  Crashes are of the process: a commit that returned is
kept.  Edits are at least a second apart and every row has an mtime.

### Workspace

State: `loaded` as a set (its order only breaks ties), `loaded_ids`,
`source_counts`, `relevance`.  A fragment is its id, its form (stub or body) and
its token count; scores are integers.  The operations follow the methods hit by
hit: `Rehit` and `Admit` for `load_fragments`, `UpgradeTo` / `LeaveStub` for
`upgrade_stub_to_body`, `LineUpgrade` / `LineAdmit`, `DecayAndRefresh`,
`EvictStale`, `DecayAndEvict`, `ResetSession`.  `EvictionSets` gives the sets the
sorted walk of `evict_stale_fragments` can take, ties in any order.
`cap_exempt_sources` is left out: nothing in the source adds to it.

### RecallTurn

`pc` follows `run_turn`; a call of `load_fragments` is a loop with one action per
hit, `call.after` being where it returns to.  `unseen` and `lines` are history
variables: what has been admitted since the last request, and which of it came
by line reference.  An adapter's answer is a quality, or degenerate (its error or
fake recall markers), or a hard error; a hard error anywhere ends the turn
without a log entry (`Abort`).  `turn.clean` is a history variable too, the
qualities of the clean responses since phase 2 began, by which `turn.last`,
`turn.best` and the logged `result` name a response: `last` is the most recent of
them, `best` what `answer_quality_score` says, and `Finish` logs one or the
other.  Answers of the degradation monitor are free:
automatic recall may be off, and a probe loop may be cut short.

### Degradation and MonitoredTurn

`health` holds a `ComponentHealth` per service, a latency being slow or not.
`recent` is `recent_probes` as ages rather than timestamps: a second ages them
all (`Tick`) up to just past the window, so the clock needs no bound.  Only
`RecordProbe` drops old ones, as `expire_old` is called nowhere else.  `steady`
is a history variable: the successes in a row since a status last changed.

`MonitoredTurn` takes away the freedom `RecallTurn` leaves: an iteration recalls
if and only if `ShouldAutoRecall`, a probe is recorded before it is searched for
and dropped if that turns recall off, and a step of the trace records its
embedding call, a failed one ending the turn.  Nothing in `run_turn` reports on
the summary service; `HostReports` lets its owner do so between turns.

### RecallLoop

`stage` is the place in a turn of `RecallOrchestrator` (`reasoning`, or `plain`
for a model without thinking), `ProbeRecallOrchestrator` (`probes`) or
`ThinkingTraceOrchestrator` (`query`).  A search gives any sequence of distinct
candidates; `GreedyBudgetScheduler::schedule` is a loop, one action per loaded
fragment (`KeepNext`) and one per candidate (`AdmitNext`), and `Decide` takes the
decision over.  `sums` is a history variable for the proofs, the running totals
of the schedule.

### Indexing and CliSession

`Indexing` has the builder's threads as they share the channel: `Ingest` takes a
path, `Send` blocks while the channel is full, `Receive` fills the batch,
`FlushBatch` is one transaction and needs a thread of the tokenizer's pool.
`Crash` keeps what is committed.  `IndexedPaths` is the SQL of `indexed_paths`,
whose HAVING compares the count of a group with its recorded `chunk_total`.
`InsertBatch` is INSERT OR REPLACE by id, so rows of an earlier chunking stay.
`LoadPrebuiltIndex` serves the saved graph if its length matches.

A file `from_path` fails to read is dropped by its producer without a word, and
the build ends as if nothing were missing; `unreadable` is a history variable
with the paths this happened to, which the next build takes up again.

In `CliSession` each statement on the database is a step, so two sessions meet
between any two of them: between the UPDATE that clears every flag and those that
set them again, and between the batches of one session and the walk of another.
A batch that fails ends the session with what it has not inserted; so does a
user, with the index.  `missed` is a history variable, the files the session's
walk could not read, and so is `matched`, the files .cawignore has matched at
some time.

### The adapters

`AdapterReplies` says what each adapter makes of a reply: the answer, the
thinking, or the error the orchestrator retries on.  `ResponseText` has the text
functions of `caw-core` they share: a text is a sequence of tokens in which the
markers are tokens of their own.

`ClaudeCall` is one `complete` of the claude adapter: the caller, its reader
thread, the pipes with a capacity, and the child, which may hang or exit
anywhere.  `Watchdog` may fire whenever no line is waiting, as a timeout can.
The write of the prompt may fail at any piece, with the child running or not; the
call then returns by `?` and nobody owns the child any more.
`LlamaGeneration` counts the cells of the KV cache beside the text shown and the
loop's own count; `Inject` is the callback with any size.  An injection that
would overflow is refused before it is shown; one that is shown may fail to
decode at any of its tokens, which the loop passes over.  `missing` is a history
variable, the injected tokens in the text that are not in the cache.

`ThinkingStream` is `thinking_with_steps` of the Ollama adapter from its request
to its steps.  `streaming` is the place in its loops: a delta is waited for
(`wait`), the paragraphs it completes are handed over (`flush`, and `flush again`
behind the test for the closing tag, `cut`), and the iteration ends (`end`) or the
stream is `over`.  A delta is one of three kinds: thinking in a field of its own
(`ThinkingDelta`), thinking between tags in the content (`InlineDelta`), or
content (`ContentDelta`).  What has been sent is in `heard`, of which the first
`thought` tokens are thinking; tokens are numbered there, so that a token of a
step can be told from an equal one elsewhere.  The steps then go to the callback
as `Replayed` in `AdapterReplies` says.

### ProxyServer and TraceSink

A request of `ProxyServer` passes the mutexes of embedder, index and store; each
section under one may fail or panic, which poisons it for every later request.
The scan keeps the store for its whole length (`holder`), the others are one step.
A ranked candidate gets a verdict (`Disposition`) from the verdicts before it.
In `TraceSink` `log` is three steps: the number, the text, the newline; the mutex
is that of the sink, and `SinkPerAdapter` says whether the adapters of a run open
a sink each, as the bench does, or share one.

### Evaluation

`trail` is the list of recall and eviction events with the steps the code gives
them: a recall the evaluator's own, an eviction the orchestrator's turn.
`session_turn` counts the turns written to the session file, so it moves only
with one.  `WithSession` is the step of the builder that opens one, which a build
without the feature never takes.  `FailTurn` leaves both where they are.

### Classification

`run_interactive` asks its intent adapters one after the other; each answers with
an emission (`ClassifierAnswers`) or fails, which includes a reply without JSON
and one with a field that is not Boolean (`ClassifierFails`).  `MergeVotes` takes
the vote, tests it for being actionable, and hands guidance and signals to the
turn.  An emission is a function from keys to values, a key has a verb, a core
and a suffix, so that near-miss keys are folded as the code folds them.

### Chunking

`bodies` is the stack of bodies being cut into lines, each inside the one below
it: a piece with more tokens than `MAX_SAFE_BODY_TOKENS` is pushed and cut with
halved sizes, as `split_oversized` calls itself.  `ExamineItem` is an iteration of
the loop over the item spans and `CloseBoundaries` its end, `AddToHeader` and
`CloseTile` are the loop over the tiles; `KeepChunk`, `SplitOversized`,
`LeaveOversized` and `CloseBody` are those of `chunk_by_lines` and
`split_oversized`, and `NumberChunks` ends the document.  Offsets are bytes from 0, and bytes are of four kinds, so that
a cut can fall inside a character.

### Curation

`curating` is the loop that runs.  `KeepSentence` and `CutPrompt` are
`truncate_system_prompt`; `PartitionTurns` splits the turns;
`SummarizeByModel`, or `ExtractSentence`, `NextTurn` and `EndExtract`, make the
summary; `PassTurn` and `CompressOutput` go over the retained turns.  A prompt is
a text of letters, spaces, line breaks and full stops, a turn has a role, a token
count and sentences that carry a signal or none.  Tokens are those of
`WhitespaceTokenizer`, for which an empty text is one token.

### Fusion

A query is answered by the library (`LibrarySearch`), by the proxy, or by a proxy
without BM25 (`CosineSearch`, no fusion).  `ResolveHit` is an iteration of
`SemanticRetriever::search`, which drops hits whose stub is gone, `CreditSemantic`
and `CreditLexical` those of the two loops that add to `combined`; `RankStubs` sorts
and cuts, with any order at ties in the proxy, where the HashMap gives it.  The
quotients of the normalisation are brought to one denominator.

### SessionLog

`sessionDir` holds the file of each session, the last being the current one.
`LogTurn` is `write_text` at the end of a turn, degenerate or not.  It may leave
any part of the text (`Remains`), the last token torn, because `write_all` fails
or the process dies; after a failed write the session goes on and appends to what
is there.  `StartSession` to `EndLoad` is `with_session`: the earlier files are
opened in any order or skipped (`OpenFile`), and each is read section by section
(`ReadSection`), where the embedding of a turn may fail.  `priorStubs` is what
is kept of the turns.  The code makes the list of turns first and embeds it then;
nothing changes the files in between, so both loops are one here.

A file is a sequence of tokens: the heading of a turn with its numeral, the
markers in brackets, the rule, line breaks, words, and sentence ends.  The
tokens of a degenerate turn's sample are marked (`sample`), which the code never
looks at, unless the sample or the question has the heading of a turn in it at
the start of a line: what follows that is read back as a turn (see Findings).

### Operators

`MCOperations` picks an operation and an input and records the results in `case`.
Two properties are about these results, `ThoughtStaysOutOfAnswer` and
`MarkersGone`; the other operators (outlines, retrieval, appraisals, locators,
the ledger, the ratios) are evaluated on their inputs, which shows that they are
defined there, and nothing is claimed of what they return.
`ModelMarkers` extracts probes, notes and references and strips them;
`Outlines` finds the items and the outline of
a file; `ContentRanges` parses and applies locators;
`Retrieval` searches and expands; `Ledger` remembers; `Metrics` scores.
Numbers that are floating point in the code are integers of one scale, ratios
are pairs.

## Runs

| run | instance | checks |
|---|---|---|
| `turn` | 2 files, one with 2 chunks, 1 history turn, passive injection, 2 iterations, 1 retry, 2 qualities, fair | `TurnTypeOK`, `RecalledReachesModel`, `BroadQueryLoadsNothing`, `WorkspaceSpec` (the turn uses the workspace through its operations only), `BestAnswerKept`, `EveryTurnEnds` |
| `monitored` | 1 file, 1 history turn, at most 2 probes in a window of 1 s | `ProbesWithinRate` |
| `reindexing` | 1 file of 2 versions (2 chunks, then 1), 1 reader, 2 workers, 1 restart, fair | `RowsAreOneVersion`, `StaleIsScheduled`, `StaleIsRepaired` |
| `library`, queue | 3 paths, 3 workers, fair | `NoIdleWorkerBesideWork`, `ReturnedMeansDrained`, `PendingIsTaken`, `CloseEndsWorkers`, `DemandSpec` (the refinement) |
| `library`, workspace | 2 files, one with 2 chunks, 2 history turns | `IndexesAgree`, `LimitsHold`, `OnlyFadedLeave` |
| `library`, monitor | 9 calls of one service, 1 of the other, window of 2 s | `RecoveryIsEarned` |
| `library`, one-shot loop | 3 stubs of sizes 1, 2, 2 under a budget of 4 | `NothingLeaves` |
| `library`, llama.cpp | 6 cells, 4 new tokens, a check every 2 | `CacheHoldsOutput` |
| `library`, evaluation | 2 fragments, 4 events, 3 turns, with a session file and without | `ReportIsSound` |
| `library`, classification | 3 classifiers, 3 fields, 1 hint | `MajorityOfVoices` |
| `library`, chunking | documents of up to 5 characters, 12 configurations | `ChunksTile` |
| `library`, curation | prompts of up to 4 characters, conversations of up to 3 turns | `PromptFits`, `TurnsAreAccountedFor` |
| `library`, fusion | 3 stubs, one perhaps gone, by each index unscored, low or high, 2 results | `FusionKeepsDominance` |
| `library`, stream | thoughts of up to 5 tokens in deltas cut anywhere, an answer of 1 | `StreamKeepsThinking` |
| `library`, session files | 2 sessions, 2 turns between them, every write cut anywhere | `DegenerateStaysOut` |
| `library`, operations | enumerated inputs | `ThoughtStaysOutOfAnswer`, `MarkersGone` |
| `services`, claude | a prompt of 2 pieces, pipes of 1, 3 lines, fair | `NoChildOutlivesCall`, `StallIsEnded` |
| `services`, proxy | 2 requests, 2 bodies, 2 rankings of 3, fair | `InjectionIsClamped`, `EveryRequestAnswered` |
| `services`, build | 3 paths (1 skipped), 2 producers, channel 1, batch 2, 2 versions, fair | `SkippedIsWhole`, `BuildComplete`, `BuildEnds` |
| `services`, sessions | 2 sessions, 2 documents, any patterns, edited at any time | `EveryFileIsFound` |
| `services`, trace | 2 items, 2 threads in each phase, one sink | `LinesAreWhole` |
| `turn_lines`, `turn_degenerate`, `monitored_back`, `reindexing_mtime`, `stream_inline`, `session_turns`, `trace_lines` | as the above, sizes chosen for the case | one statement of a comment, a doc or the prompt each, which the code does not keep: see Findings |

`CHECK_DEADLOCK FALSE` stands where the modelled part may stop for good: a queue
that is closed and drained, a call that has returned, an operation that has given
its result.

Bounds.  Queue: three workers give a woken one, a sleeping one and one that
overtakes; three paths give dedup beside other work; nothing else is bounded.
Reindexing: paths do not interact except through the queue, which `library`
covers, so one is enough; two workers can hold it at once, with different
versions and chunk ids; one restart can fall anywhere.
Workspace: sizes 1 and 3 under a budget of 5 (6 in `turn`) make stubs fit where bodies do not,
an upgrade the last to fit, and eviction free room; a cap of one chunk per file (two in `turn`),
a history share below one body and a cap of three fragments are all reached;
scores 6 and 10 lie on both sides of the load threshold 7, and one decay by 4/5
brings 10 to 8 and two to 6, above the unload threshold 5, so hysteresis shows.
The decay rounds down, so scores fall to 0 and the space is finite without a cap
on steps.  Turn: `MaxItems` bounds the steps, probes and references found in one
text; one is enough to follow an admission with an eviction, and one or two
iterations to follow one completion with another.  Degradation: thresholds of 1/3, two
successes to recover and two calls for a rate are the smallest where a status goes
down twice and comes back twice within `MaxCalls`, 9 calls.  `MaxRecent` is one
more than the limiter allows in `monitored`, so tripping it is inside the bound; `answered` ages
like `recent`.  `monitored_back` records no calls at all (`MaxCalls` 0, no session
history), so only the limiter is at work.
One-shot loop: the whole corpus takes 5 of a budget of 4, so a stub is always
refused, and a small one may come before or after a large one; candidates of
score 4 are below both thresholds, those of 8 above.  llama.cpp: prompts of 0
(refused), 1, 2 and 7 tokens (more than the cache holds), injections of 0, 1 and 2, so the
cache is filled by each of prompt, sampling and injection.  Evaluation: four
events hold a load, an eviction, a reload and an eviction of one fragment; three
turns put them in the same step or in different ones.  Classification:
three classifiers of which any may fail give no vote, one, two (where a majority
is both) and three; an emission has one key with any value, or one field in both
of its spellings, and the vote's confidence is above the minimum or below.
Chunking: five characters, the long one of two bytes, give a body that is cut
twice, an overlap that reaches back over a line break and one that starts inside
a character; a safe size of 2 tokens makes a piece split, and the item spans of
one outline put a tile's edge anywhere they may.  `LeastConfig` has a cap of 3,
the smallest that still differs from one character.  Curation: budgets 0, 1 and 2
lie below, at and above what one or two words need, and four characters give two
sentences, or one without a word; three turns with one retained give an old turn,
a turn at the split and a retained one of each role, above the threshold of one
token or at it.  Fusion: the answers of both indexes are those `Retrieval`
computes, the graph of HNSW in every part; three stubs give one above, one below
and one left out of each, equal scores, negative ones, and a stub cut off.  Stream:
five tokens give two paragraphs with a gap of two or three line breaks between
them, cut in each place, into any number of deltas.  Session files: two turns put
anything a write leaves of one before the other in a file, and two sessions let
one read what the other left; the question quotes the marker of an answer and the
sentinel, an answer and a sample have a heading in them, and another sample a
field of its own.  Claude: a prompt larger
than the pipe makes the write block, three lines are a tick, a result and one
more.  Proxy: one ranking meets the clamp with a smaller candidate behind it, the
other the cap of chunks per source; two requests are one that poisons and one
that finds the poison.  Build: a channel of one makes producers block; a file of
3 chunks under batches of 2 is cut in two by a crash; its next version has 1
chunk, so rows of the old chunking stay behind.  Sessions: the second one sweeps, ingests
or searches between any two statements of the first; two documents make a batch
leave one behind.  No document is too thin in the run (one that is would only
never be stored); the theorem has them.

Fairness.  Queue: a thread that can run is scheduled and gets the mutex,
and the work closure returns; nothing forces a request or a close, and spurious
wake-ups are not assumed.  `reindexing`: the same, and a call of `get_content`
and the startup sweep proceed; the closure may fail each time, in which case the
property asks nothing until the path is signalled again.  `turn`: `run_turn` is sequential code, so its
next step is taken; this assumes that the retriever, the embedder and the adapter
return from every call.  No fairness on starting a turn.
`monitored_back`: in addition the user goes on asking and time goes on, the
most favourable case for recall to come back.  `services`: the caller, its clock
and the reader thread of a claude call run, and nothing is assumed of the child;
a handler of the proxy goes on when it can (`Proceed`), which includes getting
the mutex of the store when it is free, and nobody is made to send a request; the threads of a build run, and nothing keeps it from
crashing.

## What is proved

TLAPS proves these for every value of the constants allowed by the assumptions
of the modules (finite corpus and worker sets, natural thresholds with unload at
most load, as in both presets of `RecallThresholds`; positive batch size and
pool; natural limits and sizes; nothing about scores, or about which texts,
emissions and rankings there are).  Each assumption is an `ASSUME` that TLC
evaluates in the runs.

The queue, and the rows it keeps fresh.

- `TypeCorrect`, `QueueSafety`, `QueueImplementsDemand`.  The invariants of the
  queue are inductive together: `NoIdleWorkerBesideWork` needs
  `NobodySleepsOnceClosed` and the fact that workers hold a path exactly while
  working, since a pop by a checking worker removes one path and one checking
  worker at a time.  The refinement uses the same invariant: dropping a queued
  path is a stutter of `PathDemand`, a pop is a `Take` because no path is queued
  twice.
- `NoPathLeftBehind`.  A worker returns only from a closed and empty queue, and
  a closed one accepts no path; so once one has returned nothing is left to take.
- `ReindexingTypeCorrect`, `StaleNeverForgotten`.  `ReindexInv` is the invariant of
  the queue with the types and `StaleIsScheduled`.  It rests on the queue in two
  places: an enqueue that is dropped on an open queue finds the path pending, so
  in the deque (`PendingMirrorsDeque`), and a worker takes a path only when it
  holds none (`HoldsPathWhileWorking`), so no other path is let go of.
- `QueueServesStore`.  Around its queue the store adds only steps that the queue
  can take by itself (`StoreStepsQueue`), so `QueueInv` holds here too and a step is
  one of `PathDemand`; a restart begins `PathDemand` anew.
- `PathsStayWhole`.  The rows of a path are those of one version of the file,
  although two workers may reingest it at once and a reader marks rows between
  them.  `RowsWhole` says that they are the chunks of one version, all of them
  and alike but for their number: a replacement takes every row of the path away
  first, in one transaction, and a mark is on every row of the path.

The workspace and the turn over it.

- `WsInvariant`.  The inductive invariant `WsInv` is type correctness, the
  agreement of the indexes and the limits.  It has to be one invariant: the
  per-source cap is checked on the counts, so `CapsHold` rests on `IndexesAgree`;
  subtracting from a count on eviction is right only because it never saturates;
  the budget of an in-place upgrade rests on there being one fragment per id.
  Token totals are cardinalities of sets of cells, so that the prover can add
  them with the theorems on finite sets.  From it: `WsTypeCorrect`,
  `WsIndexesAgree`, `WsLimitsHold`, and `WsOnlyFadedLeave`, which uses
  `WithinBudget` to show that the over-budget branch of eviction is dead.
- `TurnInvariant`.  `TurnInv` adds to `TurnTypeOK` that an unseen fragment is
  loaded and, from admission to the next completion, has a score at or above the
  unload threshold (in the phases where decay has already happened).  Hence
  `AdmittedReachesModel`: the one eviction between an admission and the next
  request cannot take it.  `TurnImplementsWorkspace` maps each step of `run_turn`
  to an operation of `Workspace` or a stutter, so the theorems of `Workspace`
  hold during turns.
- `BestAnswerIsKept`.  What a turn logs and returns: `best` is the best of the
  clean responses so far and the latest of equals, `last` is the most recent, and
  a turn is degenerate from the first refinement that is.  A step leaves the list
  alone, starts it again with the turn, or adds an answer to it, and a degenerate
  refinement is none.
- `BroadQueriesWait`.  `GateInv` follows the first load of a turn: nothing of the
  corpus is admitted before the initial hits, each hit is admitted at most once,
  so what is admitted and what is still to be loaded are together within the
  limit, and there is no such load when the gate has listed the hits.

The monitor, and the turn under it.

- `MonTypeCorrect`, `RecoveryEarned`.  Recovery is earned because of
  `StreakIsSteady`: what `consecutive_successes` holds never exceeds the row of
  successes since the last change of status.  It is inductive only because every
  change resets the streak, or, from degraded to down, finds it at zero.
- `ProbesKeepToTheRate`.  In no window are `MaxProbes` probes searched for.
  `RateInv` holds the probes searched for against those recorded, each from the
  youngest: the one recorded in its place is not older (`Matches`).  So what the
  limiter has left, after it forgets the old ones, is never less than what was
  searched for, although only a new probe makes it forget.
- `MonitoredImplementsBoth`, `MonitoredKeepsPromises`.  Each step of
  `MonitoredTurn` is a step of `RecallTurn` or leaves it alone, and the same for
  `Degradation`: the pair implements both.  So `RecalledReachesModel`,
  `TurnTypeOK` and `RecoveryIsEarned`, proved of the parts, hold of the pair.

The library (`LibraryProofs`).

- `LoopInvariant`, `LoadedStays`.  Two facts make the scheduler's hysteresis dead
  code under the one-shot orchestrators.  No score it keeps is below the load
  threshold, which is where candidates are cut.  And what is loaded fits the
  budget prefix by prefix: `LoadedFits` has the running totals of the last
  schedule as its witness, and while fragments are kept `used` is one of them,
  so each of them is kept again.
- `CacheIsWhatWasShown`.  The KV cache holds the prompt and the text shown, short
  of the injected tokens whose decode failed.  The loop adds an injection to its
  count only if all of it was decoded, so the count is never above the cells in
  use, and is their number until a decode has failed (`LlamaInv`).
- `ReportsAreSound`.  With a session file the evaluator's step and the
  orchestrator's turn are one clock, so steps never decrease along the trail
  (`StepsGrow`); a later step is then a later event, and what counts as a reload
  after an eviction is one.  Without a session file every eviction is at step 0
  (`EvictionsAtStart`): `StartsAreCompared` says what the report then makes of the
  trail, which is not what happened in the session (see Findings).
- `VotesDecide`.  What a turn is guided and augmented by is the intent of a
  strict majority of the classifiers that answered.  It rests on what one
  emission says (`ReadEmission`: a field is set if and only if some spelling of
  its key is true, and an extra key that is true was emitted as true) and on the
  threshold, half of the votes rounded down plus one, being more than half
  (`ThresholdIsMost`), with the vote of one, which is taken as it is, and of none
  as cases of their own.
- `DocumentsAreTiled`.  The tiles of a document meet, the first starts at 0 and
  the last ends where the document does, and the chunks of a tile, without their
  overlap, are the tile.  The boundaries increase and are where characters start;
  the chunks so far end where the innermost body is cut next; and a cut is again
  at the start of a character and beyond the last one.  The last holds because a
  cap takes a character whole, which is assumed of the sizes (`cap` at least the
  longest character): the callers pass the default ones, of more than a thousand
  bytes, and `split_oversized` halves them to its floors.  Assumed of documents:
  they are UTF-8 (`WellFormed`), as `&str` is, and items start at a character, as
  the nodes of a parse do.
- `PromptsFit`.  A prompt that may be cut is kept within its budget or is left
  empty, and it is cut only when it is too long, behind a sentence.  The loop adds
  the tokens of sentences while the promise is about the text they make
  together: the words of a text cut in two are no more than those of its parts,
  and a sentence that is blank counts one that the whole need not.
- `NoTurnIsLost`.  Every turn is among the old or among the retained, in their
  order; an extract has the telling sentences of every old turn; and the tool
  outputs that are kept aside are exactly the long ones of the retained turns.
  `CurationInv` says this of the turns and sentences each loop has passed.  An
  `inline_required` tool output among the old turns is summarised like any other;
  the flag saves a retained one from compression only (see Findings).
- `FusionIsFair`.  `combined` is the sum of what each list is worth to a stub
  (`Gain`), which is never negative and grows with the score: the lowest score of
  a list is at most each of them, and its spread and the weights are positive.  So
  a stub that one list puts above another, and the other list not below it, has
  more, and the sort puts it first; the order of a set of ids has each of them
  once, so the cut takes a prefix.  Assumed: an index gives a stub once (ids are
  keys of the store the indexes are built from), the best first.
- `ThinkingIsKept`.  The steps handed over are the paragraphs of the thinking, in
  whatever deltas it comes.  A delta may end between the two line breaks of a gap,
  and the buffer is searched anew with each, so what is needed is that the place
  of the cut leaves no trace (`Collecting`): the buffer is what came behind a gap,
  or all that came, and the steps are the paragraphs of what came before that gap.
  It is about thinking in a field of its own; of an inline block the statement is
  false (see Findings).

The services (`ServicesProofs`).

- `IndexingTypeCorrect`, `SkipsOnlyTheWhole`.  The store may hold rows of several
  chunkings of a file, and parts of them; still, rows of one path and one mtime
  that are as many as their `chunk_total` are every chunk of that version: ids
  are distinct within a group and bounded by its size (`CountedIsWhole`).
- `BuildsAreComplete`.  A build that ends has the rows of every path it did not
  skip and could read.  `BuildInv`: every stub of a path that has been taken and
  read is among the rows or in flight, which is with a producer, in the channel or
  in the batch, and a build that has ended has none in flight.  Of a path that has
  not been taken or could not be read nothing is in flight, so no batch touches
  its rows (`OthersUntouched`), and it counts as indexed no more than it did.
- `CliInvariant`, `SessionsFindEveryFile`.  A file the user did not ignore gets
  into the index of every session.  `OwedIsKept` follows it there: it is in the
  table already, whichever session put it there, or among those this session has
  yet to insert; `OnlyMatchedFlagged` says that no sweep flags it, also one that
  works from rows and patterns read before they changed.
- `ChildrenEndWithTheirCall`.  A claude call returns only from places where its
  child has exited or has been killed (`ChildIsOver`), whatever the child does,
  save where the write of the prompt fails; after a result and after a stream that
  ended early the child has been waited for.
- `SharedSinkWritesLines`, for adapters that share a sink.  `TraceInv` says where
  in its line each thread is: the file ends in the middle of a line exactly when
  one thread holds the sink's mutex between its two writes.
- `InjectionsAreClamped`.  What is injected into a request keeps to the token
  clamp, unless it is one body larger than the clamp, and to the limit per
  source, and nothing ranked behind the first body that did not fit is in it.
  `ProxyInv` says this of the verdicts so far (`WithinLimits`); tokens are cells
  here as well, so that one more row adds its own.

- `SamplesStayOut`.  No token of a degenerate sample is in what a later session
  keeps, wherever the writes were cut.  `Guarded` says what comes before a marked
  token in any file: the user marker of its turn, behind it an empty line, the
  marker of the answer and the sentinel, and no section starts between the user
  marker and the token.  This survives a cut, as a torn token is no marker, and an
  append, as no section then starts inside a guard.  So the section that has
  the token has its whole guard.  The user field begins no later than the guard's
  user marker and ends at the empty line or before it; so does an answer field
  that begins before that line.  One that does not begins at the guard's own
  marker, so with the sentinel, and is dropped.

Induction.  An induction over the natural numbers is carried out by
well-foundedness: `LeastNumber` in `NumberLemmas` finds the least of a set of
numbers, `GreatestNumber` and `MaxOfBounded` follow from it.

Only model-checked, because these provers have no rule for liveness under
fairness or for ENABLED: `PendingIsTaken`, `CloseEndsWorkers`, `EveryTurnEnds`,
`StaleIsRepaired`, `StallIsEnded`, `EveryRequestAnswered`, `BuildEnds`.  Only
model-checked, because the operators they are about are recursive or fold over
data, which would take an induction over data: `ThoughtStaysOutOfAnswer`,
`MarkersGone`.  Every other property of a passing run is
the statement of a theorem.

## Findings

| run | the source says | the code does |
|---|---|---|
| `turn_lines` | the prompt: a line range asked for is loaded into the workspace | it is admitted without a score and evicted before the next completion |
| `turn_degenerate` | output that comes out degenerate is logged with the best response there is | the last clean response is logged, a better one of an earlier iteration is not |
| `reindexing_mtime` | staleness shows as an mtime mismatch | `from_path` reads before it stats, so old content can carry the new mtime for good |
| `monitored_back` | degradation can recover | the limiter forgets old probes only when a probe is recorded, and none are while it holds recall off |
| `stream_inline` | Ollama's inline think block is collected until its closing tag | the stream is given up at the block's first content delta |
| `session_turns` | a session file is parsed into its turns | the first turn of every file is dropped |
| `trace_lines` | the trace has one JSON object per line | adapters of parallel items open a sink each, and their lines run into each other |

Seen while modelling, without a run of their own:

- `dynamic.rs:764`: convergence compares token totals, so an eviction in the same
  iteration hides an admission.
- `degradation.rs:128`: the error rate spans the life of a service, so its first
  success after a recovery can degrade it again.
- `dynamic.rs:1368`: without a session file, which is the default build
  (`with_session` is a no-op there, 334-337), every eviction is recorded at step
  0, and a first load after it counts as a reload.  `ReportIsSound` says for both
  cases what the report comes to; with a file a reload in the turn of the eviction
  still shortens the duration reported for the load before.
- `sqlite_store.rs:574`: `apply_cawignore` says that ignored stubs are "excluded
  from all subsequent searches" (538-539).  They are found between clear and mark,
  after an error half-way, after the sweep of a session that read other patterns,
  and once INSERT OR REPLACE has put the file in again.  `EveryFileIsFound` is
  about the other direction, the files nobody ignores.
- `build_index.rs:358` and `caw-ingest/src/lib.rs:312`: a file that cannot be read,
  or is not UTF-8, is left out without a message, and the build or the session
  goes on as if it were indexed.  `BuildComplete` and `EveryFileIsFound` say so.
- `caw-bench/src/main.rs:804`: the HNSW companion is reused when its length
  matches, also when an edit changed the vectors; the comment there leaves this
  to `--rebuild`.
- `claude_code.rs:279`: writing the prompt and joining the child after its result
  are not under the watchdog, so `StallIsEnded` is about the loop between them.
  A write that fails, as it does when the child has closed its stdin and runs on,
  returns by `?`: the child is neither killed nor waited for.  A stalled child, and
  one whose result does not parse (333, 347), are killed and not waited for.
- `llama_cpp.rs:563`: an injection is shown before it is decoded; if decoding fails
  ("continuing without inject"), the caller has text that the model has not seen.
  The comment there gives the reader's view only, so no statement is refuted;
  `CacheHoldsOutput` counts these tokens.
- `ollama.rs:520`: each HTTP chunk is decoded by itself with `from_utf8_lossy`, so a
  character cut by the transport is garbled; deltas are whole tokens in
  `ThinkingStream`.
- `history.rs:206`: `partition_turns` gives every turn before the split to the
  summariser and never reads `inline_required`, although the comment on
  that field (`history.rs:15`) says that such outputs "bypass
  compression and summarization".  Only the compression of the retained turns
  reads it.
- `caw-server/src/lib.rs:829`: `fuse_hybrid` sorts by score alone, so equal scores
  come in the order of a HashMap and the cut may differ from run to run; its
  comment (`lib.rs:795`) says "identical normalization, weighting, and tie-break"
  to the library, which goes by id.
- `session.rs:179`: a sample with "\n## Turn 1" and a "[User]: " in it comes back as
  a turn of the user's; `DegenerateStaysOut` is about the other samples.  A turn
  cut between its fields pairs its question with the answer of the next turn
  when the next heading follows no line break.  An empty sample leaves the sentinel
  without its trailing space (`session.rs:217` trims), which is then an answer.
- `session.rs:227`: `compress_assistant` slices at a byte that may fall inside a
  character; `caw-core/src/lib.rs:321`: a range whose end is before its start slices
  backwards.

## Not modelled

Embedding arithmetic (hits are any set with any scores), the grammars of
tree-sitter, wording and layout of prompts and reports, HTTP and file I/O,
argument handling of the binaries, the workloads of the benchmarks, the Qdrant
client, the embedding providers, the generated bindings.  Of the store: the notes
table, lookup by content hash, the migration of its schema.  `PROJECT.json` says
it per component.

## Plan

Next theorems: `ThoughtStaysOutOfAnswer`, once the reading of a reply is a machine
as that of a stream is.  Next models:
the notes of the store under eviction and reingestion, the workload runner of the
bench, the graph ingester.

------------------------------ MODULE CliSession ------------------------------
(***************************************************************************)
(* Sessions of the command line (caw-cli/src/main.rs) on one index: what a *)
(* session does before its first question, and what its searches find.     *)
(* Several sessions may share the database of a corpus; every statement on *)
(* it is a step.  The files themselves do not change (Indexing has that);  *)
(* the patterns of .cawignore do.                                          *)
(***************************************************************************)
EXTENDS FiniteSets

CONSTANTS
    Sessions,
    Documents,      \* the files of the corpus, of one stub each
    Thin            \* those below MIN_INDEX_TOKENS or MIN_SUMMARY_CHARS

ASSUME CliAssumption == Thin \subseteq Documents

VARIABLES
    patterns,   \* paths .cawignore matches
    stored,     \* paths with a row
    flagged,    \* stored paths with ignored = 1
    doing,      \* session -> off, ingest, sweep, mark, load, ready
    ingested,   \* session -> paths it has ingested and not inserted
    sweep,      \* session -> paths its apply_cawignore has yet to mark
    index,      \* session -> paths of its vector and BM25 index
    missed,     \* history: session -> paths its last ingest could not read
    matched     \* history: paths .cawignore has matched at some time

sessionVars == <<doing, ingested, sweep, index, missed>>
cliVars == <<patterns, stored, flagged, sessionVars, matched>>

CliInit ==
    /\ patterns \in SUBSET Documents /\ matched = patterns
    /\ stored = {} /\ flagged = {}
    /\ doing = [s \in Sessions |-> "off"]
    /\ ingested = [s \in Sessions |-> {}] /\ sweep = [s \in Sessions |-> {}]
    /\ index = [s \in Sessions |-> {}] /\ missed = [s \in Sessions |-> {}]

Goto(s, label) == doing' = [doing EXCEPT ![s] = label]

\* The process is gone, and what it had in memory.
Exit(s) ==
    /\ Goto(s, "off")
    /\ ingested' = [ingested EXCEPT ![s] = {}]
    /\ index' = [index EXCEPT ![s] = {}] /\ missed' = [missed EXCEPT ![s] = {}]

-----------------------------------------------------------------------------
\* Mutant of Unindexed: an index that is there is taken for a whole one.
UnindexedIfNone(known) == IF known = {} THEN Documents \ patterns ELSE {}

\* What the walk comes to: .cawignore leaves it and the index is not known to have it.
Unindexed(known) == Documents \ (patterns \cup known)

(* indexed_paths may fail, which counts as an empty index.  What cannot be *)
(* read is left out, and nothing is said of it.                            *)
Start(s) ==
    /\ doing[s] = "off"
    /\ Goto(s, "ingest")
    /\ \E known \in {stored, {}} : \E failing \in SUBSET Unindexed(known) :
        /\ missed' = [missed EXCEPT ![s] = failing]
        /\ ingested' = [ingested EXCEPT ![s] = Unindexed(known) \ failing]
    /\ UNCHANGED <<patterns, stored, flagged, sweep, index, matched>>

(* A batch of the stubs that are not too thin; a failure ends the session. *)
EmbedAndInsertBatch(s) ==
    /\ doing[s] = "ingest" /\ ingested[s] # {}
    /\ \/ \E batch \in SUBSET ingested[s] :
            /\ batch # {}
            /\ ingested' = [ingested EXCEPT ![s] = @ \ batch]
            /\ stored' = stored \cup (batch \ Thin)
            /\ flagged' = flagged \ batch       \* INSERT OR REPLACE
            /\ UNCHANGED <<doing, index, missed>>
       \/ Exit(s) /\ UNCHANGED <<stored, flagged>>
    /\ UNCHANGED <<patterns, sweep, matched>>

EndIngest(s) ==
    /\ doing[s] = "ingest" /\ ingested[s] = {}
    /\ Goto(s, "sweep")
    /\ UNCHANGED <<patterns, stored, flagged, ingested, sweep, index, missed, matched>>

(* apply_cawignore: SELECT DISTINCT path and the patterns, which clear the *)
(* flags; then one UPDATE for each path that matches.                      *)
ClearFlags(s) ==
    /\ doing[s] = "sweep"
    /\ Goto(s, "mark")
    /\ sweep' = [sweep EXCEPT ![s] = patterns \cap stored]
    /\ flagged' = {}
    /\ UNCHANGED <<patterns, stored, ingested, index, missed, matched>>

MarkIgnored(s) ==
    /\ doing[s] = "mark"
    /\ \E p \in sweep[s] :
        /\ flagged' = flagged \cup {p}
        /\ sweep' = [sweep EXCEPT ![s] = @ \ {p}]
    /\ UNCHANGED <<patterns, stored, doing, ingested, index, missed, matched>>

EndSweep(s) ==
    /\ doing[s] = "mark" /\ sweep[s] = {}
    /\ Goto(s, "load")
    /\ UNCHANGED <<patterns, stored, flagged, ingested, sweep, index, missed, matched>>

(* "Warning: failed to apply .cawignore": the session goes on.             *)
SweepFails(s) ==
    /\ doing[s] \in {"sweep", "mark"}
    /\ Goto(s, "load")
    /\ sweep' = [sweep EXCEPT ![s] = {}]
    /\ UNCHANGED <<patterns, stored, flagged, ingested, index, missed, matched>>

\* What all_embeddings returns and get_stub finds.
Findable == stored \ flagged

LoadIndex(s) ==
    /\ doing[s] = "load"
    /\ Goto(s, "ready")
    /\ index' = [index EXCEPT ![s] = Findable]
    /\ UNCHANGED <<patterns, stored, flagged, ingested, sweep, missed, matched>>

-----------------------------------------------------------------------------
\* What the searches of run_turn can come to: they go through the index and get_stub.
Found(s) == index[s] \cap Findable

(* run_interactive ends with its input, and with an error that is not a    *)
(* degenerate answer.                                                      *)
Quit(s) ==
    /\ doing[s] = "ready"
    /\ Exit(s)
    /\ UNCHANGED <<patterns, stored, flagged, sweep, matched>>

EditPatterns ==
    /\ patterns' \in SUBSET Documents \ {patterns}
    /\ matched' = matched \cup patterns'
    /\ UNCHANGED <<stored, flagged, sessionVars>>

Session(s) ==
    \/ Start(s) \/ EmbedAndInsertBatch(s) \/ EndIngest(s) \/ ClearFlags(s) \/ MarkIgnored(s)
    \/ EndSweep(s) \/ SweepFails(s) \/ LoadIndex(s) \/ Quit(s)

CliNext == EditPatterns \/ \E s \in Sessions : Session(s)

CliSpec == CliInit /\ [][CliNext]_cliVars

-----------------------------------------------------------------------------
(* A search of a session finds every file worth indexing that .cawignore   *)
(* has never matched and that the session could read if it had to,         *)
(* whatever earlier sessions left of an index when a batch of theirs       *)
(* failed, whoever inserts and sweeps beside it, and however their sweeps  *)
(* end.                                                                    *)
EveryFileIsFound ==
    \A s \in Sessions : doing[s] = "ready" =>
        Documents \ (Thin \cup matched \cup missed[s]) \subseteq Found(s)

=============================================================================

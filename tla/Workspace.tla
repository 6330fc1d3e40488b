------------------------------ MODULE Workspace ------------------------------
(***************************************************************************)
(* The workspace of DynamicRecallOrchestrator (caw-orchestrator/src/       *)
(* dynamic.rs): the recalled fragments a completion request carries, and   *)
(* the three indexes kept beside them.  The operations are the methods     *)
(* that change it (load_fragments hit by hit, upgrade_stub_to_body,        *)
(* process_line_references reference by reference, decay and refresh,      *)
(* evict_stale_fragments, reset_session); here they come in any order,     *)
(* RecallTurn gives them the order run_turn does.                          *)
(*                                                                         *)
(* Abstractions.  The vector `loaded` is a set: its order only breaks ties *)
(* in eviction and chooses between fragments of one source in a line       *)
(* reference, and both choices are left open here.  The text of a fragment *)
(* is its token count, which a read takes from a set of possible sizes, so *)
(* a stub that grows by the notes prepended to it is one more size.        *)
(* Scores are integers (tenths, say); the float slack f32::EPSILON is one.     *)
(***************************************************************************)
EXTENDS Integers, FiniteSets

CONSTANTS
    Ids,                \* stub ids
    Sources,            \* file paths, and History
    SourceOf,           \* the path of each stub id
    History,            \* the pseudo-source "session history"
    StubSizes,          \* token counts a read of range "stub" may give
    BodySizes,          \* token counts a read of a body or a range may give
    MaxTokens,          \* no read gives more
    MaxWorkspaceTokens, \* config.max_workspace_tokens
    HistoryBudget,      \* the share of it session history may take
    MaxLoadedFragments, \* config.max_loaded_fragments
    MaxChunksPerSource, \* config.max_chunks_per_source
    Scores,             \* scores a retrieval hit may carry
    Overlaps,           \* values of term_overlap_score
    LoadThreshold,      \* thresholds.load
    UnloadThreshold,    \* thresholds.unload
    RefreshMargin,      \* overlap must exceed a score by this to refresh it
    DecayNum, DecayDen  \* config.relevance_decay_rate

ASSUME WorkspaceAssumption ==
    /\ IsFiniteSet(Ids)
    /\ SourceOf \in [Ids -> Sources]
    /\ MaxTokens \in Nat
    /\ StubSizes \subseteq 0..MaxTokens
    /\ BodySizes \subseteq 0..MaxTokens
    /\ MaxWorkspaceTokens \in Nat
    /\ HistoryBudget \in Nat
    /\ MaxLoadedFragments \in Nat
    /\ MaxChunksPerSource \in Nat \ {0}
    /\ Scores \subseteq Nat
    /\ Overlaps \subseteq Nat
    /\ LoadThreshold \in Nat
    /\ UnloadThreshold \in Nat
    /\ RefreshMargin \in Nat
    /\ DecayNum \in Nat
    /\ DecayDen \in Nat \ {0}

VARIABLES
    loaded,         \* the fragments in the workspace
    loaded_ids,     \* HashSet of their stub ids, the duplicate check
    source_counts,  \* loaded_source_counts; an absent entry is 0
    relevance       \* relevance_scores; its domain is the ids that have one

wsVars == <<loaded, loaded_ids, source_counts, relevance>>

Forms == {"stub", "body"}
Fragments == [id : Ids, form : Forms, tokens : 0..MaxTokens]

(* The tokens of a set of fragments, counted one by one.                   *)
TokenCells(S) == {c \in S \X (1..MaxTokens) : c[2] <= c[1].tokens}
Tokens(S) == Cardinality(TokenCells(S))

HistoryFragments == {f \in loaded : SourceOf[f.id] = History}
OfSource(s) == {f \in loaded : SourceOf[f.id] = s}
Resident(i) == {f \in loaded : f.id = i}
ResidentIsStub(i) == \E f \in Resident(i) : f.form = "stub"

WsInit ==
    /\ loaded = {}
    /\ loaded_ids = {}
    /\ source_counts = [s \in Sources |-> 0]
    /\ relevance = [i \in {} |-> 0]

-----------------------------------------------------------------------------
(* A hit on a resident fragment only ever raises its score.                *)
RefreshedByHit(i, score) ==
    IF i \in DOMAIN relevance /\ score > relevance[i]
    THEN [relevance EXCEPT ![i] = score]
    ELSE relevance

(* Mutant of Pinned: an upgrade leaves the score the stub has decayed to.  *)
PinnedIfAbsent(rel, i, score) ==
    [j \in DOMAIN rel \cup {i} |-> IF j \in DOMAIN rel THEN rel[j] ELSE score]

(* The score an upgrade leaves: at least just above the unload threshold.  *)
Pinned(rel, i, score) ==
    LET floor == UnloadThreshold + 1
        effective == IF score > floor THEN score ELSE floor
    IN  [j \in DOMAIN rel \cup {i} |->
            IF j # i THEN rel[j]
            ELSE IF i \in DOMAIN rel /\ rel[i] >= floor THEN rel[i]
            ELSE effective]

(* Mutant of UpgradeFits: the body alone is held against the budget.       *)
UpgradeFitsAlone(i, tokens) == tokens <= MaxWorkspaceTokens

(* upgrade_stub_to_body: the body replaces the stub in place unless the    *)
(* workspace would then be over budget.  rel is relevance_scores at entry. *)
UpgradeFits(i, tokens) ==
    Tokens(loaded \ Resident(i)) + tokens <= MaxWorkspaceTokens

UpgradeTo(i, score, tokens, rel) ==
    /\ UpgradeFits(i, tokens)
    /\ loaded' = (loaded \ Resident(i))
                    \cup {[id |-> i, form |-> "body", tokens |-> tokens]}
    /\ relevance' = Pinned(rel, i, score)
    /\ UNCHANGED <<loaded_ids, source_counts>>

(* No upgrade: the body could not be read, or would not fit.               *)
LeaveStub(i, rel) ==
    /\ relevance' = rel
    /\ UNCHANGED <<loaded, loaded_ids, source_counts>>

(* load_fragments, a hit already in the workspace: refresh its score, and  *)
(* on a full load turn a resident stub into its body.                      *)
Rehit(i, score, mode) ==
    /\ i \in loaded_ids
    /\ IF mode = "body" /\ ResidentIsStub(i)
       THEN \/ \E t \in BodySizes : UpgradeTo(i, score, t, RefreshedByHit(i, score))
            \/ LeaveStub(i, RefreshedByHit(i, score))
       ELSE LeaveStub(i, RefreshedByHit(i, score))

(* The two conditions on which load_fragments abandons the remaining hits. *)
FragmentCapReached == Cardinality(loaded) >= MaxLoadedFragments
BudgetFull == Tokens(loaded) >= MaxWorkspaceTokens

(* What the source of a new fragment still allows it.                      *)
SourceAllows(i, tokens) ==
    IF SourceOf[i] = History
    THEN Tokens(HistoryFragments) + tokens <= HistoryBudget
    ELSE source_counts[SourceOf[i]] < MaxChunksPerSource

(* A turn of session history comes whole from memory, whatever the mode.   *)
FormOf(i, mode) == IF SourceOf[i] = History THEN "body" ELSE mode
SizesOf(form) == IF form = "stub" THEN StubSizes ELSE BodySizes

CountOneMore(i) ==
    IF SourceOf[i] = History THEN source_counts
    ELSE [source_counts EXCEPT ![SourceOf[i]] = @ + 1]

(* load_fragments, a new hit that passes every check.                      *)
Admissible(i, score, tokens) ==
    /\ i \notin loaded_ids
    /\ ~FragmentCapReached
    /\ score >= LoadThreshold
    /\ ~BudgetFull
    /\ SourceAllows(i, tokens)
    /\ Tokens(loaded) + tokens <= MaxWorkspaceTokens

Admit(i, score, mode, tokens) ==
    /\ Admissible(i, score, tokens)
    /\ loaded' = loaded \cup {[id |-> i, form |-> FormOf(i, mode), tokens |-> tokens]}
    /\ loaded_ids' = loaded_ids \cup {i}
    /\ source_counts' = CountOneMore(i)
    /\ relevance' = [j \in DOMAIN relevance \cup {i} |->
                        IF j = i THEN score ELSE relevance[j]]

-----------------------------------------------------------------------------
(* process_line_references, the source named is in the workspace: one of   *)
(* its fragments, if it is a stub, is upgraded to the lines.  The score of *)
(* such a stub is pinned as for a hit at the load threshold.               *)
LineUpgrade(i) ==
    /\ i \in loaded_ids
    /\ ResidentIsStub(i)
    /\ \/ \E t \in BodySizes : UpgradeTo(i, LoadThreshold, t, relevance)
       \/ LeaveStub(i, relevance)

(* process_line_references, no fragment of the source is in the workspace: *)
(* a stub of the corpus found by search is admitted with the lines.        *)
(* relevance_scores gets no entry for it.                                  *)
LineAdmissible(i, tokens) ==
    /\ SourceOf[i] # History
    /\ OfSource(SourceOf[i]) = {}
    /\ i \notin loaded_ids
    /\ ~FragmentCapReached
    /\ Tokens(loaded) + tokens <= MaxWorkspaceTokens

LineAdmit(i, tokens) ==
    /\ LineAdmissible(i, tokens)
    /\ loaded_ids' = loaded_ids \cup {i}
    /\ source_counts' = CountOneMore(i)
    /\ loaded' = loaded \cup {[id |-> i, form |-> "body", tokens |-> tokens]}
    /\ UNCHANGED relevance

-----------------------------------------------------------------------------
Decayed == [i \in DOMAIN relevance |-> (relevance[i] * DecayNum) \div DecayDen]

(* refresh_relevance_scores: overlap replaces a score it exceeds by more   *)
(* than the margin; fragments without a score are left without one.        *)
RefreshedByOverlap(rel, overlap) ==
    [i \in DOMAIN rel |->
        IF i \in loaded_ids /\ overlap[i] > rel[i] + RefreshMargin THEN overlap[i] ELSE rel[i]]

DecayAndRefresh(overlap) ==
    /\ relevance' = RefreshedByOverlap(Decayed, overlap)
    /\ UNCHANGED <<loaded, loaded_ids, source_counts>>

(* evict_stale_fragments walks the fragments by rising score and takes     *)
(* each that is below the unload threshold or met while the rest is over   *)
(* budget; it stops at the first that is neither.                          *)
ScoreIn(rel, f) == IF f.id \in DOMAIN rel THEN rel[f.id] ELSE 0

(* Mutant of BelowUnload: one threshold for loading and unloading.         *)
BelowLoad(rel) == {f \in loaded : ScoreIn(rel, f) < LoadThreshold}

BelowUnload(rel) == {f \in loaded : ScoreIn(rel, f) < UnloadThreshold}

EvictionSets(rel) ==
    {E \in SUBSET loaded :
        /\ BelowUnload(rel) \subseteq E
        /\ \A e \in E, f \in loaded \ E : ScoreIn(rel, e) <= ScoreIn(rel, f)
        /\ E = loaded \/ Tokens(loaded \ E) <= MaxWorkspaceTokens
        /\ \/ E = BelowUnload(rel)
           \/ \E last \in E \ BelowUnload(rel) :
                /\ \A e \in E : ScoreIn(rel, e) <= ScoreIn(rel, last)
                /\ Tokens((loaded \ E) \cup {last}) > MaxWorkspaceTokens}

(* Mutant of CountsWithout: eviction leaves the counts alone.              *)
CountsKept(E) == source_counts

CountsWithout(E) ==
    [s \in Sources |->
        IF s = History THEN source_counts[s]
        ELSE LET gone == Cardinality({f \in E : SourceOf[f.id] = s})
             IN  IF gone > source_counts[s] THEN 0 ELSE source_counts[s] - gone]

Evict(rel) ==
    \E E \in EvictionSets(rel) :
        LET ids == {f.id : f \in E} IN
        /\ loaded' = loaded \ E
        /\ loaded_ids' = loaded_ids \ ids
        /\ source_counts' = CountsWithout(E)
        /\ relevance' = [i \in DOMAIN rel \ ids |-> rel[i]]

EvictStale == Evict(relevance)
DecayAndEvict == Evict(Decayed)

ResetSession ==
    /\ loaded' = {}
    /\ loaded_ids' = {}
    /\ source_counts' = [s \in Sources |-> 0]
    /\ relevance' = [i \in {} |-> 0]

WsNext ==
    \/ \E i \in Ids, score \in Scores, mode \in Forms :
        \/ Rehit(i, score, mode)
        \/ \E t \in SizesOf(FormOf(i, mode)) : Admit(i, score, mode, t)
    \/ \E i \in Ids :
        \/ LineUpgrade(i)
        \/ \E t \in BodySizes : LineAdmit(i, t)
    \/ \E overlap \in [DOMAIN relevance -> Overlaps] : DecayAndRefresh(overlap)
    \/ EvictStale
    \/ DecayAndEvict
    \/ ResetSession

WsSpec == WsInit /\ [][WsNext]_wsVars

-----------------------------------------------------------------------------
WsTypeOK ==
    /\ loaded \subseteq Fragments
    /\ loaded_ids \subseteq Ids
    /\ source_counts \in [Sources -> Nat]
    /\ DOMAIN relevance \subseteq Ids
    /\ relevance \in [DOMAIN relevance -> Nat]

(* The three indexes say what the fragments say: a stub id is loaded once  *)
(* and is in loaded_ids exactly then, the count of a file is the number of *)
(* its fragments, only loaded ids have scores, and every stub has one.     *)
(* Admission, in-place upgrade, line references and eviction each update   *)
(* them by hand.                                                           *)
IndexesAgree ==
    /\ loaded_ids = {f.id : f \in loaded}
    /\ \A f, g \in loaded : f.id = g.id => f = g
    /\ \A s \in Sources \ {History} : source_counts[s] = Cardinality(OfSource(s))
    /\ DOMAIN relevance \subseteq loaded_ids
    /\ \A f \in loaded : f.form = "stub" => f.id \in DOMAIN relevance

(* The workspace never exceeds its token budget, however admissions,       *)
(* upgrades that grow a stub into a body, and evictions follow each other. *)
WithinBudget == Tokens(loaded) <= MaxWorkspaceTokens

(* Session history never takes more than its share of the budget.          *)
HistoryWithinShare == Tokens(HistoryFragments) <= HistoryBudget

(* Neither cap is passed: no file has more than MaxChunksPerSource         *)
(* fragments, although line references are admitted without looking at     *)
(* that cap, and there are at most MaxLoadedFragments in all.              *)
CapsHold ==
    /\ \A s \in Sources \ {History} : Cardinality(OfSource(s)) <= MaxChunksPerSource
    /\ Cardinality(loaded) <= MaxLoadedFragments

(* What the model is sent keeps to every limit of the configuration,       *)
(* whatever was admitted, upgraded and evicted in whatever order.          *)
LimitsHold == WithinBudget /\ HistoryWithinShare /\ CapsHold

(* Hysteresis: a fragment leaves only by decaying below the unload         *)
(* threshold.  The branch of eviction that drops fragments of any score to *)
(* get back under the budget is never needed.                              *)
OnlyFadedLeave ==
    [][\/ ResetSession
       \/ \A f \in loaded : f.id \notin loaded_ids' =>
            \/ EvictStale /\ ScoreIn(relevance, f) < UnloadThreshold
            \/ DecayAndEvict /\ ScoreIn(Decayed, f) < UnloadThreshold]_wsVars

=============================================================================

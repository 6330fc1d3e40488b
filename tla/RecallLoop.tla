----------------------------- MODULE RecallLoop -----------------------------
(***************************************************************************)
(* The three simple orchestrators over one GreedyBudgetScheduler:          *)
(* RecallOrchestrator ("reasoning", or "plain" for a model that shows no   *)
(* thinking), ProbeRecallOrchestrator ("probes") and                       *)
(* ThinkingTraceOrchestrator ("query").  caw-orchestrator/src/lib.rs,      *)
(* probe_recall.rs, thinking_trace.rs; caw-core/src/scheduler.rs.          *)
(***************************************************************************)
EXTENDS Naturals, Sequences, FiniteSets, SequencesExt

CONSTANTS
    Stubs,              \* stub ids of the index
    StubTokens,         \* their sizes
    Budget,             \* available_for_workspace
    SearchScores,       \* scores a search can give
    Load, Unload,       \* the thresholds
    MaxCandidates,
    MaxIterations,      \* max_recall_iterations, max_probe_iterations
    MaxAnswerProbes     \* bound: probes in one answer

Kinds == {"reasoning", "plain", "probes", "query"}

ASSUME LoopAssumption ==
    /\ StubTokens \in [Stubs -> Nat]
    /\ Budget \in Nat /\ Load \in Nat /\ Unload \in Nat /\ Unload <= Load
    /\ SearchScores \subseteq Nat
    /\ MaxIterations \in Nat /\ MaxAnswerProbes \in Nat /\ MaxCandidates \in Nat

VARIABLES
    kind,       \* which orchestrator
    stage,      \* idle, complete, think, search, keep, admit
    workspace,  \* its loaded fragments, in order
    kept,       \* its scores: the scheduler's loaded_scores
    seen,       \* seen_this_turn
    iteration,
    left, any,  \* probes still to search for; whether one recalled anything
    hits,       \* candidates still to look at
    next,       \* position in workspace of the next fragment to keep
    used,       \* tokens selected so far
    selected,   \* fragments selected so far
    admitted,   \* those of them that are new
    recorded,   \* fragments in the provenance store
    sums        \* history: used after each fragment of selected

schedule == <<hits, next, used, selected, admitted, sums>>
loopVars == <<kind, stage, workspace, kept, seen, iteration, left, any, recorded, schedule>>

Candidates == [id : Stubs, score : SearchScores]

LoopInit ==
    /\ kind \in Kinds /\ stage = "idle"
    /\ workspace = << >> /\ kept = [s \in {} |-> 0] /\ seen = {} /\ recorded = {}
    /\ iteration = 0 /\ left = 0 /\ any = FALSE
    /\ hits = << >> /\ next = 1 /\ used = 0 /\ selected = << >> /\ admitted = {} /\ sums = << >>

-----------------------------------------------------------------------------
(* RecallOrchestrator and ThinkingTraceOrchestrator search for the query   *)
(* first, ProbeRecallOrchestrator asks the model first.                    *)
StartTurn ==
    /\ stage = "idle"
    /\ stage' = IF kind = "probes" THEN "complete" ELSE "search"
    /\ seen' = {} /\ iteration' = 0 /\ left' = 0 /\ any' = FALSE
    /\ UNCHANGED <<kind, workspace, kept, recorded, schedule>>

(* What follows a search: new says whether it admitted anything.  The      *)
(* reasoning loop thinks again after an admission, at most MaxIterations   *)
(* times, and goes on with the same trace without one.                     *)
AfterReasoning(new) ==
    /\ IF iteration = 0 \/ new
       THEN iteration' = iteration + 1 /\ stage' = IF iteration < MaxIterations THEN "think" ELSE "complete"
       ELSE stage' = "think" /\ UNCHANGED iteration
    /\ UNCHANGED <<left, any>>

(* After the last probe: another completion if any of them recalled.       *)
AfterProbe(new) ==
    /\ left' = left - 1
    /\ IF left > 1 THEN stage' = "search" /\ any' = (any \/ new) /\ UNCHANGED iteration
       ELSE /\ any' = FALSE
            /\ IF any \/ new THEN stage' = "complete" /\ iteration' = iteration + 1
               ELSE stage' = "idle" /\ UNCHANGED iteration

AfterSearch(new) ==
    CASE kind = "reasoning" -> AfterReasoning(new)
      [] kind = "probes" -> AfterProbe(new)
      [] OTHER -> stage' = "complete" /\ UNCHANGED <<iteration, left, any>>

(* A thinking step is searched for; a trace that ends without an admission *)
(* ends the loop.                                                          *)
ThinkingStep ==
    /\ stage = "think"
    /\ stage' \in {"search", "complete"}
    /\ UNCHANGED <<kind, workspace, kept, seen, iteration, left, any, recorded, schedule>>

Respond ==
    /\ stage = "complete"
    /\ \E n \in 0 .. MaxAnswerProbes :
        IF kind # "probes" \/ n = 0 \/ iteration >= MaxIterations
        THEN stage' = "idle" /\ UNCHANGED left
        ELSE stage' = "search" /\ left' = n
    /\ UNCHANGED <<kind, workspace, kept, seen, iteration, any, recorded, schedule>>

(* A search, a read or a completion fails: the turn ends with the error.   *)
Fail ==
    /\ stage \in {"complete", "think", "search"}
    /\ stage' = "idle"
    /\ UNCHANGED <<kind, workspace, kept, seen, iteration, left, any, recorded, schedule>>

-----------------------------------------------------------------------------
Wanted(c) == c.score >= Load /\ (kind \in {"reasoning", "plain"} => c.id \notin seen)

(* What is left of a search: no stub twice.                                *)
AboveLoad ==
    {s \in BoundedSeq(Candidates, MaxCandidates) :
        /\ \A i, j \in DOMAIN s : s[i].id = s[j].id => i = j
        /\ \A i \in DOMAIN s : Wanted(s[i])}

(* do_recall, recall_for_probe, recall_for_query up to the scheduler.      *)
Search ==
    /\ stage = "search"
    /\ \E found \in AboveLoad :
        IF kind \in {"reasoning", "plain"} /\ found = << >>
        THEN AfterSearch(FALSE) /\ UNCHANGED schedule
        ELSE /\ stage' = "keep" /\ hits' = found
             /\ next' = 1 /\ used' = 0 /\ selected' = << >> /\ admitted' = {} /\ sums' = << >>
             /\ UNCHANGED <<iteration, left, any>>
    /\ UNCHANGED <<kind, workspace, kept, seen, recorded>>

Select(s) ==
    /\ used' = used + StubTokens[s]
    /\ selected' = Append(selected, s)
    /\ sums' = Append(sums, used')

ScoreOf(s) == IF s \in DOMAIN kept THEN kept[s] ELSE Load

(* schedule: what is loaded stays while its score and the budget allow it. *)
KeepNext ==
    /\ stage = "keep" /\ next <= Len(workspace)
    /\ IF ScoreOf(workspace[next]) >= Unload /\ used + StubTokens[workspace[next]] <= Budget
       THEN Select(workspace[next])
       ELSE UNCHANGED <<used, selected, sums>>
    /\ next' = next + 1
    /\ UNCHANGED <<kind, stage, workspace, kept, seen, iteration, left, any, recorded, hits, admitted>>

KeepEnd ==
    /\ stage = "keep" /\ next > Len(workspace)
    /\ stage' = "admit"
    /\ UNCHANGED <<kind, workspace, kept, seen, iteration, left, any, recorded, schedule>>

(* Mutant of Schedulable: the budget is tested before the fragment is added *)
(* to it.                                                                  *)
SchedulableIfRoom(c) == c.id \notin ToSet(workspace) /\ c.score >= Load /\ used < Budget

Schedulable(c) ==
    /\ c.id \notin ToSet(workspace)
    /\ c.score >= Load
    /\ used + StubTokens[c.id] <= Budget

(* schedule: candidates in the order of the search.                        *)
AdmitNext ==
    /\ stage = "admit" /\ hits # << >>
    /\ LET c == Head(hits) IN
       IF Schedulable(c)
       THEN /\ Select(c.id)
            /\ admitted' = admitted \cup {c.id}
            /\ kept' = [s \in DOMAIN kept \cup {c.id} |-> IF s = c.id THEN c.score ELSE kept[s]]
       ELSE UNCHANGED <<used, selected, sums, admitted, kept>>
    /\ hits' = Tail(hits)
    /\ UNCHANGED <<kind, stage, workspace, seen, iteration, left, any, recorded, next>>

(* The decision is taken over: what was loaded and not selected is gone.   *)
Decide ==
    /\ stage = "admit" /\ hits = << >>
    /\ workspace' = selected
    /\ kept' = [s \in DOMAIN kept \ (ToSet(workspace) \ ToSet(selected)) |-> kept[s]]
    /\ seen' = seen \cup admitted
    /\ recorded' = recorded \cup admitted
    /\ AfterSearch(admitted # {})
    /\ UNCHANGED <<kind, schedule>>

Schedule == KeepNext \/ KeepEnd \/ AdmitNext \/ Decide

LoopNext == StartTurn \/ ThinkingStep \/ Respond \/ Fail \/ Search \/ Schedule

LoopSpec == LoopInit /\ [][LoopNext]_loopVars

-----------------------------------------------------------------------------
(* The scheduler keeps the score of admission, which is above both         *)
(* thresholds, and admits within the budget: what is loaded never leaves.  *)
(* The unload threshold is never met and a full workspace stays as it is.  *)
NothingLeaves == [][IsPrefix(workspace, workspace')]_loopVars
=============================================================================

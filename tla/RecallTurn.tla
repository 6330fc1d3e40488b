----------------------------- MODULE RecallTurn -----------------------------
(***************************************************************************)
(* DynamicRecallOrchestrator::run_turn (caw-orchestrator/src/dynamic.rs):  *)
(* one conversational turn over the workspace of module Workspace, from    *)
(* the cross-turn eviction to the session log, for one turn after another. *)
(* The code is sequential; what is chosen freely at each step is what the  *)
(* retriever, the embedder, the model adapter and the degradation monitor  *)
(* answer, and what the model's text asks for.                             *)
(*                                                                         *)
(* A call of load_fragments is a loop: one action per hit, `call` holding  *)
(* the hits still to do.  A clean response is its answer_quality_score;    *)
(* turn.clean lists those of phase 2, from the one it starts with, and     *)
(* last_response and best_response are places in that list.                *)
(***************************************************************************)
EXTENDS Workspace, Sequences

CONSTANTS
    MaxInitialFragments,  \* config.max_initial_fragments
    MaxRecallIterations,  \* config.max_recall_iterations
    MaxDegenerateRetries, \* config.max_degenerate_retries
    ConvergenceMinTokens, \* config.convergence_min_new_tokens
    Passive,              \* the adapter supports passive injection
    Qualities,            \* answer_quality_score values
    MaxItems              \* bound: steps, probes or references in one text

ASSUME TurnAssumption ==
    /\ MaxInitialFragments \in Nat
    /\ MaxRecallIterations \in Nat
    /\ MaxDegenerateRetries \in Nat
    /\ ConvergenceMinTokens \in Nat
    /\ Passive \in BOOLEAN
    /\ Qualities \subseteq Nat /\ Qualities # {}
    /\ MaxItems \in Nat
    /\ UnloadThreshold <= LoadThreshold  \* both presets of RecallThresholds

VARIABLES
    pc,        \* where run_turn is
    call,      \* the load_fragments call in progress
    cands,     \* initial_hits until they are consumed
    turn,      \* the other locals of run_turn
    session,   \* keys of session_content
    result,    \* how the last turn ended and which response it logged
    injected,  \* bodies injected into the running generation, and the budget left
    unseen,    \* ids admitted or upgraded since the last request was sent
    lines      \* ids admitted by line reference since then

turnVars == <<pc, call, cands, turn, session, result, injected, unseen, lines>>
vars == <<wsVars, turnVars>>

Corpus == {i \in Ids : SourceOf[i] # History}
HistoryIds == {i \in Ids : SourceOf[i] = History}

(* What a search among the ids S may return: some of them, with scores.    *)
HitsAmong(S) == UNION {[T -> Scores] : T \in SUBSET S}
NoHits == [i \in {} |-> 0]

NoCall == [hits |-> NoHits, mode |-> "stub", covered |-> {}, after |-> "idle"]
NoInjection == [hits |-> NoHits, remaining |-> 0]
NoTurn == [gate |-> "direct", stage |-> "first", attempt |-> 0, iter |-> 0,
           items |-> 0, tokensBefore |-> 0,
           clean |-> <<>>, last |-> 0, best |-> 0, degenerate |-> FALSE]
NoResult == [outcome |-> "none", response |-> 0]

TurnInit ==
    /\ WsInit
    /\ pc = "idle"
    /\ call = NoCall
    /\ cands = NoHits
    /\ turn = NoTurn
    /\ session \in SUBSET HistoryIds
    /\ result = NoResult
    /\ injected = NoInjection
    /\ unseen = {}
    /\ lines = {}

(* run_turn returns; its locals are gone.                                  *)
Return(outcome, response) ==
    /\ pc' = "idle"
    /\ result' = [outcome |-> outcome, response |-> response]
    /\ call' = NoCall
    /\ cands' = NoHits
    /\ turn' = NoTurn
    /\ injected' = NoInjection
    /\ unseen' = {}
    /\ lines' = {}

(* A `?` on a hard error: the turn ends at once and is not logged.         *)
Abort == Return("error", 0) /\ UNCHANGED session

Goto(where) == pc' = where

BeginLoad(hits, mode, covered, after) ==
    /\ Goto("load")
    /\ call' = [hits |-> hits, mode |-> mode, covered |-> covered, after |-> after]

-----------------------------------------------------------------------------
(* The ambiguity gate: too many hits above load, or too many files above   *)
(* unload, and the user did not ask for an explanation.                    *)
AboveLoad(hits) == {i \in DOMAIN hits : hits[i] >= LoadThreshold}

(* Mutant of TooBroad: one hit, or one file, too many goes through.        *)
TooBroadOffByOne(hits) ==
    \/ Cardinality(AboveLoad(hits)) > MaxInitialFragments + 1
    \/ Cardinality({SourceOf[i] : i \in {j \in DOMAIN hits : hits[j] >= UnloadThreshold}})
         > MaxInitialFragments + 1

TooBroad(hits) ==
    \/ Cardinality(AboveLoad(hits)) > MaxInitialFragments
    \/ Cardinality({SourceOf[i] : i \in {j \in DOMAIN hits : hits[j] >= UnloadThreshold}})
         > MaxInitialFragments

Gate(hits, explanation) ==
    IF explanation THEN "explain" ELSE IF TooBroad(hits) THEN "listed" ELSE "direct"

(* Stub generation is off: straight to the adapter, nothing else.          *)
PassThrough ==
    /\ pc = "idle"
    /\ \E outcome \in {"ok", "error"} : result' = [NoResult EXCEPT !.outcome = outcome]
    /\ UNCHANGED <<wsVars, pc, call, cands, turn, session, injected, unseen, lines>>

(* Cross-turn decay and eviction, then the initial search.                 *)
StartTurn ==
    /\ pc = "idle"
    /\ IF loaded # {} THEN DecayAndEvict ELSE UNCHANGED wsVars
    /\ \/ Abort
       \/ \E hits \in HitsAmong(Corpus), explanation \in BOOLEAN :
            /\ cands' = hits
            /\ turn' = [NoTurn EXCEPT !.gate = Gate(hits, explanation)]
            /\ Goto("history")
            /\ result' = NoResult
            /\ UNCHANGED <<call, session, injected, unseen, lines>>

(* Mutant of HostReset: the counts survive the fragments.                  *)
HostResetKeepsCounts ==
    /\ pc = "idle"
    /\ loaded' = {} /\ loaded_ids' = {} /\ relevance' = [i \in {} |-> 0]
    /\ UNCHANGED source_counts
    /\ UNCHANGED turnVars

(* The host may clear the workspace between turns.                         *)
HostReset ==
    /\ pc = "idle"
    /\ ResetSession
    /\ UNCHANGED turnVars

(* Session turn recall; no history or no embedding, and it is skipped.     *)
RecallHistory ==
    /\ pc = "history"
    /\ \/ \E hits \in HitsAmong(session) : BeginLoad(hits, "stub", Sources, "initial")
       \/ Goto("initial") /\ UNCHANGED call
    /\ UNCHANGED <<wsVars, cands, turn, session, result, injected, unseen, lines>>

(* The initial hits are loaded, the best of each file first, or kept for   *)
(* the candidate list.                                                     *)
LoadInitial ==
    /\ pc = "initial"
    /\ IF turn.gate = "listed"
       THEN Goto("complete") /\ UNCHANGED <<call, cands>>
       ELSE BeginLoad(cands, "stub", {}, "complete") /\ cands' = NoHits
    /\ UNCHANGED <<wsVars, turn, session, result, injected, unseen, lines>>

-----------------------------------------------------------------------------
(* The next hit of load_fragments: the best-scored one; with coverage      *)
(* first, the best of the files not met yet while there are such files.    *)
(* Injected bodies come in the order of their injection, which is any.     *)
Uncovered == {i \in DOMAIN call.hits : SourceOf[i] \notin call.covered}
NextHits ==
    LET pool == IF Uncovered # {} THEN Uncovered ELSE DOMAIN call.hits
    IN  {i \in pool : \/ call.after = "judge"
                      \/ \A j \in pool : call.hits[j] <= call.hits[i]}

Loading == pc = "load" /\ DOMAIN call.hits # {}

(* On to the following hit after i.                                        *)
Past(i) ==
    /\ call' = [call EXCEPT
                    !.hits = [j \in DOMAIN call.hits \ {i} |-> call.hits[j]],
                    !.covered = @ \cup {SourceOf[i]}]
    /\ UNCHANGED <<pc, cands, turn, session, result, injected, lines>>

(* New content counts as unseen, except what a generation has already been *)
(* given by injection.                                                     *)
Unseen == unseen' = IF call.after = "judge" THEN unseen
                    ELSE unseen \cup {f.id : f \in loaded' \ loaded}

LoadRehit ==
    /\ Loading
    /\ \E i \in NextHits : Rehit(i, call.hits[i], call.mode) /\ Past(i)
    /\ Unseen

LoadAdmit ==
    /\ Loading
    /\ \E i \in NextHits :
        /\ \E t \in SizesOf(FormOf(i, call.mode)) : Admit(i, call.hits[i], call.mode, t)
        /\ Past(i)
    /\ Unseen

(* continue: below the threshold, no longer readable, or refused by the    *)
(* history share, the cap of its file or the budget.                       *)
LoadSkip ==
    /\ Loading
    /\ ~FragmentCapReached
    /\ \E i \in NextHits :
        /\ i \notin loaded_ids
        /\ \/ call.hits[i] < LoadThreshold
           \/ /\ ~BudgetFull
              /\ \/ SourceOf[i] # History
                 \/ \E t \in BodySizes : ~Admissible(i, call.hits[i], t)
        /\ Past(i)
    /\ UNCHANGED <<wsVars, unseen>>

(* break: the remaining hits are given up.                                 *)
LoadStop ==
    /\ Loading
    /\ \E i \in NextHits :
        /\ i \notin loaded_ids
        /\ FragmentCapReached \/ (call.hits[i] >= LoadThreshold /\ BudgetFull)
    /\ call' = [call EXCEPT !.hits = NoHits]
    /\ UNCHANGED <<wsVars, pc, cands, turn, session, result, injected, unseen, lines>>

(* A read error other than StaleStub ends the turn.                        *)
LoadFails ==
    /\ Loading
    /\ ~FragmentCapReached /\ ~BudgetFull
    /\ \E i \in NextHits :
        /\ i \in Corpus \ loaded_ids
        /\ call.hits[i] >= LoadThreshold
    /\ Abort
    /\ UNCHANGED wsVars

LoadEnd ==
    /\ pc = "load"
    /\ DOMAIN call.hits = {}
    /\ Goto(call.after)
    /\ call' = NoCall
    /\ UNCHANGED <<wsVars, cands, turn, session, result, injected, unseen, lines>>

LoadStep == LoadRehit \/ LoadAdmit \/ LoadSkip \/ LoadStop \/ LoadFails \/ LoadEnd

-----------------------------------------------------------------------------
(* Mutant of Answered, below: the latest answer is always the best.        *)
AnsweredLatestWins(quality) ==
    /\ turn' = [turn EXCEPT
                    !.attempt = 0,
                    !.clean = IF turn.stage = "refine" THEN Append(@, quality)
                              ELSE <<quality>>,
                    !.last = IF turn.stage = "refine" THEN @ + 1 ELSE 1,
                    !.best = IF turn.stage = "refine" THEN turn.last + 1 ELSE 1,
                    !.iter = IF turn.stage = "refine" THEN @ + 1 ELSE @]
    /\ Goto(IF turn.stage = "first" /\ turn.gate = "listed" THEN "mention" ELSE "refine")

(* complete_with_retry.  A clean answer of the first request ends phase 1  *)
(* or leads to the mentioned-files pass, whose answer replaces it; a       *)
(* re-completion becomes the best answer unless its score is lower, and    *)
(* the last one in any case.                                               *)
Answered(quality) ==
    LET refining == turn.stage = "refine"
        clean == IF refining THEN Append(turn.clean, quality) ELSE <<quality>>
    IN  /\ turn' = [turn EXCEPT
                    !.attempt = 0,
                    !.clean = clean,
                    !.last = Len(clean),
                    !.best = IF refining /\ quality < turn.clean[@] THEN @ ELSE Len(clean),
                    !.iter = IF refining THEN @ + 1 ELSE @]
        /\ Goto(IF turn.stage = "first" /\ turn.gate = "listed" THEN "mention" ELSE "refine")

(* Mutant of Degenerated, below: one attempt too many.                     *)
DegeneratedOnceMore ==
    IF turn.attempt <= MaxDegenerateRetries
    THEN turn' = [turn EXCEPT !.attempt = @ + 1] /\ Goto("complete")
    ELSE turn' = [turn EXCEPT !.degenerate = TRUE] /\ Goto("finish")

(* Mutant of Degenerated: attempts are not counted.                        *)
DegeneratedUncounted == UNCHANGED turn /\ Goto("complete")

(* A degenerate answer: ask again with the same request, or, out of        *)
(* attempts, go and record the turn as degenerate.  Only a degenerate      *)
(* first answer becomes the last response: place 0 stands for it.          *)
Degenerated ==
    IF turn.attempt < MaxDegenerateRetries
    THEN /\ turn' = [turn EXCEPT !.attempt = @ + 1]
         /\ Goto("complete")
    ELSE /\ turn' = [turn EXCEPT !.degenerate = TRUE]
         /\ Goto("finish")

Streaming == Passive /\ turn.stage = "first"

(* The request carries everything loaded, so nothing is unseen any more.   *)
Sent == unseen' = {} /\ lines' = {}

Complete ==
    /\ pc = "complete" /\ ~Streaming
    /\ \/ Abort
       \/ /\ Sent
          /\ Degenerated \/ \E quality \in Qualities : Answered(quality)
          /\ UNCHANGED <<call, cands, session, result, injected>>
    /\ UNCHANGED wsVars

(* run_with_passive_injection: the request is sent and the budget fixed.   *)
StartStream ==
    /\ pc = "complete" /\ Streaming
    /\ Sent
    /\ injected' = [hits |-> NoHits, remaining |-> MaxWorkspaceTokens - Tokens(loaded)]
    /\ Goto("stream")
    /\ UNCHANGED <<wsVars, call, cands, turn, session, result>>

(* on_window: a body goes into the running generation if its estimate fits *)
(* the budget that was left; the tokens actually read are then taken off.  *)
Inject ==
    /\ pc = "stream"
    /\ \E i \in Corpus \ (loaded_ids \cup DOMAIN injected.hits),
          score \in Scores, estimate \in BodySizes, tokens \in BodySizes :
        /\ score >= LoadThreshold
        /\ estimate <= injected.remaining
        /\ injected' = [hits |-> [j \in DOMAIN injected.hits \cup {i} |->
                                    IF j = i THEN score ELSE injected.hits[j]],
                        remaining |-> IF tokens > injected.remaining THEN 0
                                      ELSE injected.remaining - tokens]
    /\ UNCHANGED <<wsVars, pc, call, cands, turn, session, result, unseen, lines>>

(* The generation ends and what was injected is loaded, as stubs; or the   *)
(* adapter raises an error and the injections are forgotten.               *)
EndStream ==
    /\ pc = "stream"
    /\ \/ Abort
       \/ /\ Degenerated
          /\ injected' = NoInjection
          /\ UNCHANGED <<call, cands, session, result, unseen, lines>>
       \/ /\ BeginLoad(injected.hits, "stub", Sources, "judge")
          /\ UNCHANGED <<cands, turn, session, result, injected, unseen, lines>>
    /\ UNCHANGED wsVars

(* The answer of an injected generation is judged like any other.          *)
Judge ==
    /\ pc = "judge"
    /\ Degenerated \/ \E quality \in Qualities : Answered(quality)
    /\ injected' = NoInjection
    /\ UNCHANGED <<wsVars, call, cands, session, result, unseen, lines>>

(* Files of the candidate list named in the answer are loaded in full,     *)
(* the best hit of each, and the model is asked again.                     *)
BestOfItsFile(i) ==
    \A j \in AboveLoad(cands) : SourceOf[j] = SourceOf[i] => cands[j] <= cands[i]

LoadMentioned ==
    /\ pc = "mention"
    /\ cands' = NoHits
    /\ \/ Goto("refine") /\ UNCHANGED <<call, turn>>
       \/ \E M \in SUBSET {i \in AboveLoad(cands) : BestOfItsFile(i)} \ {{}} :
            /\ \A i, j \in M : SourceOf[i] = SourceOf[j] => i = j
            /\ BeginLoad([i \in M |-> cands[i]], "body", Sources, "complete")
            /\ turn' = [turn EXCEPT !.stage = "mentioned"]
    /\ UNCHANGED <<wsVars, session, result, injected, unseen, lines>>

-----------------------------------------------------------------------------
(* Phase 2, the head of the refinement loop: scores decay and refresh, and *)
(* automatic recall runs if the monitor allows it.                         *)
StartIteration ==
    /\ pc = "refine"
    /\ turn.iter < MaxRecallIterations
    /\ \E overlap \in [DOMAIN relevance -> Overlaps] : DecayAndRefresh(overlap)
    /\ \E recall \in BOOLEAN, items \in 0..MaxItems :
        /\ Goto(IF recall THEN "trace" ELSE "settle")
        /\ turn' = [turn EXCEPT
                        !.items = IF recall THEN items ELSE 0,
                        !.tokensBefore = Tokens(loaded)]
    /\ UNCHANGED <<call, cands, session, result, injected, unseen, lines>>

IterationsSpent ==
    /\ pc = "refine"
    /\ turn.iter >= MaxRecallIterations
    /\ Goto("finish")
    /\ UNCHANGED <<wsVars, call, cands, turn, session, result, injected, unseen, lines>>

(* process_thinking_trace: each step searches the corpus, then this        *)
(* session's turns; a failing search or embedding ends the turn.           *)
TraceStep ==
    /\ pc = "trace" /\ turn.items > 0
    /\ \/ Abort
       \/ /\ \E hits \in HitsAmong(Corpus) : BeginLoad(hits, "stub", Sources, "traceHistory")
          /\ turn' = [turn EXCEPT !.items = @ - 1]
          /\ UNCHANGED <<cands, session, result, injected, unseen, lines>>
    /\ UNCHANGED wsVars

TraceHistory ==
    /\ pc = "traceHistory"
    /\ \/ session # {} /\ Abort
       \/ /\ IF session = {} THEN Goto("trace") /\ UNCHANGED call
             ELSE \E hits \in HitsAmong(session) : BeginLoad(hits, "stub", Sources, "trace")
          /\ UNCHANGED <<cands, turn, session, result, injected, unseen, lines>>
    /\ UNCHANGED wsVars

(* process_probes: each probe loads full bodies; a tripped rate limiter    *)
(* drops the probes that are left.                                         *)
ProbeStep ==
    /\ pc = "probe" /\ turn.items > 0
    /\ \/ Abort
       \/ /\ \E hits \in HitsAmong(Corpus) : BeginLoad(hits, "body", Sources, "probe")
          /\ turn' = [turn EXCEPT !.items = @ - 1]
          /\ UNCHANGED <<cands, session, result, injected, unseen, lines>>
    /\ UNCHANGED wsVars

ProbesThrottled ==
    /\ pc = "probe" /\ turn.items > 0
    /\ turn' = [turn EXCEPT !.items = 0]
    /\ UNCHANGED <<wsVars, pc, call, cands, session, result, injected, unseen, lines>>

(* process_line_references: upgrade a resident stub, admit the lines of a  *)
(* file not in the workspace, or leave it (nothing matches, a body is      *)
(* there already, the read fails, no room); at the fragment cap the        *)
(* remaining references are given up.                                      *)
LineStep ==
    /\ pc = "lines" /\ turn.items > 0
    /\ \/ /\ \/ \E i \in Ids : LineUpgrade(i)
             \/ UNCHANGED wsVars
          /\ unseen' = unseen \cup {f.id : f \in loaded' \ loaded}
          /\ UNCHANGED lines
       \/ /\ \E i \in Corpus, t \in BodySizes : LineAdmit(i, t)
          /\ lines' = lines \cup (loaded_ids' \ loaded_ids)
          /\ UNCHANGED unseen
    /\ turn' = [turn EXCEPT !.items = @ - 1]
    /\ UNCHANGED <<pc, call, cands, session, result, injected>>

LinesStop ==
    /\ pc = "lines" /\ turn.items > 0
    /\ \/ Abort
       \/ /\ FragmentCapReached
          /\ turn' = [turn EXCEPT !.items = 0]
          /\ UNCHANGED <<pc, call, cands, session, result, injected, unseen, lines>>
    /\ UNCHANGED wsVars

(* One kind of recall is done; the text holds so many items of the next.   *)
FollowedBy == [trace |-> "probe", probe |-> "lines", lines |-> "settle"]

NextRecall ==
    /\ pc \in DOMAIN FollowedBy /\ turn.items = 0
    /\ Goto(FollowedBy[pc])
    /\ \E items \in 0..(IF pc = "lines" THEN 0 ELSE MaxItems) :
        turn' = [turn EXCEPT !.items = items]
    /\ UNCHANGED <<wsVars, call, cands, session, result, injected, unseen, lines>>

(* Annotations, which leave the workspace alone, eviction, and the         *)
(* convergence test on the tokens the workspace has gained.                *)
Gained(before, now) == IF now > before THEN now - before ELSE 0

Converged(tokensNow) ==
    Gained(turn.tokensBefore, tokensNow) < ConvergenceMinTokens

Settle ==
    /\ pc = "settle"
    /\ EvictStale
    /\ IF Converged(Tokens(loaded'))
       THEN Goto("finish") /\ UNCHANGED turn
       ELSE Goto("complete") /\ turn' = [turn EXCEPT !.stage = "refine"]
    /\ UNCHANGED <<call, cands, session, result, injected, unseen, lines>>

(* The turn is logged, degenerate or not, and its text becomes one more    *)
(* piece of session history if sessions are on and it can be embedded.     *)
(* What is logged, and returned if the turn is clean, is the best response *)
(* of a clean turn and the last one of a degenerate turn.                  *)
Finish ==
    /\ pc = "finish"
    /\ IF turn.degenerate THEN Return("degenerate", turn.last)
       ELSE Return("ok", turn.best)
    /\ \E new \in SUBSET HistoryIds :
        /\ Cardinality(new) <= 1
        /\ session' = session \cup new
    /\ UNCHANGED wsVars

RecallStep ==
    \/ TraceStep \/ TraceHistory
    \/ ProbeStep \/ ProbesThrottled
    \/ LineStep \/ LinesStop
    \/ NextRecall

RunTurn ==
    \/ RecallHistory \/ LoadInitial \/ LoadStep
    \/ Complete \/ StartStream \/ Inject \/ EndStream \/ Judge
    \/ LoadMentioned
    \/ StartIteration \/ IterationsSpent \/ RecallStep \/ Settle
    \/ Finish

TurnNext == PassThrough \/ StartTurn \/ HostReset \/ RunTurn

TurnSpec == TurnInit /\ [][TurnNext]_vars

(* Once started, run_turn goes on: the retriever, the embedder and the     *)
(* adapter return from every call.  Nothing makes the user start a turn.   *)
FairTurnSpec == TurnSpec /\ WF_vars(RunTurn)

-----------------------------------------------------------------------------
Places == {"idle", "history", "initial", "load", "complete", "stream", "judge",
           "mention", "refine", "trace", "traceHistory", "probe", "lines",
           "settle", "finish"}

Calls == [hits : HitsAmong(Ids), mode : Forms,
          covered : SUBSET Sources, after : Places \ {"load"}]
Turns == [gate : {"direct", "listed", "explain"},
          stage : {"first", "mentioned", "refine"},
          attempt : 0..MaxDegenerateRetries, iter : 0..MaxRecallIterations,
          items : 0..MaxItems, tokensBefore : Nat,
          clean : Seq(Qualities), last : Nat, best : Nat,
          degenerate : BOOLEAN]
Results == [outcome : {"none", "ok", "degenerate", "error"}, response : Nat]
Injections == [hits : HitsAmong(Corpus), remaining : 0..MaxWorkspaceTokens]

TurnTypeOK ==
    /\ WsTypeOK
    /\ pc \in Places
    /\ call \in Calls
    /\ cands \in HitsAmong(Corpus)
    /\ turn \in Turns
    /\ session \subseteq HistoryIds
    /\ result \in Results
    /\ injected \in Injections
    /\ unseen \subseteq Ids
    /\ lines \subseteq Corpus

(* What retrieval admitted or upgraded since the last request is still     *)
(* there when the next one is sent: the eviction between admission and     *)
(* completion only takes fragments that were stale before.                 *)
RecalledReachesModel == pc = "complete" => unseen \subseteq loaded_ids

(* A query that matches too much loads nothing before the model has spoken *)
(* ("load nothing and let probes drive"), and one that does not loads at   *)
(* most MaxInitialFragments; only explanation queries are exempt.          *)
BroadQueryLoadsNothing ==
    pc = "complete" /\ turn.stage = "first" /\ turn.gate # "explain" =>
        Cardinality(unseen \cap Corpus) <=
            IF turn.gate = "listed" THEN 0 ELSE MaxInitialFragments

(* The response a turn logs.  A clean turn answers with the best of all    *)
(* the clean responses since phase 2 began, the latest of equals, however  *)
(* many iterations there were; a degenerate one logs the most recent clean *)
(* response there was (the degenerate text itself if there was none), and  *)
(* not what the failed request brought.                                    *)
IsBest(n, clean) ==
    /\ n \in DOMAIN clean
    /\ \A m \in DOMAIN clean : clean[m] < clean[n] \/ (clean[m] = clean[n] /\ m <= n)

TurnLogged == pc = "finish" /\ pc' = "idle"

BestAnswerKept ==
    [][TurnLogged =>
        IF result'.outcome = "ok" THEN IsBest(result'.response, turn.clean)
        ELSE result'.response = Len(turn.clean)]_vars

(* Every turn ends: the three nested loops (refinement, retries, hits)     *)
(* always come to an end.                                                  *)
EveryTurnEnds == pc # "idle" ~> pc = "idle"

(* run_turn uses the workspace only through its operations.                *)
WorkspaceSpec == WsSpec

-----------------------------------------------------------------------------
(* Statements the source makes about a turn that the code does not keep.   *)

(* The system prompt: "The system will automatically load that line range  *)
(* into your workspace."  The lines admitted have no relevance score, so   *)
(* the eviction that follows takes them before the model is asked again.   *)
LineReferencesReachModel == pc = "complete" => lines \subseteq loaded_ids

(* "Degenerate output from any adapter call should not skip session        *)
(* logging: record the best response we have."  When a refinement comes    *)
(* out degenerate, what is recorded is the last clean response.            *)
DegenerateLogsBest ==
    [][TurnLogged /\ result'.outcome = "degenerate" /\ turn.clean # <<>> =>
        IsBest(result'.response, turn.clean)]_vars

=============================================================================

------------------------------ MODULE Evaluation ------------------------------
(***************************************************************************)
(* What a session is judged by: SessionEvaluator (caw-eval/src/session.rs) *)
(* over the turns of the orchestrator that feeds it.                       *)
(*                                                                         *)
(* The evaluator keeps its own step, which recorded turns and evictions    *)
(* move; an eviction carries the orchestrator's session_turn, the count of *)
(* turns written to its session file, which stays 0 without one: with the  *)
(* feature `session-recall` off, as it is by default, there is none.  The  *)
(* lists of events are the selections of one trail.                        *)
(***************************************************************************)
EXTENDS Metrics

CONSTANTS
    StubIds,
    ThrashingWindow,
    MaxTrail, MaxTurns      \* bounds

ASSUME EvaluationAssumption ==
    ThrashingWindow \in Nat /\ MaxTrail \in Nat /\ MaxTurns \in Nat

VARIABLES
    trail,          \* recalls and evictions, [kind, stub, step]
    probes,         \* whether each probe matched
    turns,          \* turns recorded
    current_step,
    resident,       \* the orchestrator's loaded fragments
    session_file,   \* whether it has a session file
    session_turn,   \* turns it has written to the session file
    in_turn

evaluationVars ==
    <<trail, probes, turns, current_step, resident, session_file, session_turn, in_turn>>

EvaluationInit ==
    /\ trail = << >> /\ probes = << >> /\ turns = 0 /\ current_step = 0
    /\ resident = {} /\ session_file = FALSE /\ session_turn = 0 /\ in_turn = FALSE

(* A step of the builder, before the first turn; nothing happens in a      *)
(* build without the feature.                                              *)
WithSession ==
    /\ ~in_turn /\ turns = 0 /\ trail = << >> /\ probes = << >>
    /\ session_file' = TRUE
    /\ UNCHANGED <<trail, probes, turns, current_step, resident, session_turn, in_turn>>

BeginTurn ==
    /\ ~in_turn /\ turns < MaxTurns
    /\ in_turn' = TRUE
    /\ UNCHANGED <<trail, probes, turns, current_step, resident, session_turn, session_file>>

\* Only what is not loaded is recalled.
RecordRecall(f) ==
    /\ in_turn /\ f \notin resident /\ Len(trail) < MaxTrail
    /\ trail' = Append(trail, [kind |-> "recall", stub |-> f, step |-> current_step])
    /\ resident' = resident \cup {f}
    /\ UNCHANGED <<probes, turns, current_step, session_turn, in_turn, session_file>>

\* process_line_references admits a fragment and records nothing.
AdmitLines(f) ==
    /\ in_turn /\ f \notin resident
    /\ resident' = resident \cup {f}
    /\ UNCHANGED <<trail, probes, turns, current_step, session_turn, in_turn, session_file>>

\* Nor does reset_session, which empties the workspace.
EmptyWorkspace ==
    /\ ~in_turn
    /\ resident' = {}
    /\ UNCHANGED <<trail, probes, turns, current_step, session_turn, in_turn, session_file>>

RecordEviction(f) ==
    /\ in_turn /\ f \in resident /\ Len(trail) < MaxTrail
    /\ current_step' = Max({current_step, session_turn})
    /\ trail' = Append(trail, [kind |-> "eviction", stub |-> f, step |-> session_turn])
    /\ resident' = resident \ {f}
    /\ UNCHANGED <<probes, turns, session_turn, in_turn, session_file>>

RecordProbeEvent(matched) ==
    /\ in_turn /\ Len(probes) < 1
    /\ probes' = Append(probes, matched)
    /\ UNCHANGED <<trail, turns, current_step, resident, session_turn, in_turn, session_file>>

\* The turn is written to the session file, then recorded.
RecordTurn ==
    /\ in_turn
    /\ in_turn' = FALSE /\ turns' = turns + 1 /\ current_step' = current_step + 1
    /\ session_turn' = IF session_file THEN session_turn + 1 ELSE session_turn
    /\ UNCHANGED <<trail, probes, resident, session_file>>

\* An error of the adapter or the store leaves the turn by `?`.
FailTurn ==
    /\ in_turn
    /\ in_turn' = FALSE
    /\ UNCHANGED <<trail, probes, turns, current_step, resident, session_turn, session_file>>

EvaluationNext ==
    \/ WithSession \/ BeginTurn \/ RecordTurn \/ FailTurn \/ EmptyWorkspace
    \/ \E f \in StubIds : RecordRecall(f) \/ AdmitLines(f) \/ RecordEviction(f)
    \/ \E matched \in BOOLEAN : RecordProbeEvent(matched)

EvaluationSpec == EvaluationInit /\ [][EvaluationNext]_evaluationVars

-----------------------------------------------------------------------------
Events(kind) == {i \in DOMAIN trail : trail[i].kind = kind}

\* Mutant of Thrashed: a reload in the step of the eviction counts as well.
ThrashedSameStep(e) ==
    \E r \in Events("recall") :
        /\ trail[r].stub = trail[e].stub
        /\ trail[r].step >= trail[e].step
        /\ trail[r].step - trail[e].step <= ThrashingWindow

(* hysteresis_analysis: evictions that a reload follows within the window, *)
(* by their steps.                                                         *)
Thrashed(e) ==
    \E r \in Events("recall") :
        /\ trail[r].stub = trail[e].stub
        /\ trail[r].step > trail[e].step
        /\ trail[r].step - trail[e].step <= ThrashingWindow
ThrashingEvents == Cardinality({e \in Events("eviction") : Thrashed(e)})

\* Steps each evicted fragment was loaded for, since its latest load.
LoadedDurations ==
    LET LoadSteps(e) ==
            {trail[r].step : r \in {r \in Events("recall") :
                trail[r].stub = trail[e].stub /\ trail[r].step <= trail[e].step}}
    IN  [e \in {e \in Events("eviction") : LoadSteps(e) # {}} |->
            trail[e].step - Max(LoadSteps(e))]

\* Thresholds in percent, five of them for each thrashing event up to four.
Suggested(load, unload) ==
    LET gap == 5 * Min({ThrashingEvents, 4})
    IN  [load |-> Min({load + gap, 95}),
         unload |-> Max({IF gap > unload THEN 0 ELSE unload - gap, 10})]

\* cooperation_metrics.
Cooperation ==
    [per_turn |-> Ratio(Len(probes), turns),
     useful |-> Ratio(Cardinality({i \in DOMAIN probes : probes[i]}), Len(probes))]

(* What the report says of the session.  With a session file it is the    *)
(* session's: an eviction counted as thrashing was followed by a reload of *)
(* the same fragment, and an eviction that ends a load is never counted    *)
(* for longer than that load (a reload later in the same turn is taken for *)
(* it, and shortens it).  Loads and evictions carry the steps of two       *)
(* clocks, the evaluator's and the orchestrator's, and without a session   *)
(* file the second one stands: every eviction is taken for one of the      *)
(* first turn, so it counts as thrashing iff its fragment was recalled in  *)
(* the next turns of the window, before or after it, and no load is        *)
(* counted for longer than no time.  The thresholds suggested stay apart.  *)
EndsLoad(e, r) ==
    /\ r \in Events("recall") /\ r < e /\ trail[r].stub = trail[e].stub
    /\ \A k \in (r + 1)..(e - 1) : trail[k].stub # trail[e].stub

EventsCompare ==
    /\ \A e \in Events("eviction") : Thrashed(e) =>
          \E r \in Events("recall") : r > e /\ trail[r].stub = trail[e].stub
    /\ \A e \in Events("eviction"), r \in DOMAIN trail : EndsLoad(e, r) =>
          e \in DOMAIN LoadedDurations /\ LoadedDurations[e] <= trail[e].step - trail[r].step

EvictionsCountFromTheStart ==
    /\ \A e \in Events("eviction") : Thrashed(e) <=>
          \E r \in Events("recall") :
              trail[r].stub = trail[e].stub /\ trail[r].step \in 1..ThrashingWindow
    /\ \A e \in DOMAIN LoadedDurations : LoadedDurations[e] = 0

ReportIsSound ==
    /\ session_file => EventsCompare
    /\ ~session_file => EvictionsCountFromTheStart
    /\ LET next == Suggested(70, 50) IN next.unload < next.load
    /\ Cooperation.useful[1] <= Cooperation.useful[2]

=============================================================================

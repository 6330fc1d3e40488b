------------------------------- MODULE Metrics -------------------------------
(***************************************************************************)
(* The numbers a run is judged by: the metrics of caw-eval/src/metrics.rs  *)
(* over sets of terms and lists of stubs, and the scores of the bench      *)
(* (caw-bench/src/judge.rs and intent.rs).  A ratio is a pair              *)
(* <<numerator, denominator>>.                                             *)
(***************************************************************************)
EXTENDS Integers, Sequences, SequencesExt, FiniteSets, FiniteSetsExt

\* Of nothing: 0.
Ratio(n, d) == IF d = 0 THEN <<0, 1>> ELSE <<n, d>>

TermOverlap(a, b) == Ratio(Cardinality(a \cap b), Cardinality(a \cup b))

\* Nothing expected, or nothing retrieved, is a perfect score.
RecallAtK(expected, retrieved, k) ==
    LET top == SubSeq(retrieved, 1, Min({k, Len(retrieved)}))
        hits == Cardinality({i \in DOMAIN top : top[i] \in expected})
    IN  [recall |-> IF expected = {} THEN <<1, 1>> ELSE <<hits, Cardinality(expected)>>,
         precision |-> IF top = << >> THEN <<1, 1>> ELSE <<hits, Len(top)>>]

\* Recalls whose terms and summary overlap below the threshold, in percent.
FalseRecalls(observations, threshold) ==
    {o \in observations :
        LET ratio == TermOverlap(o.summary, o.content)
        IN  o.flagged \/ 100 * ratio[1] < threshold * ratio[2]}

(* The bench's classifier scores: a field the model left out is a "no".    *)
ClassifyField(expected, predicted, emitted, field) ==
    LET effective == field \in emitted /\ field \in predicted
    IN  IF field \in expected THEN IF effective THEN "TP" ELSE "FN"
        ELSE IF effective THEN "FP" ELSE "TN"
ScoreCase(expected, predicted, emitted, fields) ==
    LET Count(o) == Cardinality({f \in fields :
                        ClassifyField(expected, predicted, emitted, f) = o})
    IN  [exact_match |-> Count("FP") = 0 /\ Count("FN") = 0, tp |-> Count("TP"),
         fp |-> Count("FP"), tn |-> Count("TN"), fn_count |-> Count("FN")]

Precision(s) == Ratio(s.tp, s.tp + s.fp)
RecallOf(s) == Ratio(s.tp, s.tp + s.fn_count)
Accuracy(s) == Ratio(s.tp + s.tn, s.tp + s.fp + s.tn + s.fn_count)

-----------------------------------------------------------------------------
(* judge_answer: a reply is a sequence of parts [part, score], part "open", *)
(* "close", "text" or "score" (in percent).  Between the first brace and   *)
(* the last, a block that is JSON gives its score; of one that is not, the *)
(* score is recovered when it can be read.                                 *)
NoVerdict == [ok |-> FALSE]
JudgeAnswer(reply) ==
    LET At(part) == {i \in DOMAIN reply.parts : reply.parts[i].part = part}
        scores == {i \in At("score") : Min(At("open")) < i /\ i < Max(At("close"))}
    IN  IF ~reply.ok \/ At("open") = {} \/ At("close") = {} THEN NoVerdict
        ELSE IF scores = {} THEN NoVerdict
        ELSE [ok |-> TRUE, score |-> Max({0, Min({reply.parts[Min(scores)].score, 100})})]
=============================================================================

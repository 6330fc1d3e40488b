---------------------------- MODULE Classification ----------------------------
(***************************************************************************)
(* How a question of the command line gets its intent (run_interactive,    *)
(* caw-cli/src/main.rs): the classifiers are asked one after the other,    *)
(* those that fail are left out, and the votes of the others are merged.   *)
(***************************************************************************)
EXTENDS QueryIntents

CONSTANTS
    Classifiers,        \* the number of intent adapters
    Emissions,          \* what a classifier may emit
    Confidences,        \* the confidence of the merged vote; -1 is none
    MinConfidence       \* intent_confidence

ASSUME ClassificationAssumption ==
    /\ Classifiers \in Nat
    /\ \A emitted \in Emissions : DOMAIN emitted \subseteq Keys

VARIABLES
    asked,      \* classifiers asked about this question
    votes,      \* what those that answered emitted
    merged,     \* the merged intent
    guidance,   \* what the answer model is told
    signals,    \* what the workspace is augmented for
    turning     \* the turn runs with them

classVars == <<asked, votes, merged, guidance, signals, turning>>

ClassInit ==
    /\ asked = 0 /\ votes = << >> /\ merged = NoIntent
    /\ guidance = NoGuidance /\ signals = NoSignals /\ turning = FALSE

(* classify_query_intent: a reply without a JSON object, or with a field   *)
(* that is no Boolean, is an error, as is that of the adapter.             *)
ClassifierAnswers ==
    /\ ~turning /\ asked < Classifiers
    /\ asked' = asked + 1
    /\ \E emitted \in Emissions : WellTyped(emitted) /\ votes' = Append(votes, emitted)
    /\ UNCHANGED <<merged, guidance, signals, turning>>

ClassifierFails ==
    /\ ~turning /\ asked < Classifiers
    /\ asked' = asked + 1
    /\ UNCHANGED <<votes, merged, guidance, signals, turning>>

(* Without a vote there is no intent: all is retrieved, nothing guided.    *)
MergeVotes ==
    /\ ~turning /\ asked = Classifiers
    /\ turning' = TRUE
    /\ merged' = MajorityVote([i \in DOMAIN votes |-> FromClassifierResponse(votes[i])])
    /\ \E confidence \in Confidences :
          IF votes # << >> /\ IsActionable(merged', confidence, MinConfidence)
          THEN guidance' = GuidanceLines(merged') /\ signals' = AugmentationSignals(merged')
          ELSE UNCHANGED <<guidance, signals>>
    /\ UNCHANGED <<asked, votes>>

NextQuestion ==
    /\ turning
    /\ asked' = 0 /\ votes' = << >> /\ merged' = NoIntent
    /\ guidance' = NoGuidance /\ signals' = NoSignals /\ turning' = FALSE

ClassNext == ClassifierAnswers \/ ClassifierFails \/ MergeVotes \/ NextQuestion

ClassSpec == ClassInit /\ [][ClassNext]_classVars

-----------------------------------------------------------------------------
SaysField(emitted, f) == \E key \in DOMAIN emitted : key.core = f /\ emitted[key] = "true"
SaysHint(emitted, k) == k \in DOMAIN emitted /\ emitted[k] = "true"

\* More than half of the classifiers that answered.
Most(voices) == 2 * Cardinality(voices) > Len(votes)

(* A field is set iff more than half of the classifiers that answered said *)
(* so, each in its own spelling of the key; one alone is heard, and those  *)
(* that failed count for nothing.  What the turn is guided and augmented   *)
(* by is of that majority, and nothing if the majority abstains.           *)
MajorityOfVoices ==
    LET Agreed(f) == Most({i \in DOMAIN votes : SaysField(votes[i], f)})
    IN  /\ turning => \A f \in Fields : f \in merged.set <=> Agreed(f)
        /\ guidance.fields \cup signals.fields \subseteq {f \in Fields : Agreed(f)}
        /\ \A k \in signals.hints : Most({i \in DOMAIN votes : SaysHint(votes[i], k)})
        /\ "abstain" \in Fields /\ Agreed("abstain") => guidance = NoGuidance /\ signals = NoSignals

=============================================================================

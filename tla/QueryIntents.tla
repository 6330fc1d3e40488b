---------------------------- MODULE QueryIntents ----------------------------
(***************************************************************************)
(* The intent of a query (QueryIntent, caw-core/src/lib.rs): parsing what  *)
(* a classifier emitted, folding near-miss keys into the schema, the vote  *)
(* of several classifiers, and what an intent says to the answer model.    *)
(*                                                                         *)
(* A key is a verb, a core and a suffix: is_ + results + _request.  An     *)
(* emission is a function from the keys to "true", "false" or "text".      *)
(***************************************************************************)
EXTENDS Integers, FiniteSets, FiniteSetsExt, Sequences, SequencesExt, Functions

CONSTANTS
    Schema,     \* the keys of the schema's fields; their cores differ
    Hints,      \* cores that are of no field
    Verbs,      \* VERB_PREFIXES, and "" for none
    Signals     \* the fields of AugmentationSignals

Key(verb, core, request) == [verb |-> verb, core |-> core, request |-> request]
Fields == {key.core : key \in Schema}
Keys == {Key(v, c, r) : v \in Verbs, c \in Fields \cup Hints, r \in BOOLEAN}

ASSUME IntentAssumption ==
    /\ Schema \subseteq Keys /\ Signals \subseteq Fields
    /\ \A k, l \in Schema : k.core = l.core => k = l
    /\ Fields \cap Hints = {}

(* The verb and the suffix go; what is left names the field.               *)
NormalizeIntentKey(key) == key.core

(* serde: the schema's own keys set their fields, the others are extra.    *)
(* A field that is not a Boolean is an error.                              *)
WellTyped(emitted) == \A k \in DOMAIN emitted \cap Schema : emitted[k] # "text"

Deserialized(emitted) ==
    [set   |-> {k.core : k \in {l \in DOMAIN emitted \cap Schema : emitted[l] = "true"}},
     extra |-> Restrict(emitted, DOMAIN emitted \ Schema)]

(* Sticky: a near miss can set a field and never clears it.                *)
ReconcileNearMissKeys(intent) ==
    LET near == {k \in DOMAIN intent.extra :
                    intent.extra[k] # "text" /\ NormalizeIntentKey(k) \in Fields}
    IN  [set   |-> intent.set \cup {NormalizeIntentKey(k) : k \in {l \in near : intent.extra[l] = "true"}},
         extra |-> Restrict(intent.extra, DOMAIN intent.extra \ near)]

FromClassifierResponse(emitted) == ReconcileNearMissKeys(Deserialized(emitted))

NoIntent == [set |-> {}, extra |-> << >>]

\* Mutant of MajorityVote: half of the votes are enough.
HalfVote(votes) ==
    IF votes = << >> THEN NoIntent
    ELSE [set   |-> {f \in Fields :
                        2 * Cardinality({i \in DOMAIN votes : f \in votes[i].set}) >= Len(votes)},
          extra |-> << >>]

(* A strict majority of the votes; one vote is taken as it is.             *)
MajorityVote(votes) ==
    LET threshold == Len(votes) \div 2 + 1
        Agreed(Says(_)) == Cardinality({i \in DOMAIN votes : Says(votes[i])}) >= threshold
        HintKeys == UNION {DOMAIN votes[i].extra : i \in DOMAIN votes}
        Hinted(v, k) == k \in DOMAIN v.extra /\ v.extra[k] = "true"
    IN  CASE Len(votes) = 0 -> NoIntent
          [] Len(votes) = 1 -> votes[1]
          [] OTHER ->
             [set   |-> {f \in Fields : Agreed(LAMBDA v : f \in v.set)},
              extra |-> [k \in {l \in HintKeys : Agreed(LAMBDA v : Hinted(v, l))} |-> "true"]]

-----------------------------------------------------------------------------
(* What the orchestrator loads for, and what the answer model is told.     *)
NoSignals == [fields |-> {}, hints |-> {}]
AugmentationSignals(intent) ==
    [fields |-> intent.set \cap Signals,
     hints |-> {k \in DOMAIN intent.extra : intent.extra[k] = "true"}]

NoGuidance == [fields |-> {}, extras |-> {}]
GuidanceLines(intent) ==
    IF "abstain" \in intent.set THEN NoGuidance
    ELSE [fields |-> intent.set,
          extras |-> {k \in DOMAIN intent.extra : intent.extra[k] # "false"}]

(* confidence is in percent; -1 when no classifier gave one.               *)
IsActionable(intent, confidence, minimum) ==
    "abstain" \notin intent.set /\ (confidence = -1 \/ confidence >= minimum)
=============================================================================

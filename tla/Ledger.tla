-------------------------------- MODULE Ledger --------------------------------
(***************************************************************************)
(* What is remembered of recalled fragments: ProvenanceLedger              *)
(* (caw-core/src/provenance.rs), the notes written at an eviction          *)
(* (caw-orchestrator/src/consolidation.rs) and the handles the bench runs  *)
(* share (caw-bench/src/shared.rs).                                        *)
(*                                                                         *)
(* A text is a sequence of words in lower case.  A ledger is a record of   *)
(* the entries it holds, in order, and of the notes of each stub; a        *)
(* fragment is [stub, source, content].                                    *)
(***************************************************************************)
EXTENDS Naturals, Sequences, SequencesExt, FiniteSets, FiniteSetsExt, Functions

CONSTANTS
    Stopwords,
    MaxTerms,       \* terms kept of a fragment: 20
    MaxNote         \* words of a note's topic

EmptyLedger == [records |-> << >>, entries |-> << >>, notes |-> << >>]

TokenizeTerms(text) == SelectSeq(text, LAMBDA w : w \notin Stopwords)

(* The most frequent terms; which of those that tie depends on the hashes. *)
TopicTermSets(text) ==
    LET terms == TokenizeTerms(text)
        Often(w) == Cardinality({i \in DOMAIN terms : terms[i] = w})
        size == Min({MaxTerms, Cardinality(ToSet(terms))})
    IN  {top \in SUBSET ToSet(terms) :
            /\ Cardinality(top) = size
            /\ \A v \in top, w \in ToSet(terms) \ top : Often(v) >= Often(w)}

Record(ledger, fragment) == [ledger EXCEPT !.records = Append(@, fragment)]

RecordWithContext(ledger, fragment) ==
    {[Record(ledger, fragment) EXCEPT !.entries =
        Append(@, [stub |-> fragment.stub, source |-> fragment.source, terms |-> terms])] :
        terms \in TopicTermSets(fragment.content)}

ConsolidationNotesFor(ledger, stub) ==
    IF stub \in DOMAIN ledger.notes THEN ledger.notes[stub] ELSE << >>

RecordConsolidation(ledger, stub, note) ==
    [ledger EXCEPT !.notes =
        [s \in DOMAIN @ \cup {stub} |->
            IF s = stub THEN Append(ConsolidationNotesFor(ledger, stub), note) ELSE @[s]]]

(* Pairs of different files that share more than 30% of the smaller set.   *)
CheckTopicOverlaps(ledger) ==
    LET e == ledger.entries
        Shared(i, j) == e[i].terms \cap e[j].terms
        Smaller(i, j) == Max({1, Min({Cardinality(e[i].terms), Cardinality(e[j].terms)})})
    IN  {[a |-> e[p[1]].stub, b |-> e[p[2]].stub, shared |-> Shared(p[1], p[2])] :
            p \in {q \in (DOMAIN e) \X (DOMAIN e) :
                q[1] < q[2] /\ e[q[1]].source # e[q[2]].source
                /\ 10 * Cardinality(Shared(q[1], q[2])) > 3 * Smaller(q[1], q[2])}}

\* No heading without an overlap, one line for each.
FormatOverlapWarnings(ledger) ==
    LET lines == CheckTopicOverlaps(ledger) IN IF lines = {} THEN << >> ELSE <<"heading", lines>>

-----------------------------------------------------------------------------
TruncateStr(text, max) ==
    IF Len(text) <= max THEN text ELSE SubSeq(text, 1, max - 1) \o <<"...">>

Mechanical(fragment, query) ==
    [ok |-> TRUE, note |-> [by |-> "code", source |-> fragment.source, query |-> TruncateStr(query, MaxNote),
                            topic |-> TruncateStr(fragment.content, MaxNote)]]

(* The answer of the model; a blank one is replaced, an error passed on.   *)
LlmSynthesis(fragment, query, reply) ==
    IF ~reply.ok THEN [ok |-> FALSE]
    ELSE IF reply.answer = << >> THEN Mechanical(fragment, query)
    ELSE [ok |-> TRUE, note |-> [by |-> "model", text |-> reply.answer]]

-----------------------------------------------------------------------------
(* The shared handles of a bench run: the store and the index are behind   *)
(* mutexes; what a poisoned one answers.  A handle is [poisoned, store] or *)
(* [poisoned, points].                                                     *)
LockError == [ok |-> FALSE]
Locked(handle, result) == IF handle.poisoned THEN LockError ELSE [ok |-> TRUE, value |-> result]

\* Writes through SharedStore, and through ReadOnlyStore, which drops them.
SharedInsert(handle, row) ==
    IF handle.poisoned THEN handle ELSE [handle EXCEPT !.store.rows = @ \cup {row}]
SharedNote(handle, note) ==
    IF handle.poisoned THEN handle ELSE [handle EXCEPT !.store.notes = Append(@, note)]
ReadOnlyInsert(handle, row) == handle
ReadOnlyNote(handle, note) == handle
SharedRows(handle) == Locked(handle, handle.store.rows)
SharedNotes(handle) == Locked(handle, handle.store.notes)

\* SharedIndex: a poisoned index drops what is added and finds nothing.
SharedAdd(handle, point) ==
    IF handle.poisoned THEN handle ELSE [handle EXCEPT !.points = Append(@, point)]
SharedSearch(handle, found) == IF handle.poisoned THEN << >> ELSE found
SharedLen(handle) == IF handle.poisoned THEN 0 ELSE Len(handle.points)
=============================================================================

------------------------------ MODULE Retrieval ------------------------------
(***************************************************************************)
(* How stubs are found (caw-index): the vector and the BM25 index, which   *)
(* Fusion ranks together, the ranges read of a stub, and the expansion of  *)
(* hits along structural edges.                                            *)
(*                                                                         *)
(* A stub id is a number, its place in the order of ids.  A hit is an id   *)
(* and a score; floating point scores are integers of one scale.           *)
(***************************************************************************)
EXTENDS Integers, Sequences, SequencesExt, FiniteSets, FiniteSetsExt, ContentRanges

Hit(id, score) == [id |-> id, score |-> score]
Take(s, k) == SubSeq(s, 1, IF k < Len(s) THEN k ELSE Len(s))
HitIds(hits) == {hits[i].id : i \in DOMAIN hits}

\* Descending scores; equal ones by their id, or in every order.
ByIdAtTies(a, b) == a.score > b.score \/ (a.score = b.score /\ a.id < b.id)
InAnyOrder(found) ==
    {s \in SetToSeqs(found) : \A i, j \in DOMAIN s : i < j => s[i].score >= s[j].score}

-----------------------------------------------------------------------------
(* BM25: documents in the order they were added, each with its terms; a    *)
(* second add of an id is a second document.                               *)
Bm25Add(docs, id, terms) == Append(docs, [id |-> id, terms |-> terms])

\* score[i] is the BM25 score of document i.
Bm25Search(docs, query, score, k) ==
    LET matches == {i \in DOMAIN docs : docs[i].terms \cap query # {}}
        order == SetToSortSeq(matches, LAMBDA i, j :
                     ByIdAtTies(Hit(docs[i].id, score[i]), Hit(docs[j].id, score[j])))
    IN  Take([n \in DOMAIN order |-> Hit(docs[order[n]].id, score[order[n]])], k)

\* build_bm25_over_store: what cannot be read is left out.
BuildBm25OverStore(ids, readable, terms) ==
    FoldLeft(LAMBDA docs, id : IF id \in readable THEN Bm25Add(docs, id, terms[id]) ELSE docs,
             << >>, ids)

(* The flat scan: points in the order of insertion, stable at ties.        *)
FlatSearch(points, similarity, k) ==
    LET order == SetToSortSeq(DOMAIN points, LAMBDA i, j :
                     \/ similarity[points[i]] > similarity[points[j]]
                     \/ similarity[points[i]] = similarity[points[j]] /\ i < j)
    IN  Take([n \in DOMAIN order |-> Hit(points[order[n]], similarity[points[order[n]]])], k)

(* HNSW: points are staged and the graph is rebuilt by the next search or  *)
(* save.  A search may find any part of the graph.                         *)
NoGraph == [points |-> << >>, graph |-> << >>, dirty |-> FALSE]
HnswAdd(index, id) == [index EXCEPT !.points = Append(@, id), !.dirty = TRUE]
EnsureBuilt(index) ==
    IF index.dirty \/ index.graph = << >> THEN [index EXCEPT !.graph = index.points, !.dirty = FALSE] ELSE index
HnswSave(index) == EnsureBuilt(index)
HnswLoad(file) == [file EXCEPT !.dirty = FALSE]
HnswSearches(index, similarity, k) ==
    LET graph == EnsureBuilt(index).graph
    IN  {FlatSearch([i \in 1 .. Cardinality(found) |-> graph[SetToSortSeq(found, <)[i]]], similarity, k) :
            found \in SUBSET DOMAIN graph}

-----------------------------------------------------------------------------
\* SemanticRetriever::search: hits whose stub is gone are skipped.
SemanticSearch(hits, stored, k) == SelectSeq(Take(hits, k), LAMBDA h : h.id \in stored)

-----------------------------------------------------------------------------
NotFound == [found |-> FALSE, content |-> << >>]
(* "stub" reads the summary and the outline, without the body.             *)
ReadRange(stub, readable, locator) ==
    IF locator = <<"stub">> THEN [found |-> TRUE, content |-> stub.summary \o stub.outline]
    ELSE IF ~readable THEN NotFound
    ELSE [found |-> TRUE, content |-> Apply(Parse(locator), stub.body).text]

(* InMemoryIndex: where the whole query occurs, else its words.            *)
ScoreQueryAgainstStub(query, stub) ==
    LET Within(text) == IsPrefix(query, text) \/ \E i \in DOMAIN text : IsPrefix(query, SubSeq(text, i, Len(text)))
        whole == (IF Within(stub.path) THEN 8 ELSE 0) + (IF Within(stub.summary) THEN 6 ELSE 0)
                 + (IF Within(stub.outline) THEN 4 ELSE 0)
        all == ToSet(stub.path \o stub.summary \o stub.outline)
        matched == Cardinality({i \in DOMAIN query : query[i] \in all})
    IN  IF whole # 0 THEN whole ELSE (10 * matched) \div Max({1, Len(query)})

-----------------------------------------------------------------------------
(* Structural edges [src, dst, relation, weight]: a rebuild replaces all   *)
(* of them, one per source, target and relation, the last one written.     *)
ReplaceEdges(edges) ==
    {edges[i] : i \in {j \in DOMAIN edges : \A k \in j + 1 .. Len(edges) :
        <<edges[k].src, edges[k].dst, edges[k].relation>> # <<edges[j].src, edges[j].dst, edges[j].relation>>}}

Neighbors(edges, seeds, relations) ==
    LET known == {e \in edges : e.relation \in relations}
    IN  {[seed |-> e.src, neighbor |-> e.dst, weight |-> e.weight] : e \in {d \in known : d.src \in seeds}}
        \cup {[seed |-> e.dst, neighbor |-> e.src, weight |-> e.weight] : e \in {d \in known : d.dst \in seeds}}

(* Scores in units of a hundredth of the hits': discount and weight are in *)
(* tenths.  A neighbour gets its best score and is no hit itself.          *)
PlanExpansions(seeds, neighbors, discount, maxNeighbors) ==
    LET ScoreOf(id) == seeds[CHOOSE i \in DOMAIN seeds : seeds[i].id = id].score
        reached == {n \in neighbors : n.neighbor \notin HitIds(seeds) /\ n.seed \in HitIds(seeds)}
        Best(id) == Max({ScoreOf(n.seed) * discount * n.weight : n \in {m \in reached : m.neighbor = id}})
    IN  {Take(s, maxNeighbors) : s \in InAnyOrder({Hit(n.neighbor, Best(n.neighbor)) : n \in reached})}

(* The chunk that covers a byte, or the last one before it.                *)
NoStub == 0
StubForByte(geometry, byte) ==
    LET covers == {i \in DOMAIN geometry :
                     geometry[i].offset <= byte /\ byte < geometry[i].offset + geometry[i].length}
        before == {i \in DOMAIN geometry : geometry[i].offset <= byte}
        last == {i \in before : \A j \in before : geometry[j].offset <= geometry[i].offset}
    IN  IF covers # {} THEN geometry[Min(covers)].id
        ELSE IF before = {} THEN NoStub ELSE geometry[Max(last)].id

LineStartOffsets(lengths) ==
    FoldLeft(LAMBDA starts, n : Append(starts, Last(starts) + n + 1), <<0>>, lengths)
ByteOffsetOfLine(starts, line) ==
    IF line = 0 THEN 0 ELSE starts[Min({line, Len(starts)})]
=============================================================================

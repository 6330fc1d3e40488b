----------------------------- MODULE MCOperations -----------------------------
(***************************************************************************)
(* The pure operations of the library, each applied to every one of a few  *)
(* small inputs: a behaviour picks an operation and an input, and case     *)
(* records the input beside what the operators make of it.                 *)
(***************************************************************************)
EXTENDS Naturals, Sequences, SequencesExt, FiniteSets, TLC

VARIABLE case

A == INSTANCE AdapterReplies
K == INSTANCE ModelMarkers

O == INSTANCE Outlines WITH MaxEntries <- 2
R == INSTANCE Retrieval WITH MaxNumber <- 3, WordSize <- 2
D == INSTANCE Ledger WITH Stopwords <- {"the"}, MaxTerms <- 2, MaxNote <- 2
J == INSTANCE Metrics

ASSUME R!RangeAssumption

Is(operation) == case.of = operation
Texts(letters, n) == UNION {[1 .. k -> letters] : k \in 0 .. n}

-----------------------------------------------------------------------------
\* Twenty times one word: a loop.
Looping == [i \in 1 .. 20 |-> "w"]
Paragraphs == {<< >>, <<"t">>, <<"t", A!Gap, "u">>, Looping}
Said == {<< >>, <<"a">>, <<"a", A!Break, "b">>, Looping, <<"a", A!ImEnd, "b">>}

\* A reply with one block of thinking, closed or not, or without one.
ReadReply ==
    \E thought \in Paragraphs, said \in Said, block \in {"none", "closed", "open"} :
        LET raw == IF block = "none" THEN said
                   ELSE IF block = "closed" THEN <<A!Think>> \o thought \o <<A!EndThink>> \o said
                   ELSE said \o <<A!Think>> \o thought
            reply == A!Chat(raw, A!NoThinking)
        IN  case' = [of |-> "reply", thought |-> thought, said |-> A!TruncateAtChatBoundary(said),
                     ollama |-> A!OllamaComplete(reply), llama |-> A!LlamaComplete(raw),
                     plain |-> {A!OpenAiComplete(reply), A!GroqComplete(reply),
                                A!AnthropicComplete(reply), A!ClaudeResult("answer", raw)},
                     traced |-> A!StepsOf(A!OllamaComplete(reply)),
                     logged |-> {A!LogPrompt(A!LlamaPassive(raw), file) : file \in {"written", "broken"}},
                     scripted |-> A!Advance(<<thought, said>>, Len(raw) + 1),
                     fired |-> {A!LlamaSteps(raw, refused) : refused \in 0 .. 1},
                     object |-> A!ExtractJsonObject(<<A!Open>> \o said \o <<A!Shut>>)]

\* What a marked answer is made of: words, notes, probes and thoughts.
Segments == {<<"w">>, <<K!Note("a"), "n", K!EndNote>>, <<K!Probe, "p", K!EndProbe>>,
             <<K!Think, "t", K!Break, "t", K!EndThink>>, <<K!ImEnd>>, <<K!Break>>}
ReadMarkers ==
    \E parts \in UNION {[1 .. k -> Segments] : k \in 0 .. 3} :
        LET text == FlattenSeq(parts)
        IN  case' = [of |-> "markers", parts |-> parts, answer |-> K!StripMarkers(text),
                     probes |-> K!ExtractProbes(text), notes |-> K!ExtractAnnotations(text),
                     thoughts |-> K!ExtractThinkingSteps(text),
                     split |-> K!SplitAtBoundary(text, K!Break),
                     fakes |-> K!CountFakeRecallMarkers(text),
                     lines |-> K!ExtractLineReferences(<<[source |-> "f", start |-> 3, end |-> Len(text)]>>),
                     stubs |-> K!ExtractStubReferences(
                         K!Transform([k \in DOMAIN parts |-> [kind |-> "at", path |-> parts[k][1]]], {"w"}).transformed)]

-----------------------------------------------------------------------------
Node(kind, start, end) ==
    [kind |-> kind, name |-> kind, start |-> start, end |-> end, kids |-> << >>]
\* The items of a file start at offsets 0, with a comment, and 4; both start a character.
Items == <<Node("line_comment", 0, 1), Node("struct_item", 1, 2), Node("use_declaration", 2, 3),
           Node("function_item", 4, 6)>>

(* The outline of a class with a method in each language, and what is      *)
(* said of a file when the model is asked for a summary.                   *)
Outline ==
    \E extension \in {"rs", "py", "js", "ts", "go", "txt"}, kind \in {"code", "markdown", "text"},
      reply \in {[ok |-> FALSE], [ok |-> TRUE, text |-> << >>], [ok |-> TRUE, text |-> <<"said">>]} :
        LET Tree(k, kids) ==
                [kind |-> k, name |-> k, start |-> 0, end |-> 9, kids |-> kids, pub |-> TRUE, async |-> FALSE]
            nodes == <<Tree("impl_item", <<Tree("declaration_list", <<Tree("function_item", << >>)>>)>>),
                       Tree("class_definition", <<Tree("block", <<Tree("function_definition", << >>)>>)>>),
                       Tree("export_statement", <<Tree("class_declaration",
                           <<Tree("method_definition", << >>)>>)>>),
                       Tree("enum_declaration", << >>),
                       Tree("type_declaration", <<Tree("type_spec", <<Tree("struct_type", << >>)>>)>>)>>
            outline == O!ExtractOutlineTreeSitter(nodes, extension)
            lines == <<[text |-> "", heading |-> FALSE], [text |-> "t", heading |-> TRUE],
                       [text |-> "p", heading |-> FALSE]>>
        IN  case' = [of |-> "outline", outline |-> outline,
                     docs |-> O!ExtractDocLines(Items, O!ExtractItemSpans(Items, "rs")[1], 2),
                     summary |-> O!LlmSummarize(kind, lines, outline, reply)]

\* What the bench makes of a classification and of a judge's reply.
Appraise ==
    \E expected, predicted, emitted \in SUBSET {"list", "count"}, score \in {0, 40, 120}, flagged \in BOOLEAN :
        LET marks == J!ScoreCase(expected, predicted, emitted, {"list", "count"})
            Part(part, n) == [part |-> part, score |-> n]
        IN  case' = [of |-> "appraisal", exact |-> marks.exact_match, precision |-> J!Precision(marks),
                     recall |-> J!RecallOf(marks), accuracy |-> J!Accuracy(marks),
                     surprises |-> J!FalseRecalls(
                         {[summary |-> expected, content |-> predicted, flagged |-> flagged]}, 50),
                     verdict |-> J!JudgeAnswer([ok |-> ~flagged,
                         parts |-> <<Part("open", 0), Part("score", score), Part("close", 0)>>])]

Body == [lines |-> <<[level |-> 1, text |-> <<"h">>], [level |-> 0, text |-> <<"w">>]>>,
         tokens |-> <<[token |-> "h"], [token |-> "w"]>>]
Recall ==
    \E i, j \in 0 .. 3, kind \in {"lines", "tokens", "heading"}, readable, poisoned \in BOOLEAN :
        LET range == CASE kind = "lines" -> R!LineRange(i, j)
                       [] kind = "tokens" -> R!TokenRange(i, j)
                       [] kind = "heading" -> R!Heading(<<<<"h">>>>)
            stub == [path |-> <<"f">>, summary |-> <<"s">>, outline |-> << >>, body |-> Body]
            Fragment(id, source, content) == [stub |-> id, source |-> source, content |-> content]
            first == Fragment("a", "f", <<"w">>)
            ledgers == UNION {D!RecordWithContext(l, Fragment("b", "g", <<"the", "h", "w">>)) :
                         l \in D!RecordWithContext(D!EmptyLedger, first)}
            note == D!LlmSynthesis(first, <<"q">>, [ok |-> readable, answer |-> << >>])
            shared == [poisoned |-> poisoned, store |-> [rows |-> {}, notes |-> << >>], points |-> << >>]
            shown == [id |-> "a", source |-> "f", locator |-> R!ToLocatorString(range), content |-> first.content]
        IN  case' = [of |-> "recall", range |-> range,
                     read |-> R!Parse(R!ToLocatorString(range)),
                     content |-> R!ReadRange(stub, readable, R!ToLocatorString(range)),
                     lexical |-> R!ScoreQueryAgainstStub(<<"s">>, stub),
                     shown |-> R!FormatWorkspace(<<shown>>, << >>, <<<<"hint">>>>),
                     overlaps |-> {D!FormatOverlapWarnings(l) : l \in ledgers},
                     noted |-> {D!RecordConsolidation(l, "a", note) : l \in ledgers},
                     rows |-> D!SharedRows(D!ReadOnlyInsert(D!SharedInsert(shared, "a"), "b")),
                     notes |-> D!SharedNotes(D!ReadOnlyNote(D!SharedNote(shared, "n"), "m")),
                     points |-> D!SharedLen(D!SharedAdd(shared, "a")), nearest |-> D!SharedSearch(shared, <<"a">>)]

(* Three stubs, each with a score or left out of the index; what the       *)
(* indexes answer.                                                         *)
Unscored == -2
StubScores == [1 .. 3 -> {Unscored, -1, 2}]
IndexHits(near, graph) ==
    LET points == SelectSeq(<<3, 1, 2>>, LAMBDA id : near[id] # Unscored)
        built == FoldLeft(LAMBDA index, id : R!HnswAdd(index, id), R!NoGraph, points)
    IN  IF graph THEN R!HnswSearches(R!HnswLoad(R!HnswSave(built)), near, 3) ELSE {R!FlatSearch(points, near, 3)}
WordHits(often) ==
    LET docs == R!BuildBm25OverStore(<<1, 2, 3>>, {id \in 1 .. 3 : often[id] > Unscored}, [id \in 1 .. 3 |-> {"q"}])
    IN  R!Bm25Search(docs, {"q"}, [i \in DOMAIN docs |-> often[docs[i].id] + 2], 3)

\* The last stub may be gone from the store.
SearchIndex ==
    \E near \in StubScores, gone, graph \in BOOLEAN :
        LET stored == IF gone THEN {1, 2} ELSE {1, 2, 3}
            edges == R!ReplaceEdges(<<[src |-> 1, dst |-> 3, relation |-> "calls", weight |-> 5]>>)
            starts == R!LineStartOffsets(<<4, 2>>)
        IN  \E semantic \in IndexHits(near, graph) :
                LET found == R!SemanticSearch(semantic, stored, 2)
                IN  case' = [of |-> "search", semantic |-> semantic, stored |-> stored,
                             expanded |-> R!PlanExpansions(found, R!Neighbors(edges, R!HitIds(found), {"calls"}), 8, 2),
                             covering |-> R!StubForByte(<<[id |-> 1, offset |-> 0, length |-> 5]>>,
                                                        R!ByteOffsetOfLine(starts, 2)),
                             listed |-> R!CandidateListFragment(
                                 [i \in DOMAIN found |-> [path |-> "f", score |-> found[i].score]], 0),
                             judged |-> J!RecallAtK({1}, [i \in DOMAIN found |-> found[i].id], 2)]

OperationsInit == case = [of |-> "start"]
OperationsNext ==
    /\ Is("start")
    /\ \/ ReadReply \/ ReadMarkers
       \/ Outline \/ Appraise \/ Recall \/ SearchIndex
OperationsSpec == OperationsInit /\ [][OperationsNext]_case

-----------------------------------------------------------------------------
(* The two adapters that split a reply pass their verdict on the answer    *)
(* alone: a loop in the thought fails no call, and a thought hides no      *)
(* loop.  A call that succeeds gives the whole answer and not a word of    *)
(* the thought, whether its block is closed or not.                        *)
ThoughtStaysOutOfAnswer ==
    Is("reply") =>
        \A completion \in {case.ollama, case.llama} :
            IF A!Blank(case.said) \/ A!DetectLoop(case.said) THEN ~completion.ok
            ELSE completion.ok /\ completion.answer = A!Trim(case.said)

(* What the user sees of an answer are its words and the text of its notes *)
(* in their order, and the orchestrator reads every marker they came with. *)
MarkersGone ==
    Is("markers") =>
        LET Holding(opens) == SelectSeq(case.parts, LAMBDA part : part[1] \in opens)
            spoken == [i \in DOMAIN case.parts |->
                         CASE case.parts[i][1] = "w" -> <<"w">>
                           [] case.parts[i][1] \in K!Notes -> <<"n">>
                           [] OTHER -> << >>]
        IN  /\ A!Words(case.answer) = FlattenSeq(spoken)
            /\ Len(case.probes) = Len(Holding({K!Probe}))
            /\ Len(case.notes) = Len(Holding(K!Notes))
=============================================================================

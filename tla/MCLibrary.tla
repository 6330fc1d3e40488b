------------------------------- MODULE MCLibrary -------------------------------
(***************************************************************************)
(* The parts of the library that hold state of their own, and its pure     *)
(* operations, side by side: they are composed elsewhere (RecallTurn,      *)
(* MonitoredTurn) or not at all, so a behaviour picks one of them and      *)
(* takes the steps of its module, while the variables of the others keep   *)
(* their initial values.                                                   *)
(***************************************************************************)
EXTENDS ReindexQueue, Workspace, Degradation, RecallLoop, LlamaGeneration, Evaluation,
        Classification, Chunking, Curation,
        Fusion, ThinkingStream, SessionLog, MCOperations

VARIABLE part

MCStubTokens == [s \in {"a", "b", "c"} |-> IF s = "a" THEN 1 ELSE 2]
MCMaxCalls == [c \in {"embedding", "summary"} |-> IF c = "embedding" THEN 9 ELSE 1]

\* Two chunks of one file, a chunk of another and two turns of session history.
MCSourceOf == "a1" :> "A" @@ "a2" :> "A" @@ "b1" :> "B" @@ "h1" :> "H" @@ "h2" :> "H"

\* Three fields, a hint; one key, or a field in both spellings.
MCField(core) == Key("is", core, FALSE)
MCSchema == {MCField("list"), MCField("count"), MCField("abstain")}
MCEmissions ==
    LET values == {"true", "false", "text"}
        keys == {MCField("list"), MCField("abstain"), Key("", "list", FALSE), Key("", "tone", FALSE)}
    IN  UNION {[held -> values] : held \in {{}} \cup {{k} : k \in keys}}
        \cup [{MCField("list"), Key("", "list", FALSE)} -> values]

(* Documents of up to five characters, the long one of two bytes; one      *)
(* whose fifth byte starts a character may be Rust.                        *)
MCTexts == {FlattenSeq(s) : s \in Texts({<<Newline>>, <<"x">>, <<LeadByte, Continuation>>}, 5)}
MCSpans ==
    LET items == O!ExtractItemSpans(Items, "rs")
    IN  [i \in DOMAIN items |-> [start |-> items[i].start, end |-> items[i].end, header |-> <<"x">>]]
MCDocuments ==
    [content : MCTexts, outline : {<<<<"x">>>>}, spans : {<< >>}]
    \cup [content : {text \in MCTexts : Len(text) > 5 /\ text[5] # Continuation},
          outline : {<<<<"x">>>>}, spans : {MCSpans}]
MCConfigs == [target : {1, 3, 6}, cap : {4}, overlap : {0, 2}, threshold : {0}]
MCLeastConfig == [target |-> 1, cap |-> 3, overlap |-> 0]

\* Turns of every role and size; every other sentence carries a signal.
MCSentences == [text : {"a", "b"}, signal : BOOLEAN]
MCTurn(role, required, n) ==
    [role |-> role, inline_required |-> required, tokens |-> n,
     content |-> [i \in 1 .. n |-> [text |-> IF i % 2 = 1 THEN "a" ELSE "b", signal |-> i % 2 = 0]]]
MCTurns == {MCTurn("user", FALSE, 3), MCTurn("tool", FALSE, 2), MCTurn("tool", FALSE, 6), MCTurn("tool", TRUE, 2)}
MCReplies == {<< >>, <<[text |-> "a", signal |-> FALSE]>>}
MCSummaryTokens == [s \in Seq(MCSentences) |-> Len(s)]

\* Every prompt of up to four characters; then every conversation of up to three turns.
MCConversations ==
    [prompt : Texts({"x", Space, LineBreak, FullStop}, 4), turns : {<< >>}, budget : 0 .. 2, context : {100},
     truncate : BOOLEAN, summarizer : {"extract"}, compressor : {"extract"}]
    \cup [prompt : {<<"x", Space, FullStop, "x">>}, turns : Texts(MCTurns, 3), budget : {1}, context : {0, 100},
          truncate : {TRUE}, summarizer : {"model", "extract"}, compressor : {"model", "extract"}]

\* What the indexes answer; the last stub may be gone from the store.
MCMatches ==
    [semantic : UNION {IndexHits(near, graph) : near \in StubScores, graph \in BOOLEAN},
     lexical : {WordHits(often) : often \in StubScores}, stored : {{1, 2}, {1, 2, 3}}]

\* A query that quotes markers; answers of two sentences and with a heading in them.
MCQueries == {<<"assistant", "degenerate", "word">>}
MCAnswers == {<<"word", "stop", "word", "word">>, <<"break", "heading", "numeral", "user">>}

\* Samples with a field of their own; the last one imitates a turn.
MCSamples ==
  {<<"word">>, <<"break", "break", "assistant", "word">>, <<"break", "heading", "numeral", "user", "word">>}

-----------------------------------------------------------------------------
Parts == {"queue", "workspace", "monitor", "llama", "loop", "evaluation", "classification",
          "chunking", "curation", "fusion", "stream", "session", "operations"}

libraryVars == <<part, vars, wsVars, monVars, llamaVars, loopVars, evaluationVars, classVars, chunkVars, curationVars,
                 fusionVars, streamVars, logVars, case>>

\* A part that is not picked has one initial state.
LibraryInit ==
    /\ part \in Parts
    /\ Init /\ WsInit /\ MonInit /\ GenInit /\ LoopInit /\ EvaluationInit /\ ClassInit
    /\ ChunkInit /\ CurationInit /\ FusionInit /\ StreamInit /\ SessionInit /\ OperationsInit
    /\ part # "loop" => kind = "plain"

\* The steps of the queue, which is the part with fairness.
QueueSteps(step) ==
    /\ part = "queue" /\ step
    /\ UNCHANGED <<part, wsVars, monVars, llamaVars, loopVars, evaluationVars, classVars, chunkVars, curationVars, fusionVars, streamVars, logVars, case>>

LibraryNext ==
    \/ QueueSteps(Next)
    \/ /\ UNCHANGED part
       /\ \/ /\ part = "workspace" /\ WsNext
             /\ UNCHANGED <<vars, monVars, llamaVars, loopVars, evaluationVars, classVars, chunkVars, curationVars, fusionVars, streamVars, logVars, case>>
          \/ /\ part = "monitor" /\ MonNext
             /\ UNCHANGED <<vars, wsVars, llamaVars, loopVars, evaluationVars, classVars, chunkVars, curationVars, fusionVars, streamVars, logVars, case>>
          \/ /\ part = "llama" /\ GenNext
             /\ UNCHANGED <<vars, wsVars, monVars, loopVars, evaluationVars, classVars, chunkVars, curationVars, fusionVars, streamVars, logVars, case>>
          \/ /\ part = "loop" /\ LoopNext
             /\ UNCHANGED <<vars, wsVars, monVars, llamaVars, evaluationVars, classVars, chunkVars, curationVars, fusionVars, streamVars, logVars, case>>
          \/ /\ part = "evaluation" /\ EvaluationNext
             /\ UNCHANGED <<vars, wsVars, monVars, llamaVars, loopVars, classVars, chunkVars, curationVars, fusionVars, streamVars, logVars, case>>
          \/ /\ part = "classification" /\ ClassNext
             /\ UNCHANGED <<vars, wsVars, monVars, llamaVars, loopVars, evaluationVars, chunkVars, curationVars, fusionVars, streamVars, logVars, case>>
          \/ /\ part = "chunking" /\ ChunkNext
             /\ UNCHANGED <<vars, wsVars, monVars, llamaVars, loopVars, evaluationVars, classVars, curationVars, fusionVars, streamVars, logVars, case>>
          \/ /\ part = "curation" /\ CurationNext
             /\ UNCHANGED <<vars, wsVars, monVars, llamaVars, loopVars, evaluationVars, classVars, chunkVars, fusionVars, streamVars, logVars, case>>
          \/ /\ part = "fusion" /\ FusionNext
             /\ UNCHANGED <<vars, wsVars, monVars, llamaVars, loopVars, evaluationVars, classVars, chunkVars, curationVars, streamVars, logVars, case>>
          \/ /\ part = "stream" /\ StreamNext
             /\ UNCHANGED <<vars, wsVars, monVars, llamaVars, loopVars, evaluationVars, classVars, chunkVars, curationVars, fusionVars, logVars, case>>
          \/ /\ part = "session" /\ SessionNext
             /\ UNCHANGED <<vars, wsVars, monVars, llamaVars, loopVars, evaluationVars, classVars, chunkVars, curationVars, fusionVars, streamVars, case>>
          \/ /\ part = "operations" /\ OperationsNext
             /\ UNCHANGED <<vars, wsVars, monVars, llamaVars, loopVars, evaluationVars, classVars, chunkVars, curationVars, fusionVars, streamVars, logVars>>

\* As in ReindexQueue: a worker that can go on does.
LibraryFairness ==
    \A w \in {"w1", "w2", "w3"} :
        WF_libraryVars(QueueSteps(Recv(w))) /\ WF_libraryVars(QueueSteps(WorkDone(w)))

LibrarySpec == LibraryInit /\ [][LibraryNext]_libraryVars /\ LibraryFairness

=============================================================================

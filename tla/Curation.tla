------------------------------ MODULE Curation ------------------------------
(***************************************************************************)
(* The curation of a conversation before it is sent (caw-curation), one    *)
(* step for each iteration of its loops: the budget of the system prompt,  *)
(* the summary of the old turns, the compression of tool outputs.          *)
(*                                                                         *)
(* A prompt is a sequence of characters of which four kinds differ:        *)
(* letters, spaces, line breaks and full stops.  A turn counts its tokens; *)
(* its content is a sequence of sentences or, for a tool, of lines.        *)
(***************************************************************************)
EXTENDS Naturals, Sequences, SequencesExt, FiniteSetsExt

CONSTANTS
    Letters,            \* characters that are no space and end no sentence
    Sentences,          \* of a turn: records whose field signal tells a decision word
    Conversations,      \* what is curated, with its budgets and what it is curated by
    Replies,            \* what a model may answer: sequences of sentences
    SummaryTokens,      \* tokens of a summary, a function of its sentences
    TokenThreshold,     \* tool outputs above it are compressed
    RetainRecent        \* turns kept verbatim

Space == "space"
LineBreak == "break"
FullStop == "stop"

Blank == {Space, LineBreak}
SentenceEnds == {FullStop, LineBreak}
Prompts == Seq(Letters \cup Blank \cup SentenceEnds)

Turns == [role : {"user", "assistant", "system", "tool"}, inline_required : BOOLEAN,
          tokens : Nat, content : Seq(Sentences)]

(* What curate is called with: the prompt and the turns, what the prompt   *)
(* and the context may take, whether the prompt may be cut, and what       *)
(* summarises and compresses.                                              *)
Calls == [prompt : Prompts, turns : Seq(Turns), budget : Nat, context : Nat, truncate : BOOLEAN,
          summarizer : {"model", "extract"}, compressor : {"model", "extract"}]

ASSUME CurationAssumption ==
  /\ Conversations \subseteq Calls /\ RetainRecent \in Nat
  /\ Replies \subseteq Seq(Sentences)

VARIABLES
    curating,           \* the loop that runs
    conversation,       \* what curate is called with
    promptCheck,        \* the verdict on the prompt
    promptKept,         \* characters of the prompt that are kept
    resultTokens,       \* tokens of the sentences they are made of
    toSummarize,        \* the old turns
    retained,           \* the others
    turnAt,             \* the turn the loop is at
    sentenceAt,         \* the sentence of that turn
    historySummary,
    compressedOutputs,
    tokensSaved

curationVars == <<curating, conversation, promptCheck, promptKept, resultTokens, toSummarize, retained,
                  turnAt, sentenceAt, historySummary, compressedOutputs, tokensSaved>>

-----------------------------------------------------------------------------
\* WhitespaceTokenizer on the characters from..to of a prompt: the words, at least one token.
Words(prompt, from, to) ==
  {i \in from .. to : prompt[i] \notin Blank /\ (i = from \/ prompt[i - 1] \in Blank)}

EstimateTokens(prompt, from, to) ==
  IF Words(prompt, from, to) = {} THEN 1 ELSE Cardinality(Words(prompt, from, to))

TokensOf(prompt) == EstimateTokens(prompt, 1, Len(prompt))

\* check_budget with a warning at 80 per cent.
CheckBudget(used, max) ==
  IF used > max THEN "exceeded"
  ELSE IF used > (max * 8) \div 10 THEN "warning" ELSE "ok"

SumOfTokens(turns) == FoldLeft(LAMBDA sum, t : sum + t.tokens, 0, turns)

\* saturating_sub
Saved(before, after) == IF before > after THEN before - after ELSE 0

NoCall == [prompt |-> << >>, turns |-> << >>, budget |-> 0, context |-> 0, truncate |-> FALSE,
           summarizer |-> "extract", compressor |-> "extract"]

CurationInit ==
  /\ curating = "idle" /\ conversation = NoCall /\ promptCheck = "ok" /\ promptKept = 0 /\ resultTokens = 0
  /\ toSummarize = << >> /\ retained = << >> /\ turnAt = 1 /\ sentenceAt = 1
  /\ historySummary = << >> /\ compressedOutputs = << >> /\ tokensSaved = 0

Curate ==
  /\ curating = "idle"
  /\ \E c \in Conversations :
        /\ conversation' = c /\ promptCheck' = CheckBudget(TokensOf(c.prompt), c.budget)
        /\ IF c.truncate /\ promptCheck' = "exceeded"
           THEN curating' = "prompt" /\ promptKept' = 0
           ELSE curating' = "history" /\ promptKept' = Len(c.prompt)
  /\ UNCHANGED <<resultTokens, toSummarize, retained, turnAt, sentenceAt, historySummary,
                 compressedOutputs, tokensSaved>>

-----------------------------------------------------------------------------
\* split_inclusive: the sentence of a prompt that follows its first n characters.
SentenceEnd(prompt, n) ==
  Min({i \in n + 1 .. Len(prompt) : prompt[i] \in SentenceEnds \/ i = Len(prompt)})
NextSentenceEnd == SentenceEnd(conversation.prompt, promptKept)
CandidateTokens == EstimateTokens(conversation.prompt, promptKept + 1, NextSentenceEnd)

Truncating == curating = "prompt"

\* Mutant of KeepSentence: each sentence is held against the whole budget.
KeepSentenceAlone ==
  /\ Truncating /\ promptKept < Len(conversation.prompt)
  /\ CandidateTokens <= conversation.budget
  /\ promptKept' = NextSentenceEnd /\ resultTokens' = resultTokens + CandidateTokens
  /\ UNCHANGED <<curating, conversation, promptCheck, toSummarize, retained, turnAt, sentenceAt,
                 historySummary, compressedOutputs, tokensSaved>>

KeepSentence ==
  /\ Truncating /\ promptKept < Len(conversation.prompt)
  /\ resultTokens + CandidateTokens <= conversation.budget
  /\ promptKept' = NextSentenceEnd /\ resultTokens' = resultTokens + CandidateTokens
  /\ UNCHANGED <<curating, conversation, promptCheck, toSummarize, retained, turnAt, sentenceAt,
                 historySummary, compressedOutputs, tokensSaved>>

\* The loop ends at the first sentence that is too much.
CutPrompt ==
  /\ Truncating
  /\ promptKept < Len(conversation.prompt) => resultTokens + CandidateTokens > conversation.budget
  /\ curating' = "history" /\ tokensSaved' = Saved(TokensOf(conversation.prompt), resultTokens)
  /\ UNCHANGED <<conversation, promptCheck, promptKept, resultTokens, toSummarize, retained, turnAt,
                 sentenceAt, historySummary, compressedOutputs>>

-----------------------------------------------------------------------------
Split == Len(conversation.turns) - RetainRecent

\* Below 30 per cent of the context, and with no turn to spare, every turn is retained.
AllRetained ==
  \/ SumOfTokens(conversation.turns) <= (conversation.context * 3) \div 10
  \/ Len(conversation.turns) <= RetainRecent

\* Mutant of PartitionTurns: the turn at the split is on neither side.
PartitionAround ==
  /\ curating = "history"
  /\ IF AllRetained
     THEN curating' = "tools" /\ toSummarize' = << >> /\ retained' = conversation.turns
     ELSE /\ curating' = "summary" /\ toSummarize' = SubSeq(conversation.turns, 1, Split - 1)
          /\ retained' = SubSeq(conversation.turns, Split + 1, Len(conversation.turns))
  /\ UNCHANGED <<conversation, promptCheck, promptKept, resultTokens, turnAt, sentenceAt, historySummary,
                 compressedOutputs, tokensSaved>>

PartitionTurns ==
  /\ curating = "history"
  /\ IF AllRetained
     THEN curating' = "tools" /\ toSummarize' = << >> /\ retained' = conversation.turns
     ELSE /\ curating' = "summary" /\ toSummarize' = SubSeq(conversation.turns, 1, Split)
          /\ retained' = SubSeq(conversation.turns, Split + 1, Len(conversation.turns))
  /\ UNCHANGED <<conversation, promptCheck, promptKept, resultTokens, turnAt, sentenceAt, historySummary,
                 compressedOutputs, tokensSaved>>

Summarized(text) ==
  /\ curating' = "tools" /\ turnAt' = 1 /\ sentenceAt' = 1 /\ historySummary' = text
  /\ tokensSaved' = tokensSaved + Saved(SumOfTokens(toSummarize), SummaryTokens[text])
  /\ UNCHANGED <<conversation, promptCheck, promptKept, resultTokens, toSummarize, retained, compressedOutputs>>

SummarizeByModel ==
  curating = "summary" /\ conversation.summarizer = "model" /\ \E reply \in Replies : Summarized(reply)

Extracting == curating = "summary" /\ conversation.summarizer = "extract"

\* The first sentence of a turn, the ones with a signal, and the last once more.
ExtractSentence ==
  /\ Extracting /\ turnAt <= Len(toSummarize) /\ sentenceAt <= Len(toSummarize[turnAt].content)
  /\ LET said == toSummarize[turnAt].content
         it == said[sentenceAt]
         own == IF sentenceAt = 1 \/ it.signal THEN <<it>> ELSE << >>
         last == IF sentenceAt > 1 /\ sentenceAt = Len(said) THEN <<it>> ELSE << >>
     IN  historySummary' = historySummary \o own \o last
  /\ sentenceAt' = sentenceAt + 1
  /\ UNCHANGED <<curating, conversation, promptCheck, promptKept, resultTokens, toSummarize, retained, turnAt,
                 compressedOutputs, tokensSaved>>

NextTurn ==
  /\ Extracting /\ turnAt <= Len(toSummarize) /\ sentenceAt > Len(toSummarize[turnAt].content)
  /\ turnAt' = turnAt + 1 /\ sentenceAt' = 1
  /\ UNCHANGED <<curating, conversation, promptCheck, promptKept, resultTokens, toSummarize, retained,
                 historySummary, compressedOutputs, tokensSaved>>

EndExtract == Extracting /\ turnAt > Len(toSummarize) /\ Summarized(historySummary)

-----------------------------------------------------------------------------
\* The outputs curate compresses: the long ones whose text may be replaced.
Replaceable(turn) == turn.role = "tool" /\ ~turn.inline_required /\ turn.tokens > TokenThreshold

AtTool == curating = "tools" /\ turnAt <= Len(retained)

PassTurn ==
  /\ AtTool /\ ~Replaceable(retained[turnAt])
  /\ turnAt' = turnAt + 1
  /\ UNCHANGED <<curating, conversation, promptCheck, promptKept, resultTokens, toSummarize, retained, sentenceAt,
                 historySummary, compressedOutputs, tokensSaved>>

\* ExtractiveToolOutputCompressor: head and tail of a long output.
HeadAndTail(lines) ==
  IF Len(lines) > 5 THEN SubSeq(lines, 1, 3) \o SubSeq(lines, Len(lines) - 1, Len(lines))
  ELSE SubSeq(lines, 1, IF Len(lines) < 3 THEN Len(lines) ELSE 3)

SummariesOf(output) == IF conversation.compressor = "model" THEN Replies ELSE {HeadAndTail(output)}

CompressOutput ==
  /\ AtTool /\ Replaceable(retained[turnAt])
  /\ \E summary \in SummariesOf(retained[turnAt].content) :
        /\ compressedOutputs' = Append(compressedOutputs,
              [summary |-> summary, full_output |-> retained[turnAt].content,
               original_tokens |-> retained[turnAt].tokens, summary_tokens |-> SummaryTokens[summary]])
        /\ tokensSaved' = tokensSaved + Saved(retained[turnAt].tokens, SummaryTokens[summary])
  /\ turnAt' = turnAt + 1
  /\ UNCHANGED <<curating, conversation, promptCheck, promptKept, resultTokens, toSummarize, retained, sentenceAt,
                 historySummary>>

\* A model that does not answer fails the call.
FailCuration ==
  /\ \/ curating = "summary" /\ conversation.summarizer = "model"
     \/ AtTool /\ Replaceable(retained[turnAt]) /\ conversation.compressor = "model"
  /\ curating' = "failed"
  /\ UNCHANGED <<conversation, promptCheck, promptKept, resultTokens, toSummarize, retained, turnAt, sentenceAt,
                 historySummary, compressedOutputs, tokensSaved>>

EndCuration ==
  /\ curating = "tools" /\ turnAt > Len(retained)
  /\ curating' = "done"
  /\ UNCHANGED <<conversation, promptCheck, promptKept, resultTokens, toSummarize, retained, turnAt, sentenceAt,
                 historySummary, compressedOutputs, tokensSaved>>

CurationNext ==
  \/ Curate \/ KeepSentence \/ CutPrompt \/ PartitionTurns \/ SummarizeByModel \/ ExtractSentence
  \/ NextTurn \/ EndExtract \/ PassTurn \/ CompressOutput \/ FailCuration \/ EndCuration

CurationSpec == CurationInit /\ [][CurationNext]_curationVars

-----------------------------------------------------------------------------
FinalPrompt == SubSeq(conversation.prompt, 1, promptKept)

(* A prompt that may be cut keeps to its budget, or nothing of it is left; *)
(* it is cut only when it exceeds the budget, and only behind a sentence.  *)
PromptFits ==
  curating = "done" =>
    /\ conversation.truncate => FinalPrompt = << >> \/ TokensOf(FinalPrompt) <= conversation.budget
    /\ FinalPrompt # conversation.prompt =>
          /\ conversation.truncate /\ TokensOf(conversation.prompt) > conversation.budget
          /\ FinalPrompt # << >> => Last(FinalPrompt) \in SentenceEnds

\* What an extract must keep of a turn.
Telling(said) == {s \in DOMAIN said : s = 1 \/ s = Len(said) \/ said[s].signal}

(* No turn is on neither side of the split or on both.  An extract has the *)
(* telling sentences of every old turn, those of an output that must stay  *)
(* inline among them: before the split the flag is not read, and it is     *)
(* summarised as any other.  Among the retained turns it is: the long tool *)
(* outputs without it are compressed and kept in full beside their         *)
(* summaries, and nothing else is compressed.                              *)
TurnsAreAccountedFor ==
  curating = "done" =>
    /\ toSummarize \o retained = conversation.turns
    /\ conversation.summarizer = "extract" =>
          \A t \in DOMAIN toSummarize : \A s \in Telling(toSummarize[t].content) :
             \E p \in DOMAIN historySummary : historySummary[p] = toSummarize[t].content[s]
    /\ \A t \in DOMAIN retained : Replaceable(retained[t]) =>
          \E k \in DOMAIN compressedOutputs :
             /\ compressedOutputs[k].full_output = retained[t].content
             /\ compressedOutputs[k].original_tokens = retained[t].tokens
    /\ \A k \in DOMAIN compressedOutputs : \E t \in DOMAIN retained :
          Replaceable(retained[t]) /\ compressedOutputs[k].full_output = retained[t].content
=============================================================================

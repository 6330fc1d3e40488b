--------------------------- MODULE AdapterReplies ---------------------------
(***************************************************************************)
(* What each model adapter (caw-adapters) makes of its provider's reply:   *)
(* the answer and the thinking of a completion, or the error the           *)
(* orchestrator retries on, and the steps of a thinking trace.  The stream  *)
(* of Ollama is in ThinkingStream.                                         *)
(***************************************************************************)
EXTENDS ResponseText

(* A reply is unreachable, an http error, malformed, an error body or a    *)
(* chat message with content and, from Ollama, thinking.                   *)
Chat(content, thinking) == [kind |-> "chat", content |-> content, thinking |-> thinking]

External == [ok |-> FALSE, error |-> "external", answer |-> << >>, thinking |-> NoThinking]
Degenerate == [External EXCEPT !.error = "degenerate"]
Completion(answer, thinking) ==
  [ok |-> TRUE, error |-> "none", answer |-> answer, thinking |-> thinking]

UnlessLooping(answer, thinking) ==
  IF DetectLoop(StripFakeRecallBlocks(answer)) THEN Degenerate ELSE Completion(answer, thinking)

OpenAiComplete(reply) ==
  IF reply.kind # "chat" THEN External
  ELSE UnlessLooping(TruncateAtChatBoundary(reply.content), NoThinking)

GroqComplete(reply) ==
  IF reply.kind # "chat" THEN External ELSE UnlessLooping(reply.content, NoThinking)

AnthropicComplete(reply) ==
  IF reply.kind # "chat" THEN External ELSE UnlessLooping(reply.content, NoThinking)

ClaudeResult(outcome, result) ==
  IF outcome # "answer" THEN External ELSE UnlessLooping(result, NoThinking)

UnlessBlank(answer, thinking) ==
  IF Blank(answer) THEN Degenerate ELSE UnlessLooping(answer, thinking)

\* Mutant of OllamaComplete: the verdict is passed before the split.
OllamaCompleteUnsplit(reply) ==
  IF reply.kind # "chat" THEN External
  ELSE LET raw == TruncateAtChatBoundary(reply.content) IN UnlessBlank(raw, reply.thinking)

(* The thinking field of the message is preferred to an inline block.      *)
OllamaComplete(reply) ==
  IF reply.kind # "chat" THEN External
  ELSE LET split == SplitThinking(TruncateAtChatBoundary(reply.content))
           field == reply.thinking.some /\ ~Blank(reply.thinking.text)
       IN  UnlessBlank(split.answer, IF field THEN reply.thinking ELSE split.thinking)

LlamaComplete(raw) ==
  LET split == SplitThinking(TruncateAtChatBoundary(raw))
  IN  UnlessBlank(split.answer, split.thinking)

(* generate_passive reads the generated text the same way.                 *)
LlamaPassive(raw) ==
  LET split == SplitThinking(TruncateAtChatBoundary(raw))
  IN  UnlessBlank(split.answer, split.thinking)

(* ShowPromptAdapter and SavePromptAdapter: the answer of a call whose     *)
(* prompt file was created and could not be written is lost.               *)
LogPrompt(result, file) == IF file = "broken" THEN External ELSE result

(* ReplayAdapter: past its end the script repeats its last entry.          *)
Advance(script, i) ==
  IF i <= Len(script) THEN script[i] ELSE IF script = << >> THEN << >> ELSE Last(script)

-----------------------------------------------------------------------------
(* Steps are handed over until one is refused; none is when it is 0.       *)
Replayed(steps, refused) == IF refused \in DOMAIN steps THEN SubSeq(steps, 1, refused) ELSE steps

(* The default thinking_with_steps, and those of the adapters whose model  *)
(* shows no reasoning.                                                     *)
StepsOf(completion) == IF completion.thinking.some
                       THEN ThinkingSteps(completion.thinking.text) ELSE << >>

Push(steps, text) == IF Blank(text) THEN steps ELSE Append(steps, Trim(text))

(* llama.cpp: a paragraph fires as soon as it is complete, and a refused   *)
(* one ends the generation; what is left is the answer.                    *)
LlamaSteps(raw, refused) ==
  LET pieces == Pieces(raw, {Gap})
      steps  == FoldLeft(Push, << >>, Front(pieces))
  IN  [steps |-> Replayed(steps, refused),
       answer |-> IF refused \in DOMAIN steps THEN << >> ELSE TruncateAtChatBoundary(Last(pieces))]
=============================================================================

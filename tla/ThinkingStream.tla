--------------------------- MODULE ThinkingStream ---------------------------
(***************************************************************************)
(* How the Ollama adapter (caw-adapters) reads the thinking of a model as  *)
(* it streams: thinking_with_steps collects the deltas in a buffer, hands  *)
(* over each paragraph as it is complete and stops at the answer.  A step  *)
(* is an iteration of its loops.                                           *)
(*                                                                         *)
(* A text is a sequence of tokens: words, line breaks, and the two tags of *)
(* an inline block.  A token of the thinking, and of the answer behind it, *)
(* is numbered by its place; the code never looks at the number.  A line   *)
(* of the stream that does not parse is skipped, and left out here.        *)
(***************************************************************************)
EXTENDS KindedText

CONSTANTS
    MaxThought,         \* tokens of a thought
    MaxAnswer           \* tokens of the answer

ASSUME StreamAssumption == MaxThought \in Nat /\ MaxAnswer \in Nat

VARIABLES
    streaming,          \* where the reader is
    inlined,            \* the thinking comes in the content, between tags
    speaker,            \* what the model is at: "nobody", "thought", "answer"
    heard,              \* what it has sent, without the tags
    thought,            \* how much of that is thinking
    delta,              \* the delta that is read
    inThink,            \* in_think
    stepBuf,            \* step_buf
    streamSteps         \* steps

streamVars == <<streaming, inlined, speaker, heard, thought, delta, inThink, stepBuf, streamSteps>>

StreamTokens == [kind : {"word", "break", "open", "close"}, at : Nat]
OpenTag == [kind |-> "open", at |-> 0]
CloseTag == [kind |-> "close", at |-> 0]

\* A delta may have no field thinking, or an empty one.
NoDelta == [thinking |-> "none", thought |-> << >>, content |-> << >>, done |-> FALSE]

StreamInit ==
  /\ streaming = "idle" /\ inlined = FALSE /\ speaker = "nobody"
  /\ heard = << >> /\ thought = 0 /\ delta = NoDelta
  /\ inThink = FALSE /\ stepBuf = << >> /\ streamSteps = << >>

\* The request may fail.
OpenStream ==
  /\ streaming = "idle" /\ streaming' \in {"wait", "failed"}
  /\ inlined' \in BOOLEAN
  /\ UNCHANGED <<speaker, heard, thought, delta, inThink, stepBuf, streamSteps>>

-----------------------------------------------------------------------------
(* Mutant of Collected: the delta that opens the thinking is not kept.     *)
CollectedAfterFirst(d) ==
  IF d.thought # << >> THEN IF inThink THEN stepBuf \o d.thought ELSE stepBuf
  ELSE IF inThink THEN IF d.thinking = "none" THEN stepBuf \o d.content ELSE stepBuf
  ELSE stepBuf

(* The buffer with a delta: its thinking; in a thought that has no field,  *)
(* its content; before, what follows an opening tag.                       *)
Collected(d) ==
  IF d.thought # << >> THEN stepBuf \o d.thought
  ELSE IF inThink THEN IF d.thinking = "none" THEN stepBuf \o d.content ELSE stepBuf
  ELSE IF Places(d.content, "open") # {} THEN stepBuf \o After(d.content, Min(Places(d.content, "open")))
  ELSE stepBuf

Receive(d) ==
  /\ streaming = "wait"
  /\ delta' = d
  /\ stepBuf' = Collected(d)
  /\ inThink' = (inThink \/ d.thought # << >> \/ Places(d.content, "open") # {})
  /\ streaming' = IF d.thought # << >> THEN "flush" ELSE "cut"
  /\ UNCHANGED <<inlined, streamSteps>>

\* More tokens, numbered on.
Heard(kinds) == [i \in DOMAIN kinds |-> [kind |-> kinds[i], at |-> Len(heard) + i]]
Thoughts ==
  UNION {{Heard(kinds) : kinds \in [1 .. n -> {"word", "break"}]} : n \in 0 .. MaxThought - Len(heard)}

\* Thinking in a field of its own.
ThinkingDelta ==
  /\ ~inlined /\ speaker # "answer" /\ speaker' = "thought"
  /\ \E piece \in Thoughts, done \in BOOLEAN :
        /\ heard' = heard \o piece /\ thought' = Len(heard')
        /\ Receive([thinking |-> "some", thought |-> piece, content |-> << >>, done |-> done])

\* Thinking in the content; the tag that opens it comes with the first delta.
InlineDelta ==
  /\ inlined /\ speaker # "answer"
  /\ \E piece \in Thoughts, closes, done \in BOOLEAN :
        /\ heard' = heard \o piece /\ thought' = Len(heard')
        /\ speaker' = IF closes THEN "answer" ELSE "thought"
        /\ Receive([thinking |-> "none", thought |-> << >>,
                    content |-> (IF speaker = "nobody" THEN <<OpenTag>> ELSE << >>)
                                \o piece \o (IF closes THEN <<CloseTag>> ELSE << >>),
                    done |-> done])

\* The answer, once an inline thought is closed; an empty delta at any time.
ContentDelta ==
  /\ \E n \in 0 .. 1, done \in BOOLEAN :
        LET piece == Heard([i \in 1 .. n |-> "word"])
        IN  /\ n = 1 => (inlined => speaker # "thought") /\ Len(heard) < thought + MaxAnswer
            /\ speaker' = IF n = 1 THEN "answer" ELSE speaker
            /\ heard' = heard \o piece
            /\ Receive([thinking |-> "none", thought |-> << >>, content |-> piece, done |-> done])
  /\ UNCHANGED thought

-----------------------------------------------------------------------------
Pushed(text) == IF NotBreaks(text) = {} THEN streamSteps ELSE Append(streamSteps, Trim(text))

\* An iteration of flush_steps, where thinking comes in and before the answer is looked for.
FlushStep ==
  /\ streaming \in {"flush", "flush again"} /\ Gaps(stepBuf) # {}
  /\ LET boundary == Min(Gaps(stepBuf))
     IN  /\ streamSteps' = Pushed(SubSeq(stepBuf, 1, boundary - 1))
         /\ stepBuf' = After(stepBuf, boundary + 1)
  /\ UNCHANGED <<streaming, inlined, speaker, heard, thought, delta, inThink>>

EndFlush ==
  /\ streaming = "flush" /\ Gaps(stepBuf) = {} /\ streaming' = "cut"
  /\ UNCHANGED <<inlined, speaker, heard, thought, delta, inThink, stepBuf, streamSteps>>

\* What is left of the buffer, or of the part before i, is the last step.
StopWith(text) ==
  /\ streaming' = "over" /\ stepBuf' = << >> /\ streamSteps' = Pushed(text)
  /\ UNCHANGED <<inlined, speaker, heard, thought, delta, inThink>>

CutAtClose ==
  /\ streaming = "cut" /\ inThink /\ Places(stepBuf, "close") # {}
  /\ StopWith(SubSeq(stepBuf, 1, Min(Places(stepBuf, "close")) - 1))

KeepOn ==
  /\ streaming = "cut" /\ (inThink => Places(stepBuf, "close") = {})
  /\ streaming' = IF inThink THEN "flush again" ELSE "end"
  /\ UNCHANGED <<inlined, speaker, heard, thought, delta, inThink, stepBuf, streamSteps>>

\* The thinking field has no closing tag.
AnswerBegins == delta.thinking = "none" /\ delta.content # << >>

StopAtAnswer ==
  /\ streaming = "flush again" /\ Gaps(stepBuf) = {} /\ AnswerBegins
  /\ StopWith(stepBuf)

NoAnswerYet ==
  /\ streaming = "flush again" /\ Gaps(stepBuf) = {} /\ ~AnswerBegins
  /\ streaming' = "end"
  /\ UNCHANGED <<inlined, speaker, heard, thought, delta, inThink, stepBuf, streamSteps>>

StopAtDone ==
  /\ streaming = "end" /\ delta.done
  /\ StopWith(stepBuf)

NextDelta ==
  /\ streaming = "end" /\ ~delta.done /\ streaming' = "wait"
  /\ UNCHANGED <<inlined, speaker, heard, thought, delta, inThink, stepBuf, streamSteps>>

\* The connection is closed, or breaks: then the call fails.
CloseStream ==
  /\ streaming = "wait" /\ streaming' \in {"closed", "failed"} /\ stepBuf' = << >>
  /\ streamSteps' = IF streaming' = "failed" THEN << >> ELSE streamSteps
  /\ UNCHANGED <<inlined, speaker, heard, thought, delta, inThink>>

StreamNext ==
  \/ OpenStream \/ ThinkingDelta \/ InlineDelta \/ ContentDelta \/ FlushStep \/ EndFlush
  \/ CutAtClose \/ KeepOn \/ StopAtAnswer \/ NoAnswerYet \/ StopAtDone \/ NextDelta \/ CloseStream

StreamSpec == StreamInit /\ [][StreamNext]_streamVars

-----------------------------------------------------------------------------
\* A paragraph ends between tokens i and j.
Parted(i, j) == \E b \in Gaps(heard) : i < b /\ b + 1 < j

InStep(i, k) == \E m \in DOMAIN streamSteps[k] : streamSteps[k][m] = heard[i]
ThoughtWords == {i \in Places(heard, "word") : i <= thought}

(* Of thinking in a field of its own no word is lost or doubled when the   *)
(* answer or the end is reached, and the steps are its paragraphs, in      *)
(* their order, in whatever deltas it arrives; of a stream that is closed  *)
(* before, the same holds of the paragraphs that are complete.  The reader *)
(* does not give up on a model that thinks.                                *)
StreamKeepsThinking ==
  ~inlined =>
    /\ streaming \in {"over", "closed"} =>
         /\ \A i \in ThoughtWords :
               streaming = "over" \/ Parted(i, thought + 1) => \E k \in DOMAIN streamSteps : InStep(i, k)
         /\ \A i, j \in ThoughtWords : \A k, l \in DOMAIN streamSteps :
               i < j /\ InStep(i, k) /\ InStep(j, l) => k <= l /\ (k = l <=> ~Parted(i, j))
         /\ \A k, l \in DOMAIN streamSteps : \A m \in DOMAIN streamSteps[k], n \in DOMAIN streamSteps[l] :
               streamSteps[k][m] = streamSteps[l][n] => k = l /\ m = n
    /\ streaming = "over" /\ speaker = "thought" => delta.done

(* "Inline-block model: keep appending content tokens until the closing    *)
(* tag" (ollama.rs): the reader does not give up on an inline block.       *)
InlineStreamKeepsThinking ==
  inlined /\ streaming = "over" /\ speaker = "thought" => delta.done
=============================================================================

---------------------------- MODULE ResponseText ----------------------------
(***************************************************************************)
(* How the text of a model is read (caw-core/src/lib.rs and the adapters): *)
(* where it is cut, which blocks are taken out of it, when it counts as a  *)
(* loop, and how its thinking and its JSON object are found.               *)
(*                                                                         *)
(* A text is a sequence of tokens.  The markers the code looks for are     *)
(* tokens of their own, Break is a line break, Gap an empty line, and any  *)
(* other string is a word.                                                 *)
(***************************************************************************)
EXTENDS Naturals, Sequences, SequencesExt, FiniteSets

ImStart == "<|im_start|>"
ImEnd == "<|im_end|>"
Recalled == "[recalled from"
EndRecall == "[end recall]"
Think == "<think>"
EndThink == "</think>"
Break == "line break"
Gap == "empty line"
Quote == "quote"
Escape == "backslash"
Open == "{"
Shut == "}"

\* Words of more than this many tokens make a line "substantial" (30 characters).
LongLine == 4

Find(text, token) == SelectInSeq(text, LAMBDA t : t = token)
Before(text, i) == SubSeq(text, 1, i - 1)
After(text, i) == SubSeq(text, i + 1, Len(text))

IsSpace(token) == token \in {Break, Gap}
Words(text) == SelectSeq(text, LAMBDA t : ~IsSpace(t))
Blank(text) == Words(text) = << >>

\* str::trim on tokens
Trim(text) ==
  IF Blank(text) THEN << >>
  ELSE SubSeq(text, SelectInSeq(text, LAMBDA t : ~IsSpace(t)),
                    SelectLastInSeq(text, LAMBDA t : ~IsSpace(t)))

\* The pieces of text between the tokens of Separators.
Pieces(text, Separators) ==
  FoldLeft(LAMBDA done, t : IF t \in Separators THEN Append(done, << >>)
                            ELSE [done EXCEPT ![Len(done)] = Append(@, t)],
           << << >> >>, text)
NotBlank(pieces) == SelectSeq(pieces, LAMBDA p : ~Blank(p))
Lines(text) == NotBlank(Pieces(text, {Break, Gap}))
ThinkingSteps(thinking) == NotBlank(Pieces(thinking, {Gap}))

-----------------------------------------------------------------------------
TruncateAtChatBoundary(text) ==
  LET boundary == IF Find(text, ImStart) # 0 THEN Find(text, ImStart) ELSE Find(text, ImEnd)
  IN  IF boundary = 0 THEN text ELSE Trim(Before(text, boundary))

RECURSIVE StripFakeRecallBlocks(_)
StripFakeRecallBlocks(text) ==
  LET start == Find(text, Recalled)
      rest  == After(text, start)
      end   == Find(rest, EndRecall)
  IN  IF start = 0 \/ end = 0 THEN text
      ELSE Before(text, start) \o StripFakeRecallBlocks(After(rest, end))

-----------------------------------------------------------------------------
HasChatToken(text) == Contains(text, ImEnd) \/ Contains(text, ImStart)

Occurrences(s, e) == Cardinality({i \in DOMAIN s : s[i] = e})

OneWordDominates(words) ==
  \E w \in ToSet(words) : (100 * Occurrences(words, w)) \div Len(words) > 70

TrigramsCollapse(words) ==
  LET trigrams == {SubSeq(words, i, i + 2) : i \in 1 .. Len(words) - 2}
  IN  Len(words) >= 30 /\ 10 * Cardinality(trigrams) < Len(words) - 2

LinesRepeat(text) ==
  LET long == SelectSeq(Lines(text), LAMBDA l : Len(l) > LongLine)
  IN  Len(long) >= 6 /\ \E l \in ToSet(long) : Occurrences(long, l) >= 3

DetectLoop(text) ==
  LET words == Words(text)
  IN  \/ HasChatToken(text)
      \/ /\ Len(words) >= 20
         /\ OneWordDominates(words) \/ TrigramsCollapse(words) \/ LinesRepeat(text)

-----------------------------------------------------------------------------
NoThinking == [some |-> FALSE, text |-> << >>]
Thinking(text) == [some |-> TRUE, text |-> text]

SplitThinking(raw) ==
  LET open    == Find(raw, Think)
      close   == Find(raw, EndThink)
      between == Trim(SubSeq(raw, open + 1, close - 1))
  IN  IF open = 0 THEN [thinking |-> NoThinking, answer |-> raw]
      ELSE IF close > open
      THEN [thinking |-> IF between = << >> THEN NoThinking ELSE Thinking(between),
            answer   |-> Trim(After(raw, close))]
      ELSE [thinking |-> Thinking(Trim(After(raw, open))), answer |-> Trim(Before(raw, open))]

-----------------------------------------------------------------------------
\* The scan of extract_json_object after one more token; i is its index.
ScanJson(scan, token, i) ==
  IF scan.end # 0 THEN scan
  ELSE IF scan.quoted
  THEN [scan EXCEPT !.escaped = ~@ /\ token = Escape,
                    !.quoted  = scan.escaped \/ token # Quote]
  ELSE CASE token = Quote -> [scan EXCEPT !.quoted = TRUE]
         [] token = Open  -> [scan EXCEPT !.depth = @ + 1,
                                          !.start = IF @ = 0 THEN i ELSE @]
         [] token = Shut /\ scan.depth > 0 ->
              [scan EXCEPT !.depth = @ - 1, !.end = IF scan.depth = 1 THEN i ELSE 0]
         [] OTHER -> scan

\* The bounds of the first balanced object, end = 0 when there is none.
ExtractJsonObject(raw) ==
  LET scans[i \in 0 .. Len(raw)] ==
        IF i = 0 THEN [start |-> 0, end |-> 0, depth |-> 0, quoted |-> FALSE, escaped |-> FALSE]
        ELSE ScanJson(scans[i - 1], raw[i], i)
  IN  scans[Len(raw)]
=============================================================================

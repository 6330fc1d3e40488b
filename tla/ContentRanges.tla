---------------------------- MODULE ContentRanges ----------------------------
(***************************************************************************)
(* Locators and what they select (Range, caw-core/src/lib.rs), and how     *)
(* recalled fragments are shown to a model.                                *)
(*                                                                         *)
(* A locator is a sequence of tokens: the signs below, numerals and words. *)
(* A content is a sequence of lines, each with its heading level (0 for    *)
(* none) and its text, and the sequence of its cl100k tokens.              *)
(***************************************************************************)
EXTENDS Naturals, Sequences, SequencesExt, FiniteSets, FiniteSetsExt, TLC

CONSTANTS
    MaxNumber,  \* bound: numbers in a locator
    WordSize    \* usize is below 2^WordSize

RangeAssumption == MaxNumber \in Nat /\ WordSize \in Nat

Piece(s, from, to) == SubSeq(s, from, to)
First(s, token) == SelectInSeq(s, LAMBDA t : t = token)

Number(token) == CHOOSE n \in 0 .. MaxNumber : ToString(n) = token
IsNumber(s) == Len(s) = 1 /\ \E n \in 0 .. MaxNumber : ToString(n) = s[1]
\* Two numbers separated by the first sign of s.
IsPair(s, sign) ==
    LET i == First(s, sign)
    IN  i # 0 /\ IsNumber(Piece(s, 1, i - 1)) /\ IsNumber(Piece(s, i + 1, Len(s)))
Left(s) == Number(s[1])
Right(s) == Number(s[3])

Split(s, sign) ==
    FoldLeft(LAMBDA done, t : IF t = sign THEN Append(done, << >>)
                              ELSE [done EXCEPT ![Len(done)] = Append(@, t)],
             << << >> >>, s)

Full == [kind |-> "full"]
LineRange(start, end) == [kind |-> "lines", start |-> start, end |-> end]
Heading(path) == [kind |-> "heading", path |-> path]
TokenRange(start, count) == [kind |-> "tokens", start |-> start, count |-> count]
Custom(s) == [kind |-> "custom", text |-> s]

Parse(s) ==
    LET unL == SelectSeq(s, LAMBDA t : t # "L")
    IN  CASE s \in {<< >>, <<"full">>} -> Full
          [] IsPrefix(<<"#">>, s) -> Heading(Split(Tail(s), "/"))
          [] IsPrefix(<<"T">>, s) /\ IsPair(Tail(s), ":") -> TokenRange(Left(Tail(s)), Right(Tail(s)))
          [] IsPrefix(<<"L">>, s) /\ IsPair(unL, "-") -> LineRange(Left(unL), Right(unL))
          [] IsPair(s, "-") -> LineRange(Left(s), Right(s))
          [] OTHER -> Custom(s)

Joined(path) == FoldLeft(LAMBDA done, p : done \o <<"/">> \o p, Head(path), Tail(path))

ToLocatorString(range) ==
    CASE range.kind = "full" -> <<"full">>
      [] range.kind = "lines" -> <<ToString(range.start), "-", ToString(range.end)>>
      [] range.kind = "heading" -> <<"#">> \o Joined(range.path)
      [] range.kind = "tokens" -> <<"T", ToString(range.start), ":", ToString(range.count)>>
      [] range.kind = "custom" -> range.text

-----------------------------------------------------------------------------
\* A slice that ends before it starts panics.
Panic == [panic |-> TRUE, text |-> << >>]
Text(s) == [panic |-> FALSE, text |-> s]
Slice(s, from, to) ==
    IF from >= Len(s) THEN Text(<< >>) ELSE IF from > to THEN Panic ELSE Text(Piece(s, from + 1, to))

(* The first heading whose text is the last element of the path, whatever  *)
(* its parents, up to the next heading of its level or above.              *)
ExtractHeadingSection(lines, path) ==
    LET heads == {i \in DOMAIN lines : lines[i].level > 0 /\ lines[i].text = Last(path)}
        start == Min(heads)
        ends  == {i \in start + 1 .. Len(lines) : lines[i].level \in 1 .. lines[start].level}
    IN  IF path = << >> THEN lines
        ELSE IF heads = {} THEN << >>
        ELSE Piece(lines, start, IF ends = {} THEN Len(lines) ELSE Min(ends) - 1)

(* A release build wraps the sum.                                          *)
ExtractTokenRange(tokens, start, count) ==
    Slice(tokens, start, Min({(start + count) % 2 ^ WordSize, Len(tokens)}))

Apply(range, content) ==
    CASE range.kind = "lines" ->
           Slice(content.lines, IF range.start = 0 THEN 0 ELSE range.start - 1,
                 Min({range.end, Len(content.lines)}))
      [] range.kind = "heading" -> Text(ExtractHeadingSection(content.lines, range.path))
      [] range.kind = "tokens" -> ExtractTokenRange(content.tokens, range.start, range.count)
      [] OTHER -> Text(content.lines)

-----------------------------------------------------------------------------
\* Hits at or above the threshold, the first of each path.
CandidateListFragment(hits, threshold) ==
    LET above == SelectSeq(hits, LAMBDA h : h.score >= threshold)
        Earlier(i) == {above[j].path : j \in 1 .. i - 1}
        firsts == {i \in DOMAIN above : above[i].path \notin Earlier(i)}
    IN  [id |-> "__candidates__", source |-> "search-candidates",
         files |-> FoldLeft(LAMBDA done, i : IF i \in firsts THEN Append(done, above[i].path) ELSE done,
                            << >>, [i \in DOMAIN above |-> i])]

(* The hints shown above the fragments: each once, the grounding first.    *)
WorkspaceGuidance(fragments, inline, extra) ==
    LET candidates == \E f \in ToSet(fragments) :
                         f.source = "search-candidates" \/ f.id = "__candidates__"
        hints == SelectSeq(inline \o extra, LAMBDA g : g # << >>)
    IN  FoldLeft(LAMBDA done, g : IF Contains(done, g) THEN done ELSE Append(done, g),
                 << <<"grounding">> >> \o (IF candidates THEN << <<"metadata only">> >> ELSE << >>),
                 hints)

FormatWorkspace(fragments, inline, extra) ==
    IF fragments = << >> THEN [guidance |-> << >>, blocks |-> << >>]
    ELSE [guidance |-> WorkspaceGuidance(fragments, inline, extra),
          blocks |-> [i \in DOMAIN fragments |->
                        [source  |-> fragments[i].source,
                         locator |-> IF fragments[i].locator = <<"full">> THEN << >>
                                     ELSE fragments[i].locator,
                         content |-> fragments[i].content]]]
=============================================================================

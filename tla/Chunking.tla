------------------------------ MODULE Chunking ------------------------------
(***************************************************************************)
(* How a document is cut into the chunks that are embedded                 *)
(* (caw-ingest/src/chunking.rs), one step for each iteration of its loops. *)
(*                                                                         *)
(* A document is a sequence of bytes of which four kinds differ: line      *)
(* breaks, bytes that are a character, and the first and the other bytes   *)
(* of a longer character.  Offsets count from 0 as in the code, so the     *)
(* byte at offset i is content[i + 1].  A configuration is a record of     *)
(* sizes in bytes.                                                         *)
(*                                                                         *)
(* The code cuts the whole of a body before it counts the tokens of the    *)
(* pieces and splits the ones with too many; here a piece is counted as    *)
(* soon as it is cut.  The pieces, and their order, are the same.          *)
(***************************************************************************)
EXTENDS Naturals, Sequences, SequencesExt, FiniteSetsExt

CONSTANTS
    Characters,     \* bytes that are a character
    Documents,      \* what is cut: content, outline and item spans
    Configs,        \* how: target, cap, overlap and threshold
    Dense,          \* bytes that are a token of their own
    MaxSafe,        \* MAX_SAFE_BODY_TOKENS
    MaxHeader,      \* bytes of a structural header
    LeastConfig,    \* floors of split_oversized: target, cap, overlap
    CharBytes       \* bytes of the longest character

Newline == "newline"
LeadByte == "lead"
Continuation == "continuation"
ByteStrings == Seq(Characters \cup {Newline, LeadByte, Continuation})

\* The bytes of content from offset a to offset b.
Bytes(content, a, b) == SubSeq(content, a + 1, b)

IsCharBoundary(content, i) == i \in 0 .. Len(content) /\ (i < Len(content) => content[i + 1] # Continuation)

\* Every byte is of a character that starts in the text and is no longer than CharBytes.
WellFormed(content) ==
  \A i \in DOMAIN content : \E j \in 1 .. i :
    /\ i < j + CharBytes /\ content[j] # Continuation
    /\ j < i => content[j] = LeadByte /\ \A k \in j + 1 .. i : content[k] = Continuation

ItemSpans(content) ==
  {s \in [start : 0 .. Len(content), end : Nat, header : ByteStrings] : IsCharBoundary(content, s.start)}

(* Text is UTF-8; an item starts where a token of the parser does; and a   *)
(* chunk holds a character.                                                *)
ASSUME ChunkingAssumption ==
  /\ \A d \in Documents :
        d.content \in ByteStrings /\ WellFormed(d.content) /\ d.spans \in Seq(ItemSpans(d.content))
  /\ Configs \subseteq [target : Nat, cap : Nat, overlap : Nat, threshold : Nat]
  /\ LeastConfig \in [target : Nat, cap : Nat, overlap : Nat]
  /\ CharBytes \in Nat /\ \A c \in Configs \cup {LeastConfig} : c.cap >= CharBytes

VARIABLES
    chunking,       \* which loop runs: "items", "tiles" or "lines"
    document,
    config,
    boundaries,     \* where the tiles of the file meet
    span,           \* the item the loop is at
    tile,           \* the tile the loop is at
    header,         \* the header of that tile
    bodies,         \* bodies being cut into lines, one in the other
    safe,           \* the chunks so far
    chunks,         \* the chunks of the document
    named           \* their summaries

chunkVars == <<chunking, document, config, boundaries, span, tile, header, bodies, safe, chunks, named>>

CountTokens(text) == Cardinality({i \in DOMAIN text : text[i] \in Dense})

Larger(a, b) == IF a > b THEN a ELSE b
Smaller(a, b) == IF a < b THEN a ELSE b
Less(a, b) == IF a > b THEN a - b ELSE 0

FloorCharBoundary(content, i) ==
  IF i >= Len(content) THEN Len(content)
  ELSE Max({j \in 0 .. i : j = 0 \/ content[j + 1] # Continuation})

\* Offsets of the line breaks of content in a .. b - 1.
Breaks(content, a, b) == {i \in a .. b - 1 : content[i + 1] = Newline}

-----------------------------------------------------------------------------
\* The overlap before a chunk that follows preceding.
AfterBreak(content, window) == Max({0} \cup {i + 1 : i \in Breaks(content, 0, window)})

FullLines(text) == IF text # << >> /\ Last(text) = Newline THEN text ELSE Append(text, Newline)

OverlapFrom(preceding, window, overlap) ==
  Larger(AfterBreak(preceding, window), FloorCharBoundary(preceding, Less(window, overlap)))

LineOverlap(preceding, overlap) ==
  LET window == FloorCharBoundary(preceding, Less(Len(preceding), overlap))
  IN  IF preceding = << >> \/ overlap = 0 THEN << >>
      ELSE FullLines(Bytes(preceding, OverlapFrom(preceding, window, overlap), Len(preceding)))

\* Where the chunk that starts at start is cut.
CutWithin(content, start, ideal, hard) ==
  IF Breaks(content, ideal, hard) # {} THEN Min(Breaks(content, ideal, hard)) + 1
  ELSE IF Breaks(content, start, hard) # {} THEN Max(Breaks(content, start, hard)) + 1
  ELSE Larger(hard, start + 1)

CutAfter(content, start, target, cap) ==
  CutWithin(content, start,
            FloorCharBoundary(content, Smaller(start + target, Len(content))),
            FloorCharBoundary(content, Smaller(start + cap, Len(content))))

\* The piece of a body from offset a to offset b.
Piece(body, a, b, overlap) == LineOverlap(Bytes(body, 0, a), overlap) \o Bytes(body, a, b)

Target(c) == Larger(c.target, 1)
Cap(c) == Larger(c.cap, Target(c))
OverlapOf(c) == Smaller(c.overlap, Cap(c) - 1)

\* The end of the chunk of a body that starts at offset at.
Cut(body, at, c) == IF Len(body) - at <= Cap(c) THEN Len(body) ELSE CutAfter(body, at, Target(c), Cap(c))

Tightened(c) ==
  [c EXCEPT !.target  = Larger(@ \div 2, LeastConfig.target),
            !.cap     = Larger(@ \div 2, LeastConfig.cap),
            !.overlap = Larger(@ \div 2, LeastConfig.overlap)]

Sized(a, b, text) == [start |-> a, end |-> b, text |-> text, tokens |-> CountTokens(text)]

Prefixed(prefix, text) == IF prefix = << >> THEN text ELSE prefix \o <<Newline, Newline>> \o text

-----------------------------------------------------------------------------
\* A body that is cut into lines: where it is, how far it is cut, with which
\* sizes, how deep its splitting is and what goes before its first chunk.
OpenBody(a, b, c, depth, prefix) ==
  [start |-> a, end |-> b, at |-> a, config |-> c, depth |-> depth, prefix |-> prefix]

NoDocument == [content |-> << >>, outline |-> << >>, spans |-> << >>]

ChunkInit ==
  /\ chunking = "idle" /\ document = NoDocument /\ config = LeastConfig
  /\ boundaries = <<0>> /\ span = 1 /\ tile = 1 /\ header = << >>
  /\ bodies = << >> /\ safe = << >> /\ chunks = << >> /\ named = << >>

\* outline: the first lines of the entries, as byte sequences.
OutlineEntriesForChunk(text, outline) ==
  SelectSeq(outline, LAMBDA entry : \E i \in 0 .. Len(text) - Len(entry) :
                                      Bytes(text, i, i + Len(entry)) = entry)

\* chunk_summary names at most four entries, and nothing for a whole file.
ChunkSummary(chunk) ==
  IF chunk.total = 1 THEN << >>
  ELSE SubSeq(chunk.outline, 1, Smaller(4, Len(chunk.outline)))

\* A document below the threshold is one chunk.
ShipWhole(d, c) ==
  /\ Len(d.content) \div 3 <= c.threshold
  /\ chunking' = "done" /\ document' = d /\ config' = c
  /\ chunks' = <<[start |-> 0, end |-> Len(d.content), text |-> d.content,
                  tokens |-> Len(d.content) \div 3, index |-> 0, total |-> 1, outline |-> d.outline]>>
  /\ named' = <<ChunkSummary(chunks'[1])>>
  /\ UNCHANGED <<boundaries, span, tile, header, bodies, safe>>

\* One with items is tiled along them, one without is a tile, cut into lines.
OpenDocument(d, c) ==
  /\ Len(d.content) \div 3 > c.threshold
  /\ document' = d /\ config' = c
  /\ IF d.spans # << >>
     THEN chunking' = "items" /\ UNCHANGED <<boundaries, tile, bodies>>
     ELSE /\ chunking' = "lines" /\ tile' = 2 /\ boundaries' = <<0, Len(d.content)>>
          /\ bodies' = <<OpenBody(0, Len(d.content), c, 0, << >>)>>
  /\ UNCHANGED <<span, header, safe, chunks, named>>

ChunkDocument ==
  chunking = "idle" /\ \E d \in Documents, c \in Configs : ShipWhole(d, c) \/ OpenDocument(d, c)

-----------------------------------------------------------------------------
\* The item starts that open a chunk.
ExamineItem ==
  /\ chunking = "items" /\ span <= Len(document.spans)
  /\ LET item == document.spans[span]
         end == Smaller(item.end, Len(document.content))
     IN  boundaries' = IF Less(end, Last(boundaries)) > Target(config) /\ item.start > Last(boundaries)
                       THEN Append(boundaries, item.start) ELSE boundaries
  /\ span' = span + 1
  /\ UNCHANGED <<chunking, document, config, tile, header, bodies, safe, chunks, named>>

\* Mutant of CloseBoundaries: the last boundary is the start of an item.
CloseBoundariesAtItem ==
  /\ chunking = "items" /\ span > Len(document.spans)
  /\ chunking' = "tiles" /\ span' = 1
  /\ UNCHANGED <<document, config, boundaries, tile, header, bodies, safe, chunks, named>>

\* The end of the file is the last; as the boundaries increase, no tile is empty.
CloseBoundaries ==
  /\ chunking = "items" /\ span > Len(document.spans)
  /\ chunking' = "tiles" /\ span' = 1
  /\ boundaries' = IF Last(boundaries) = Len(document.content) THEN boundaries
                   ELSE Append(boundaries, Len(document.content))
  /\ UNCHANGED <<document, config, tile, header, bodies, safe, chunks, named>>

\* The header of a tile takes the items that begin in it, as far as they fit.
AddToHeader ==
  /\ chunking = "tiles" /\ tile < Len(boundaries) /\ span <= Len(document.spans)
  /\ LET item == document.spans[span]
         within == item.start >= boundaries[tile] /\ item.start < boundaries[tile + 1]
         over == header # << >> /\ Len(header) + Len(item.header) > MaxHeader
     IN  /\ span' = IF within /\ over THEN Len(document.spans) + 1 ELSE span + 1
         /\ header' = IF ~within \/ over THEN header
                      ELSE IF header = << >> THEN item.header
                      ELSE header \o <<Newline>> \o item.header
  /\ UNCHANGED <<chunking, document, config, boundaries, tile, bodies, safe, chunks, named>>

\* A tile within the cap and the ceiling is one chunk, else its lines are.
CloseTile ==
  /\ chunking = "tiles" /\ tile < Len(boundaries) /\ span > Len(document.spans)
  /\ LET a == boundaries[tile]
         b == boundaries[tile + 1]
         chunk == Sized(a, b, Prefixed(header, Bytes(document.content, a, b)))
     IN  IF b - a <= Cap(config) /\ chunk.tokens <= MaxSafe
         THEN safe' = Append(safe, chunk) /\ UNCHANGED <<chunking, bodies>>
         ELSE /\ chunking' = "lines" /\ bodies' = <<OpenBody(a, b, config, 0, header)>>
              /\ UNCHANGED safe
  /\ tile' = tile + 1 /\ span' = 1 /\ header' = << >>
  /\ UNCHANGED <<document, config, boundaries, chunks, named>>

-----------------------------------------------------------------------------
Innermost == Last(bodies)

\* The chunk of a body that comes next.
NextChunk(body) ==
  LET text == Bytes(document.content, body.start, body.end)
      at == body.at - body.start
      cut == Cut(text, at, body.config)
      piece == Piece(text, at, cut, OverlapOf(body.config))
  IN  Sized(body.at, body.start + cut, IF at = 0 THEN Prefixed(body.prefix, piece) ELSE piece)

CutUpTo(b) == [bodies EXCEPT ![Len(bodies)].at = b]

Cutting == chunking = "lines" /\ Innermost.at < Innermost.end

KeepChunk ==
  /\ Cutting
  /\ LET chunk == NextChunk(Innermost)
     IN  /\ chunk.tokens <= MaxSafe
         /\ safe' = Append(safe, chunk) /\ bodies' = CutUpTo(chunk.end)
  /\ UNCHANGED <<chunking, document, config, boundaries, span, tile, header, chunks, named>>

\* A chunk with too many tokens is a body of its own, cut with tighter sizes.
SplitOversized ==
  /\ Cutting /\ Innermost.depth < 3
  /\ LET chunk == NextChunk(Innermost)
         tighter == Tightened(Innermost.config)
     IN  /\ chunk.tokens > MaxSafe
         /\ bodies' = Append(CutUpTo(chunk.end),
                             OpenBody(chunk.start, chunk.end, tighter, Innermost.depth + 1, << >>))
  /\ UNCHANGED <<chunking, document, config, boundaries, span, tile, header, safe, chunks, named>>

\* After three times it is left as it is, without its overlap.
LeaveOversized ==
  /\ Cutting /\ Innermost.depth >= 3
  /\ LET chunk == NextChunk(Innermost)
     IN  /\ chunk.tokens > MaxSafe
         /\ safe' = Append(safe, Sized(chunk.start, chunk.end,
                                         Bytes(document.content, chunk.start, chunk.end)))
         /\ bodies' = CutUpTo(chunk.end)
  /\ UNCHANGED <<chunking, document, config, boundaries, span, tile, header, chunks, named>>

\* A body that is cut up to its end.
CloseBody ==
  /\ chunking = "lines" /\ Innermost.at >= Innermost.end
  /\ bodies' = Front(bodies)
  /\ chunking' = IF Len(bodies) = 1 THEN "tiles" ELSE "lines"
  /\ UNCHANGED <<document, config, boundaries, span, tile, header, safe, chunks, named>>

NumberChunks ==
  /\ chunking = "tiles" /\ tile >= Len(boundaries)
  /\ chunking' = "done"
  /\ chunks' = [k \in DOMAIN safe |->
                  [start |-> safe[k].start, end |-> safe[k].end, text |-> safe[k].text,
                   tokens |-> safe[k].tokens, index |-> k - 1, total |-> Len(safe),
                   outline |-> OutlineEntriesForChunk(safe[k].text, document.outline)]]
  /\ named' = [k \in DOMAIN safe |-> ChunkSummary(chunks'[k])]
  /\ UNCHANGED <<document, config, boundaries, span, tile, header, bodies, safe>>

ChunkNext ==
  \/ ChunkDocument \/ ExamineItem \/ CloseBoundaries \/ AddToHeader \/ CloseTile
  \/ KeepChunk \/ SplitOversized \/ LeaveOversized \/ CloseBody \/ NumberChunks

ChunkSpec == ChunkInit /\ [][ChunkNext]_chunkVars

-----------------------------------------------------------------------------
EndsWith(text, own) ==
  Len(own) <= Len(text) /\ SubSeq(text, Len(text) - Len(own) + 1, Len(text)) = own

(* The chunks of a document tile it: they follow each other from its start *)
(* to its end, cut no character in two, and carry their own bytes.         *)
ChunksTile ==
  chunking = "done" =>
    /\ chunks # << >> /\ chunks[1].start = 0 /\ Last(chunks).end = Len(document.content)
    /\ \A k \in DOMAIN chunks :
          /\ k > 1 => chunks[k].start = chunks[k - 1].end
          /\ IsCharBoundary(document.content, chunks[k].start)
          /\ EndsWith(chunks[k].text, Bytes(document.content, chunks[k].start, chunks[k].end))
=============================================================================

----------------------------- MODULE ModelMarkers -----------------------------
(***************************************************************************)
(* The markers a model writes for the orchestrator (caw-transform): what   *)
(* is extracted from its text and what is stripped of its answer; and the  *)
(* references of a prompt that are replaced by stubs.                      *)
(*                                                                         *)
(* Texts are those of ResponseText with more markers.  A reference token   *)
(* is a record [link, path] and a line reference [source, start, end].     *)
(***************************************************************************)
EXTENDS ResponseText, FiniteSetsExt

Probe == "<probe>"
EndProbe == "</probe>"
EndNote == "</note>"
NoteIds == {"a", "b"}
Note(id) == "<note " \o id \o ">"
Notes == {Note(id) : id \in NoteIds}

None == [start |-> 0, end |-> 0]

(* The leftmost block: "." matches no line break, "(?s)." does.            *)
FirstBlock(text, opens, close, multiline) ==
  LET Closes(i) == {j \in i + 1 .. Len(text) :
                      text[j] = close /\ (multiline \/ \A k \in i .. j : ~IsSpace(text[k]))}
      starts == {i \in DOMAIN text : text[i] \in opens /\ Closes(i) # {}}
  IN  IF starts = {} THEN None ELSE [start |-> Min(starts), end |-> Min(Closes(Min(starts)))]

Inside(text, b) == SubSeq(text, b.start + 1, b.end - 1)

RECURSIVE Blocks(_, _, _, _)
Blocks(text, opens, close, multiline) ==
  LET b == FirstBlock(text, opens, close, multiline)
  IN  IF b = None THEN << >>
      ELSE <<[open |-> text[b.start], content |-> Inside(text, b)]>>
           \o Blocks(After(text, b.end), opens, close, multiline)

\* The text with its blocks unwrapped, or dropped.
RECURSIVE Replaced(_, _, _, _, _)
Replaced(text, opens, close, multiline, unwrap) ==
  LET b == FirstBlock(text, opens, close, multiline)
  IN  IF b = None THEN text
      ELSE Before(text, b.start) \o (IF unwrap THEN Inside(text, b) ELSE << >>)
           \o Replaced(After(text, b.end), opens, close, multiline, unwrap)

-----------------------------------------------------------------------------
ExtractProbes(text) ==
  LET found == Blocks(text, {Probe}, EndProbe, FALSE)
  IN  [i \in DOMAIN found |-> found[i].content]

ExtractAnnotations(text) ==
  LET found == Blocks(text, Notes, EndNote, FALSE)
  IN  [i \in DOMAIN found |->
         [id |-> CHOOSE id \in NoteIds : found[i].open = Note(id), content |-> found[i].content]]

CountFakeRecallMarkers(text) == Len(Blocks(text, {Recalled}, EndRecall, TRUE))

(* Line references may be written backwards; they are read as one line.    *)
ExtractLineReferences(refs) ==
  [i \in DOMAIN refs |-> [refs[i] EXCEPT !.end = Max({@, refs[i].start})]]

(* A line that starts a step ends the one before, and is itself kept only  *)
(* when there was none.                                                    *)
StepWords == {"Therefore", "Thus", "So", "1."}
DetectStepBoundaries(text) ==
  LET lines == Pieces(text, {Break})
      Boundary(l) == Blank(l) \/ Head(Words(l)) \in StepWords
      TakeLine(s, l) ==
        IF Boundary(l) /\ s.current # << >>
        THEN [steps |-> Append(s.steps, s.current), current |-> << >>]
        ELSE [s EXCEPT !.current = @ \o Words(l)]
      all == FoldLeft(TakeLine, [steps |-> << >>, current |-> << >>], lines)
      steps == IF all.current = << >> THEN all.steps ELSE Append(all.steps, all.current)
  IN  SelectSeq(steps, LAMBDA s : Len(s) > 1)

ExtractThinkingSteps(text) ==
  LET thoughts == Blocks(text, {Think}, EndThink, TRUE)
  IN  IF thoughts # << >> THEN [i \in DOMAIN thoughts |-> thoughts[i].content]
      ELSE DetectStepBoundaries(text)

(* thinking_trace.rs: the parts between a given boundary.                  *)
SplitAtBoundary(text, boundary) ==
  LET parts == NotBlank(Pieces(text, {boundary})) IN [i \in DOMAIN parts |-> Trim(parts[i])]

(* Mutant of StripMarkers: notes are dropped with their text.              *)
StripMarkersWithNotes(text) ==
  LET unnoted  == Replaced(text, Notes, EndNote, FALSE, FALSE)
      unprobed == Replaced(unnoted, {Probe}, EndProbe, FALSE, FALSE)
      thinking == Replaced(unprobed, {Think}, EndThink, TRUE, FALSE)
      cut == Find(thinking, Think)
      said == IF cut = 0 THEN thinking ELSE Before(thinking, cut)
  IN  Trim(SelectSeq(said, LAMBDA t : t \notin {ImEnd, ImStart}))

StripMarkers(text) ==
  LET unnoted  == Replaced(text, Notes, EndNote, FALSE, TRUE)
      unprobed == Replaced(unnoted, {Probe}, EndProbe, FALSE, FALSE)
      thinking == Replaced(unprobed, {Think}, EndThink, TRUE, FALSE)
      cut == Find(thinking, Think)
      said == IF cut = 0 THEN thinking ELSE Before(thinking, cut)
  IN  Trim(SelectSeq(said, LAMBDA t : t \notin {ImEnd, ImStart}))

-----------------------------------------------------------------------------
(* transform: links first, then @paths, each replaced everywhere by the    *)
(* stub of its path.  No reference is a prefix of another one.             *)
Transform(prompt, stubs) ==
  LET Known(link) == SelectSeq(prompt, LAMBDA t : t.kind = link /\ t.path \in stubs)
      Stub(t) == IF t.kind # "word" /\ t.path \in stubs THEN [kind |-> "stub", path |-> t.path] ELSE t
      refs == Known("link") \o Known("at")
  IN  [transformed |-> [i \in DOMAIN prompt |-> Stub(prompt[i])],
       references  |-> [i \in DOMAIN refs |-> refs[i].path]]

ExtractStubReferences(tokens) ==
  LET refs == SelectSeq(tokens, LAMBDA t : t.kind = "stub") IN [i \in DOMAIN refs |-> refs[i].path]
=============================================================================

------------------------------ MODULE Outlines ------------------------------
(***************************************************************************)
(* What is read off a parsed source file (caw-ingest/tree_sitter_outline): *)
(* the outline of a stub and the item spans its chunks are cut at.         *)
(*                                                                         *)
(* A node of the syntax tree is a record: its kind, its name, its first    *)
(* line, its bounds, its children, and whether it is async, exported or a  *)
(* plain pub.  The parser itself is external.  An entry is a record of its *)
(* depth and of the text that stands for it.                               *)
(***************************************************************************)
EXTENDS Naturals, Sequences, SequencesExt, FiniteSetsExt

CONSTANT MaxEntries     \* entries of an outline: 60 in the code

Comments == {"line_comment", "block_comment", "attribute_item"}
RustItems == {"function_item", "struct_item", "enum_item", "trait_item", "impl_item", "mod_item",
              "type_item", "const_item", "static_item", "union_item", "macro_definition"}
\* Items whose declaration ends where a body starts, and the kind of that body.
BodyOf == [function_item |-> "block", struct_item |-> "field_declaration_list",
           enum_item |-> "enum_variant_list", trait_item |-> "declaration_list",
           impl_item |-> "declaration_list"]

HasKid(node, kind) == \E k \in DOMAIN node.kids : node.kids[k].kind = kind
Kids(node, kind) == SelectSeq(node.kids, LAMBDA k : k.kind = kind)

\* text_until_child: the declaration, or the first line of a node without a body.
TextUntilChild(node, kind) ==
  IF HasKid(node, kind) THEN <<"declaration", node.name>> ELSE <<"first line", node.name>>
FirstLine(node) == <<"first line", node.name>>

RustItemSignature(node) ==
  IF node.kind \in DOMAIN BodyOf THEN TextUntilChild(node, BodyOf[node.kind]) ELSE FirstLine(node)

-----------------------------------------------------------------------------
\* pending holds the start of the comments and attributes the next item absorbs.
AfterNode(walk, node) ==
  LET leading == IF walk.pending = {} THEN {node.start} ELSE walk.pending
  IN  IF node.kind \in Comments THEN [walk EXCEPT !.pending = leading]
      ELSE IF node.kind \in RustItems
      THEN [pending |-> {},
            spans |-> Append(walk.spans,
              [start |-> Min(leading), item |-> node.start, end |-> node.end,
               signature |-> RustItemSignature(node)])]
      ELSE [walk EXCEPT !.pending = {}]

ExtractItemSpans(nodes, extension) ==
  IF extension # "rs" THEN << >>
  ELSE FoldLeft(AfterNode, [pending |-> {}, spans |-> << >>], nodes).spans

\* extract_doc_lines: the line comments before an item, to MaxDoc lines.
ExtractDocLines(nodes, span, MaxDoc) ==
  LET docs == SelectSeq(nodes, LAMBDA n :
                n.kind = "line_comment" /\ n.start >= span.start /\ n.start < span.item /\ n.name # "")
  IN  SubSeq(docs, 1, IF Len(docs) < MaxDoc THEN Len(docs) ELSE MaxDoc)

-----------------------------------------------------------------------------
Entry(depth, text) == <<[depth |-> depth, text |-> text]>>

RECURSIVE ExtractRustNode(_, _)
ExtractRustNode(node, depth) ==
  LET methods == FlattenSeq([k \in DOMAIN Kids(node, "declaration_list") |->
                   LET body == Kids(node, "declaration_list")[k].kids
                   IN  FlattenSeq([i \in DOMAIN body |-> ExtractRustNode(body[i], depth + 1)])])
  IN  IF depth > 1 THEN << >>
      ELSE CASE node.kind \in {"function_item", "struct_item", "enum_item", "trait_item"} ->
                  Entry(depth, TextUntilChild(node, BodyOf[node.kind]))
             [] node.kind = "impl_item" ->
                  Entry(depth, TextUntilChild(node, "declaration_list")) \o methods
             [] node.kind = "mod_item" ->
                  Entry(depth, IF node.pub THEN <<"pub mod", node.name>> ELSE <<"mod", node.name>>)
             [] node.kind \in {"type_item", "const_item", "static_item"} ->
                  Entry(depth, FirstLine(node))
             [] OTHER -> << >>

RECURSIVE ExtractPythonNode(_, _)
ExtractPythonNode(node, depth) ==
  LET inside(kinds, deeper) ==
        FlattenSeq([k \in DOMAIN node.kids |->
          IF node.kids[k].kind \in kinds THEN ExtractPythonNode(node.kids[k], deeper) ELSE << >>])
      block == FlattenSeq([k \in DOMAIN Kids(node, "block") |->
                 LET body == Kids(node, "block")[k].kids
                 IN  FlattenSeq([i \in DOMAIN body |-> ExtractPythonNode(body[i], depth + 1)])])
  IN  IF depth > 1 THEN << >>
      ELSE CASE node.kind = "function_definition" ->
                  Entry(depth, <<IF node.async THEN "async def" ELSE "def", node.name>>)
             [] node.kind = "class_definition" -> Entry(depth, <<"class", node.name>>) \o block
             [] node.kind = "decorated_definition" ->
                  inside({"function_definition", "class_definition"}, depth)
             [] OTHER -> << >>

RECURSIVE ExtractJsNode(_, _, _)
ExtractJsNode(node, depth, ts) ==
  LET named(kids, text) == FlattenSeq([k \in DOMAIN kids |-> Entry(depth, <<text, kids[k].name>>)])
      methods == FlattenSeq([k \in DOMAIN Kids(node, "method_definition") |->
                   Entry(1, <<"method", Kids(node, "method_definition")[k].name>>)])
      inner == FlattenSeq([k \in DOMAIN node.kids |->
                 IF node.kids[k].kind = "export" THEN << >>
                 ELSE ExtractJsNode(node.kids[k], depth, ts)])
  IN  IF depth > 1 THEN << >>
      ELSE CASE node.kind = "function_declaration" -> Entry(depth, <<"function", node.name>>)
             [] node.kind = "class_declaration" -> Entry(depth, <<"class", node.name>>) \o methods
             [] node.kind = "lexical_declaration" -> named(Kids(node, "arrow_function"), "arrow")
             [] node.kind = "export_statement" -> inner
             [] ts /\ node.kind \in {"interface_declaration", "type_alias_declaration",
                                     "enum_declaration"} -> Entry(depth, <<node.kind, node.name>>)
             [] OTHER -> << >>

ExtractGoNode(node) ==
  LET form(spec) ==
        IF HasKid(spec, "struct_type") THEN "struct"
        ELSE IF HasKid(spec, "interface_type") THEN "interface" ELSE "alias"
      specs == Kids(node, "type_spec")
  IN  CASE node.kind \in {"function_declaration", "method_declaration"} ->
             Entry(0, TextUntilChild(node, "block"))
        [] node.kind = "type_declaration" ->
             FlattenSeq([k \in DOMAIN specs |-> Entry(0, <<form(specs[k]), specs[k].name>>)])
        [] OTHER -> << >>

\* extract_outline_tree_sitter; a language without a grammar has no outline.
ExtractOutlineTreeSitter(nodes, extension) ==
  LET entries(n) == CASE extension = "rs" -> ExtractRustNode(n, 0)
                      [] extension = "py" -> ExtractPythonNode(n, 0)
                      [] extension \in {"js", "jsx"} -> ExtractJsNode(n, 0, FALSE)
                      [] extension \in {"ts", "tsx"} -> ExtractJsNode(n, 0, TRUE)
                      [] extension = "go" -> ExtractGoNode(n)
                      [] OTHER -> << >>
      all == FlattenSeq([k \in DOMAIN nodes |-> entries(nodes[k])])
  IN  SubSeq(all, 1, IF Len(all) < MaxEntries THEN Len(all) ELSE MaxEntries)

-----------------------------------------------------------------------------
\* A line of a document is a record: heading or not, blank or not, and its text.
IsBlank(line) == line.text = ""

SummarizePlaintext(lines) ==
  LET shown == SelectSeq(lines, LAMBDA l : ~IsBlank(l))
  IN  IF shown = << >> THEN <<"(empty)">> ELSE <<shown[1].text>>

\* The first heading with a text and the first line of text after it.
SummarizeMarkdown(lines, outline) ==
  LET title == SelectInSeq(lines, LAMBDA l : l.heading /\ ~IsBlank(l))
      para  == {i \in DOMAIN lines : i > title /\ ~lines[i].heading /\ ~IsBlank(lines[i])}
      first == CHOOSE i \in para : \A j \in para : i <= j
  IN  IF title = 0 THEN SummarizePlaintext(lines)
      ELSE IF para # {} THEN <<lines[title].text, lines[first].text>>
      ELSE <<lines[title].text>> \o outline

SummarizeCode(lines, outline) ==
  IF outline = << >> THEN SummarizePlaintext(lines)
  ELSE <<"Defines:">> \o SubSeq(outline, 1, IF Len(outline) < 5 THEN Len(outline) ELSE 5)
                      \o (IF Len(outline) > 5 THEN <<"more">> ELSE << >>)

DeterministicSummarize(kind, lines, outline) ==
  CASE kind = "markdown" -> SummarizeMarkdown(lines, outline)
    [] kind = "code" -> SummarizeCode(lines, outline)
    [] OTHER -> SummarizePlaintext(lines)

\* LlmSummarizer: a blank answer falls back, an error is an error.
LlmSummarize(kind, lines, outline, reply) ==
  IF ~reply.ok THEN [ok |-> FALSE]
  ELSE [ok |-> TRUE,
        text |-> IF reply.text = << >> THEN DeterministicSummarize(kind, lines, outline)
                 ELSE reply.text]
=============================================================================

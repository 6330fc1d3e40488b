----------------------------- MODULE KindedText -----------------------------
(***************************************************************************)
(* Texts of tokens that have a kind; the white space is the kind "break",  *)
(* one line break.                                                         *)
(***************************************************************************)
EXTENDS Naturals, Sequences, FiniteSetsExt

Places(text, kind) == {i \in DOMAIN text : text[i].kind = kind}
After(text, i) == SubSeq(text, i + 1, Len(text))

\* The first two line breaks in a row.
Gaps(text) == {i \in Places(text, "break") : i + 1 \in Places(text, "break")}

\* str::trim, of a text that is not blank.
NotBreaks(text) == {i \in DOMAIN text : text[i].kind # "break"}
Trim(text) == SubSeq(text, Min(NotBreaks(text)), Max(NotBreaks(text)))
=============================================================================

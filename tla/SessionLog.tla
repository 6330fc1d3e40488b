----------------------------- MODULE SessionLog -----------------------------
(***************************************************************************)
(* The markdown files that sessions leave behind (session.rs of            *)
(* caw-orchestrator) and how the next session reads them (with_session in  *)
(* dynamic.rs).  A session appends each of its turns to a file of its own. *)
(* A write may fail, or the process die, when any part of the text is on   *)
(* disk; after a failed write the session goes on, and the next turn is    *)
(* appended to what is there.  A new session goes through the earlier      *)
(* files, section by section, and keeps what it can embed.                 *)
(*                                                                         *)
(* A file is a sequence of tokens.  Those of the sample of a degenerate    *)
(* turn are marked, unless its text has a heading at the start of a line,  *)
(* which is read back as one; the code never looks at the mark.            *)
(***************************************************************************)
EXTENDS KindedText

CONSTANTS
    Queries, Answers, Samples,  \* texts of the user, of the model, of a degenerate model
    MaxPriorAnswer,             \* tokens of an answer kept for the next session
    MaxLogged,                  \* turns written, by all sessions
    MaxSessions                 \* sessions

Brackets == {"user", "assistant", "degenerate", "bracket"}
TokenKinds == Brackets \cup {"word", "break", "heading", "numeral", "rule", "stop"}

\* The texts are lists of kinds.
ASSUME SessionAssumption ==
  /\ Queries \cup Answers \cup Samples \subseteq Seq(TokenKinds)
  /\ MaxPriorAnswer \in Nat \ {0} /\ MaxLogged \in Nat /\ MaxSessions \in Nat

VARIABLES
    sessionDir,         \* the files, in the order of their sessions; the last is the current one
    loading,            \* the session is in with_session
    unread,             \* the files it has still to open
    openFile,           \* the file it reads, or 0
    readFrom,           \* the heading of the section it reads next; 0 for the first section
    priorStubs,         \* what it keeps of the earlier turns
    turnsLogged,        \* turns written so far
    lost                \* a write was cut, a file skipped, or an embedding failed

logVars == <<sessionDir, loading, unread, openFile, readFrom, priorStubs, turnsLogged, lost>>

Token(kind) == [kind |-> kind, sample |-> FALSE]
Marked(kinds, sample) == [i \in DOMAIN kinds |-> [kind |-> kinds[i], sample |-> sample]]
EmptyLine == <<Token("break"), Token("break")>>

\* write_turn; the heading follows no line break of its own.
TurnText(user, answer) ==
  <<Token("heading"), Token("numeral")>> \o EmptyLine \o <<Token("user")>> \o Marked(user, FALSE)
  \o EmptyLine \o <<Token("assistant")>> \o answer \o EmptyLine \o <<Token("rule")>> \o EmptyLine

\* No line but the first begins like a turn.
NoHeading(kinds) ==
  \A i \in 2 .. Len(kinds) : kinds[i] = "heading" => kinds[i - 1] # "break"

\* write_degenerate_turn
DegenerateTurn(user, sample) ==
  TurnText(user, <<Token("degenerate")>> \o Marked(sample, NoHeading(user) /\ NoHeading(sample)))

TurnTexts(user) ==
  {TurnText(user, Marked(answer, FALSE)) : answer \in Answers}
  \cup {DegenerateTurn(user, sample) : sample \in Samples}

\* The beginning of a token: what is left of a marker marks nothing.
Torn(token) ==
  [token EXCEPT !.kind = CASE token.kind \in Brackets -> "bracket"
                           [] token.kind = "numeral" -> "numeral"
                           [] OTHER -> "word"]

\* What write_all may leave of a text: a part, the last token of which may be torn.
Remains(text) ==
  {SubSeq(text, 1, k) : k \in 0 .. Len(text)}
  \cup {Append(SubSeq(text, 1, i - 1), Torn(text[i])) : i \in NotBreaks(text)}

SessionInit ==
  /\ sessionDir = <<<< >>>> /\ loading = FALSE /\ unread = {} /\ openFile = 0 /\ readFrom = 0
  /\ priorStubs = << >> /\ turnsLogged = 0 /\ lost = FALSE

\* write_text
LogTurn ==
  /\ ~loading /\ turnsLogged < MaxLogged /\ turnsLogged' = turnsLogged + 1
  /\ \E user \in Queries : \E text \in TurnTexts(user) : \E written \in Remains(text) :
        /\ sessionDir' = [sessionDir EXCEPT ![Len(sessionDir)] = @ \o written]
        /\ lost' = (lost \/ written # text)
  /\ UNCHANGED <<loading, unread, openFile, readFrom, priorStubs>>

StartSession ==
  /\ ~loading /\ Len(sessionDir) < MaxSessions
  /\ sessionDir' = Append(sessionDir, << >>) /\ unread' = DOMAIN sessionDir
  /\ loading' = TRUE /\ openFile' = 0 /\ readFrom' = 0 /\ priorStubs' = << >>
  /\ UNCHANGED <<turnsLogged, lost>>

\* Entries come in any order; a file may be unreadable.
OpenFile ==
  /\ loading /\ openFile = 0
  /\ \E file \in unread, readable \in BOOLEAN :
        /\ unread' = unread \ {file}
        /\ openFile' = IF readable THEN file ELSE 0
        /\ lost' = (lost \/ ~readable)
  /\ UNCHANGED <<sessionDir, loading, readFrom, priorStubs, turnsLogged>>

-----------------------------------------------------------------------------
\* Where split("\n## Turn ") cuts: at the headings that follow a line break.
SectionStarts(text) == {i \in Places(text, "heading") : i - 1 \in Places(text, "break")}

\* Mutant of FieldEnds: only a rule ends a field.
FieldEndsAtRule(rest) ==
  {i \in Gaps(rest) : i + 2 \in DOMAIN rest /\ rest[i + 2].kind = "rule"}

\* A field ends at an empty line that a rule or a bracket follows.
FieldEnds(rest) ==
  {i \in Gaps(rest) : i + 2 \in DOMAIN rest /\ rest[i + 2].kind \in Brackets \cup {"rule"}}

Trimmed(text) == IF NotBreaks(text) = {} THEN << >> ELSE Trim(text)

ExtractField(section, marker) ==
  LET rest == After(section, Min(Places(section, marker)))
      end  == IF FieldEnds(rest) = {} THEN Len(rest) ELSE Min(FieldEnds(rest)) - 1
  IN  IF Places(section, marker) = {} THEN << >> ELSE Trimmed(SubSeq(rest, 1, end))

\* The last sentence that ends within the limit, or all that does.
CompressAssistant(text) ==
  LET kept  == SubSeq(text, 1, MaxPriorAnswer - 1)
      stops == Places(kept, "stop")
  IN  IF Len(text) <= MaxPriorAnswer THEN text
      ELSE Trimmed(SubSeq(kept, 1, IF stops = {} THEN Len(kept) ELSE Max(stops)))

(* What is kept of an answer; of none, and of a degenerate one, nothing.   *)
(* The sentinel ends in a space, which trim takes away when no sample      *)
(* follows it.                                                             *)
AnswerKept(raw) ==
  IF raw = << >> \/ (raw[1].kind = "degenerate" /\ Len(raw) > 1) THEN << >> ELSE CompressAssistant(raw)

\* The section that starts at readFrom, without the line break before the next one.
Later(text) == {i \in SectionStarts(text) : i > readFrom}
Section(text) ==
  SubSeq(text, readFrom + 1, IF Later(text) = {} THEN Len(text) ELSE Min(Later(text)) - 2)

\* Of a section that parse_session_turns takes for a turn.
TurnOf(section) ==
  [user |-> ExtractField(section, "user"), answer |-> AnswerKept(ExtractField(section, "assistant"))]
IsTurn(section) ==
  section # << >> /\ section[1].kind = "numeral" /\ ExtractField(section, "user") # << >>

\* A step of the loops over sections and over prior_stubs; the embedding may fail.
ReadSection ==
  /\ loading /\ openFile # 0
  /\ LET text == sessionDir[openFile]
         next == Later(text)
     IN  /\ \/ /\ IsTurn(Section(text))
               /\ \/ priorStubs' = Append(priorStubs, TurnOf(Section(text))) /\ UNCHANGED lost
                  \/ lost' = TRUE /\ UNCHANGED priorStubs
            \/ ~IsTurn(Section(text)) /\ UNCHANGED <<priorStubs, lost>>
         /\ readFrom' = IF next = {} THEN 0 ELSE Min(next)
         /\ openFile' = IF next = {} THEN 0 ELSE openFile
  /\ UNCHANGED <<sessionDir, loading, unread, turnsLogged>>

EndLoad ==
  /\ loading /\ openFile = 0 /\ unread = {} /\ loading' = FALSE
  /\ UNCHANGED <<sessionDir, unread, openFile, readFrom, priorStubs, turnsLogged, lost>>

SessionNext == LogTurn \/ StartSession \/ OpenFile \/ ReadSection \/ EndLoad

SessionSpec == SessionInit /\ [][SessionNext]_logVars

-----------------------------------------------------------------------------
(* The sample of a degenerate answer never reaches a later session,        *)
(* whichever writes were cut short and whatever was appended to them,      *)
(* unless the text of its turn imitates the heading of one.                *)
DegenerateStaysOut ==
  \A k \in DOMAIN priorStubs : \A text \in {priorStubs[k].user, priorStubs[k].answer} :
     \A i \in DOMAIN text : ~text[i].sample

(* "Parse a session markdown file into (user_query, ...) pairs" (session.rs): *)
(* every turn of an earlier session can be recalled in the next one.       *)
EarlierTurnsAreRecalled ==
  ~loading /\ ~lost /\ sessionDir[Len(sessionDir)] = << >> => Len(priorStubs) = turnsLogged
=============================================================================

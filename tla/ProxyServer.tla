----------------------------- MODULE ProxyServer -----------------------------
(***************************************************************************)
(* caw-server (caw-server/src/lib.rs): concurrent requests to a proxy that *)
(* injects recalled fragments into the last user message.  Embedder, index *)
(* and store each sit behind a mutex, which a panic of its holder poisons; *)
(* a request that cannot be augmented is forwarded as it is.               *)
(***************************************************************************)
EXTENDS Naturals, Sequences, SequencesExt, FiniteSets

CONSTANTS
    Requests,
    Bodies,             \* request bodies: sequences of messages
    Routes,             \* "proxy" (both chat routes) and "retrieve"
    Rankings,           \* the ids rank_candidates may return
    SourceOf,           \* stub id -> path
    TokensOf,           \* stub id -> tokens of its body
    MaxWorkspaceTokens,
    MaxChunksPerSource

Stubs == DOMAIN SourceOf
NoRequest == "none"

ASSUME ProxyAssumption ==
    /\ MaxWorkspaceTokens \in Nat /\ MaxChunksPerSource \in Nat
    /\ TokensOf \in [Stubs -> Nat] /\ Rankings \subseteq Seq(Stubs)
    /\ NoRequest \notin Requests

VARIABLES
    where,         \* per request: waiting, embed, search, lock, scan, augment, forward, answered
    route, body,    \* what the client asked
    hits,       \* the ranked candidates that are left
    scored,       \* the candidates with their dispositions
    sent,       \* the request the upstream received
    answer,     \* what the client gets
    holder,     \* who holds the store for the length of a scan
    poisoned    \* mutexes that are poisoned

proxyVars == <<where, route, body, hits, scored, sent, answer, holder, poisoned>>

ProxyInit ==
    /\ where = [r \in Requests |-> "waiting"]
    /\ route \in [Requests -> Routes] /\ body \in [Requests -> Bodies]
    /\ hits = [r \in Requests |-> << >>]
    /\ scored = [r \in Requests |-> << >>] /\ sent = [r \in Requests |-> << >>]
    /\ answer = [r \in Requests |-> "none"]
    /\ holder = NoRequest /\ poisoned = {}

-----------------------------------------------------------------------------
(* A message is [role, form, texts]: its content is a string, an array of  *)
(* blocks of which texts are the text ones, or something else.             *)
LastUser(messages) == SelectLastInSeq(messages, LAMBDA m : m.role = "user")

MessageText(message) ==
    CASE message.form = "string" -> message.texts
      [] message.form = "blocks" -> SelectSeq(message.texts, LAMBDA t : t # "")
      [] OTHER -> << >>

ExtractLastUserContent(messages) ==
    IF LastUser(messages) = 0 THEN << >> ELSE MessageText(messages[LastUser(messages)])

\* What a proxied request is searched with; the diagnostic takes no blank one.
HasQuery(r) ==
    LET i == LastUser(body[r])
    IN  i # 0 /\ IF route[r] = "proxy" /\ body[r][i].form = "string" THEN TRUE
                 ELSE ExtractLastUserContent(body[r]) \notin {<< >>, <<"">>}

AugmentLastUserMessage(messages, fragments) ==
    LET i == LastUser(messages)
    IN  IF messages[i].form \in {"string", "blocks"}
        THEN [messages EXCEPT ![i].texts = Append(@, fragments)]
        ELSE messages

\* The result of a proxy request without augmentation, and of a diagnostic.
GiveUp(r, error) ==
    IF route[r] = "proxy" THEN where' = [where EXCEPT ![r] = "forward"] /\ UNCHANGED answer
    ELSE where' = [where EXCEPT ![r] = "answered"] /\ answer' = [answer EXCEPT ![r] = error]

-----------------------------------------------------------------------------
Arrive(r) ==
    /\ where[r] = "waiting"
    /\ IF HasQuery(r) THEN where' = [where EXCEPT ![r] = "embed"] /\ UNCHANGED answer
       ELSE GiveUp(r, "bad request")
    /\ UNCHANGED <<route, body, hits, scored, sent, holder, poisoned>>

(* A section under a mutex: it is poisoned already, panics, fails or goes  *)
(* on.  The panic takes the connection with it.                            *)
Panics(r, mutex) ==
    /\ mutex \notin poisoned
    /\ poisoned' = poisoned \cup {mutex}
    /\ where' = [where EXCEPT ![r] = "answered"] /\ answer' = [answer EXCEPT ![r] = "closed"]
    /\ scored' = [scored EXCEPT ![r] = << >>]

EmbedQuery(r) ==
    /\ where[r] = "embed"
    /\ \/ "embedder" \notin poisoned /\ where' = [where EXCEPT ![r] = "search"] /\ UNCHANGED <<answer, scored, poisoned>>
       \/ GiveUp(r, "error") /\ UNCHANGED <<scored, poisoned>>
       \/ Panics(r, "embedder")
    /\ UNCHANGED <<route, body, hits, sent, holder>>

SearchIndex(r) ==
    /\ where[r] = "search"
    /\ \/ "index" \in poisoned /\ GiveUp(r, "error") /\ UNCHANGED <<hits, scored, poisoned>>
       \/ /\ "index" \notin poisoned /\ where' = [where EXCEPT ![r] = "lock"]
          /\ \E ranked \in Rankings : hits' = [hits EXCEPT ![r] = ranked]
          /\ UNCHANGED <<answer, scored, poisoned>>
       \/ Panics(r, "index") /\ UNCHANGED hits
    /\ UNCHANGED <<route, body, sent, holder>>

(* Mutant of LockStore: a poisoned store is waited for.                    *)
LockStoreWaits(r) ==
    /\ where[r] = "lock" /\ "store" \notin poisoned
    /\ holder = NoRequest /\ holder' = r /\ where' = [where EXCEPT ![r] = "scan"]
    /\ UNCHANGED <<route, body, hits, scored, sent, answer, poisoned>>

LockStore(r) ==
    /\ where[r] = "lock"
    /\ IF "store" \in poisoned THEN GiveUp(r, "error") /\ UNCHANGED holder
       ELSE holder = NoRequest /\ holder' = r /\ where' = [where EXCEPT ![r] = "scan"] /\ UNCHANGED answer
    /\ UNCHANGED <<route, body, hits, scored, sent, poisoned>>

-----------------------------------------------------------------------------
Row(id, path, disposition) == [id |-> id, path |-> path, disposition |-> disposition]
\* The rows with a verdict, by their places in the ranking.
With(r, disposition) == {i \in DOMAIN scored[r] : scored[r][i].disposition = disposition}
Admitted(r) == With(r, "admitted")

(* A token of an admitted body is a cell, its row and a number.            *)
InjectedCells(r) == UNION {{i} \X (1 .. TokensOf[scored[r][i].id]) : i \in Admitted(r)}
UsedTokens(r) == Cardinality(InjectedCells(r))
FromSource(r, path) == Cardinality({i \in Admitted(r) : scored[r][i].path = path})

(* Mutant of Disposition: the budget is tested before the fragment is      *)
(* counted.                                                                *)
DispositionBeforeAdding(r, id) ==
    IF FromSource(r, SourceOf[id]) >= MaxChunksPerSource THEN {"duplicate_source"}
    ELSE IF With(r, "clamped") # {} THEN {"budget_full"}
    ELSE {"content_miss", IF UsedTokens(r) > MaxWorkspaceTokens THEN "clamped" ELSE "admitted"}

\* The dispositions of a candidate whose stub row was found.
Disposition(r, id) ==
    IF FromSource(r, SourceOf[id]) >= MaxChunksPerSource THEN {"duplicate_source"}
    ELSE IF With(r, "clamped") # {} THEN {"budget_full"}
    ELSE {"content_miss",
          IF UsedTokens(r) + TokensOf[id] > MaxWorkspaceTokens /\ Admitted(r) # {}
          THEN "clamped" ELSE "admitted"}

\* One candidate of retrieve_scored; get_stub may fail.
Consider(r) ==
    /\ where[r] = "scan" /\ hits[r] # << >>
    /\ LET id == Head(hits[r]) IN
       \E row \in {Row(id, SourceOf[id], d) : d \in Disposition(r, id)} \cup {Row(id, "", "content_miss")} :
          scored' = [scored EXCEPT ![r] = Append(@, row)]
    /\ hits' = [hits EXCEPT ![r] = Tail(@)]
    /\ UNCHANGED <<where, route, body, sent, answer, holder, poisoned>>

ScanPanics(r) ==
    /\ where[r] = "scan" /\ hits[r] # << >>
    /\ Panics(r, "store") /\ holder' = NoRequest
    /\ UNCHANGED <<route, body, hits, sent>>

EndScan(r) ==
    /\ where[r] = "scan" /\ hits[r] = << >>
    /\ holder' = NoRequest
    /\ IF route[r] = "proxy" THEN where' = [where EXCEPT ![r] = "augment"] /\ UNCHANGED <<answer, scored>>
       ELSE /\ where' = [where EXCEPT ![r] = "answered"] /\ answer' = [answer EXCEPT ![r] = "rows"]
            /\ scored' = [scored EXCEPT ![r] = << >>]
    /\ UNCHANGED <<route, body, hits, sent, poisoned>>

-----------------------------------------------------------------------------
(* The fragments of the admitted rows, in their order; none, no change.    *)
Injected(r) ==
    LET admitted == SelectSeq(scored[r], LAMBDA row : row.disposition = "admitted")
    IN  [i \in DOMAIN admitted |-> admitted[i].id]

Augment(r) ==
    /\ where[r] = "augment"
    /\ body' = [body EXCEPT ![r] =
                  IF Injected(r) = << >> THEN @ ELSE AugmentLastUserMessage(@, Injected(r))]
    /\ where' = [where EXCEPT ![r] = "forward"]
    /\ UNCHANGED <<route, hits, scored, sent, answer, holder, poisoned>>

\* The upstream's answer is streamed back, whatever its status.
Forward(r) ==
    /\ where[r] = "forward"
    /\ where' = [where EXCEPT ![r] = "answered"] /\ scored' = [scored EXCEPT ![r] = << >>]
    /\ \/ sent' = [sent EXCEPT ![r] = body[r]] /\ answer' = [answer EXCEPT ![r] = "upstream"]
       \/ answer' = [answer EXCEPT ![r] = "bad gateway"] /\ UNCHANGED sent
    /\ UNCHANGED <<route, body, hits, holder, poisoned>>

\* What the server does with a request that has arrived.
Proceed(r) ==
    \/ EmbedQuery(r) \/ SearchIndex(r) \/ LockStore(r) \/ Consider(r) \/ ScanPanics(r)
    \/ EndScan(r) \/ Augment(r) \/ Forward(r)

Handle(r) == Arrive(r) \/ Proceed(r)

ProxyNext == \E r \in Requests : Handle(r)

\* Nobody is made to ask; a handler that can go on does.
ProxyFairness == \A r \in Requests : WF_proxyVars(Proceed(r))

ProxySpec == ProxyInit /\ [][ProxyNext]_proxyVars /\ ProxyFairness

-----------------------------------------------------------------------------
(* The injected text keeps to max_workspace_tokens, but for a first body   *)
(* that alone is larger, and to the cap of chunks per source.              *)
InjectedWithinBudget == \A r \in Requests :
    /\ UsedTokens(r) <= MaxWorkspaceTokens \/ Cardinality(Admitted(r)) = 1
    /\ \A i \in Admitted(r) : FromSource(r, scored[r][i].path) <= MaxChunksPerSource

(* "greedy prefix": nothing ranked below the first candidate that did not  *)
(* fit is injected, though it would fit.                                   *)
NothingPastTheClamp == \A r \in Requests :
    \A i \in With(r, "clamped"), j \in Admitted(r) : j < i

(* What a request to the proxy injects keeps to its budget, to the cap of  *)
(* chunks per source and to the greedy prefix of the ranking.              *)
InjectionIsClamped == InjectedWithinBudget /\ NothingPastTheClamp

(* Whatever fails, and whatever another request poisons meanwhile, every   *)
(* request that has arrived is answered.                                   *)
EveryRequestAnswered == \A r \in Requests :
    where[r] \notin {"waiting", "answered"} ~> where[r] = "answered"
=============================================================================

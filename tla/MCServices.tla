------------------------------ MODULE MCServices ------------------------------
(***************************************************************************)
(* The processes around the library, side by side: the claude adapter, the *)
(* proxy, the index build, the CLI's index and the trace sink do not       *)
(* interact, so a behaviour picks one of them and takes the steps of its   *)
(* module, while the variables of the others keep their initial values.    *)
(* Each has its own small constants, here or in the configuration.         *)
(***************************************************************************)
EXTENDS Indexing, CliSession, ClaudeCall, TraceSink, ProxyServer, TLC

VARIABLE part

MCChunksOf == <<3, 1>>

Msg(role, form, texts) == [role |-> role, form |-> form, texts |-> texts]
MCBodies == {<<Msg("user", "string", <<"q">>)>>,
             <<Msg("user", "blocks", <<"">>), Msg("assistant", "string", <<"a">>)>>}

MCRankings == {<<1, 4, 2>>, <<2, 1, 3>>}
MCSourceOf == <<"x", "x", "x", "y">>
MCTokensOf == <<1, 2, 1, 3>>

-----------------------------------------------------------------------------
Parts == {"claude", "proxy", "indexing", "cli", "trace"}

allVars == <<part, callVars, proxyVars, vars, cliVars, traceVars>>

\* A part that is not picked has one initial state.  One request to the proxy
\* is a chat request, the other may be a diagnostic.
ServicesInit ==
    /\ part \in Parts
    /\ CallInit /\ ProxyInit /\ Init /\ CliInit /\ TraceInit
    /\ route["r1"] = "proxy"
    /\ part # "proxy" => \A r \in DOMAIN route : route[r] = "proxy" /\ Len(body[r]) = 1
    /\ part # "cli" => patterns = {}

\* In part x the step A, which leaves the variables of the other parts alone.
Claude(A) == part = "claude" /\ A /\ UNCHANGED <<part, proxyVars, vars, cliVars, traceVars>>
Proxies(A) == part = "proxy" /\ A /\ UNCHANGED <<part, callVars, vars, cliVars, traceVars>>
Builds(A) == part = "indexing" /\ A /\ UNCHANGED <<part, callVars, proxyVars, cliVars, traceVars>>
Clis(A) == part = "cli" /\ A /\ UNCHANGED <<part, callVars, proxyVars, vars, traceVars>>
Traces(A) == part = "trace" /\ A /\ UNCHANGED <<part, callVars, proxyVars, vars, cliVars>>

ServicesNext ==
    \/ Claude(CallNext)
    \/ Proxies(ProxyNext)
    \/ Builds(Next)
    \/ Clis(CliNext)
    \/ Traces(TraceNext)

\* The fairness of the parts that state some, each over its own steps.
ServicesFairness ==
    /\ WF_allVars(Claude(Caller)) /\ WF_allVars(Claude(ReadLine))
    /\ \A r \in Requests : WF_allVars(Proxies(Proceed(r)))
    /\ \A i \in Producers : WF_allVars(Builds(Ingest(i))) /\ WF_allVars(Builds(Send(i)))
    /\ WF_allVars(Builds(Receive)) /\ WF_allVars(Builds(FlushBatch)) /\ WF_allVars(Builds(EndBuild))

ServicesSpec == ServicesInit /\ [][ServicesNext]_allVars /\ ServicesFairness

=============================================================================

----------------------------- MODULE PathDemand -----------------------------
(***************************************************************************)
(* What a reindex queue promises, free of mutexes, deques and condition    *)
(* variables (the trait ReindexQueue and the contract in the comments of   *)
(* caw-core/src/reindex.rs).  A path somebody has asked to reindex is      *)
(* wanted until one worker takes it; asking for a wanted path changes      *)
(* nothing; every request made while the queue is open is answered by a    *)
(* take that happens after it; a worker leaves only when the queue is      *)
(* closed and nothing is wanted.                                           *)
(***************************************************************************)
CONSTANTS
    Paths,     \* the paths that can be asked for
    Workers,   \* the threads that run run_worker
    NoPath     \* what a worker holds when it holds nothing

VARIABLES
    open,      \* requests are accepted
    want,      \* the requests not taken yet
    holds,     \* the path each worker is reindexing
    gone       \* the workers that have returned

vars == <<open, want, holds, gone>>

Init ==
    /\ open = TRUE
    /\ want = {}
    /\ holds = [w \in Workers |-> NoPath]
    /\ gone = {}

Request(p) ==
    /\ open
    /\ want' = want \cup {p}
    /\ UNCHANGED <<open, holds, gone>>

Shut ==
    /\ open' = FALSE
    /\ UNCHANGED <<want, holds, gone>>

Take(w, p) ==
    /\ w \notin gone
    /\ holds[w] = NoPath
    /\ p \in want
    /\ want' = want \ {p}
    /\ holds' = [holds EXCEPT ![w] = p]
    /\ UNCHANGED <<open, gone>>

Finish(w) ==
    /\ holds[w] # NoPath
    /\ holds' = [holds EXCEPT ![w] = NoPath]
    /\ UNCHANGED <<open, want, gone>>

Leave(w) ==
    /\ ~open
    /\ want = {}
    /\ holds[w] = NoPath
    /\ gone' = gone \cup {w}
    /\ UNCHANGED <<open, want, holds>>

Next ==
    \/ \E p \in Paths : Request(p)
    \/ Shut
    \/ \E w \in Workers :
        \/ \E p \in Paths : Take(w, p)
        \/ Finish(w)
        \/ Leave(w)

Spec == Init /\ [][Next]_vars

=============================================================================

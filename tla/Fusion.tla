------------------------------- MODULE Fusion -------------------------------
(***************************************************************************)
(* How the hits of the vector index and of BM25 become one ranking:        *)
(* HybridRetriever::search of the library (caw-index) and, in the proxy,   *)
(* fuse_hybrid (caw-server), one step for each iteration of their loops.   *)
(* A proxy without BM25 ranks by the vector index alone.                   *)
(*                                                                         *)
(* Floating-point scores are integers of one scale.  The code divides the  *)
(* scores of an index by their spread, and a sum by the weights; here the  *)
(* quotients are brought to a common denominator, which is left out.       *)
(***************************************************************************)
EXTENDS Integers, Sequences, SequencesExt, FiniteSets, FiniteSetsExt

CONSTANTS
    Matches,            \* what a query finds, and which stubs the store has
    MaxResults,         \* top_k, max_candidates
    SemanticWeight,
    KeywordWeight

\* A stub id is a number, its place in the order of ids.
Hits == [id : Nat, score : Int]

OncePerId(list) == \A i, j \in DOMAIN list : list[i].id = list[j].id => i = j
Descending(list) == \A i, j \in DOMAIN list : i < j => list[i].score >= list[j].score

(* An index gives a stub once, the best first.  Both weights count.        *)
ASSUME FusionAssumption ==
  /\ \A f \in Matches : /\ f.semantic \in Seq(Hits) /\ OncePerId(f.semantic) /\ Descending(f.semantic)
                        /\ f.lexical \in Seq(Hits) /\ OncePerId(f.lexical)
  /\ MaxResults \in Nat /\ SemanticWeight \in Nat \ {0} /\ KeywordWeight \in Nat \ {0}

VARIABLES
    fusing,             \* which loop runs
    fuser,              \* "library", "proxy", or "cosine": a proxy without BM25
    matches,            \* what the query finds
    semantic,           \* semantic hits that are fused
    fuseAt,             \* hits the loop has passed
    combined,           \* the score of each stub so far
    ranking             \* what the query answers with

fusionVars == <<fusing, fuser, matches, semantic, fuseAt, combined, ranking>>

NoMatches == [semantic |-> << >>, lexical |-> << >>, stored |-> {}]

FusionInit ==
  /\ fusing = "idle" /\ fuser = "library" /\ matches = NoMatches
  /\ semantic = << >> /\ fuseAt = 0 /\ combined = << >> /\ ranking = << >>

IdsOf(list) == {list[i].id : i \in DOMAIN list}
ScoresIn(list) == {list[i].score : i \in DOMAIN list}
Take(s, k) == SubSeq(s, 1, IF k < Len(s) THEN k ELSE Len(s))

\* min and range of the normalisation; the maximum starts at 0.
Lowest(list) == Min(ScoresIn(list))
Highest(list) == Max(ScoresIn(list) \cup {0})
Spread(list) ==
  IF list = << >> \/ Highest(list) = Lowest(list) THEN 1 ELSE Highest(list) - Lowest(list)

-----------------------------------------------------------------------------
LibrarySearch ==
  /\ fusing = "idle" /\ fusing' = "resolve" /\ fuser' = "library"
  /\ matches' \in Matches
  /\ UNCHANGED <<semantic, fuseAt, combined, ranking>>

ProxySearch ==
  /\ fusing = "idle" /\ fusing' = "semantic" /\ fuser' = "proxy"
  /\ matches' \in Matches
  /\ semantic' = matches'.semantic
  /\ UNCHANGED <<fuseAt, combined, ranking>>

CosineSearch ==
  /\ fusing = "idle" /\ fusing' = "done" /\ fuser' = "cosine"
  /\ matches' \in Matches
  /\ semantic' = matches'.semantic /\ ranking' = Take(semantic', MaxResults)
  /\ UNCHANGED <<fuseAt, combined>>

\* SemanticRetriever::search leaves out a hit whose stub is gone.
ResolveHit ==
  /\ fusing = "resolve" /\ fuseAt < Len(matches.semantic)
  /\ fuseAt' = fuseAt + 1
  /\ semantic' = IF matches.semantic[fuseAt'].id \in matches.stored
                 THEN Append(semantic, matches.semantic[fuseAt']) ELSE semantic
  /\ UNCHANGED <<fusing, fuser, matches, combined, ranking>>

EndResolve ==
  /\ fusing = "resolve" /\ fuseAt = Len(matches.semantic)
  /\ fusing' = "semantic" /\ fuseAt' = 0
  /\ UNCHANGED <<fuser, matches, semantic, combined, ranking>>

\* *combined.entry(id).or_default() += gain
Credited(id, gain) ==
  [i \in DOMAIN combined \cup {id} |->
     (IF i \in DOMAIN combined THEN combined[i] ELSE 0) + (IF i = id THEN gain ELSE 0)]

\* Mutant of Worth: scores are not shifted to start at 0.
WorthAsScored(list, other, weight, score) == (weight * Spread(other)) * score

\* What a score above the lowest of its list is worth; other is the other list.
Worth(list, other, weight, score) == (weight * Spread(other)) * (score - Lowest(list))

CreditSemantic ==
  /\ fusing = "semantic" /\ fuseAt < Len(semantic)
  /\ fuseAt' = fuseAt + 1
  /\ combined' = Credited(semantic[fuseAt'].id,
                          Worth(semantic, matches.lexical, SemanticWeight, semantic[fuseAt'].score))
  /\ UNCHANGED <<fusing, fuser, matches, semantic, ranking>>

EndSemantic ==
  /\ fusing = "semantic" /\ fuseAt = Len(semantic)
  /\ fusing' = "lexical" /\ fuseAt' = 0
  /\ UNCHANGED <<fuser, matches, semantic, combined, ranking>>

CreditLexical ==
  /\ fusing = "lexical" /\ fuseAt < Len(matches.lexical)
  /\ fuseAt' = fuseAt + 1
  /\ combined' = Credited(matches.lexical[fuseAt'].id,
                          Worth(matches.lexical, semantic, KeywordWeight, matches.lexical[fuseAt'].score))
  /\ UNCHANGED <<fusing, fuser, matches, semantic, ranking>>

\* The library goes by id at ties, the proxy by the order of its HashMap.
Before(a, b) ==
  \/ combined[a] > combined[b]
  \/ combined[a] = combined[b] /\ (fuser = "library" => a < b)

\* The orders of a set of ids in which none comes before one it may not.
Orders(ids) ==
  {s \in [1 .. Cardinality(ids) -> ids] :
     /\ \A id \in ids : \E i \in DOMAIN s : s[i] = id
     /\ \A i, j \in DOMAIN s : i < j => Before(s[i], s[j])}

\* A stub that neither list resolves nor the store has is left out.
Ranked == IF fuser = "library" THEN DOMAIN combined \cap matches.stored ELSE DOMAIN combined

RankStubs ==
  /\ fusing = "lexical" /\ fuseAt = Len(matches.lexical) /\ fusing' = "done"
  /\ \E order \in Orders(Ranked) :
        ranking' = Take([i \in DOMAIN order |-> [id |-> order[i], score |-> combined[order[i]]]], MaxResults)
  /\ UNCHANGED <<fuser, matches, semantic, fuseAt, combined>>

FusionNext ==
  \/ LibrarySearch \/ ProxySearch \/ CosineSearch \/ ResolveHit \/ EndResolve
  \/ CreditSemantic \/ EndSemantic \/ CreditLexical \/ RankStubs

FusionSpec == FusionInit /\ [][FusionNext]_fusionVars

-----------------------------------------------------------------------------
\* What may be answered with, and by which hits of BM25 it is ranked.
Answerable ==
  IF fuser = "library" THEN (IdsOf(semantic) \cup IdsOf(matches.lexical)) \cap matches.stored
  ELSE IF fuser = "proxy" THEN IdsOf(semantic) \cup IdsOf(matches.lexical)
  ELSE IdsOf(semantic)

Lexical == IF fuser = "cosine" THEN << >> ELSE matches.lexical

\* A list has b above a, or above its last hit when it does not have a.
Below(list, a, b) ==
  \E i, j \in DOMAIN list :
    list[j].id = b /\ list[i].score < list[j].score /\ (list[i].id = a \/ a \notin IdsOf(list))

\* If a list has a, it has b no lower.
NotAbove(list, a, b) ==
  \A i \in DOMAIN list : list[i].id = a =>
    \E j \in DOMAIN list : list[j].id = b /\ list[i].score <= list[j].score

Dominated(a, b) ==
  \/ Below(semantic, a, b) /\ NotAbove(Lexical, a, b)
  \/ Below(Lexical, a, b) /\ NotAbove(semantic, a, b)

(* A stub that one index scores above another, and the other index not     *)
(* below it, is placed before it, also where the limit cuts the ranking:   *)
(* not the normalisation of the two scales, not the scores of stubs that   *)
(* are gone, nor a tie changes that.  What is gone is not found, and no    *)
(* stub is found twice.                                                    *)
FusionKeepsDominance ==
  fusing = "done" =>
    /\ IdsOf(ranking) \subseteq Answerable /\ OncePerId(ranking)
    /\ \A i \in DOMAIN ranking : \A b \in Answerable :
          Dominated(ranking[i].id, b) => \E j \in 1 .. i - 1 : ranking[j].id = b
=============================================================================

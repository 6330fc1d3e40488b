--------------------------- MODULE WorkspaceProofs ---------------------------
(***************************************************************************)
(* Proofs about module Workspace, for every number of stubs and files and  *)
(* every budget: the indexes agree with the fragments, the token budget,   *)
(* the share of session history and the two caps hold in every order of    *)
(* operations.                                                             *)
(*                                                                         *)
(* None of these is inductive alone.  The caps are checked against the     *)
(* counts, so they need IndexesAgree; an upgrade replaces one fragment     *)
(* only because ids are unique in the workspace, and leaves the history's  *)
(* share alone only because a turn of session history is never a stub.     *)
(* WsInv puts these facts together.                                        *)
(***************************************************************************)
EXTENDS Workspace, FiniteSetTheorems, TLAPS

HistoryIsWhole == \A f \in loaded : SourceOf[f.id] = History => f.form = "body"

WsInv ==
    /\ WsTypeOK
    /\ IsFiniteSet(loaded)
    /\ HistoryIsWhole
    /\ IndexesAgree
    /\ WithinBudget
    /\ HistoryWithinShare
    /\ CapsHold

-----------------------------------------------------------------------------
(* Lemmas about Tokens: it counts the cells of a finite set.               *)

(* A finite set of fragments has a number of tokens.                       *)
LEMMA TokensNat ==
    ASSUME NEW S, IsFiniteSet(S)
    PROVE  IsFiniteSet(TokenCells(S)) /\ Tokens(S) \in Nat
<1>1. IsFiniteSet(1..MaxTokens)
  BY WorkspaceAssumption, FS_Interval
<1>2. IsFiniteSet(S \X (1..MaxTokens))
  BY <1>1, FS_Product
<1>3. TokenCells(S) \subseteq S \X (1..MaxTokens)
  BY DEF TokenCells
<1>4. IsFiniteSet(TokenCells(S))
  BY <1>2, <1>3, FS_Subset
<1> QED
  BY <1>4, FS_CardinalityType DEF Tokens

(* A part has no more tokens than the whole.                               *)
LEMMA TokensMonotone ==
    ASSUME NEW S, NEW T, IsFiniteSet(T), S \subseteq T
    PROVE  Tokens(S) <= Tokens(T)
<1>1. TokenCells(S) \subseteq TokenCells(T)
  BY DEF TokenCells
<1> QED
  BY <1>1, TokensNat, FS_Subset DEF Tokens

(* One more fragment brings at most its own tokens.                        *)
LEMMA TokensAdd ==
    ASSUME NEW S, IsFiniteSet(S), NEW f, f.tokens \in 0..MaxTokens
    PROVE  Tokens(S \cup {f}) <= Tokens(S) + f.tokens
<1> DEFINE Cells == {f} \X (1..f.tokens)
<1>1. IsFiniteSet({f}) /\ Cardinality({f}) = 1
  BY FS_Singleton
<1>0. f.tokens \in Nat
  BY WorkspaceAssumption
<1>2. IsFiniteSet(1..f.tokens) /\ Cardinality(1..f.tokens) = f.tokens
  <2>1. 1 \in Int /\ f.tokens \in Int
    BY <1>0
  <2>2. /\ IsFiniteSet(1..f.tokens)
        /\ Cardinality(1..f.tokens) = IF 1 > f.tokens THEN 0 ELSE f.tokens - 1 + 1
    BY <2>1, FS_Interval
  <2> QED
    BY <1>0, <2>2
<1>3. IsFiniteSet(Cells) /\ Cardinality(Cells) = 1 * f.tokens
  BY <1>1, <1>2, FS_Product
<1>4. TokenCells(S \cup {f}) = TokenCells(S) \cup Cells
  <2>1. ASSUME NEW c \in TokenCells(S \cup {f})
        PROVE  c \in TokenCells(S) \cup Cells
    BY <2>1, WorkspaceAssumption DEF TokenCells
  <2>2. ASSUME NEW c \in TokenCells(S) \cup Cells
        PROVE  c \in TokenCells(S \cup {f})
    BY <2>2, WorkspaceAssumption DEF TokenCells
  <2> QED
    BY <2>1, <2>2
<1>5. Cardinality(TokenCells(S) \cup Cells)
        = Cardinality(TokenCells(S)) + Cardinality(Cells)
            - Cardinality(TokenCells(S) \cap Cells)
  BY <1>3, TokensNat, FS_Union
<1>6. Cardinality(TokenCells(S) \cap Cells) \in Nat
  BY <1>3, FS_Subset, FS_CardinalityType
<1>7. Cardinality(TokenCells(S)) \in Nat
  BY TokensNat DEF Tokens
<1>9. Cardinality(Cells) = f.tokens
  BY <1>3, <1>0
<1>10. Tokens(S \cup {f}) = Cardinality(TokenCells(S) \cup Cells)
  BY <1>4 DEF Tokens
<1> HIDE DEF Cells
<1> QED
  BY <1>5, <1>6, <1>7, <1>0, <1>9, <1>10 DEF Tokens

-----------------------------------------------------------------------------
(* The operations, one lemma each.                                         *)

(* Replacing the only fragment of an id, a stub, by a body that fits.      *)
LEMMA UpgradeInv ==
    ASSUME WsInv,
           NEW i \in Ids, ResidentIsStub(i),
           NEW score \in Nat, NEW t \in 0..MaxTokens,
           NEW rel \in [DOMAIN relevance -> Nat],
           UpgradeTo(i, score, t, rel)
    PROVE  WsInv'
<1> DEFINE body == [id |-> i, form |-> "body", tokens |-> t]
           rest == loaded \ Resident(i)
<1>1. PICK stub \in loaded : stub.id = i /\ stub.form = "stub"
  BY DEF ResidentIsStub, Resident
<1>2. Resident(i) = {stub}
  BY <1>1 DEF WsInv, IndexesAgree, Resident
<1>3. /\ loaded' = rest \cup {body}
      /\ loaded_ids' = loaded_ids
      /\ source_counts' = source_counts
      /\ relevance' = Pinned(rel, i, score)
      /\ Tokens(rest) + t <= MaxWorkspaceTokens
  BY DEF UpgradeTo, UpgradeFits
<1>4. SourceOf[i] # History
  BY <1>1 DEF WsInv, HistoryIsWhole
<1>5. i \in DOMAIN relevance /\ i \in loaded_ids
  BY <1>1 DEF WsInv, IndexesAgree
<1>6. body \in Fragments /\ body.id = i /\ body.form = "body" /\ body.tokens = t
  BY DEF Fragments, Forms
<1>7. /\ rest = loaded \ {stub}
      /\ rest \subseteq loaded
      /\ IsFiniteSet(rest)
      /\ \A f \in rest : f.id # i
  BY <1>2, FS_RemoveElement DEF WsInv, Resident
<1>8. body \notin rest
  BY <1>6, <1>7
<1> HIDE DEF rest, body
<1>9. WsTypeOK'
  <2>1. loaded' \subseteq Fragments
    BY <1>3, <1>6, <1>7 DEF WsInv, WsTypeOK
  <2>2. DOMAIN relevance' = DOMAIN relevance
    BY <1>3, <1>5 DEF Pinned
  <2>3. relevance' \in [DOMAIN relevance' -> Nat]
    BY <1>3, <1>5, <2>2, WorkspaceAssumption DEF Pinned
  <2> QED
    BY <1>3, <2>1, <2>2, <2>3 DEF WsInv, WsTypeOK
<1>10. IsFiniteSet(loaded')
  BY <1>3, <1>7, FS_AddElement
<1>11. HistoryIsWhole'
  BY <1>3, <1>6, <1>7 DEF WsInv, HistoryIsWhole
<1>12. IndexesAgree'
  <2>1. loaded_ids' = {f.id : f \in loaded'}
    BY <1>1, <1>3, <1>6, <1>7 DEF WsInv, IndexesAgree
  <2>2. \A f, g \in loaded' : f.id = g.id => f = g
    BY <1>3, <1>6, <1>7 DEF WsInv, IndexesAgree
  <2>3. ASSUME NEW s \in Sources \ {History}
        PROVE  source_counts'[s] = Cardinality(OfSource(s)')
    <3>1. CASE SourceOf[i] # s
      <4>1. OfSource(s)' = OfSource(s)
        BY <1>1, <1>3, <1>6, <1>7, <3>1 DEF OfSource
      <4> QED
        BY <1>3, <4>1 DEF WsInv, IndexesAgree
    <3>2. CASE SourceOf[i] = s
      <4>1. OfSource(s)' = (OfSource(s) \ {stub}) \cup {body}
        BY <1>3, <1>6, <1>7, <3>2 DEF OfSource
      <4>2. stub \in OfSource(s) /\ IsFiniteSet(OfSource(s))
        BY <1>1, <3>2, FS_Subset DEF OfSource, WsInv
      <4>3. /\ IsFiniteSet(OfSource(s) \ {stub})
            /\ Cardinality(OfSource(s) \ {stub}) = Cardinality(OfSource(s)) - 1
        BY <4>2, FS_RemoveElement
      <4>4. body \notin OfSource(s) \ {stub}
        BY <1>7, <1>8 DEF OfSource
      <4>5. Cardinality(OfSource(s)') = Cardinality(OfSource(s) \ {stub}) + 1
        BY <4>1, <4>3, <4>4, FS_AddElement
      <4>6. Cardinality(OfSource(s)) \in Nat
        BY <4>2, FS_CardinalityType
      <4> QED
        BY <1>3, <4>3, <4>5, <4>6 DEF WsInv, IndexesAgree
    <3> QED
      BY <3>1, <3>2
  <2>4. DOMAIN relevance' = DOMAIN relevance
    BY <1>3, <1>5 DEF Pinned
  <2>5. \A f \in loaded' : f.form = "stub" => f.id \in DOMAIN relevance'
    BY <1>3, <1>6, <1>7, <2>4 DEF WsInv, IndexesAgree
  <2> QED
    BY <1>3, <2>1, <2>2, <2>3, <2>4, <2>5 DEF WsInv, IndexesAgree
<1>13. WithinBudget'
  <2>1. Tokens(rest \cup {body}) <= Tokens(rest) + t
    BY <1>6, <1>7, TokensAdd
  <2>2. /\ Tokens(rest) \in Nat
        /\ Tokens(rest \cup {body}) \in Nat
    BY <1>3, <1>7, <1>10, TokensNat
  <2>3. Tokens(loaded)' = Tokens(rest \cup {body})
    BY <1>3 DEF Tokens, TokenCells
  <2> QED
    BY <1>3, <2>1, <2>2, <2>3, WorkspaceAssumption DEF WithinBudget
<1>14. HistoryWithinShare'
  <2>1. HistoryFragments' = HistoryFragments
    BY <1>1, <1>3, <1>4, <1>6, <1>7 DEF HistoryFragments
  <2> QED
    BY <2>1 DEF WsInv, HistoryWithinShare, Tokens, TokenCells
<1>15. CapsHold'
  <2>1. /\ Cardinality(rest) = Cardinality(loaded) - 1
        /\ Cardinality(loaded) \in Nat
    BY <1>1, <1>7, FS_RemoveElement, FS_CardinalityType DEF WsInv
  <2>2. Cardinality(loaded') = Cardinality(rest) + 1
    BY <1>3, <1>7, <1>8, FS_AddElement
  <2>3. \A s \in Sources \ {History} : Cardinality(OfSource(s)') = Cardinality(OfSource(s))
    BY <1>3, <1>12 DEF WsInv, IndexesAgree
  <2> QED
    BY <2>1, <2>2, <2>3 DEF WsInv, CapsHold
<1> QED
  BY <1>9, <1>10, <1>11, <1>12, <1>13, <1>14, <1>15 DEF WsInv

(* Only scores change.                                                     *)
LEMMA ScoresInv ==
    ASSUME WsInv, UNCHANGED <<loaded, loaded_ids, source_counts>>,
           relevance' \in [DOMAIN relevance -> Nat]
    PROVE  WsInv'
<1>1. DOMAIN relevance' = DOMAIN relevance
  OBVIOUS
<1>2. WsTypeOK'
  BY <1>1 DEF WsInv, WsTypeOK
<1>3. IndexesAgree'
  BY <1>1 DEF WsInv, IndexesAgree, OfSource
<1>4. WithinBudget' /\ HistoryWithinShare'
  BY DEF WsInv, WithinBudget, HistoryWithinShare, HistoryFragments, Tokens, TokenCells
<1> QED
  BY <1>2, <1>3, <1>4 DEF WsInv, HistoryIsWhole, CapsHold, OfSource

(* A fragment of a new id that respects the budget, the share of history   *)
(* and the caps, with a score unless it is a body.                         *)
LEMMA AddInv ==
    ASSUME WsInv,
           NEW i \in Ids, i \notin loaded_ids,
           NEW form \in Forms, NEW t \in 0..MaxTokens,
           loaded' = loaded \cup {[id |-> i, form |-> form, tokens |-> t]},
           loaded_ids' = loaded_ids \cup {i},
           source_counts' = CountOneMore(i),
           DOMAIN relevance \subseteq DOMAIN relevance',
           DOMAIN relevance' \subseteq DOMAIN relevance \cup {i},
           relevance' \in [DOMAIN relevance' -> Nat],
           form = "stub" => i \in DOMAIN relevance' /\ SourceOf[i] # History,
           Tokens(loaded) + t <= MaxWorkspaceTokens,
           SourceOf[i] = History => Tokens(HistoryFragments) + t <= HistoryBudget,
           SourceOf[i] # History => source_counts[SourceOf[i]] < MaxChunksPerSource,
           Cardinality(loaded) < MaxLoadedFragments
    PROVE  WsInv'
<1> DEFINE new == [id |-> i, form |-> form, tokens |-> t]
<1>1. /\ new \in Fragments
      /\ new.id = i /\ new.form = form /\ new.tokens = t
      /\ loaded' = loaded \cup {new}
  BY DEF Fragments
<1>2. \A f \in loaded : f.id # i
  BY DEF WsInv, IndexesAgree
<1>3. new \notin loaded
  BY <1>1, <1>2
<1>4. SourceOf[i] \in Sources
  BY WorkspaceAssumption
<1> HIDE DEF new
<1>5. /\ IsFiniteSet(loaded')
      /\ Cardinality(loaded') = Cardinality(loaded) + 1
      /\ Cardinality(loaded) \in Nat
  BY <1>1, <1>3, FS_AddElement, FS_CardinalityType DEF WsInv
<1>6. WsTypeOK'
  <2>1. source_counts' \in [Sources -> Nat]
    BY <1>4 DEF CountOneMore, WsInv, WsTypeOK
  <2> QED
    BY <1>1, <2>1 DEF WsInv, WsTypeOK
<1>7. HistoryIsWhole'
  BY <1>1 DEF WsInv, HistoryIsWhole, Forms
<1>8. ASSUME NEW s \in Sources \ {History}
      PROVE  /\ source_counts'[s] = Cardinality(OfSource(s)')
             /\ Cardinality(OfSource(s)') <= MaxChunksPerSource
  <2>1. CASE SourceOf[i] # s
    <3>1. OfSource(s)' = OfSource(s)
      BY <1>1, <2>1 DEF OfSource
    <3>2. source_counts'[s] = source_counts[s]
      BY <2>1 DEF CountOneMore, WsInv, WsTypeOK
    <3> QED
      BY <3>1, <3>2 DEF WsInv, IndexesAgree, CapsHold
  <2>2. CASE SourceOf[i] = s
    <3>1. OfSource(s)' = OfSource(s) \cup {new}
      BY <1>1, <2>2 DEF OfSource
    <3>2. IsFiniteSet(OfSource(s)) /\ new \notin OfSource(s)
      BY <1>3, FS_Subset DEF OfSource, WsInv
    <3>3. Cardinality(OfSource(s)') = Cardinality(OfSource(s)) + 1
      BY <3>1, <3>2, FS_AddElement
    <3>4. source_counts'[s] = source_counts[s] + 1
      BY <2>2 DEF CountOneMore, WsInv, WsTypeOK
    <3>5. source_counts[s] \in Nat /\ source_counts[s] = Cardinality(OfSource(s))
      BY DEF WsInv, WsTypeOK, IndexesAgree
    <3> QED
      BY <2>2, <3>3, <3>4, <3>5, WorkspaceAssumption
  <2> QED
    BY <2>1, <2>2
<1>9. IndexesAgree'
  <2>1. loaded_ids' = {f.id : f \in loaded'}
    BY <1>1 DEF WsInv, IndexesAgree
  <2>2. \A f, g \in loaded' : f.id = g.id => f = g
    BY <1>1, <1>2 DEF WsInv, IndexesAgree
  <2>3. DOMAIN relevance' \subseteq loaded_ids'
    BY DEF WsInv, IndexesAgree
  <2>4. \A f \in loaded' : f.form = "stub" => f.id \in DOMAIN relevance'
    BY <1>1 DEF WsInv, IndexesAgree
  <2> QED
    BY <1>8, <2>1, <2>2, <2>3, <2>4 DEF IndexesAgree
<1>10. WithinBudget'
  <2>1. Tokens(loaded \cup {new}) <= Tokens(loaded) + t
    BY <1>1, TokensAdd DEF WsInv
  <2>2. Tokens(loaded) \in Nat /\ Tokens(loaded \cup {new}) \in Nat
    BY <1>1, <1>5, TokensNat DEF WsInv
  <2>3. Tokens(loaded)' = Tokens(loaded \cup {new})
    BY <1>1 DEF Tokens, TokenCells
  <2> QED
    BY <2>1, <2>2, <2>3, WorkspaceAssumption DEF WithinBudget
<1>11. HistoryWithinShare'
  <2>1. IsFiniteSet(HistoryFragments)
    BY FS_Subset DEF HistoryFragments, WsInv
  <2>2. CASE SourceOf[i] # History
    <3>1. HistoryFragments' = HistoryFragments
      BY <1>1, <2>2 DEF HistoryFragments
    <3> QED
      BY <3>1 DEF WsInv, HistoryWithinShare, Tokens, TokenCells
  <2>3. CASE SourceOf[i] = History
    <3>1. HistoryFragments' = HistoryFragments \cup {new}
      BY <1>1, <2>3 DEF HistoryFragments
    <3>2. Tokens(HistoryFragments \cup {new}) <= Tokens(HistoryFragments) + t
      BY <1>1, <2>1, TokensAdd
    <3>3. IsFiniteSet(HistoryFragments \cup {new})
      BY <2>1, FS_AddElement
    <3>4. /\ Tokens(HistoryFragments) \in Nat
          /\ Tokens(HistoryFragments \cup {new}) \in Nat
      BY <2>1, <3>3, TokensNat
    <3>5. Tokens(HistoryFragments)' = Tokens(HistoryFragments \cup {new})
      BY <3>1 DEF Tokens, TokenCells
    <3> QED
      BY <2>3, <3>2, <3>4, <3>5, WorkspaceAssumption DEF HistoryWithinShare
  <2> QED
    BY <2>2, <2>3
<1>12. CapsHold'
  BY <1>5, <1>8, WorkspaceAssumption DEF CapsHold
<1> QED
  BY <1>5, <1>6, <1>7, <1>9, <1>10, <1>11, <1>12 DEF WsInv

(* Any set of fragments may leave.                                         *)
LEMMA LeaveInv ==
    ASSUME WsInv,
           NEW rel \in [DOMAIN relevance -> Nat],
           NEW E \in SUBSET loaded,
           NEW ids, ids = {f.id : f \in E},
           loaded' = loaded \ E,
           loaded_ids' = loaded_ids \ ids,
           source_counts' = CountsWithout(E),
           relevance' = [i \in DOMAIN rel \ ids |-> rel[i]]
    PROVE  WsInv'
<1>1. IsFiniteSet(loaded') /\ Cardinality(loaded') <= Cardinality(loaded)
  BY FS_Subset DEF WsInv
<1>2. DOMAIN relevance' = DOMAIN relevance \ ids
  OBVIOUS
<1>3. ASSUME NEW s \in Sources \ {History}
      PROVE  /\ source_counts'[s] = Cardinality(OfSource(s)')
             /\ source_counts'[s] <= source_counts[s]
             /\ source_counts'[s] \in Nat
  <2> DEFINE gone == {f \in E : SourceOf[f.id] = s}
  <2>1. IsFiniteSet(OfSource(s)) /\ gone \subseteq OfSource(s)
    BY FS_Subset DEF OfSource, WsInv
  <2>2. IsFiniteSet(gone) /\ Cardinality(gone) <= Cardinality(OfSource(s))
    BY <2>1, FS_Subset
  <2>3. OfSource(s)' = OfSource(s) \ gone
    BY DEF OfSource
  <2>4. OfSource(s) \cap gone = gone
    BY <2>1
  <2>5. Cardinality(OfSource(s)') = Cardinality(OfSource(s)) - Cardinality(gone)
    BY <2>1, <2>3, <2>4, FS_Difference
  <2>6. Cardinality(gone) \in Nat /\ Cardinality(OfSource(s)) \in Nat
    BY <2>1, <2>2, FS_CardinalityType
  <2>7. source_counts[s] = Cardinality(OfSource(s))
    BY DEF WsInv, IndexesAgree
  <2>8. source_counts'[s] = source_counts[s] - Cardinality(gone)
    BY <2>2, <2>6, <2>7 DEF CountsWithout
  <2> QED
    BY <2>2, <2>5, <2>6, <2>7, <2>8
<1>4. WsTypeOK'
  <2>1. source_counts' \in [Sources -> Nat]
    <3>1. ASSUME NEW s \in Sources PROVE source_counts'[s] \in Nat
      BY <1>3 DEF CountsWithout, WsInv, WsTypeOK
    <3>2. source_counts' = [s \in Sources |-> source_counts'[s]]
      BY DEF CountsWithout
    <3> QED
      BY <3>1, <3>2
  <2>2. relevance' \in [DOMAIN relevance' -> Nat]
    BY <1>2
  <2> QED
    BY <1>2, <2>1, <2>2 DEF WsInv, WsTypeOK
<1>5. IndexesAgree'
  <2>1. loaded_ids' = {f.id : f \in loaded'}
    BY DEF WsInv, IndexesAgree
  <2> QED
    BY <1>2, <1>3, <2>1 DEF WsInv, IndexesAgree
<1>6. WithinBudget'
  <2>1. Tokens(loaded \ E) <= Tokens(loaded)
    BY TokensMonotone DEF WsInv
  <2>2. Tokens(loaded \ E) \in Nat /\ Tokens(loaded) \in Nat
    BY <1>1, TokensNat DEF WsInv
  <2>3. Tokens(loaded)' = Tokens(loaded \ E)
    BY DEF Tokens, TokenCells
  <2> QED
    BY <2>1, <2>2, <2>3, WorkspaceAssumption DEF WsInv, WithinBudget
<1>7. HistoryWithinShare'
  <2>1. IsFiniteSet(HistoryFragments) /\ HistoryFragments \ E \subseteq HistoryFragments
    BY FS_Subset DEF HistoryFragments, WsInv
  <2>2. Tokens(HistoryFragments \ E) <= Tokens(HistoryFragments)
    BY <2>1, TokensMonotone
  <2>3. Tokens(HistoryFragments \ E) \in Nat /\ Tokens(HistoryFragments) \in Nat
    BY <2>1, FS_Subset, TokensNat
  <2>4. HistoryFragments' = HistoryFragments \ E
    BY DEF HistoryFragments
  <2>5. Tokens(HistoryFragments)' = Tokens(HistoryFragments \ E)
    BY <2>4 DEF Tokens, TokenCells
  <2> QED
    BY <2>2, <2>3, <2>5, WorkspaceAssumption DEF WsInv, HistoryWithinShare
<1>8. CapsHold'
  <2>1. Cardinality(loaded) \in Nat /\ Cardinality(loaded') \in Nat
    BY <1>1, FS_CardinalityType DEF WsInv
  <2>2. Cardinality(loaded') <= MaxLoadedFragments
    BY <1>1, <2>1, WorkspaceAssumption DEF WsInv, CapsHold
  <2>3. ASSUME NEW s \in Sources \ {History}
        PROVE  Cardinality(OfSource(s)') <= MaxChunksPerSource
    <3>1. source_counts[s] \in Nat /\ source_counts[s] <= MaxChunksPerSource
      BY DEF WsInv, WsTypeOK, IndexesAgree, CapsHold
    <3> QED
      BY <1>3, <3>1, WorkspaceAssumption
  <2> QED
    BY <2>2, <2>3 DEF CapsHold
<1> QED
  BY <1>1, <1>4, <1>5, <1>6, <1>7, <1>8 DEF WsInv, HistoryIsWhole

-----------------------------------------------------------------------------
(* The scores the operations compute are scores.                           *)
LEMMA ScoreTypes ==
    ASSUME WsInv
    PROVE  /\ \A i \in Ids, score \in Scores :
                RefreshedByHit(i, score) \in [DOMAIN relevance -> Nat]
           /\ Decayed \in [DOMAIN relevance -> Nat]
           /\ \A overlap \in [DOMAIN relevance -> Overlaps] :
                RefreshedByOverlap(Decayed, overlap) \in [DOMAIN relevance -> Nat]
           /\ relevance \in [DOMAIN relevance -> Nat]
<1>1. relevance \in [DOMAIN relevance -> Nat]
  BY DEF WsInv, WsTypeOK
<1>2. ASSUME NEW i \in Ids, NEW score \in Scores
      PROVE  RefreshedByHit(i, score) \in [DOMAIN relevance -> Nat]
  BY <1>1, WorkspaceAssumption DEF RefreshedByHit
<1>3. Decayed \in [DOMAIN relevance -> Nat]
  <2>1. ASSUME NEW n \in Nat PROVE (n * DecayNum) \div DecayDen \in Nat
    <3>1. n * DecayNum \in Nat /\ DecayDen \in Nat /\ DecayDen > 0
      BY WorkspaceAssumption
    <3> DEFINE k == n * DecayNum
    <3>2. k \in Nat
      BY <3>1
    <3> HIDE DEF k
    <3>3. k \div DecayDen \in Nat
      BY <3>1, <3>2
    <3> QED
      BY <3>3 DEF k
  <2> QED
    BY <1>1, <2>1 DEF Decayed
<1>4. ASSUME NEW overlap \in [DOMAIN relevance -> Overlaps]
      PROVE  RefreshedByOverlap(Decayed, overlap) \in [DOMAIN relevance -> Nat]
  BY <1>3, WorkspaceAssumption DEF RefreshedByOverlap
<1> QED
  BY <1>1, <1>2, <1>3, <1>4

LEMMA EvictInv ==
    ASSUME WsInv, NEW rel \in [DOMAIN relevance -> Nat], Evict(rel)
    PROVE  WsInv'
<1>1. PICK E \in EvictionSets(rel) :
        /\ loaded' = loaded \ E
        /\ loaded_ids' = loaded_ids \ {f.id : f \in E}
        /\ source_counts' = CountsWithout(E)
        /\ relevance' = [i \in DOMAIN rel \ {f.id : f \in E} |-> rel[i]]
  BY DEF Evict
<1>2. E \in SUBSET loaded
  BY DEF EvictionSets
<1> DEFINE ids == {f.id : f \in E}
<1>3. ids = {f.id : f \in E}
  OBVIOUS
<1> HIDE DEF ids
<1> QED
  BY <1>1, <1>2, <1>3, LeaveInv

Empty ==
    /\ loaded = {}
    /\ loaded_ids = {}
    /\ source_counts = [s \in Sources |-> 0]
    /\ relevance = [i \in {} |-> 0]

LEMMA EmptyInv == Empty => WsInv
<1> SUFFICES ASSUME Empty PROVE WsInv
  OBVIOUS
<1> USE DEF Empty
<1>1. IsFiniteSet({}) /\ Cardinality({}) = 0
  BY FS_EmptySet
<1>2. HistoryFragments = {} /\ \A s \in Sources : OfSource(s) = {}
  BY DEF HistoryFragments, OfSource
<1>3. Tokens(loaded) = 0 /\ Tokens(HistoryFragments) = 0
  <2>1. TokenCells(loaded) = {} /\ TokenCells(HistoryFragments) = {}
    BY <1>2 DEF TokenCells
  <2> QED
    BY <1>1, <2>1 DEF Tokens
<1>4. DOMAIN relevance = {}
  OBVIOUS
<1>5. WsTypeOK
  BY <1>4 DEF WsTypeOK
<1>6. IndexesAgree
  BY <1>1, <1>2, <1>4 DEF IndexesAgree
<1>7. WithinBudget /\ HistoryWithinShare
  BY <1>3, WorkspaceAssumption DEF WithinBudget, HistoryWithinShare
<1>8. CapsHold
  <2>1. \A s \in Sources : Cardinality(OfSource(s)) = 0
    BY <1>1, <1>2
  <2>2. Cardinality(loaded) = 0
    BY <1>1
  <2>3. 0 <= MaxChunksPerSource /\ 0 <= MaxLoadedFragments
    BY WorkspaceAssumption
  <2> QED
    BY <2>1, <2>2, <2>3 DEF CapsHold
<1> QED
  BY <1>1, <1>5, <1>6, <1>7, <1>8 DEF WsInv, HistoryIsWhole

LEMMA EmptyInvNext == Empty' => WsInv'
BY EmptyInv, PTL

(* Every operation preserves the invariant.                                *)
LEMMA WsStep == WsInv /\ [WsNext]_wsVars => WsInv'
<1> SUFFICES ASSUME WsInv, [WsNext]_wsVars PROVE WsInv'
  OBVIOUS
<1>0. WsInv
  OBVIOUS
<1>1. ASSUME NEW i \in Ids, NEW score \in Scores, NEW mode \in Forms,
             Rehit(i, score, mode)
      PROVE  WsInv'
  <2>1. RefreshedByHit(i, score) \in [DOMAIN relevance -> Nat] /\ score \in Nat
    BY <1>0, ScoreTypes, WorkspaceAssumption
  <2>2. CASE LeaveStub(i, RefreshedByHit(i, score))
    BY <1>0, <2>1, <2>2, ScoresInv DEF LeaveStub
  <2>3. ASSUME ResidentIsStub(i), NEW t \in BodySizes,
               UpgradeTo(i, score, t, RefreshedByHit(i, score))
        PROVE  WsInv'
    <3>1. t \in 0..MaxTokens
      BY WorkspaceAssumption
    <3> QED
      BY <1>0, <2>1, <2>3, <3>1, UpgradeInv
  <2> QED
    BY <1>1, <2>2, <2>3 DEF Rehit
<1>2. ASSUME NEW i \in Ids, NEW score \in Scores, NEW mode \in Forms,
             NEW t \in SizesOf(FormOf(i, mode)), Admit(i, score, mode, t)
      PROVE  WsInv'
  <2>1. FormOf(i, mode) \in Forms /\ t \in 0..MaxTokens /\ score \in Nat
    BY WorkspaceAssumption DEF FormOf, SizesOf, Forms
  <2>2. /\ i \notin loaded_ids
        /\ SourceAllows(i, t)
        /\ Tokens(loaded) + t <= MaxWorkspaceTokens
        /\ loaded' = loaded \cup {[id |-> i, form |-> FormOf(i, mode), tokens |-> t]}
        /\ loaded_ids' = loaded_ids \cup {i}
        /\ source_counts' = CountOneMore(i)
    BY <1>2 DEF Admit, Admissible
  <2>3. Cardinality(loaded) < MaxLoadedFragments
    <3>1. Cardinality(loaded) \in Nat
      BY <1>0, FS_CardinalityType DEF WsInv
    <3> QED
      BY <1>2, <3>1, WorkspaceAssumption DEF Admit, Admissible, FragmentCapReached
  <2>4. /\ DOMAIN relevance' = DOMAIN relevance \cup {i}
        /\ relevance' \in [DOMAIN relevance' -> Nat]
    BY <1>0, <1>2, <2>1, ScoreTypes DEF Admit
  <2>5. FormOf(i, mode) = "stub" => SourceOf[i] # History
    BY DEF FormOf
  <2>6. /\ SourceOf[i] = History => Tokens(HistoryFragments) + t <= HistoryBudget
        /\ SourceOf[i] # History => source_counts[SourceOf[i]] < MaxChunksPerSource
    BY <2>2 DEF SourceAllows
  <2> QED
    BY <1>0, <2>1, <2>2, <2>3, <2>4, <2>5, <2>6, AddInv
<1>3. ASSUME NEW i \in Ids, LineUpgrade(i)
      PROVE  WsInv'
  <2>1. CASE LeaveStub(i, relevance)
    BY <1>0, <2>1, ScoreTypes, ScoresInv DEF LeaveStub
  <2>2. ASSUME NEW t \in BodySizes, UpgradeTo(i, LoadThreshold, t, relevance)
        PROVE  WsInv'
    <3>1. t \in 0..MaxTokens /\ LoadThreshold \in Nat
      BY WorkspaceAssumption
    <3>2. ResidentIsStub(i)
      BY <1>3 DEF LineUpgrade
    <3> QED
      BY <1>0, <2>2, <3>1, <3>2, ScoreTypes, UpgradeInv
  <2> QED
    BY <1>3, <2>1, <2>2 DEF LineUpgrade
<1>4. ASSUME NEW i \in Ids, NEW t \in BodySizes, LineAdmit(i, t)
      PROVE  WsInv'
  <2>1. t \in 0..MaxTokens /\ "body" \in Forms
    BY WorkspaceAssumption DEF Forms
  <2>2. /\ i \notin loaded_ids
        /\ SourceOf[i] # History
        /\ OfSource(SourceOf[i]) = {}
        /\ Tokens(loaded) + t <= MaxWorkspaceTokens
        /\ loaded' = loaded \cup {[id |-> i, form |-> "body", tokens |-> t]}
        /\ loaded_ids' = loaded_ids \cup {i}
        /\ source_counts' = CountOneMore(i)
        /\ relevance' = relevance
    BY <1>4 DEF LineAdmit, LineAdmissible
  <2>3. Cardinality(loaded) < MaxLoadedFragments
    <3>1. Cardinality(loaded) \in Nat
      BY <1>0, FS_CardinalityType DEF WsInv
    <3> QED
      BY <1>4, <3>1, WorkspaceAssumption DEF LineAdmit, LineAdmissible, FragmentCapReached
  <2>4. source_counts[SourceOf[i]] < MaxChunksPerSource
    <3>1. Cardinality({}) = 0
      BY FS_EmptySet
    <3>2. source_counts[SourceOf[i]] = 0
      BY <1>0, <2>2, <3>1, WorkspaceAssumption DEF WsInv, IndexesAgree
    <3> QED
      BY <3>2, WorkspaceAssumption
  <2>5. relevance \in [DOMAIN relevance -> Nat]
    BY <1>0, ScoreTypes
  <2> QED
    BY <1>0, <2>1, <2>2, <2>3, <2>4, <2>5, AddInv
<1>5. ASSUME NEW overlap \in [DOMAIN relevance -> Overlaps], DecayAndRefresh(overlap)
      PROVE  WsInv'
  BY <1>0, <1>5, ScoreTypes, ScoresInv DEF DecayAndRefresh
<1>6. CASE EvictStale
  BY <1>0, <1>6, ScoreTypes, EvictInv DEF EvictStale
<1>7. CASE DecayAndEvict
  BY <1>0, <1>7, ScoreTypes, EvictInv DEF DecayAndEvict
<1>8. CASE ResetSession
  <2>1. /\ loaded' = {} /\ loaded_ids' = {}
        /\ source_counts' = [s \in Sources |-> 0]
        /\ relevance' = [i \in {} |-> 0]
    BY <1>8 DEF ResetSession
  <2> QED
    BY <2>1, EmptyInvNext DEF Empty
<1>9. CASE UNCHANGED wsVars
  BY <1>0, <1>9, ScoreTypes, ScoresInv DEF wsVars
<1> QED
  BY <1>1, <1>2, <1>3, <1>4, <1>5, <1>6, <1>7, <1>8, <1>9 DEF WsNext

-----------------------------------------------------------------------------
(* The invariant holds in every reachable state.                           *)
THEOREM WsInvariant == WsSpec => []WsInv
<1>1. WsInit => WsInv
  BY EmptyInv DEF WsInit, Empty
<1> QED
  BY <1>1, WsStep, PTL DEF WsSpec

(* The fragments, ids, counts and scores have their types.                 *)
THEOREM WsTypeCorrect == WsSpec => []WsTypeOK
<1>1. WsInv => WsTypeOK
  BY DEF WsInv
<1> QED
  BY <1>1, WsInvariant, PTL

(* loaded_ids, loaded_source_counts and relevance_scores always agree with *)
(* the fragments they describe.                                            *)
THEOREM WsIndexesAgree == WsSpec => []IndexesAgree
<1>1. WsInv => IndexesAgree
  BY DEF WsInv
<1> QED
  BY <1>1, WsInvariant, PTL

(* The token budget, the share of session history, the cap per file and    *)
(* the cap on fragments are never exceeded, in any order of operations.    *)
THEOREM WsLimitsHold == WsSpec => []LimitsHold
<1>1. WsInv => LimitsHold
  BY DEF WsInv, LimitsHold
<1> QED
  BY <1>1, WsInvariant, PTL

(* Under the budget, eviction takes the fragments below the unload         *)
(* threshold and no other.                                                 *)
LEMMA EvictedAreBelow ==
    ASSUME WsInv, NEW rel, NEW E \in EvictionSets(rel)
    PROVE  E = BelowUnload(rel)
<1>1. E \subseteq loaded
  BY DEF EvictionSets
<1>2. ASSUME NEW last \in E
      PROVE  ~(Tokens((loaded \ E) \cup {last}) > MaxWorkspaceTokens)
  <2>1. (loaded \ E) \cup {last} \subseteq loaded
    BY <1>1
  <2>2. IsFiniteSet((loaded \ E) \cup {last}) /\ IsFiniteSet(loaded)
    BY <2>1, FS_Subset DEF WsInv
  <2>3. Tokens((loaded \ E) \cup {last}) <= Tokens(loaded)
    BY <2>1, <2>2, TokensMonotone
  <2>4. Tokens((loaded \ E) \cup {last}) \in Nat /\ Tokens(loaded) \in Nat
    BY <2>2, TokensNat
  <2> QED
    BY <2>3, <2>4, WorkspaceAssumption DEF WsInv, WithinBudget
<1> QED
  BY <1>2 DEF EvictionSets

LEMMA EvictedFaded ==
    ASSUME WsInv, NEW rel, Evict(rel),
           NEW f \in loaded, f.id \notin loaded_ids'
    PROVE  ScoreIn(rel, f) < UnloadThreshold
<1>1. PICK E \in EvictionSets(rel) : loaded_ids' = loaded_ids \ {e.id : e \in E}
  BY DEF Evict
<1>2. E = BelowUnload(rel)
  BY <1>1, EvictedAreBelow
<1>3. f.id \in {e.id : e \in E}
  BY <1>1 DEF WsInv, IndexesAgree
<1>4. f \in E
  BY <1>2, <1>3 DEF BelowUnload, WsInv, IndexesAgree
<1> QED
  BY <1>2, <1>4 DEF BelowUnload

(* A fragment leaves the workspace only after fading below the unload      *)
(* threshold, or with the whole workspace in reset_session.                *)
THEOREM WsOnlyFadedLeave == WsSpec => OnlyFadedLeave
<1> DEFINE Leaves ==
      \/ ResetSession
      \/ \A f \in loaded : f.id \notin loaded_ids' =>
            \/ EvictStale /\ ScoreIn(relevance, f) < UnloadThreshold
            \/ DecayAndEvict /\ ScoreIn(Decayed, f) < UnloadThreshold
<1>1. ASSUME WsInv, [WsNext]_wsVars PROVE [Leaves]_wsVars
  <2>1. CASE EvictStale
    BY <1>1, <2>1, EvictedFaded DEF EvictStale
  <2>2. CASE DecayAndEvict
    BY <1>1, <2>2, EvictedFaded DEF DecayAndEvict
  <2>3. CASE ResetSession
    BY <2>3
  <2>4. ASSUME loaded_ids \subseteq loaded_ids' PROVE Leaves
    BY <1>1, <2>4 DEF WsInv, IndexesAgree
  <2>5. ASSUME NEW i \in Ids, NEW score \in Scores, NEW mode \in Forms,
               \/ Rehit(i, score, mode)
               \/ \E t \in SizesOf(FormOf(i, mode)) : Admit(i, score, mode, t)
        PROVE  loaded_ids \subseteq loaded_ids'
    BY <2>5 DEF Rehit, Admit, UpgradeTo, LeaveStub
  <2>6. ASSUME NEW i \in Ids,
               LineUpgrade(i) \/ \E t \in BodySizes : LineAdmit(i, t)
        PROVE  loaded_ids \subseteq loaded_ids'
    BY <2>6 DEF LineUpgrade, LineAdmit, UpgradeTo, LeaveStub
  <2>7. ASSUME NEW overlap \in [DOMAIN relevance -> Overlaps], DecayAndRefresh(overlap)
        PROVE  loaded_ids \subseteq loaded_ids'
    BY <2>7 DEF DecayAndRefresh
  <2>8. CASE UNCHANGED wsVars
    BY <2>8
  <2> HIDE DEF Leaves
  <2> QED
    BY <1>1, <2>1, <2>2, <2>3, <2>4, <2>5, <2>6, <2>7, <2>8 DEF WsNext
<1>2. WsInv /\ [WsNext]_wsVars => [Leaves]_wsVars
  BY <1>1
<1> QED
  BY <1>2, WsInvariant, PTL DEF WsSpec, OnlyFadedLeave

=============================================================================

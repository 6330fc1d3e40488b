---------------------------- MODULE MCRecallTurn ----------------------------
(* RecallTurn on two files, one with two chunks, and one turn of session   *)
(* history.                                                                *)
EXTENDS RecallTurn, TLC

CONSTANTS a1, a2, b1, h1, A, B, H

MCIds == {a1, a2, b1, h1}
MCSources == {A, B, H}
MCSourceOf == a1 :> A @@ a2 :> A @@ b1 :> B @@ h1 :> H

MCFewIds == {a1, b1, h1}
MCFewSources == {A, B, H}
MCFewSourceOf == a1 :> A @@ b1 :> B @@ h1 :> H

Symmetry == Permutations({a1, a2})

=============================================================================

---------------------------- MODULE LibraryProofs ----------------------------
(***************************************************************************)
(* Proofs about eight parts of the library that MCLibrary runs side by     *)
(* side: RecallLoop, LlamaGeneration, Evaluation, Classification,          *)
(* Chunking, Curation, Fusion and ThinkingStream, for any value of their   *)
(* constants.                                                              *)
(*                                                                         *)
(* RecallLoop: for every index, budget and pair of thresholds, a loaded    *)
(* fragment never leaves the workspace.  That needs two facts about a      *)
(* schedule that has begun.  No score the                                  *)
(* scheduler keeps is below the load threshold, so none is below the       *)
(* unload threshold.  And what is loaded fits the budget prefix by prefix: *)
(* LoadedFits has the running totals of the last schedule as its witness,  *)
(* and while the fragments are kept, one after the other, used is one of   *)
(* them.  Hence the selection starts with everything that was loaded.      *)
(*                                                                         *)
(* LlamaGeneration: cells and tokens shown grow together, in whole tokens, *)
(* except where a decode fails, and there the difference is `missing`.     *)
(*                                                                         *)
(* Evaluation: with a session file the two clocks are one, so the steps of *)
(* the trail never decrease; then later is the same as a later step or a   *)
(* later event of the same step.                                           *)
(*                                                                         *)
(* Classification: the intent read from one emission has exactly the       *)
(* fields the emission says; the rest is that the threshold of the vote,   *)
(* half of the votes rounded down plus one, is more than half of them.     *)
(*                                                                         *)
(* Chunking: boundaries increase and are where characters start, and the   *)
(* chunks so far tile the file up to where the innermost body is cut; as   *)
(* every cap holds a character, each cut is at a later boundary.           *)
(*                                                                         *)
(* Curation: the tokens of a text are at most those of its sentences,      *)
(* which the loop adds; and each loop answers for the turns it has passed. *)
(*                                                                         *)
(* Fusion: what is combined is the sum of what each list is worth to a     *)
(* stub, which grows with its score in the list and is never negative.     *)
(*                                                                         *)
(* ThinkingStream: while a field is read, the buffer is what came after a  *)
(* gap, or all of it, and the steps are the paragraphs of what came before;*)
(* so it does not matter where a delta ends.                               *)
(***************************************************************************)
EXTENDS RecallLoop, LlamaGeneration, Evaluation, Classification, Chunking, Curation, Fusion,
        ThinkingStream, NumberLemmas, SequenceTheorems, TLAPS

Stages == {"idle", "complete", "think", "search", "keep", "admit"}

LoopTypeOK ==
    /\ stage \in Stages
    /\ workspace \in Seq(Stubs)
    /\ DOMAIN kept \subseteq Stubs
    /\ hits \in Seq(Candidates)
    /\ next \in Nat \ {0}
    /\ used \in Nat
    /\ selected \in Seq(Stubs)
    /\ sums \in Seq(Nat)

\* The scheduler's scores are those of admission.
ScoresAboveLoad == \A s \in DOMAIN kept : kept[s] \in Nat /\ kept[s] >= Load

\* t is the sequence of the running totals of s, none above the budget.
RunningTotals(t, s) ==
    /\ t \in Seq(Nat) /\ Len(t) = Len(s)
    /\ \A i \in 1 .. Len(s) :
          t[i] = (IF i = 1 THEN 0 ELSE t[i - 1]) + StubTokens[s[i]] /\ t[i] <= Budget

LastOf(t) == IF t = << >> THEN 0 ELSE t[Len(t)]

Scheduling == stage \in {"keep", "admit"}

SelectedFits == Scheduling => RunningTotals(sums, selected) /\ used = LastOf(sums)

LoadedFits ==
    \E t \in Seq(Nat) :
        /\ RunningTotals(t, workspace)
        /\ stage = "keep" => next <= Len(workspace) + 1 /\ sums = SubSeq(t, 1, next - 1)

\* All that was loaded so far in the order it was loaded.
LoadedIsKept ==
    /\ stage = "keep" => selected = SubSeq(workspace, 1, next - 1)
    /\ stage = "admit" => IsPrefix(workspace, selected)

LoopInv == LoopTypeOK /\ ScoresAboveLoad /\ SelectedFits /\ LoadedFits /\ LoadedIsKept

-----------------------------------------------------------------------------
(* A selection within the budget has running totals again.                 *)
LEMMA TotalsAppend ==
    ASSUME NEW t, NEW q \in Seq(Stubs), RunningTotals(t, q), NEW s \in Stubs,
           LastOf(t) + StubTokens[s] <= Budget
    PROVE  /\ RunningTotals(Append(t, LastOf(t) + StubTokens[s]), Append(q, s))
           /\ LastOf(Append(t, LastOf(t) + StubTokens[s])) = LastOf(t) + StubTokens[s]
<1> DEFINE new == LastOf(t) + StubTokens[s]
           u == Append(t, new)
           r == Append(q, s)
<1>1. t \in Seq(Nat) /\ Len(t) = Len(q) /\ Len(q) \in Nat
  BY LenProperties DEF RunningTotals
<1>2. LastOf(t) \in Nat
  BY <1>1, EmptySeq, ElementOfSeq DEF LastOf
<1>3. StubTokens[s] \in Nat /\ new \in Nat
  BY <1>2, LoopAssumption
<1> HIDE DEF new
<1>4. u \in Seq(Nat) /\ Len(u) = Len(t) + 1 /\ u[Len(t) + 1] = new
      /\ \A i \in 1 .. Len(t) : u[i] = t[i]
  BY <1>1, <1>3, AppendProperties
<1>5. r \in Seq(Stubs) /\ Len(r) = Len(q) + 1 /\ r[Len(q) + 1] = s
      /\ \A i \in 1 .. Len(q) : r[i] = q[i]
  BY <1>1, AppendProperties
<1> HIDE DEF u, r
<1>6. ASSUME NEW i \in 1 .. Len(r)
      PROVE  u[i] = (IF i = 1 THEN 0 ELSE u[i - 1]) + StubTokens[r[i]] /\ u[i] <= Budget
  <2>1. CASE i \in 1 .. Len(q)
    <3>1. i \in 1 .. Len(t) /\ (i # 1 => i - 1 \in 1 .. Len(t))
      BY <2>1, <1>1
    <3>2. u[i] = t[i] /\ r[i] = q[i] /\ (i # 1 => u[i - 1] = t[i - 1])
      BY <2>1, <3>1, <1>4, <1>5
    <3> QED
      BY <2>1, <3>2 DEF RunningTotals
  <2>2. CASE i = Len(q) + 1
    <3>1. u[i] = new /\ r[i] = s
      BY <2>2, <1>1, <1>4, <1>5
    <3>2. (IF i = 1 THEN 0 ELSE u[i - 1]) = LastOf(t)
      BY <2>2, <1>1, <1>4, EmptySeq DEF LastOf
    <3> QED
      BY <3>1, <3>2 DEF new
  <2> QED
    BY <1>1, <1>5, <2>1, <2>2
<1>7. LastOf(u) = new
  BY <1>1, <1>4, EmptySeq DEF LastOf
<1> QED
  BY <1>1, <1>4, <1>5, <1>6, <1>7 DEF RunningTotals, new, u, r

(* One more element of a sequence.                                         *)
LEMMA SubSeqGrows ==
    ASSUME NEW S, NEW s \in Seq(S), NEW n \in 1 .. Len(s)
    PROVE  Append(SubSeq(s, 1, n - 1), s[n]) = SubSeq(s, 1, n)
<1>1. SubSeq(s, 1, n) = SubSeq(s, 1, n - 1) \o <<s[n]>>
  BY SubSeqRecursiveSecond
<1>2. Len(s) \in Nat /\ \A i \in 1 .. n - 1 : s[i] \in S
  BY LenProperties, ElementOfSeq
<1>3. SubSeq(s, 1, n - 1) \in Seq(S) /\ s[n] \in S
  BY <1>2, SubSeqProperties, ElementOfSeq
<1> QED
  BY <1>1, <1>3, AppendIsConcat

(* A sequence stays a prefix of one that grows.                            *)
LEMMA PrefixAppend ==
    ASSUME NEW S, NEW s \in Seq(S), NEW t \in Seq(S), NEW e \in S, IsPrefix(s, t)
    PROVE  IsPrefix(s, Append(t, e))
<1>1. Len(s) \in Nat /\ Len(t) \in Nat /\ Len(s) <= Len(t)
  BY LenProperties DEF IsPrefix
<1>2. Append(t, e) = t \o <<e>> /\ Len(Append(t, e)) = Len(t) + 1
  BY AppendIsConcat, AppendProperties
<1>3. SubSeq(Append(t, e), 1, Len(s)) = SubSeq(t, 1, Len(s))
  <2>1. CASE Len(s) = 0
    BY <2>1, SubSeqEmpty
  <2>2. CASE Len(s) # 0
    BY <2>2, <1>1, <1>2, SubSeqOfConcat1, <<e>> \in Seq(S)
  <2> QED
    BY <2>1, <2>2
<1> QED
  BY <1>1, <1>2, <1>3 DEF IsPrefix

(* While the scheduler keeps fragments, the next one passes both of its    *)
(* tests: the score is that of admission, the budget held it before.       *)
LEMMA KeepFits ==
    ASSUME LoopInv, stage = "keep", next <= Len(workspace)
    PROVE  /\ workspace[next] \in Stubs
           /\ ScoreOf(workspace[next]) >= Unload
           /\ used + StubTokens[workspace[next]] <= Budget
<1> DEFINE s == workspace[next]
<1>1. next \in 1 .. Len(workspace) /\ Len(workspace) \in Nat
  BY LenProperties DEF LoopInv, LoopTypeOK
<1>2. s \in Stubs
  BY <1>1, ElementOfSeq DEF LoopInv, LoopTypeOK
<1>3. ScoreOf(s) >= Unload
  BY LoopAssumption DEF ScoreOf, LoopInv, ScoresAboveLoad
<1>4. PICK t \in Seq(Nat) : RunningTotals(t, workspace) /\ sums = SubSeq(t, 1, next - 1)
  BY DEF LoopInv, LoadedFits
<1>5. used = LastOf(sums)
  BY DEF LoopInv, SelectedFits, Scheduling
<1>6. LastOf(sums) = IF next = 1 THEN 0 ELSE t[next - 1]
  <2>1. Len(t) = Len(workspace) /\ \A i \in 1 .. next - 1 : t[i] \in Nat
    BY <1>1, <1>4, ElementOfSeq DEF RunningTotals
  <2>2. /\ Len(sums) = IF 1 <= next - 1 THEN next - 1 ELSE 0
        /\ \A i \in 1 .. next - 1 : sums[i] = t[i]
        /\ sums \in Seq(Nat)
    BY <1>1, <1>4, <2>1, SubSeqProperties
  <2>3. CASE next = 1
    BY <2>2, <2>3, EmptySeq DEF LastOf
  <2>4. CASE next # 1
    <3>1. Len(sums) = next - 1 /\ next - 1 \in 1 .. next - 1
      BY <1>1, <2>2, <2>4
    <3>2. sums # << >>
      BY <1>1, <2>2, <2>4, <3>1, EmptySeq
    <3> QED
      BY <2>2, <2>4, <3>1, <3>2 DEF LastOf
  <2> QED
    BY <2>3, <2>4
<1>7. t[next] = (IF next = 1 THEN 0 ELSE t[next - 1]) + StubTokens[s] /\ t[next] <= Budget
  BY <1>1, <1>4 DEF RunningTotals
<1> QED
  BY <1>2, <1>3, <1>5, <1>6, <1>7

-----------------------------------------------------------------------------
LEMMA LoopInit_LoopInv == LoopInit => LoopInv
<1> SUFFICES ASSUME LoopInit PROVE LoopInv
  OBVIOUS
<1>1. << >> \in Seq(Nat) /\ << >> \in Seq(Stubs) /\ << >> \in Seq(Candidates)
      /\ Len(<< >>) = 0
  BY EmptySeq
<1>2. LoopTypeOK
  BY <1>1 DEF LoopInit, LoopTypeOK, Stages
<1>3. ScoresAboveLoad
  BY DEF LoopInit, ScoresAboveLoad
<1>4. LoadedFits
  <2>1. RunningTotals(<< >>, << >>)
    BY <1>1 DEF RunningTotals
  <2>2. workspace = << >> /\ stage # "keep"
    BY DEF LoopInit
  <2> QED
    BY <1>1, <2>1, <2>2 DEF LoadedFits
<1> QED
  BY <1>2, <1>3, <1>4 DEF LoopInit, LoopInv, SelectedFits, LoadedIsKept, Scheduling

(* Steps between two schedules.                                            *)
LEMMA OutsideTheSchedule ==
    ASSUME LoopInv, UNCHANGED <<workspace, kept, schedule>>, stage' \in Stages \ {"keep", "admit"}
    PROVE  LoopInv'
<1>1. LoopTypeOK'
  BY DEF LoopInv, LoopTypeOK, schedule
<1>2. ScoresAboveLoad'
  BY DEF LoopInv, ScoresAboveLoad
<1>3. LoadedFits'
  <2>1. PICK t \in Seq(Nat) : RunningTotals(t, workspace)
    BY DEF LoopInv, LoadedFits
  <2>2. RunningTotals(t, workspace')
    BY <2>1
  <2> QED
    BY <2>2 DEF LoadedFits, RunningTotals
<1> QED
  BY <1>1, <1>2, <1>3 DEF LoopInv, SelectedFits, LoadedIsKept, Scheduling

(* What follows a search is a stage before another schedule.               *)
LEMMA AfterSearchStage ==
    ASSUME NEW new, AfterSearch(new)
    PROVE  stage' \in Stages \ {"keep", "admit"}
BY DEF AfterSearch, AfterReasoning, AfterProbe, Stages

LEMMA Search_LoopInv ==
    ASSUME LoopInv, Search
    PROVE  LoopInv'
<1>1. PICK found \in AboveLoad :
        \/ AfterSearch(FALSE) /\ UNCHANGED schedule
        \/ /\ stage' = "keep" /\ hits' = found
           /\ next' = 1 /\ used' = 0 /\ selected' = << >> /\ admitted' = {} /\ sums' = << >>
  BY DEF Search
<1>2. UNCHANGED <<workspace, kept>>
  BY DEF Search
<1>3. CASE AfterSearch(FALSE) /\ UNCHANGED schedule
  BY <1>2, <1>3, AfterSearchStage, OutsideTheSchedule
<1>4. CASE /\ stage' = "keep" /\ hits' = found
           /\ next' = 1 /\ used' = 0 /\ selected' = << >> /\ admitted' = {} /\ sums' = << >>
  <2>1. found \in Seq(Candidates)
    BY DEF AboveLoad, BoundedSeq, SeqOf
  <2>2. << >> \in Seq(Nat) /\ << >> \in Seq(Stubs) /\ Len(<< >>) = 0
    BY EmptySeq
  <2>3. LoopTypeOK'
    BY <1>2, <1>4, <2>1, <2>2 DEF LoopInv, LoopTypeOK, Stages
  <2>4. ScoresAboveLoad'
    BY <1>2 DEF LoopInv, ScoresAboveLoad
  <2>5. SelectedFits'
    BY <1>4, <2>2 DEF SelectedFits, RunningTotals, LastOf
  <2>6. LoadedFits'
    <3>1. PICK t \in Seq(Nat) : RunningTotals(t, workspace)
      BY DEF LoopInv, LoadedFits
    <3>2. RunningTotals(t, workspace') /\ SubSeq(t, 1, 1 - 1) = << >>
      BY <1>2, <3>1, SubSeqEmpty
    <3>3. 1 <= Len(workspace') + 1
      BY <2>3, LenProperties DEF LoopTypeOK
    <3> QED
      BY <1>4, <3>2, <3>3 DEF LoadedFits, RunningTotals
  <2>7. LoadedIsKept'
    BY <1>4, SubSeqEmpty DEF LoadedIsKept
  <2> QED
    BY <2>3, <2>4, <2>5, <2>6, <2>7 DEF LoopInv
<1> QED
  BY <1>1, <1>3, <1>4

LEMMA KeepNext_LoopInv ==
    ASSUME LoopInv, KeepNext
    PROVE  LoopInv'
<1> DEFINE s == workspace[next]
<1>1. stage = "keep" /\ next \in 1 .. Len(workspace) /\ Len(workspace) \in Nat /\ workspace \in Seq(Stubs)
  BY LenProperties DEF KeepNext, LoopInv, LoopTypeOK
<1>2. s \in Stubs /\ ScoreOf(s) >= Unload /\ used + StubTokens[s] <= Budget
  BY <1>1, KeepFits
<1>3. /\ Select(s) /\ next' = next + 1
      /\ UNCHANGED <<stage, workspace, kept, hits>>
  BY <1>2 DEF KeepNext
<1>4. RunningTotals(sums, selected) /\ used = LastOf(sums) /\ selected \in Seq(Stubs)
  BY <1>1 DEF LoopInv, SelectedFits, Scheduling, LoopTypeOK
<1>5. RunningTotals(sums', selected') /\ used' = LastOf(sums')
  BY <1>2, <1>3, <1>4, TotalsAppend DEF Select
<1>6. LoopTypeOK'
  <2>1. used' \in Nat
    BY <1>2, <1>3, LoopAssumption DEF LoopInv, LoopTypeOK, Select
  <2>2. selected' \in Seq(Stubs)
    BY <1>2, <1>3, <1>4, AppendProperties DEF Select
  <2> QED
    BY <1>1, <1>3, <1>5, <2>1, <2>2 DEF LoopInv, LoopTypeOK, RunningTotals
<1>7. LoadedFits'
  <2>1. PICK t \in Seq(Nat) : RunningTotals(t, workspace) /\ sums = SubSeq(t, 1, next - 1)
    BY <1>1 DEF LoopInv, LoadedFits
  <2>2. used' = t[next]
    <3>1. sums = SubSeq(t, 1, next - 1) /\ used' = used + StubTokens[s]
      BY <1>3, <2>1 DEF Select
    <3>2. t[next] = (IF next = 1 THEN 0 ELSE t[next - 1]) + StubTokens[s]
      BY <1>1, <2>1 DEF RunningTotals
    <3>3. Len(t) = Len(workspace) /\ \A i \in 1 .. next - 1 : t[i] \in Nat
      BY <1>1, <2>1, ElementOfSeq DEF RunningTotals
    <3>4. /\ Len(sums) = IF 1 <= next - 1 THEN next - 1 ELSE 0
          /\ \A i \in 1 .. next - 1 : sums[i] = t[i]
          /\ sums \in Seq(Nat)
      BY <1>1, <3>1, <3>3, SubSeqProperties
    <3>5. CASE next = 1
      BY <1>4, <3>1, <3>2, <3>4, <3>5, EmptySeq DEF LastOf
    <3>6. CASE next # 1
      <4>1. Len(sums) = next - 1 /\ next - 1 \in 1 .. next - 1 /\ sums # << >>
        BY <1>1, <3>4, <3>6, EmptySeq
      <4> QED
        BY <1>4, <3>1, <3>2, <3>4, <3>6, <4>1 DEF LastOf
    <3> QED
      BY <3>5, <3>6
  <2>3. sums' = SubSeq(t, 1, next)
    <3>1. next \in 1 .. Len(t) /\ sums' = Append(SubSeq(t, 1, next - 1), t[next])
      BY <1>1, <1>3, <2>1, <2>2 DEF Select, RunningTotals
    <3> QED
      BY <3>1, SubSeqGrows
  <2>4. RunningTotals(t, workspace') /\ next' <= Len(workspace') + 1 /\ next' - 1 = next
    BY <1>1, <1>3, <2>1
  <2> QED
    BY <2>3, <2>4 DEF LoadedFits, RunningTotals
<1>8. LoadedIsKept'
  <2>1. selected = SubSeq(workspace, 1, next - 1)
    BY <1>1 DEF LoopInv, LoadedIsKept
  <2>2. selected' = SubSeq(workspace, 1, next)
    BY <1>1, <1>3, <2>1, SubSeqGrows DEF Select
  <2> QED
    BY <1>1, <1>3, <2>2 DEF LoadedIsKept
<1>9. ScoresAboveLoad'
  BY <1>3 DEF LoopInv, ScoresAboveLoad
<1> QED
  BY <1>5, <1>6, <1>7, <1>8, <1>9 DEF LoopInv, SelectedFits

LEMMA KeepEnd_LoopInv ==
    ASSUME LoopInv, KeepEnd
    PROVE  LoopInv'
<1>1. stage = "keep" /\ stage' = "admit" /\ UNCHANGED <<workspace, kept, schedule>>
  BY DEF KeepEnd
<1>2. next = Len(workspace) + 1 /\ Len(workspace) \in Nat /\ workspace \in Seq(Stubs)
  BY <1>1, LenProperties DEF KeepEnd, LoopInv, LoadedFits, LoopTypeOK
<1>3. selected = workspace
  BY <1>1, <1>2, SubSeqFull DEF LoopInv, LoadedIsKept
<1>4. LoadedIsKept'
  BY <1>1, <1>2, <1>3 DEF LoadedIsKept, IsPrefix, schedule
<1>5. LoadedFits'
  <2>1. PICK t \in Seq(Nat) : RunningTotals(t, workspace)
    BY DEF LoopInv, LoadedFits
  <2> QED
    BY <1>1, <2>1 DEF LoadedFits, RunningTotals
<1>6. LoopTypeOK' /\ ScoresAboveLoad'
  BY <1>1 DEF LoopInv, LoopTypeOK, ScoresAboveLoad, schedule, Stages
<1>7. SelectedFits'
  <2>1. RunningTotals(sums, selected) /\ used = LastOf(sums)
    BY <1>1 DEF LoopInv, SelectedFits, Scheduling
  <2>2. UNCHANGED <<sums, selected, used>>
    BY <1>1 DEF schedule
  <2> QED
    BY <2>1, <2>2 DEF SelectedFits, RunningTotals, LastOf
<1> QED
  BY <1>4, <1>5, <1>6, <1>7 DEF LoopInv

LEMMA AdmitNext_LoopInv ==
    ASSUME LoopInv, AdmitNext
    PROVE  LoopInv'
<1> DEFINE c == Head(hits)
<1>1. /\ stage = "admit" /\ stage' = "admit" /\ UNCHANGED <<workspace, next>>
      /\ hits # << >> /\ hits' = Tail(hits)
  BY DEF AdmitNext
<1>2. c \in Candidates /\ hits' \in Seq(Candidates)
  BY <1>1, HeadTailProperties DEF LoopInv, LoopTypeOK
<1>3. c.id \in Stubs
  BY <1>2 DEF Candidates
<1>4. RunningTotals(sums, selected) /\ used = LastOf(sums)
      /\ IsPrefix(workspace, selected) /\ selected \in Seq(Stubs) /\ workspace \in Seq(Stubs)
  BY <1>1 DEF LoopInv, SelectedFits, LoadedIsKept, Scheduling, LoopTypeOK
<1>5. LoadedFits'
  <2>1. PICK t \in Seq(Nat) : RunningTotals(t, workspace)
    BY DEF LoopInv, LoadedFits
  <2> QED
    BY <1>1, <2>1 DEF LoadedFits, RunningTotals
<1>6. CASE Schedulable(c)
  <2>1. /\ Select(c.id)
        /\ kept' = [s \in DOMAIN kept \cup {c.id} |-> IF s = c.id THEN c.score ELSE kept[s]]
    BY <1>6 DEF AdmitNext
  <2>2. c.score \in Nat /\ c.score >= Load /\ used + StubTokens[c.id] <= Budget
    BY <1>2, <1>6, LoopAssumption DEF Schedulable, Candidates
  <2>3. RunningTotals(sums', selected') /\ used' = LastOf(sums')
    BY <1>3, <1>4, <2>1, <2>2, TotalsAppend DEF Select
  <2>4. ScoresAboveLoad'
    BY <2>1, <2>2 DEF LoopInv, ScoresAboveLoad
  <2>5. IsPrefix(workspace', selected') /\ selected' \in Seq(Stubs)
    BY <1>1, <1>3, <1>4, <2>1, PrefixAppend, AppendProperties DEF Select
  <2>6. used' \in Nat
    BY <1>3, <2>1, LoopAssumption DEF LoopInv, LoopTypeOK, Select
  <2>7. LoopTypeOK'
    BY <1>1, <1>2, <1>3, <2>1, <2>3, <2>5, <2>6 DEF LoopInv, LoopTypeOK, RunningTotals
  <2> QED
    BY <1>1, <1>5, <2>3, <2>4, <2>5, <2>7 DEF LoopInv, SelectedFits, LoadedIsKept
<1>7. CASE ~Schedulable(c)
  <2>1. UNCHANGED <<used, selected, sums, kept>>
    BY <1>7 DEF AdmitNext
  <2>2. LoopTypeOK' /\ ScoresAboveLoad'
    BY <1>1, <1>2, <2>1 DEF LoopInv, LoopTypeOK, ScoresAboveLoad
  <2>3. RunningTotals(sums', selected') /\ used' = LastOf(sums')
    BY <1>4, <2>1
  <2>4. IsPrefix(workspace', selected')
    BY <1>1, <1>4, <2>1
  <2> QED
    BY <1>1, <1>5, <2>2, <2>3, <2>4 DEF LoopInv, SelectedFits, LoadedIsKept
<1> QED
  BY <1>6, <1>7

LEMMA Decide_LoopInv ==
    ASSUME LoopInv, Decide
    PROVE  LoopInv'
<1>1. /\ stage = "admit" /\ workspace' = selected /\ UNCHANGED schedule
      /\ kept' = [s \in DOMAIN kept \ (ToSet(workspace) \ ToSet(selected)) |-> kept[s]]
      /\ AfterSearch(admitted # {})
  BY DEF Decide
<1>2. stage' \in Stages \ {"keep", "admit"}
  BY <1>1, AfterSearchStage
<1>3. LoopTypeOK'
  BY <1>1, <1>2 DEF LoopInv, LoopTypeOK, schedule
<1>4. ScoresAboveLoad'
  BY <1>1 DEF LoopInv, ScoresAboveLoad
<1>5. LoadedFits'
  <2>1. RunningTotals(sums, selected) /\ sums \in Seq(Nat)
    BY <1>1 DEF LoopInv, SelectedFits, Scheduling, LoopTypeOK
  <2>2. RunningTotals(sums, workspace')
    BY <1>1, <2>1
  <2> QED
    BY <1>2, <2>1, <2>2 DEF LoadedFits, RunningTotals
<1> QED
  BY <1>2, <1>3, <1>4, <1>5 DEF LoopInv, SelectedFits, LoadedIsKept, Scheduling

-----------------------------------------------------------------------------
(* Every step of the loop keeps the invariant.                             *)
LEMMA LoopNext_LoopInv == LoopInv /\ [LoopNext]_loopVars => LoopInv'
<1> SUFFICES ASSUME LoopInv, [LoopNext]_loopVars PROVE LoopInv'
  OBVIOUS
<1>1. CASE StartTurn
  BY <1>1, OutsideTheSchedule DEF StartTurn, Stages
<1>2. CASE ThinkingStep
  BY <1>2, OutsideTheSchedule DEF ThinkingStep, Stages
<1>3. CASE Respond
  BY <1>3, OutsideTheSchedule DEF Respond, Stages
<1>4. CASE Fail
  BY <1>4, OutsideTheSchedule DEF Fail, Stages
<1>5. CASE Search
  BY <1>5, Search_LoopInv
<1>6. CASE KeepNext
  BY <1>6, KeepNext_LoopInv
<1>7. CASE KeepEnd
  BY <1>7, KeepEnd_LoopInv
<1>8. CASE AdmitNext
  BY <1>8, AdmitNext_LoopInv
<1>9. CASE Decide
  BY <1>9, Decide_LoopInv
<1>10. CASE UNCHANGED loopVars
  <2>1. UNCHANGED <<stage, workspace, kept, hits, next, used, selected, sums>>
    BY <1>10 DEF loopVars, schedule
  <2>2. LoopTypeOK' /\ ScoresAboveLoad'
    BY <2>1 DEF LoopInv, LoopTypeOK, ScoresAboveLoad
  <2>3. SelectedFits'
    BY <2>1 DEF LoopInv, SelectedFits, Scheduling, RunningTotals, LastOf
  <2>4. LoadedFits'
    BY <2>1 DEF LoopInv, LoadedFits, RunningTotals
  <2>5. LoadedIsKept'
    BY <2>1 DEF LoopInv, LoadedIsKept
  <2> QED
    BY <2>2, <2>3, <2>4, <2>5 DEF LoopInv
<1> QED
  BY <1>1, <1>2, <1>3, <1>4, <1>5, <1>6, <1>7, <1>8, <1>9, <1>10 DEF LoopNext, Schedule

(* The running totals of what is loaded are within the budget, and every   *)
(* schedule that has begun keeps all of it (scheduler.rs, schedule).       *)
THEOREM LoopInvariant == LoopSpec => []LoopInv
BY LoopInit_LoopInv, LoopNext_LoopInv, PTL DEF LoopSpec

(* What the three orchestrators load never leaves the workspace: eviction, *)
(* in scheduler.rs 65-89, is dead code under the orchestrators' use of it. *)
THEOREM LoadedStays == LoopSpec => NothingLeaves
<1>1. LoopInv /\ [LoopNext]_loopVars => [IsPrefix(workspace, workspace')]_loopVars
  <2> SUFFICES ASSUME LoopInv, [LoopNext]_loopVars PROVE IsPrefix(workspace, workspace')
    OBVIOUS
  <2>1. workspace \in Seq(Stubs) /\ Len(workspace) \in Nat
    BY LenProperties DEF LoopInv, LoopTypeOK
  <2>2. CASE Decide
    BY <2>2 DEF Decide, LoopInv, LoadedIsKept
  <2>3. CASE ~Decide
    <3>1. workspace' = workspace
      BY <2>3 DEF LoopNext, Schedule, StartTurn, ThinkingStep, Respond, Fail, Search,
                  KeepNext, KeepEnd, AdmitNext, loopVars
    <3> QED
      BY <2>1, <3>1 DEF IsPrefix
  <2> QED
    BY <2>2, <2>3
<1> QED
  BY <1>1, LoopInvariant, PTL DEF LoopSpec, NothingLeaves

-----------------------------------------------------------------------------
(* The generation loop.                                                    *)
LlamaInv ==
    /\ cells \in Nat /\ kvUsed \in Nat /\ prompt \in Nat /\ limit \in Nat
    /\ output \in Seq({"sampled", "injected"}) /\ missing \in Nat
    /\ phase = "idle" => output = << >> /\ missing = 0
    /\ CacheHoldsOutput

(* The text grows by the tokens of an injection.                           *)
LEMMA InjectionAppended ==
    ASSUME NEW s \in Seq({"sampled", "injected"}), NEW n \in Nat
    PROVE  /\ s \o [i \in 1 .. n |-> "injected"] \in Seq({"sampled", "injected"})
           /\ Len(s \o [i \in 1 .. n |-> "injected"]) = Len(s) + n
<1> DEFINE t == [i \in 1 .. n |-> "injected"]
<1>1. t \in Seq({"sampled", "injected"}) /\ Len(t) = n
  OBVIOUS
<1> HIDE DEF t
<1>2. s \o t \in Seq({"sampled", "injected"}) /\ Len(s \o t) = Len(s) + Len(t)
  BY <1>1, ConcatProperties
<1> QED
  BY <1>1, <1>2 DEF t

LEMMA LlamaStep ==
    ASSUME LlamaInv, [GenNext]_llamaVars
    PROVE  LlamaInv'
<1>0. /\ Len(output) \in Nat /\ NCtx \in Nat /\ missing \in Nat
      /\ cells \in Nat /\ kvUsed \in Nat /\ prompt \in Nat /\ limit \in Nat
  BY LenProperties, LlamaAssumption DEF LlamaInv
<1>1. CASE Prefill
  <2>1. output = << >> /\ missing = 0 /\ Len(<< >>) = 0 /\ UNCHANGED <<output, missing>>
    BY <1>1, EmptySeq DEF Prefill, LlamaInv
  <2>2. ASSUME NEW n \in PromptSizes, n > 0, n <= NCtx,
               phase' = "sampling", cells' = n, kvUsed' = n, prompt' = n,
               limit' = Min({MaxNewTokens, NCtx - n})
        PROVE  LlamaInv'
    <3>1. n \in Nat /\ MaxNewTokens \in Nat /\ NCtx - n \in Nat
      BY <1>0, <2>2, LlamaAssumption
    <3>2. Min({MaxNewTokens, NCtx - n}) \in Nat
      BY <3>1, MinOfTwo
    <3> QED
      BY <2>1, <2>2, <3>1, <3>2 DEF LlamaInv, CacheHoldsOutput
  <2>3. CASE phase' = "failed" /\ UNCHANGED <<cells, kvUsed, prompt, limit>>
    BY <2>1, <2>3 DEF LlamaInv, CacheHoldsOutput
  <2> QED
    BY <1>1, <2>2, <2>3 DEF Prefill
<1>2. CASE Sample
  <2>1. /\ cells + missing = prompt + Len(output) /\ kvUsed <= cells
        /\ missing = 0 => kvUsed = cells
        /\ output' = Append(output, "sampled") /\ kvUsed' = kvUsed + 1
        /\ limit > 0 /\ limit' = limit - 1 /\ prompt' = prompt /\ missing' = missing
    BY <1>2 DEF Sample, LlamaInv, CacheHoldsOutput
  <2>2. output' \in Seq({"sampled", "injected"}) /\ Len(output') = Len(output) + 1
    BY <2>1, AppendProperties DEF LlamaInv
  <2>3. CASE cells' = cells + 1 /\ phase' # "idle"
    <3>1. cells' \in Nat /\ kvUsed' \in Nat /\ prompt' \in Nat /\ limit' \in Nat /\ missing' \in Nat
      BY <1>0, <2>1, <2>3
    <3>2. /\ cells' + missing' = prompt' + Len(output') /\ kvUsed' <= cells'
          /\ missing' = 0 => kvUsed' = cells'
      BY <1>0, <2>1, <2>2, <2>3
    <3> QED
      BY <2>2, <2>3, <3>1, <3>2 DEF LlamaInv, CacheHoldsOutput
  <2>4. CASE cells' = cells /\ phase' = "done"
    BY <1>0, <2>1, <2>2, <2>4 DEF LlamaInv, CacheHoldsOutput
  <2> QED
    BY <1>2, <2>3, <2>4 DEF Sample
<1>3. CASE Inject
  <2>1. /\ cells + missing = prompt + Len(output) /\ kvUsed <= cells
        /\ missing = 0 => kvUsed = cells
        /\ prompt' = prompt /\ limit' = limit /\ phase' = "sampling"
    BY <1>3 DEF Inject, LlamaInv, CacheHoldsOutput
  <2>2. CASE UNCHANGED <<output, cells, kvUsed, missing>>
    BY <2>1, <2>2 DEF LlamaInv, CacheHoldsOutput
  <2>3. ASSUME NEW n \in InjectionSizes, NEW k \in 0 .. n, Shown(n), Decoded(k, n)
        PROVE  LlamaInv'
    <3>1. n \in Nat /\ k \in Nat /\ n - k \in Nat
      BY LlamaAssumption
    <3>2. output' \in Seq({"sampled", "injected"}) /\ Len(output') = Len(output) + n
      BY <2>3, <3>1, InjectionAppended DEF Shown, LlamaInv
    <3>3. /\ cells' = cells + k /\ missing' = missing + (n - k)
          /\ kvUsed' = IF k = n THEN kvUsed + n ELSE kvUsed
      BY <2>3 DEF Decoded
    <3>4. /\ cells' \in Nat /\ missing' \in Nat /\ kvUsed' \in Nat
          /\ cells' + missing' = prompt + Len(output')
          /\ kvUsed' <= cells' /\ (missing' = 0 => kvUsed' = cells')
      BY <1>0, <2>1, <3>1, <3>2, <3>3
    <3> QED
      BY <1>0, <2>1, <3>2, <3>4 DEF LlamaInv, CacheHoldsOutput
  <2> QED
    BY <1>3, <2>2, <2>3 DEF Inject
<1>4. CASE Stop \/ InjectFails
  BY <1>4 DEF Stop, InjectFails, LlamaInv, CacheHoldsOutput
<1>5. CASE UNCHANGED llamaVars
  BY <1>5 DEF llamaVars, LlamaInv, CacheHoldsOutput
<1> QED
  BY <1>1, <1>2, <1>3, <1>4, <1>5 DEF GenNext

(* Whatever the sizes of the cache, of prompts and of injections, and      *)
(* wherever a decode fails: between two tokens the cache holds the prompt  *)
(* and the text shown so far, short of injected tokens whose decode failed *)
(* (llama_cpp.rs, run_generation).                                         *)
THEOREM CacheIsWhatWasShown == GenSpec => []CacheHoldsOutput
<1>1. GenInit => LlamaInv
  BY EmptySeq, LlamaAssumption DEF GenInit, LlamaInv, CacheHoldsOutput
<1>2. LlamaInv /\ [GenNext]_llamaVars => LlamaInv'
  BY LlamaStep
<1>3. LlamaInv => CacheHoldsOutput
  BY DEF LlamaInv
<1> QED
  BY <1>1, <1>2, <1>3, PTL DEF GenSpec

-----------------------------------------------------------------------------
(* The evaluator.                                                          *)
TrailEvents == [kind : {"recall", "eviction"}, stub : StubIds, step : Nat]

StepsGrow == \A i, j \in DOMAIN trail : i <= j => trail[i].step <= trail[j].step
EvictionsAtStart == \A i \in DOMAIN trail : trail[i].kind = "eviction" => trail[i].step = 0

EvaluationInv ==
    /\ trail \in Seq(TrailEvents)
    /\ probes \in Seq(BOOLEAN)
    /\ current_step \in Nat /\ turns = current_step
    /\ session_file \in BOOLEAN
    /\ session_turn = IF session_file THEN current_step ELSE 0
    /\ \A i \in DOMAIN trail : trail[i].step <= current_step
    /\ session_file => StepsGrow
    /\ ~session_file => EvictionsAtStart

(* The places of the trail are numbers, and so are its steps.              *)
LEMMA TrailSteps ==
    ASSUME EvaluationInv
    PROVE  /\ DOMAIN trail = 1 .. Len(trail) /\ Len(trail) \in Nat
           /\ \A k \in DOMAIN trail : trail[k].step \in Nat
<1>1. DOMAIN trail = 1 .. Len(trail) /\ Len(trail) \in Nat
  BY LenProperties DEF EvaluationInv
<1>2. \A k \in 1 .. Len(trail) : trail[k] \in TrailEvents
  BY ElementOfSeq DEF EvaluationInv
<1> QED
  BY <1>1, <1>2 DEF TrailEvents

(* An event goes to the end of the trail, of the step the evaluator is at, *)
(* or of the start if it is an eviction and there is no session file.      *)
LEMMA EventAdded ==
    ASSUME EvaluationInv, NEW event \in TrailEvents, event.step <= current_step,
           session_file => event.step = current_step,
           ~session_file /\ event.kind = "eviction" => event.step = 0,
           trail' = Append(trail, event),
           UNCHANGED <<turns, current_step, session_turn, session_file>>,
           probes' \in Seq(BOOLEAN)
    PROVE  EvaluationInv'
<1>1. /\ trail' \in Seq(TrailEvents) /\ DOMAIN trail' = 1 .. Len(trail) + 1
      /\ trail'[Len(trail) + 1] = event
      /\ \A i \in 1 .. Len(trail) : trail'[i] = trail[i]
  BY AppendProperties, LenProperties DEF EvaluationInv
<1>2. DOMAIN trail = 1 .. Len(trail) /\ Len(trail) \in Nat
  BY TrailSteps
<1>3. \A i \in DOMAIN trail' : trail'[i].step <= current_step
  BY <1>1, <1>2 DEF EvaluationInv
<1>4. ASSUME session_file, NEW i \in DOMAIN trail', NEW j \in DOMAIN trail', i <= j
      PROVE  trail'[i].step <= trail'[j].step
  <2>1. CASE j = Len(trail) + 1
    BY <1>1, <1>3, <1>4, <2>1
  <2>2. CASE j # Len(trail) + 1
    <3>1. i \in 1 .. Len(trail) /\ j \in 1 .. Len(trail)
      BY <1>1, <1>2, <1>4, <2>2
    <3> QED
      BY <1>1, <1>2, <1>4, <3>1 DEF EvaluationInv, StepsGrow
  <2> QED
    BY <2>1, <2>2
<1>5. session_file => StepsGrow'
  BY <1>4 DEF StepsGrow
<1>6. ~session_file => EvictionsAtStart'
  BY <1>1, <1>2 DEF EvaluationInv, EvictionsAtStart
<1> QED
  BY <1>1, <1>3, <1>5, <1>6 DEF EvaluationInv

LEMMA EvaluationStep ==
    ASSUME EvaluationInv, [EvaluationNext]_evaluationVars
    PROVE  EvaluationInv'
<1>1. ASSUME UNCHANGED <<trail, turns, current_step, session_turn, session_file>>,
             probes' \in Seq(BOOLEAN)
      PROVE  EvaluationInv'
  BY <1>1 DEF EvaluationInv, StepsGrow, EvictionsAtStart
<1>2. CASE BeginTurn
  BY <1>1, <1>2 DEF BeginTurn, EvaluationInv
<1>3. CASE FailTurn
  BY <1>1, <1>3 DEF FailTurn, EvaluationInv
<1>4. CASE EmptyWorkspace
  BY <1>1, <1>4 DEF EmptyWorkspace, EvaluationInv
<1>11. CASE WithSession
  <2>1. /\ trail = << >> /\ session_file' = TRUE /\ turns = 0
        /\ UNCHANGED <<trail, probes, turns, current_step, session_turn>>
    BY <1>11 DEF WithSession
  <2>2. DOMAIN trail' = {}
    BY <2>1, TrailSteps, EmptySeq
  <2> QED
    BY <2>1, <2>2 DEF EvaluationInv, StepsGrow
<1>5. ASSUME NEW matched \in BOOLEAN, RecordProbeEvent(matched) PROVE EvaluationInv'
  <2>1. probes' \in Seq(BOOLEAN)
    BY <1>5, AppendProperties DEF RecordProbeEvent, EvaluationInv
  <2> QED
    BY <1>1, <1>5, <2>1 DEF RecordProbeEvent, EvaluationInv
<1>6. CASE RecordTurn
  <2>1. /\ UNCHANGED <<trail, probes, session_file>> /\ turns' = turns + 1
        /\ current_step' = current_step + 1
        /\ session_turn' = IF session_file THEN session_turn + 1 ELSE session_turn
    BY <1>6 DEF RecordTurn
  <2>2. \A i \in DOMAIN trail : trail[i].step \in Nat
    BY TrailSteps
  <2>3. \A i \in DOMAIN trail' : trail'[i].step <= current_step'
    BY <2>1, <2>2 DEF EvaluationInv
  <2>4. session_turn' = IF session_file' THEN current_step' ELSE 0
    BY <2>1 DEF EvaluationInv
  <2> QED
    BY <2>1, <2>3, <2>4 DEF EvaluationInv, StepsGrow, EvictionsAtStart
<1>7. ASSUME NEW f \in StubIds, AdmitLines(f) PROVE EvaluationInv'
  BY <1>1, <1>7 DEF AdmitLines, EvaluationInv
<1>8. ASSUME NEW f \in StubIds, RecordRecall(f) PROVE EvaluationInv'
  <2> DEFINE event == [kind |-> "recall", stub |-> f, step |-> current_step]
  <2>1. event \in TrailEvents /\ event.step = current_step /\ event.kind = "recall"
    BY DEF TrailEvents, EvaluationInv
  <2>2. /\ trail' = Append(trail, event)
        /\ UNCHANGED <<probes, turns, current_step, session_turn, session_file>>
    BY <1>8 DEF RecordRecall
  <2>3. probes' \in Seq(BOOLEAN) /\ current_step <= current_step
    BY <2>2 DEF EvaluationInv
  <2> HIDE DEF event
  <2> QED
    BY <2>1, <2>2, <2>3, EventAdded
<1>9. ASSUME NEW f \in StubIds, RecordEviction(f) PROVE EvaluationInv'
  <2> DEFINE event == [kind |-> "eviction", stub |-> f, step |-> session_turn]
  <2>1. /\ session_turn \in Nat /\ current_step \in Nat /\ session_turn <= current_step
        /\ session_file => session_turn = current_step
        /\ ~session_file => session_turn = 0
    BY DEF EvaluationInv
  <2>2. event \in TrailEvents /\ event.step = session_turn /\ event.kind = "eviction"
    BY <2>1 DEF TrailEvents
  <2>3. /\ trail' = Append(trail, event) /\ UNCHANGED <<probes, turns, session_turn, session_file>>
        /\ current_step' = Max({current_step, session_turn})
    BY <1>9 DEF RecordEviction
  <2>4. Max({current_step, session_turn}) = current_step
    BY <2>1, MaxOfTwo
  <2>5. current_step' = current_step /\ probes' \in Seq(BOOLEAN)
    BY <2>3, <2>4 DEF EvaluationInv
  <2> HIDE DEF event
  <2> QED
    BY <2>1, <2>2, <2>3, <2>5, EventAdded
<1>10. CASE UNCHANGED evaluationVars
  BY <1>1, <1>10 DEF evaluationVars, EvaluationInv
<1> QED
  BY <1>2, <1>3, <1>4, <1>5, <1>6, <1>7, <1>8, <1>9, <1>10, <1>11 DEF EvaluationNext

-----------------------------------------------------------------------------
(* A reload that counts as thrashing comes after the eviction.             *)
LEMMA ThrashedIsReloaded ==
    ASSUME EvaluationInv, session_file, NEW e \in Events("eviction"), Thrashed(e)
    PROVE  \E r \in Events("recall") : r > e /\ trail[r].stub = trail[e].stub
<1>1. PICK r \in Events("recall") :
        trail[r].stub = trail[e].stub /\ trail[r].step > trail[e].step
  BY DEF Thrashed
<1>2. r \in DOMAIN trail /\ e \in DOMAIN trail /\ r \in Nat /\ e \in Nat
  BY TrailSteps DEF Events
<1>3. trail[r].step \in Nat /\ trail[e].step \in Nat
  BY <1>2, TrailSteps
<1>4. ~(r <= e)
  BY <1>1, <1>2, <1>3 DEF EvaluationInv, StepsGrow
<1> QED
  BY <1>1, <1>2, <1>4

(* An eviction that ends a load is counted, for no longer than the load.   *)
LEMMA LoadIsCounted ==
    ASSUME EvaluationInv, session_file,
           NEW e \in Events("eviction"), NEW r \in DOMAIN trail, EndsLoad(e, r)
    PROVE  e \in DOMAIN LoadedDurations /\ LoadedDurations[e] <= trail[e].step - trail[r].step
<1> DEFINE LoadSteps(x) ==
              {trail[k].step : k \in {k \in Events("recall") :
                  trail[k].stub = trail[x].stub /\ trail[k].step <= trail[x].step}}
<1>1. /\ r \in Events("recall") /\ r < e /\ trail[r].stub = trail[e].stub
  BY DEF EndsLoad
<1>2. e \in DOMAIN trail /\ e \in Nat /\ r \in Nat
  BY TrailSteps DEF Events
<1>3. \A k \in DOMAIN trail : trail[k].step \in Nat
  BY TrailSteps
<1>4. trail[r].step <= trail[e].step
  BY <1>1, <1>2 DEF EvaluationInv, StepsGrow
<1>5. trail[r].step \in LoadSteps(e)
  BY <1>1, <1>4
<1>6. LoadSteps(e) \in SUBSET Nat /\ \A n \in LoadSteps(e) : n <= trail[e].step
  BY <1>3 DEF Events
<1>7. LoadedDurations = [x \in {x \in Events("eviction") : LoadSteps(x) # {}} |->
                            trail[x].step - Max(LoadSteps(x))]
  BY DEF LoadedDurations
<1> HIDE DEF LoadSteps
<1>8. Max(LoadSteps(e)) \in Nat /\ trail[r].step <= Max(LoadSteps(e))
  BY <1>2, <1>3, <1>5, <1>6, MaxOfBounded
<1>9. LoadSteps(e) # {}
  BY <1>5
<1>10. e \in DOMAIN LoadedDurations /\ LoadedDurations[e] = trail[e].step - Max(LoadSteps(e))
  BY <1>7, <1>9
<1> QED
  BY <1>2, <1>3, <1>8, <1>10

(* Without a session file every eviction is one of the start: a recall of  *)
(* the window counts against it, and its load lasted no time.              *)
LEMMA StartsAreCompared ==
    ASSUME EvaluationInv, ~session_file
    PROVE  EvictionsCountFromTheStart
<1>1. \A k \in DOMAIN trail : trail[k].step \in Nat
  BY TrailSteps
<1>2. \A e \in Events("eviction") : trail[e].step = 0
  BY DEF EvaluationInv, EvictionsAtStart, Events
<1>3. ASSUME NEW e \in Events("eviction"), NEW r \in Events("recall")
      PROVE  /\ trail[r].step > trail[e].step
             /\ trail[r].step - trail[e].step <= ThrashingWindow
             <=> trail[r].step \in 1..ThrashingWindow
  <2>1. trail[e].step = 0 /\ trail[r].step \in Nat
    BY <1>1, <1>2 DEF Events
  <2> QED
    BY <2>1, EvaluationAssumption
<1>4. ASSUME NEW e \in DOMAIN LoadedDurations PROVE LoadedDurations[e] = 0
  <2> DEFINE LoadSteps(x) ==
                {trail[k].step : k \in {k \in Events("recall") :
                    trail[k].stub = trail[x].stub /\ trail[k].step <= trail[x].step}}
  <2>1. LoadedDurations = [x \in {x \in Events("eviction") : LoadSteps(x) # {}} |->
                              trail[x].step - Max(LoadSteps(x))]
    BY DEF LoadedDurations
  <2>2. e \in Events("eviction") /\ LoadSteps(e) # {}
    BY <1>4, <2>1
  <2>3. trail[e].step = 0
    BY <1>2, <2>2
  <2>4. LoadSteps(e) \in SUBSET Nat /\ \A n \in LoadSteps(e) : n <= 0
    BY <1>1, <2>3 DEF Events
  <2>5. LoadedDurations[e] = trail[e].step - Max(LoadSteps(e))
    BY <2>1, <2>2
  <2> HIDE DEF LoadSteps
  <2>6. Max(LoadSteps(e)) \in LoadSteps(e)
    BY <2>2, <2>4, MaxOfBounded
  <2>7. Max(LoadSteps(e)) \in Nat /\ Max(LoadSteps(e)) <= 0
    BY <2>4, <2>6
  <2> QED
    BY <2>3, <2>5, <2>7
<1> QED
  BY <1>3, <1>4 DEF EvictionsCountFromTheStart, Thrashed

(* However much thrashing there was, the thresholds stay apart.            *)
LEMMA ThresholdsApart ==
    ASSUME EvaluationInv
    PROVE  Suggested(70, 50).unload < Suggested(70, 50).load
<1> DEFINE thrashing == ThrashingEvents
           gap == 5 * Min({thrashing, 4})
<1>1. thrashing \in Nat
  <2>1. IsFiniteSet(DOMAIN trail)
    BY CountTo, LenProperties DEF EvaluationInv
  <2>2. IsFiniteSet({e \in Events("eviction") : Thrashed(e)})
    BY <2>1, FS_Subset DEF Events
  <2> QED
    BY <2>2, FS_CardinalityType DEF ThrashingEvents
<1> HIDE DEF thrashing
<1>2. Min({thrashing, 4}) \in 0 .. 4
  BY <1>1, MinOfTwo
<1>3. gap \in 0 .. 20
  BY <1>2
<1>4. Suggested(70, 50) = [load |-> Min({70 + gap, 95}),
                           unload |-> Max({IF gap > 50 THEN 0 ELSE 50 - gap, 10})]
  BY DEF Suggested, thrashing
<1> HIDE DEF gap
<1>5. Min({70 + gap, 95}) \in 70 .. 95
  BY <1>3, MinOfTwo
<1>6. Max({IF gap > 50 THEN 0 ELSE 50 - gap, 10}) \in 10 .. 50
  BY <1>3, MaxOfTwo
<1> QED
  BY <1>4, <1>5, <1>6

(* No more probes matched than were made.                                  *)
LEMMA NoMoreMatchesThanProbes ==
    ASSUME EvaluationInv
    PROVE  Cooperation.useful[1] <= Cooperation.useful[2]
<1> DEFINE matched == {i \in DOMAIN probes : probes[i]}
<1>1. Len(probes) \in Nat /\ DOMAIN probes = 1 .. Len(probes)
  BY LenProperties DEF EvaluationInv
<1>2. IsFiniteSet(DOMAIN probes) /\ Cardinality(DOMAIN probes) = Len(probes)
  BY <1>1, CountTo
<1>3. Cardinality(matched) <= Len(probes)
  BY <1>2, FS_Subset
<1>4. Cooperation.useful = Ratio(Cardinality(matched), Len(probes))
  BY DEF Cooperation
<1> HIDE DEF matched
<1> QED
  BY <1>1, <1>3, <1>4 DEF Ratio

(* What the report says of a session, however long, written to a file or   *)
(* not (caw-eval, SessionEvaluator::report).                               *)
THEOREM ReportsAreSound == EvaluationSpec => []ReportIsSound
<1>1. EvaluationInit => EvaluationInv
  <2>1. SUFFICES ASSUME EvaluationInit PROVE EvaluationInv
    OBVIOUS
  <2>2. /\ trail = << >> /\ probes = << >> /\ turns = 0 /\ current_step = 0
        /\ session_file = FALSE /\ session_turn = 0
    BY <2>1 DEF EvaluationInit
  <2>3. << >> \in Seq(TrailEvents) /\ << >> \in Seq(BOOLEAN) /\ DOMAIN << >> = {}
    BY EmptySeq
  <2> QED
    BY <2>2, <2>3 DEF EvaluationInv, StepsGrow, EvictionsAtStart
<1>2. EvaluationInv /\ [EvaluationNext]_evaluationVars => EvaluationInv'
  BY EvaluationStep
<1>3. EvaluationInv => ReportIsSound
  BY ThrashedIsReloaded, LoadIsCounted, StartsAreCompared, ThresholdsApart, NoMoreMatchesThanProbes
  DEF ReportIsSound, EventsCompare
<1> QED
  BY <1>1, <1>2, <1>3, PTL DEF EvaluationSpec
-----------------------------------------------------------------------------
(* The classifiers' votes.                                                 *)
IntentOf(emitted) == FromClassifierResponse(emitted)

ClassInv ==
    /\ votes \in Seq(Emissions)
    /\ ~turning => guidance = NoGuidance /\ signals = NoSignals
    /\ MajorityOfVoices

(* One emission: a field of the schema is set iff some spelling of its key *)
(* is true, and an extra key that is true was emitted as such.             *)
LEMMA ReadEmission ==
    ASSUME NEW emitted
    PROVE  /\ IntentOf(emitted).set \subseteq Fields
           /\ \A f \in Fields : f \in IntentOf(emitted).set <=> SaysField(emitted, f)
           /\ \A k \in DOMAIN IntentOf(emitted).extra :
                 IntentOf(emitted).extra[k] = "true" => SaysHint(emitted, k)
<1> DEFINE own == {k.core : k \in {l \in DOMAIN emitted \cap Schema : emitted[l] = "true"}}
           extra == [k \in DOMAIN emitted \ Schema |-> emitted[k]]
           near == {k \in DOMAIN emitted \ Schema : emitted[k] # "text" /\ k.core \in Fields}
           folded == {k.core : k \in {l \in near : emitted[l] = "true"}}
<1>1. Deserialized(emitted) = [set |-> own, extra |-> extra]
  BY DEF Deserialized, Restrict
<1>2. DOMAIN extra = DOMAIN emitted \ Schema /\ \A k \in DOMAIN extra : extra[k] = emitted[k]
  OBVIOUS
<1>3. near = {k \in DOMAIN extra : extra[k] # "text" /\ NormalizeIntentKey(k) \in Fields}
  BY DEF NormalizeIntentKey
<1>4. folded = {NormalizeIntentKey(k) : k \in {l \in near : extra[l] = "true"}}
  BY DEF NormalizeIntentKey
<1> HIDE DEF extra, near, own, folded
<1>5. IntentOf(emitted) = [set |-> own \cup folded, extra |-> [k \in DOMAIN extra \ near |-> extra[k]]]
  BY <1>1, <1>3, <1>4 DEF IntentOf, FromClassifierResponse, ReconcileNearMissKeys, Restrict
<1>6. own \cup folded \subseteq Fields
  BY DEF own, folded, near, Fields
<1>7. ASSUME NEW f \in Fields PROVE f \in own \cup folded <=> SaysField(emitted, f)
  <2>1. ASSUME f \in own \cup folded PROVE SaysField(emitted, f)
    BY <2>1 DEF own, folded, near, SaysField
  <2>2. ASSUME SaysField(emitted, f) PROVE f \in own \cup folded
    <3>1. PICK key \in DOMAIN emitted : key.core = f /\ emitted[key] = "true"
      BY <2>2 DEF SaysField
    <3>2. CASE key \in Schema
      BY <3>1, <3>2 DEF own
    <3>3. CASE key \notin Schema
      BY <3>1, <3>3 DEF folded, near
    <3> QED
      BY <3>2, <3>3
  <2> QED
    BY <2>1, <2>2
<1>8. ASSUME NEW k \in DOMAIN extra \ near, extra[k] = "true" PROVE SaysHint(emitted, k)
  BY <1>2, <1>8 DEF SaysHint
<1> QED
  BY <1>5, <1>6, <1>7, <1>8

(* Some of the votes are a number of them, more if more are meant.         *)
LEMMA SomeVotes ==
    ASSUME NEW n \in Nat, NEW I \in SUBSET (1 .. n), NEW J \in SUBSET I
    PROVE  Cardinality(I) \in Nat /\ Cardinality(J) \in Nat /\ Cardinality(J) <= Cardinality(I)
<1>1. IsFiniteSet(1 .. n)
  BY CountTo
<1>2. IsFiniteSet(I) /\ IsFiniteSet(J) /\ Cardinality(J) <= Cardinality(I)
  BY <1>1, FS_Subset
<1> QED
  BY <1>2, FS_CardinalityType

(* The threshold of the vote is more than half.                            *)
LEMMA ThresholdIsMost ==
    ASSUME NEW n \in Nat, NEW c \in Nat
    PROVE  c >= n \div 2 + 1 <=> 2 * c > n
OBVIOUS

(* What the vote of several, of one or of none says.                       *)
LEMMA VoteIsMost ==
    ASSUME votes \in Seq(Emissions),
           NEW merge, merge = MajorityVote([i \in DOMAIN votes |-> IntentOf(votes[i])])
    PROVE  /\ merge.set \subseteq Fields
           /\ \A f \in Fields : f \in merge.set <=> Most({i \in DOMAIN votes : SaysField(votes[i], f)})
           /\ \A k \in DOMAIN merge.extra :
                 merge.extra[k] = "true" => Most({i \in DOMAIN votes : SaysHint(votes[i], k)})
<1> DEFINE voices == [i \in DOMAIN votes |-> IntentOf(votes[i])]
           n == Len(votes)
           Hears(f) == {i \in DOMAIN votes : f \in voices[i].set}
           Hinted(k) == {i \in DOMAIN votes : k \in DOMAIN voices[i].extra /\ voices[i].extra[k] = "true"}
<1>1. n \in Nat /\ DOMAIN votes = 1 .. n /\ Len(voices) = n /\ DOMAIN voices = 1 .. n
      /\ \A i \in DOMAIN votes : voices[i] = IntentOf(votes[i])
  BY LenProperties
<1>2. \A f \in Fields : Hears(f) = {i \in DOMAIN votes : SaysField(votes[i], f)}
  BY <1>1, ReadEmission
<1>3. \A k : Hinted(k) \subseteq {i \in DOMAIN votes : SaysHint(votes[i], k)}
  BY <1>1, ReadEmission
<1>4. merge = MajorityVote(voices)
  OBVIOUS
<1> HIDE DEF voices
<1>5. CASE n = 0
  <2>1. merge = NoIntent
    BY <1>1, <1>4, <1>5 DEF MajorityVote
  <2>2. \A S : {i \in DOMAIN votes : i \in S} = {}
    BY <1>1, <1>5
  <2>3. ASSUME NEW f \in Fields PROVE ~Most({i \in DOMAIN votes : SaysField(votes[i], f)})
    <3>1. {i \in DOMAIN votes : SaysField(votes[i], f)} = {}
      BY <1>1, <1>5
    <3> QED
      BY <1>5, <3>1, FS_EmptySet DEF Most
  <2> QED
    BY <2>1, <2>3, EmptySeq DEF NoIntent
<1>6. CASE n = 1
  <2>1. merge = voices[1] /\ 1 \in DOMAIN votes /\ voices[1] = IntentOf(votes[1])
    BY <1>1, <1>4, <1>6 DEF MajorityVote
  <2>2. merge.set \subseteq Fields
    BY <2>1, ReadEmission
  <2>3. ASSUME NEW I \in SUBSET (1 .. 1) PROVE Most(I) <=> 1 \in I
    <3>1. I = {} \/ I = {1}
      <4>1. 1 .. 1 = {1}
        OBVIOUS
      <4> QED
        BY <4>1
    <3>2. Cardinality({}) = 0 /\ Cardinality({1}) = 1
      BY FS_EmptySet, FS_Singleton
    <3>3. Most({1}) /\ ~Most({})
      BY <1>6, <3>2 DEF Most
    <3>4. I = {} => 1 \notin I
      OBVIOUS
    <3> QED
      BY <3>1, <3>3, <3>4
  <2>4. ASSUME NEW f \in Fields
        PROVE  f \in merge.set <=> Most({i \in DOMAIN votes : SaysField(votes[i], f)})
    <3>1. f \in merge.set <=> SaysField(votes[1], f)
      BY <2>1, ReadEmission
    <3> QED
      BY <1>1, <1>6, <2>3, <3>1
  <2>5. ASSUME NEW k \in DOMAIN merge.extra, merge.extra[k] = "true"
        PROVE  Most({i \in DOMAIN votes : SaysHint(votes[i], k)})
    <3>1. SaysHint(votes[1], k)
      BY <2>1, <2>5, ReadEmission
    <3> QED
      BY <1>1, <1>6, <2>3, <3>1
  <2> QED
    BY <2>2, <2>4, <2>5
<1>7. CASE n > 1
  <2> DEFINE threshold == Len(voices) \div 2 + 1
             HintKeys == UNION {DOMAIN voices[i].extra : i \in DOMAIN voices}
             fields == {f \in Fields : Cardinality({i \in DOMAIN voices : f \in voices[i].set}) >= threshold}
             keys == {l \in HintKeys : Cardinality({i \in DOMAIN voices :
                          l \in DOMAIN voices[i].extra /\ voices[i].extra[l] = "true"}) >= threshold}
  <2>0. fields \subseteq Fields
    OBVIOUS
  <2>1. merge = [set |-> fields, extra |-> [k \in keys |-> "true"]]
    BY <1>1, <1>4, <1>7 DEF MajorityVote
  <2>2. ASSUME NEW I \in SUBSET (1 .. n) PROVE Cardinality(I) >= threshold <=> Most(I)
    <3>1. Cardinality(I) \in Nat
      BY <1>1, SomeVotes
    <3> QED
      BY <1>1, <3>1, ThresholdIsMost DEF Most
  <2>3. ASSUME NEW f \in Fields
        PROVE  f \in merge.set <=> Most({i \in DOMAIN votes : SaysField(votes[i], f)})
    <3>0. f \in fields <=> Cardinality(Hears(f)) >= threshold
      BY <1>1
    <3>1. f \in merge.set <=> f \in fields
      <4> HIDE DEF fields, keys
      <4> QED
        BY <2>1
    <3>2. Hears(f) \in SUBSET (1 .. n)
      BY <1>1
    <3> QED
      BY <1>2, <2>2, <3>0, <3>1, <3>2
  <2>4. ASSUME NEW k \in DOMAIN merge.extra
        PROVE  Most({i \in DOMAIN votes : SaysHint(votes[i], k)})
    <3> DEFINE I == {i \in DOMAIN votes : SaysHint(votes[i], k)}
    <3>0. k \in keys
      <4> HIDE DEF fields, keys
      <4> QED
        BY <2>1
    <3>1. Cardinality(Hinted(k)) >= threshold
      BY <1>1, <3>0
    <3>2. Hinted(k) \in SUBSET I /\ I \in SUBSET (1 .. n)
      BY <1>1, <1>3
    <3> HIDE DEF I
    <3>3. Cardinality(I) \in Nat /\ Cardinality(Hinted(k)) \in Nat /\ Cardinality(Hinted(k)) <= Cardinality(I)
      BY <1>1, <3>2, SomeVotes
    <3>4. threshold \in Nat
      BY <1>1
    <3>5. Cardinality(I) >= threshold
      BY <3>1, <3>3, <3>4
    <3>6. Most(I)
      BY <2>2, <3>2, <3>5
    <3> QED
      BY <3>6 DEF I
  <2>5. merge.set \subseteq Fields
    <3> HIDE DEF fields, keys
    <3> QED
      BY <2>1, <2>0
  <2>6. \A k \in DOMAIN merge.extra :
           merge.extra[k] = "true" => Most({i \in DOMAIN votes : SaysHint(votes[i], k)})
    BY <2>4
  <2> QED
    BY <2>3, <2>5, <2>6
<1>8. n = 0 \/ n = 1 \/ n > 1
  BY <1>1
<1> QED
  BY <1>5, <1>6, <1>7, <1>8

LEMMA MergeVotes_ClassInv ==
    ASSUME ClassInv, MergeVotes
    PROVE  ClassInv'
<1>1. votes' = votes /\ turning' = TRUE /\ ~turning /\ votes \in Seq(Emissions)
  BY DEF MergeVotes, ClassInv
<1>2. guidance = NoGuidance /\ signals = NoSignals
  BY <1>1 DEF ClassInv
<1>3. merged' = MajorityVote([i \in DOMAIN votes |-> IntentOf(votes[i])])
  BY DEF MergeVotes, IntentOf
<1>4. /\ merged'.set \subseteq Fields
      /\ \A f \in Fields : f \in merged'.set <=> Most({i \in DOMAIN votes : SaysField(votes[i], f)})
      /\ \A k \in DOMAIN merged'.extra :
            merged'.extra[k] = "true" => Most({i \in DOMAIN votes : SaysHint(votes[i], k)})
  BY <1>1, <1>3, VoteIsMost
<1>5. \/ UNCHANGED <<guidance, signals>>
      \/ /\ "abstain" \notin merged'.set
         /\ guidance' = GuidanceLines(merged') /\ signals' = AugmentationSignals(merged')
  BY DEF MergeVotes, IsActionable
<1>6. CASE UNCHANGED <<guidance, signals>>
  <2>1. guidance'.fields = {} /\ signals'.fields = {} /\ signals'.hints = {}
        /\ guidance' = NoGuidance /\ signals' = NoSignals
    BY <1>2, <1>6 DEF NoGuidance, NoSignals
  <2>2. MajorityOfVoices'
    BY <1>1, <1>4, <2>1 DEF MajorityOfVoices, Most
  <2> QED
    BY <1>1, <2>1, <2>2 DEF ClassInv
<1>7. CASE /\ "abstain" \notin merged'.set
           /\ guidance' = GuidanceLines(merged') /\ signals' = AugmentationSignals(merged')
  <2>1. guidance'.fields = merged'.set /\ signals'.fields \subseteq merged'.set
        /\ signals'.hints = {k \in DOMAIN merged'.extra : merged'.extra[k] = "true"}
    BY <1>7 DEF GuidanceLines, AugmentationSignals
  <2>2. MajorityOfVoices'
    BY <1>1, <1>4, <1>7, <2>1 DEF MajorityOfVoices, Most
  <2> QED
    BY <1>1, <2>2 DEF ClassInv
<1> QED
  BY <1>5, <1>6, <1>7

(* Whatever the schema, the classifiers and what they emit: the intent of  *)
(* a question is that of a strict majority of those that answered, and     *)
(* the turn is guided and augmented by nothing else (main.rs 1018-1060,    *)
(* QueryIntent::majority_vote).                                            *)
THEOREM VotesDecide == ClassSpec => []MajorityOfVoices
<1>1. ClassInit => ClassInv
  BY EmptySeq DEF ClassInit, ClassInv, MajorityOfVoices, NoGuidance, NoSignals
<1>2. ClassInv /\ [ClassNext]_classVars => ClassInv'
  <2> SUFFICES ASSUME ClassInv, [ClassNext]_classVars PROVE ClassInv'
    OBVIOUS
  <2>1. ASSUME ~turning', votes' \in Seq(Emissions), guidance' = NoGuidance, signals' = NoSignals
        PROVE  ClassInv'
    BY <2>1 DEF ClassInv, MajorityOfVoices, NoGuidance, NoSignals
  <2>2. CASE ClassifierAnswers
    <3>1. PICK emitted \in Emissions : votes' = Append(votes, emitted)
      BY <2>2 DEF ClassifierAnswers
    <3>2. votes' \in Seq(Emissions)
      BY <3>1, AppendProperties DEF ClassInv
    <3> QED
      BY <2>1, <2>2, <3>2 DEF ClassifierAnswers, ClassInv
  <2>3. CASE ClassifierFails
    BY <2>1, <2>3 DEF ClassifierFails, ClassInv
  <2>4. CASE MergeVotes
    BY <2>4, MergeVotes_ClassInv
  <2>5. CASE NextQuestion
    BY <2>1, <2>5, EmptySeq DEF NextQuestion
  <2>6. CASE UNCHANGED classVars
    BY <2>6 DEF classVars, ClassInv, MajorityOfVoices, Most
  <2> QED
    BY <2>2, <2>3, <2>4, <2>5, <2>6 DEF ClassNext
<1>3. ClassInv => MajorityOfVoices
  BY DEF ClassInv
<1> QED
  BY <1>1, <1>2, <1>3, PTL DEF ClassSpec

-----------------------------------------------------------------------------
\* Chunking

(* The bytes of a text from one offset to another.                         *)
LEMMA SomeBytes ==
    ASSUME NEW content \in ByteStrings, NEW a \in Nat, NEW b \in Nat, a <= b, b <= Len(content)
    PROVE  /\ Bytes(content, a, b) \in ByteStrings
           /\ Len(Bytes(content, a, b)) = b - a
           /\ \A i \in 1 .. b - a : Bytes(content, a, b)[i] = content[a + i]
<1> DEFINE S == Characters \cup {Newline, LeadByte, Continuation}
<1>1. content \in Seq(S) /\ Len(content) \in Nat
  BY LenProperties DEF ByteStrings
<1>2. a + 1 \in Int /\ b \in Int /\ \A i \in a + 1 .. b : content[i] \in S
  <2>1. \A i \in a + 1 .. b : i \in 1 .. Len(content)
    BY <1>1
  <2> QED
    BY <1>1, <2>1, ElementOfSeq
<1> HIDE DEF S
<1>3. /\ SubSeq(content, a + 1, b) \in Seq(S)
      /\ Len(SubSeq(content, a + 1, b)) = IF a + 1 <= b THEN b - (a + 1) + 1 ELSE 0
      /\ \A i \in 1 .. b - (a + 1) + 1 : SubSeq(content, a + 1, b)[i] = content[a + 1 + i - 1]
  BY <1>2, SubSeqProperties
<1>4. Seq(S) = ByteStrings
  BY DEF S, ByteStrings
<1>5. /\ \A i \in 1 .. b - a : i \in 1 .. b - (a + 1) + 1 /\ a + 1 + i - 1 = a + i
      /\ (IF a + 1 <= b THEN b - (a + 1) + 1 ELSE 0) = b - a
  OBVIOUS
<1> QED
  BY <1>3, <1>4, <1>5 DEF Bytes

(* A slice between two characters is a text of its own.                    *)
LEMMA SliceOfText ==
    ASSUME NEW content \in ByteStrings, WellFormed(content),
           NEW a \in Nat, NEW b \in Nat, a < b, b <= Len(content), IsCharBoundary(content, a)
    PROVE  WellFormed(Bytes(content, a, b))
<1> DEFINE own == Bytes(content, a, b)
<1>1. own \in ByteStrings /\ Len(own) = b - a /\ \A i \in 1 .. b - a : own[i] = content[a + i]
  BY SomeBytes
<1>2. DOMAIN own = 1 .. b - a
  BY <1>1, LenProperties DEF ByteStrings
<1>3. DOMAIN content = 1 .. Len(content) /\ Len(content) \in Nat
  BY LenProperties DEF ByteStrings
<1>4. content[a + 1] # Continuation
  BY <1>3 DEF IsCharBoundary
<1> HIDE DEF own
<1>5. ASSUME NEW i \in 1 .. b - a
      PROVE  \E j \in 1 .. i :
                /\ i < j + CharBytes /\ own[j] # Continuation
                /\ j < i => own[j] = LeadByte /\ \A k \in j + 1 .. i : own[k] = Continuation
  <2>1. a + i \in 1 .. Len(content)
    BY <1>3
  <2>2. PICK j \in 1 .. a + i :
            /\ a + i < j + CharBytes /\ content[j] # Continuation
            /\ j < a + i => content[j] = LeadByte /\ \A k \in j + 1 .. a + i : content[k] = Continuation
    BY <1>3, <2>1 DEF WellFormed
  <2>3. j > a
    <3>1. SUFFICES ASSUME j <= a PROVE FALSE
      OBVIOUS
    <3>2. j < a + i /\ a + 1 \in j + 1 .. a + i
      BY <3>1
    <3> QED
      BY <2>2, <3>2, <1>4
  <2>4. j - a \in 1 .. i /\ i < (j - a) + CharBytes /\ own[j - a] = content[j]
    <3>1. j - a \in 1 .. i /\ j - a \in 1 .. b - a /\ a + (j - a) = j
      BY <2>3
    <3>2. i < (j - a) + CharBytes
      BY <2>2, <3>1, ChunkingAssumption
    <3> QED
      BY <1>1, <3>1, <3>2
  <2>5. ASSUME j - a < i PROVE own[j - a] = LeadByte /\ \A k \in (j - a) + 1 .. i : own[k] = Continuation
    <3>1. j < a + i
      BY <2>5
    <3>2. ASSUME NEW k \in (j - a) + 1 .. i PROVE own[k] = Continuation
      <4>1. a + k \in j + 1 .. a + i /\ k \in 1 .. b - a
        BY <2>3
      <4> QED
        BY <1>1, <2>2, <3>1, <4>1
    <3> QED
      BY <2>2, <2>4, <3>1, <3>2
  <2> QED
    BY <2>2, <2>4, <2>5
<1> QED
  BY <1>2, <1>5 DEF WellFormed, own

(* floor_char_boundary: the last character boundary up to an offset, less  *)
(* than a character before it.                                             *)
LEMMA FloorIsBoundary ==
    ASSUME NEW content \in ByteStrings, WellFormed(content), NEW i \in Nat
    PROVE  LET f == FloorCharBoundary(content, i)
           IN  /\ f \in Nat /\ f <= Len(content) /\ IsCharBoundary(content, f)
               /\ i < Len(content) => f <= i /\ i < f + CharBytes
               /\ \A j \in Nat : j <= i /\ IsCharBoundary(content, j) => j <= f
<1>1. DOMAIN content = 1 .. Len(content) /\ Len(content) \in Nat
  BY LenProperties DEF ByteStrings
<1>2. CASE i >= Len(content)
  BY <1>1, <1>2 DEF FloorCharBoundary, IsCharBoundary
<1>3. CASE i < Len(content)
  <2> DEFINE T == {j \in 0 .. i : j = 0 \/ content[j + 1] # Continuation}
             f == Max(T)
  <2>1. T \in SUBSET Nat /\ 0 \in T /\ \A j \in T : j <= i
    OBVIOUS
  <2>2. f \in T /\ \A j \in T : j <= f
    <3> HIDE DEF T
    <3> QED
      BY <2>1, MaxOfBounded
  <2>3. FloorCharBoundary(content, i) = f
    BY <1>1, <1>3 DEF FloorCharBoundary
  <2>4. PICK s \in 1 .. i + 1 : i + 1 < s + CharBytes /\ content[s] # Continuation
    <3>1. i + 1 \in DOMAIN content
      BY <1>1, <1>3
    <3> QED
      BY <3>1 DEF WellFormed
  <2>5. s - 1 \in T
    <3>1. s - 1 \in 0 .. i /\ (s - 1) + 1 = s
      OBVIOUS
    <3> QED
      BY <2>4, <3>1
  <2>6. content[1] # Continuation
    <3>1. 1 \in DOMAIN content
      BY <1>1, <1>3
    <3>2. PICK j \in 1 .. 1 : content[j] # Continuation
      BY <3>1 DEF WellFormed
    <3>3. j = 1
      OBVIOUS
    <3> QED
      BY <3>2, <3>3
  <2>7. \A j \in T : content[j + 1] # Continuation
    BY <2>6
  <2>8. \A j \in Nat : j <= i /\ IsCharBoundary(content, j) => j \in T
    BY <1>1, <1>3 DEF IsCharBoundary
  <2>9. f \in Nat /\ f <= i /\ content[f + 1] # Continuation /\ s - 1 <= f
    BY <2>1, <2>2, <2>5, <2>7
  <2> HIDE DEF T, f
  <2>10. i < f + CharBytes
    BY <2>4, <2>9, ChunkingAssumption
  <2> QED
    BY <1>1, <1>3, <2>2, <2>3, <2>8, <2>9, <2>10 DEF IsCharBoundary
<1> QED
  BY <1>1, <1>2, <1>3

(* A line break is a character, so another begins behind it.               *)
LEMMA BoundaryAfterBreak ==
    ASSUME NEW content \in ByteStrings, WellFormed(content),
           NEW i \in 0 .. Len(content) - 1, content[i + 1] = Newline
    PROVE  IsCharBoundary(content, i + 1)
<1>1. DOMAIN content = 1 .. Len(content) /\ Len(content) \in Nat
  BY LenProperties DEF ByteStrings
<1>2. Newline # LeadByte /\ Newline # Continuation
  BY DEF Newline, LeadByte, Continuation
<1>3. ASSUME i + 1 < Len(content), content[i + 2] = Continuation PROVE FALSE
  <2>1. i + 2 \in DOMAIN content
    BY <1>1, <1>3
  <2>2. PICK j \in 1 .. i + 2 :
            /\ content[j] # Continuation
            /\ j < i + 2 => content[j] = LeadByte /\ \A k \in j + 1 .. i + 2 : content[k] = Continuation
    BY <2>1 DEF WellFormed
  <2>3. j # i + 2
    BY <1>3, <2>2
  <2>4. j # i + 1
    BY <1>2, <2>2
  <2>5. i + 1 \in j + 1 .. i + 2 /\ j < i + 2
    BY <2>3, <2>4
  <2> QED
    BY <1>2, <2>2, <2>5
<1>4. i + 1 \in 0 .. Len(content)
  BY <1>1
<1> QED
  BY <1>3, <1>4 DEF IsCharBoundary

(* The next cut is a character boundary behind the last.                   *)
LEMMA CutIsBoundary ==
    ASSUME NEW content \in ByteStrings, WellFormed(content),
           NEW at \in Nat, at < Len(content), IsCharBoundary(content, at),
           NEW target \in Nat \ {0}, NEW cap \in Nat, target <= cap, CharBytes <= cap,
           Len(content) - at > cap
    PROVE  LET cut == CutAfter(content, at, target, cap)
           IN  cut \in Nat /\ at < cut /\ cut <= Len(content) /\ IsCharBoundary(content, cut)
<1> DEFINE ideal == FloorCharBoundary(content, at + target)
           hard == FloorCharBoundary(content, at + cap)
           before == Breaks(content, ideal, hard)
           behind == Breaks(content, at, hard)
<1>1. Len(content) \in Nat
  BY LenProperties DEF ByteStrings
<1>2. CutAfter(content, at, target, cap) = CutWithin(content, at, ideal, hard)
  BY <1>1 DEF CutAfter, Smaller
<1>3. ideal \in Nat /\ at <= ideal /\ ideal <= Len(content)
  <2>1. at + target \in Nat /\ at <= at + target
    OBVIOUS
  <2> QED
    BY <2>1, FloorIsBoundary
<1>4. hard \in Nat /\ at < hard /\ hard < Len(content) /\ IsCharBoundary(content, hard)
  <2>1. at + cap \in Nat /\ at + cap < Len(content)
    BY <1>1
  <2>2. hard \in Nat /\ IsCharBoundary(content, hard) /\ hard <= at + cap /\ at + cap < hard + CharBytes
    BY <2>1, FloorIsBoundary
  <2> HIDE DEF hard
  <2> QED
    BY <1>1, <2>1, <2>2, ChunkingAssumption
<1> HIDE DEF ideal, hard
<1>5. ASSUME NEW i \in Nat, at <= i, i < hard, content[i + 1] = Newline
      PROVE  i + 1 \in Nat /\ at < i + 1 /\ i + 1 <= Len(content) /\ IsCharBoundary(content, i + 1)
  <2>1. i \in 0 .. Len(content) - 1
    BY <1>1, <1>4, <1>5
  <2> QED
    BY <1>1, <1>4, <1>5, <2>1, BoundaryAfterBreak
<1>6. \A i \in before \cup behind : i \in Nat /\ at <= i /\ i < hard /\ content[i + 1] = Newline
  BY <1>3, <1>4 DEF Breaks
<1>7. CASE before # {}
  <2>1. CutWithin(content, at, ideal, hard) = Min(before) + 1
    BY <1>7 DEF CutWithin
  <2>2. Min(before) \in before
    <3> HIDE DEF before
    <3>1. before \in SUBSET Nat
      BY <1>6
    <3>2. PICK m \in before : \A n \in before : m <= n
      BY <1>7, <3>1, LeastNumber
    <3> QED
      BY <3>2 DEF Min
  <2> HIDE DEF before
  <2> QED
    BY <1>2, <1>5, <1>6, <2>1, <2>2
<1>8. CASE before = {} /\ behind # {}
  <2>1. CutWithin(content, at, ideal, hard) = Max(behind) + 1
    BY <1>8 DEF CutWithin
  <2>2. Max(behind) \in behind
    <3> HIDE DEF behind
    <3>1. behind \in SUBSET Nat /\ \A n \in behind : n <= hard
      BY <1>4, <1>6
    <3> QED
      BY <1>4, <1>8, <3>1, MaxOfBounded
  <2> HIDE DEF behind
  <2> QED
    BY <1>2, <1>5, <1>6, <2>1, <2>2
<1>9. CASE before = {} /\ behind = {}
  <2>1. CutWithin(content, at, ideal, hard) = hard
    BY <1>4, <1>9 DEF CutWithin, Larger
  <2> QED
    BY <1>2, <1>4, <2>1
<1> QED
  BY <1>7, <1>8, <1>9

-----------------------------------------------------------------------------
ConfigRecords == [target : Nat, cap : Nat, overlap : Nat, threshold : Nat]

LegalConfig(c) == c \in ConfigRecords /\ c.cap >= CharBytes

ChunkRecords == [start : Nat, end : Nat, text : ByteStrings, tokens : Nat]

BodyRecords ==
    [start : Nat, end : Nat, at : Nat, config : ConfigRecords, depth : Nat, prefix : ByteStrings]

\* A body that is cut between characters, up to a character.
LegalBody(content, b) ==
    /\ b \in BodyRecords /\ LegalConfig(b.config)
    /\ b.start < b.end /\ b.start <= b.at /\ b.at <= b.end /\ b.end <= Len(content)
    /\ IsCharBoundary(content, b.start)
    /\ IsCharBoundary(content, b.at)
    /\ IsCharBoundary(content, b.end)

\* A chunk of the document, of its own bytes behind what helps to find it.
OwnChunk(content, chunk) ==
    /\ chunk \in ChunkRecords /\ IsCharBoundary(content, chunk.start)
    /\ chunk.start < chunk.end /\ chunk.end <= Len(content)
    /\ EndsWith(chunk.text, Bytes(content, chunk.start, chunk.end))

\* The chunks so far tile the document up to offset p.
TilesUpTo(p) ==
    /\ safe \in Seq(ChunkRecords)
    /\ IF safe = << >> THEN p = 0 ELSE safe[1].start = 0 /\ safe[Len(safe)].end = p
    /\ \A k \in 1 .. Len(safe) :
          /\ OwnChunk(document.content, safe[k])
          /\ k > 1 => safe[k].start = safe[k - 1].end

Boundaries ==
    /\ boundaries \in Seq(Nat) /\ boundaries # << >> /\ boundaries[1] = 0
    /\ \A k \in 1 .. Len(boundaries) :
          /\ IsCharBoundary(document.content, boundaries[k])
          /\ k > 1 => boundaries[k - 1] < boundaries[k]

\* Each body but the outermost is the last chunk of the one around it.
Bodies ==
    /\ bodies \in Seq(BodyRecords) /\ bodies # << >>
    /\ bodies[1].end = boundaries[tile]
    /\ \A k \in 1 .. Len(bodies) :
          /\ LegalBody(document.content, bodies[k])
          /\ k > 1 => bodies[k].end = bodies[k - 1].at

ChunkTypeOK ==
    /\ chunking \in {"idle", "items", "tiles", "lines", "done"}
    /\ span \in Nat \ {0} /\ tile \in Nat \ {0} /\ header \in ByteStrings
    /\ chunking # "idle" => document \in Documents /\ config \in Configs

ChunkInv ==
    /\ ChunkTypeOK
    /\ chunking \in {"idle", "items"} => tile = 1 /\ safe = << >>
    /\ chunking = "idle" => boundaries = <<0>>
    /\ chunking \in {"items", "tiles", "lines"} => document.content # << >> /\ Boundaries
    /\ chunking \in {"tiles", "lines"} =>
          tile <= Len(boundaries) /\ boundaries[Len(boundaries)] = Len(document.content)
    /\ chunking = "tiles" => TilesUpTo(boundaries[tile])
    /\ chunking = "lines" => Bodies /\ TilesUpTo(bodies[Len(bodies)].at)
    /\ ChunksTile

-----------------------------------------------------------------------------
LEMMA Concatenated ==
    ASSUME NEW s \in ByteStrings, NEW t \in ByteStrings
    PROVE  s \o t \in ByteStrings /\ EndsWith(s \o t, t)
<1> DEFINE S == Characters \cup {Newline, LeadByte, Continuation}
           m == Len(s)
           n == Len(t)
<1>1. s \in Seq(S) /\ t \in Seq(S) /\ m \in Nat /\ n \in Nat
  BY LenProperties DEF ByteStrings
<1>2. s \o t \in Seq(S) /\ Len(s \o t) = m + n
  BY <1>1, ConcatProperties
<1>3. SubSeq(s \o t, m + n - n + 1, m + n) = t
  <2>1. CASE n = 0
    <3>1. m + n - n + 1 \in Int /\ m + n \in Int /\ m + n < m + n - n + 1
      BY <1>1, <2>1
    <3>2. SubSeq(s \o t, m + n - n + 1, m + n) = << >>
      BY <3>1, SubSeqEmpty
    <3>3. t = << >>
      BY <1>1, <2>1, EmptySeq
    <3> QED
      BY <3>2, <3>3
  <2>2. CASE n # 0
    <3> HIDE DEF S
    <3>1. m + 1 \in m + 1 .. m + n /\ m + n \in m + 1 .. m + n
      BY <1>1, <2>2
    <3>2. SubSeq(s \o t, m + 1, m + n) = SubSeq(t, m + 1 - m, m + n - m)
      BY <1>1, <3>1, SubSeqOfConcat2
    <3>3. m + 1 - m = 1 /\ m + n - m = n /\ m + n - n + 1 = m + 1
      BY <1>1
    <3>4. SubSeq(t, 1, n) = t
      BY <1>1, SubSeqFull
    <3> QED
      BY <3>2, <3>3, <3>4
  <2> QED
    BY <2>1, <2>2
<1>4. n <= m + n
  BY <1>1
<1> QED
  BY <1>1, <1>2, <1>3, <1>4 DEF EndsWith, ByteStrings

LEMMA StillEndsWith ==
    ASSUME NEW s \in ByteStrings, NEW t \in ByteStrings, NEW own \in ByteStrings, EndsWith(t, own)
    PROVE  EndsWith(s \o t, own)
<1> DEFINE S == Characters \cup {Newline, LeadByte, Continuation}
           m == Len(s)
           n == Len(t)
           o == Len(own)
<1>1. s \in Seq(S) /\ t \in Seq(S) /\ own \in Seq(S) /\ m \in Nat /\ n \in Nat /\ o \in Nat
  BY LenProperties DEF ByteStrings
<1>2. o <= n /\ SubSeq(t, n - o + 1, n) = own
  BY DEF EndsWith
<1>3. Len(s \o t) = m + n
  BY <1>1, ConcatProperties
<1> HIDE DEF S
<1>4. SubSeq(s \o t, m + n - o + 1, m + n) = own
  <2>1. CASE o = 0
    <3>1. m + n - o + 1 \in Int /\ m + n \in Int /\ m + n < m + n - o + 1
      BY <1>1, <2>1
    <3> QED
      BY <1>1, <2>1, <3>1, SubSeqEmpty, EmptySeq
  <2>2. CASE o # 0
    <3>1. m + n - o + 1 \in m + 1 .. m + n /\ m + n \in m + 1 .. m + n
      BY <1>1, <1>2, <2>2
    <3>2. SubSeq(s \o t, m + n - o + 1, m + n) = SubSeq(t, m + n - o + 1 - m, m + n - m)
      BY <1>1, <3>1, SubSeqOfConcat2
    <3>3. m + n - o + 1 - m = n - o + 1 /\ m + n - m = n
      BY <1>1
    <3> QED
      BY <1>2, <3>2, <3>3
  <2> QED
    BY <2>1, <2>2
<1>5. o <= m + n
  BY <1>1, <1>2
<1> QED
  BY <1>3, <1>4, <1>5 DEF EndsWith

LEMMA OverlapIsText ==
    ASSUME NEW text \in ByteStrings, WellFormed(text), NEW overlap \in Nat
    PROVE  LineOverlap(text, overlap) \in ByteStrings
<1> DEFINE S == Characters \cup {Newline, LeadByte, Continuation}
           edge == FloorCharBoundary(text, Less(Len(text), overlap))
           from == OverlapFrom(text, edge, overlap)
<1>1. << >> \in ByteStrings
  BY EmptySeq DEF ByteStrings
<1>2. Len(text) \in Nat /\ Less(Len(text), overlap) \in Nat
  BY LenProperties DEF ByteStrings, Less
<1>3. edge \in Nat /\ edge <= Len(text)
  BY <1>2, FloorIsBoundary
<1> HIDE DEF edge
<1>4. from \in Nat /\ from <= Len(text)
  <2> DEFINE T == {0} \cup {i + 1 : i \in Breaks(text, 0, edge)}
  <2>1. T \in SUBSET Nat /\ T # {} /\ \A j \in T : j <= Len(text)
    BY <1>2, <1>3 DEF Breaks
  <2>2. Max(T) \in Nat /\ Max(T) <= Len(text)
    <3> HIDE DEF T
    <3> QED
      BY <1>2, <2>1, MaxOfBounded
  <2>3. Less(edge, overlap) \in Nat
    BY <1>3 DEF Less
  <2>4. FloorCharBoundary(text, Less(edge, overlap)) \in Nat
        /\ FloorCharBoundary(text, Less(edge, overlap)) <= Len(text)
    BY <2>3, FloorIsBoundary
  <2> QED
    BY <2>2, <2>4 DEF OverlapFrom, Larger, AfterBreak
<1> HIDE DEF from
<1>5. Bytes(text, from, Len(text)) \in ByteStrings
  BY <1>2, <1>4, SomeBytes
<1>6. FullLines(Bytes(text, from, Len(text))) \in ByteStrings
  <2>1. Newline \in S
    OBVIOUS
  <2>2. Append(Bytes(text, from, Len(text)), Newline) \in Seq(S)
    BY <1>5, <2>1, AppendProperties DEF ByteStrings
  <2> QED
    BY <1>5, <2>2 DEF FullLines, ByteStrings
<1> QED
  BY <1>1, <1>6 DEF LineOverlap, edge, from

LEMMA SizedChunk ==
    ASSUME NEW a, NEW b, NEW text \in ByteStrings
    PROVE  /\ Sized(a, b, text).start = a /\ Sized(a, b, text).end = b
           /\ Sized(a, b, text).text = text /\ Sized(a, b, text).tokens \in Nat
           /\ a \in Nat /\ b \in Nat => Sized(a, b, text) \in ChunkRecords
<1>1. DOMAIN text = 1 .. Len(text) /\ Len(text) \in Nat
  BY LenProperties DEF ByteStrings
<1>2. IsFiniteSet(1 .. Len(text))
  BY <1>1, CountTo
<1>3. {i \in DOMAIN text : text[i] \in Dense} \subseteq 1 .. Len(text)
  BY <1>1
<1>4. IsFiniteSet({i \in DOMAIN text : text[i] \in Dense})
  BY <1>2, <1>3, FS_Subset
<1>5. CountTokens(text) \in Nat
  BY <1>4, FS_CardinalityType DEF CountTokens
<1> QED
  BY <1>5 DEF Sized, ChunkRecords

LEMMA PrefixedText ==
    ASSUME NEW prefix \in ByteStrings, NEW text \in ByteStrings, NEW own \in ByteStrings, EndsWith(text, own)
    PROVE  Prefixed(prefix, text) \in ByteStrings /\ EndsWith(Prefixed(prefix, text), own)
<1> DEFINE S == Characters \cup {Newline, LeadByte, Continuation}
           gap == <<Newline, Newline>>
<1>1. gap \in ByteStrings
  <2>1. gap \in [1 .. 2 -> S] /\ 2 \in Nat
    OBVIOUS
  <2> QED
    BY <2>1, SeqDef DEF ByteStrings
<1> HIDE DEF gap
<1>2. prefix \o gap \in ByteStrings
  BY <1>1, Concatenated
<1>3. (prefix \o gap) \o text \in ByteStrings /\ EndsWith((prefix \o gap) \o text, own)
  BY <1>2, Concatenated, StillEndsWith
<1>4. CASE prefix = << >>
  BY <1>4 DEF Prefixed
<1>5. CASE prefix # << >>
  BY <1>3, <1>5 DEF Prefixed, gap
<1> QED
  BY <1>4, <1>5

LEMMA DocumentFacts ==
    ASSUME document \in Documents
    PROVE  /\ document.content \in ByteStrings /\ WellFormed(document.content)
           /\ document.spans \in Seq(ItemSpans(document.content))
           /\ Len(document.content) \in Nat
BY ChunkingAssumption, LenProperties DEF ByteStrings

LEMMA CutOfBody ==
    ASSUME NEW text \in ByteStrings, WellFormed(text), NEW at \in Nat, at < Len(text), IsCharBoundary(text, at),
           NEW c, LegalConfig(c)
    PROVE  /\ Cut(text, at, c) \in Nat /\ at < Cut(text, at, c) /\ Cut(text, at, c) <= Len(text)
           /\ IsCharBoundary(text, Cut(text, at, c)) /\ OverlapOf(c) \in Nat
<1>1. Len(text) \in Nat
  BY LenProperties DEF ByteStrings
<1>2. /\ Target(c) \in Nat \ {0} /\ Cap(c) \in Nat /\ Target(c) <= Cap(c) /\ CharBytes <= Cap(c)
      /\ OverlapOf(c) \in Nat
  BY ChunkingAssumption DEF LegalConfig, ConfigRecords, Target, Cap, OverlapOf, Larger, Smaller
<1>3. CASE Len(text) - at <= Cap(c)
  BY <1>1, <1>2, <1>3 DEF Cut, IsCharBoundary
<1>4. CASE Len(text) - at > Cap(c)
  <2>1. Cut(text, at, c) = CutAfter(text, at, Target(c), Cap(c))
    BY <1>1, <1>2, <1>4 DEF Cut
  <2> QED
    BY <1>2, <1>4, <2>1, CutIsBoundary
<1> QED
  BY <1>1, <1>2, <1>3, <1>4

(* The next chunk of a body goes from where it is cut to a character       *)
(* further on, and ends with its own bytes.                                *)
LEMMA NextIsOwn ==
    ASSUME document \in Documents, NEW b, LegalBody(document.content, b), b.at < b.end
    PROVE  /\ OwnChunk(document.content, NextChunk(b)) /\ NextChunk(b).start = b.at /\ NextChunk(b).end <= b.end
           /\ IsCharBoundary(document.content, NextChunk(b).end)
<1> DEFINE content == document.content
           text == Bytes(content, b.start, b.end)
           at == b.at - b.start
           cut == Cut(text, at, b.config)
           overlap == OverlapOf(b.config)
           before == LineOverlap(Bytes(text, 0, at), overlap)
           rest == Bytes(text, at, cut)
           piece == Piece(text, at, cut, overlap)
           shown == IF at = 0 THEN Prefixed(b.prefix, piece) ELSE piece
           end == b.start + cut
           own == Bytes(content, b.at, end)
<1>1. content \in ByteStrings /\ WellFormed(content) /\ Len(content) \in Nat
  BY DocumentFacts
<1>2. /\ b.start \in Nat /\ b.end \in Nat /\ b.at \in Nat /\ b.prefix \in ByteStrings /\ LegalConfig(b.config)
      /\ b.start < b.end /\ b.start <= b.at /\ b.end <= Len(content)
      /\ IsCharBoundary(content, b.start) /\ IsCharBoundary(content, b.at) /\ IsCharBoundary(content, b.end)
  BY DEF LegalBody, BodyRecords
<1> HIDE DEF content
<1>3. /\ text \in ByteStrings /\ WellFormed(text) /\ Len(text) = b.end - b.start
      /\ \A i \in 1 .. b.end - b.start : text[i] = content[b.start + i]
  <2>1. b.start <= b.end
    BY <1>2
  <2>2. WellFormed(text)
    BY <1>1, <1>2, SliceOfText
  <2> QED
    BY <1>1, <1>2, <2>1, <2>2, SomeBytes
<1> HIDE DEF text
<1>4. at \in Nat /\ at < Len(text) /\ IsCharBoundary(text, at)
  <2>1. at \in Nat /\ at < Len(text) /\ at + 1 \in 1 .. b.end - b.start /\ b.start + (at + 1) = b.at + 1
    BY <1>2, <1>3
  <2>2. text[at + 1] = content[b.at + 1] /\ content[b.at + 1] # Continuation
    BY <1>1, <1>2, <1>3, <2>1 DEF IsCharBoundary
  <2> QED
    BY <1>2, <1>3, <2>1, <2>2 DEF IsCharBoundary
<1> HIDE DEF at
<1>5. cut \in Nat /\ at < cut /\ cut <= Len(text) /\ IsCharBoundary(text, cut) /\ overlap \in Nat
  BY <1>2, <1>3, <1>4, CutOfBody
<1> HIDE DEF cut, overlap
<1>6. end \in Nat /\ b.at < end /\ end <= b.end /\ IsCharBoundary(content, end)
  <2>1. end \in Nat /\ b.at < end /\ end <= b.end
    BY <1>2, <1>3, <1>4, <1>5 DEF at
  <2>2. CASE cut = Len(text)
    BY <1>2, <1>3, <2>2
  <2>3. CASE cut < Len(text)
    <3>1. cut + 1 \in 1 .. b.end - b.start /\ b.start + (cut + 1) = end + 1
      BY <1>2, <1>3, <1>5, <2>3
    <3>2. text[cut + 1] = content[end + 1]
      BY <1>3, <3>1
    <3>3. text[cut + 1] # Continuation
      BY <1>5, <2>3 DEF IsCharBoundary
    <3> QED
      BY <1>1, <1>2, <2>1, <3>2, <3>3 DEF IsCharBoundary
  <2> QED
    BY <1>3, <1>5, <2>2, <2>3, <1>2
<1>7. rest = own
  <2>1. /\ rest \in ByteStrings /\ Len(rest) = cut - at
        /\ \A i \in 1 .. cut - at : rest[i] = text[at + i]
    <3>1. at <= cut
      BY <1>4, <1>5
    <3> QED
      BY <1>3, <1>4, <1>5, <3>1, SomeBytes
  <2>2. /\ own \in ByteStrings /\ Len(own) = end - b.at
        /\ \A i \in 1 .. end - b.at : own[i] = content[b.at + i]
    <3>1. b.at <= end /\ end <= Len(content)
      BY <1>1, <1>2, <1>6
    <3> QED
      BY <1>1, <1>2, <1>6, <3>1, SomeBytes
  <2>3. end - b.at = cut - at
    BY <1>2, <1>5 DEF at
  <2>4. ASSUME NEW i \in 1 .. cut - at PROVE rest[i] = own[i]
    <3>0. cut \in Nat /\ at \in Nat /\ cut <= b.end - b.start /\ b.at = b.start + at
      BY <1>2, <1>3, <1>4, <1>5 DEF at
    <3>1. at + i \in 1 .. b.end - b.start /\ b.start + (at + i) = b.at + i
      <4>1. i \in Nat /\ 1 <= i /\ i <= cut - at
        BY <1>4, <1>5
      <4> QED
        BY <1>2, <3>0, <4>1
    <3>2. text[at + i] = content[b.at + i]
      BY <1>3, <3>1
    <3> QED
      BY <2>1, <2>2, <2>3, <3>2
  <2> HIDE DEF rest, own, end
  <2> QED
    BY <2>1, <2>2, <2>3, <2>4, SeqEqual DEF ByteStrings
<1>8. piece \in ByteStrings /\ EndsWith(piece, own)
  <2>1. rest \in ByteStrings
    <3>1. at <= cut
      BY <1>4, <1>5
    <3> QED
      BY <1>3, <1>4, <1>5, <3>1, SomeBytes
  <2>2. Bytes(text, 0, at) \in ByteStrings /\ Len(Bytes(text, 0, at)) = at
    <3>1. 0 \in Nat /\ 0 <= at /\ at <= Len(text) /\ at - 0 = at
      BY <1>3, <1>4, <1>2
    <3> QED
      BY <1>3, <1>4, <3>1, SomeBytes
  <2>3. WellFormed(Bytes(text, 0, at))
    <3>1. CASE at = 0
      <4>1. DOMAIN Bytes(text, 0, at) = 1 .. 0
        BY <2>2, <3>1, LenProperties DEF ByteStrings
      <4> QED
        BY <4>1 DEF WellFormed
    <3>2. CASE at # 0
      <4>1. 0 \in Nat /\ 0 < at /\ at <= Len(text)
        BY <1>2, <1>3, <1>4, <3>2
      <4>2. IsCharBoundary(text, 0)
        <5>1. Len(text) \in Nat /\ 0 < Len(text) /\ text[1] = content[b.start + 1]
          BY <1>2, <1>3
        <5>2. content[b.start + 1] # Continuation
          BY <1>1, <1>2 DEF IsCharBoundary
        <5> QED
          BY <5>1, <5>2 DEF IsCharBoundary
      <4> QED
        BY <1>3, <1>4, <4>1, <4>2, SliceOfText
    <3> QED
      BY <3>1, <3>2
  <2>4. before \in ByteStrings
    BY <1>5, <2>2, <2>3, OverlapIsText
  <2>5. piece = before \o rest
    BY DEF Piece
  <2> HIDE DEF before, rest, piece
  <2> QED
    BY <1>7, <2>1, <2>4, <2>5, Concatenated
<1>9. own \in ByteStrings
  <2>1. b.at <= end /\ end <= Len(content)
    BY <1>1, <1>2, <1>6
  <2> QED
    BY <1>1, <1>2, <1>6, <2>1, SomeBytes
<1>10. shown \in ByteStrings /\ EndsWith(shown, own)
  <2> HIDE DEF piece, own
  <2> QED
    BY <1>2, <1>8, <1>9, PrefixedText
<1>11. NextChunk(b) = Sized(b.at, end, shown)
  BY DEF NextChunk, content, text, at, cut, overlap
<1> HIDE DEF shown, end
<1> QED
  BY <1>2, <1>6, <1>10, <1>11, SizedChunk DEF OwnChunk, content

(* One more chunk, from the last offset to a later one.                    *)
LEMMA TilesGrow ==
    ASSUME NEW p \in Nat, TilesUpTo(p), NEW chunk, OwnChunk(document.content, chunk), chunk.start = p,
           safe' = Append(safe, chunk), document' = document
    PROVE  TilesUpTo(chunk.end)'
<1> DEFINE n == Len(safe)
<1>1. safe \in Seq(ChunkRecords) /\ n \in Nat /\ chunk \in ChunkRecords
  BY LenProperties DEF TilesUpTo, OwnChunk
<1>2. /\ safe' \in Seq(ChunkRecords) /\ safe' # << >> /\ Len(safe') = n + 1
      /\ \A i \in 1 .. n : safe'[i] = safe[i]
      /\ safe'[n + 1] = chunk
  BY <1>1, AppendProperties
<1>3. safe'[1].start = 0
  <2>1. CASE safe = << >>
    <3>1. n = 0 /\ p = 0
      BY <2>1, <1>1, EmptySeq DEF TilesUpTo
    <3> QED
      BY <1>2, <3>1
  <2>2. CASE safe # << >>
    <3>1. 1 \in 1 .. n /\ safe[1].start = 0
      BY <1>1, <2>2, EmptySeq DEF TilesUpTo
    <3> QED
      BY <1>2, <3>1
  <2> QED
    BY <2>1, <2>2
<1>4. ASSUME NEW k \in 1 .. n + 1
      PROVE  OwnChunk(document.content, safe'[k]) /\ (k > 1 => safe'[k].start = safe'[k - 1].end)
  <2>1. CASE k <= n
    <3>1. k \in 1 .. n /\ (k > 1 => k - 1 \in 1 .. n)
      BY <1>1, <2>1
    <3>2. OwnChunk(document.content, safe[k]) /\ (k > 1 => safe[k].start = safe[k - 1].end)
      BY <3>1 DEF TilesUpTo
    <3> QED
      BY <1>2, <3>1, <3>2 DEF OwnChunk
  <2>2. CASE k = n + 1
    <3>1. k > 1 => safe # << >> /\ k - 1 = n /\ n \in 1 .. n
      BY <1>1, <2>2, EmptySeq
    <3>2. k > 1 => safe[n].end = p
      BY <3>1 DEF TilesUpTo
    <3> QED
      BY <1>2, <2>2, <3>1, <3>2 DEF OwnChunk
  <2> QED
    BY <1>1, <2>1, <2>2
<1> QED
  BY <1>2, <1>3, <1>4 DEF TilesUpTo

LEMMA ChunkInit_ChunkInv == ChunkInit => ChunkInv
<1> SUFFICES ASSUME ChunkInit PROVE ChunkInv
  OBVIOUS
<1>1. << >> \in ByteStrings
  BY EmptySeq DEF ByteStrings
<1> QED
  BY <1>1 DEF ChunkInit, ChunkInv, ChunkTypeOK, ChunksTile

LEMMA ChunkDocument_ChunkInv ==
    ASSUME ChunkInv, ChunkDocument
    PROVE  ChunkInv'
<1>1. chunking = "idle" /\ ChunkTypeOK /\ tile = 1 /\ safe = << >> /\ boundaries = <<0>>
  BY DEF ChunkInv, ChunkDocument
<1>2. PICK d \in Documents, c \in Configs : ShipWhole(d, c) \/ OpenDocument(d, c)
  BY DEF ChunkDocument
<1>3. d.content \in ByteStrings /\ WellFormed(d.content) /\ Len(d.content) \in Nat
  BY ChunkingAssumption, LenProperties DEF ByteStrings
<1>4. IsCharBoundary(d.content, 0) /\ IsCharBoundary(d.content, Len(d.content))
  <2>1. DOMAIN d.content = 1 .. Len(d.content)
    BY <1>3, LenProperties DEF ByteStrings
  <2>2. ASSUME 0 < Len(d.content) PROVE d.content[1] # Continuation
    <3>1. 1 \in DOMAIN d.content
      BY <1>3, <2>1, <2>2
    <3>2. PICK j \in 1 .. 1 : d.content[j] # Continuation
      BY <1>3, <3>1 DEF WellFormed
    <3>3. j = 1
      OBVIOUS
    <3> QED
      BY <3>2, <3>3
  <2> QED
    BY <1>3, <2>2 DEF IsCharBoundary
<1>5. << >> \in ByteStrings /\ <<0>> \in Seq(Nat) /\ <<0>> # << >> /\ Len(<<0>>) = 1 /\ <<0>>[1] = 0
  BY EmptySeq DEF ByteStrings
<1>6. CASE ShipWhole(d, c)
  <2> DEFINE chunk == [start |-> 0, end |-> Len(d.content), text |-> d.content,
                       tokens |-> Len(d.content) \div 3, index |-> 0, total |-> 1, outline |-> d.outline]
  <2>1. chunks' = <<chunk>> /\ document' = d /\ config' = c /\ chunking' = "done"
        /\ UNCHANGED <<boundaries, span, tile, header, bodies, safe>>
    BY <1>6 DEF ShipWhole
  <2>2. chunk.start = 0 /\ chunk.end = Len(d.content) /\ chunk.text = d.content
    OBVIOUS
  <2>3. EndsWith(d.content, Bytes(d.content, 0, Len(d.content)))
    <3>1. SubSeq(d.content, 1, Len(d.content)) = d.content
      BY <1>3, SubSeqFull DEF ByteStrings
    <3>2. Bytes(d.content, 0, Len(d.content)) = d.content
      BY <3>1 DEF Bytes
    <3>3. Len(d.content) - Len(d.content) + 1 = 1 /\ Len(d.content) <= Len(d.content)
      BY <1>3
    <3> QED
      BY <3>1, <3>2, <3>3 DEF EndsWith
  <2> HIDE DEF chunk
  <2>4. chunks' # << >> /\ chunks'[1] = chunk /\ DOMAIN chunks' = {1} /\ Len(chunks') = 1
    <3>1. Len(<<chunk>>) = 1 /\ DOMAIN <<chunk>> = 1 .. 1 /\ <<chunk>>[1] = chunk /\ <<chunk>> # << >>
      OBVIOUS
    <3>2. 1 .. 1 = {1}
      OBVIOUS
    <3> QED
      BY <2>1, <3>1, <3>2
  <2>5. ChunksTile'
    BY <1>4, <2>1, <2>2, <2>3, <2>4 DEF ChunksTile, Last
  <2> QED
    BY <1>1, <2>1, <2>5 DEF ChunkInv, ChunkTypeOK
<1>7. CASE OpenDocument(d, c)
  <2>1. document' = d /\ config' = c /\ UNCHANGED <<span, header, safe, chunks, named>>
    BY <1>7 DEF OpenDocument
  <2>2. d.content # << >> /\ 0 < Len(d.content)
    <3>1. c.threshold \in Nat /\ Len(d.content) \div 3 > c.threshold
      BY <1>7, ChunkingAssumption DEF OpenDocument
    <3>2. ASSUME Len(d.content) = 0 PROVE FALSE
      <4>1. 0 \div 3 = 0
        OBVIOUS
      <4> QED
        BY <3>1, <3>2, <4>1
    <3> QED
      BY <1>3, <3>2, EmptySeq DEF ByteStrings
  <2>3. CASE d.spans # << >>
    <3>1. chunking' = "items" /\ UNCHANGED <<boundaries, tile, bodies>>
      BY <1>7, <2>3 DEF OpenDocument
    <3>2. Boundaries'
      BY <1>1, <1>4, <1>5, <2>1, <3>1 DEF Boundaries
    <3> QED
      BY <1>1, <2>1, <2>2, <3>1, <3>2 DEF ChunkInv, ChunkTypeOK, ChunksTile
  <2>4. CASE d.spans = << >>
    <3> DEFINE n == Len(d.content)
               body == OpenBody(0, n, c, 0, << >>)
    <3>1. chunking' = "lines" /\ tile' = 2 /\ boundaries' = <<0, n>> /\ bodies' = <<body>>
      BY <1>7, <2>4 DEF OpenDocument
    <3>2. <<0, n>> \in Seq(Nat) /\ <<0, n>> # << >> /\ Len(<<0, n>>) = 2 /\ <<0, n>>[1] = 0 /\ <<0, n>>[2] = n
      BY <1>3
    <3>3. Boundaries'
      <4>1. \A k \in 1 .. 2 : k = 1 \/ k = 2
        OBVIOUS
      <4> QED
        BY <1>4, <2>1, <2>2, <3>1, <3>2, <4>1 DEF Boundaries
    <3>4. body \in BodyRecords /\ LegalConfig(body.config) /\ body.start = 0 /\ body.end = n /\ body.at = 0
      BY <1>3, <1>5, ChunkingAssumption DEF OpenBody, BodyRecords, LegalConfig, ConfigRecords
    <3>5. LegalBody(d.content, body)
      BY <1>3, <1>4, <2>2, <3>4 DEF LegalBody
    <3> HIDE DEF body
    <3>6. <<body>> \in Seq(BodyRecords) /\ <<body>> # << >> /\ Len(<<body>>) = 1 /\ <<body>>[1] = body
      BY <3>4
    <3>7. Bodies'
      <4>1. \A k \in 1 .. 1 : k = 1
        OBVIOUS
      <4> QED
        BY <2>1, <3>1, <3>2, <3>4, <3>5, <3>6, <4>1 DEF Bodies
    <3>8. (TilesUpTo(bodies[Len(bodies)].at))'
      <4>1. safe' = << >> /\ Len(safe') = 0 /\ safe' \in Seq(ChunkRecords)
        BY <1>1, <2>1, EmptySeq
      <4>2. \A k \in 1 .. 0 : FALSE
        OBVIOUS
      <4> QED
        BY <3>1, <3>4, <3>6, <4>1, <4>2 DEF TilesUpTo
    <3> QED
      BY <1>1, <2>1, <2>2, <3>1, <3>2, <3>3, <3>7, <3>8 DEF ChunkInv, ChunkTypeOK, ChunksTile
  <2> QED
    BY <2>3, <2>4
<1> QED
  BY <1>2, <1>6, <1>7

LEMMA ExamineItem_ChunkInv ==
    ASSUME ChunkInv, ExamineItem
    PROVE  ChunkInv'
<1> DEFINE item == document.spans[span]
           m == Len(boundaries)
<1>1. /\ chunking = "items" /\ ChunkTypeOK /\ Boundaries /\ document.content # << >>
      /\ UNCHANGED <<chunking, document, config, tile, header, bodies, safe, chunks, named>>
      /\ span' = span + 1 /\ tile = 1 /\ safe = << >>
  BY DEF ChunkInv, ExamineItem
<1>2. \/ boundaries' = boundaries
      \/ boundaries' = Append(boundaries, item.start) /\ item.start > boundaries[m]
  BY DEF ExamineItem, Last
<1>3. item \in ItemSpans(document.content)
  <2>1. document \in Documents /\ span \in Nat \ {0} /\ span <= Len(document.spans)
    BY <1>1 DEF ChunkTypeOK, ExamineItem
  <2>2. span \in 1 .. Len(document.spans)
    BY <2>1, DocumentFacts, LenProperties
  <2> QED
    BY <2>1, <2>2, DocumentFacts, ElementOfSeq
<1>4. item.start \in Nat /\ IsCharBoundary(document.content, item.start)
  <2>1. document \in Documents
    BY <1>1 DEF ChunkTypeOK
  <2> QED
    BY <1>3, <2>1, DocumentFacts DEF ItemSpans
<1>5. Boundaries'
  <2>1. CASE boundaries' = boundaries
    BY <1>1, <2>1 DEF Boundaries
  <2>2. CASE boundaries' = Append(boundaries, item.start) /\ item.start > boundaries[m]
    <3> HIDE DEF item
    <3>1. boundaries \in Seq(Nat) /\ boundaries # << >> /\ m \in Nat /\ m >= 1 /\ boundaries[1] = 0
      BY <1>1, EmptySeq, LenProperties DEF Boundaries
    <3>2. /\ boundaries' \in Seq(Nat) /\ boundaries' # << >> /\ Len(boundaries') = m + 1
          /\ \A i \in 1 .. m : boundaries'[i] = boundaries[i]
          /\ boundaries'[m + 1] = item.start
      BY <1>4, <2>2, <3>1, AppendProperties
    <3>3. boundaries'[1] = 0
      BY <3>1, <3>2
    <3>4. ASSUME NEW k \in 1 .. m + 1
          PROVE  IsCharBoundary(document.content, boundaries'[k]) /\ (k > 1 => boundaries'[k - 1] < boundaries'[k])
      <4>1. CASE k <= m
        <5>1. k \in 1 .. m /\ (k > 1 => k - 1 \in 1 .. m)
          BY <3>1, <4>1
        <5> QED
          BY <1>1, <3>2, <5>1 DEF Boundaries
      <4>2. CASE k = m + 1
        <5>1. k - 1 = m /\ m \in 1 .. m
          BY <3>1, <4>2
        <5>2. boundaries[m] < item.start
          BY <1>4, <2>2, <3>1, <5>1, ElementOfSeq
        <5> QED
          BY <1>4, <3>2, <4>2, <5>1, <5>2
      <4> QED
        BY <3>1, <4>1, <4>2
    <3> QED
      BY <1>1, <3>2, <3>3, <3>4 DEF Boundaries
  <2> QED
    BY <1>2, <2>1, <2>2
<1> QED
  BY <1>1, <1>5 DEF ChunkInv, ChunkTypeOK, ChunksTile

LEMMA CloseBoundaries_ChunkInv ==
    ASSUME ChunkInv, CloseBoundaries
    PROVE  ChunkInv'
<1> DEFINE n == Len(document.content)
           m == Len(boundaries)
<1>1. /\ chunking = "items" /\ chunking' = "tiles" /\ ChunkTypeOK /\ Boundaries /\ document.content # << >>
      /\ UNCHANGED <<document, config, tile, header, bodies, safe, chunks, named>>
      /\ span' = 1 /\ tile = 1 /\ safe = << >>
  BY DEF ChunkInv, CloseBoundaries
<1>2. \/ boundaries' = boundaries /\ boundaries[m] = n
      \/ boundaries' = Append(boundaries, n) /\ boundaries[m] # n
  BY DEF CloseBoundaries, Last
<1>3. boundaries \in Seq(Nat) /\ boundaries # << >> /\ m \in Nat /\ m >= 1 /\ boundaries[1] = 0
  BY <1>1, EmptySeq, LenProperties DEF Boundaries
<1>4. n \in Nat /\ IsCharBoundary(document.content, n)
  <2>1. n \in Nat
    BY <1>1, DocumentFacts DEF ChunkTypeOK
  <2> QED
    BY <2>1 DEF IsCharBoundary
<1>5. Boundaries' /\ boundaries'[1] = 0 /\ Len(boundaries') >= 1 /\ boundaries'[Len(boundaries')] = n
  <2>1. CASE boundaries' = boundaries /\ boundaries[m] = n
    BY <1>1, <1>3, <2>1 DEF Boundaries
  <2>2. CASE boundaries' = Append(boundaries, n) /\ boundaries[m] # n
    <3>1. boundaries[m] \in Nat /\ boundaries[m] < n
      <4>1. m \in 1 .. m
        BY <1>3
      <4>2. IsCharBoundary(document.content, boundaries[m])
        BY <1>1, <4>1 DEF Boundaries
      <4> QED
        BY <1>4, <2>2, <4>2 DEF IsCharBoundary
    <3>2. /\ boundaries' \in Seq(Nat) /\ boundaries' # << >> /\ Len(boundaries') = m + 1
          /\ \A i \in 1 .. m : boundaries'[i] = boundaries[i]
          /\ boundaries'[m + 1] = n
      BY <1>3, <1>4, <2>2, AppendProperties
    <3>3. boundaries'[1] = 0
      BY <1>3, <3>2
    <3>4. ASSUME NEW k \in 1 .. m + 1
          PROVE  IsCharBoundary(document.content, boundaries'[k]) /\ (k > 1 => boundaries'[k - 1] < boundaries'[k])
      <4>1. CASE k <= m
        <5>1. k \in 1 .. m /\ (k > 1 => k - 1 \in 1 .. m)
          BY <1>3, <4>1
        <5> QED
          BY <1>1, <3>2, <5>1 DEF Boundaries
      <4>2. CASE k = m + 1
        <5>1. k - 1 = m /\ m \in 1 .. m
          BY <1>3, <4>2
        <5> QED
          BY <1>4, <3>1, <3>2, <4>2, <5>1
      <4> QED
        BY <1>3, <4>1, <4>2
    <3> QED
      BY <1>1, <1>3, <3>2, <3>3, <3>4 DEF Boundaries
  <2> QED
    BY <1>2, <2>1, <2>2
<1>6. (TilesUpTo(boundaries[tile]))'
  <2>1. safe' = << >> /\ Len(safe') = 0 /\ safe' \in Seq(ChunkRecords)
    BY <1>1, EmptySeq
  <2>2. \A k \in 1 .. 0 : FALSE
    OBVIOUS
  <2> QED
    BY <1>1, <1>5, <2>1, <2>2 DEF TilesUpTo
<1>7. tile' <= Len(boundaries')
  BY <1>1, <1>5
<1> QED
  BY <1>1, <1>5, <1>6, <1>7 DEF ChunkInv, ChunkTypeOK, ChunksTile

(* Where the tile the loop is at begins and ends.                          *)
LEMMA TileEnds ==
    ASSUME ChunkTypeOK, chunking # "idle", Boundaries, tile < Len(boundaries)
    PROVE  /\ boundaries[tile] \in Nat /\ boundaries[tile + 1] \in Nat
           /\ boundaries[tile] < boundaries[tile + 1]
           /\ boundaries[tile + 1] <= Len(document.content)
           /\ IsCharBoundary(document.content, boundaries[tile])
           /\ IsCharBoundary(document.content, boundaries[tile + 1])
           /\ tile + 1 \in Nat \ {0} /\ tile + 1 <= Len(boundaries)
<1>1. boundaries \in Seq(Nat) /\ Len(boundaries) \in Nat /\ tile \in Nat \ {0}
  BY LenProperties DEF Boundaries, ChunkTypeOK
<1>2. tile \in 1 .. Len(boundaries) /\ tile + 1 \in 1 .. Len(boundaries) /\ tile + 1 > 1 /\ (tile + 1) - 1 = tile
  BY <1>1
<1>3. Len(document.content) \in Nat
  BY DocumentFacts DEF ChunkTypeOK
<1>4. /\ IsCharBoundary(document.content, boundaries[tile])
      /\ IsCharBoundary(document.content, boundaries[tile + 1])
      /\ boundaries[tile] < boundaries[tile + 1]
  <2>1. /\ IsCharBoundary(document.content, boundaries[tile + 1])
        /\ boundaries[(tile + 1) - 1] < boundaries[tile + 1]
    BY <1>2 DEF Boundaries
  <2> QED
    BY <1>2, <2>1 DEF Boundaries
<1> QED
  BY <1>1, <1>2, <1>3, <1>4 DEF IsCharBoundary

LEMMA SingleByte ==
    /\ <<Newline>> \in ByteStrings /\ << >> \in ByteStrings
<1> DEFINE S == Characters \cup {Newline, LeadByte, Continuation}
<1>1. <<Newline>> \in [1 .. 1 -> S] /\ 1 \in Nat
  OBVIOUS
<1> QED
  BY <1>1, SeqDef, EmptySeq DEF ByteStrings

LEMMA AddToHeader_ChunkInv ==
    ASSUME ChunkInv, AddToHeader
    PROVE  ChunkInv'
<1> DEFINE item == document.spans[span]
           n == Len(document.spans)
<1>1. /\ chunking = "tiles" /\ ChunkTypeOK
      /\ UNCHANGED <<chunking, document, config, boundaries, tile, bodies, safe, chunks, named>>
  BY DEF ChunkInv, AddToHeader
<1>2. document \in Documents /\ span \in Nat \ {0} /\ span <= n /\ header \in ByteStrings
  BY <1>1 DEF ChunkTypeOK, AddToHeader
<1>3. n \in Nat /\ span \in 1 .. n
  BY <1>2, DocumentFacts, LenProperties
<1>4. item \in ItemSpans(document.content)
  BY <1>2, <1>3, DocumentFacts, ElementOfSeq
<1>5. item.header \in ByteStrings
  BY <1>4 DEF ItemSpans
<1>6. header' \in {header, item.header, header \o <<Newline>> \o item.header}
      /\ span' \in {n + 1, span + 1}
  BY DEF AddToHeader
<1> HIDE DEF item
<1>7. header' \in ByteStrings /\ span' \in Nat \ {0}
  <2>1. header \o <<Newline>> \in ByteStrings
    BY <1>2, SingleByte, Concatenated
  <2>2. header \o <<Newline>> \o item.header \in ByteStrings
    BY <1>5, <2>1, Concatenated
  <2> QED
    <3>1. header' \in ByteStrings
      BY <1>2, <1>5, <1>6, <2>2
    <3>2. n + 1 \in Nat \ {0} /\ span + 1 \in Nat \ {0}
      BY <1>2, <1>3
    <3> QED
      BY <1>6, <3>1, <3>2
<1> QED
  BY <1>1, <1>7 DEF ChunkInv, ChunkTypeOK, ChunksTile, Boundaries, TilesUpTo

LEMMA CloseTile_ChunkInv ==
    ASSUME ChunkInv, CloseTile
    PROVE  ChunkInv'
<1> DEFINE a == boundaries[tile]
           b == boundaries[tile + 1]
           own == Bytes(document.content, a, b)
           chunk == Sized(a, b, Prefixed(header, own))
           body == OpenBody(a, b, config, 0, header)
<1>1. /\ chunking = "tiles" /\ ChunkTypeOK /\ Boundaries /\ document.content # << >> /\ TilesUpTo(a)
      /\ tile < Len(boundaries) /\ boundaries[Len(boundaries)] = Len(document.content)
      /\ UNCHANGED <<document, config, boundaries, chunks, named>>
      /\ tile' = tile + 1 /\ span' = 1 /\ header' = << >>
  BY DEF ChunkInv, CloseTile
<1>2. \/ safe' = Append(safe, chunk) /\ UNCHANGED <<chunking, bodies>>
      \/ chunking' = "lines" /\ bodies' = <<body>> /\ UNCHANGED safe
  BY DEF CloseTile
<1>3. document \in Documents /\ config \in Configs /\ header \in ByteStrings
  BY <1>1 DEF ChunkTypeOK
<1>4. document.content \in ByteStrings /\ Len(document.content) \in Nat
  BY <1>3, DocumentFacts
<1>5. /\ a \in Nat /\ b \in Nat /\ a < b /\ b <= Len(document.content)
      /\ IsCharBoundary(document.content, a) /\ IsCharBoundary(document.content, b)
      /\ tile + 1 \in Nat \ {0} /\ tile + 1 <= Len(boundaries)
  BY <1>1, TileEnds
<1>6. own \in ByteStrings
  <2>1. a <= b
    BY <1>5
  <2> QED
    BY <1>4, <1>5, <2>1, SomeBytes
<1>7. CASE safe' = Append(safe, chunk) /\ UNCHANGED <<chunking, bodies>>
  <2>1. EndsWith(own, own)
    <3>1. Len(own) \in Nat /\ SubSeq(own, 1, Len(own)) = own
      BY <1>6, SubSeqFull, LenProperties DEF ByteStrings
    <3>2. Len(own) - Len(own) + 1 = 1 /\ Len(own) <= Len(own)
      BY <3>1
    <3> QED
      BY <3>1, <3>2 DEF EndsWith
  <2>2. Prefixed(header, own) \in ByteStrings /\ EndsWith(Prefixed(header, own), own)
    BY <1>3, <1>6, <2>1, PrefixedText
  <2>3. OwnChunk(document.content, chunk) /\ chunk.start = a /\ chunk.end = b
    <3>1. chunk.start = a /\ chunk.end = b /\ chunk.text = Prefixed(header, own) /\ chunk \in ChunkRecords
      BY <1>5, <2>2, SizedChunk
    <3> QED
      BY <1>5, <2>2, <3>1 DEF OwnChunk
  <2> HIDE DEF chunk, a, b
  <2>4. PICK done, from, to : done = chunk /\ from = a /\ to = b
    OBVIOUS
  <2>5. TilesUpTo(done.end)'
    BY <1>1, <1>5, <1>7, <2>3, <2>4, TilesGrow
  <2>6. boundaries'[tile'] = done.end
    BY <1>1, <2>3, <2>4 DEF b
  <2>7. (TilesUpTo(boundaries[tile]))'
    BY <2>5, <2>6
  <2> QED
    BY <1>1, <1>3, <1>5, <1>7, <2>7, SingleByte DEF ChunkInv, ChunkTypeOK, ChunksTile, Boundaries
<1>8. CASE chunking' = "lines" /\ bodies' = <<body>> /\ UNCHANGED safe
  <2>1. body \in BodyRecords /\ LegalConfig(body.config) /\ body.start = a /\ body.end = b /\ body.at = a
    BY <1>3, <1>5, ChunkingAssumption DEF OpenBody, BodyRecords, LegalConfig, ConfigRecords
  <2>2. LegalBody(document.content, body)
    BY <1>5, <2>1 DEF LegalBody
  <2> HIDE DEF body, a, b
  <2>3. <<body>> \in Seq(BodyRecords) /\ <<body>> # << >> /\ Len(<<body>>) = 1 /\ <<body>>[1] = body
    BY <2>1
  <2>4. Bodies'
    <3>1. \A k \in 1 .. 1 : k = 1
      OBVIOUS
    <3>2. boundaries'[tile'] = b
      BY <1>1 DEF b
    <3> QED
      BY <1>1, <1>8, <2>1, <2>2, <2>3, <3>1, <3>2 DEF Bodies
  <2>5. (TilesUpTo(bodies[Len(bodies)].at))'
    BY <1>1, <1>8, <2>1, <2>3 DEF TilesUpTo
  <2> QED
    BY <1>1, <1>3, <1>5, <1>8, <2>4, <2>5, SingleByte DEF ChunkInv, ChunkTypeOK, ChunksTile, Boundaries
<1> QED
  BY <1>2, <1>7, <1>8

-----------------------------------------------------------------------------
(* The innermost body, cut one chunk further.                              *)
LEMMA CutFurther ==
    ASSUME Bodies, NEW b \in Nat, b <= Last(bodies).end, Last(bodies).at < b,
           IsCharBoundary(document.content, b)
    PROVE  /\ CutUpTo(b) \in Seq(BodyRecords) /\ Len(CutUpTo(b)) = Len(bodies) /\ Len(bodies) \in Nat \ {0}
           /\ CutUpTo(b)[Len(bodies)].at = b /\ CutUpTo(b)[1].end = boundaries[tile]
           /\ CutUpTo(b)[Len(bodies)].config = Last(bodies).config
           /\ \A k \in 1 .. Len(bodies) :
                 /\ LegalBody(document.content, CutUpTo(b)[k])
                 /\ k > 1 => CutUpTo(b)[k].end = CutUpTo(b)[k - 1].at
<1> DEFINE n == Len(bodies)
           top == bodies[n]
           cut == [top EXCEPT !.at = b]
           all == CutUpTo(b)
<1>1. bodies \in Seq(BodyRecords) /\ n \in Nat /\ n >= 1 /\ n \in 1 .. n
  BY EmptySeq, LenProperties DEF Bodies
<1>2. top \in BodyRecords /\ LegalBody(document.content, top)
  BY <1>1 DEF Bodies, LegalBody
<1>3. cut \in BodyRecords /\ cut.at = b /\ cut.start = top.start /\ cut.end = top.end /\ cut.config = top.config
  BY <1>2 DEF BodyRecords
<1>4. LegalBody(document.content, cut)
  <2>1. b <= top.end /\ top.at < b /\ top.at \in Nat /\ top.start \in Nat
    BY <1>2 DEF Last, BodyRecords
  <2>2. top.start <= b
    BY <1>2, <2>1 DEF LegalBody
  <2> QED
    BY <1>2, <1>3, <2>1, <2>2 DEF LegalBody
<1>5. all = [bodies EXCEPT ![n] = cut]
  BY <1>1, <1>2, LenProperties DEF CutUpTo
<1> HIDE DEF all, cut
<1>6. /\ all \in Seq(BodyRecords) /\ Len(all) = n
      /\ \A j \in 1 .. n : all[j] = IF j = n THEN cut ELSE bodies[j]
  BY <1>1, <1>3, <1>5, ExceptSeq
<1>7. \A j \in 1 .. n : all[j].end = bodies[j].end
  BY <1>3, <1>6
<1>8. ASSUME NEW k \in 1 .. n
      PROVE  LegalBody(document.content, all[k]) /\ (k > 1 => all[k].end = all[k - 1].at)
  <2>1. LegalBody(document.content, all[k])
    BY <1>4, <1>6 DEF Bodies
  <2>2. ASSUME k > 1 PROVE all[k].end = all[k - 1].at
    <3>1. k - 1 \in 1 .. n /\ k - 1 # n
      BY <1>1, <2>2
    <3>2. bodies[k].end = bodies[k - 1].at
      BY <2>2 DEF Bodies
    <3> QED
      BY <1>6, <1>7, <3>1, <3>2
  <2> QED
    BY <2>1, <2>2
<1>9. 1 \in 1 .. n /\ bodies[1].end = boundaries[tile]
  BY <1>1 DEF Bodies
<1> QED
  BY <1>1, <1>3, <1>6, <1>7, <1>8, <1>9 DEF all, Last

LEMMA CuttingFacts ==
    ASSUME ChunkInv, Cutting
    PROVE  /\ chunking = "lines" /\ ChunkTypeOK /\ document \in Documents
           /\ Bodies /\ Boundaries /\ document.content # << >>
           /\ TilesUpTo(Innermost.at) /\ Innermost.at \in Nat /\ Innermost.depth \in Nat
           /\ LegalConfig(Innermost.config)
           /\ OwnChunk(document.content, NextChunk(Innermost))
           /\ NextChunk(Innermost).start = Innermost.at
           /\ NextChunk(Innermost).end <= Innermost.end /\ Innermost.at < NextChunk(Innermost).end
           /\ NextChunk(Innermost).end \in Nat
           /\ IsCharBoundary(document.content, NextChunk(Innermost).end)
<1> DEFINE top == Innermost
           chunk == NextChunk(top)
<1>1. /\ chunking = "lines" /\ ChunkTypeOK /\ document \in Documents /\ Bodies /\ Boundaries
      /\ document.content # << >> /\ TilesUpTo(Innermost.at) /\ top.at < top.end
  BY DEF ChunkInv, Cutting, Innermost, Last, ChunkTypeOK
<1>2. LegalBody(document.content, top)
  <2>1. Len(bodies) \in 1 .. Len(bodies)
    BY <1>1, EmptySeq DEF Bodies
  <2> QED
    BY <1>1, <2>1 DEF Bodies, Innermost, Last
<1> HIDE DEF top
<1>3. /\ OwnChunk(document.content, chunk) /\ chunk.start = top.at /\ chunk.end <= top.end
      /\ IsCharBoundary(document.content, chunk.end)
  BY <1>1, <1>2, NextIsOwn
<1>4. top.at \in Nat /\ top.depth \in Nat /\ LegalConfig(top.config)
  BY <1>2 DEF LegalBody, BodyRecords
<1>5. chunk.end \in Nat /\ top.at < chunk.end
  BY <1>3 DEF OwnChunk, ChunkRecords
<1> QED
  BY <1>1, <1>3, <1>4, <1>5 DEF top

(* A chunk of the innermost body is done.                                  *)
LEMMA ChunkDone ==
    ASSUME ChunkInv, Cutting, NEW chunk, OwnChunk(document.content, chunk),
           chunk.start = Innermost.at, chunk.end = NextChunk(Innermost).end,
           safe' = Append(safe, chunk), bodies' = CutUpTo(chunk.end),
           UNCHANGED <<chunking, document, config, boundaries, span, tile, header, chunks, named>>
    PROVE  ChunkInv'
<1>1. TilesUpTo(chunk.end)'
  BY CuttingFacts, TilesGrow
<1>2. chunk.end \in Nat /\ chunk.end <= Last(bodies).end /\ Last(bodies).at < chunk.end
      /\ IsCharBoundary(document.content, chunk.end)
  BY CuttingFacts DEF Innermost
<1>3. /\ bodies' \in Seq(BodyRecords) /\ Len(bodies') = Len(bodies) /\ Len(bodies) \in Nat \ {0}
      /\ bodies'[Len(bodies)].at = chunk.end /\ bodies'[1].end = boundaries[tile]
      /\ \A k \in 1 .. Len(bodies) :
            /\ LegalBody(document.content, bodies'[k])
            /\ k > 1 => bodies'[k].end = bodies'[k - 1].at
  BY <1>2, CuttingFacts, CutFurther
<1>4. Bodies'
  <2>1. bodies' # << >>
    BY <1>3, EmptySeq
  <2> QED
    BY <1>3, <2>1 DEF Bodies
<1>5. (TilesUpTo(bodies[Len(bodies)].at))'
  BY <1>1, <1>3
<1> QED
  BY <1>4, <1>5, CuttingFacts DEF ChunkInv, ChunkTypeOK, ChunksTile, Boundaries

LEMMA KeepChunk_ChunkInv ==
    ASSUME ChunkInv, KeepChunk
    PROVE  ChunkInv'
<1>1. /\ Cutting /\ safe' = Append(safe, NextChunk(Innermost)) /\ bodies' = CutUpTo(NextChunk(Innermost).end)
      /\ UNCHANGED <<chunking, document, config, boundaries, span, tile, header, chunks, named>>
  BY DEF KeepChunk
<1>2. OwnChunk(document.content, NextChunk(Innermost)) /\ NextChunk(Innermost).start = Innermost.at
  BY <1>1, CuttingFacts
<1> QED
  BY <1>1, <1>2, ChunkDone

LEMMA LeaveOversized_ChunkInv ==
    ASSUME ChunkInv, LeaveOversized
    PROVE  ChunkInv'
<1> DEFINE coming == NextChunk(Innermost)
           own == Bytes(document.content, coming.start, coming.end)
           chunk == Sized(coming.start, coming.end, own)
<1>1. /\ Cutting /\ safe' = Append(safe, chunk) /\ bodies' = CutUpTo(coming.end)
      /\ UNCHANGED <<chunking, document, config, boundaries, span, tile, header, chunks, named>>
  BY DEF LeaveOversized
<1>2. OwnChunk(document.content, coming) /\ coming.start = Innermost.at /\ document \in Documents
  BY <1>1, CuttingFacts
<1> HIDE DEF coming
<1>3. /\ coming.start \in Nat /\ coming.end \in Nat /\ coming.start < coming.end
      /\ coming.end <= Len(document.content) /\ IsCharBoundary(document.content, coming.start)
  BY <1>2 DEF OwnChunk, ChunkRecords
<1>4. own \in ByteStrings
  <2>1. coming.start <= coming.end
    BY <1>3
  <2> QED
    BY <1>2, <1>3, <2>1, DocumentFacts, SomeBytes
<1>5. EndsWith(own, own)
  <2>1. Len(own) \in Nat /\ SubSeq(own, 1, Len(own)) = own
    BY <1>4, SubSeqFull, LenProperties DEF ByteStrings
  <2>2. Len(own) - Len(own) + 1 = 1 /\ Len(own) <= Len(own)
    BY <2>1
  <2> QED
    BY <2>1, <2>2 DEF EndsWith
<1>6. /\ chunk.start = coming.start /\ chunk.end = coming.end /\ chunk.text = own /\ chunk \in ChunkRecords
  BY <1>3, <1>4, SizedChunk
<1>7. OwnChunk(document.content, chunk)
  BY <1>3, <1>5, <1>6 DEF OwnChunk
<1> HIDE DEF chunk
<1> QED
  BY <1>1, <1>2, <1>6, <1>7, ChunkDone DEF coming

LEMMA SplitOversized_ChunkInv ==
    ASSUME ChunkInv, SplitOversized
    PROVE  ChunkInv'
<1> DEFINE chunk == NextChunk(Innermost)
           tighter == Tightened(Innermost.config)
           body == OpenBody(chunk.start, chunk.end, tighter, Innermost.depth + 1, << >>)
           cut == CutUpTo(chunk.end)
           n == Len(bodies)
<1>1. /\ Cutting /\ bodies' = Append(cut, body)
      /\ UNCHANGED <<chunking, document, config, boundaries, span, tile, header, safe, chunks, named>>
  BY DEF SplitOversized
<1>2. /\ OwnChunk(document.content, chunk) /\ chunk.start = Innermost.at /\ Innermost.depth \in Nat
      /\ LegalConfig(Innermost.config) /\ TilesUpTo(Innermost.at)
      /\ chunk.end \in Nat /\ chunk.end <= Innermost.end /\ Innermost.at < chunk.end /\ Innermost.at \in Nat
      /\ IsCharBoundary(document.content, chunk.end)
  BY <1>1, CuttingFacts
<1>3. tighter \in ConfigRecords /\ tighter.cap >= CharBytes
  <2> DEFINE c == Innermost.config
  <2>1. c \in ConfigRecords /\ LeastConfig \in [target : Nat, cap : Nat, overlap : Nat]
        /\ LeastConfig.cap >= CharBytes /\ CharBytes \in Nat
    BY <1>2, ChunkingAssumption DEF LegalConfig
  <2> HIDE DEF c
  <2>2. Tightened(c) = [c EXCEPT !.target  = Larger(c.target \div 2, LeastConfig.target),
                                 !.cap     = Larger(c.cap \div 2, LeastConfig.cap),
                                 !.overlap = Larger(c.overlap \div 2, LeastConfig.overlap)]
    BY DEF Tightened
  <2>3. /\ Larger(c.target \div 2, LeastConfig.target) \in Nat
        /\ Larger(c.overlap \div 2, LeastConfig.overlap) \in Nat
        /\ Larger(c.cap \div 2, LeastConfig.cap) \in Nat
        /\ Larger(c.cap \div 2, LeastConfig.cap) >= CharBytes
    <3>1. c.target \div 2 \in Nat /\ c.overlap \div 2 \in Nat /\ c.cap \div 2 \in Nat
      BY <2>1 DEF ConfigRecords
    <3> QED
      BY <2>1, <3>1 DEF Larger
  <2>4. Tightened(c) \in ConfigRecords /\ Tightened(c).cap = Larger(c.cap \div 2, LeastConfig.cap)
    BY <2>1, <2>2, <2>3 DEF ConfigRecords
  <2> QED
    BY <2>3, <2>4 DEF c
<1> HIDE DEF tighter
<1>4. /\ body \in BodyRecords /\ body.config = tighter
      /\ body.start = chunk.start /\ body.end = chunk.end /\ body.at = chunk.start
  <2>1. chunk.start \in Nat /\ Innermost.depth + 1 \in Nat
    BY <1>2
  <2> QED
    BY <1>2, <1>3, <2>1, SingleByte DEF OpenBody, BodyRecords
<1>5. LegalBody(document.content, body)
  BY <1>2, <1>3, <1>4 DEF LegalBody, LegalConfig, OwnChunk
<1> HIDE DEF body
<1>6. /\ cut \in Seq(BodyRecords) /\ Len(cut) = n /\ n \in Nat \ {0}
      /\ cut[n].at = chunk.end /\ cut[1].end = boundaries[tile]
      /\ \A k \in 1 .. n :
            /\ LegalBody(document.content, cut[k])
            /\ k > 1 => cut[k].end = cut[k - 1].at
  BY <1>1, <1>2, CuttingFacts, CutFurther DEF Innermost
<1> HIDE DEF cut
<1>7. /\ bodies' \in Seq(BodyRecords) /\ bodies' # << >> /\ Len(bodies') = n + 1
      /\ \A i \in 1 .. n : bodies'[i] = cut[i]
      /\ bodies'[n + 1] = body
  BY <1>1, <1>4, <1>6, AppendProperties
<1>8. ASSUME NEW k \in 1 .. n + 1
      PROVE  LegalBody(document.content, bodies'[k]) /\ (k > 1 => bodies'[k].end = bodies'[k - 1].at)
  <2>1. CASE k <= n
    <3>1. k \in 1 .. n /\ (k > 1 => k - 1 \in 1 .. n)
      BY <1>6, <2>1
    <3> QED
      BY <1>6, <1>7, <3>1
  <2>2. CASE k = n + 1
    <3>1. k - 1 = n /\ n \in 1 .. n
      BY <1>6, <2>2
    <3> QED
      BY <1>4, <1>5, <1>6, <1>7, <2>2, <3>1
  <2> QED
    BY <1>6, <2>1, <2>2
<1>9. Bodies'
  <2>1. 1 \in 1 .. n
    BY <1>6
  <2>2. bodies'[1] = cut[1]
    BY <1>7, <2>1
  <2>3. bodies'[1].end = boundaries[tile]
    BY <1>6, <2>2
  <2> QED
    BY <1>1, <1>7, <1>8, <2>3 DEF Bodies
<1>10. (TilesUpTo(bodies[Len(bodies)].at))'
  BY <1>1, <1>2, <1>4, <1>7 DEF TilesUpTo
<1> QED
  BY <1>1, <1>9, <1>10, CuttingFacts DEF ChunkInv, ChunkTypeOK, ChunksTile, Boundaries

LEMMA CloseBody_ChunkInv ==
    ASSUME ChunkInv, CloseBody
    PROVE  ChunkInv'
<1> DEFINE n == Len(bodies)
           outer == SubSeq(bodies, 1, n - 1)
<1>1. /\ chunking = "lines" /\ ChunkTypeOK /\ Bodies /\ Boundaries /\ document.content # << >>
      /\ TilesUpTo(bodies[n].at) /\ bodies' = outer
      /\ tile <= Len(boundaries) /\ boundaries[Len(boundaries)] = Len(document.content)
      /\ UNCHANGED <<document, config, boundaries, span, tile, header, safe, chunks, named>>
      /\ bodies[n].at >= bodies[n].end
      /\ chunking' = IF n = 1 THEN "tiles" ELSE "lines"
  BY DEF ChunkInv, CloseBody, Front, Innermost, Last
<1>2. bodies \in Seq(BodyRecords) /\ n \in Nat /\ n >= 1 /\ n \in 1 .. n
  BY <1>1, EmptySeq, LenProperties DEF Bodies
<1>3. bodies[n].at = bodies[n].end
  <2>1. LegalBody(document.content, bodies[n])
    BY <1>1, <1>2 DEF Bodies
  <2> QED
    BY <1>1, <2>1 DEF LegalBody, BodyRecords
<1>4. CASE n = 1
  <2>1. chunking' = "tiles" /\ bodies[n].at = boundaries[tile]
    BY <1>1, <1>3, <1>4 DEF Bodies
  <2> QED
    BY <1>1, <2>1 DEF ChunkInv, ChunkTypeOK, ChunksTile, Boundaries, TilesUpTo
<1>5. CASE n # 1
  <2>1. n - 1 \in 1 .. n /\ n - 1 \in Nat \ {0} /\ 1 \in 1 .. n - 1 /\ n > 1
    <3> HIDE DEF n
    <3> QED
      BY <1>2, <1>5
  <2>2. /\ outer \in Seq(BodyRecords) /\ Len(outer) = n - 1
        /\ \A i \in 1 .. n - 1 : outer[i] = bodies[i]
    <3>1. \A i \in 1 .. n - 1 : i \in 1 .. n
      BY <2>1
    <3>2. \A i \in 1 .. n - 1 : bodies[i] \in BodyRecords
      BY <1>2, <3>1, ElementOfSeq
    <3>3. 1 \in Int /\ n - 1 \in Int /\ 1 <= n - 1 /\ (n - 1) - 1 + 1 = n - 1 /\ \A i \in 1 .. n - 1 : 1 + i - 1 = i
      BY <2>1
    <3> QED
      BY <3>2, <3>3, SubSeqProperties
  <2>3. outer # << >>
    BY <2>1, <2>2, EmptySeq
  <2> HIDE DEF outer
  <2>4. ASSUME NEW k \in 1 .. n - 1
        PROVE  LegalBody(document.content, outer[k]) /\ (k > 1 => outer[k].end = outer[k - 1].at)
    <3>1. k \in 1 .. n /\ (k > 1 => k - 1 \in 1 .. n - 1)
      BY <2>1
    <3> QED
      BY <1>1, <2>2, <3>1 DEF Bodies
  <2>5. Bodies'
    <3>1. bodies'[1].end = boundaries[tile]
      BY <1>1, <2>1, <2>2 DEF Bodies
    <3> QED
      BY <1>1, <2>2, <2>3, <2>4, <3>1 DEF Bodies
  <2>6. bodies'[Len(bodies')].at = bodies[n].at
    <3>1. bodies[n].end = bodies[n - 1].at
      BY <1>1, <1>2, <2>1 DEF Bodies
    <3>2. outer[n - 1] = bodies[n - 1]
      BY <2>1, <2>2
    <3> QED
      BY <1>1, <1>3, <2>2, <3>1, <3>2
  <2>7. (TilesUpTo(bodies[Len(bodies)].at))'
    BY <1>1, <2>6 DEF TilesUpTo
  <2> QED
    BY <1>1, <1>5, <2>5, <2>7 DEF ChunkInv, ChunkTypeOK, ChunksTile, Boundaries
<1> QED
  BY <1>4, <1>5

LEMMA NumberChunks_ChunkInv ==
    ASSUME ChunkInv, NumberChunks
    PROVE  ChunkInv'
<1> DEFINE n == Len(safe)
           end == Len(document.content)
           numbered == [k \in DOMAIN safe |->
               [start |-> safe[k].start, end |-> safe[k].end, text |-> safe[k].text,
                tokens |-> safe[k].tokens, index |-> k - 1, total |-> Len(safe),
                outline |-> OutlineEntriesForChunk(safe[k].text, document.outline)]]
<1>1. /\ chunking = "tiles" /\ chunking' = "done" /\ ChunkTypeOK /\ Boundaries /\ document.content # << >>
      /\ TilesUpTo(boundaries[tile]) /\ tile >= Len(boundaries) /\ tile <= Len(boundaries)
      /\ boundaries[Len(boundaries)] = end /\ chunks' = numbered
      /\ UNCHANGED <<document, config, boundaries, span, tile, header, bodies, safe>>
  BY DEF ChunkInv, NumberChunks
<1>2. end \in Nat /\ end # 0
  BY <1>1, DocumentFacts, EmptySeq DEF ChunkTypeOK, ByteStrings
<1>3. TilesUpTo(end)
  <2>1. tile = Len(boundaries)
    BY <1>1, LenProperties DEF Boundaries, ChunkTypeOK
  <2> QED
    BY <1>1, <2>1
<1>4. /\ safe \in Seq(ChunkRecords) /\ safe # << >> /\ n \in Nat /\ n >= 1 /\ DOMAIN safe = 1 .. n
      /\ safe[1].start = 0 /\ safe[n].end = end
      /\ \A k \in 1 .. n : OwnChunk(document.content, safe[k]) /\ (k > 1 => safe[k].start = safe[k - 1].end)
  BY <1>2, <1>3, EmptySeq, LenProperties DEF TilesUpTo
<1>5. /\ DOMAIN numbered = 1 .. n
      /\ \A k \in 1 .. n : /\ numbered[k].start = safe[k].start /\ numbered[k].end = safe[k].end
                           /\ numbered[k].text = safe[k].text
  BY <1>4
<1> HIDE DEF numbered
<1>6. Len(numbered) = n
  <2>1. numbered = [k \in 1 .. n |-> numbered[k]]
    BY <1>4, <1>5 DEF numbered
  <2> HIDE DEF n
  <2> QED
    BY <1>4, <2>1
<1>7. numbered # << >> /\ 1 \in 1 .. n /\ n \in 1 .. n
  BY <1>4, <1>6
<1>8. ChunksTile'
  <2>1. numbered[1].start = 0 /\ Last(numbered).end = end
    BY <1>4, <1>5, <1>6, <1>7 DEF Last
  <2>2. ASSUME NEW k \in 1 .. n
        PROVE  /\ k > 1 => numbered[k].start = numbered[k - 1].end
               /\ IsCharBoundary(document.content, numbered[k].start)
               /\ EndsWith(numbered[k].text, Bytes(document.content, numbered[k].start, numbered[k].end))
    <3>1. k > 1 => k - 1 \in 1 .. n
      BY <1>4
    <3> QED
      BY <1>4, <1>5, <3>1 DEF OwnChunk
  <2> QED
    BY <1>1, <1>5, <1>7, <2>1, <2>2 DEF ChunksTile
<1> QED
  BY <1>1, <1>8 DEF ChunkInv, ChunkTypeOK

LEMMA ChunkNext_ChunkInv == ChunkInv /\ [ChunkNext]_chunkVars => ChunkInv'
<1> SUFFICES ASSUME ChunkInv, [ChunkNext]_chunkVars PROVE ChunkInv'
  OBVIOUS
<1>1. CASE ChunkDocument
  BY <1>1, ChunkDocument_ChunkInv
<1>2. CASE ExamineItem
  BY <1>2, ExamineItem_ChunkInv
<1>3. CASE CloseBoundaries
  BY <1>3, CloseBoundaries_ChunkInv
<1>4. CASE AddToHeader
  BY <1>4, AddToHeader_ChunkInv
<1>5. CASE CloseTile
  BY <1>5, CloseTile_ChunkInv
<1>6. CASE KeepChunk
  BY <1>6, KeepChunk_ChunkInv
<1>7. CASE SplitOversized
  BY <1>7, SplitOversized_ChunkInv
<1>8. CASE LeaveOversized
  BY <1>8, LeaveOversized_ChunkInv
<1>9. CASE CloseBody
  BY <1>9, CloseBody_ChunkInv
<1>10. CASE NumberChunks
  BY <1>10, NumberChunks_ChunkInv
<1>11. CASE UNCHANGED chunkVars
  BY <1>11 DEF chunkVars, ChunkInv, ChunkTypeOK, Boundaries, Bodies, TilesUpTo, ChunksTile
<1> QED
  BY <1>1, <1>2, <1>3, <1>4, <1>5, <1>6, <1>7, <1>8, <1>9, <1>10, <1>11 DEF ChunkNext

(* The chunks of a document tile it, whatever its bytes, the sizes it is   *)
(* cut with and the items it is cut along: no byte is lost or embedded     *)
(* twice, and no character is cut in two (chunking.rs).                    *)
THEOREM DocumentsAreTiled == ChunkSpec => []ChunksTile
<1>1. ChunkInit => ChunkInv
  BY ChunkInit_ChunkInv
<1>2. ChunkInv /\ [ChunkNext]_chunkVars => ChunkInv'
  BY ChunkNext_ChunkInv
<1>3. ChunkInv => ChunksTile
  BY DEF ChunkInv
<1> QED
  BY <1>1, <1>2, <1>3, PTL DEF ChunkSpec

-----------------------------------------------------------------------------
\* Curation

CuratingStages == {"idle", "prompt", "history", "summary", "tools", "done", "failed"}
Outputs == [summary : Seq(Sentences), full_output : Seq(Sentences), original_tokens : Nat, 
            summary_tokens : {SummaryTokens[s] : s \in Seq(Sentences)}]

CurationTypeOK ==
    /\ curating \in CuratingStages
    /\ conversation \in Calls
    /\ promptKept \in 0 .. Len(conversation.prompt)
    /\ resultTokens \in Nat
    /\ toSummarize \in Seq(Turns)
    /\ retained \in Seq(Turns)
    /\ turnAt \in Nat \ {0}
    /\ sentenceAt \in Nat \ {0}
    /\ historySummary \in Seq(Sentences)
    /\ compressedOutputs \in Seq(Outputs)

\* Nothing has been done to the turns.
TurnsUntouched == turnAt = 1 /\ sentenceAt = 1 /\ compressedOutputs = << >>

\* The sentences kept of a prompt that is cut fit, and are whole.
PrefixFits ==
    /\ resultTokens <= conversation.budget
    /\ promptKept > 0 =>
          /\ EstimateTokens(conversation.prompt, 1, promptKept) <= resultTokens
          /\ promptKept < Len(conversation.prompt) => conversation.prompt[promptKept] \in SentenceEnds

PromptCut ==
    /\ conversation.truncate /\ TokensOf(conversation.prompt) > conversation.budget
    /\ PrefixFits

PromptWhole ==
    /\ promptKept = Len(conversation.prompt)
    /\ conversation.truncate => TokensOf(conversation.prompt) <= conversation.budget

PromptInv ==
    /\ curating = "idle" => resultTokens = 0
    /\ curating = "prompt" => PromptCut
    /\ curating \notin {"idle", "prompt"} => PromptCut \/ PromptWhole

SaidIn(text, s) == \E p \in DOMAIN text : text[p] = s
Said(s) == SaidIn(historySummary, s)

\* The telling sentences of turn t before sentence n are in the summary.
SaidBefore(t, n) ==
    \A s \in Telling(toSummarize[t].content) : s < n => Said(toSummarize[t].content[s])
AllSaid(t) == \A s \in Telling(toSummarize[t].content) : Said(toSummarize[t].content[s])

SummaryInv ==
    /\ Extracting =>
          /\ \A t \in DOMAIN toSummarize : t < turnAt => AllSaid(t)
          /\ turnAt \in DOMAIN toSummarize => SaidBefore(turnAt, sentenceAt)
    /\ curating \in {"tools", "done"} /\ conversation.summarizer = "extract" =>
          \A t \in DOMAIN toSummarize : AllSaid(t)

HeldFor(t, k) ==
    /\ compressedOutputs[k].full_output = retained[t].content
    /\ compressedOutputs[k].original_tokens = retained[t].tokens

OutputsInv ==
    curating \in {"tools", "done"} =>
        /\ \A t \in DOMAIN retained : t < turnAt /\ Replaceable(retained[t]) =>
              \E k \in DOMAIN compressedOutputs : HeldFor(t, k)
        /\ \A k \in DOMAIN compressedOutputs : \E t \in DOMAIN retained :
              Replaceable(retained[t]) /\ compressedOutputs[k].full_output = retained[t].content

TurnsInv ==
    /\ curating \in {"idle", "prompt", "history"} => TurnsUntouched
    /\ curating = "summary" => compressedOutputs = << >>
    /\ curating \in {"summary", "tools", "done"} => toSummarize \o retained = conversation.turns
    /\ curating = "done" => turnAt > Len(retained)

CurationInv == CurationTypeOK /\ PromptInv /\ TurnsInv /\ SummaryInv /\ OutputsInv

(* The words of a stretch of a prompt are finitely many.                   *)
LEMMA WordsOfStretch ==
    ASSUME NEW phrase, NEW from \in Nat, NEW to \in Nat
    PROVE  /\ Words(phrase, from, to) \subseteq from .. to
           /\ IsFiniteSet(Words(phrase, from, to))
           /\ EstimateTokens(phrase, from, to) \in Nat \ {0}
           /\ Cardinality(Words(phrase, from, to)) \in Nat
           /\ Cardinality(Words(phrase, from, to)) <= EstimateTokens(phrase, from, to)
<1> DEFINE words == Words(phrase, from, to)
<1>1. words \subseteq from .. to
  BY DEF Words
<1>2. IsFiniteSet(from .. to)
  BY FS_Interval
<1>3. IsFiniteSet(words)
  BY <1>1, <1>2, FS_Subset
<1>4. Cardinality(words) \in Nat /\ (Cardinality(words) = 0 <=> words = {})
  BY <1>3, FS_CardinalityType, FS_EmptySet
<1>5. EstimateTokens(phrase, from, to) = IF words = {} THEN 1 ELSE Cardinality(words)
  BY DEF EstimateTokens
<1> HIDE DEF words
<1>6. EstimateTokens(phrase, from, to) \in Nat \ {0} /\ Cardinality(words) <= EstimateTokens(phrase, from, to)
  BY <1>4, <1>5
<1> QED
  BY <1>1, <1>3, <1>4, <1>6 DEF words

(* Cutting a stretch in two never lowers the count of its tokens.          *)
LEMMA TokensOfTwoParts ==
    ASSUME NEW phrase, NEW k \in Nat \ {0}, NEW to \in Nat
    PROVE  EstimateTokens(phrase, 1, to) <= EstimateTokens(phrase, 1, k) + EstimateTokens(phrase, k + 1, to)
<1> DEFINE both   == Words(phrase, 1, to)
           first  == Words(phrase, 1, k)
           second == Words(phrase, k + 1, to)
<1>1. both \subseteq first \cup second
  <2> SUFFICES ASSUME NEW i \in both, i \notin second
               PROVE  i \in first
    OBVIOUS
  <2>1. /\ i \in 1 .. to /\ phrase[i] \notin Blank
        /\ i = 1 \/ phrase[i - 1] \in Blank
    BY DEF Words
  <2>2. i <= k
    <3> SUFFICES ASSUME i > k PROVE FALSE
      BY <2>1
    <3>1. i \in k + 1 .. to /\ i # 1
      BY <2>1
    <3> QED
      BY <2>1, <3>1 DEF Words
  <2>3. i \in 1 .. k
    BY <2>1, <2>2
  <2> QED
    BY <2>1, <2>3 DEF Words
<1>2. /\ IsFiniteSet(both) /\ IsFiniteSet(first) /\ IsFiniteSet(second)
      /\ Cardinality(both) \in Nat /\ Cardinality(first) \in Nat /\ Cardinality(second) \in Nat
      /\ Cardinality(first) <= EstimateTokens(phrase, 1, k)
      /\ Cardinality(second) <= EstimateTokens(phrase, k + 1, to)
      /\ EstimateTokens(phrase, 1, k) \in Nat \ {0}
      /\ EstimateTokens(phrase, k + 1, to) \in Nat \ {0}
  <2>1. 1 \in Nat /\ k \in Nat /\ k + 1 \in Nat
    OBVIOUS
  <2>2. IsFiniteSet(both) /\ Cardinality(both) \in Nat
    BY <2>1, WordsOfStretch
  <2>3. /\ IsFiniteSet(first) /\ Cardinality(first) \in Nat
        /\ Cardinality(first) <= EstimateTokens(phrase, 1, k) /\ EstimateTokens(phrase, 1, k) \in Nat \ {0}
    BY <2>1, WordsOfStretch
  <2>4. /\ IsFiniteSet(second) /\ Cardinality(second) \in Nat
        /\ Cardinality(second) <= EstimateTokens(phrase, k + 1, to)
        /\ EstimateTokens(phrase, k + 1, to) \in Nat \ {0}
    BY <2>1, WordsOfStretch
  <2> QED
    BY <2>2, <2>3, <2>4
<1>3. EstimateTokens(phrase, 1, to) = IF both = {} THEN 1 ELSE Cardinality(both)
  BY DEF EstimateTokens
<1> HIDE DEF both, first, second
<1>4. /\ IsFiniteSet(first \cup second) /\ IsFiniteSet(first \cap second)
      /\ Cardinality(first \cup second) = Cardinality(first) + Cardinality(second) - Cardinality(first \cap second)
  <2>1. first \cap second \in SUBSET first
    OBVIOUS
  <2>2. IsFiniteSet(first \cap second)
    BY <1>2, <2>1, FS_Subset
  <2> QED
    BY <1>2, <2>2, FS_Union
<1>5. Cardinality(first \cap second) \in Nat /\ Cardinality(first \cup second) \in Nat
  BY <1>4, FS_CardinalityType
<1>6. Cardinality(both) <= Cardinality(first \cup second)
  BY <1>1, <1>4, FS_Subset
<1>7. Cardinality(both) <= Cardinality(first) + Cardinality(second)
  BY <1>2, <1>4, <1>5, <1>6
<1> QED
  BY <1>2, <1>3, <1>7

(* The tokens of what is kept are those of the characters it is made of.   *)
LEMMA TokensOfKept ==
    ASSUME NEW phrase \in Prompts, NEW n \in 0 .. Len(phrase)
    PROVE  /\ Len(SubSeq(phrase, 1, n)) = n
           /\ \A i \in 1 .. n : SubSeq(phrase, 1, n)[i] = phrase[i]
           /\ TokensOf(SubSeq(phrase, 1, n)) = EstimateTokens(phrase, 1, n)
<1> DEFINE S == Letters \cup Blank \cup SentenceEnds
           cut == SubSeq(phrase, 1, n)
<1>1. phrase \in Seq(S) /\ Len(phrase) \in Nat /\ n \in Nat /\ n <= Len(phrase)
  <2>1. phrase \in Seq(S)
    BY DEF Prompts
  <2> QED
    BY <2>1, LenProperties
<1> HIDE DEF S
<1>2. \A i \in 1 .. n : phrase[i] \in S
  BY <1>1, ElementOfSeq
<1>3. Len(cut) = n /\ \A i \in 1 .. n : cut[i] = phrase[i]
  <2>1. /\ Len(SubSeq(phrase, 1, n)) = IF 1 <= n THEN n - 1 + 1 ELSE 0
        /\ \A i \in 1 .. n - 1 + 1 : SubSeq(phrase, 1, n)[i] = phrase[1 + i - 1]
    <3>1. 1 \in Int /\ n \in Int
      BY <1>1
    <3> QED
      BY <1>2, <3>1, SubSeqProperties
  <2>2. \A i \in 1 .. n : i \in 1 .. n - 1 + 1 /\ 1 + i - 1 = i
    BY <1>1
  <2> QED
    BY <1>1, <2>1, <2>2
<1> HIDE DEF cut
<1>4. Words(cut, 1, n) = Words(phrase, 1, n)
  <2>1. \A i \in 1 .. n : i # 1 => i - 1 \in 1 .. n
    BY <1>1
  <2>2. \A i \in 1 .. n : i # 1 => cut[i - 1] = phrase[i - 1]
    BY <1>3, <2>1
  <2> QED
    BY <1>3, <2>2 DEF Words
<1>5. TokensOf(cut) = EstimateTokens(phrase, 1, n)
  BY <1>3, <1>4 DEF TokensOf, EstimateTokens
<1> QED
  BY <1>3, <1>5 DEF cut

(* A sentence ends behind its first character, at the end of the prompt or *)
(* at a character that ends sentences.                                     *)
LEMMA SentenceAfter ==
    ASSUME NEW phrase, NEW n \in Nat, Len(phrase) \in Nat, n < Len(phrase)
    PROVE  /\ SentenceEnd(phrase, n) \in n + 1 .. Len(phrase)
           /\ SentenceEnd(phrase, n) < Len(phrase) => phrase[SentenceEnd(phrase, n)] \in SentenceEnds
<1> DEFINE last == Len(phrase)
           ends == {i \in n + 1 .. last : phrase[i] \in SentenceEnds \/ i = last}
<1>0. last \in Nat /\ n < last
  OBVIOUS
<1>1. ends \in SUBSET Nat /\ last \in ends
  <2> HIDE DEF last
  <2> QED
    BY <1>0
<1>2. SentenceEnd(phrase, n) = Min(ends)
  BY DEF SentenceEnd
<1>3. Min(ends) \in ends
  <2>1. PICK m \in ends : \A i \in ends : m <= i
    <3> HIDE DEF ends
    <3> QED
      BY <1>1, LeastNumber
  <2> HIDE DEF ends
  <2> QED
    BY <2>1 DEF Min
<1>4. Min(ends) \in n + 1 .. last /\ (phrase[Min(ends)] \in SentenceEnds \/ Min(ends) = last)
  BY <1>3
<1> HIDE DEF ends, last
<1>5. Min(ends) < last => phrase[Min(ends)] \in SentenceEnds
  BY <1>0, <1>4
<1> QED
  BY <1>2, <1>4, <1>5 DEF last

(* What the state of a call says of its prompt and its turns.              *)
LEMMA CallFacts ==
    ASSUME CurationTypeOK
    PROVE  /\ conversation.prompt \in Prompts /\ Len(conversation.prompt) \in Nat
           /\ conversation.turns \in Seq(Turns) /\ Len(conversation.turns) \in Nat
           /\ conversation.budget \in Nat
           /\ promptKept \in Nat /\ promptKept <= Len(conversation.prompt)
           /\ TokensOf(conversation.prompt) \in Nat
<1>1. /\ conversation.prompt \in Prompts /\ conversation.turns \in Seq(Turns)
      /\ conversation.budget \in Nat
  BY DEF CurationTypeOK, Calls
<1>2. Len(conversation.prompt) \in Nat /\ Len(conversation.turns) \in Nat
  BY <1>1, LenProperties DEF Prompts
<1>3. promptKept \in Nat /\ promptKept <= Len(conversation.prompt)
  BY <1>2 DEF CurationTypeOK
<1>4. TokensOf(conversation.prompt) \in Nat
  BY <1>2, WordsOfStretch DEF TokensOf
<1> QED
  BY <1>1, <1>2, <1>3, <1>4

LEMMA CurationInit_Inv == CurationInit => CurationInv
<1> SUFFICES ASSUME CurationInit PROVE CurationInv
  OBVIOUS
<1>1. NoCall \in Calls /\ Len(NoCall.prompt) = 0
  <2>1. << >> \in Prompts /\ << >> \in Seq(Turns) /\ Len(<< >>) = 0
    BY EmptySeq DEF Prompts
  <2> QED
    BY <2>1 DEF NoCall, Calls
<1>2. CurationTypeOK
  <2>1. << >> \in Seq(Turns) /\ << >> \in Seq(Sentences) /\ << >> \in Seq(Outputs)
    BY EmptySeq
  <2>2. 0 \in 0 .. 0
    OBVIOUS
  <2> QED
    BY <1>1, <2>1, <2>2 DEF CurationInit, CurationTypeOK, CuratingStages
<1>3. PromptInv /\ TurnsInv /\ SummaryInv /\ OutputsInv
  BY DEF CurationInit, PromptInv, TurnsInv, TurnsUntouched, SummaryInv, Extracting, OutputsInv
<1> QED
  BY <1>2, <1>3 DEF CurationInv

LEMMA Curate_Inv == CurationInv /\ Curate => CurationInv'
<1> SUFFICES ASSUME CurationInv, Curate PROVE CurationInv'
  OBVIOUS
<1>1. PICK c \in Conversations :
        /\ conversation' = c /\ promptCheck' = CheckBudget(TokensOf(c.prompt), c.budget)
        /\ IF c.truncate /\ promptCheck' = "exceeded"
           THEN curating' = "prompt" /\ promptKept' = 0
           ELSE curating' = "history" /\ promptKept' = Len(c.prompt)
  BY DEF Curate
<1>2. /\ curating = "idle"
      /\ UNCHANGED <<resultTokens, toSummarize, retained, turnAt, sentenceAt, historySummary, compressedOutputs>>
  BY DEF Curate
<1>3. c \in Calls
  BY CurationAssumption
<1>4. /\ c.prompt \in Prompts /\ Len(c.prompt) \in Nat /\ c.budget \in Nat /\ TokensOf(c.prompt) \in Nat
  <2>1. c.prompt \in Prompts /\ c.budget \in Nat
    BY <1>3 DEF Calls
  <2>2. Len(c.prompt) \in Nat
    BY <2>1, LenProperties DEF Prompts
  <2> QED
    BY <2>1, <2>2, WordsOfStretch DEF TokensOf
<1>5. promptCheck' = "exceeded" <=> TokensOf(c.prompt) > c.budget
  BY <1>1 DEF CheckBudget
<1>6. CurationTypeOK'
  <2>1. promptKept' \in 0 .. Len(c.prompt)
    BY <1>1, <1>4
  <2> QED
    BY <1>1, <1>2, <1>3, <2>1 DEF CurationInv, CurationTypeOK, CuratingStages
<1>7. PromptInv'
  <2>1. resultTokens = 0
    BY <1>2 DEF CurationInv, PromptInv
  <2>2. CASE c.truncate /\ promptCheck' = "exceeded"
    <3>1. curating' = "prompt" /\ promptKept' = 0 /\ resultTokens' = 0
      BY <1>1, <1>2, <2>1, <2>2
    <3>2. PrefixFits'
      BY <1>1, <1>4, <3>1 DEF PrefixFits
    <3>3. (conversation.truncate /\ TokensOf(conversation.prompt) > conversation.budget)'
      BY <1>1, <1>5, <2>2
    <3> QED
      BY <3>1, <3>2, <3>3 DEF PromptInv, PromptCut
  <2>3. CASE ~(c.truncate /\ promptCheck' = "exceeded")
    <3>1. curating' = "history" /\ promptKept' = Len(c.prompt)
      BY <1>1, <2>3
    <3>2. c.truncate => TokensOf(c.prompt) <= c.budget
      BY <1>4, <1>5, <2>3
    <3> QED
      BY <1>1, <3>1, <3>2 DEF PromptInv, PromptWhole
  <2> QED
    BY <2>2, <2>3
<1>8. curating' \in {"prompt", "history"}
  BY <1>1
<1>9. TurnsInv' /\ SummaryInv' /\ OutputsInv'
  BY <1>2, <1>8 DEF CurationInv, TurnsInv, TurnsUntouched, SummaryInv, Extracting, OutputsInv
<1> QED
  BY <1>6, <1>7, <1>9 DEF CurationInv

LEMMA KeepSentence_Inv == CurationInv /\ KeepSentence => CurationInv'
<1> SUFFICES ASSUME CurationInv, KeepSentence PROVE CurationInv'
  OBVIOUS
<1> DEFINE phrase == conversation.prompt
           to     == NextSentenceEnd
           tokens == CandidateTokens
           before == EstimateTokens(phrase, 1, promptKept)
           after  == EstimateTokens(phrase, 1, to)
<1>1. CurationTypeOK /\ PrefixFits /\ PromptCut /\ curating = "prompt"
  BY DEF CurationInv, KeepSentence, Truncating, PromptInv, PromptCut
<1>2. /\ promptKept \in Nat /\ Len(phrase) \in Nat /\ promptKept < Len(phrase)
      /\ resultTokens \in Nat /\ conversation.budget \in Nat
  BY <1>1, CallFacts DEF KeepSentence, CurationTypeOK
<1>3. /\ promptKept' = to /\ resultTokens' = resultTokens + tokens
      /\ resultTokens + tokens <= conversation.budget
      /\ UNCHANGED <<curating, conversation, toSummarize, retained, turnAt, sentenceAt, historySummary,
                     compressedOutputs>>
  BY DEF KeepSentence
<1>4. to \in promptKept + 1 .. Len(phrase) /\ (to < Len(phrase) => phrase[to] \in SentenceEnds)
  BY <1>2, SentenceAfter DEF NextSentenceEnd
<1>5. to \in Nat \ {0} /\ to \in 0 .. Len(phrase)
  BY <1>2, <1>4
<1>6. tokens \in Nat /\ after \in Nat
  <2>1. promptKept + 1 \in Nat /\ to \in Nat /\ 1 \in Nat
    BY <1>2, <1>5
  <2> QED
    BY <2>1, WordsOfStretch DEF CandidateTokens
<1>7. after <= resultTokens + tokens
  <2>1. CASE promptKept = 0
    <3>1. tokens = after
      <4>1. promptKept + 1 = 1
        BY <2>1
      <4> QED
        BY <4>1 DEF CandidateTokens
    <3> HIDE DEF tokens, after
    <3> QED
      BY <1>2, <1>6, <3>1
  <2>2. CASE promptKept > 0
    <3>1. promptKept \in Nat \ {0}
      BY <1>2, <2>2
    <3>2. after <= before + tokens
      BY <1>5, <3>1, TokensOfTwoParts DEF CandidateTokens
    <3>3. before <= resultTokens /\ before \in Nat
      BY <1>1, <1>2, <2>2, WordsOfStretch DEF PrefixFits
    <3> HIDE DEF before, tokens, after
    <3> QED
      BY <1>2, <1>6, <3>2, <3>3
  <2> QED
    BY <1>2, <2>1, <2>2
<1>8. CurationTypeOK'
  <2>1. resultTokens' \in Nat
    BY <1>2, <1>3, <1>6
  <2> QED
    BY <1>1, <1>3, <1>5, <2>1 DEF CurationTypeOK
<1>9. PrefixFits'
  BY <1>3, <1>4, <1>7 DEF PrefixFits
<1>10. PromptInv'
  BY <1>1, <1>3, <1>9 DEF PromptInv, PromptCut
<1>11. TurnsInv' /\ SummaryInv' /\ OutputsInv'
  BY <1>1, <1>3 DEF CurationInv, TurnsInv, TurnsUntouched, SummaryInv, Extracting, OutputsInv
<1> QED
  BY <1>8, <1>10, <1>11 DEF CurationInv

LEMMA CutPrompt_Inv == CurationInv /\ CutPrompt => CurationInv'
<1> SUFFICES ASSUME CurationInv, CutPrompt PROVE CurationInv'
  OBVIOUS
<1>1. /\ curating = "prompt" /\ curating' = "history"
      /\ UNCHANGED <<conversation, promptKept, resultTokens, toSummarize, retained, turnAt, sentenceAt,
                     historySummary, compressedOutputs>>
  BY DEF CutPrompt, Truncating
<1>2. CurationTypeOK'
  BY <1>1 DEF CurationInv, CurationTypeOK, CuratingStages
<1>3. PromptInv'
  BY <1>1 DEF CurationInv, PromptInv, PromptCut, PrefixFits
<1>4. TurnsInv' /\ SummaryInv' /\ OutputsInv'
  BY <1>1 DEF CurationInv, TurnsInv, TurnsUntouched, SummaryInv, Extracting, OutputsInv
<1> QED
  BY <1>2, <1>3, <1>4 DEF CurationInv

(* After the prompt, its part of the invariant only needs the call.        *)
LEMMA PromptSettled ==
    ASSUME PromptInv, UNCHANGED <<conversation, promptKept, resultTokens>>,
           curating \notin {"idle", "prompt"}, curating' \notin {"idle", "prompt"}
    PROVE  PromptInv'
BY DEF PromptInv, PromptCut, PromptWhole, PrefixFits

LEMMA PartitionTurns_Inv == CurationInv /\ PartitionTurns => CurationInv'
<1> SUFFICES ASSUME CurationInv, PartitionTurns PROVE CurationInv'
  OBVIOUS
<1> DEFINE talk == conversation.turns
<1>1. /\ curating = "history"
      /\ UNCHANGED <<conversation, promptKept, resultTokens, turnAt, sentenceAt, historySummary,
                     compressedOutputs>>
      /\ CurationTypeOK /\ TurnsUntouched
  BY DEF PartitionTurns, CurationInv, TurnsInv
<1>2. talk \in Seq(Turns) /\ Len(talk) \in Nat /\ RetainRecent \in Nat
  BY <1>1, CallFacts, CurationAssumption
<1>3. /\ toSummarize' \in Seq(Turns) /\ retained' \in Seq(Turns)
      /\ toSummarize' \o retained' = talk
      /\ \/ curating' = "summary"
         \/ curating' = "tools" /\ toSummarize' = << >>
  <2>1. CASE AllRetained
    <3>1. curating' = "tools" /\ toSummarize' = << >> /\ retained' = talk
      BY <2>1 DEF PartitionTurns
    <3>2. << >> \o talk = talk /\ << >> \in Seq(Turns)
      BY <1>2, ConcatEmptySeq, EmptySeq
    <3> QED
      BY <1>2, <3>1, <3>2
  <2>2. CASE ~AllRetained
    <3>1. /\ curating' = "summary" /\ toSummarize' = SubSeq(talk, 1, Split)
          /\ retained' = SubSeq(talk, Split + 1, Len(talk))
      BY <2>2 DEF PartitionTurns
    <3>2. Split \in 1 .. Len(talk)
      BY <1>2, <2>2 DEF AllRetained, Split
    <3> HIDE DEF talk
    <3>3. \A i \in 1 .. Len(talk) : talk[i] \in Turns
      BY <1>2, ElementOfSeq
    <3>4. SubSeq(talk, 1, Split) \in Seq(Turns)
      <4>1. 1 \in Int /\ Split \in Int /\ \A i \in 1 .. Split : talk[i] \in Turns
        BY <1>2, <3>2, <3>3
      <4> QED
        BY <4>1, SubSeqProperties
    <3>5. SubSeq(talk, Split + 1, Len(talk)) \in Seq(Turns)
      <4>1. Split + 1 \in Int /\ Len(talk) \in Int /\ \A i \in Split + 1 .. Len(talk) : talk[i] \in Turns
        BY <1>2, <3>2, <3>3
      <4> QED
        BY <4>1, SubSeqProperties
    <3>6. SubSeq(talk, 1, Split) \o SubSeq(talk, Split + 1, Len(talk)) = SubSeq(talk, 1, Len(talk))
      <4>1. 1 \in 1 .. Len(talk) + 1 /\ Split \in 1 - 1 .. Len(talk) /\ Len(talk) \in Split .. Len(talk)
        BY <1>2, <3>2
      <4> QED
        BY <1>2, <4>1, ConcatAdjacentSubSeq
    <3>7. SubSeq(talk, 1, Len(talk)) = talk
      BY <1>2, SubSeqFull
    <3> QED
      BY <3>1, <3>4, <3>5, <3>6, <3>7
  <2> QED
    BY <2>1, <2>2
<1>4. CurationTypeOK'
  BY <1>1, <1>3 DEF CurationTypeOK, CuratingStages
<1>5. PromptInv'
  BY <1>1, <1>3, PromptSettled DEF CurationInv
<1>6. TurnsInv'
  BY <1>1, <1>3 DEF TurnsInv, TurnsUntouched
<1>7. SummaryInv'
  <2>1. CASE curating' = "summary"
    <3>1. turnAt' = 1 /\ sentenceAt' = 1
      BY <1>1 DEF TurnsUntouched
    <3>2. \A t \in DOMAIN toSummarize' : t \in Nat \ {0}
      BY <1>3, LenProperties
    <3>3. \A t \in DOMAIN toSummarize' : ~(t < turnAt')
      BY <3>1, <3>2
    <3>4. turnAt' \in DOMAIN toSummarize' => SaidBefore(turnAt, sentenceAt)'
      <4> SUFFICES ASSUME turnAt' \in DOMAIN toSummarize'
                   PROVE  SaidBefore(turnAt, sentenceAt)'
        OBVIOUS
      <4> DEFINE turn == toSummarize'[1]
      <4>1. turn \in Turns
        BY <1>3, <3>1, ElementOfSeq, LenProperties
      <4>2. turn.content \in Seq(Sentences)
        BY <4>1 DEF Turns
      <4> HIDE DEF turn
      <4>3. \A s \in Telling(turn.content) : s \in Nat \ {0}
        BY <4>2, LenProperties DEF Telling
      <4>4. \A s \in Telling(turn.content) : ~(s < 1)
        BY <4>3
      <4> QED
        BY <3>1, <4>4 DEF SaidBefore, turn
    <3> QED
      BY <2>1, <3>3, <3>4 DEF SummaryInv
  <2>2. CASE curating' = "tools" /\ toSummarize' = << >>
    BY <2>2 DEF SummaryInv, Extracting
  <2> QED
    BY <1>3, <2>1, <2>2
<1>8. OutputsInv'
  <2>1. turnAt' = 1 /\ compressedOutputs' = << >>
    BY <1>1 DEF TurnsUntouched
  <2>2. \A t \in DOMAIN retained' : t \in Nat \ {0}
    BY <1>3, LenProperties
  <2>3. \A t \in DOMAIN retained' : ~(t < turnAt')
    BY <2>1, <2>2
  <2> QED
    BY <2>1, <2>3 DEF OutputsInv
<1> QED
  BY <1>4, <1>5, <1>6, <1>7, <1>8 DEF CurationInv

(* A summary ends the splitting: no output has been looked at.             *)
LEMMA Summarized_Inv ==
    ASSUME CurationInv, curating = "summary", NEW text \in Seq(Sentences), Summarized(text),
           conversation.summarizer = "extract" => text = historySummary /\ turnAt > Len(toSummarize)
    PROVE  CurationInv'
<1>1. /\ curating' = "tools" /\ turnAt' = 1 /\ sentenceAt' = 1 /\ historySummary' = text
      /\ UNCHANGED <<conversation, promptKept, resultTokens, toSummarize, retained, compressedOutputs>>
      /\ compressedOutputs = << >> /\ CurationTypeOK
  BY DEF Summarized, CurationInv, TurnsInv
<1>2. CurationTypeOK'
  BY <1>1 DEF CurationTypeOK, CuratingStages
<1>3. PromptInv'
  BY <1>1, PromptSettled DEF CurationInv
<1>4. TurnsInv'
  BY <1>1 DEF CurationInv, TurnsInv
<1>5. SummaryInv'
  <2>1. ASSUME conversation.summarizer = "extract"
        PROVE  \A t \in DOMAIN toSummarize : AllSaid(t)
    <3>1. \A t \in DOMAIN toSummarize : t < turnAt
      <4>1. toSummarize \in Seq(Turns) /\ turnAt \in Nat /\ turnAt > Len(toSummarize)
        BY <1>1, <2>1 DEF CurationTypeOK
      <4> QED
        BY <4>1, LenProperties
    <3> QED
      BY <2>1, <3>1 DEF CurationInv, SummaryInv, Extracting
  <2>2. ASSUME conversation.summarizer = "extract"
        PROVE  (\A t \in DOMAIN toSummarize : AllSaid(t))'
    BY <1>1, <2>1, <2>2 DEF AllSaid, Said, SaidIn
  <2> QED
    BY <1>1, <2>2 DEF SummaryInv, Extracting
<1>6. OutputsInv'
  <2>1. \A t \in DOMAIN retained' : ~(t < turnAt')
    <3>1. \A t \in DOMAIN retained' : t \in Nat \ {0}
      BY <1>2, LenProperties DEF CurationTypeOK
    <3> QED
      BY <1>1, <3>1
  <2> QED
    BY <1>1, <2>1 DEF OutputsInv
<1> QED
  BY <1>2, <1>3, <1>4, <1>5, <1>6 DEF CurationInv

(* What has been said stays said as the summary grows.                     *)
LEMMA SummaryGrows ==
    ASSUME NEW old \in Seq(Sentences), NEW own \in Seq(Sentences), NEW last \in Seq(Sentences)
    PROVE  /\ old \o own \o last \in Seq(Sentences)
           /\ \A s : SaidIn(old, s) => SaidIn(old \o own \o last, s)
           /\ \A k \in DOMAIN own : SaidIn(old \o own \o last, own[k])
           /\ \A k \in DOMAIN last : SaidIn(old \o own \o last, last[k])
<1> DEFINE first == old \o own
           new   == first \o last
<1>1. /\ first \in Seq(Sentences) /\ Len(first) = Len(old) + Len(own)
      /\ \A i \in 1 .. Len(old) + Len(own) : first[i] = IF i <= Len(old) THEN old[i] ELSE own[i - Len(old)]
  BY ConcatProperties
<1> HIDE DEF first
<1>2. /\ new \in Seq(Sentences) /\ Len(new) = Len(first) + Len(last)
      /\ \A i \in 1 .. Len(first) + Len(last) : new[i] = IF i <= Len(first) THEN first[i] ELSE last[i - Len(first)]
  <2>1. first \in Seq(Sentences)
    BY <1>1
  <2> QED
    BY <2>1, ConcatProperties
<1>3. old \o own \o last = new
  BY DEF first
<1> HIDE DEF new
<1>4. /\ Len(old) \in Nat /\ Len(own) \in Nat /\ Len(last) \in Nat
      /\ DOMAIN old = 1 .. Len(old) /\ DOMAIN own = 1 .. Len(own) /\ DOMAIN last = 1 .. Len(last)
      /\ DOMAIN new = 1 .. Len(new)
  BY <1>2, LenProperties
<1>5. \A i \in DOMAIN old : i \in DOMAIN new /\ new[i] = old[i]
  BY <1>1, <1>2, <1>4
<1>6. \A k \in DOMAIN own : Len(old) + k \in DOMAIN new /\ new[Len(old) + k] = own[k]
  <2> SUFFICES ASSUME NEW k \in DOMAIN own
               PROVE  Len(old) + k \in DOMAIN new /\ new[Len(old) + k] = own[k]
    OBVIOUS
  <2>1. k \in Nat /\ k >= 1 /\ k <= Len(own)
    BY <1>4
  <2>2. Len(old) + k \in 1 .. Len(old) + Len(own) /\ ~(Len(old) + k <= Len(old)) /\ Len(old) + k - Len(old) = k
    BY <1>4, <2>1
  <2>3. first[Len(old) + k] = own[k]
    BY <1>1, <2>2
  <2>4. Len(old) + k \in 1 .. Len(first) + Len(last) /\ Len(old) + k <= Len(first)
    BY <1>1, <1>4, <2>1
  <2> QED
    BY <1>2, <1>4, <2>3, <2>4
<1>7. \A k \in DOMAIN last : Len(first) + k \in DOMAIN new /\ new[Len(first) + k] = last[k]
  <2> SUFFICES ASSUME NEW k \in DOMAIN last
               PROVE  Len(first) + k \in DOMAIN new /\ new[Len(first) + k] = last[k]
    OBVIOUS
  <2>1. k \in Nat /\ k >= 1 /\ k <= Len(last) /\ Len(first) \in Nat
    BY <1>1, <1>4
  <2>2. /\ Len(first) + k \in 1 .. Len(first) + Len(last) /\ ~(Len(first) + k <= Len(first))
        /\ Len(first) + k - Len(first) = k
    BY <1>4, <2>1
  <2> QED
    BY <1>2, <1>4, <2>2
<1>8. \A s : SaidIn(old, s) => SaidIn(new, s)
  BY <1>5 DEF SaidIn
<1>9. \A k \in DOMAIN own : SaidIn(new, own[k])
  BY <1>6 DEF SaidIn
<1>10. \A k \in DOMAIN last : SaidIn(new, last[k])
  BY <1>7 DEF SaidIn
<1> QED
  BY <1>2, <1>3, <1>8, <1>9, <1>10

LEMMA ExtractSentence_Inv == CurationInv /\ ExtractSentence => CurationInv'
<1> SUFFICES ASSUME CurationInv, ExtractSentence PROVE CurationInv'
  OBVIOUS
<1> DEFINE said == toSummarize[turnAt].content
           it   == said[sentenceAt]
           own  == IF sentenceAt = 1 \/ it.signal THEN <<it>> ELSE << >>
           last == IF sentenceAt > 1 /\ sentenceAt = Len(said) THEN <<it>> ELSE << >>
<1>1. /\ curating = "summary" /\ Extracting
      /\ turnAt <= Len(toSummarize) /\ sentenceAt <= Len(said)
      /\ historySummary' = historySummary \o own \o last /\ sentenceAt' = sentenceAt + 1
      /\ UNCHANGED <<curating, conversation, promptKept, resultTokens, toSummarize, retained, turnAt,
                     compressedOutputs>>
      /\ CurationTypeOK
  BY DEF ExtractSentence, Extracting, CurationInv
<1>2. turnAt \in DOMAIN toSummarize /\ toSummarize[turnAt] \in Turns
  <2>1. toSummarize \in Seq(Turns) /\ turnAt \in Nat \ {0}
    BY <1>1 DEF CurationTypeOK
  <2>2. turnAt \in 1 .. Len(toSummarize)
    BY <1>1, <2>1, LenProperties
  <2> QED
    BY <2>1, <2>2, ElementOfSeq, LenProperties
<1>3. said \in Seq(Sentences) /\ Len(said) \in Nat /\ DOMAIN said = 1 .. Len(said)
  BY <1>2, LenProperties DEF Turns
<1>4. /\ sentenceAt \in Nat \ {0} /\ sentenceAt \in 1 .. Len(said) /\ it \in Sentences
      /\ sentenceAt = 1 \/ sentenceAt > 1
  <2>1. sentenceAt \in Nat \ {0}
    BY <1>1 DEF CurationTypeOK
  <2>2. sentenceAt \in 1 .. Len(said)
    BY <1>1, <1>3, <2>1
  <2> QED
    BY <1>3, <2>1, <2>2, ElementOfSeq
<1>5. own \in Seq(Sentences) /\ last \in Seq(Sentences)
  BY <1>4
<1>6. /\ historySummary' \in Seq(Sentences)
      /\ \A s : Said(s) => SaidIn(historySummary', s)
      /\ \A k \in DOMAIN own : SaidIn(historySummary', own[k])
      /\ \A k \in DOMAIN last : SaidIn(historySummary', last[k])
  <2>1. historySummary \in Seq(Sentences)
    BY <1>1 DEF CurationTypeOK
  <2> HIDE DEF own, last
  <2> QED
    BY <1>1, <1>5, <2>1, SummaryGrows DEF Said
<1>7. sentenceAt = 1 \/ it.signal \/ sentenceAt = Len(said) => SaidIn(historySummary', it)
  <2>1. CASE sentenceAt = 1 \/ it.signal
    <3>1. own = <<it>>
      BY <2>1
    <3>2. 1 \in DOMAIN own /\ own[1] = it
      BY <3>1
    <3> QED
      BY <1>6, <3>2
  <2>2. CASE sentenceAt # 1 /\ sentenceAt = Len(said)
    <3>1. last = <<it>>
      <4>1. sentenceAt > 1 /\ sentenceAt = Len(said)
        BY <1>4, <2>2
      <4> QED
        BY <4>1
    <3>2. 1 \in DOMAIN last /\ last[1] = it
      BY <3>1
    <3> QED
      BY <1>6, <3>2
  <2> QED
    BY <2>1, <2>2
<1>8. CurationTypeOK'
  BY <1>1, <1>4, <1>6 DEF CurationTypeOK
<1>9. PromptInv'
  BY <1>1, PromptSettled DEF CurationInv
<1>10. TurnsInv' /\ OutputsInv'
  BY <1>1 DEF CurationInv, TurnsInv, OutputsInv
<1>11. SummaryInv'
  <2>1. ASSUME NEW t \in DOMAIN toSummarize, t < turnAt
        PROVE  AllSaid(t)'
    <3>1. AllSaid(t)
      BY <1>1, <2>1 DEF CurationInv, SummaryInv
    <3> QED
      BY <1>1, <1>6, <3>1 DEF AllSaid, Said
  <2>2. ASSUME NEW s \in Telling(said), s < sentenceAt + 1
        PROVE  SaidIn(historySummary', said[s])
    <3>1. s \in 1 .. Len(said) /\ (s = 1 \/ s = Len(said) \/ said[s].signal)
      BY <1>3 DEF Telling
    <3>2. CASE s < sentenceAt
      <4>1. Said(said[s])
        BY <1>1, <1>2, <3>2 DEF CurationInv, SummaryInv, SaidBefore
      <4> QED
        BY <1>6, <4>1
    <3>3. CASE s = sentenceAt
      BY <1>7, <3>1, <3>3
    <3> QED
      BY <1>3, <1>4, <2>2, <3>1, <3>2, <3>3
  <2>3. SaidBefore(turnAt, sentenceAt)'
    <3>1. \A s \in Telling(said) : s < sentenceAt' => SaidIn(historySummary', said[s])
      BY <1>1, <2>2
    <3> QED
      BY <1>1, <3>1 DEF SaidBefore, Said
  <2> QED
    BY <1>1, <2>1, <2>3 DEF SummaryInv, Extracting
<1> QED
  BY <1>8, <1>9, <1>10, <1>11 DEF CurationInv

LEMMA NextTurn_Inv == CurationInv /\ NextTurn => CurationInv'
<1> SUFFICES ASSUME CurationInv, NextTurn PROVE CurationInv'
  OBVIOUS
<1>1. /\ curating = "summary" /\ Extracting
      /\ turnAt <= Len(toSummarize) /\ sentenceAt > Len(toSummarize[turnAt].content)
      /\ turnAt' = turnAt + 1 /\ sentenceAt' = 1
      /\ UNCHANGED <<curating, conversation, promptKept, resultTokens, toSummarize, retained, historySummary,
                     compressedOutputs>>
      /\ CurationTypeOK
  BY DEF NextTurn, Extracting, CurationInv
<1>2. toSummarize \in Seq(Turns) /\ turnAt \in Nat \ {0} /\ sentenceAt \in Nat
  BY <1>1 DEF CurationTypeOK
<1>3. \A t \in DOMAIN toSummarize : t \in Nat \ {0} /\ toSummarize[t] \in Turns
  BY <1>2, LenProperties, ElementOfSeq
<1>4. ASSUME NEW t \in DOMAIN toSummarize
      PROVE  /\ \A s \in Telling(toSummarize[t].content) : s \in 1 .. Len(toSummarize[t].content)
             /\ Len(toSummarize[t].content) \in Nat
  <2>1. toSummarize[t].content \in Seq(Sentences)
    BY <1>3 DEF Turns
  <2> QED
    BY <2>1, LenProperties DEF Telling
<1>5. ASSUME NEW t \in DOMAIN toSummarize, t < turnAt + 1
      PROVE  AllSaid(t)
  <2>1. CASE t < turnAt
    BY <1>1, <2>1 DEF CurationInv, SummaryInv
  <2>2. CASE t = turnAt
    <3>1. SaidBefore(turnAt, sentenceAt)
      BY <1>1, <2>2 DEF CurationInv, SummaryInv
    <3>2. \A s \in Telling(toSummarize[t].content) : s < sentenceAt
      <4> DEFINE n == Len(toSummarize[t].content)
      <4>1. \A s \in Telling(toSummarize[t].content) : s \in 1 .. n
        BY <1>4
      <4>2. n \in Nat /\ n < sentenceAt
        BY <1>1, <1>4, <2>2
      <4> HIDE DEF n
      <4> QED
        BY <1>2, <4>1, <4>2
    <3> QED
      BY <2>2, <3>1, <3>2 DEF SaidBefore, AllSaid
  <2> QED
    BY <1>2, <1>3, <1>5, <2>1, <2>2
<1>6. CurationTypeOK'
  BY <1>1, <1>2 DEF CurationTypeOK
<1>7. PromptInv'
  BY <1>1, PromptSettled DEF CurationInv
<1>8. TurnsInv' /\ OutputsInv'
  BY <1>1 DEF CurationInv, TurnsInv, OutputsInv
<1>9. SummaryInv'
  <2>1. \A t \in DOMAIN toSummarize : t < turnAt' => AllSaid(t)'
    BY <1>1, <1>5 DEF AllSaid, Said, SaidIn
  <2>2. turnAt' \in DOMAIN toSummarize => SaidBefore(turnAt, sentenceAt)'
    <3> SUFFICES ASSUME turnAt' \in DOMAIN toSummarize
                 PROVE  SaidBefore(turnAt, sentenceAt)'
      OBVIOUS
    <3>1. \A s \in Telling(toSummarize[turnAt'].content) : ~(s < 1)
      BY <1>4
    <3> QED
      BY <1>1, <3>1 DEF SaidBefore
  <2> QED
    BY <1>1, <2>1, <2>2 DEF SummaryInv, Extracting
<1> QED
  BY <1>6, <1>7, <1>8, <1>9 DEF CurationInv

LEMMA SummarizeByModel_Inv == CurationInv /\ SummarizeByModel => CurationInv'
<1> SUFFICES ASSUME CurationInv, SummarizeByModel PROVE CurationInv'
  OBVIOUS
<1>1. PICK reply \in Replies : Summarized(reply)
  BY DEF SummarizeByModel
<1>2. curating = "summary" /\ conversation.summarizer = "model" /\ reply \in Seq(Sentences)
  BY CurationAssumption DEF SummarizeByModel
<1> QED
  BY <1>1, <1>2, Summarized_Inv

LEMMA EndExtract_Inv == CurationInv /\ EndExtract => CurationInv'
<1> SUFFICES ASSUME CurationInv, EndExtract PROVE CurationInv'
  OBVIOUS
<1>1. curating = "summary" /\ turnAt > Len(toSummarize) /\ Summarized(historySummary)
  BY DEF EndExtract, Extracting
<1>2. PICK text : text = historySummary
  OBVIOUS
<1>3. text \in Seq(Sentences) /\ Summarized(text)
  BY <1>1, <1>2 DEF CurationInv, CurationTypeOK
<1> QED
  BY <1>1, <1>2, <1>3, Summarized_Inv

(* The steps of the last loop leave the prompt and the summary alone.      *)
LEMMA LoopOverTools ==
    ASSUME CurationInv, curating = "tools",
           UNCHANGED <<conversation, promptKept, resultTokens, toSummarize, retained, sentenceAt, historySummary>>,
           curating' \in {"tools", "done", "failed"}
    PROVE  /\ PromptInv' /\ SummaryInv'
           /\ toSummarize' \o retained' = conversation'.turns
<1>1. PromptInv'
  BY PromptSettled DEF CurationInv
<1>2. SummaryInv'
  BY DEF CurationInv, SummaryInv, Extracting, AllSaid, Said, SaidIn
<1> QED
  BY <1>1, <1>2 DEF CurationInv, TurnsInv

LEMMA PassTurn_Inv == CurationInv /\ PassTurn => CurationInv'
<1> SUFFICES ASSUME CurationInv, PassTurn PROVE CurationInv'
  OBVIOUS
<1>1. /\ curating = "tools" /\ ~Replaceable(retained[turnAt]) /\ turnAt' = turnAt + 1
      /\ UNCHANGED <<curating, conversation, promptKept, resultTokens, toSummarize, retained, sentenceAt,
                     historySummary, compressedOutputs>>
      /\ CurationTypeOK
  BY DEF PassTurn, AtTool, CurationInv
<1>2. CurationTypeOK'
  BY <1>1 DEF CurationTypeOK
<1>3. PromptInv' /\ SummaryInv' /\ TurnsInv'
  BY <1>1, LoopOverTools DEF TurnsInv
<1>4. OutputsInv'
  <2>1. \A t \in DOMAIN retained : t < turnAt + 1 /\ Replaceable(retained[t]) => t < turnAt
    <3>1. turnAt \in Nat /\ \A t \in DOMAIN retained : t \in Nat
      BY <1>1, LenProperties DEF CurationTypeOK
    <3> QED
      BY <1>1, <3>1
  <2> QED
    BY <1>1, <2>1 DEF CurationInv, OutputsInv, HeldFor
<1> QED
  BY <1>2, <1>3, <1>4 DEF CurationInv

(* The head and the tail of an output are lines of it.                     *)
LEMMA SampleOfLines ==
    ASSUME NEW lines \in Seq(Sentences)
    PROVE  HeadAndTail(lines) \in Seq(Sentences)
<1>1. Len(lines) \in Nat /\ \A i \in 1 .. Len(lines) : lines[i] \in Sentences
  BY LenProperties, ElementOfSeq
<1>2. ASSUME NEW m \in Nat \ {0}, NEW n \in Nat, n <= Len(lines)
      PROVE  SubSeq(lines, m, n) \in Seq(Sentences)
  <2>1. m \in Int /\ n \in Int /\ \A i \in m .. n : lines[i] \in Sentences
    BY <1>1, <1>2
  <2> QED
    BY <2>1, SubSeqProperties
<1>3. CASE Len(lines) > 5
  <2>1. SubSeq(lines, 1, 3) \in Seq(Sentences)
    BY <1>1, <1>2, <1>3
  <2>2. SubSeq(lines, Len(lines) - 1, Len(lines)) \in Seq(Sentences)
    <3>1. PICK m : m = Len(lines) - 1
      OBVIOUS
    <3>2. m \in Nat \ {0} /\ Len(lines) \in Nat /\ Len(lines) <= Len(lines)
      BY <1>1, <1>3, <3>1
    <3>3. SubSeq(lines, m, Len(lines)) \in Seq(Sentences)
      BY <1>2, <3>2
    <3> QED
      BY <3>1, <3>3
  <2> QED
    BY <1>3, <2>1, <2>2, ConcatProperties DEF HeadAndTail
<1>4. CASE ~(Len(lines) > 5)
  <2> DEFINE n == IF Len(lines) < 3 THEN Len(lines) ELSE 3
  <2>1. n \in Nat /\ n <= Len(lines)
    BY <1>1
  <2>2. SubSeq(lines, 1, n) \in Seq(Sentences)
    <3> HIDE DEF n
    <3> QED
      BY <1>2, <2>1
  <2> QED
    BY <1>4, <2>2 DEF HeadAndTail
<1> QED
  BY <1>3, <1>4

LEMMA CompressOutput_Inv == CurationInv /\ CompressOutput => CurationInv'
<1> SUFFICES ASSUME CurationInv, CompressOutput PROVE CurationInv'
  OBVIOUS
<1> DEFINE turn == retained[turnAt]
           n    == Len(compressedOutputs)
<1>1. PICK summary \in SummariesOf(turn.content) :
        compressedOutputs' = Append(compressedOutputs,
           [summary |-> summary, full_output |-> turn.content,
            original_tokens |-> turn.tokens, summary_tokens |-> SummaryTokens[summary]])
  BY DEF CompressOutput
<1> DEFINE made == [summary |-> summary, full_output |-> turn.content,
                      original_tokens |-> turn.tokens, summary_tokens |-> SummaryTokens[summary]]
<1>2. /\ curating = "tools" /\ Replaceable(turn) /\ turnAt <= Len(retained) /\ turnAt' = turnAt + 1
      /\ UNCHANGED <<curating, conversation, promptKept, resultTokens, toSummarize, retained, sentenceAt,
                     historySummary>>
      /\ CurationTypeOK
  BY DEF CompressOutput, AtTool, CurationInv
<1>3. /\ turnAt \in Nat \ {0} /\ turnAt \in DOMAIN retained /\ turn \in Turns
      /\ \A t \in DOMAIN retained : t \in Nat
  <2>1. retained \in Seq(Turns) /\ turnAt \in Nat \ {0}
    BY <1>2 DEF CurationTypeOK
  <2>2. turnAt \in 1 .. Len(retained)
    BY <1>2, <2>1, LenProperties
  <2> QED
    BY <2>1, <2>2, ElementOfSeq, LenProperties
<1>4. made \in Outputs
  <2>1. turn.content \in Seq(Sentences) /\ turn.tokens \in Nat
    BY <1>3 DEF Turns
  <2>2. summary \in Seq(Sentences)
    <3>1. summary \in Replies \/ summary = HeadAndTail(turn.content)
      BY DEF SummariesOf
    <3> QED
      BY <2>1, <3>1, SampleOfLines, CurationAssumption
  <2> HIDE DEF turn
  <2> QED
    BY <2>1, <2>2 DEF Outputs
<1>5. made.full_output = turn.content /\ made.original_tokens = turn.tokens
  OBVIOUS
<1> HIDE DEF made
<1>6. /\ compressedOutputs' \in Seq(Outputs) /\ n \in Nat
      /\ DOMAIN compressedOutputs = 1 .. n /\ DOMAIN compressedOutputs' = 1 .. n + 1
      /\ \A k \in 1 .. n : compressedOutputs'[k] = compressedOutputs[k]
      /\ compressedOutputs'[n + 1] = made
  <2>1. compressedOutputs \in Seq(Outputs)
    BY <1>2 DEF CurationTypeOK
  <2>2. compressedOutputs' = Append(compressedOutputs, made)
    BY <1>1 DEF made
  <2>3. /\ compressedOutputs' \in Seq(Outputs) /\ Len(compressedOutputs') = n + 1
        /\ \A k \in 1 .. n : compressedOutputs'[k] = compressedOutputs[k]
        /\ compressedOutputs'[n + 1] = made
    BY <1>4, <2>1, <2>2, AppendProperties
  <2> QED
    BY <2>1, <2>3, LenProperties
<1>7. CurationTypeOK'
  BY <1>2, <1>3, <1>6 DEF CurationTypeOK
<1>8. PromptInv' /\ SummaryInv' /\ TurnsInv'
  BY <1>2, LoopOverTools DEF TurnsInv
<1>9. OutputsInv'
  <2>1. ASSUME NEW t \in DOMAIN retained, t < turnAt + 1, Replaceable(retained[t])
        PROVE  \E k \in DOMAIN compressedOutputs' : HeldFor(t, k)'
    <3>1. CASE t < turnAt
      <4>1. PICK k \in 1 .. n : HeldFor(t, k)
        BY <1>2, <1>6, <2>1, <3>1 DEF CurationInv, OutputsInv
      <4>2. k \in 1 .. n + 1
        BY <1>6
      <4> QED
        BY <1>2, <1>6, <4>1, <4>2 DEF HeldFor
    <3>2. CASE t = turnAt
      <4>1. n + 1 \in 1 .. n + 1
        BY <1>6
      <4>2. compressedOutputs'[n + 1].full_output = turn.content /\ compressedOutputs'[n + 1].original_tokens = turn.tokens
        BY <1>5, <1>6
      <4>3. PICK k : k = n + 1
        OBVIOUS
      <4>4. HeldFor(t, k)'
        BY <1>2, <3>2, <4>2, <4>3 DEF HeldFor
      <4> QED
        BY <1>6, <4>1, <4>3, <4>4
    <3> QED
      BY <1>3, <2>1, <3>1, <3>2
  <2>2. ASSUME NEW k \in 1 .. n + 1
        PROVE  \E t \in DOMAIN retained :
                  Replaceable(retained[t]) /\ compressedOutputs'[k].full_output = retained[t].content
    <3>1. CASE k \in 1 .. n
      BY <1>2, <1>6, <3>1 DEF CurationInv, OutputsInv
    <3>2. CASE k = n + 1
      BY <1>2, <1>3, <1>5, <1>6, <3>2
    <3> QED
      BY <1>6, <3>1, <3>2
  <2> QED
    BY <1>2, <1>6, <2>1, <2>2 DEF OutputsInv
<1> QED
  BY <1>7, <1>8, <1>9 DEF CurationInv

LEMMA EndCuration_Inv == CurationInv /\ EndCuration => CurationInv'
<1> SUFFICES ASSUME CurationInv, EndCuration PROVE CurationInv'
  OBVIOUS
<1>1. /\ curating = "tools" /\ turnAt > Len(retained) /\ curating' = "done"
      /\ UNCHANGED <<conversation, promptKept, resultTokens, toSummarize, retained, turnAt, sentenceAt,
                     historySummary, compressedOutputs>>
  BY DEF EndCuration
<1>2. CurationTypeOK'
  BY <1>1 DEF CurationInv, CurationTypeOK, CuratingStages
<1>3. PromptInv' /\ SummaryInv' /\ TurnsInv'
  BY <1>1, LoopOverTools DEF TurnsInv
<1>4. OutputsInv'
  BY <1>1 DEF CurationInv, OutputsInv, HeldFor
<1> QED
  BY <1>2, <1>3, <1>4 DEF CurationInv

LEMMA FailCuration_Inv == CurationInv /\ FailCuration => CurationInv'
<1> SUFFICES ASSUME CurationInv, FailCuration PROVE CurationInv'
  OBVIOUS
<1>1. /\ curating \in {"summary", "tools"} /\ curating' = "failed"
      /\ UNCHANGED <<conversation, promptKept, resultTokens, toSummarize, retained, turnAt, sentenceAt,
                     historySummary, compressedOutputs>>
  BY DEF FailCuration, AtTool
<1>2. CurationTypeOK'
  BY <1>1 DEF CurationInv, CurationTypeOK, CuratingStages
<1>3. PromptInv'
  BY <1>1, PromptSettled DEF CurationInv
<1>4. TurnsInv' /\ SummaryInv' /\ OutputsInv'
  BY <1>1 DEF TurnsInv, SummaryInv, Extracting, OutputsInv
<1> QED
  BY <1>2, <1>3, <1>4 DEF CurationInv

LEMMA CurationNext_Inv == CurationInv /\ [CurationNext]_curationVars => CurationInv'
<1> SUFFICES ASSUME CurationInv, [CurationNext]_curationVars PROVE CurationInv'
  OBVIOUS
<1>1. CASE Curate
  BY <1>1, Curate_Inv
<1>2. CASE KeepSentence
  BY <1>2, KeepSentence_Inv
<1>3. CASE CutPrompt
  BY <1>3, CutPrompt_Inv
<1>4. CASE PartitionTurns
  BY <1>4, PartitionTurns_Inv
<1>5. CASE SummarizeByModel
  BY <1>5, SummarizeByModel_Inv
<1>6. CASE ExtractSentence
  BY <1>6, ExtractSentence_Inv
<1>7. CASE NextTurn
  BY <1>7, NextTurn_Inv
<1>8. CASE EndExtract
  BY <1>8, EndExtract_Inv
<1>9. CASE PassTurn
  BY <1>9, PassTurn_Inv
<1>10. CASE CompressOutput
  BY <1>10, CompressOutput_Inv
<1>11. CASE FailCuration
  BY <1>11, FailCuration_Inv
<1>12. CASE EndCuration
  BY <1>12, EndCuration_Inv
<1>13. CASE UNCHANGED curationVars
  <2>1. CurationTypeOK'
    BY <1>13 DEF curationVars, CurationInv, CurationTypeOK
  <2>2. PromptInv' /\ TurnsInv'
    BY <1>13 DEF curationVars, CurationInv, PromptInv, PromptCut, PromptWhole, PrefixFits, TurnsInv, TurnsUntouched
  <2>3. SummaryInv' /\ OutputsInv'
    BY <1>13 DEF curationVars, CurationInv, SummaryInv, Extracting, AllSaid, SaidBefore, Said, SaidIn,
                 OutputsInv, HeldFor
  <2> QED
    BY <2>1, <2>2, <2>3 DEF CurationInv
<1> QED
  BY <1>1, <1>2, <1>3, <1>4, <1>5, <1>6, <1>7, <1>8, <1>9, <1>10, <1>11, <1>12, <1>13 DEF CurationNext

(* For every set of conversations and every reply of a model, a prompt     *)
(* that may be cut keeps to its budget or is cut to nothing, and is cut    *)
(* only if it exceeds it, behind a sentence.  A sum of the tokens of its   *)
(* sentences bounds the tokens of the sentences together.                  *)
THEOREM PromptsFit == CurationSpec => []PromptFits
<1>1. CurationInv => PromptFits
  <2> SUFFICES ASSUME CurationInv, curating = "done" PROVE PromptFits
    BY DEF PromptFits
  <2> DEFINE phrase == conversation.prompt
  <2>1. /\ phrase \in Prompts /\ Len(phrase) \in Nat /\ conversation.budget \in Nat
        /\ promptKept \in Nat /\ promptKept <= Len(phrase) /\ TokensOf(phrase) \in Nat
    BY CallFacts DEF CurationInv
  <2>2. promptKept \in 0 .. Len(phrase)
    BY <2>1
  <2>3. /\ Len(FinalPrompt) = promptKept
        /\ \A i \in 1 .. promptKept : FinalPrompt[i] = phrase[i]
        /\ TokensOf(FinalPrompt) = EstimateTokens(phrase, 1, promptKept)
    BY <2>1, <2>2, TokensOfKept DEF FinalPrompt
  <2>4. promptKept = Len(phrase) => FinalPrompt = phrase
    BY <2>1, SubSeqFull DEF FinalPrompt, Prompts
  <2>5. promptKept = 0 => FinalPrompt = << >>
    <3>1. 1 \in Int /\ 0 \in Int /\ 0 < 1
      OBVIOUS
    <3> QED
      BY <3>1, SubSeqEmpty DEF FinalPrompt
  <2>6. CASE PromptWhole
    BY <2>4, <2>6 DEF PromptFits, PromptWhole
  <2>7. CASE PromptCut
    <3>1. conversation.truncate /\ TokensOf(phrase) > conversation.budget
      BY <2>7 DEF PromptCut
    <3>2. FinalPrompt = << >> \/ TokensOf(FinalPrompt) <= conversation.budget
      <4>1. CASE promptKept = 0
        BY <2>5, <4>1
      <4>2. CASE promptKept > 0
        <5>1. /\ EstimateTokens(phrase, 1, promptKept) <= resultTokens /\ resultTokens <= conversation.budget
              /\ resultTokens \in Nat
          BY <2>7, <4>2 DEF PromptCut, PrefixFits, CurationInv, CurationTypeOK
        <5>2. EstimateTokens(phrase, 1, promptKept) \in Nat
          BY <2>1, WordsOfStretch
        <5> QED
          BY <2>1, <2>3, <5>1, <5>2
      <4> QED
        BY <2>1, <4>1, <4>2
    <3>3. ASSUME FinalPrompt # phrase, FinalPrompt # << >>
          PROVE  Last(FinalPrompt) \in SentenceEnds
      <4>1. promptKept > 0 /\ promptKept < Len(phrase)
        BY <2>1, <2>4, <2>5, <3>3
      <4>2. phrase[promptKept] \in SentenceEnds
        BY <2>7, <4>1 DEF PromptCut, PrefixFits
      <4>3. promptKept \in 1 .. promptKept
        BY <2>1, <4>1
      <4> QED
        BY <2>3, <4>2, <4>3 DEF Last
    <3> QED
      BY <3>1, <3>2, <3>3 DEF PromptFits
  <2> QED
    BY <2>6, <2>7 DEF CurationInv, PromptInv
<1> QED
  BY <1>1, CurationInit_Inv, CurationNext_Inv, PTL DEF CurationSpec

(* For the same constants, no turn is lost or doubled by the split, an     *)
(* extract has the telling sentences of every old turn, and of the         *)
(* retained turns the long outputs that need not stay inline, and no       *)
(* others, are compressed, each kept in full.                              *)
THEOREM NoTurnIsLost == CurationSpec => []TurnsAreAccountedFor
<1>1. CurationInv => TurnsAreAccountedFor
  <2> SUFFICES ASSUME CurationInv, curating = "done" PROVE TurnsAreAccountedFor
    BY DEF TurnsAreAccountedFor
  <2>1. toSummarize \o retained = conversation.turns /\ turnAt > Len(retained)
    BY DEF CurationInv, TurnsInv
  <2>2. ASSUME conversation.summarizer = "extract"
        PROVE  \A t \in DOMAIN toSummarize : \A s \in Telling(toSummarize[t].content) :
                  \E p \in DOMAIN historySummary : historySummary[p] = toSummarize[t].content[s]
    BY <2>2 DEF CurationInv, SummaryInv, AllSaid, Said, SaidIn
  <2>3. \A t \in DOMAIN retained : t < turnAt
    <3>1. retained \in Seq(Turns) /\ turnAt \in Nat
      BY DEF CurationInv, CurationTypeOK
    <3> QED
      BY <2>1, <3>1, LenProperties
  <2> QED
    BY <2>1, <2>2, <2>3 DEF TurnsAreAccountedFor, CurationInv, OutputsInv, HeldFor
<1> QED
  BY <1>1, CurationInit_Inv, CurationNext_Inv, PTL DEF CurationSpec

-----------------------------------------------------------------------------
\* Fusion

(* A list of numbers has a smallest one.                                   *)
LEMMA SmallestOfList ==
    ASSUME NEW n \in Nat \ {0}, NEW f \in [1 .. n -> Int]
    PROVE  \E m \in 1 .. n : \A k \in 1 .. n : f[m] <= f[k]
<1> DEFINE Least(b, m) == m \in 1 .. b /\ \A k \in 1 .. b : f[m] <= f[k]
           Fails == {b \in 1 .. n : ~ \E m \in 1 .. n : Least(b, m)}
<1>1. ASSUME Fails # {} PROVE FALSE
  <2>1. Fails \in SUBSET Nat
    OBVIOUS
  <2>2. PICK b \in Fails : \A c \in Fails : b <= c
    BY <1>1, <2>1, LeastNumber
  <2>3. b # 1
    <3>1. Least(1, 1)
      OBVIOUS
    <3>2. QED
      BY <3>1
  <2>4. PICK m \in 1 .. n : Least(b - 1, m)
    <3>1. b - 1 \in 1 .. n /\ ~(b <= b - 1)
      BY <2>2, <2>3
    <3>2. b - 1 \notin Fails
      BY <2>2, <3>1
    <3>3. QED
      BY <3>1, <3>2
  <2>5. CASE f[m] <= f[b]
    <3>1. Least(b, m)
      BY <2>2, <2>4, <2>5
    <3>2. QED
      BY <2>2, <3>1
  <2>6. CASE ~(f[m] <= f[b])
    <3>1. \A k \in 1 .. b : f[b] <= f[k]
      <4>1. ASSUME NEW k \in 1 .. b PROVE f[b] <= f[k]
        <5>1. k = b \/ f[m] <= f[k]
          BY <2>4
        <5>2. f[b] \in Int /\ f[m] \in Int /\ f[k] \in Int
          BY <2>2
        <5>3. QED
          BY <2>6, <5>1, <5>2
      <4>2. QED
        BY <4>1
    <3>2. Least(b, b)
      BY <2>2, <3>1
    <3>3. QED
      BY <2>2, <3>2
  <2>7. QED
    BY <2>5, <2>6
<1>2. PICK m \in 1 .. n : Least(n, m)
  <2>1. n \in 1 .. n
    OBVIOUS
  <2>2. Fails = {}
    BY <1>1
  <2>3. QED
    BY <2>1, <2>2
<1>3. QED
  BY <1>2

(* What a list has are hits.                                               *)
LEMMA HitsOfList ==
    ASSUME NEW list \in Seq(Hits)
    PROVE  /\ Len(list) \in Nat /\ DOMAIN list = 1 .. Len(list)
           /\ \A i \in 1 .. Len(list) : list[i].id \in Nat /\ list[i].score \in Int
<1>1. \A i \in 1 .. Len(list) : list[i] \in Hits
  BY ElementOfSeq
<1>2. QED
  BY <1>1 DEF Hits

(* The scores of a list lie between its lowest and its highest.            *)
LEMMA LowestIs ==
    ASSUME NEW list \in Seq(Hits), list # << >>
    PROVE  /\ Lowest(list) \in Int
           /\ \A i \in DOMAIN list : list[i].score \in Int /\ Lowest(list) <= list[i].score
<1> DEFINE f == [i \in 1 .. Len(list) |-> list[i].score]
<1>1. Len(list) \in Nat \ {0} /\ DOMAIN list = 1 .. Len(list)
  BY EmptySeq
<1>2. \A i \in 1 .. Len(list) : list[i].score \in Int
  BY HitsOfList
<1>3. PICK m \in 1 .. Len(list) : \A k \in 1 .. Len(list) : f[m] <= f[k]
  <2>1. f \in [1 .. Len(list) -> Int]
    BY <1>2
  <2> HIDE DEF f
  <2>2. QED
    BY <1>1, <2>1, SmallestOfList
<1>4. list[m].score \in ScoresIn(list) /\ \A x \in ScoresIn(list) : list[m].score =< x
  BY <1>1, <1>3 DEF ScoresIn
<1>5. Lowest(list) \in ScoresIn(list) /\ \A x \in ScoresIn(list) : Lowest(list) =< x
  BY <1>4 DEF Lowest, Min
<1>6. QED
  BY <1>1, <1>2, <1>5 DEF ScoresIn

LEMMA SpreadPositive ==
    ASSUME NEW list \in Seq(Hits)
    PROVE  Spread(list) \in Nat \ {0}
<1>1. CASE list = << >>
  BY <1>1 DEF Spread
<1>2. CASE list # << >>
  <2> DEFINE f == [i \in 1 .. Len(list) |-> 0 - list[i].score]
  <2>1. Len(list) \in Nat \ {0} /\ DOMAIN list = 1 .. Len(list)
    BY <1>2, EmptySeq
  <2>2. \A i \in 1 .. Len(list) : list[i].score \in Int
    BY HitsOfList
  <2>3. PICK m \in 1 .. Len(list) : \A k \in 1 .. Len(list) : f[m] <= f[k]
    <3>1. f \in [1 .. Len(list) -> Int]
      BY <2>2
    <3> HIDE DEF f
    <3>2. QED
      BY <2>1, <3>1, SmallestOfList
  <2>4. PICK top \in ScoresIn(list) \cup {0} : \A x \in ScoresIn(list) \cup {0} : top >= x
    <3>1. \A k \in 1 .. Len(list) : list[m].score >= list[k].score
      BY <2>2, <2>3
    <3>2. CASE list[m].score >= 0
      BY <2>1, <2>2, <3>1, <3>2 DEF ScoresIn
    <3>3. CASE ~(list[m].score >= 0)
      <4>1. \A k \in 1 .. Len(list) : 0 >= list[k].score
        BY <2>2, <3>1, <3>3
      <4>2. QED
        BY <2>1, <4>1 DEF ScoresIn
    <3>4. QED
      BY <3>2, <3>3
  <2>5. Highest(list) \in ScoresIn(list) \cup {0} /\ \A x \in ScoresIn(list) \cup {0} : Highest(list) >= x
    BY <2>4 DEF Highest, Max
  <2>6. Highest(list) \in Int
    BY <2>1, <2>2, <2>5 DEF ScoresIn
  <2>7. Lowest(list) \in Int /\ Lowest(list) <= list[1].score
    BY <1>2, <2>1, LowestIs
  <2>8. list[1].score \in Int /\ list[1].score <= Highest(list)
    <3>1. 1 \in DOMAIN list
      BY <2>1
    <3>2. list[1].score \in ScoresIn(list)
      BY <3>1 DEF ScoresIn
    <3>3. QED
      BY <2>1, <2>2, <2>5, <2>6, <3>2
  <2>9. QED
    BY <1>2, <2>6, <2>7, <2>8 DEF Spread
<1>3. QED
  BY <1>1, <1>2

(* Multiplying by a positive number keeps the order.                       *)
LEMMA TimesKeepsOrder ==
    ASSUME NEW c \in Nat \ {0}, NEW x \in Nat, NEW y \in Nat
    PROVE  c * x \in Nat /\ (x < y => c * x < c * y) /\ (x <= y => c * x <= c * y)
<1>1. c * x \in Nat /\ c * y \in Nat
  OBVIOUS
<1>2. ASSUME NEW d \in Nat, y = x + d PROVE c * y = c * x + c * d /\ c * d \in Nat /\ (d > 0 => c * d > 0)
  BY <1>2
<1>3. ASSUME x <= y PROVE c * x <= c * y /\ (x < y => c * x < c * y)
  <2>1. PICK d \in Nat : d = y - x
    BY <1>3
  <2>2. y = x + d
    BY <2>1
  <2>3. c * y = c * x + c * d /\ c * d \in Nat /\ (d > 0 => c * d > 0)
    BY <1>2, <2>2
  <2>4. PICK p \in Nat : p = c * x
    BY <1>1
  <2>5. PICK q \in Nat : q = c * d
    BY <2>3
  <2>6. QED
    BY <2>1, <2>3, <2>4, <2>5
<1>4. QED
  BY <1>1, <1>3

LEMMA WorthGrows ==
    ASSUME NEW list \in Seq(Hits), NEW other \in Seq(Hits), NEW weight \in Nat \ {0},
           NEW i \in DOMAIN list, NEW j \in DOMAIN list
    PROVE  /\ Worth(list, other, weight, list[i].score) \in Nat
           /\ list[i].score < list[j].score =>
                Worth(list, other, weight, list[i].score) < Worth(list, other, weight, list[j].score)
           /\ list[i].score <= list[j].score =>
                Worth(list, other, weight, list[i].score) <= Worth(list, other, weight, list[j].score)
<1>1. PICK s \in Nat \ {0} : s = Spread(other)
  BY SpreadPositive
<1>2. PICK c \in Nat \ {0} : c = weight * Spread(other)
  <2>1. weight * 1 <= weight * s
    BY <1>1, TimesKeepsOrder
  <2>2. weight * s \in Nat
    BY <1>1
  <2>3. QED
    BY <1>1, <2>1, <2>2
<1>3. list # << >>
  BY EmptySeq
<1>4. Lowest(list) \in Int /\ list[i].score \in Int /\ list[j].score \in Int
      /\ Lowest(list) <= list[i].score /\ Lowest(list) <= list[j].score
  BY <1>3, LowestIs
<1>5. PICK x \in Nat : x = list[i].score - Lowest(list)
  BY <1>4
<1>6. PICK y \in Nat : y = list[j].score - Lowest(list)
  BY <1>4
<1>7. /\ Worth(list, other, weight, list[i].score) = c * x
      /\ Worth(list, other, weight, list[j].score) = c * y
  BY <1>2, <1>5, <1>6 DEF Worth
<1>8. (list[i].score < list[j].score => x < y) /\ (list[i].score <= list[j].score => x <= y)
  BY <1>4, <1>5, <1>6
<1>9. QED
  BY <1>7, <1>8, TimesKeepsOrder

FirstIds(list, n) == {list[i].id : i \in 1 .. n}

\* What the first n hits of a list are worth to a stub.
Gain(list, other, weight, n, id) ==
    IF id \in FirstIds(list, n)
    THEN Worth(list, other, weight, list[CHOOSE i \in 1 .. n : list[i].id = id].score) ELSE 0

LEMMA GainIs ==
    ASSUME NEW list \in Seq(Hits), OncePerId(list), NEW other, NEW weight,
           NEW n \in 0 .. Len(list), NEW i \in 1 .. n
    PROVE  Gain(list, other, weight, n, list[i].id) = Worth(list, other, weight, list[i].score)
<1>1. PICK k : k = CHOOSE m \in 1 .. n : list[m].id = list[i].id
  OBVIOUS
<1>2. k \in 1 .. n /\ list[k].id = list[i].id
  BY <1>1
<1>3. k = i
  BY <1>2, HitsOfList DEF OncePerId
<1>4. QED
  BY <1>1, <1>3 DEF Gain, FirstIds

LEMMA NextGain ==
    ASSUME NEW list \in Seq(Hits), OncePerId(list), NEW other \in Seq(Hits), NEW weight \in Nat \ {0},
           NEW n \in 0 .. Len(list), n < Len(list), NEW id
    PROVE  /\ FirstIds(list, n + 1) = FirstIds(list, n) \cup {list[n + 1].id}
           /\ Gain(list, other, weight, n + 1, id)
                = Gain(list, other, weight, n, id)
                  + (IF id = list[n + 1].id THEN Worth(list, other, weight, list[n + 1].score) ELSE 0)
<1>1. Len(list) \in Nat /\ DOMAIN list = 1 .. Len(list) /\ n + 1 \in 1 .. Len(list) /\ n + 1 \in 0 .. Len(list)
  BY HitsOfList
<1>2. FirstIds(list, n + 1) = FirstIds(list, n) \cup {list[n + 1].id}
  <2>1. 1 .. n + 1 = 1 .. n \cup {n + 1}
    BY <1>1
  <2>2. QED
    BY <2>1 DEF FirstIds
<1>3. list[n + 1].id \notin FirstIds(list, n)
  <2>1. ASSUME NEW i \in 1 .. n PROVE list[i].id # list[n + 1].id
    <3>1. i \in DOMAIN list /\ n + 1 \in DOMAIN list /\ i # n + 1
      BY <1>1
    <3>2. QED
      BY <3>1 DEF OncePerId
  <2>2. QED
    BY <2>1 DEF FirstIds
<1>4. CASE id = list[n + 1].id
  <2>1. Gain(list, other, weight, n + 1, id) = Worth(list, other, weight, list[n + 1].score)
    <3>1. n + 1 \in 1 .. n + 1
      BY <1>1
    <3>2. Gain(list, other, weight, n + 1, list[n + 1].id) = Worth(list, other, weight, list[n + 1].score)
      BY <1>1, <3>1, GainIs
    <3>3. QED
      BY <1>4, <3>2
  <2>2. Gain(list, other, weight, n, id) = 0
    BY <1>3, <1>4 DEF Gain
  <2>3. Worth(list, other, weight, list[n + 1].score) \in Nat
    BY <1>1, WorthGrows
  <2>4. QED
    BY <1>2, <1>4, <2>1, <2>2, <2>3
<1>5. CASE id # list[n + 1].id /\ id \in FirstIds(list, n)
  <2>1. PICK i \in 1 .. n : list[i].id = id
    BY <1>5 DEF FirstIds
  <2>2. i \in 1 .. n + 1
    BY <1>1
  <2>3. Gain(list, other, weight, n + 1, list[i].id) = Worth(list, other, weight, list[i].score)
    BY <1>1, <2>2, GainIs
  <2>4. Gain(list, other, weight, n, list[i].id) = Worth(list, other, weight, list[i].score)
    BY <2>1, GainIs
  <2>5. i \in DOMAIN list
    BY <1>1
  <2>6. Worth(list, other, weight, list[i].score) \in Nat
    BY <2>5, WorthGrows
  <2>7. QED
    BY <1>2, <1>5, <2>1, <2>3, <2>4, <2>6
<1>6. CASE id # list[n + 1].id /\ id \notin FirstIds(list, n)
  <2>1. id \notin FirstIds(list, n + 1)
    BY <1>2, <1>6
  <2>2. QED
    BY <1>2, <1>6, <2>1 DEF Gain
<1>7. QED
  BY <1>4, <1>5, <1>6

LEMMA GainIsNat ==
    ASSUME NEW list \in Seq(Hits), OncePerId(list), NEW other \in Seq(Hits), NEW weight \in Nat \ {0},
           NEW n \in 0 .. Len(list), NEW id
    PROVE  Gain(list, other, weight, n, id) \in Nat
<1>1. CASE id \in FirstIds(list, n)
  <2>1. PICK i \in 1 .. n : list[i].id = id
    BY <1>1 DEF FirstIds
  <2>2. Gain(list, other, weight, n, list[i].id) = Worth(list, other, weight, list[i].score)
    BY <2>1, GainIs
  <2>3. i \in DOMAIN list
    BY HitsOfList
  <2>4. QED
    BY <2>1, <2>2, <2>3, WorthGrows
<1>2. CASE id \notin FirstIds(list, n)
  BY <1>2 DEF Gain
<1>3. QED
  BY <1>1, <1>2

(* A stub that a list has below another gains less from it; one that it    *)
(* has not above the other gains no more.                                  *)
LEMMA BelowGainsLess ==
    ASSUME NEW list \in Seq(Hits), OncePerId(list), NEW other \in Seq(Hits), NEW weight \in Nat \ {0},
           NEW a, NEW b
    PROVE  LET gain(id) == Gain(list, other, weight, Len(list), id)
           IN  /\ Below(list, a, b) => gain(a) < gain(b)
               /\ NotAbove(list, a, b) => gain(a) <= gain(b)
<1> DEFINE n == Len(list)
           gain(id) == Gain(list, other, weight, n, id)
           worth(i) == Worth(list, other, weight, list[i].score)
<1>1. n \in Nat /\ DOMAIN list = 1 .. n /\ n \in 0 .. Len(list)
  BY HitsOfList
<1>2. \A i \in 1 .. n : gain(list[i].id) = worth(i) /\ worth(i) \in Nat
  BY <1>1, GainIs, WorthGrows
<1>3. \A id : gain(id) \in Nat
  BY <1>1, GainIsNat
<1>4. \A id : id \notin IdsOf(list) => gain(id) = 0
  BY <1>1 DEF Gain, FirstIds, IdsOf
<1>5. \A i, j \in 1 .. n : /\ list[i].score < list[j].score => worth(i) < worth(j)
                           /\ list[i].score <= list[j].score => worth(i) <= worth(j)
  BY <1>1, WorthGrows
<1> HIDE DEF gain, worth
<1>6. ASSUME Below(list, a, b) PROVE gain(a) < gain(b)
  <2>1. PICK i \in 1 .. n, j \in 1 .. n : /\ list[j].id = b /\ list[i].score < list[j].score
                                          /\ list[i].id = a \/ a \notin IdsOf(list)
    BY <1>1, <1>6 DEF Below
  <2>2. worth(i) < worth(j) /\ worth(i) \in Nat /\ worth(j) \in Nat /\ gain(b) = worth(j)
    BY <1>2, <1>5, <2>1
  <2>3. CASE list[i].id = a
    <3>1. gain(a) = worth(i)
      BY <1>2, <2>3
    <3>2. QED
      BY <2>2, <3>1
  <2>4. CASE a \notin IdsOf(list)
    <3>1. gain(a) = 0
      BY <1>4, <2>4
    <3>2. QED
      BY <2>2, <3>1
  <2>5. QED
    BY <2>1, <2>3, <2>4
<1>7. ASSUME NotAbove(list, a, b) PROVE gain(a) <= gain(b)
  <2>1. CASE a \in IdsOf(list)
    <3>1. PICK i \in 1 .. n : list[i].id = a
      BY <1>1, <2>1 DEF IdsOf
    <3>2. PICK j \in 1 .. n : list[j].id = b /\ list[i].score <= list[j].score
      BY <1>1, <1>7, <3>1 DEF NotAbove
    <3>3. gain(a) = worth(i) /\ gain(b) = worth(j) /\ worth(i) <= worth(j)
      BY <1>2, <1>5, <3>1, <3>2
    <3>4. QED
      BY <3>3
  <2>2. CASE a \notin IdsOf(list)
    <3>1. gain(a) = 0 /\ gain(b) \in Nat
      BY <1>3, <1>4, <2>2
    <3>2. QED
      BY <3>1
  <2>3. QED
    BY <2>1, <2>2
<1>8. QED
  BY <1>6, <1>7 DEF gain

\* What is combined is what the first n semantic and m lexical hits are worth.
CombinedIs(n, m) ==
    /\ DOMAIN combined = FirstIds(semantic, n) \cup FirstIds(matches.lexical, m)
    /\ \A id \in DOMAIN combined :
          combined[id] = Gain(semantic, matches.lexical, SemanticWeight, n, id)
                         + Gain(matches.lexical, semantic, KeywordWeight, m, id)

FusionTypeOK ==
    /\ fusing \in {"idle", "resolve", "semantic", "lexical", "done"}
    /\ fuser \in {"library", "proxy", "cosine"}
    /\ matches.semantic \in Seq(Hits) /\ OncePerId(matches.semantic) /\ Descending(matches.semantic)
    /\ matches.lexical \in Seq(Hits) /\ OncePerId(matches.lexical)
    /\ semantic \in Seq(Hits) /\ OncePerId(semantic)
    /\ fuseAt \in Nat

StartInv == fusing = "idle" => semantic = << >> /\ fuseAt = 0 /\ DOMAIN combined = {}

ResolveInv ==
    fusing = "resolve" =>
      /\ fuser = "library" /\ fuseAt \in 0 .. Len(matches.semantic) /\ DOMAIN combined = {}
      /\ IdsOf(semantic) \subseteq FirstIds(matches.semantic, fuseAt)

CreditInv ==
    /\ fusing \in {"semantic", "lexical"} => fuser \in {"library", "proxy"}
    /\ fusing = "semantic" => fuseAt \in 0 .. Len(semantic) /\ CombinedIs(fuseAt, 0)
    /\ fusing = "lexical" => fuseAt \in 0 .. Len(matches.lexical) /\ CombinedIs(Len(semantic), fuseAt)

FusionInv == FusionTypeOK /\ StartInv /\ ResolveInv /\ CreditInv /\ FusionKeepsDominance

(* The first of a list.                                                    *)
LEMMA FirstOfList ==
    ASSUME NEW S, NEW s \in Seq(S), NEW k \in Nat
    PROVE  /\ Take(s, k) \in Seq(S) /\ Len(Take(s, k)) <= Len(s) /\ Len(Take(s, k)) \in Nat
           /\ \A i \in 1 .. Len(Take(s, k)) : Take(s, k)[i] = s[i]
<1>1. PICK m \in 0 .. Len(s) : m = IF k < Len(s) THEN k ELSE Len(s)
  BY LenProperties
<1>2. Take(s, k) = SubSeq(s, 1, m)
  BY <1>1 DEF Take
<1>3. Len(SubSeq(s, 1, m)) = m /\ SubSeq(s, 1, m) \in Seq(S) /\ \A i \in 1 .. m : SubSeq(s, 1, m)[i] = s[i]
  BY <1>1, SubSeqProperties, LenProperties
<1>4. QED
  BY <1>1, <1>2, <1>3

(* An order of ids has each of them once.                                  *)
LEMMA OrderIsOnce ==
    ASSUME NEW ids, IsFiniteSet(ids), NEW s \in Orders(ids)
    PROVE  /\ s \in Seq(ids) /\ DOMAIN s = 1 .. Len(s) /\ Len(s) \in Nat
           /\ \A i, j \in 1 .. Len(s) : s[i] = s[j] => i = j
           /\ \A id \in ids : \E i \in 1 .. Len(s) : s[i] = id
<1>1. PICK n \in Nat : n = Cardinality(ids)
  BY FS_CardinalityType
<1>2. s \in [1 .. n -> ids] /\ \A id \in ids : \E i \in DOMAIN s : s[i] = id
  BY <1>1 DEF Orders
<1>3. s \in Seq(ids) /\ Len(s) = n
  BY <1>2, SeqDef, LenProperties
<1>4. s \in Surjection(1 .. n, ids)
  BY <1>2 DEF Surjection
<1>5. IsFiniteSet(1 .. n) /\ Cardinality(1 .. n) = n
  BY CountTo
<1>6. s \in Injection(1 .. n, ids)
  BY <1>1, <1>4, <1>5, FS_SurjSameCardinalityImpliesInj
<1>7. QED
  BY <1>2, <1>3, <1>6 DEF Injection, IsInjective

LEMMA IdsAreFinite ==
    ASSUME NEW list \in Seq(Hits)
    PROVE  IsFiniteSet(IdsOf(list))
<1>1. PICK n \in Nat : n = Len(list)
  BY HitsOfList
<1> DEFINE f == [i \in 1 .. n |-> list[i].id]
<1>2. f \in Surjection(1 .. n, IdsOf(list))
  BY <1>1, HitsOfList DEF Surjection, IdsOf
<1>3. IsFiniteSet(1 .. n)
  BY CountTo
<1>4. QED
  BY <1>2, <1>3, FS_Surjection

LEMMA FusionStarts == FusionInit => FusionInv
<1> SUFFICES ASSUME FusionInit PROVE FusionInv
  OBVIOUS
<1>1. << >> \in Seq(Hits) /\ DOMAIN << >> = {}
  BY EmptySeq
<1>2. OncePerId(<< >>) /\ Descending(<< >>)
  BY <1>1 DEF OncePerId, Descending
<1>3. QED
  BY <1>1, <1>2 DEF FusionInit, FusionInv, FusionTypeOK, StartInv, ResolveInv, CreditInv,
     FusionKeepsDominance, NoMatches

LEMMA SearchStep ==
    ASSUME FusionInv, LibrarySearch \/ ProxySearch
    PROVE  FusionInv'
<1>1. fusing = "idle" /\ semantic = << >> /\ fuseAt = 0 /\ DOMAIN combined = {} /\ matches' \in Matches
  BY DEF FusionInv, StartInv, LibrarySearch, ProxySearch
<1>2. FusionTypeOK'
  BY <1>1, FusionAssumption DEF FusionInv, FusionTypeOK, LibrarySearch, ProxySearch
<1>3. FirstIds(semantic', 0) = {} /\ FirstIds(matches'.lexical, 0) = {} /\ FirstIds(matches'.semantic, 0) = {}
  BY DEF FirstIds
<1>4. Len(semantic') \in Nat /\ Len(matches'.semantic) \in Nat
  BY <1>2, HitsOfList DEF FusionTypeOK
<1>5. CASE LibrarySearch
  <2>1. IdsOf(semantic') = {}
    BY <1>1, <1>5, EmptySeq DEF LibrarySearch, IdsOf
  <2>2. QED
    BY <1>1, <1>2, <1>4, <1>5, <2>1 DEF LibrarySearch, FusionInv, StartInv, ResolveInv, CreditInv,
       FusionKeepsDominance
<1>6. CASE ProxySearch
  <2>1. CombinedIs(0, 0)'
    BY <1>1, <1>3, <1>6 DEF CombinedIs, ProxySearch
  <2>2. QED
    BY <1>1, <1>2, <1>4, <1>6, <2>1 DEF ProxySearch, FusionInv, StartInv, ResolveInv, CreditInv,
       FusionKeepsDominance
<1>7. QED
  BY <1>5, <1>6

(* An index that gives its best first dominates nothing by what it has     *)
(* further down.                                                           *)
LEMMA CosineStep ==
    ASSUME FusionInv, CosineSearch
    PROVE  FusionInv'
<1>1. matches' \in Matches /\ semantic' = matches'.semantic /\ ranking' = Take(semantic', MaxResults)
      /\ fuser' = "cosine" /\ fusing' = "done"
  BY DEF CosineSearch
<1>2. FusionTypeOK' /\ Descending(semantic')
  BY <1>1, FusionAssumption DEF FusionInv, FusionTypeOK, CosineSearch
<1>3. /\ Len(ranking') <= Len(semantic') /\ Len(ranking') \in Nat /\ ranking' \in Seq(Hits)
      /\ \A i \in 1 .. Len(ranking') : ranking'[i] = semantic'[i]
  BY <1>1, <1>2, FirstOfList, FusionAssumption DEF FusionTypeOK
<1>4. DOMAIN ranking' = 1 .. Len(ranking') /\ DOMAIN semantic' = 1 .. Len(semantic') /\ Len(semantic') \in Nat
  BY <1>2, <1>3, HitsOfList DEF FusionTypeOK
<1>5. \A i \in DOMAIN ranking' : i \in DOMAIN semantic' /\ ranking'[i] = semantic'[i]
  BY <1>3, <1>4
<1>6. IdsOf(ranking)' \subseteq Answerable' /\ OncePerId(ranking)'
  BY <1>1, <1>2, <1>5 DEF IdsOf, Answerable, OncePerId, FusionTypeOK
<1>7. ASSUME NEW i \in DOMAIN ranking', NEW b \in Answerable', Dominated(ranking[i].id, b)'
      PROVE  \E j \in 1 .. i - 1 : ranking'[j].id = b
  <2>1. Lexical' = << >>
    BY <1>1 DEF Lexical
  <2>2. Below(semantic', ranking'[i].id, b)
    BY <1>7, <2>1, EmptySeq DEF Dominated, Below
  <2>3. PICK k \in DOMAIN semantic', j \in DOMAIN semantic' :
               /\ semantic'[j].id = b /\ semantic'[k].score < semantic'[j].score
               /\ semantic'[k].id = ranking'[i].id \/ ranking'[i].id \notin IdsOf(semantic')
    BY <2>2 DEF Below
  <2>4. k = i
    BY <1>2, <1>5, <2>3 DEF FusionTypeOK, OncePerId, IdsOf
  <2>5. semantic'[k].score \in Int /\ semantic'[j].score \in Int
    BY <1>2, <1>4, HitsOfList DEF FusionTypeOK
  <2>6. ~(k < j) /\ k # j
    BY <1>2, <2>3, <2>5 DEF Descending
  <2>7. j \in 1 .. i - 1 /\ j \in DOMAIN ranking'
    BY <1>3, <1>4, <2>4, <2>6
  <2>8. QED
    BY <1>5, <2>3, <2>7
<1>8. FusionKeepsDominance'
  BY <1>6, <1>7 DEF FusionKeepsDominance
<1>9. QED
  BY <1>1, <1>2, <1>8 DEF FusionInv, StartInv, ResolveInv, CreditInv

LEMMA ResolveStep ==
    ASSUME FusionInv, ResolveHit \/ EndResolve
    PROVE  FusionInv'
<1>1. /\ fusing = "resolve" /\ fuser = "library" /\ fuseAt \in 0 .. Len(matches.semantic)
      /\ DOMAIN combined = {} /\ IdsOf(semantic) \subseteq FirstIds(matches.semantic, fuseAt)
  BY DEF FusionInv, ResolveInv, ResolveHit, EndResolve
<1>2. Len(matches.semantic) \in Nat /\ DOMAIN matches.semantic = 1 .. Len(matches.semantic)
  BY HitsOfList DEF FusionInv, FusionTypeOK
<1>3. CASE ResolveHit
  <2> DEFINE hit == matches.semantic[fuseAt + 1]
  <2>1. fuseAt < Len(matches.semantic) /\ fuseAt + 1 \in 1 .. Len(matches.semantic)
        /\ fuseAt + 1 \in 0 .. Len(matches.semantic)
    BY <1>1, <1>2, <1>3 DEF ResolveHit
  <2>2. FirstIds(matches.semantic, fuseAt + 1) = FirstIds(matches.semantic, fuseAt) \cup {hit.id}
    <3>1. 1 .. fuseAt + 1 = 1 .. fuseAt \cup {fuseAt + 1}
      BY <1>1
    <3>2. QED
      BY <3>1 DEF FirstIds
  <2>3. hit.id \notin IdsOf(semantic)
    <3>1. ASSUME NEW i \in 1 .. fuseAt PROVE matches.semantic[i].id # hit.id
      <4>1. i \in DOMAIN matches.semantic /\ i # fuseAt + 1 /\ fuseAt + 1 \in DOMAIN matches.semantic
        BY <1>1, <1>2, <2>1
      <4>2. QED
        BY <4>1 DEF FusionInv, FusionTypeOK, OncePerId
    <3>2. QED
      BY <1>1, <3>1 DEF FirstIds
  <2>4. hit \in Hits
    BY <1>2, <2>1, ElementOfSeq DEF FusionInv, FusionTypeOK
  <2>5. semantic' \in Seq(Hits) /\ OncePerId(semantic)' /\ IdsOf(semantic)' \subseteq IdsOf(semantic) \cup {hit.id}
    <3>1. CASE semantic' = semantic
      BY <3>1 DEF FusionInv, FusionTypeOK, OncePerId, IdsOf
    <3>2. CASE semantic' = Append(semantic, hit)
      <4>1. PICK n \in Nat : n = Len(semantic)
        BY HitsOfList DEF FusionInv, FusionTypeOK
      <4>2. /\ semantic' \in Seq(Hits) /\ DOMAIN semantic' = 1 .. n + 1 /\ DOMAIN semantic = 1 .. n
            /\ \A i \in 1 .. n : semantic'[i] = semantic[i]
            /\ semantic'[n + 1] = hit
        BY <2>4, <3>2, <4>1, AppendProperties, HitsOfList, LenProperties DEF FusionInv, FusionTypeOK
      <4>3. \A i \in 1 .. n : semantic'[i].id = semantic[i].id /\ semantic[i].id # hit.id
        BY <2>3, <4>2 DEF IdsOf
      <4>4. \A i \in 1 .. n + 1 : i \in 1 .. n \/ i = n + 1
        BY <4>1
      <4>5. OncePerId(semantic)'
        BY <4>2, <4>3, <4>4 DEF FusionInv, FusionTypeOK, OncePerId
      <4>6. QED
        BY <4>2, <4>3, <4>4, <4>5 DEF IdsOf
    <3>3. QED
      BY <1>3, <3>1, <3>2 DEF ResolveHit
  <2>6. FusionTypeOK'
    BY <1>3, <2>5 DEF ResolveHit, FusionInv, FusionTypeOK
  <2>7. QED
    BY <1>1, <1>3, <2>1, <2>2, <2>5, <2>6 DEF ResolveHit, FusionInv, StartInv, ResolveInv, CreditInv,
       FusionKeepsDominance
<1>4. CASE EndResolve
  <2>1. CombinedIs(0, 0)'
    BY <1>1, <1>4 DEF EndResolve, CombinedIs, FirstIds
  <2>2. Len(semantic) \in Nat
    BY HitsOfList DEF FusionInv, FusionTypeOK
  <2>3. QED
    BY <1>1, <1>4, <2>1, <2>2 DEF EndResolve, FusionInv, FusionTypeOK, StartInv, ResolveInv, CreditInv,
       FusionKeepsDominance
<1>5. QED
  BY <1>3, <1>4

LEMMA CreditStep ==
    ASSUME FusionInv, CreditSemantic \/ EndSemantic \/ CreditLexical
    PROVE  FusionInv'
<1>1. /\ semantic \in Seq(Hits) /\ OncePerId(semantic)
      /\ matches.lexical \in Seq(Hits) /\ OncePerId(matches.lexical)
      /\ SemanticWeight \in Nat \ {0} /\ KeywordWeight \in Nat \ {0}
  BY FusionAssumption DEF FusionInv, FusionTypeOK
<1>2. Len(semantic) \in Nat /\ Len(matches.lexical) \in Nat
  BY <1>1, HitsOfList
<1>3. \A list : FirstIds(list, 0) = {}
  BY DEF FirstIds
<1>4. CASE CreditSemantic
  <2> DEFINE S(n, id) == Gain(semantic, matches.lexical, SemanticWeight, n, id)
             L(id) == Gain(matches.lexical, semantic, KeywordWeight, 0, id)
             hit == semantic[fuseAt + 1]
             gain == Worth(semantic, matches.lexical, SemanticWeight, hit.score)
  <2>1. fuseAt \in 0 .. Len(semantic) /\ fuseAt < Len(semantic) /\ CombinedIs(fuseAt, 0)
    BY <1>4 DEF CreditSemantic, FusionInv, CreditInv
  <2>2. \A id : L(id) = 0
    BY <1>3 DEF Gain
  <2>3. \A id : /\ FirstIds(semantic, fuseAt + 1) = FirstIds(semantic, fuseAt) \cup {hit.id}
                /\ S(fuseAt + 1, id) = S(fuseAt, id) + (IF id = hit.id THEN gain ELSE 0)
    BY <1>1, <2>1, NextGain
  <2>4. \A id : id \notin FirstIds(semantic, fuseAt) => S(fuseAt, id) = 0
    BY DEF Gain
  <2>5. \A id : S(fuseAt, id) \in Nat
    BY <1>1, <2>1, GainIsNat
  <2>6. /\ DOMAIN combined = FirstIds(semantic, fuseAt)
        /\ \A id \in DOMAIN combined : combined[id] = S(fuseAt, id)
    <3>1. \A id \in DOMAIN combined : combined[id] = S(fuseAt, id) + L(id)
      BY <2>1 DEF CombinedIs
    <3>2. DOMAIN combined = FirstIds(semantic, fuseAt)
      BY <1>3, <2>1 DEF CombinedIs
    <3> HIDE DEF S, L
    <3>3. QED
      BY <2>2, <2>5, <3>1, <3>2
  <2>7. combined' = Credited(hit.id, gain) /\ semantic' = semantic /\ matches' = matches /\ fuseAt' = fuseAt + 1
    BY <1>4 DEF CreditSemantic
  <2>8. DOMAIN combined' = FirstIds(semantic, fuseAt + 1)
    BY <2>3, <2>6, <2>7 DEF Credited
  <2>9. ASSUME NEW id \in DOMAIN combined' PROVE combined'[id] = S(fuseAt + 1, id) + L(id)
    <3>1. id \in DOMAIN combined \cup {hit.id}
      BY <2>3, <2>6, <2>8
    <3>2. combined'[id] = (IF id \in DOMAIN combined THEN combined[id] ELSE 0) + (IF id = hit.id THEN gain ELSE 0)
      BY <2>7, <3>1 DEF Credited
    <3>3. combined'[id] = S(fuseAt, id) + (IF id = hit.id THEN gain ELSE 0)
      <4> HIDE DEF S, L, gain, hit
      <4>1. QED
        BY <2>4, <2>6, <3>2
    <3>4. combined'[id] = S(fuseAt + 1, id)
      BY <2>3, <3>3
    <3>5. S(fuseAt + 1, id) \in Nat
      BY <1>1, <1>2, <2>1, GainIsNat
    <3> HIDE DEF S, L
    <3>6. QED
      BY <2>2, <3>4, <3>5
  <2>10. CombinedIs(fuseAt, 0)'
    BY <1>3, <2>7, <2>8, <2>9 DEF CombinedIs
  <2>11. fuseAt' \in 0 .. Len(semantic)' /\ fuseAt' \in Nat
    BY <1>2, <2>1, <2>7
  <2>12. QED
    BY <1>4, <2>10, <2>11 DEF CreditSemantic, FusionInv, FusionTypeOK, StartInv, ResolveInv, CreditInv,
       FusionKeepsDominance
<1>5. CASE EndSemantic
  <2>1. CombinedIs(Len(semantic), 0) /\ fuseAt' = 0
    BY <1>5 DEF EndSemantic, FusionInv, CreditInv
  <2>2. (CombinedIs(Len(semantic), fuseAt))'
    BY <1>5, <2>1 DEF EndSemantic, CombinedIs
  <2>3. QED
    BY <1>2, <1>5, <2>1, <2>2 DEF EndSemantic, FusionInv, FusionTypeOK, StartInv, ResolveInv, CreditInv,
       FusionKeepsDominance
<1>6. CASE CreditLexical
  <2> DEFINE S(id) == Gain(semantic, matches.lexical, SemanticWeight, Len(semantic), id)
             L(n, id) == Gain(matches.lexical, semantic, KeywordWeight, n, id)
             hit == matches.lexical[fuseAt + 1]
             gain == Worth(matches.lexical, semantic, KeywordWeight, hit.score)
             all == FirstIds(semantic, Len(semantic))
  <2>1. fuseAt \in 0 .. Len(matches.lexical) /\ fuseAt < Len(matches.lexical) /\ CombinedIs(Len(semantic), fuseAt)
    BY <1>6 DEF CreditLexical, FusionInv, CreditInv
  <2>2. /\ DOMAIN combined = all \cup FirstIds(matches.lexical, fuseAt)
        /\ \A id \in DOMAIN combined : combined[id] = S(id) + L(fuseAt, id)
    BY <2>1 DEF CombinedIs
  <2>3. \A id : /\ FirstIds(matches.lexical, fuseAt + 1) = FirstIds(matches.lexical, fuseAt) \cup {hit.id}
                /\ L(fuseAt + 1, id) = L(fuseAt, id) + (IF id = hit.id THEN gain ELSE 0)
    BY <1>1, <2>1, NextGain
  <2>4. \A id : id \notin DOMAIN combined => S(id) = 0 /\ L(fuseAt, id) = 0
    BY <2>2 DEF Gain
  <2>5. \A id : S(id) \in Nat /\ L(fuseAt, id) \in Nat
    <3>1. Len(semantic) \in 0 .. Len(semantic)
      BY <1>2
    <3>2. QED
      BY <1>1, <2>1, <3>1, GainIsNat
  <2>6. combined' = Credited(hit.id, gain) /\ semantic' = semantic /\ matches' = matches /\ fuseAt' = fuseAt + 1
    BY <1>6 DEF CreditLexical
  <2>7. DOMAIN combined' = all \cup FirstIds(matches.lexical, fuseAt + 1)
    BY <2>2, <2>3, <2>6 DEF Credited
  <2>8. gain \in Nat
    <3>1. fuseAt + 1 \in DOMAIN matches.lexical
      BY <1>1, <2>1, HitsOfList
    <3>2. QED
      BY <1>1, <3>1, WorthGrows
  <2>9. ASSUME NEW id \in DOMAIN combined' PROVE combined'[id] = S(id) + L(fuseAt + 1, id)
    <3>1. id \in DOMAIN combined \cup {hit.id}
      BY <2>2, <2>3, <2>7
    <3>2. combined'[id] = (IF id \in DOMAIN combined THEN combined[id] ELSE 0) + (IF id = hit.id THEN gain ELSE 0)
      BY <2>6, <3>1 DEF Credited
    <3>3. combined'[id] = (S(id) + L(fuseAt, id)) + (IF id = hit.id THEN gain ELSE 0)
      <4> HIDE DEF S, L, gain, hit
      <4>1. QED
        BY <2>2, <2>4, <3>2
    <3>4. L(fuseAt + 1, id) = L(fuseAt, id) + (IF id = hit.id THEN gain ELSE 0)
      BY <2>3
    <3> HIDE DEF S, L, gain, hit
    <3>5. QED
      BY <2>5, <2>8, <3>3, <3>4
  <2>10. (CombinedIs(Len(semantic), fuseAt))'
    BY <2>6, <2>7, <2>9 DEF CombinedIs
  <2>11. fuseAt' \in 0 .. Len(matches.lexical)' /\ fuseAt' \in Nat
    BY <1>2, <2>1, <2>6
  <2>12. QED
    BY <1>6, <2>10, <2>11 DEF CreditLexical, FusionInv, FusionTypeOK, StartInv, ResolveInv, CreditInv,
       FusionKeepsDominance
<1>7. QED
  BY <1>4, <1>5, <1>6

(* What dominates a stub has more combined.                                *)
LEMMA DominatedHasLess ==
    ASSUME FusionInv, fusing = "lexical", fuseAt = Len(matches.lexical),
           NEW a \in DOMAIN combined, NEW b \in DOMAIN combined, Dominated(a, b)
    PROVE  combined[a] \in Nat /\ combined[b] \in Nat /\ combined[a] < combined[b]
<1> DEFINE S(id) == Gain(semantic, matches.lexical, SemanticWeight, Len(semantic), id)
           L(id) == Gain(matches.lexical, semantic, KeywordWeight, Len(matches.lexical), id)
<1>1. /\ semantic \in Seq(Hits) /\ OncePerId(semantic)
      /\ matches.lexical \in Seq(Hits) /\ OncePerId(matches.lexical)
      /\ SemanticWeight \in Nat \ {0} /\ KeywordWeight \in Nat \ {0}
  BY FusionAssumption DEF FusionInv, FusionTypeOK
<1>2. Len(semantic) \in 0 .. Len(semantic) /\ Len(matches.lexical) \in 0 .. Len(matches.lexical)
  BY <1>1, HitsOfList
<1>3. S(a) \in Nat /\ S(b) \in Nat /\ L(a) \in Nat /\ L(b) \in Nat
  BY <1>1, <1>2, GainIsNat
<1>4. combined[a] = S(a) + L(a) /\ combined[b] = S(b) + L(b)
  BY DEF FusionInv, CreditInv, CombinedIs
<1>5. Lexical = matches.lexical
  BY DEF FusionInv, CreditInv, Lexical
<1>6. /\ Below(semantic, a, b) => S(a) < S(b)
      /\ NotAbove(semantic, a, b) => S(a) <= S(b)
  BY <1>1, BelowGainsLess
<1>7. /\ Below(matches.lexical, a, b) => L(a) < L(b)
      /\ NotAbove(matches.lexical, a, b) => L(a) <= L(b)
  BY <1>1, BelowGainsLess
<1>8. (S(a) < S(b) /\ L(a) <= L(b)) \/ (L(a) < L(b) /\ S(a) <= S(b))
  BY <1>5, <1>6, <1>7 DEF Dominated
<1> HIDE DEF S, L
<1>9. QED
  BY <1>3, <1>4, <1>8

LEMMA RankStep ==
    ASSUME FusionInv, RankStubs
    PROVE  FusionInv'
<1>1. /\ fusing = "lexical" /\ fuseAt = Len(matches.lexical) /\ fuser \in {"library", "proxy"}
      /\ CombinedIs(Len(semantic), Len(matches.lexical)) /\ fusing' = "done"
      /\ UNCHANGED <<fuser, matches, semantic, fuseAt, combined>>
  BY DEF RankStubs, FusionInv, CreditInv
<1>2. DOMAIN combined = IdsOf(semantic) \cup IdsOf(matches.lexical)
  BY <1>1, HitsOfList DEF CombinedIs, FirstIds, IdsOf, FusionInv, FusionTypeOK
<1>3. IsFiniteSet(Ranked) /\ Ranked \subseteq DOMAIN combined
  <2>1. IsFiniteSet(DOMAIN combined)
    BY <1>2, IdsAreFinite, FS_Union DEF FusionInv, FusionTypeOK
  <2>2. QED
    BY <2>1, FS_Subset DEF Ranked
<1>4. Answerable' = Ranked
  BY <1>1, <1>2 DEF Answerable, Ranked
<1> DEFINE S == [id : Ranked, score : {combined[id] : id \in Ranked}]
<1>5. PICK order \in Orders(Ranked) :
          ranking' = Take([i \in DOMAIN order |-> [id |-> order[i], score |-> combined[order[i]]]], MaxResults)
  BY DEF RankStubs
<1> DEFINE list == [i \in DOMAIN order |-> [id |-> order[i], score |-> combined[order[i]]]]
<1>6. /\ order \in Seq(Ranked) /\ DOMAIN order = 1 .. Len(order) /\ Len(order) \in Nat
      /\ \A i, j \in 1 .. Len(order) : order[i] = order[j] => i = j
      /\ \A id \in Ranked : \E i \in 1 .. Len(order) : order[i] = id
  BY <1>3, OrderIsOnce
<1>7. list \in Seq(S) /\ Len(list) = Len(order)
  <2>1. \A i \in 1 .. Len(order) : order[i] \in Ranked
    BY <1>6, ElementOfSeq
  <2>2. list \in [1 .. Len(order) -> S]
    BY <1>6, <2>1
  <2>3. QED
    BY <1>6, <2>2, SeqDef, LenProperties
<1>8. /\ Len(ranking') <= Len(order) /\ Len(ranking') \in Nat /\ DOMAIN ranking' = 1 .. Len(ranking')
      /\ \A i \in 1 .. Len(ranking') : i \in 1 .. Len(order) /\ ranking'[i].id = order[i]
  <2>1. MaxResults \in Nat
    BY FusionAssumption
  <2>2. /\ ranking' \in Seq(S) /\ Len(ranking') <= Len(list) /\ Len(ranking') \in Nat
        /\ \A i \in 1 .. Len(ranking') : ranking'[i] = list[i]
    <3> HIDE DEF S
    <3>1. list \in Seq(S) /\ ranking' = Take(list, MaxResults)
      BY <1>5, <1>7
    <3> HIDE DEF list
    <3>2. QED
      BY <2>1, <3>1, FirstOfList
  <2>3. DOMAIN ranking' = 1 .. Len(ranking')
    BY <2>2, LenProperties
  <2>4. \A i \in 1 .. Len(ranking') : i \in 1 .. Len(order)
    BY <1>6, <1>7, <2>2
  <2>5. \A i \in 1 .. Len(order) : list[i].id = order[i]
    BY <1>6
  <2>6. QED
    BY <1>7, <2>2, <2>3, <2>4, <2>5
<1>9. \A i, j \in 1 .. Len(order) : i < j => Before(order[i], order[j])
  BY <1>6 DEF Orders
<1>10. IdsOf(ranking)' \subseteq Answerable' /\ OncePerId(ranking)'
  <2>1. \A i \in 1 .. Len(order) : order[i] \in Ranked
    BY <1>6, ElementOfSeq
  <2>2. QED
    BY <1>4, <1>6, <1>8, <2>1 DEF IdsOf, OncePerId
<1>11. ASSUME NEW i \in DOMAIN ranking', NEW b \in Answerable', Dominated(ranking[i].id, b)'
       PROVE  \E j \in 1 .. i - 1 : ranking'[j].id = b
  <2>1. i \in 1 .. Len(ranking') /\ i \in 1 .. Len(order) /\ ranking'[i].id = order[i]
    BY <1>8
  <2>2. PICK j \in 1 .. Len(order) : order[j] = b
    BY <1>4, <1>6
  <2>3. order[i] \in DOMAIN combined /\ b \in DOMAIN combined
    BY <1>3, <1>4, <1>6, <2>1, ElementOfSeq
  <2>4. Dominated(order[i], b)
    BY <1>1, <1>11, <2>1 DEF Dominated, Lexical
  <2>5. combined[order[i]] \in Nat /\ combined[b] \in Nat /\ combined[order[i]] < combined[b]
    BY <1>1, <2>3, <2>4, DominatedHasLess
  <2>6. i # j
    BY <2>2, <2>5
  <2>7. ~(i < j)
    <3>1. ASSUME i < j PROVE FALSE
      <4>1. Before(order[i], b)
        BY <1>9, <2>1, <2>2, <3>1
      <4>2. QED
        BY <2>5, <4>1 DEF Before
    <3>2. QED
      BY <3>1
  <2>8. j \in 1 .. i - 1 /\ j \in 1 .. Len(ranking')
    BY <1>8, <2>1, <2>2, <2>6, <2>7
  <2>9. QED
    BY <1>8, <2>2, <2>8
<1>12. FusionKeepsDominance'
  BY <1>10, <1>11 DEF FusionKeepsDominance
<1>13. FusionTypeOK'
  BY <1>1 DEF FusionInv, FusionTypeOK
<1>14. QED
  BY <1>1, <1>12, <1>13 DEF FusionInv, StartInv, ResolveInv, CreditInv

LEMMA FusionSteps ==
    ASSUME FusionInv, [FusionNext]_fusionVars
    PROVE  FusionInv'
<1>1. CASE UNCHANGED fusionVars
  BY <1>1 DEF fusionVars, FusionInv, FusionTypeOK, StartInv, ResolveInv, CreditInv, CombinedIs,
     FusionKeepsDominance, Answerable, Dominated, Lexical
<1>2. CASE FusionNext
  BY <1>2, SearchStep, CosineStep, ResolveStep, CreditStep, RankStep DEF FusionNext
<1>3. QED
  BY <1>1, <1>2

(* In every ranking, of the library and of the proxy, a stub that one      *)
(* index puts above another, and the other index not below it, comes first *)
(* (HybridRetriever::search, fuse_hybrid).                                 *)
THEOREM FusionIsFair == FusionSpec => []FusionKeepsDominance
<1>1. FusionInv => FusionKeepsDominance
  BY DEF FusionInv
<1>2. QED
  BY <1>1, FusionStarts, FusionSteps, PTL DEF FusionSpec

-----------------------------------------------------------------------------
\* Thinking stream

Texts == Seq(StreamTokens)

\* The tokens of s are tokens f to g of text.
PartIs(s, text, f, g) == Len(s) = g - f + 1 /\ \A m \in 1 .. Len(s) : s[m] = text[f + m - 1]

FirstAt(s) == s[1].at
LastAt(s) == s[Len(s)].at

\* s is tokens f to g of text, from a word to a word, without a gap.
ParagraphIs(s, text, f, g) ==
    /\ f \in 1 .. Len(text) /\ g \in f .. Len(text) /\ PartIs(s, text, f, g)
    /\ text[f].kind = "word" /\ text[g].kind = "word"
    /\ \A b \in Gaps(text) : ~(f <= b /\ b < g)

GapBetween(text, i, j) == \E b \in Gaps(text) : i < b /\ b + 1 < j

\* The steps are the paragraphs of the first p tokens.
StepsAre(list, text, p) ==
    /\ \A k \in 1 .. Len(list) : ParagraphIs(list[k], text, FirstAt(list[k]), LastAt(list[k])) /\ LastAt(list[k]) <= p
    /\ \A k, l \in 1 .. Len(list) : k < l => GapBetween(text, LastAt(list[k]), FirstAt(list[l]))
    /\ \A i \in 1 .. p : text[i].kind = "word" =>
          \E k \in 1 .. Len(list) : FirstAt(list[k]) <= i /\ i <= LastAt(list[k])

Numbered(text) == \A i \in 1 .. Len(text) : text[i].at = i /\ text[i].kind \in {"word", "break"}

LEMMA TextIs ==
    ASSUME NEW text \in Texts
    PROVE  /\ Len(text) \in Nat /\ DOMAIN text = 1 .. Len(text)
           /\ \A i \in 1 .. Len(text) : text[i] \in StreamTokens
BY LenProperties, ElementOfSeq DEF Texts

LEMMA GapsAre ==
    ASSUME NEW text \in Texts, NEW b
    PROVE  b \in Gaps(text) <=> /\ b \in 1 .. Len(text) /\ b + 1 \in 1 .. Len(text)
                                /\ text[b].kind = "break" /\ text[b + 1].kind = "break"
BY TextIs DEF Gaps, Places

LEMMA Joined ==
    ASSUME NEW text \in Texts, NEW more \in Texts
    PROVE  /\ text \o more \in Texts /\ Len(text \o more) = Len(text) + Len(more)
           /\ \A i \in 1 .. Len(text) : (text \o more)[i] = text[i]
           /\ \A i \in 1 .. Len(more) : (text \o more)[Len(text) + i] = more[i]
BY ConcatProperties DEF Texts

LEMMA PartOf ==
    ASSUME NEW text \in Texts, NEW f \in 1 .. Len(text) + 1, NEW g \in f - 1 .. Len(text)
    PROVE  SubSeq(text, f, g) \in Texts /\ PartIs(SubSeq(text, f, g), text, f, g)
<1>1. Len(text) \in Nat
  BY TextIs
<1>2. SubSeq(text, f, g) \in Texts /\ Len(SubSeq(text, f, g)) = g - f + 1
      /\ \A m \in 1 .. g - f + 1 : SubSeq(text, f, g)[m] = text[f + m - 1]
  BY <1>1, SubSeqProperties DEF Texts
<1>3. QED
  BY <1>2 DEF PartIs

(* What is sent later does not change the paragraphs of what came before.  *)
LEMMA StepsStay ==
    ASSUME NEW text \in Texts, NEW more \in Texts, NEW list, Len(list) \in Nat, NEW p \in 0 .. Len(text),
           StepsAre(list, text, p)
    PROVE  StepsAre(list, text \o more, p)
<1> DEFINE all == text \o more
<1>1. /\ all \in Texts /\ Len(all) = Len(text) + Len(more) /\ Len(text) \in Nat /\ Len(more) \in Nat
      /\ \A i \in 1 .. Len(text) : all[i] = text[i]
  BY Joined, TextIs
<1> HIDE DEF all
<1>2. \A b \in 1 .. Len(text) : b + 1 \in 1 .. Len(text) => (b \in Gaps(all) <=> b \in Gaps(text))
  BY <1>1, GapsAre
<1>3. \A b : b \in Gaps(text) => b \in Gaps(all)
  BY <1>1, GapsAre
<1>4. ASSUME NEW k \in 1 .. Len(list)
      PROVE  ParagraphIs(list[k], all, FirstAt(list[k]), LastAt(list[k])) /\ LastAt(list[k]) <= p
  <2> DEFINE f == FirstAt(list[k])
             g == LastAt(list[k])
  <2>1. ParagraphIs(list[k], text, f, g) /\ g <= p
    BY DEF StepsAre
  <2> HIDE DEF f, g
  <2>2. f \in 1 .. Len(text) /\ g \in f .. Len(text) /\ Len(list[k]) = g - f + 1
    BY <2>1 DEF ParagraphIs, PartIs
  <2>3. \A m \in 1 .. Len(list[k]) : f + m - 1 \in 1 .. Len(text)
    BY <1>1, <2>2
  <2>4. PartIs(list[k], all, f, g)
    BY <1>1, <2>1, <2>2, <2>3 DEF ParagraphIs, PartIs
  <2>5. \A b \in Gaps(all) : ~(f <= b /\ b < g)
    <3>1. ASSUME NEW b \in Gaps(all), f <= b, b < g PROVE FALSE
      <4>1. b \in 1 .. Len(text) /\ b + 1 \in 1 .. Len(text)
        BY <1>1, <2>2, <3>1, GapsAre
      <4>2. b \in Gaps(text)
        BY <1>2, <3>1, <4>1
      <4>3. QED
        BY <2>1, <3>1, <4>2 DEF ParagraphIs
    <3>2. QED
      BY <3>1
  <2>6. QED
    BY <1>1, <2>1, <2>2, <2>4, <2>5 DEF ParagraphIs, f, g
<1>5. \A k, l \in 1 .. Len(list) : k < l => GapBetween(all, LastAt(list[k]), FirstAt(list[l]))
  BY <1>3 DEF StepsAre, GapBetween
<1>6. \A i \in 1 .. p : all[i] = text[i]
  BY <1>1
<1>7. QED
  BY <1>4, <1>5, <1>6 DEF StepsAre, all

LEMMA TrimIs ==
    ASSUME NEW text \in Texts, NotBreaks(text) # {}
    PROVE  \E f \in 1 .. Len(text) : \E g \in f .. Len(text) :
              /\ text[f].kind # "break" /\ text[g].kind # "break"
              /\ \A i \in 1 .. Len(text) : text[i].kind # "break" => f <= i /\ i <= g
              /\ Trim(text) \in Texts /\ PartIs(Trim(text), text, f, g)
<1> DEFINE T == NotBreaks(text)
<1>1. T \in SUBSET Nat /\ T # {} /\ Len(text) \in Nat /\ \A n \in T : n <= Len(text)
  BY TextIs DEF NotBreaks
<1>2. Max(T) \in T /\ \A n \in T : n <= Max(T)
  BY <1>1, MaxOfBounded
<1>3. Min(T) \in T /\ \A n \in T : Min(T) <= n
  <2>1. PICK m \in T : \A n \in T : m <= n
    BY <1>1, LeastNumber
  <2>2. \A n \in T : m =< n
    BY <2>1
  <2>3. QED
    BY <2>1, <2>2 DEF Min
<1>4. PICK f : f = Min(T)
  OBVIOUS
<1>5. PICK g : g = Max(T)
  OBVIOUS
<1>6. /\ f \in 1 .. Len(text) /\ g \in 1 .. Len(text) /\ f <= g
      /\ text[f].kind # "break" /\ text[g].kind # "break"
      /\ \A i \in 1 .. Len(text) : text[i].kind # "break" => f <= i /\ i <= g
  BY <1>2, <1>3, <1>4, <1>5, TextIs DEF NotBreaks
<1>7. Trim(text) = SubSeq(text, f, g)
  BY <1>4, <1>5 DEF Trim
<1>8. f \in 1 .. Len(text) + 1 /\ g \in f - 1 .. Len(text) /\ g \in f .. Len(text)
  BY <1>1, <1>6
<1>9. QED
  BY <1>6, <1>7, <1>8, PartOf

(* Handing over tokens p + 1 to q, where no gap is, adds their paragraph.  *)
LEMMA NextParagraph ==
    ASSUME NEW text \in Texts, Numbered(text), NEW list \in Seq(Texts),
           NEW p \in 0 .. Len(text), NEW q \in p .. Len(text),
           StepsAre(list, text, p), \A k \in 1 .. Len(list) : LastAt(list[k]) < p - 1,
           p = 0 \/ p - 1 \in Gaps(text), \A b \in Gaps(text) : ~(p < b /\ b < q),
           NEW part \in Texts, PartIs(part, text, p + 1, q)
    PROVE  LET all == IF NotBreaks(part) = {} THEN list ELSE Append(list, Trim(part))
           IN  all \in Seq(Texts) /\ StepsAre(all, text, q)
<1> DEFINE all == IF NotBreaks(part) = {} THEN list ELSE Append(list, Trim(part))
<1>1. Len(text) \in Nat /\ Len(part) = q - p /\ \A m \in 1 .. Len(part) : part[m] = text[p + m]
  <2>1. Len(text) \in Nat
    BY TextIs
  <2>2. \A m \in 1 .. Len(part) : (p + 1) + m - 1 = p + m
    BY <2>1
  <2>3. QED
    BY <2>1, <2>2 DEF PartIs
<1>2. Len(list) \in Nat /\ \A k \in 1 .. Len(list) : list[k] \in Texts
  BY LenProperties, ElementOfSeq
<1>3. \A i \in p + 1 .. q : i - p \in 1 .. Len(part) /\ text[i] = part[i - p]
  BY <1>1
<1>4. \A k \in 1 .. Len(list) :
         /\ ParagraphIs(list[k], text, FirstAt(list[k]), LastAt(list[k]))
         /\ LastAt(list[k]) \in 1 .. p
  <2>1. ASSUME NEW k \in 1 .. Len(list)
        PROVE  ParagraphIs(list[k], text, FirstAt(list[k]), LastAt(list[k])) /\ LastAt(list[k]) \in 1 .. p
    <3>1. ParagraphIs(list[k], text, FirstAt(list[k]), LastAt(list[k])) /\ LastAt(list[k]) <= p
      BY DEF StepsAre
    <3>2. FirstAt(list[k]) \in 1 .. Len(text) /\ LastAt(list[k]) \in FirstAt(list[k]) .. Len(text)
      BY <3>1 DEF ParagraphIs
    <3>3. QED
      BY <1>1, <3>1, <3>2
  <2>2. QED
    BY <2>1
<1>5. CASE NotBreaks(part) = {}
  <2>1. \A m \in 1 .. Len(part) : part[m].kind = "break"
    BY <1>5, TextIs DEF NotBreaks
  <2>2. \A i \in p + 1 .. q : text[i].kind = "break"
    BY <1>3, <2>1
  <2>3. \A i \in 1 .. q : i \in 1 .. p \/ i \in p + 1 .. q
    BY <1>1
  <2>4. \A i \in 1 .. q : text[i].kind = "word" => i \in 1 .. p
    BY <2>2, <2>3
  <2>5. \A k \in 1 .. Len(list) : LastAt(list[k]) <= q
    BY <1>1, <1>4
  <2>6. StepsAre(list, text, q)
    BY <2>4, <2>5 DEF StepsAre
  <2>7. QED
    BY <1>5, <2>6
<1>6. CASE NotBreaks(part) # {}
  <2>1. PICK f \in 1 .. Len(part) : \E g \in f .. Len(part) :
              /\ part[f].kind # "break" /\ part[g].kind # "break"
              /\ \A i \in 1 .. Len(part) : part[i].kind # "break" => f <= i /\ i <= g
              /\ Trim(part) \in Texts /\ PartIs(Trim(part), part, f, g)
    BY <1>6, TrimIs
  <2>2. PICK g \in f .. Len(part) :
              /\ part[f].kind # "break" /\ part[g].kind # "break"
              /\ \A i \in 1 .. Len(part) : part[i].kind # "break" => f <= i /\ i <= g
              /\ Trim(part) \in Texts /\ PartIs(Trim(part), part, f, g)
    BY <2>1
  <2> DEFINE step == Trim(part)
  <2> HIDE DEF step
  <2>3. /\ f \in Nat /\ g \in Nat /\ 1 <= f /\ f <= g /\ p + g <= q /\ p \in Nat /\ q \in Nat /\ q <= Len(text)
        /\ Len(step) = g - f + 1 /\ Len(step) \in 1 .. Len(part)
    <3>1. Len(step) = g - f + 1
      BY <2>2 DEF PartIs, step
    <3>2. f \in Nat /\ g \in Nat /\ 1 <= f /\ f <= g /\ g <= q - p
      BY <1>1
    <3>3. QED
      BY <1>1, <3>1, <3>2
  <2>4. \A m \in 1 .. Len(step) : step[m] = text[(p + f) + m - 1]
    <3>1. ASSUME NEW m \in 1 .. Len(step) PROVE step[m] = text[(p + f) + m - 1]
      <4>1. step[m] = part[f + m - 1]
        BY <2>2 DEF PartIs, step
      <4>2. f + m - 1 \in 1 .. Len(part) /\ p + (f + m - 1) = (p + f) + m - 1
        BY <1>1, <2>3
      <4>3. QED
        BY <1>1, <4>1, <4>2
    <3>2. QED
      BY <3>1
  <2>5. p + f \in 1 .. Len(text) /\ p + g \in p + f .. Len(text) /\ p + g \in 1 .. Len(text)
    BY <1>1, <2>3
  <2>6. text[p + f].kind = "word" /\ text[p + g].kind = "word"
    <3>1. text[p + f] = part[f] /\ text[p + g] = part[g]
      <4>1. g \in 1 .. Len(part)
        BY <1>1, <2>3
      <4>2. QED
        BY <1>1, <4>1
    <3>2. QED
      BY <2>2, <2>5, <3>1 DEF Numbered
  <2>7. FirstAt(step) = p + f /\ LastAt(step) = p + g
    <3>1. 1 \in 1 .. Len(step) /\ Len(step) \in 1 .. Len(step) /\ (p + f) + 1 - 1 = p + f
          /\ (p + f) + Len(step) - 1 = p + g
      BY <1>1, <2>3
    <3>2. step[1] = text[p + f] /\ step[Len(step)] = text[p + g]
      BY <2>4, <3>1
    <3>3. QED
      BY <2>5, <3>2 DEF Numbered, FirstAt, LastAt
  <2>8. ParagraphIs(step, text, p + f, p + g)
    <3>1. PartIs(step, text, p + f, p + g)
      BY <2>3, <2>4 DEF PartIs
    <3>2. \A b \in Gaps(text) : b \in Nat
      BY GapsAre
    <3>3. \A b \in Gaps(text) : ~(p + f <= b /\ b < p + g)
      BY <2>3, <3>2
    <3>4. QED
      BY <2>5, <2>6, <3>1, <3>3 DEF ParagraphIs
  <2>9. /\ all \in Seq(Texts) /\ Len(all) = Len(list) + 1 /\ all[Len(list) + 1] = step
        /\ \A k \in 1 .. Len(list) : all[k] = list[k]
    BY <1>2, <1>6, <2>2, AppendProperties DEF step
  <2> HIDE DEF all
  <2>10. ASSUME NEW k \in 1 .. Len(all)
         PROVE  ParagraphIs(all[k], text, FirstAt(all[k]), LastAt(all[k])) /\ LastAt(all[k]) <= q
    <3>1. k \in 1 .. Len(list) \/ k = Len(list) + 1
      BY <1>2, <2>9
    <3>2. CASE k \in 1 .. Len(list)
      <4>1. LastAt(list[k]) <= q
        BY <1>4, <2>3, <3>2
      <4>2. QED
        BY <1>4, <2>9, <3>2, <4>1
    <3>3. CASE k = Len(list) + 1
      BY <2>3, <2>7, <2>8, <2>9, <3>3
    <3>4. QED
      BY <3>1, <3>2, <3>3
  <2>11. ASSUME NEW k \in 1 .. Len(all), NEW l \in 1 .. Len(all), k < l
         PROVE  GapBetween(text, LastAt(all[k]), FirstAt(all[l]))
    <3>1. k \in 1 .. Len(list) /\ (l \in 1 .. Len(list) \/ l = Len(list) + 1)
      BY <1>2, <2>9, <2>11
    <3>2. CASE l \in 1 .. Len(list)
      <4>1. GapBetween(text, LastAt(list[k]), FirstAt(list[l]))
        BY <2>11, <3>1, <3>2 DEF StepsAre
      <4>2. QED
        BY <2>9, <3>1, <3>2, <4>1
    <3>3. CASE l = Len(list) + 1
      <4>1. LastAt(list[k]) < p - 1 /\ LastAt(list[k]) \in 1 .. p
        BY <1>4, <3>1
      <4>2. p - 1 \in Gaps(text) /\ (p - 1) + 1 < p + f
        BY <2>3, <4>1
      <4>3. QED
        BY <2>7, <2>9, <3>1, <3>3, <4>1, <4>2 DEF GapBetween
    <3>4. QED
      BY <3>1, <3>2, <3>3
  <2>12. ASSUME NEW i \in 1 .. q, text[i].kind = "word"
         PROVE  \E k \in 1 .. Len(all) : FirstAt(all[k]) <= i /\ i <= LastAt(all[k])
    <3>1. i \in 1 .. p \/ i \in p + 1 .. q
      BY <1>1
    <3>2. CASE i \in 1 .. p
      <4>1. PICK k \in 1 .. Len(list) : FirstAt(list[k]) <= i /\ i <= LastAt(list[k])
        BY <2>12, <3>2 DEF StepsAre
      <4>2. k \in 1 .. Len(all) /\ all[k] = list[k]
        BY <1>2, <2>9
      <4>3. QED
        BY <4>1, <4>2
    <3>3. CASE i \in p + 1 .. q
      <4>1. i - p \in 1 .. Len(part) /\ part[i - p].kind # "break"
        BY <1>3, <2>12, <3>3
      <4>2. f <= i - p /\ i - p <= g
        BY <2>2, <4>1
      <4>3. p + f <= i /\ i <= p + g
        BY <2>3, <3>3, <4>2
      <4>4. Len(list) + 1 \in 1 .. Len(all)
        BY <1>2, <2>9
      <4>5. QED
        BY <2>7, <2>9, <4>3, <4>4
    <3>4. QED
      BY <3>1, <3>2, <3>3
  <2>13. StepsAre(all, text, q)
    BY <2>10, <2>11, <2>12 DEF StepsAre
  <2>14. QED
    BY <2>9, <2>13 DEF all
<1>7. QED
  BY <1>5, <1>6

\* What is in the buffer is the end of the text, and the steps are the paragraphs before it.
Collecting(text, buf, list) ==
    LET p == Len(text) - Len(buf)
    IN  /\ p \in 0 .. Len(text) /\ PartIs(buf, text, p + 1, Len(text))
        /\ p = 0 \/ p - 1 \in Gaps(text)
        /\ StepsAre(list, text, p) /\ \A k \in 1 .. Len(list) : LastAt(list[k]) < p - 1

LEMMA CollectingGrows ==
    ASSUME NEW text \in Texts, NEW buf \in Texts, NEW more \in Texts, NEW list, Len(list) \in Nat,
           Collecting(text, buf, list)
    PROVE  Collecting(text \o more, buf \o more, list)
<1> DEFINE all == text \o more
           held == buf \o more
<1>1. /\ all \in Texts /\ Len(all) = Len(text) + Len(more) /\ Len(text) \in Nat /\ Len(more) \in Nat
      /\ \A i \in 1 .. Len(text) : all[i] = text[i]
      /\ \A i \in 1 .. Len(more) : all[Len(text) + i] = more[i]
  BY Joined, TextIs
<1>2. /\ held \in Texts /\ Len(held) = Len(buf) + Len(more) /\ Len(buf) \in Nat
      /\ \A i \in 1 .. Len(buf) : held[i] = buf[i]
      /\ \A i \in 1 .. Len(more) : held[Len(buf) + i] = more[i]
  BY Joined, TextIs
<1>3. StepsAre(list, text, Len(text) - Len(buf)) => StepsAre(list, all, Len(text) - Len(buf))
  BY StepsStay DEF Collecting
<1> HIDE DEF all, held
<1>4. PICK p \in 0 .. Len(text) : p = Len(text) - Len(buf)
  BY DEF Collecting
<1>5. /\ PartIs(buf, text, p + 1, Len(text)) /\ (p = 0 \/ p - 1 \in Gaps(text))
      /\ StepsAre(list, text, p) /\ \A k \in 1 .. Len(list) : LastAt(list[k]) < p - 1
  BY <1>4 DEF Collecting
<1>6. Len(all) - Len(held) = p /\ p \in 0 .. Len(all)
  BY <1>1, <1>2, <1>4
<1>7. PartIs(held, all, p + 1, Len(all))
  <2>1. Len(held) = Len(all) - (p + 1) + 1
    BY <1>1, <1>2, <1>4
  <2>2. ASSUME NEW m \in 1 .. Len(held) PROVE held[m] = all[(p + 1) + m - 1]
    <3>1. m \in 1 .. Len(buf) \/ (m - Len(buf) \in 1 .. Len(more) /\ m = Len(buf) + (m - Len(buf)))
      BY <1>1, <1>2
    <3>2. CASE m \in 1 .. Len(buf)
      <4>1. held[m] = text[(p + 1) + m - 1]
        BY <1>2, <1>5, <3>2 DEF PartIs
      <4>2. (p + 1) + m - 1 \in 1 .. Len(text)
        BY <1>1, <1>2, <1>4, <3>2
      <4>3. QED
        BY <1>1, <4>1, <4>2
    <3>3. CASE m - Len(buf) \in 1 .. Len(more) /\ m = Len(buf) + (m - Len(buf))
      <4>1. held[m] = more[m - Len(buf)]
        BY <1>2, <3>3
      <4>2. (p + 1) + m - 1 = Len(text) + (m - Len(buf))
        BY <1>1, <1>2, <1>4
      <4>3. QED
        BY <1>1, <3>3, <4>1, <4>2
    <3>4. QED
      BY <3>1, <3>2, <3>3
  <2>3. QED
    BY <2>1, <2>2 DEF PartIs
<1>8. p = 0 \/ p - 1 \in Gaps(all)
  <2>1. ASSUME p - 1 \in Gaps(text) PROVE p - 1 \in Gaps(all)
    <3>1. p - 1 \in 1 .. Len(text) /\ (p - 1) + 1 \in 1 .. Len(text)
          /\ text[p - 1].kind = "break" /\ text[(p - 1) + 1].kind = "break"
      BY <2>1, GapsAre
    <3>2. p - 1 \in 1 .. Len(all) /\ (p - 1) + 1 \in 1 .. Len(all)
      BY <1>1, <3>1
    <3>3. QED
      BY <1>1, <3>1, <3>2, GapsAre
  <2>2. QED
    BY <1>5, <2>1
<1>9. StepsAre(list, all, p)
  BY <1>3, <1>4, <1>5
<1>10. QED
  BY <1>5, <1>6, <1>7, <1>8, <1>9 DEF Collecting, all, held

(* An iteration of flush_steps.                                            *)
LEMMA CollectingFlushed ==
    ASSUME NEW text \in Texts, Numbered(text), NEW buf \in Texts, NEW list \in Seq(Texts),
           Collecting(text, buf, list), Gaps(buf) # {}
    PROVE  LET b == Min(Gaps(buf))
               part == SubSeq(buf, 1, b - 1)
               all == IF NotBreaks(part) = {} THEN list ELSE Append(list, Trim(part))
           IN  After(buf, b + 1) \in Texts /\ all \in Seq(Texts) /\ Collecting(text, After(buf, b + 1), all)
<1>1. PICK p \in 0 .. Len(text) : p = Len(text) - Len(buf)
  BY DEF Collecting
<1>2. /\ PartIs(buf, text, p + 1, Len(text)) /\ (p = 0 \/ p - 1 \in Gaps(text))
      /\ StepsAre(list, text, p) /\ \A k \in 1 .. Len(list) : LastAt(list[k]) < p - 1
  BY <1>1 DEF Collecting
<1>3. Len(text) \in Nat /\ Len(buf) \in Nat
  BY TextIs
<1>4. \A m \in 1 .. Len(buf) : buf[m] = text[p + m]
  <2>1. \A m \in 1 .. Len(buf) : (p + 1) + m - 1 = p + m
    BY <1>3
  <2>2. QED
    BY <1>2, <2>1 DEF PartIs
<1>5. PICK b : b = Min(Gaps(buf))
  OBVIOUS
<1>6. b \in Gaps(buf) /\ \A c \in Gaps(buf) : b <= c
  <2>1. Gaps(buf) \in SUBSET Nat
    BY GapsAre
  <2>2. PICK m \in Gaps(buf) : \A n \in Gaps(buf) : m <= n
    BY <2>1, LeastNumber
  <2>3. \A n \in Gaps(buf) : m =< n
    BY <2>2
  <2>4. QED
    BY <1>5, <2>2, <2>3 DEF Min
<1>7. b \in 1 .. Len(buf) /\ b + 1 \in 1 .. Len(buf) /\ buf[b].kind = "break" /\ buf[b + 1].kind = "break"
  BY <1>6, GapsAre
<1> DEFINE part == SubSeq(buf, 1, b - 1)
           rest == After(buf, b + 1)
           all == IF NotBreaks(part) = {} THEN list ELSE Append(list, Trim(part))
<1>8. part \in Texts /\ Len(part) = b - 1 /\ \A m \in 1 .. b - 1 : part[m] = buf[m]
  <2>1. 1 \in 1 .. Len(buf) + 1 /\ b - 1 \in 1 - 1 .. Len(buf)
    BY <1>3, <1>7
  <2>2. part \in Texts /\ PartIs(part, buf, 1, b - 1)
    BY <2>1, PartOf
  <2>3. (b - 1) - 1 + 1 = b - 1 /\ \A m \in 1 .. b - 1 : 1 + m - 1 = m
    BY <1>7
  <2> HIDE DEF part
  <2>4. QED
    BY <2>2, <2>3 DEF PartIs
<1>9. rest \in Texts /\ Len(rest) = Len(buf) - (b + 1) /\ \A m \in 1 .. Len(rest) : rest[m] = buf[(b + 1) + m]
  <2>1. b + 1 + 1 \in 1 .. Len(buf) + 1 /\ Len(buf) \in (b + 1 + 1) - 1 .. Len(buf)
    BY <1>3, <1>7
  <2>2. rest \in Texts /\ PartIs(rest, buf, b + 1 + 1, Len(buf))
    BY <2>1, PartOf DEF After
  <2>3. Len(buf) - (b + 1 + 1) + 1 = Len(buf) - (b + 1)
    BY <1>3, <1>7
  <2> HIDE DEF rest
  <2>4. ASSUME NEW m \in 1 .. Len(rest) PROVE rest[m] = buf[(b + 1) + m]
    <3>1. (b + 1 + 1) + m - 1 = (b + 1) + m
      BY <1>7, <2>2 DEF PartIs
    <3>2. QED
      BY <2>2, <3>1 DEF PartIs
  <2>5. QED
    BY <2>2, <2>3, <2>4 DEF PartIs
<1> HIDE DEF part, rest
<1> DEFINE q == p + (b - 1)
<1>10. /\ q \in p .. Len(text) /\ q + 2 \in 0 .. Len(text) /\ q + 1 \in 1 .. Len(text) /\ q + 2 \in 1 .. Len(text)
       /\ q + 1 = p + b /\ q + 2 = p + (b + 1) /\ Len(text) - Len(rest) = q + 2 /\ q \in Nat /\ q \in 0 .. Len(text)
  BY <1>1, <1>3, <1>7, <1>9
<1>11. text[q + 1].kind = "break" /\ text[q + 2].kind = "break" /\ q + 1 \in Gaps(text)
  <2>1. text[q + 1].kind = "break" /\ text[q + 2].kind = "break"
    BY <1>4, <1>7, <1>10
  <2>2. (q + 1) + 1 = q + 2
    BY <1>10
  <2>3. QED
    BY <1>10, <2>1, <2>2, GapsAre
<1>12. PartIs(part, text, p + 1, q)
  <2>1. Len(part) = q - (p + 1) + 1
    BY <1>7, <1>8
  <2>2. \A m \in 1 .. b - 1 : m \in 1 .. Len(buf) /\ (p + 1) + m - 1 = p + m
    BY <1>3, <1>7
  <2>3. \A m \in 1 .. Len(part) : part[m] = text[(p + 1) + m - 1]
    BY <1>4, <1>8, <2>2
  <2>4. QED
    BY <2>1, <2>3 DEF PartIs
<1>13. \A c \in Gaps(text) : ~(p < c /\ c < q)
  <2>1. ASSUME NEW c \in Gaps(text), p < c, c < q PROVE FALSE
    <3>1. c \in 1 .. Len(text) /\ text[c].kind = "break" /\ text[c + 1].kind = "break"
      BY <2>1, GapsAre
    <3>2. PICK m \in 1 .. Len(buf) : m = c - p /\ m < b /\ m + 1 \in 1 .. Len(buf) /\ p + m = c /\ p + (m + 1) = c + 1
      BY <1>3, <1>7, <2>1, <3>1
    <3>3. m \in Gaps(buf)
      BY <1>4, <3>1, <3>2, GapsAre
    <3>4. QED
      BY <1>6, <1>7, <3>2, <3>3
  <2>2. QED
    BY <2>1
<1>14. all \in Seq(Texts) /\ StepsAre(all, text, q)
  <2> HIDE DEF q
  <2>1. QED
    BY <1>2, <1>8, <1>10, <1>12, <1>13, NextParagraph
<1> HIDE DEF all, q
<1>15. Len(all) \in Nat
  BY <1>14, LenProperties
<1>16. \A k \in 1 .. Len(all) : LastAt(all[k]) <= q /\ LastAt(all[k]) \in Nat
  <2>1. ASSUME NEW k \in 1 .. Len(all) PROVE LastAt(all[k]) <= q /\ LastAt(all[k]) \in Nat
    <3>1. ParagraphIs(all[k], text, FirstAt(all[k]), LastAt(all[k])) /\ LastAt(all[k]) <= q
      BY <1>14 DEF StepsAre
    <3>2. FirstAt(all[k]) \in 1 .. Len(text) /\ LastAt(all[k]) \in FirstAt(all[k]) .. Len(text)
      BY <3>1 DEF ParagraphIs
    <3>3. QED
      BY <1>3, <3>1, <3>2
  <2>2. QED
    BY <2>1
<1>17. StepsAre(all, text, q + 2)
  <2>1. \A k \in 1 .. Len(all) : LastAt(all[k]) <= q + 2
    BY <1>10, <1>16
  <2>2. \A i \in 1 .. q + 2 : i \in 1 .. q \/ i = q + 1 \/ i = q + 2
    BY <1>10
  <2>3. \A i \in 1 .. q + 2 : text[i].kind = "word" => i \in 1 .. q
    BY <1>11, <2>2
  <2>4. QED
    BY <1>14, <2>1, <2>3 DEF StepsAre
<1>18. PartIs(rest, text, (q + 2) + 1, Len(text))
  <2>1. Len(rest) = Len(text) - ((q + 2) + 1) + 1
    BY <1>3, <1>9, <1>10
  <2>2. ASSUME NEW m \in 1 .. Len(rest) PROVE rest[m] = text[((q + 2) + 1) + m - 1]
    <3>1. (b + 1) + m \in 1 .. Len(buf) /\ p + ((b + 1) + m) = ((q + 2) + 1) + m - 1
      BY <1>3, <1>7, <1>9, <1>10
    <3>2. QED
      BY <1>4, <1>9, <3>1
  <2>3. QED
    BY <2>1, <2>2 DEF PartIs
<1>19. \A k \in 1 .. Len(all) : LastAt(all[k]) < (q + 2) - 1
  BY <1>10, <1>16
<1>20. (q + 2) - 1 \in Gaps(text)
  <2>1. (q + 2) - 1 = q + 1
    BY <1>10
  <2>2. QED
    BY <1>11, <2>1
<1>21. Collecting(text, rest, all)
  BY <1>10, <1>17, <1>18, <1>19, <1>20 DEF Collecting
<1>22. QED
  BY <1>5, <1>9, <1>14, <1>21 DEF all, part, rest

(* All gaps have been passed when the buffer has none.                     *)
LEMMA GapsArePassed ==
    ASSUME NEW text \in Texts, NEW buf \in Texts, NEW list, Collecting(text, buf, list), Gaps(buf) = {}
    PROVE  \A b \in Gaps(text) : b <= Len(text) - Len(buf)
<1>1. PICK p \in 0 .. Len(text) : p = Len(text) - Len(buf)
  BY DEF Collecting
<1>2. PartIs(buf, text, p + 1, Len(text))
  BY <1>1 DEF Collecting
<1>3. Len(text) \in Nat /\ Len(buf) \in Nat
  BY TextIs
<1>4. \A b \in Gaps(text) : b <= p
  <2>1. ASSUME NEW b \in Gaps(text), p < b PROVE FALSE
    <3>1. b \in 1 .. Len(text) /\ b + 1 \in 1 .. Len(text) /\ text[b].kind = "break" /\ text[b + 1].kind = "break"
      BY GapsAre
    <3>2. /\ b - p \in 1 .. Len(buf) /\ (b - p) + 1 \in 1 .. Len(buf)
          /\ (p + 1) + (b - p) - 1 = b /\ (p + 1) + ((b - p) + 1) - 1 = b + 1
      BY <1>1, <1>3, <2>1, <3>1
    <3>3. buf[b - p] = text[b] /\ buf[(b - p) + 1] = text[b + 1]
      BY <1>2, <3>2 DEF PartIs
    <3>4. QED
      BY <3>1, <3>2, <3>3, GapsAre
  <2>2. \A b \in Gaps(text) : b \in Nat
    BY GapsAre
  <2>3. QED
    BY <1>3, <2>1, <2>2
<1>5. QED
  BY <1>1, <1>4

(* The last of the buffer, which has no gap, is handed over whole.         *)
LEMMA CollectingStopped ==
    ASSUME NEW text \in Texts, Numbered(text), NEW buf \in Texts, NEW list \in Seq(Texts),
           Collecting(text, buf, list), Gaps(buf) = {}
    PROVE  LET all == IF NotBreaks(buf) = {} THEN list ELSE Append(list, Trim(buf))
           IN  all \in Seq(Texts) /\ StepsAre(all, text, Len(text))
<1>1. PICK p \in 0 .. Len(text) : p = Len(text) - Len(buf)
  BY DEF Collecting
<1>2. /\ PartIs(buf, text, p + 1, Len(text)) /\ (p = 0 \/ p - 1 \in Gaps(text))
      /\ StepsAre(list, text, p) /\ \A k \in 1 .. Len(list) : LastAt(list[k]) < p - 1
  BY <1>1 DEF Collecting
<1>3. Len(text) \in Nat /\ Len(buf) \in Nat
  BY TextIs
<1>4. \A b \in Gaps(text) : b <= p
  BY <1>1, GapsArePassed
<1>5. \A b \in Gaps(text) : ~(p < b /\ b < Len(text))
  <2>1. \A b \in Gaps(text) : b \in Nat
    BY GapsAre
  <2>2. QED
    BY <1>4, <2>1
<1>6. Len(text) \in p .. Len(text)
  BY <1>3
<1>7. QED
  BY <1>2, <1>5, <1>6, NextParagraph

-----------------------------------------------------------------------------
Reading == {"wait", "flush", "cut", "flush again", "end"}

StreamTypeOK ==
    /\ streaming \in Reading \cup {"idle", "over", "closed", "failed"}
    /\ inlined \in BOOLEAN /\ speaker \in {"nobody", "thought", "answer"}
    /\ heard \in Texts /\ thought \in 0 .. Len(heard)
    /\ delta.content \in Texts /\ delta.done \in BOOLEAN
    /\ inThink \in BOOLEAN /\ stepBuf \in Texts /\ streamSteps \in Seq(Texts)

\* Thinking in a field of its own.
FieldInv ==
    /\ Numbered(heard) /\ \A i \in 1 .. Len(heard) : thought < i => heard[i].kind = "word"
    /\ speaker # "answer" => thought = Len(heard)
    /\ delta.content # << >> => speaker = "answer"
    /\ ~inThink => thought = 0 /\ stepBuf = << >> /\ streamSteps = << >>
    /\ (streaming \in {"flush", "flush again"} => inThink) /\ (streaming = "idle" => ~inThink)
    /\ streaming \in {"wait", "end"} => Gaps(stepBuf) = {}
    /\ streaming \in Reading /\ inThink => Collecting(heard, stepBuf, streamSteps)
    /\ streaming \in {"over", "closed"} =>
         \E p \in 0 .. Len(heard) :
            /\ StepsAre(streamSteps, heard, p) /\ \A b \in Gaps(heard) : b <= p
            /\ streaming = "over" => thought <= p
    /\ streaming = "over" /\ speaker = "thought" => delta.done

StreamInv ==
    /\ StreamTypeOK
    /\ streaming = "idle" => ~inlined
    /\ ~inlined => FieldInv

LEMMA EmptyText == << >> \in Texts /\ Len(<< >>) = 0 /\ Gaps(<< >>) = {}
<1>1. << >> \in Texts /\ Len(<< >>) = 0
  BY EmptySeq DEF Texts
<1>2. QED
  BY <1>1, GapsAre

LEMMA NothingCollected == Collecting(<< >>, << >>, << >>)
BY EmptyText, GapsAre DEF Collecting, PartIs, StepsAre

LEMMA HeardIs ==
    ASSUME heard \in Texts, NEW n \in Nat, NEW kinds \in [1 .. n -> {"word", "break"}]
    PROVE  /\ Heard(kinds) \in Texts /\ Len(Heard(kinds)) = n
           /\ \A i \in 1 .. n : Heard(kinds)[i].at = Len(heard) + i /\ Heard(kinds)[i].kind = kinds[i]
<1>1. Len(heard) \in Nat
  BY TextIs
<1>2. \A i \in 1 .. n : [kind |-> kinds[i], at |-> Len(heard) + i] \in StreamTokens
  <2>1. ASSUME NEW i \in 1 .. n PROVE [kind |-> kinds[i], at |-> Len(heard) + i] \in StreamTokens
    <3>1. Len(heard) + i \in Nat /\ kinds[i] \in {"word", "break", "open", "close"}
      BY <1>1
    <3>2. QED
      BY <3>1 DEF StreamTokens
  <2>2. QED
    BY <2>1
<1>3. Heard(kinds) \in [1 .. n -> StreamTokens]
  BY <1>2 DEF Heard
<1>4. Heard(kinds) \in Texts /\ Len(Heard(kinds)) = n
  BY <1>3, SeqDef, LenProperties DEF Texts
<1>5. QED
  BY <1>4 DEF Heard

LEMMA NumberedGrows ==
    ASSUME heard \in Texts, Numbered(heard), NEW n \in Nat, NEW kinds \in [1 .. n -> {"word", "break"}]
    PROVE  /\ heard \o Heard(kinds) \in Texts /\ Len(heard \o Heard(kinds)) = Len(heard) + n
           /\ Numbered(heard \o Heard(kinds))
           /\ \A i \in 1 .. Len(heard) : (heard \o Heard(kinds))[i] = heard[i]
           /\ \A i \in 1 .. n : (heard \o Heard(kinds))[Len(heard) + i].kind = kinds[i]
<1> DEFINE more == Heard(kinds)
           all == heard \o more
<1>1. /\ more \in Texts /\ Len(more) = n
      /\ \A i \in 1 .. n : more[i].at = Len(heard) + i /\ more[i].kind = kinds[i]
  BY HeardIs
<1> HIDE DEF more
<1>2. /\ all \in Texts /\ Len(all) = Len(heard) + n /\ Len(heard) \in Nat
      /\ \A i \in 1 .. Len(heard) : all[i] = heard[i]
      /\ \A i \in 1 .. n : all[Len(heard) + i] = more[i]
  BY <1>1, Joined, TextIs
<1> HIDE DEF all
<1>3. ASSUME NEW i \in 1 .. Len(all) PROVE all[i].at = i /\ all[i].kind \in {"word", "break"}
  <2>1. i \in 1 .. Len(heard) \/ (i - Len(heard) \in 1 .. n /\ i = Len(heard) + (i - Len(heard)))
    BY <1>2
  <2>2. CASE i \in 1 .. Len(heard)
    BY <1>2, <2>2 DEF Numbered
  <2>3. CASE i - Len(heard) \in 1 .. n /\ i = Len(heard) + (i - Len(heard))
    <3>1. all[i] = more[i - Len(heard)]
      BY <1>2, <2>3
    <3>2. QED
      BY <1>1, <2>3, <3>1
  <2>4. QED
    BY <2>1, <2>2, <2>3
<1>4. QED
  BY <1>1, <1>2, <1>3 DEF Numbered, all, more

LEMMA PushedIs ==
    ASSUME streamSteps \in Seq(Texts), NEW text \in Texts
    PROVE  Pushed(text) \in Seq(Texts)
BY TrimIs, AppendProperties DEF Pushed

LEMMA ReceiveTyped ==
    ASSUME StreamTypeOK, NEW d, d.thought \in Texts, d.content \in Texts, d.done \in BOOLEAN, Receive(d)
    PROVE  /\ delta'.content \in Texts /\ delta'.done \in BOOLEAN /\ inThink' \in BOOLEAN
           /\ stepBuf' \in Texts /\ streaming' \in Reading /\ streamSteps' \in Seq(Texts) /\ inlined' \in BOOLEAN
<1>1. Places(d.content, "open") # {} => After(d.content, Min(Places(d.content, "open"))) \in Texts
  <2>1. ASSUME Places(d.content, "open") # {}
        PROVE  After(d.content, Min(Places(d.content, "open"))) \in Texts
    <3>1. Places(d.content, "open") \in SUBSET Nat
      BY TextIs DEF Places
    <3>2. PICK m \in Places(d.content, "open") : \A n \in Places(d.content, "open") : m <= n
      BY <2>1, <3>1, LeastNumber
    <3>3. \A n \in Places(d.content, "open") : m =< n
      BY <3>2
    <3>4. Min(Places(d.content, "open")) \in Places(d.content, "open")
      BY <3>2, <3>3 DEF Min
    <3>5. PICK i \in 1 .. Len(d.content) : i = Min(Places(d.content, "open"))
      BY <3>4, TextIs DEF Places
    <3>6. i + 1 \in 1 .. Len(d.content) + 1 /\ Len(d.content) \in (i + 1) - 1 .. Len(d.content)
      BY TextIs
    <3>7. QED
      BY <3>5, <3>6, PartOf DEF After
  <2>2. QED
    BY <2>1
<1>2. stepBuf' \in Texts
  <2>1. \A more \in Texts : stepBuf \o more \in Texts
    BY Joined DEF StreamTypeOK
  <2>2. stepBuf' = Collected(d) /\ stepBuf \in Texts
    BY DEF Receive, StreamTypeOK
  <2>3. QED
    BY <1>1, <2>1, <2>2 DEF Collected
<1>3. delta' = d /\ inThink' \in BOOLEAN /\ streaming' \in Reading
  BY DEF Receive, Reading, StreamTypeOK
<1>4. QED
  BY <1>2, <1>3 DEF Receive, StreamTypeOK

(* The pieces of a thought.                                                *)
LEMMA ThoughtPiece ==
    ASSUME heard \in Texts, NEW piece \in Thoughts
    PROVE  \E n \in Nat : \E kinds \in [1 .. n -> {"word", "break"}] : piece = Heard(kinds)
BY StreamAssumption, TextIs DEF Thoughts

LEMMA StreamTyped ==
    ASSUME StreamTypeOK, StreamNext
    PROVE  StreamTypeOK'
<1>1. /\ heard \in Texts /\ thought \in 0 .. Len(heard) /\ stepBuf \in Texts /\ streamSteps \in Seq(Texts)
      /\ Len(heard) \in Nat
  BY TextIs DEF StreamTypeOK
<1>2. \A piece \in Thoughts : piece \in Texts
  <2>1. ASSUME NEW piece \in Thoughts PROVE piece \in Texts
    <3>1. PICK n \in Nat : \E kinds \in [1 .. n -> {"word", "break"}] : piece = Heard(kinds)
      BY <1>1, ThoughtPiece
    <3>2. PICK kinds \in [1 .. n -> {"word", "break"}] : piece = Heard(kinds)
      BY <3>1
    <3>3. QED
      BY <1>1, <3>2, HeardIs
  <2>2. QED
    BY <2>1
<1>3. CASE OpenStream
  BY <1>3 DEF OpenStream, StreamTypeOK, Reading
<1>4. CASE ThinkingDelta
  <2>1. PICK piece \in Thoughts, done \in BOOLEAN :
           /\ heard' = heard \o piece /\ thought' = Len(heard')
           /\ Receive([thinking |-> "some", thought |-> piece, content |-> << >>, done |-> done])
    BY <1>4 DEF ThinkingDelta
  <2>2. heard' \in Texts /\ thought' \in 0 .. Len(heard')
    <3>1. heard' \in Texts
      BY <1>1, <1>2, <2>1, Joined
    <3>2. QED
      BY <2>1, <3>1, TextIs
  <2>3. speaker' = "thought"
    BY <1>4 DEF ThinkingDelta
  <2> DEFINE d == [thinking |-> "some", thought |-> piece, content |-> << >>, done |-> done]
  <2>4. d.thought \in Texts /\ d.content \in Texts /\ d.done \in BOOLEAN /\ Receive(d)
    BY <1>2, <2>1, EmptyText
  <2> HIDE DEF d
  <2>5. QED
    BY <2>2, <2>3, <2>4, ReceiveTyped DEF StreamTypeOK
<1>5. CASE InlineDelta
  <2>1. PICK piece \in Thoughts, closes \in BOOLEAN, done \in BOOLEAN :
           /\ heard' = heard \o piece /\ thought' = Len(heard')
           /\ speaker' = IF closes THEN "answer" ELSE "thought"
           /\ Receive([thinking |-> "none", thought |-> << >>,
                        content |-> (IF speaker = "nobody" THEN <<OpenTag>> ELSE << >>)
                                    \o piece \o (IF closes THEN <<CloseTag>> ELSE << >>),
                        done |-> done])
    BY <1>5 DEF InlineDelta
  <2>2. heard' \in Texts /\ thought' \in 0 .. Len(heard')
    <3>1. heard' \in Texts
      BY <1>1, <1>2, <2>1, Joined
    <3>2. QED
      BY <2>1, <3>1, TextIs
  <2> DEFINE opened == IF speaker = "nobody" THEN <<OpenTag>> ELSE << >>
             closed == IF closes THEN <<CloseTag>> ELSE << >>
             d == [thinking |-> "none", thought |-> << >>, content |-> opened \o piece \o closed, done |-> done]
  <2>3. opened \in Texts /\ closed \in Texts
    <3>1. OpenTag \in StreamTokens /\ CloseTag \in StreamTokens
      BY DEF StreamTokens, OpenTag, CloseTag
    <3>2. \A tag \in StreamTokens : <<tag>> \in Seq(StreamTokens)
      OBVIOUS
    <3>3. QED
      BY <3>1, <3>2, EmptyText DEF Texts
  <2>4. opened \o piece \o closed \in Texts
    <3> HIDE DEF opened, closed
    <3>1. opened \o piece \in Texts
      BY <1>2, <2>3, Joined
    <3>2. QED
      BY <2>3, <3>1, Joined
  <2>5. d.thought \in Texts /\ d.content \in Texts /\ d.done \in BOOLEAN /\ Receive(d)
    BY <2>1, <2>4, EmptyText
  <2>6. speaker' \in {"nobody", "thought", "answer"}
    BY <2>1
  <2> HIDE DEF d
  <2>7. QED
    BY <2>2, <2>5, <2>6, ReceiveTyped DEF StreamTypeOK
<1>6. CASE ContentDelta
  <2>1. PICK n \in 0 .. 1, done \in BOOLEAN :
           /\ speaker' = IF n = 1 THEN "answer" ELSE speaker
           /\ heard' = heard \o Heard([i \in 1 .. n |-> "word"])
           /\ Receive([thinking |-> "none", thought |-> << >>, content |-> Heard([i \in 1 .. n |-> "word"]),
                        done |-> done])
    BY <1>6 DEF ContentDelta
  <2> DEFINE piece == Heard([i \in 1 .. n |-> "word"])
             d == [thinking |-> "none", thought |-> << >>, content |-> piece, done |-> done]
  <2>2. piece \in Texts
    <3>1. [i \in 1 .. n |-> "word"] \in [1 .. n -> {"word", "break"}] /\ n \in Nat
      OBVIOUS
    <3>2. QED
      BY <1>1, <3>1, HeardIs
  <2>3. d.thought \in Texts /\ d.content \in Texts /\ d.done \in BOOLEAN /\ Receive(d)
    BY <2>1, <2>2, EmptyText
  <2>4. heard' \in Texts /\ Len(heard') = Len(heard) + Len(piece) /\ Len(piece) \in Nat /\ thought' = thought
    <3> HIDE DEF piece
    <3>1. heard' = heard \o piece
      BY <2>1 DEF piece
    <3>2. QED
      BY <1>1, <1>6, <2>2, <3>1, Joined, TextIs DEF ContentDelta
  <2>5. thought' \in 0 .. Len(heard') /\ speaker' \in {"nobody", "thought", "answer"}
    <3>1. thought' \in 0 .. Len(heard')
      BY <1>1, <2>4
    <3>2. QED
      BY <2>1, <3>1 DEF StreamTypeOK
  <2> HIDE DEF d
  <2>6. QED
    BY <2>3, <2>4, <2>5, ReceiveTyped DEF StreamTypeOK
<1>7. CASE FlushStep
  <2>1. PICK b : b = Min(Gaps(stepBuf))
    OBVIOUS
  <2>2. b \in 1 .. Len(stepBuf) /\ b + 1 \in 1 .. Len(stepBuf)
    <3>1. Gaps(stepBuf) \in SUBSET Nat /\ Gaps(stepBuf) # {}
      <4>1. \A c \in Gaps(stepBuf) : c \in Nat
        BY <1>1, GapsAre
      <4>2. QED
        BY <1>7, <4>1 DEF FlushStep
    <3>2. PICK m \in Gaps(stepBuf) : \A n \in Gaps(stepBuf) : m <= n
      BY <3>1, LeastNumber
    <3>3. \A n \in Gaps(stepBuf) : m =< n
      BY <3>2
    <3>4. b \in Gaps(stepBuf)
      BY <2>1, <3>2, <3>3 DEF Min
    <3>5. QED
      BY <1>1, <3>4, GapsAre
  <2>3. /\ 1 \in 1 .. Len(stepBuf) + 1 /\ b - 1 \in 1 - 1 .. Len(stepBuf)
        /\ b + 1 + 1 \in 1 .. Len(stepBuf) + 1 /\ Len(stepBuf) \in (b + 1 + 1) - 1 .. Len(stepBuf)
    BY <1>1, <2>2, TextIs
  <2>4. SubSeq(stepBuf, 1, b - 1) \in Texts /\ After(stepBuf, b + 1) \in Texts
    BY <1>1, <2>3, PartOf DEF After
  <2>5. streamSteps' = Pushed(SubSeq(stepBuf, 1, b - 1)) /\ stepBuf' = After(stepBuf, b + 1)
    BY <1>7, <2>1 DEF FlushStep
  <2>6. streamSteps' \in Seq(Texts) /\ stepBuf' \in Texts
    BY <1>1, <2>4, <2>5, PushedIs
  <2>7. QED
    BY <1>7, <2>6 DEF FlushStep, StreamTypeOK
<1>8. ASSUME NEW text \in Texts, StopWith(text) PROVE StreamTypeOK'
  <2>1. streamSteps' \in Seq(Texts) /\ stepBuf' \in Texts
    BY <1>1, <1>8, PushedIs, EmptyText DEF StopWith
  <2>2. QED
    BY <1>8, <2>1 DEF StopWith, StreamTypeOK
<1>9. CASE CutAtClose
  <2>1. PICK i \in 1 .. Len(stepBuf) : i = Min(Places(stepBuf, "close"))
    <3>1. Places(stepBuf, "close") \in SUBSET Nat /\ Places(stepBuf, "close") # {}
      BY <1>1, <1>9, TextIs DEF CutAtClose, Places
    <3>2. PICK m \in Places(stepBuf, "close") : \A n \in Places(stepBuf, "close") : m <= n
      BY <3>1, LeastNumber
    <3>3. \A n \in Places(stepBuf, "close") : m =< n
      BY <3>2
    <3>4. Min(Places(stepBuf, "close")) \in Places(stepBuf, "close")
      BY <3>2, <3>3 DEF Min
    <3>5. QED
      BY <1>1, <3>4, TextIs DEF Places
  <2>2. 1 \in 1 .. Len(stepBuf) + 1 /\ i - 1 \in 1 - 1 .. Len(stepBuf)
    BY <1>1, TextIs
  <2>3. SubSeq(stepBuf, 1, i - 1) \in Texts
    BY <1>1, <2>2, PartOf
  <2>4. StopWith(SubSeq(stepBuf, 1, i - 1))
    BY <1>9, <2>1 DEF CutAtClose
  <2>5. QED
    BY <1>8, <2>3, <2>4
<1>10. CASE StopAtAnswer \/ StopAtDone
  BY <1>1, <1>8, <1>10 DEF StopAtAnswer, StopAtDone
<1>11. CASE EndFlush \/ KeepOn \/ NoAnswerYet \/ NextDelta
  BY <1>11 DEF EndFlush, KeepOn, NoAnswerYet, NextDelta, StreamTypeOK, Reading
<1>12. CASE CloseStream
  <2>1. << >> \in Seq(Texts) /\ << >> \in Texts
    BY EmptyText, EmptySeq
  <2>2. QED
    BY <1>1, <1>12, <2>1 DEF CloseStream, StreamTypeOK
<1>13. QED
  BY <1>3, <1>4, <1>5, <1>6, <1>7, <1>9, <1>10, <1>11, <1>12 DEF StreamNext

LEMMA ThinkingDeltaKeeps ==
    ASSUME StreamTypeOK, FieldInv, ThinkingDelta
    PROVE  FieldInv'
<1>1. PICK piece \in Thoughts, done \in BOOLEAN :
         /\ heard' = heard \o piece /\ thought' = Len(heard')
         /\ Receive([thinking |-> "some", thought |-> piece, content |-> << >>, done |-> done])
  BY DEF ThinkingDelta
<1>2. /\ heard \in Texts /\ stepBuf \in Texts /\ streamSteps \in Seq(Texts) /\ inThink \in BOOLEAN
      /\ Len(heard) \in Nat /\ Len(streamSteps) \in Nat
  BY TextIs, LenProperties DEF StreamTypeOK
<1>3. PICK n \in Nat : \E kinds \in [1 .. n -> {"word", "break"}] : piece = Heard(kinds)
  BY <1>2, ThoughtPiece
<1>4. PICK kinds \in [1 .. n -> {"word", "break"}] : piece = Heard(kinds)
  BY <1>3
<1>5. piece \in Texts
  BY <1>2, <1>4, HeardIs
<1>6. heard' \in Texts /\ Numbered(heard')
  BY <1>1, <1>2, <1>4, NumberedGrows DEF FieldInv
<1>7. /\ speaker' = "thought" /\ delta'.content = << >> /\ streaming' \in {"flush", "cut"}
      /\ inThink' = (inThink \/ piece # << >>) /\ streaming = "wait"
      /\ streaming' = "flush" => piece # << >>
      /\ streamSteps' = streamSteps
  <2>1. Places(<< >>, "open") = {}
    BY EmptySeq DEF Places
  <2>2. QED
    BY <1>1, <2>1 DEF Receive, ThinkingDelta
<1>8. piece # << >> => stepBuf' = stepBuf \o piece
  BY <1>1 DEF Receive, Collected
<1>9. piece = << >> => stepBuf' = stepBuf /\ heard' = heard
  <2>1. ASSUME piece = << >> PROVE stepBuf' = stepBuf /\ heard' = heard
    <3>1. Places(<< >>, "open") = {}
      BY EmptySeq DEF Places
    <3>2. stepBuf' = stepBuf
      BY <1>1, <2>1, <3>1 DEF Receive, Collected
    <3>3. heard \o << >> = heard
      BY <1>2, ConcatEmptySeq DEF Texts
    <3>4. QED
      BY <1>1, <2>1, <3>2, <3>3
  <2>2. QED
    BY <2>1
<1>10. Collecting(heard, stepBuf, streamSteps)
  <2>1. CASE inThink
    BY <1>7, <2>1 DEF FieldInv, Reading
  <2>2. CASE ~inThink
    <3>1. Len(heard) = 0 /\ stepBuf = << >> /\ streamSteps = << >>
      BY <2>2 DEF FieldInv, ThinkingDelta
    <3>2. heard = << >>
      BY <1>2, <3>1, EmptySeq DEF Texts
    <3>3. QED
      BY <3>1, <3>2, NothingCollected
  <2>3. QED
    BY <2>1, <2>2
<1>11. Collecting(heard', stepBuf', streamSteps')
  <2>1. CASE piece = << >>
    BY <1>7, <1>9, <1>10, <2>1
  <2>2. CASE piece # << >>
    <3>1. Collecting(heard \o piece, stepBuf \o piece, streamSteps)
      BY <1>2, <1>5, <1>10, CollectingGrows
    <3>2. QED
      BY <1>1, <1>7, <1>8, <2>2, <3>1
  <2>3. QED
    BY <2>1, <2>2
<1>12. \A i \in 1 .. Len(heard') : ~(thought' < i)
  <2>1. Len(heard') \in Nat
    BY <1>6, TextIs
  <2>2. QED
    BY <1>1, <2>1
<1>13. ~inThink' => thought' = 0 /\ stepBuf' = << >> /\ streamSteps' = << >>
  BY <1>1, <1>2, <1>7, <1>9 DEF FieldInv, ThinkingDelta
<1>14. QED
  BY <1>1, <1>6, <1>7, <1>11, <1>12, <1>13 DEF FieldInv

LEMMA ContentDeltaKeeps ==
    ASSUME StreamTypeOK, FieldInv, ~inlined, ContentDelta
    PROVE  FieldInv'
<1>1. PICK n \in 0 .. 1, done \in BOOLEAN :
         /\ speaker' = IF n = 1 THEN "answer" ELSE speaker
         /\ heard' = heard \o Heard([i \in 1 .. n |-> "word"])
         /\ Receive([thinking |-> "none", thought |-> << >>, content |-> Heard([i \in 1 .. n |-> "word"]),
                      done |-> done])
  BY DEF ContentDelta
<1> DEFINE kinds == [i \in 1 .. n |-> "word"]
           piece == Heard(kinds)
<1>2. /\ heard \in Texts /\ stepBuf \in Texts /\ streamSteps \in Seq(Texts) /\ inThink \in BOOLEAN
      /\ Len(heard) \in Nat /\ Len(streamSteps) \in Nat /\ thought \in 0 .. Len(heard) /\ thought' = thought
  BY TextIs, LenProperties DEF StreamTypeOK, ContentDelta
<1>3. kinds \in [1 .. n -> {"word", "break"}] /\ n \in Nat /\ \A i \in 1 .. n : kinds[i] = "word"
  OBVIOUS
<1>4. /\ piece \in Texts /\ Len(piece) = n
      /\ \A i \in 1 .. n : piece[i].kind = "word"
  <2> HIDE DEF kinds
  <2>1. QED
    BY <1>2, <1>3, HeardIs
<1>5. /\ heard' \in Texts /\ Numbered(heard') /\ Len(heard') = Len(heard) + n
      /\ \A i \in 1 .. Len(heard) : heard'[i] = heard[i]
      /\ \A i \in 1 .. n : heard'[Len(heard) + i].kind = "word"
  <2>1. heard' = heard \o Heard(kinds) /\ Numbered(heard)
    BY <1>1 DEF FieldInv
  <2> HIDE DEF kinds, piece
  <2>2. QED
    BY <1>2, <1>3, <2>1, NumberedGrows
<1>6. Places(piece, "open") = {}
  <2> HIDE DEF piece, kinds
  <2>1. QED
    BY <1>4, TextIs DEF Places
<1>7. /\ delta'.content = piece /\ streaming' = "cut" /\ inThink' = inThink /\ streaming = "wait"
      /\ streamSteps' = streamSteps
      /\ stepBuf' = IF inThink THEN stepBuf \o piece ELSE stepBuf
  BY <1>1, <1>2, <1>6 DEF Receive, Collected
<1>8. heard' = heard \o piece
  BY <1>1
<1> HIDE DEF piece, kinds
<1>9. inThink => Collecting(heard', stepBuf', streamSteps')
  <2>1. ASSUME inThink PROVE Collecting(heard', stepBuf', streamSteps')
    <3>1. Collecting(heard, stepBuf, streamSteps)
      BY <1>7, <2>1 DEF FieldInv, Reading
    <3>2. Collecting(heard \o piece, stepBuf \o piece, streamSteps)
      BY <1>2, <1>4, <3>1, CollectingGrows
    <3>3. QED
      BY <1>7, <1>8, <2>1, <3>2
  <2>2. QED
    BY <2>1
<1>10. ASSUME NEW i \in 1 .. Len(heard'), thought' < i PROVE heard'[i].kind = "word"
  <2>1. i \in 1 .. Len(heard) \/ (i - Len(heard) \in 1 .. n /\ i = Len(heard) + (i - Len(heard)))
    BY <1>2, <1>3, <1>5
  <2>2. CASE i \in 1 .. Len(heard)
    BY <1>2, <1>5, <1>10, <2>2 DEF FieldInv
  <2>3. CASE i - Len(heard) \in 1 .. n /\ i = Len(heard) + (i - Len(heard))
    BY <1>5, <2>3
  <2>4. QED
    BY <2>1, <2>2, <2>3
<1>11. speaker' # "answer" => thought' = Len(heard')
  <2>1. ASSUME speaker' # "answer" PROVE thought' = Len(heard')
    <3>1. n = 0 /\ speaker # "answer"
      BY <1>1, <2>1
    <3>2. thought = Len(heard)
      BY <3>1 DEF FieldInv
    <3>3. QED
      BY <1>2, <1>5, <3>1, <3>2
  <2>2. QED
    BY <2>1
<1>12. delta'.content # << >> => speaker' = "answer"
  <2>1. n = 0 => piece = << >>
    BY <1>4, EmptySeq DEF Texts
  <2>2. QED
    BY <1>1, <1>7, <2>1
<1>13. ~inThink' => thought' = 0 /\ stepBuf' = << >> /\ streamSteps' = << >>
  BY <1>2, <1>7 DEF FieldInv
<1>14. QED
  BY <1>5, <1>7, <1>9, <1>10, <1>11, <1>12, <1>13 DEF FieldInv

(* The last step: then the steps are the paragraphs of all that was heard. *)
LEMMA StopKeeps ==
    ASSUME StreamTypeOK, FieldInv, streaming \in Reading, StopWith(stepBuf), Gaps(stepBuf) = {},
           speaker = "thought" => delta.done
    PROVE  FieldInv'
<1>1. /\ heard \in Texts /\ stepBuf \in Texts /\ streamSteps \in Seq(Texts) /\ inThink \in BOOLEAN
      /\ Len(heard) \in Nat /\ thought \in 0 .. Len(heard)
      /\ streaming' = "over" /\ streamSteps' = Pushed(stepBuf) /\ stepBuf' = << >>
      /\ UNCHANGED <<speaker, heard, thought, delta, inThink>>
  BY TextIs DEF StreamTypeOK, StopWith
<1>2. \A b \in Gaps(heard) : b \in 1 .. Len(heard)
  BY <1>1, GapsAre
<1>3. CASE inThink
  <2>1. Numbered(heard) /\ Collecting(heard, stepBuf, streamSteps)
    BY <1>3 DEF FieldInv
  <2>2. StepsAre(streamSteps', heard, Len(heard))
    BY <1>1, <2>1, CollectingStopped DEF Pushed
  <2>3. Len(heard) \in 0 .. Len(heard) /\ thought <= Len(heard) /\ \A b \in Gaps(heard) : b <= Len(heard)
    BY <1>1, <1>2
  <2>4. QED
    BY <1>1, <1>3, <2>2, <2>3 DEF FieldInv, Reading
<1>4. CASE ~inThink
  <2>1. thought = 0 /\ stepBuf = << >> /\ streamSteps = << >>
    BY <1>4 DEF FieldInv
  <2>2. streamSteps' = << >>
    <3>1. NotBreaks(<< >>) = {}
      BY EmptySeq DEF NotBreaks
    <3>2. QED
      BY <1>1, <2>1, <3>1 DEF Pushed
  <2>3. StepsAre(streamSteps', heard, 0)
    BY <2>2, EmptyText DEF StepsAre
  <2>4. Gaps(heard) = {}
    <3>1. ASSUME NEW b \in Gaps(heard) PROVE FALSE
      <4>1. b \in 1 .. Len(heard) /\ heard[b].kind = "break"
        BY <1>1, GapsAre
      <4>2. thought < b
        BY <1>1, <2>1, <4>1
      <4>3. QED
        BY <4>1, <4>2 DEF FieldInv
    <3>2. QED
      BY <3>1
  <2>5. \E p \in 0 .. Len(heard) :
           StepsAre(streamSteps', heard, p) /\ (\A b \in Gaps(heard) : b <= p) /\ thought <= p
    <3>1. 0 \in 0 .. Len(heard) /\ thought <= 0
      BY <1>1, <2>1
    <3>2. QED
      BY <2>3, <2>4, <3>1
  <2>6. QED
    BY <1>1, <1>4, <2>1, <2>2, <2>5 DEF FieldInv, Reading
<1>5. QED
  BY <1>1, <1>3, <1>4

LEMMA FlushKeeps ==
    ASSUME StreamTypeOK, FieldInv, FlushStep
    PROVE  FieldInv'
<1>1. /\ heard \in Texts /\ stepBuf \in Texts /\ streamSteps \in Seq(Texts)
      /\ Numbered(heard) /\ inThink /\ Gaps(stepBuf) # {} /\ streaming \in {"flush", "flush again"}
      /\ UNCHANGED <<streaming, inlined, speaker, heard, thought, delta, inThink>>
  BY DEF StreamTypeOK, FieldInv, FlushStep
<1>2. Collecting(heard, stepBuf, streamSteps)
  BY <1>1 DEF FieldInv, Reading
<1>3. Collecting(heard, stepBuf', streamSteps')
  BY <1>1, <1>2, CollectingFlushed DEF FlushStep, Pushed
<1>4. QED
  BY <1>1, <1>3 DEF FieldInv

(* A field of its own has no tags.                                         *)
LEMMA NoCut ==
    ASSUME StreamTypeOK, FieldInv, CutAtClose
    PROVE  FALSE
<1>1. Collecting(heard, stepBuf, streamSteps) /\ Numbered(heard)
  BY DEF FieldInv, CutAtClose, Reading
<1>2. heard \in Texts /\ stepBuf \in Texts /\ Len(heard) \in Nat /\ Len(stepBuf) \in Nat
  BY TextIs DEF StreamTypeOK
<1>3. PICK p \in 0 .. Len(heard) : p = Len(heard) - Len(stepBuf)
  BY <1>1 DEF Collecting
<1>4. PICK m \in 1 .. Len(stepBuf) : stepBuf[m].kind = "close"
  BY <1>2, TextIs DEF CutAtClose, Places
<1>5. stepBuf[m] = heard[(p + 1) + m - 1]
  BY <1>1, <1>3 DEF Collecting, PartIs
<1>6. (p + 1) + m - 1 \in 1 .. Len(heard)
  BY <1>2, <1>3
<1>7. QED
  BY <1>1, <1>4, <1>5, <1>6 DEF Numbered

LEMMA CloseKeeps ==
    ASSUME StreamTypeOK, FieldInv, CloseStream
    PROVE  FieldInv'
<1>1. /\ heard \in Texts /\ stepBuf \in Texts /\ streamSteps \in Seq(Texts) /\ inThink \in BOOLEAN
      /\ Len(heard) \in Nat /\ Len(stepBuf) \in Nat
      /\ streaming = "wait" /\ streaming' \in {"closed", "failed"} /\ stepBuf' = << >>
      /\ streaming' = "closed" => streamSteps' = streamSteps
      /\ streaming' = "failed" => streamSteps' = << >>
      /\ UNCHANGED <<speaker, heard, thought, delta, inThink>>
  BY TextIs DEF StreamTypeOK, CloseStream
<1>2. \E p \in 0 .. Len(heard) : StepsAre(streamSteps, heard, p) /\ \A b \in Gaps(heard) : b <= p
  <2>1. CASE inThink
    <3>1. Collecting(heard, stepBuf, streamSteps) /\ Gaps(stepBuf) = {}
      BY <1>1, <2>1 DEF FieldInv, Reading
    <3>2. PICK p \in 0 .. Len(heard) : p = Len(heard) - Len(stepBuf)
      BY <3>1 DEF Collecting
    <3>3. StepsAre(streamSteps, heard, p)
      BY <3>1, <3>2 DEF Collecting
    <3>4. \A b \in Gaps(heard) : b <= p
      BY <1>1, <3>1, <3>2, GapsArePassed
    <3>5. QED
      BY <3>3, <3>4
  <2>2. CASE ~inThink
    <3>1. thought = 0 /\ streamSteps = << >>
      BY <2>2 DEF FieldInv
    <3>2. StepsAre(streamSteps, heard, 0) /\ 0 \in 0 .. Len(heard)
      BY <1>1, <3>1, EmptyText DEF StepsAre
    <3>3. ASSUME NEW b \in Gaps(heard) PROVE FALSE
      <4>1. b \in 1 .. Len(heard) /\ heard[b].kind = "break"
        BY <1>1, GapsAre
      <4>2. thought < b
        BY <1>1, <3>1, <4>1
      <4>3. QED
        BY <4>1, <4>2 DEF FieldInv
    <3>4. QED
      BY <3>2, <3>3
  <2>3. QED
    BY <1>1, <2>1, <2>2
<1>3. Gaps(stepBuf') = {}
  BY <1>1, EmptyText
<1>4. ~inThink' => thought' = 0 /\ stepBuf' = << >> /\ streamSteps' = << >>
  BY <1>1 DEF FieldInv
<1>5. streaming' = "closed" =>
        \E p \in 0 .. Len(heard') : StepsAre(streamSteps', heard', p) /\ \A b \in Gaps(heard') : b <= p
  BY <1>1, <1>2
<1>6. QED
  BY <1>1, <1>3, <1>4, <1>5 DEF FieldInv, Reading

LEMMA StreamStarts == StreamInit => StreamInv
<1>1. ASSUME StreamInit PROVE StreamInv
  <2>1. << >> \in Texts /\ << >> \in Seq(Texts) /\ Len(<< >>) = 0 /\ 0 \in 0 .. 0
    BY EmptyText, EmptySeq
  <2>2. StreamTypeOK
    BY <1>1, <2>1 DEF StreamInit, StreamTypeOK, NoDelta
  <2>3. FieldInv
    BY <1>1, <2>1, EmptyText DEF StreamInit, FieldInv, NoDelta, Numbered, Reading
  <2>4. QED
    BY <1>1, <2>2, <2>3 DEF StreamInit, StreamInv
<1>2. QED
  BY <1>1

LEMMA StreamStep ==
    ASSUME StreamInv, StreamNext
    PROVE  StreamInv'
<1>1. StreamTypeOK /\ StreamTypeOK'
  BY StreamTyped DEF StreamInv
<1>2. streaming' # "idle"
  BY DEF StreamNext, OpenStream, ThinkingDelta, InlineDelta, ContentDelta, Receive, FlushStep, EndFlush, StopWith,
     CutAtClose, KeepOn, StopAtAnswer, NoAnswerYet, StopAtDone, NextDelta, CloseStream
<1>3. CASE OpenStream
  <2>1. FieldInv
    BY <1>3 DEF OpenStream, StreamInv
  <2>2. FieldInv'
    <3>1. ~inThink /\ stepBuf = << >> /\ Gaps(stepBuf) = {}
      BY <1>3, <2>1, EmptyText DEF OpenStream, FieldInv
    <3>2. QED
      BY <1>3, <2>1, <3>1 DEF OpenStream, FieldInv, Reading
  <2>3. QED
    BY <1>1, <1>2, <2>2 DEF StreamInv
<1>4. ASSUME ~inlined', inlined' = inlined, ~OpenStream PROVE FieldInv'
  <2>1. FieldInv /\ ~inlined
    BY <1>4 DEF StreamInv
  <2>2. CASE ThinkingDelta
    BY <1>1, <2>1, <2>2, ThinkingDeltaKeeps
  <2>3. CASE ContentDelta
    BY <1>1, <2>1, <2>3, ContentDeltaKeeps
  <2>4. CASE FlushStep
    BY <1>1, <2>1, <2>4, FlushKeeps
  <2>5. CASE CutAtClose
    BY <1>1, <2>1, <2>5, NoCut
  <2>6. CASE StopAtAnswer
    <3>1. speaker = "answer" /\ streaming \in Reading /\ Gaps(stepBuf) = {} /\ StopWith(stepBuf)
      BY <2>1, <2>6 DEF StopAtAnswer, AnswerBegins, FieldInv, Reading
    <3>2. QED
      BY <1>1, <2>1, <3>1, StopKeeps
  <2>7. CASE StopAtDone
    <3>1. delta.done /\ streaming \in Reading /\ Gaps(stepBuf) = {} /\ StopWith(stepBuf)
      BY <2>1, <2>7 DEF StopAtDone, FieldInv, Reading
    <3>2. QED
      BY <1>1, <2>1, <3>1, StopKeeps
  <2>8. CASE CloseStream
    BY <1>1, <2>1, <2>8, CloseKeeps
  <2>9. CASE EndFlush
    BY <2>1, <2>9 DEF EndFlush, FieldInv, Reading
  <2>10. CASE KeepOn
    <3>1. ~inThink => Gaps(stepBuf) = {}
      BY <2>1, EmptyText DEF FieldInv
    <3>2. QED
      BY <2>1, <2>10, <3>1 DEF KeepOn, FieldInv, Reading
  <2>11. CASE NoAnswerYet
    BY <2>1, <2>11 DEF NoAnswerYet, FieldInv, Reading
  <2>12. CASE NextDelta
    BY <2>1, <2>12 DEF NextDelta, FieldInv, Reading
  <2>13. CASE InlineDelta
    BY <2>1, <2>13 DEF InlineDelta
  <2>14. QED
    BY <1>4, <2>2, <2>3, <2>4, <2>5, <2>6, <2>7, <2>8, <2>9, <2>10, <2>11, <2>12, <2>13 DEF StreamNext
<1>5. ~OpenStream => inlined' = inlined
  BY DEF StreamNext, ThinkingDelta, InlineDelta, ContentDelta, Receive, FlushStep, EndFlush, StopWith,
     CutAtClose, KeepOn, StopAtAnswer, NoAnswerYet, StopAtDone, NextDelta, CloseStream
<1>6. QED
  BY <1>1, <1>2, <1>3, <1>4, <1>5 DEF StreamInv

LEMMA InStepIs ==
    ASSUME heard \in Texts, Numbered(heard), streamSteps \in Seq(Texts), NEW p \in 0 .. Len(heard),
           StepsAre(streamSteps, heard, p), NEW k \in 1 .. Len(streamSteps)
    PROVE  \E f, g \in 1 .. Len(heard) :
              /\ f = FirstAt(streamSteps[k]) /\ g = LastAt(streamSteps[k]) /\ f <= g /\ g <= p
              /\ DOMAIN streamSteps[k] = 1 .. g - f + 1
              /\ \A m \in 1 .. g - f + 1 : streamSteps[k][m].at = f + m - 1
              /\ \A i \in 1 .. Len(heard) : InStep(i, k) <=> f <= i /\ i <= g
              /\ \A b \in Gaps(heard) : ~(f <= b /\ b < g)
<1> DEFINE s == streamSteps[k]
           f == FirstAt(s)
           g == LastAt(s)
<1>1. s \in Texts /\ Len(s) \in Nat /\ DOMAIN s = 1 .. Len(s) /\ Len(heard) \in Nat
  BY ElementOfSeq, TextIs DEF Texts
<1>2. ParagraphIs(s, heard, f, g) /\ g <= p
  BY DEF StepsAre
<1> HIDE DEF f, g, s
<1>3. /\ f \in 1 .. Len(heard) /\ g \in 1 .. Len(heard) /\ f <= g /\ Len(s) = g - f + 1
      /\ \A m \in 1 .. g - f + 1 : s[m] = heard[f + m - 1]
      /\ \A b \in Gaps(heard) : ~(f <= b /\ b < g)
  BY <1>1, <1>2 DEF ParagraphIs, PartIs
<1>4. \A m \in 1 .. g - f + 1 : f + m - 1 \in 1 .. Len(heard)
  BY <1>1, <1>3
<1>5. \A m \in 1 .. g - f + 1 : s[m].at = f + m - 1
  BY <1>3, <1>4 DEF Numbered
<1>6. ASSUME NEW i \in 1 .. Len(heard) PROVE InStep(i, k) <=> f <= i /\ i <= g
  <2>1. ASSUME InStep(i, k) PROVE f <= i /\ i <= g
    <3>1. PICK m \in 1 .. g - f + 1 : s[m] = heard[i]
      BY <1>1, <1>3, <2>1 DEF InStep, s
    <3>2. s[m].at = i /\ s[m].at = f + m - 1
      BY <1>5, <3>1 DEF Numbered
    <3>3. QED
      BY <1>3, <3>2
  <2>2. ASSUME f <= i, i <= g PROVE InStep(i, k)
    <3>1. i - f + 1 \in 1 .. g - f + 1 /\ f + (i - f + 1) - 1 = i
      BY <1>3, <2>2
    <3>2. s[i - f + 1] = heard[i]
      BY <1>3, <3>1
    <3>3. i - f + 1 \in DOMAIN s
      BY <1>1, <1>3, <3>1
    <3>4. QED
      BY <3>2, <3>3 DEF InStep, s
  <2>3. QED
    BY <2>1, <2>2
<1>7. QED
  BY <1>1, <1>2, <1>3, <1>5, <1>6 DEF s, f, g

(* The steps that are handed over are the paragraphs of the thinking.      *)
LEMMA StepsAreParagraphs ==
    ASSUME heard \in Texts, Numbered(heard), streamSteps \in Seq(Texts), NEW p \in 0 .. Len(heard),
           StepsAre(streamSteps, heard, p), NEW k \in 1 .. Len(streamSteps), NEW l \in 1 .. Len(streamSteps)
    PROVE  /\ \A i, j \in 1 .. Len(heard) :
                 i < j /\ InStep(i, k) /\ InStep(j, l) => k <= l /\ (k = l <=> ~Parted(i, j))
           /\ \A m \in DOMAIN streamSteps[k], n \in DOMAIN streamSteps[l] :
                 streamSteps[k][m] = streamSteps[l][n] => k = l /\ m = n
<1>1. PICK f, g \in 1 .. Len(heard) :
         /\ f = FirstAt(streamSteps[k]) /\ g = LastAt(streamSteps[k]) /\ f <= g
         /\ DOMAIN streamSteps[k] = 1 .. g - f + 1
         /\ \A m \in 1 .. g - f + 1 : streamSteps[k][m].at = f + m - 1
         /\ \A i \in 1 .. Len(heard) : InStep(i, k) <=> f <= i /\ i <= g
         /\ \A b \in Gaps(heard) : ~(f <= b /\ b < g)
  BY InStepIs
<1>2. PICK x, y \in 1 .. Len(heard) :
         /\ x = FirstAt(streamSteps[l]) /\ y = LastAt(streamSteps[l]) /\ x <= y
         /\ DOMAIN streamSteps[l] = 1 .. y - x + 1
         /\ \A m \in 1 .. y - x + 1 : streamSteps[l][m].at = x + m - 1
         /\ \A i \in 1 .. Len(heard) : InStep(i, l) <=> x <= i /\ i <= y
         /\ \A b \in Gaps(heard) : ~(x <= b /\ b < y)
  BY InStepIs
<1>3. Len(heard) \in Nat /\ Len(streamSteps) \in Nat /\ \A b \in Gaps(heard) : b \in 1 .. Len(heard)
  BY TextIs, LenProperties, GapsAre
<1>4. k < l => \E b \in Gaps(heard) : g < b /\ b + 1 < x
  BY <1>1, <1>2 DEF StepsAre, GapBetween
<1>5. l < k => \E b \in Gaps(heard) : y < b /\ b + 1 < f
  BY <1>1, <1>2 DEF StepsAre, GapBetween
<1>6. k = l => f = x /\ g = y
  BY <1>1, <1>2
<1>7. k < l => g < x
  <2>1. ASSUME NEW b \in Gaps(heard), g < b, b + 1 < x PROVE g < x
    <3>1. b \in 1 .. Len(heard)
      BY <1>3
    <3>2. QED
      BY <1>3, <2>1, <3>1
  <2>2. QED
    BY <1>4, <2>1
<1>8. l < k => y < f
  <2>1. ASSUME NEW b \in Gaps(heard), y < b, b + 1 < f PROVE y < f
    <3>1. b \in 1 .. Len(heard)
      BY <1>3
    <3>2. QED
      BY <1>3, <2>1, <3>1
  <2>2. QED
    BY <1>5, <2>1
<1>9. ASSUME NEW i \in 1 .. Len(heard), NEW j \in 1 .. Len(heard), i < j, InStep(i, k), InStep(j, l)
      PROVE  k <= l /\ (k = l <=> ~Parted(i, j))
  <2>1. f <= i /\ i <= g /\ x <= j /\ j <= y
    BY <1>1, <1>2, <1>9
  <2>2. ~(l < k)
    <3>1. ~(y < f)
      BY <1>3, <1>9, <2>1
    <3>2. QED
      BY <1>8, <3>1
  <2>3. k < l => Parted(i, j)
    BY <1>3, <1>4, <2>1 DEF Parted
  <2>4. ASSUME k = l, Parted(i, j) PROVE FALSE
    <3>1. PICK b \in Gaps(heard) : i < b /\ b + 1 < j
      BY <2>4 DEF Parted
    <3>2. b \in 1 .. Len(heard) /\ j <= g
      BY <1>3, <1>6, <2>1, <2>4
    <3>3. f <= b /\ b < g
      BY <1>3, <2>1, <3>1, <3>2
    <3>4. QED
      BY <1>1, <3>3
  <2>5. QED
    BY <1>3, <2>2, <2>3, <2>4
<1>10. ASSUME NEW m \in DOMAIN streamSteps[k], NEW n \in DOMAIN streamSteps[l],
             streamSteps[k][m] = streamSteps[l][n]
      PROVE  k = l /\ m = n
  <2>1. m \in 1 .. g - f + 1 /\ n \in 1 .. y - x + 1
    BY <1>1, <1>2
  <2>2. f + m - 1 = x + n - 1
    BY <1>1, <1>2, <1>10, <2>1
  <2>3. f <= y /\ x <= g
    <3>1. f <= f + m - 1 /\ f + m - 1 <= g
      BY <1>3, <2>1
    <3>2. x <= x + n - 1 /\ x + n - 1 <= y
      BY <1>3, <2>1
    <3>3. f + m - 1 \in Int
      BY <1>3, <2>1
    <3>4. QED
      BY <1>3, <2>2, <3>1, <3>2, <3>3
  <2>4. ~(k < l) /\ ~(l < k)
    <3>1. ~(g < x) /\ ~(y < f)
      BY <1>3, <2>3
    <3>2. QED
      BY <1>7, <1>8, <3>1
  <2>5. k = l
    BY <1>3, <2>4
  <2>6. QED
    BY <1>6, <2>1, <2>2, <2>5
<1>11. QED
  BY <1>9, <1>10

LEMMA StreamKept == StreamInv => StreamKeepsThinking
<1>1. SUFFICES ASSUME StreamInv, ~inlined PROVE StreamKeepsThinking
  BY DEF StreamKeepsThinking
<1>2. StreamTypeOK /\ FieldInv
  BY <1>1 DEF StreamInv
<1>3. heard \in Texts /\ Numbered(heard) /\ streamSteps \in Seq(Texts) /\ thought \in 0 .. Len(heard)
  BY <1>2 DEF StreamTypeOK, FieldInv
<1>4. /\ Len(heard) \in Nat /\ DOMAIN heard = 1 .. Len(heard) /\ Len(streamSteps) \in Nat
      /\ DOMAIN streamSteps = 1 .. Len(streamSteps)
  BY <1>3, TextIs, LenProperties
<1>5. \A i \in ThoughtWords : i \in 1 .. Len(heard) /\ heard[i].kind = "word" /\ i <= thought
  BY <1>4 DEF ThoughtWords, Places
<1>6. ASSUME streaming \in {"over", "closed"}
      PROVE  /\ \A i \in ThoughtWords :
                   streaming = "over" \/ Parted(i, thought + 1) => \E k \in DOMAIN streamSteps : InStep(i, k)
             /\ \A i, j \in ThoughtWords : \A k, l \in DOMAIN streamSteps :
                   i < j /\ InStep(i, k) /\ InStep(j, l) => k <= l /\ (k = l <=> ~Parted(i, j))
             /\ \A k, l \in DOMAIN streamSteps : \A m \in DOMAIN streamSteps[k], n \in DOMAIN streamSteps[l] :
                   streamSteps[k][m] = streamSteps[l][n] => k = l /\ m = n
  <2>1. PICK p \in 0 .. Len(heard) :
           /\ StepsAre(streamSteps, heard, p) /\ \A b \in Gaps(heard) : b <= p
           /\ streaming = "over" => thought <= p
    BY <1>2, <1>6 DEF FieldInv
  <2>2. ASSUME NEW i \in ThoughtWords, streaming = "over" \/ Parted(i, thought + 1)
        PROVE  \E k \in DOMAIN streamSteps : InStep(i, k)
    <3>1. i <= p
      <4>1. CASE streaming = "over"
        BY <1>3, <1>4, <1>5, <2>1, <4>1
      <4>2. CASE Parted(i, thought + 1)
        <5>1. PICK b \in Gaps(heard) : i < b
          BY <4>2 DEF Parted
        <5>2. b \in 1 .. Len(heard) /\ b <= p
          BY <1>3, <2>1, GapsAre
        <5>3. QED
          BY <1>4, <1>5, <5>1, <5>2
      <4>3. QED
        BY <2>2, <4>1, <4>2
    <3>2. i \in 1 .. p
      BY <1>4, <1>5, <3>1
    <3>3. PICK k \in 1 .. Len(streamSteps) : FirstAt(streamSteps[k]) <= i /\ i <= LastAt(streamSteps[k])
      BY <1>5, <2>1, <3>2 DEF StepsAre
    <3>4. InStep(i, k)
      BY <1>3, <1>5, <2>1, <3>3, InStepIs
    <3>5. QED
      BY <1>4, <3>4
  <2>3. \A k, l \in 1 .. Len(streamSteps) :
           /\ \A i, j \in 1 .. Len(heard) :
                 i < j /\ InStep(i, k) /\ InStep(j, l) => k <= l /\ (k = l <=> ~Parted(i, j))
           /\ \A m \in DOMAIN streamSteps[k], n \in DOMAIN streamSteps[l] :
                 streamSteps[k][m] = streamSteps[l][n] => k = l /\ m = n
    BY <1>3, <2>1, StepsAreParagraphs
  <2>4. QED
    BY <1>4, <1>5, <2>2, <2>3
<1>7. streaming = "over" /\ speaker = "thought" => delta.done
  BY <1>2 DEF FieldInv
<1>8. QED
  BY <1>6, <1>7 DEF StreamKeepsThinking

(* Of thinking in a field of its own no word is lost or doubled, and the   *)
(* steps are its paragraphs in their order, however it is cut into deltas  *)
(* (thinking_with_steps of the Ollama adapter).                            *)
THEOREM ThinkingIsKept == StreamSpec => []StreamKeepsThinking
<1>1. StreamInv /\ UNCHANGED streamVars => StreamInv'
  <2>1. SUFFICES ASSUME StreamInv, UNCHANGED streamVars PROVE StreamInv'
    OBVIOUS
  <2>2. StreamTypeOK'
    BY <2>1 DEF StreamInv, StreamTypeOK, streamVars
  <2>3. ~inlined => FieldInv'
    BY <2>1 DEF StreamInv, FieldInv, streamVars
  <2>4. QED
    BY <2>1, <2>2, <2>3 DEF StreamInv, streamVars
<1>2. StreamInv /\ [StreamNext]_streamVars => StreamInv'
  BY <1>1, StreamStep
<1>3. QED
  BY <1>2, StreamStarts, StreamKept, PTL DEF StreamSpec
=============================================================================

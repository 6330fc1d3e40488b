-------------------------- MODULE RecallTurnProofs --------------------------
(***************************************************************************)
(* Proofs about module RecallTurn: run_turn uses the workspace only        *)
(* through the operations of module Workspace, so that everything proved   *)
(* there holds of turns; and what a turn admits reaches the model.         *)
(*                                                                         *)
(* The eviction between admission and completion takes what is below the   *)
(* unload threshold.  That new content is never below it has to be known   *)
(* at every step in between: TurnInv says that unseen content has a score  *)
(* of at least the unload threshold (Fresh), and that nothing is unseen    *)
(* when scores decay (NothingUnseen).                                      *)
(***************************************************************************)
EXTENDS RecallTurn, WorkspaceProofs, SequenceTheorems

AfterRecall == {"trace", "traceHistory", "probe"}

InIteration ==
    \/ pc \in AfterRecall \cup {"lines", "settle"}
    \/ pc = "load" /\ call.after \in AfterRecall

InPhaseOne ==
    \/ pc \in {"history", "initial", "stream", "judge"}
    \/ pc = "load" /\ call.after \in {"initial", "judge"}

(* Where a turn is, its stage, and the iterations it has made.             *)
Control ==
    /\ pc = "load" => call.after \in AfterRecall \cup {"initial", "complete", "judge"}
    /\ InIteration \/ (pc = "complete" /\ turn.stage = "refine") =>
            turn.iter < MaxRecallIterations
    /\ InPhaseOne => turn.stage = "first"
    /\ pc = "load" /\ call.after = "complete" => turn.stage # "refine"

Fresh == \A i \in unseen : i \in DOMAIN relevance /\ relevance[i] >= UnloadThreshold

NothingUnseen ==
    \/ pc \in {"idle", "refine", "mention", "stream", "judge"}
    \/ pc = "load" /\ call.after = "judge"
    => unseen = {}

TurnInv ==
    /\ WsInv
    /\ TurnTypeOK
    /\ Control
    /\ Fresh
    /\ NothingUnseen

-----------------------------------------------------------------------------
(* Lemmas about hits: functions from some of the ids to scores.            *)
LEMMA HitsType ==
    ASSUME NEW S, NEW hits \in HitsAmong(S)
    PROVE  /\ DOMAIN hits \subseteq S
           /\ hits \in [DOMAIN hits -> Scores]
BY DEF HitsAmong

LEMMA HitsIntro ==
    ASSUME NEW S, NEW T \in SUBSET S, NEW hits \in [T -> Scores]
    PROVE  hits \in HitsAmong(S)
BY DEF HitsAmong

LEMMA HitsNone == ASSUME NEW S PROVE NoHits \in HitsAmong(S)
<1>1. NoHits \in [{} -> Scores]
  BY DEF NoHits
<1> QED
  BY <1>1, HitsIntro

LEMMA HitsWiden ==
    ASSUME NEW S, NEW T, S \subseteq T, NEW hits \in HitsAmong(S)
    PROVE  hits \in HitsAmong(T)
<1>1. DOMAIN hits \in SUBSET T /\ hits \in [DOMAIN hits -> Scores]
  BY HitsType
<1> QED
  BY <1>1, HitsIntro

LEMMA CorpusIds == Corpus \subseteq Ids /\ HistoryIds \subseteq Ids
BY DEF Corpus, HistoryIds

-----------------------------------------------------------------------------
(* The hit at hand is typed.                                               *)
LEMMA NextHitType ==
    ASSUME TurnTypeOK, NEW i \in NextHits
    PROVE  i \in Ids /\ call.hits[i] \in Scores /\ call.mode \in Forms
<1>1. i \in DOMAIN call.hits
  BY DEF NextHits, Uncovered
<1>2. call.hits \in HitsAmong(Ids) /\ call.mode \in Forms
  BY DEF TurnTypeOK, Calls
<1> QED
  BY <1>1, <1>2, HitsType

(* Every step of a turn is a step of the workspace or leaves it alone.     *)
LEMMA TurnStepIsWsStep == TurnTypeOK /\ [TurnNext]_vars => [WsNext]_wsVars
<1> SUFFICES ASSUME TurnTypeOK, [TurnNext]_vars PROVE [WsNext]_wsVars
  OBVIOUS
<1>1. CASE StartTurn
  BY <1>1 DEF StartTurn, WsNext
<1>2. CASE HostReset
  BY <1>2 DEF HostReset, WsNext
<1>3. CASE LoadRehit
  BY <1>3, NextHitType DEF LoadRehit, WsNext
<1>4. CASE LoadAdmit
  <2>1. PICK i \in NextHits :
          \E t \in SizesOf(FormOf(i, call.mode)) : Admit(i, call.hits[i], call.mode, t)
    BY <1>4 DEF LoadAdmit
  <2> QED
    BY <2>1, NextHitType DEF WsNext
<1>5. CASE StartIteration
  BY <1>5 DEF StartIteration, WsNext
<1>6. CASE LineStep
  <2>1. \/ \E i \in Ids : LineUpgrade(i)
        \/ UNCHANGED wsVars
        \/ \E i \in Corpus, t \in BodySizes : LineAdmit(i, t)
    BY <1>6 DEF LineStep
  <2> QED
    BY <2>1, CorpusIds DEF WsNext
<1>7. CASE Settle
  BY <1>7 DEF Settle, WsNext
<1>8. ASSUME \/ PassThrough \/ RecallHistory \/ LoadInitial
             \/ LoadSkip \/ LoadStop \/ LoadFails \/ LoadEnd
             \/ Complete \/ StartStream \/ Inject \/ EndStream \/ Judge
             \/ LoadMentioned \/ IterationsSpent
             \/ TraceStep \/ TraceHistory \/ ProbeStep \/ ProbesThrottled
             \/ LinesStop \/ NextRecall \/ Finish
             \/ UNCHANGED vars
      PROVE  UNCHANGED wsVars
  BY <1>8 DEF PassThrough, RecallHistory, LoadInitial, LoadSkip, LoadStop,
              LoadFails, LoadEnd, Complete, StartStream, Inject, EndStream, Judge,
              LoadMentioned, IterationsSpent, TraceStep, TraceHistory, ProbeStep,
              ProbesThrottled, LinesStop, NextRecall, Finish, vars
<1> QED
  BY <1>1, <1>2, <1>3, <1>4, <1>5, <1>6, <1>7, <1>8
     DEF TurnNext, RunTurn, LoadStep, RecallStep

-----------------------------------------------------------------------------
(* Lemmas for the steps that many actions share.                           *)
LEMMA NoCallType == NoCall \in Calls /\ NoInjection \in Injections /\ NoTurn \in Turns
<1>1. NoHits \in HitsAmong(Ids) /\ NoHits \in HitsAmong(Corpus)
  BY HitsNone
<1>2. NoCall \in Calls
  BY <1>1 DEF NoCall, Calls, Forms, Places
<1>3. NoInjection \in Injections
  BY <1>1, WorkspaceAssumption DEF NoInjection, Injections
<1>4. NoTurn \in Turns
  BY TurnAssumption, EmptySeq DEF NoTurn, Turns
<1> QED
  BY <1>2, <1>3, <1>4

LEMMA ReturnInv ==
    ASSUME TurnInv, WsInv',
           NEW outcome \in {"none", "ok", "degenerate", "error"},
           NEW response \in Nat,
           Return(outcome, response), session' \subseteq HistoryIds
    PROVE  TurnInv'
<1>1. NoHits \in HitsAmong(Corpus)
  BY HitsNone
<1>2. TurnTypeOK'
  BY <1>1, NoCallType DEF Return, TurnTypeOK, WsInv, Places, Results
<1>3. Control'
  BY DEF Return, Control, InIteration, InPhaseOne, AfterRecall
<1>4. Fresh' /\ NothingUnseen'
  BY DEF Return, Fresh, NothingUnseen
<1> QED
  BY <1>2, <1>3, <1>4 DEF TurnInv

LEMMA AbortInv ==
    ASSUME TurnInv, Abort, UNCHANGED wsVars, WsInv'
    PROVE  TurnInv'
BY ReturnInv DEF Abort, TurnInv, TurnTypeOK

LEMMA BeginLoadType ==
    ASSUME NEW S \in SUBSET Ids, NEW hits \in HitsAmong(S), NEW mode \in Forms,
           NEW covered \in SUBSET Sources, NEW after \in Places \ {"load"},
           BeginLoad(hits, mode, covered, after)
    PROVE  call' \in Calls /\ call'.after = after /\ pc' = "load"
<1>1. hits \in HitsAmong(Ids)
  BY HitsWiden
<1> QED
  BY <1>1 DEF BeginLoad, Goto, Calls

LEMMA AnsweredType ==
    ASSUME turn \in Turns, NEW quality \in Qualities, Answered(quality),
           turn.stage = "refine" => turn.iter < MaxRecallIterations
    PROVE  turn' \in Turns /\ pc' \in {"mention", "refine"}
<1>1. turn.iter \in 0..MaxRecallIterations /\ MaxRecallIterations \in Nat
  BY TurnAssumption DEF Turns
<1>2. 0 \in 0..MaxDegenerateRetries
  BY TurnAssumption
<1> DEFINE refining == turn.stage = "refine"
           clean == IF refining THEN Append(turn.clean, quality) ELSE <<quality>>
           best == IF refining /\ quality < turn.clean[turn.best] THEN turn.best ELSE Len(clean)
           iter == IF refining THEN turn.iter + 1 ELSE turn.iter
<1>3. clean \in Seq(Qualities) /\ Len(clean) \in Nat
  BY LenProperties DEF Turns
<1>4. iter \in 0..MaxRecallIterations
  BY <1>1
<1>5. best \in Nat
  BY <1>3 DEF Turns
<1>6. turn' = [turn EXCEPT !.attempt = 0, !.clean = clean, !.last = Len(clean),
                           !.best = best, !.iter = iter]
  BY DEF Answered
<1> HIDE DEF clean, best, iter
<1>7. turn' \in Turns
  BY <1>2, <1>3, <1>4, <1>5, <1>6 DEF Turns
<1> QED
  BY <1>7 DEF Answered, Goto

LEMMA DegeneratedType ==
    ASSUME turn \in Turns, Degenerated
    PROVE  /\ turn' \in Turns /\ pc' \in {"complete", "finish"}
           /\ turn'.stage = turn.stage /\ turn'.iter = turn.iter
<1>1. turn.attempt \in 0..MaxDegenerateRetries /\ MaxDegenerateRetries \in Nat
  BY TurnAssumption DEF Turns
<1>2. CASE turn.attempt < MaxDegenerateRetries
  <2>1. turn' = [turn EXCEPT !.attempt = turn.attempt + 1] /\ pc' = "complete"
    BY <1>2 DEF Degenerated, Goto
  <2>2. turn.attempt + 1 \in 0..MaxDegenerateRetries
    BY <1>1, <1>2
  <2> QED
    BY <2>1, <2>2 DEF Turns
<1>3. CASE ~(turn.attempt < MaxDegenerateRetries)
  <2>1. turn' = [turn EXCEPT !.degenerate = TRUE] /\ pc' = "finish"
    BY <1>3 DEF Degenerated, Goto
  <2> QED
    BY <2>1 DEF Turns
<1> QED
  BY <1>2, <1>3

(* The hits that are left.                                                 *)
LEMMA PastType ==
    ASSUME TurnTypeOK, NEW i \in NextHits, Past(i)
    PROVE  call' \in Calls /\ call'.after = call.after
<1>1. call.hits \in HitsAmong(Ids) /\ call \in Calls
  BY DEF TurnTypeOK, Calls
<1> DEFINE left == [j \in DOMAIN call.hits \ {i} |-> call.hits[j]]
<1>2. left \in HitsAmong(Ids)
  <2>1. /\ DOMAIN call.hits \subseteq Ids
        /\ call.hits \in [DOMAIN call.hits -> Scores]
    BY <1>1, HitsType
  <2>2. left \in [DOMAIN call.hits \ {i} -> Scores]
    BY <2>1
  <2> QED
    BY <2>1, <2>2, HitsIntro
<1>3. SourceOf[i] \in Sources
  BY NextHitType, WorkspaceAssumption
<1>4. call' = [call EXCEPT !.hits = left, !.covered = @ \cup {SourceOf[i]}]
  BY DEF Past
<1> HIDE DEF left
<1> QED
  BY <1>1, <1>2, <1>3, <1>4 DEF Calls

(* New fragments have a score the next eviction respects.                  *)
LEMMA UpgradeFresh ==
    ASSUME WsInv, Fresh, NEW i \in Ids, NEW score \in Nat, NEW t \in 0..MaxTokens,
           NEW rel \in [DOMAIN relevance -> Nat],
           \A j \in DOMAIN relevance : rel[j] >= relevance[j],
           UpgradeTo(i, score, t, rel),
           unseen' \subseteq unseen \cup {f.id : f \in loaded' \ loaded}
    PROVE  Fresh'
<1>1. \A f \in loaded' \ loaded : f.id = i
  BY DEF UpgradeTo
<1>2. /\ relevance' = Pinned(rel, i, score)
      /\ relevance \in [DOMAIN relevance -> Nat]
  BY DEF UpgradeTo, WsInv, WsTypeOK
<1>3. i \in DOMAIN relevance' /\ relevance'[i] >= UnloadThreshold
  BY <1>2, WorkspaceAssumption DEF Pinned
<1>4. ASSUME NEW j \in DOMAIN relevance, relevance[j] >= UnloadThreshold, j # i
      PROVE  j \in DOMAIN relevance' /\ relevance'[j] >= UnloadThreshold
  BY <1>2, <1>4, WorkspaceAssumption DEF Pinned
<1> QED
  BY <1>1, <1>3, <1>4 DEF Fresh

LEMMA LeaveFresh ==
    ASSUME WsInv, Fresh,
           NEW rel \in [DOMAIN relevance -> Nat],
           \A j \in DOMAIN relevance : rel[j] >= relevance[j],
           NEW i, LeaveStub(i, rel),
           unseen' \subseteq unseen \cup {f.id : f \in loaded' \ loaded}
    PROVE  Fresh'
<1>1. /\ relevance' = rel /\ unseen' \subseteq unseen
      /\ relevance \in [DOMAIN relevance -> Nat]
  BY DEF LeaveStub, WsInv, WsTypeOK
<1> QED
  BY <1>1, WorkspaceAssumption DEF Fresh

-----------------------------------------------------------------------------
(* Every step of a turn preserves the invariant.                           *)
LEMMA TurnStep == TurnInv /\ [TurnNext]_vars => TurnInv'
<1> SUFFICES ASSUME TurnInv, [TurnNext]_vars PROVE TurnInv'
  OBVIOUS
<1>1. /\ WsInv' /\ WsTypeOK' /\ WsInv
      /\ TurnTypeOK /\ Control /\ Fresh /\ NothingUnseen
  BY TurnStepIsWsStep, WsStep DEF TurnInv, WsInv
<1>2. /\ call \in Calls /\ turn \in Turns /\ injected \in Injections
      /\ cands \in HitsAmong(Corpus) /\ session \subseteq HistoryIds
      /\ pc \in Places
  BY <1>1 DEF TurnTypeOK
<1>3. /\ Corpus \in SUBSET Ids /\ HistoryIds \in SUBSET Ids /\ session \in SUBSET Ids
      /\ NoHits \in HitsAmong(Corpus) /\ "stub" \in Forms /\ "body" \in Forms
  BY <1>2, CorpusIds, HitsNone DEF Forms
<1>4. CASE UNCHANGED vars
  BY <1>1, <1>4 DEF vars, turnVars, wsVars, TurnInv, TurnTypeOK, Control, InIteration,
                    InPhaseOne, Fresh, NothingUnseen
<1>5. CASE PassThrough
  <2>1. result' \in Results
    BY <1>5 DEF PassThrough, NoResult, Results
  <2> QED
    BY <1>1, <1>5, <2>1 DEF PassThrough, wsVars, TurnInv, TurnTypeOK, Control, InIteration,
                            InPhaseOne, Fresh, NothingUnseen
<1>6. CASE StartTurn
  <2>1. CASE Abort
    BY <1>1, <1>2, <2>1, ReturnInv DEF Abort, TurnInv
  <2>2. ASSUME NEW hits \in HitsAmong(Corpus), NEW explanation \in BOOLEAN,
               cands' = hits,
               turn' = [NoTurn EXCEPT !.gate = Gate(hits, explanation)],
               pc = "idle", pc' = "history", result' = NoResult,
               UNCHANGED <<call, session, injected, unseen, lines>>
        PROVE  TurnInv'
    <3>1. turn' \in Turns /\ turn'.stage = "first"
      BY <2>2, NoCallType DEF Gate, Turns, NoTurn
    <3>2. TurnTypeOK'
      BY <1>1, <2>2, <3>1 DEF TurnTypeOK, Places, Results, NoResult
    <3>3. Control'
      BY <2>2, <3>1 DEF Control, InIteration, InPhaseOne, AfterRecall
    <3>4. Fresh' /\ NothingUnseen'
      BY <1>1, <2>2 DEF Fresh, NothingUnseen
    <3> QED
      BY <1>1, <3>2, <3>3, <3>4 DEF TurnInv
  <2> QED
    BY <1>6, <2>1, <2>2 DEF StartTurn, Goto
<1>7. CASE HostReset
  <2>1. unseen = {}
    BY <1>1, <1>7 DEF HostReset, NothingUnseen
  <2> QED
    BY <1>1, <1>7, <2>1 DEF HostReset, turnVars, TurnInv, TurnTypeOK, Control, InIteration,
                            InPhaseOne, Fresh, NothingUnseen
<1>8. CASE RecallHistory
  <2>1. call' \in Calls /\ ((pc' = "load" /\ call'.after = "initial") \/ pc' = "initial")
    <3>1. ASSUME NEW hits \in HitsAmong(session),
                 BeginLoad(hits, "stub", Sources, "initial")
          PROVE  call' \in Calls /\ pc' = "load" /\ call'.after = "initial"
      BY <1>3, <3>1, BeginLoadType DEF Places
    <3> QED
      BY <1>2, <1>8, <3>1 DEF RecallHistory, Goto
  <2>2. turn.stage = "first"
    BY <1>1, <1>8 DEF RecallHistory, Control, InPhaseOne
  <2> QED
    BY <1>1, <1>8, <2>1, <2>2 DEF RecallHistory, wsVars, TurnInv, TurnTypeOK, Places,
        Control, InIteration, InPhaseOne, AfterRecall, Fresh, NothingUnseen
<1>9. CASE LoadInitial
  <2>1. /\ call' \in Calls /\ cands' \in HitsAmong(Corpus)
        /\ (pc' = "load" /\ call'.after = "complete") \/ pc' = "complete"
    <3>1. CASE BeginLoad(cands, "stub", {}, "complete") /\ cands' = NoHits
      BY <1>2, <1>3, <3>1, BeginLoadType DEF Places
    <3> QED
      BY <1>2, <1>9, <3>1 DEF LoadInitial, Goto
  <2>2. turn.stage = "first"
    BY <1>1, <1>9 DEF LoadInitial, Control, InPhaseOne
  <2> QED
    BY <1>1, <1>9, <2>1, <2>2 DEF LoadInitial, wsVars, TurnInv, TurnTypeOK, Places,
        Control, InIteration, InPhaseOne, AfterRecall, Fresh, NothingUnseen
<1>10. ASSUME Loading, NEW i \in NextHits, Past(i), Fresh', unseen' \subseteq Ids,
              call.after = "judge" => unseen' = unseen
       PROVE  TurnInv'
  <2>1. call' \in Calls /\ call'.after = call.after
    BY <1>1, <1>10, PastType
  <2>2. /\ pc = "load" /\ pc' = "load"
        /\ UNCHANGED <<cands, turn, session, result, injected, lines>>
    BY <1>10 DEF Loading, Past
  <2> QED
    BY <1>1, <1>10, <2>1, <2>2 DEF TurnInv, TurnTypeOK, Control, InIteration,
        InPhaseOne, NothingUnseen
<1>11. ASSUME Unseen
       PROVE  /\ unseen' \subseteq unseen \cup {f.id : f \in loaded' \ loaded}
              /\ unseen' \subseteq Ids
              /\ call.after = "judge" => unseen' = unseen
  BY <1>1, <1>11 DEF Unseen, TurnTypeOK, WsTypeOK, Fragments
<1>12. CASE LoadRehit
  <2>1. PICK i \in NextHits : Rehit(i, call.hits[i], call.mode) /\ Past(i)
    BY <1>12 DEF LoadRehit
  <2> DEFINE rel == RefreshedByHit(i, call.hits[i])
  <2>2. i \in Ids /\ call.hits[i] \in Scores /\ call.hits[i] \in Nat
    BY <1>1, NextHitType, WorkspaceAssumption
  <2>3. /\ rel \in [DOMAIN relevance -> Nat]
        /\ \A j \in DOMAIN relevance : rel[j] >= relevance[j]
    BY <1>1, <2>2, ScoreTypes DEF RefreshedByHit
  <2>4. Unseen /\ Loading
    BY <1>12 DEF LoadRehit
  <2>5. CASE LeaveStub(i, rel)
    <3> HIDE DEF rel
    <3>1. Fresh'
      BY <1>1, <1>11, <2>3, <2>4, <2>5, LeaveFresh
    <3> QED
      BY <1>10, <1>11, <2>1, <2>4, <3>1
  <2>6. ASSUME NEW t \in BodySizes, UpgradeTo(i, call.hits[i], t, rel)
        PROVE  TurnInv'
    <3>1. t \in 0..MaxTokens
      BY WorkspaceAssumption
    <3> HIDE DEF rel
    <3>2. Fresh'
      BY <1>1, <1>11, <2>2, <2>3, <2>4, <2>6, <3>1, UpgradeFresh
    <3> QED
      BY <1>10, <1>11, <2>1, <2>4, <3>2
  <2> QED
    BY <2>1, <2>5, <2>6 DEF Rehit
<1>13. CASE LoadAdmit
  <2>1. PICK i \in NextHits :
          /\ \E t \in SizesOf(FormOf(i, call.mode)) : Admit(i, call.hits[i], call.mode, t)
          /\ Past(i)
    BY <1>13 DEF LoadAdmit
  <2>2. PICK t \in SizesOf(FormOf(i, call.mode)) : Admit(i, call.hits[i], call.mode, t)
    BY <2>1
  <2>3. /\ call.hits[i] >= LoadThreshold /\ call.hits[i] \in Nat
        /\ \A f \in loaded' \ loaded : f.id = i
        /\ relevance' = [j \in DOMAIN relevance \cup {i} |->
                           IF j = i THEN call.hits[i] ELSE relevance[j]]
        /\ i \notin DOMAIN relevance
    <3>1. i \notin DOMAIN relevance
      BY <1>1, <2>2 DEF Admit, Admissible, WsInv, IndexesAgree
    <3>2. call.hits[i] \in Nat
      BY <1>1, NextHitType, WorkspaceAssumption
    <3> QED
      BY <2>2, <3>1, <3>2 DEF Admit, Admissible
  <2>4. Unseen /\ Loading
    BY <1>13 DEF LoadAdmit
  <2>5. Fresh'
    BY <1>1, <1>11, <2>3, <2>4, WorkspaceAssumption, TurnAssumption DEF Fresh
  <2> QED
    BY <1>10, <1>11, <2>1, <2>4, <2>5
<1>14. CASE LoadSkip
  <2>1. PICK i \in NextHits : Past(i)
    BY <1>14 DEF LoadSkip
  <2>2. Fresh' /\ unseen' \subseteq Ids /\ unseen' = unseen /\ Loading
    BY <1>1, <1>14 DEF LoadSkip, wsVars, Fresh, TurnTypeOK
  <2> QED
    BY <1>10, <2>1, <2>2
<1>15. CASE LoadStop
  <2>1. call' = [call EXCEPT !.hits = NoHits] /\ NoHits \in HitsAmong(Ids)
    BY <1>15, HitsNone DEF LoadStop
  <2>2. call' \in Calls /\ call'.after = call.after
    BY <1>2, <2>1 DEF Calls
  <2> QED
    BY <1>1, <1>15, <2>2 DEF LoadStop, wsVars, TurnInv, TurnTypeOK,
        Control, InIteration, InPhaseOne, Fresh, NothingUnseen
<1>16. CASE LoadFails
  BY <1>1, <1>16, AbortInv DEF LoadFails
<1>17. CASE LoadEnd
  <2>1. /\ pc = "load" /\ pc' = call.after /\ pc' \in Places /\ call' = NoCall
        /\ call.after \in AfterRecall \cup {"initial", "complete", "judge"}
    BY <1>1, <1>2, <1>17 DEF LoadEnd, Goto, Control, Calls
  <2>2. TurnTypeOK'
    BY <1>1, <1>17, <2>1, NoCallType DEF LoadEnd, wsVars, TurnTypeOK
  <2>3. Control'
    BY <1>1, <1>17, <2>1 DEF LoadEnd, Control, InIteration, InPhaseOne, AfterRecall
  <2>4. Fresh' /\ NothingUnseen'
    BY <1>1, <1>17, <2>1 DEF LoadEnd, wsVars, Fresh, NothingUnseen, AfterRecall
  <2> QED
    BY <1>1, <2>2, <2>3, <2>4 DEF TurnInv
<1>18. CASE Complete
  <2>1. CASE Abort
    BY <1>1, <1>18, <2>1, AbortInv DEF Complete
  <2>2. ASSUME pc = "complete", Sent, UNCHANGED <<call, cands, session, result, injected>>,
               UNCHANGED wsVars, turn' \in Turns,
               \/ pc' \in {"mention", "refine", "finish"}
               \/ pc' = "complete" /\ turn'.stage = turn.stage /\ turn'.iter = turn.iter
        PROVE  TurnInv'
    <3>1. TurnTypeOK'
      BY <1>1, <2>2 DEF Sent, TurnTypeOK, Places
    <3>2. Control'
      BY <1>1, <2>2 DEF Control, InIteration, InPhaseOne, AfterRecall
    <3> QED
      BY <1>1, <2>2, <3>1, <3>2 DEF TurnInv, Sent, Fresh, NothingUnseen
  <2>3. ASSUME NEW quality \in Qualities, Answered(quality), pc = "complete"
        PROVE  turn' \in Turns /\ pc' \in {"mention", "refine"}
    BY <1>1, <1>2, <2>3, AnsweredType DEF Control
  <2>4. ASSUME Degenerated
        PROVE  /\ turn' \in Turns /\ pc' \in {"complete", "finish"}
               /\ turn'.stage = turn.stage /\ turn'.iter = turn.iter
    BY <1>2, <2>4, DegeneratedType
  <2> QED
    BY <1>18, <2>1, <2>2, <2>3, <2>4 DEF Complete
<1>19. CASE StartStream
  <2>1. injected' \in Injections
    <3>1. Tokens(loaded) \in Nat /\ Tokens(loaded) <= MaxWorkspaceTokens
      BY <1>1, TokensNat DEF WsInv, WithinBudget
    <3> QED
      BY <1>3, <1>19, <3>1, WorkspaceAssumption DEF StartStream, Injections
  <2> QED
    BY <1>1, <1>19, <2>1 DEF StartStream, Streaming, Sent, Goto, wsVars, TurnInv, TurnTypeOK,
        Places, Control, InIteration, InPhaseOne, AfterRecall, Fresh, NothingUnseen
<1>20. CASE Inject
  <2>1. injected' \in Injections
    <3>1. PICK i \in Corpus \ (loaded_ids \cup DOMAIN injected.hits),
               score \in Scores, estimate \in BodySizes, tokens \in BodySizes :
            injected' = [hits |-> [j \in DOMAIN injected.hits \cup {i} |->
                                     IF j = i THEN score ELSE injected.hits[j]],
                         remaining |-> IF tokens > injected.remaining THEN 0
                                       ELSE injected.remaining - tokens]
      BY <1>20 DEF Inject
    <3> DEFINE hits == [j \in DOMAIN injected.hits \cup {i} |->
                          IF j = i THEN score ELSE injected.hits[j]]
               remaining == IF tokens > injected.remaining THEN 0
                            ELSE injected.remaining - tokens
    <3>2. /\ injected.hits \in HitsAmong(Corpus)
          /\ injected.remaining \in 0..MaxWorkspaceTokens
      BY <1>2 DEF Injections
    <3>3. /\ DOMAIN injected.hits \subseteq Corpus
          /\ injected.hits \in [DOMAIN injected.hits -> Scores]
      BY <3>2, HitsType
    <3>4. hits \in [DOMAIN injected.hits \cup {i} -> Scores]
      BY <3>3
    <3>5. hits \in HitsAmong(Corpus)
      BY <3>3, <3>4, HitsIntro
    <3>6. tokens \in Nat
      BY WorkspaceAssumption
    <3>7. remaining \in 0..MaxWorkspaceTokens
      BY <3>2, <3>6, WorkspaceAssumption
    <3> HIDE DEF hits, remaining
    <3>8. injected' = [hits |-> hits, remaining |-> remaining]
      BY <3>1 DEF hits, remaining
    <3> QED
      BY <3>5, <3>7, <3>8 DEF Injections
  <2> QED
    BY <1>1, <1>20, <2>1 DEF Inject, wsVars, TurnInv, TurnTypeOK,
        Control, InIteration, InPhaseOne, Fresh, NothingUnseen
<1>21. CASE EndStream
  <2>0. turn.stage = "first" /\ pc = "stream" /\ unseen = {}
    BY <1>1, <1>21 DEF EndStream, Control, InPhaseOne, NothingUnseen
  <2>1. CASE Abort
    BY <1>1, <1>21, <2>1, AbortInv DEF EndStream
  <2>2. CASE Degenerated /\ injected' = NoInjection
                /\ UNCHANGED <<call, cands, session, result, unseen, lines>>
    <3>1. /\ turn' \in Turns /\ pc' \in {"complete", "finish"}
          /\ turn'.stage = turn.stage /\ turn'.iter = turn.iter
      BY <1>2, <2>2, DegeneratedType
    <3> QED
      BY <1>1, <1>21, <2>0, <2>2, <3>1, NoCallType DEF EndStream, wsVars, TurnInv, TurnTypeOK,
        Places, Control, InIteration, InPhaseOne, AfterRecall, Fresh, NothingUnseen
  <2>3. CASE /\ BeginLoad(injected.hits, "stub", Sources, "judge")
             /\ UNCHANGED <<cands, turn, session, result, injected, unseen, lines>>
    <3>1. injected.hits \in HitsAmong(Corpus)
      BY <1>2 DEF Injections
    <3>2. call' \in Calls /\ pc' = "load" /\ call'.after = "judge"
      BY <1>3, <2>3, <3>1, BeginLoadType DEF Places
    <3> QED
      BY <1>1, <1>21, <2>0, <2>3, <3>2 DEF EndStream, wsVars, TurnInv, TurnTypeOK,
        Places, Control, InIteration, InPhaseOne, AfterRecall, Fresh, NothingUnseen
  <2> QED
    BY <1>21, <2>1, <2>2, <2>3 DEF EndStream
<1>22. CASE Judge
  <2>0. turn.stage = "first" /\ pc = "judge" /\ unseen = {}
    BY <1>1, <1>22 DEF Judge, Control, InPhaseOne, NothingUnseen
  <2>1. /\ turn' \in Turns
        /\ pc' \notin {"mention", "refine", "finish"} =>
                pc' = "complete" /\ turn'.stage = turn.stage
    <3>1. ASSUME NEW quality \in Qualities, Answered(quality)
          PROVE  turn' \in Turns /\ pc' \in {"mention", "refine"}
      BY <1>2, <2>0, <3>1, AnsweredType
    <3>2. CASE Degenerated
      BY <1>2, <3>2, DegeneratedType
    <3>3. Degenerated \/ \E quality \in Qualities : Answered(quality)
      BY <1>22 DEF Judge
    <3> QED
      BY <3>1, <3>2, <3>3
  <2> QED
    BY <1>1, <1>22, <2>0, <2>1, NoCallType DEF Judge, wsVars, TurnInv, TurnTypeOK,
        Places, Control, InIteration, InPhaseOne, AfterRecall, Fresh, NothingUnseen
<1>23. CASE LoadMentioned
  <2>0. unseen = {} /\ pc = "mention" /\ cands' \in HitsAmong(Corpus)
    BY <1>1, <1>3, <1>23 DEF LoadMentioned, NothingUnseen
  <2>1. CASE pc' = "refine" /\ UNCHANGED <<call, turn>>
    BY <1>1, <1>23, <2>0, <2>1 DEF LoadMentioned, wsVars, TurnInv, TurnTypeOK,
        Places, Control, InIteration, InPhaseOne, AfterRecall, Fresh, NothingUnseen
  <2>2. ASSUME NEW M \in SUBSET AboveLoad(cands),
               BeginLoad([i \in M |-> cands[i]], "body", Sources, "complete"),
               turn' = [turn EXCEPT !.stage = "mentioned"]
        PROVE  TurnInv'
    <3>1. DOMAIN cands \subseteq Corpus /\ cands \in [DOMAIN cands -> Scores]
      BY <1>2, HitsType
    <3>2. M \subseteq Corpus /\ [i \in M |-> cands[i]] \in [M -> Scores]
      BY <2>2, <3>1 DEF AboveLoad
    <3>3. [i \in M |-> cands[i]] \in HitsAmong(Corpus)
      BY <3>2, HitsIntro
    <3>4. call' \in Calls /\ pc' = "load" /\ call'.after = "complete"
      BY <1>3, <2>2, <3>3, BeginLoadType DEF Places
    <3>5. turn' \in Turns /\ turn'.stage = "mentioned"
      BY <1>2, <2>2 DEF Turns
    <3> QED
      BY <1>1, <1>23, <2>0, <3>4, <3>5 DEF LoadMentioned, wsVars, TurnInv, TurnTypeOK,
        Places, Control, InIteration, InPhaseOne, AfterRecall, Fresh, NothingUnseen
  <2> QED
    BY <1>23, <2>1, <2>2 DEF LoadMentioned, Goto
<1>24. CASE StartIteration
  <2>0. unseen = {} /\ pc = "refine" /\ turn.iter < MaxRecallIterations
    BY <1>1, <1>24 DEF StartIteration, NothingUnseen
  <2>1. /\ UNCHANGED <<loaded, loaded_ids, source_counts>>
        /\ pc' \in {"trace", "settle"}
        /\ UNCHANGED <<call, cands, session, result, injected, unseen, lines>>
    BY <1>24 DEF StartIteration, DecayAndRefresh, Goto
  <2>2. turn' \in Turns /\ turn'.iter = turn.iter
    <3>1. PICK recall \in BOOLEAN, items \in 0..MaxItems :
            turn' = [turn EXCEPT !.items = IF recall THEN items ELSE 0,
                                 !.tokensBefore = Tokens(loaded)]
      BY <1>24 DEF StartIteration
    <3>2. Tokens(loaded) \in Nat
      BY <1>1, TokensNat DEF WsInv
    <3>3. (IF recall THEN items ELSE 0) \in 0..MaxItems
      BY TurnAssumption
    <3> QED
      BY <1>2, <3>1, <3>2, <3>3 DEF Turns
  <2> QED
    BY <1>1, <2>0, <2>1, <2>2 DEF TurnInv, TurnTypeOK,
        Places, Control, InIteration, InPhaseOne, AfterRecall, Fresh, NothingUnseen
<1>25. CASE IterationsSpent
  BY <1>1, <1>25 DEF IterationsSpent, Goto, wsVars, TurnInv, TurnTypeOK,
        Places, Control, InIteration, InPhaseOne, AfterRecall, Fresh, NothingUnseen
<1>26. ASSUME NEW items, turn' = [turn EXCEPT !.items = items], items \in 0..MaxItems
       PROVE  turn' \in Turns /\ turn'.iter = turn.iter /\ turn'.stage = turn.stage
  BY <1>2, <1>26 DEF Turns
<1>27. turn.items > 0 => turn.items - 1 \in 0..MaxItems
  BY <1>2, TurnAssumption DEF Turns
<1>28. ASSUME pc \in AfterRecall, NEW S \in SUBSET Ids, NEW hits \in HitsAmong(S),
              NEW mode \in Forms, NEW after \in AfterRecall,
              BeginLoad(hits, mode, Sources, after),
              turn' \in Turns, turn'.iter = turn.iter,
              UNCHANGED <<cands, session, result, injected, unseen, lines>>,
              UNCHANGED wsVars
       PROVE  TurnInv'
  <2>1. call' \in Calls /\ pc' = "load" /\ call'.after = after
    BY <1>28, BeginLoadType DEF Places, AfterRecall
  <2> QED
    BY <1>1, <1>28, <2>1 DEF wsVars, TurnInv, TurnTypeOK,
        Places, Control, InIteration, InPhaseOne, AfterRecall, Fresh, NothingUnseen
<1>29. CASE TraceStep
  <2>1. CASE Abort
    BY <1>1, <1>29, <2>1, AbortInv DEF TraceStep
  <2>2. ASSUME NEW hits \in HitsAmong(Corpus),
               BeginLoad(hits, "stub", Sources, "traceHistory"),
               turn' = [turn EXCEPT !.items = turn.items - 1],
               UNCHANGED <<cands, session, result, injected, unseen, lines>>
        PROVE  TurnInv'
    <3>1. turn' \in Turns /\ turn'.iter = turn.iter
      BY <1>26, <1>27, <1>29, <2>2 DEF TraceStep
    <3> QED
      BY <1>3, <1>28, <1>29, <2>2, <3>1 DEF TraceStep, AfterRecall
  <2> QED
    BY <1>29, <2>1, <2>2 DEF TraceStep
<1>30. CASE TraceHistory
  <2>1. CASE Abort
    BY <1>1, <1>30, <2>1, AbortInv DEF TraceHistory
  <2>2. CASE pc' = "trace" /\ UNCHANGED call
             /\ UNCHANGED <<cands, turn, session, result, injected, unseen, lines>>
    BY <1>1, <1>30, <2>2 DEF TraceHistory, wsVars, TurnInv, TurnTypeOK,
        Places, Control, InIteration, InPhaseOne, AfterRecall, Fresh, NothingUnseen
  <2>3. ASSUME NEW hits \in HitsAmong(session),
               BeginLoad(hits, "stub", Sources, "trace"),
               UNCHANGED <<cands, turn, session, result, injected, unseen, lines>>
        PROVE  TurnInv'
    BY <1>2, <1>3, <1>28, <1>30, <2>3 DEF TraceHistory, AfterRecall
  <2> QED
    BY <1>30, <2>1, <2>2, <2>3 DEF TraceHistory, Goto
<1>31. CASE ProbeStep
  <2>1. CASE Abort
    BY <1>1, <1>31, <2>1, AbortInv DEF ProbeStep
  <2>2. ASSUME NEW hits \in HitsAmong(Corpus),
               BeginLoad(hits, "body", Sources, "probe"),
               turn' = [turn EXCEPT !.items = turn.items - 1],
               UNCHANGED <<cands, session, result, injected, unseen, lines>>
        PROVE  TurnInv'
    <3>1. turn' \in Turns /\ turn'.iter = turn.iter
      BY <1>26, <1>27, <1>31, <2>2 DEF ProbeStep
    <3> QED
      BY <1>3, <1>28, <1>31, <2>2, <3>1 DEF ProbeStep, AfterRecall
  <2> QED
    BY <1>31, <2>1, <2>2 DEF ProbeStep
<1>32. ASSUME UNCHANGED wsVars, UNCHANGED <<pc, call, cands, session, result, injected, unseen, lines>>,
              turn' = [turn EXCEPT !.items = 0]
       PROVE  TurnInv'
  <2>1. turn' \in Turns /\ turn'.iter = turn.iter /\ turn'.stage = turn.stage
    BY <1>26, <1>32, TurnAssumption
  <2> QED
    BY <1>1, <1>32, <2>1 DEF wsVars, TurnInv, TurnTypeOK,
        Control, InIteration, InPhaseOne, Fresh, NothingUnseen
<1>33. CASE ProbesThrottled
  BY <1>32, <1>33 DEF ProbesThrottled
<1>34. CASE LineStep
  <2>1. turn' \in Turns /\ turn'.iter = turn.iter /\ turn'.stage = turn.stage
    BY <1>26, <1>27, <1>34 DEF LineStep
  <2>2. /\ pc = "lines" /\ UNCHANGED <<pc, call, cands, session, result, injected>>
    BY <1>34 DEF LineStep
  <2>3. ASSUME Fresh', unseen' \subseteq Ids, lines' \subseteq Corpus
        PROVE  TurnInv'
    BY <1>1, <2>1, <2>2, <2>3 DEF TurnInv, TurnTypeOK,
        Control, InIteration, InPhaseOne, NothingUnseen
  <2>4. \A f \in loaded' : f.id \in Ids
    BY <1>1 DEF WsTypeOK, Fragments
  <2>5. ASSUME NEW i \in Ids, LineUpgrade(i), UNCHANGED lines,
               unseen' = unseen \cup {f.id : f \in loaded' \ loaded}
        PROVE  TurnInv'
    <3>1. /\ relevance \in [DOMAIN relevance -> Nat]
          /\ \A j \in DOMAIN relevance : relevance[j] >= relevance[j]
      BY <1>1, ScoreTypes
    <3>2. ASSUME LeaveStub(i, relevance)
          PROVE  Fresh'
      BY <1>1, <2>5, <3>1, <3>2, LeaveFresh
    <3>3. ASSUME NEW t \in BodySizes, UpgradeTo(i, LoadThreshold, t, relevance)
          PROVE  Fresh'
      <4>1. t \in 0..MaxTokens /\ LoadThreshold \in Nat
        BY WorkspaceAssumption
      <4> QED
        BY <1>1, <2>5, <3>1, <3>3, <4>1, UpgradeFresh
    <3>4. Fresh'
      BY <2>5, <3>2, <3>3 DEF LineUpgrade
    <3> QED
      BY <1>1, <2>3, <2>4, <2>5, <3>4 DEF TurnTypeOK
  <2>6. ASSUME UNCHANGED wsVars, UNCHANGED lines,
               unseen' = unseen \cup {f.id : f \in loaded' \ loaded}
        PROVE  TurnInv'
    <3>1. unseen' = unseen /\ relevance' = relevance
      BY <2>6 DEF wsVars
    <3> QED
      BY <1>1, <2>3, <2>6, <3>1 DEF Fresh, TurnTypeOK
  <2>7. ASSUME NEW i \in Corpus, NEW t \in BodySizes, LineAdmit(i, t), UNCHANGED unseen,
               lines' = lines \cup (loaded_ids' \ loaded_ids)
        PROVE  TurnInv'
    BY <1>1, <2>3, <2>7 DEF LineAdmit, Fresh, TurnTypeOK
  <2> QED
    BY <1>34, <2>5, <2>6, <2>7 DEF LineStep
<1>35. CASE LinesStop
  <2>1. CASE Abort
    BY <1>1, <1>35, <2>1, AbortInv DEF LinesStop
  <2>2. CASE ~Abort
    BY <1>32, <1>35, <2>2 DEF LinesStop
  <2> QED
    BY <2>1, <2>2
<1>36. CASE NextRecall
  <2>1. /\ pc \in {"trace", "probe", "lines"}
        /\ pc' \in {"probe", "lines", "settle"}
    BY <1>36 DEF NextRecall, FollowedBy, Goto
  <2>2. turn' \in Turns /\ turn'.iter = turn.iter
    <3>1. PICK items \in 0..(IF pc = "lines" THEN 0 ELSE MaxItems) :
            turn' = [turn EXCEPT !.items = items]
      BY <1>36 DEF NextRecall
    <3>2. items \in 0..MaxItems
      BY TurnAssumption
    <3> QED
      BY <1>26, <3>1, <3>2
  <2> QED
    BY <1>1, <1>36, <2>1, <2>2 DEF NextRecall, wsVars, TurnInv, TurnTypeOK,
        Places, Control, InIteration, InPhaseOne, AfterRecall, Fresh, NothingUnseen
<1>37. CASE Settle
  <2>1. /\ pc = "settle" /\ turn.iter < MaxRecallIterations
        /\ pc' \in {"finish", "complete"}
        /\ UNCHANGED <<call, cands, session, result, injected, unseen, lines>>
    BY <1>1, <1>37 DEF Settle, Goto, Control, InIteration
  <2>2. turn' \in Turns /\ turn'.iter = turn.iter
    BY <1>2, <1>37 DEF Settle, Turns
  <2>3. Fresh'
    <3>1. PICK E \in EvictionSets(relevance) :
            relevance' = [i \in DOMAIN relevance \ {f.id : f \in E} |-> relevance[i]]
      BY <1>37 DEF Settle, EvictStale, Evict
    <3>2. E = BelowUnload(relevance)
      BY <1>1, EvictedAreBelow
    <3>3. ASSUME NEW i \in unseen
          PROVE  i \in DOMAIN relevance' /\ relevance'[i] >= UnloadThreshold
      <4>1. i \in DOMAIN relevance /\ relevance[i] >= UnloadThreshold /\ relevance[i] \in Nat
        BY <1>1 DEF Fresh, WsTypeOK, WsInv
      <4>2. i \notin {f.id : f \in E}
        BY <3>2, <4>1, WorkspaceAssumption DEF BelowUnload, ScoreIn
      <4> QED
        BY <3>1, <4>1, <4>2
    <3> QED
      BY <2>1, <3>3 DEF Fresh
  <2> QED
    BY <1>1, <2>1, <2>2, <2>3 DEF TurnInv, TurnTypeOK,
        Places, Control, InIteration, InPhaseOne, AfterRecall, NothingUnseen
<1>38. CASE Finish
  <2>1. session' \subseteq HistoryIds /\ turn.last \in Nat /\ turn.best \in Nat
    BY <1>2, <1>38 DEF Finish, Turns
  <2>2. CASE Return("degenerate", turn.last)
    BY <1>1, <2>1, <2>2, ReturnInv DEF TurnInv
  <2>3. CASE Return("ok", turn.best)
    BY <1>1, <2>1, <2>3, ReturnInv DEF TurnInv
  <2> QED
    BY <1>38, <2>2, <2>3 DEF Finish
<1> QED
  BY <1>4, <1>5, <1>6, <1>7, <1>8, <1>9, <1>12, <1>13, <1>14, <1>15, <1>16, <1>17,
     <1>18, <1>19, <1>20, <1>21, <1>22, <1>23, <1>24, <1>25, <1>29, <1>30, <1>31,
     <1>33, <1>34, <1>35, <1>36, <1>37, <1>38
     DEF TurnNext, RunTurn, LoadStep, RecallStep

LEMMA TurnStart == TurnInit => TurnInv
<1> SUFFICES ASSUME TurnInit PROVE TurnInv
  OBVIOUS
<1>1. WsInv
  BY EmptyInv DEF TurnInit, WsInit, Empty
<1>2. NoHits \in HitsAmong(Corpus)
  BY HitsNone
<1>3. TurnTypeOK
  BY <1>1, <1>2, NoCallType DEF TurnInit, TurnTypeOK, WsInv, Places, Results, NoResult
<1> QED
  BY <1>1, <1>3 DEF TurnInit, TurnInv, Control, InIteration, InPhaseOne, AfterRecall,
                    Fresh, NothingUnseen

-----------------------------------------------------------------------------
THEOREM TurnInvariant == TurnSpec => []TurnInv
BY TurnStart, TurnStep, PTL DEF TurnSpec

(* The locals of run_turn have their types: in particular retries and      *)
(* iterations stay within their configured numbers.                        *)
THEOREM TurnTypeCorrect == TurnSpec => []TurnTypeOK
<1>1. TurnInv => TurnTypeOK
  BY DEF TurnInv
<1> QED
  BY <1>1, TurnInvariant, PTL

(* run_turn is an implementation of the workspace: each of its steps is    *)
(* one operation of it, or leaves it alone.                                *)
THEOREM TurnImplementsWorkspace == TurnSpec => WorkspaceSpec
<1>1. TurnInit => WsInit
  BY DEF TurnInit
<1>2. TurnTypeOK /\ [TurnNext]_vars => [WsNext]_wsVars
  BY TurnStepIsWsStep
<1> QED
  BY <1>1, <1>2, TurnTypeCorrect, PTL DEF TurnSpec, WorkspaceSpec, WsSpec

(* What retrieval admitted or upgraded is still in the workspace when the  *)
(* model is asked again.                                                   *)
THEOREM AdmittedReachesModel == TurnSpec => []RecalledReachesModel
<1>1. TurnInv => RecalledReachesModel
  BY DEF TurnInv, Fresh, WsInv, IndexesAgree, RecalledReachesModel
<1> QED
  BY <1>1, TurnInvariant, PTL

-----------------------------------------------------------------------------
(* The response a turn logs.  From the first clean answer on, last_response *)
(* is the latest clean response and best_response the best one; and where  *)
(* the turn may end cleanly, there is one.                                 *)
Speaking ==
    \/ InIteration
    \/ pc \in {"mention", "refine"}
    \/ pc = "complete" /\ turn.stage = "refine"
    \/ pc = "finish" /\ ~turn.degenerate

Standing ==
    /\ turn.last = Len(turn.clean)
    /\ turn.clean # <<>> => IsBest(turn.best, turn.clean)
    /\ Speaking => turn.clean # <<>>

LEMMA BestOfOne == ASSUME NEW q \in Nat PROVE IsBest(1, <<q>>)
BY DEF IsBest

LEMMA BestOfOneMore ==
    ASSUME NEW clean \in Seq(Qualities), NEW n, IsBest(n, clean), NEW q \in Qualities
    PROVE  IsBest(IF q < clean[n] THEN n ELSE Len(clean) + 1, Append(clean, q))
<1> DEFINE more == Append(clean, q)
           top == IF q < clean[n] THEN n ELSE Len(clean) + 1
<1>1. /\ Len(clean) \in Nat /\ DOMAIN clean = 1..Len(clean)
      /\ \A m \in 1..Len(clean) : clean[m] \in Nat /\ q \in Nat
  <2>1. clean \in [1..Len(clean) -> Qualities]
    BY LenProperties
  <2> QED
    BY <2>1, LenProperties, TurnAssumption
<1>2. /\ DOMAIN more = 1..(Len(clean) + 1) /\ more[Len(clean) + 1] = q
      /\ \A m \in 1..Len(clean) : more[m] = clean[m]
  BY <1>1
<1>3. /\ n \in 1..Len(clean)
      /\ \A m \in 1..Len(clean) : clean[m] < clean[n] \/ (clean[m] = clean[n] /\ m <= n)
  BY <1>1 DEF IsBest
<1> HIDE DEF more
<1>4. CASE q < clean[n]
  <2>1. top = n /\ n \in DOMAIN more /\ more[n] = clean[n]
    BY <1>1, <1>2, <1>3, <1>4
  <2>2. ASSUME NEW m \in DOMAIN more
        PROVE  more[m] < more[n] \/ (more[m] = more[n] /\ m <= n)
    <3>1. CASE m = Len(clean) + 1
      BY <1>2, <1>4, <2>1, <3>1
    <3>2. CASE m \in 1..Len(clean)
      BY <1>2, <1>3, <2>1, <3>2
    <3> QED
      BY <1>1, <1>2, <3>1, <3>2
  <2> QED
    BY <2>1, <2>2 DEF IsBest, more
<1>5. CASE ~(q < clean[n])
  <2>1. top = Len(clean) + 1 /\ top \in DOMAIN more /\ more[top] = q
    BY <1>1, <1>2, <1>5
  <2>2. ASSUME NEW m \in DOMAIN more
        PROVE  more[m] < more[top] \/ (more[m] = more[top] /\ m <= top)
    <3>1. CASE m = Len(clean) + 1
      BY <2>1, <1>1, <3>1
    <3>2. CASE m \in 1..Len(clean)
      <4>1. clean[m] <= clean[n] /\ clean[n] <= q /\ m <= top
        BY <1>1, <1>3, <1>5, <2>1, <3>2
      <4>2. more[m] = clean[m] /\ more[top] = q
        BY <1>2, <2>1, <3>2
      <4> QED
        BY <1>1, <1>3, <3>2, <4>1, <4>2
    <3> QED
      BY <1>1, <1>2, <3>1, <3>2
  <2> QED
    BY <2>1, <2>2 DEF IsBest, more
<1> QED
  BY <1>4, <1>5

(* What a step does to the responses that are kept.                        *)
SameResponses ==
    /\ turn'.clean = turn.clean /\ turn'.best = turn.best /\ turn'.last = turn.last
    /\ Speaking' => Speaking

LEMMA ResponsesKept ==
    ASSUME TurnInv, [TurnNext]_vars
    PROVE  \/ SameResponses
           \/ turn' \in {[NoTurn EXCEPT !.gate = g] : g \in {"direct", "listed", "explain"}}
              /\ pc' \in {"idle", "history"}
           \/ pc \in {"complete", "judge"} /\ \E quality \in Qualities : Answered(quality)
<1>1. turn \in Turns /\ Control
  BY DEF TurnInv, TurnTypeOK
<1> DEFINE Reset == turn' \in {[NoTurn EXCEPT !.gate = g] : g \in {"direct", "listed", "explain"}}
                    /\ pc' \in {"idle", "history"}
<1>2. turn' = NoTurn /\ pc' = "idle" => Reset
  <2>1. NoTurn = [NoTurn EXCEPT !.gate = "direct"]
    BY DEF NoTurn
  <2> QED
    BY <2>1
<1>2a. Abort => Reset
  BY <1>2 DEF Abort, Return
<1>3. CASE StartTurn
  <2>1. ASSUME NEW hits, NEW explanation,
               turn' = [NoTurn EXCEPT !.gate = Gate(hits, explanation)], pc' = "history"
        PROVE  Reset
    <3>1. Gate(hits, explanation) \in {"direct", "listed", "explain"}
      BY DEF Gate
    <3> QED
      BY <2>1, <3>1
  <2> QED
    BY <1>2a, <1>3, <2>1 DEF StartTurn, Goto
<1> HIDE DEF Reset
<1>4. CASE Complete \/ EndStream \/ Judge
  <2>1. ASSUME Degenerated, pc \in {"complete", "stream", "judge"}
        PROVE  SameResponses
    <3>1. pc # "complete" => turn.stage = "first"
      BY <1>1, <2>1 DEF Control, InPhaseOne
    <3>2. CASE turn' = [turn EXCEPT !.attempt = @ + 1] /\ pc' = "complete"
      BY <1>1, <2>1, <3>1, <3>2 DEF Turns, SameResponses, Speaking, InIteration, AfterRecall
    <3>3. CASE turn' = [turn EXCEPT !.degenerate = TRUE] /\ pc' = "finish"
      BY <1>1, <3>3 DEF Turns, SameResponses, Speaking, InIteration, AfterRecall
    <3> QED
      BY <2>1, <3>2, <3>3 DEF Degenerated, Goto
  <2>2. ASSUME NEW hits, BeginLoad(hits, "stub", Sources, "judge"), turn' = turn
        PROVE  SameResponses
    BY <2>2 DEF BeginLoad, Goto, SameResponses, Speaking, InIteration, AfterRecall
  <2> QED
    BY <1>2a, <1>4, <2>1, <2>2 DEF Complete, EndStream, Judge, Reset
<1>5. CASE LoadMentioned
  <2>1. pc = "mention" /\ (turn' = turn \/ turn' = [turn EXCEPT !.stage = "mentioned"])
    BY <1>5 DEF LoadMentioned
  <2> QED
    BY <1>1, <2>1 DEF Turns, SameResponses, Speaking
<1>6. CASE StartIteration
  <2>1. PICK items, tokens :
          turn' = [turn EXCEPT !.items = items, !.tokensBefore = tokens]
    BY <1>6 DEF StartIteration
  <2>2. pc = "refine"
    BY <1>6 DEF StartIteration
  <2> QED
    BY <1>1, <2>1, <2>2 DEF Turns, SameResponses, Speaking
<1>7. ASSUME NEW items, turn' = [turn EXCEPT !.items = items], InIteration
      PROVE  SameResponses
  BY <1>1, <1>7 DEF Turns, SameResponses, Speaking
<1>8. CASE TraceStep \/ ProbeStep \/ LineStep \/ LinesStop \/ ProbesThrottled \/ NextRecall
  <2>1. InIteration
    BY <1>8 DEF TraceStep, ProbeStep, LineStep, LinesStop, ProbesThrottled, NextRecall,
                InIteration, AfterRecall, FollowedBy
  <2> QED
    BY <1>2a, <1>7, <1>8, <2>1
       DEF TraceStep, ProbeStep, LineStep, LinesStop, ProbesThrottled, NextRecall, Reset
<1>9. CASE Settle
  <2>1. pc = "settle" /\ (turn' = turn \/ turn' = [turn EXCEPT !.stage = "refine"])
    BY <1>9 DEF Settle
  <2> QED
    BY <1>1, <2>1 DEF Turns, SameResponses, Speaking, InIteration
<1>10. CASE TraceHistory
  <2>1. InIteration
    BY <1>10 DEF TraceHistory, InIteration, AfterRecall
  <2>2. Abort \/ turn' = turn
    BY <1>10 DEF TraceHistory
  <2> QED
    BY <1>2a, <2>1, <2>2 DEF SameResponses, Speaking, Reset
<1>11. CASE LoadFails \/ Finish
  <2>1. Finish => turn' = NoTurn /\ pc' = "idle"
    BY DEF Finish, Return
  <2> QED
    BY <1>2, <1>2a, <1>11, <2>1 DEF LoadFails, Reset
<1>12. CASE LoadRehit \/ LoadAdmit \/ LoadSkip \/ LoadStop
  <2>1. pc = "load" /\ pc' = "load" /\ turn' = turn /\ call'.after = call.after
    <3>1. call \in Calls
      BY DEF TurnInv, TurnTypeOK
    <3>2. ASSUME NEW i, Past(i)
          PROVE  pc' = pc /\ turn' = turn /\ call'.after = call.after
      BY <3>1, <3>2 DEF Past, Calls
    <3>3. CASE LoadStop
      BY <3>1, <3>3 DEF LoadStop, Loading, Calls
    <3> QED
      BY <1>12, <3>2, <3>3 DEF LoadRehit, LoadAdmit, LoadSkip, Loading
  <2> QED
    BY <2>1 DEF SameResponses, Speaking, InIteration, AfterRecall
<1>13. CASE LoadEnd
  <2>1. pc = "load" /\ pc' = call.after /\ turn' = turn /\ call' = NoCall
    BY <1>13 DEF LoadEnd, Goto
  <2>2. /\ call.after \in AfterRecall \cup {"initial", "complete", "judge"}
        /\ call.after = "complete" => turn.stage # "refine"
    BY <1>1, <2>1 DEF Control
  <2> QED
    BY <2>1, <2>2 DEF SameResponses, Speaking, InIteration, AfterRecall
<1>14. CASE RecallHistory \/ LoadInitial
  <2>1. turn' = turn /\ turn.stage = "first"
    BY <1>1, <1>14 DEF RecallHistory, LoadInitial, Control, InPhaseOne
  <2>2. \/ pc' \in {"initial", "complete"}
        \/ pc' = "load" /\ call'.after \in {"initial", "complete"}
    BY <1>14 DEF RecallHistory, LoadInitial, BeginLoad, Goto
  <2> QED
    BY <2>1, <2>2 DEF SameResponses, Speaking, InIteration, AfterRecall
<1>15. CASE StartStream \/ Inject \/ IterationsSpent
  <2>1. turn' = turn
    BY <1>15 DEF StartStream, Inject, IterationsSpent
  <2>2. pc' = "stream" \/ (pc = "refine" /\ pc' = "finish")
    BY <1>15 DEF StartStream, Inject, IterationsSpent, Goto
  <2> QED
    BY <2>1, <2>2 DEF SameResponses, Speaking, InIteration, AfterRecall
<1>16. CASE PassThrough \/ HostReset \/ UNCHANGED vars
  <2>1. UNCHANGED <<pc, call, turn>>
    BY <1>16 DEF PassThrough, HostReset, vars, turnVars
  <2> QED
    BY <2>1 DEF SameResponses, Speaking, InIteration
<1> QED
  BY <1>3, <1>4, <1>5, <1>6, <1>8, <1>9, <1>10, <1>11, <1>12, <1>13, <1>14, <1>15, <1>16
     DEF TurnNext, RunTurn, LoadStep, RecallStep, Reset

LEMMA StandingInit == TurnInit => Standing
BY DEF TurnInit, NoTurn, Standing, Speaking, InIteration, AfterRecall

LEMMA StandingStep == TurnInv /\ Standing /\ [TurnNext]_vars => Standing'
<1> SUFFICES ASSUME TurnInv, Standing, [TurnNext]_vars PROVE Standing'
  OBVIOUS
<1>1. turn \in Turns /\ Control
  BY DEF TurnInv, TurnTypeOK
<1>2. CASE SameResponses
  BY <1>2 DEF SameResponses, Standing
<1>3. ASSUME NEW g, turn' = [NoTurn EXCEPT !.gate = g], pc' \in {"idle", "history"}
      PROVE  Standing'
  BY <1>3 DEF NoTurn, Standing, Speaking, InIteration, AfterRecall
<1>4. ASSUME pc \in {"complete", "judge"}, NEW quality \in Qualities, Answered(quality)
      PROVE  Standing'
  <2> DEFINE clean == IF turn.stage = "refine" THEN Append(turn.clean, quality)
                      ELSE <<quality>>
             best == IF turn.stage = "refine" /\ quality < turn.clean[turn.best]
                     THEN turn.best ELSE Len(clean)
  <2>1. turn'.clean = clean /\ turn'.last = Len(clean) /\ turn'.best = best
    BY <1>1, <1>4 DEF Answered, Turns
  <2>2. turn.clean \in Seq(Qualities) /\ quality \in Nat /\ Len(<<>>) = 0
    BY <1>1, TurnAssumption, EmptySeq DEF Turns
  <2>3. CASE turn.stage = "refine"
    <3>1. Speaking
      BY <1>1, <1>4, <2>3 DEF Control, InPhaseOne, Speaking
    <3>2. IsBest(turn.best, turn.clean)
      BY <3>1 DEF Standing
    <3>3. Len(clean) = Len(turn.clean) + 1 /\ clean = Append(turn.clean, quality)
      BY <2>2, <2>3, LenProperties
    <3>4. IsBest(best, clean)
      BY <2>2, <2>3, <3>2, <3>3, BestOfOneMore
    <3>5. clean # <<>>
      BY <2>2, <3>3, LenProperties
    <3> HIDE DEF clean, best
    <3> QED
      BY <2>1, <3>4, <3>5 DEF Standing, IsBest
  <2>4. CASE turn.stage # "refine"
    <3>1. clean = <<quality>> /\ Len(clean) = 1 /\ best = 1
      BY <2>4
    <3> HIDE DEF clean, best
    <3>2. IsBest(best, clean)
      <4>1. IsBest(1, <<quality>>)
        BY <2>2, BestOfOne
      <4> QED
        BY <3>1, <4>1
    <3>3. clean # <<>>
      BY <2>2, <3>1
    <3> QED
      BY <2>1, <3>2, <3>3 DEF Standing, IsBest
  <2> QED
    BY <2>3, <2>4
<1> QED
  BY <1>2, <1>3, <1>4, ResponsesKept

(* A clean turn answers with the best of the clean responses of phase 2,   *)
(* the latest of equals; a degenerate one logs the last clean response,    *)
(* whatever the request that failed brought.                               *)
THEOREM BestAnswerIsKept == TurnSpec => BestAnswerKept
<1> DEFINE Kept == TurnLogged =>
              IF result'.outcome = "ok" THEN IsBest(result'.response, turn.clean)
              ELSE result'.response = Len(turn.clean)
<1>1. ASSUME TurnInv, Standing, [TurnNext]_vars, pc = "finish", pc' = "idle"
      PROVE  Kept
  <2>1. Finish
    <3>1. pc # pc' /\ ~(pc = "idle") /\ ~Loading
      BY <1>1 DEF Loading
    <3> QED
      BY <1>1, <3>1
      DEF vars, turnVars, TurnNext, RunTurn, LoadStep, RecallStep, PassThrough, StartTurn,
          HostReset, RecallHistory, LoadInitial, LoadRehit, LoadAdmit, LoadSkip, LoadStop,
          LoadFails, LoadEnd, Complete, StartStream, Inject, EndStream, Judge,
          LoadMentioned, StartIteration, IterationsSpent, TraceStep, TraceHistory,
          ProbeStep, ProbesThrottled, LineStep, LinesStop, NextRecall, FollowedBy, Settle
  <2>2. CASE turn.degenerate
    BY <2>1, <2>2, <1>1 DEF Finish, Return, Standing
  <2>3. CASE ~turn.degenerate
    <3>1. Speaking
      BY <1>1, <2>3 DEF Speaking
    <3> QED
      BY <1>1, <2>1, <2>3, <3>1 DEF Finish, Return, Standing
  <2> QED
    BY <2>2, <2>3
<1>2. TurnInv /\ Standing /\ [TurnNext]_vars => [Kept]_vars
  BY <1>1 DEF TurnLogged
<1>3. TurnSpec => [][Kept]_vars
  BY <1>2, StandingInit, StandingStep, TurnInvariant, PTL DEF TurnSpec
<1> QED
  BY <1>3 DEF BestAnswerKept

-----------------------------------------------------------------------------
(* The ambiguity gate.  Until the first request is sent, what is loaded    *)
(* from the corpus and what may still be loaded are within the bound:      *)
(* nothing before the initial hits, each of them at most once, and none of *)
(* them when the gate has listed them.                                     *)
Admitted == unseen \cap Corpus

WithinGate(n) == turn.gate = "direct" => n <= MaxInitialFragments

Loads(after) == pc = "load" /\ call.after = after

BeforeHits == pc \in {"history", "initial"} \/ Loads("initial")
OnHits == Loads("complete") /\ turn.stage = "first"

GateInv ==
    /\ BeforeHits => Admitted = {} /\ WithinGate(Cardinality(AboveLoad(cands)))
    /\ Loads("initial") => call.mode = "stub" /\ DOMAIN call.hits \subseteq HistoryIds
    /\ OnHits => /\ call.mode = "stub" /\ turn.gate # "listed"
                 /\ WithinGate(Cardinality(Admitted) + Cardinality(AboveLoad(call.hits)))
    /\ BroadQueryLoadsNothing

(* Counting hits and admitted ids.                                         *)
LEMMA CorpusFinite == IsFiniteSet(Corpus) /\ \A S \in SUBSET Corpus :
                        IsFiniteSet(S) /\ Cardinality(S) \in Nat
<1>1. IsFiniteSet(Corpus)
  BY CorpusIds, WorkspaceAssumption, FS_Subset
<1> QED
  BY <1>1, FS_Subset, FS_CardinalityType

LEMMA AboveFinite ==
    ASSUME NEW hits, DOMAIN hits \subseteq Ids
    PROVE  IsFiniteSet(AboveLoad(hits)) /\ Cardinality(AboveLoad(hits)) \in Nat
<1>1. AboveLoad(hits) \in SUBSET Ids
  BY DEF AboveLoad
<1> QED
  BY <1>1, WorkspaceAssumption, FS_Subset, FS_CardinalityType

LEMMA AdmittedFinite == IsFiniteSet(Admitted) /\ Cardinality(Admitted) \in Nat
<1>1. Admitted \in SUBSET Corpus
  BY DEF Admitted
<1> QED
  BY <1>1, CorpusFinite

(* Where the gate has no say.                                              *)
LEMMA GateOpen ==
    ASSUME ~BeforeHits, ~OnHits, pc = "complete" => turn.stage # "first"
    PROVE  GateInv
BY DEF GateInv, BeforeHits, BroadQueryLoadsNothing

LEMMA NothingAdmitted ==
    ASSUME pc = "complete", unseen = {}
    PROVE  GateInv
<1>1. Cardinality(unseen \cap Corpus) = 0
  BY FS_EmptySet
<1> QED
  BY <1>1, TurnAssumption
  DEF GateInv, BeforeHits, OnHits, Loads, BroadQueryLoadsNothing

(* load_fragments with the initial hits or the session history: a resident *)
(* stub is not upgraded, and a hit that is admitted is taken off the list. *)
LEMMA StubRehit ==
    ASSUME NEW i, NEW score, Rehit(i, score, "stub"), Unseen
    PROVE  unseen' = unseen
BY DEF Rehit, LeaveStub, Unseen

LEMMA HitTaken ==
    ASSUME TurnTypeOK, NEW i \in NextHits, Past(i)
    PROVE  /\ DOMAIN call'.hits = DOMAIN call.hits \ {i}
           /\ AboveLoad(call'.hits) = AboveLoad(call.hits) \ {i}
           /\ call'.mode = call.mode /\ call'.after = call.after
<1>1. call \in Calls
  BY DEF TurnTypeOK
<1> DEFINE left == [j \in DOMAIN call.hits \ {i} |-> call.hits[j]]
           covered == call.covered \cup {SourceOf[i]}
<1>2. call' = [call EXCEPT !.hits = left, !.covered = covered]
  BY DEF Past
<1>3. DOMAIN left = DOMAIN call.hits \ {i} /\ AboveLoad(left) = AboveLoad(call.hits) \ {i}
  BY DEF AboveLoad
<1> HIDE DEF left, covered
<1>4. call'.hits = left /\ call'.mode = call.mode /\ call'.after = call.after
  BY <1>1, <1>2 DEF Calls
<1> QED
  BY <1>3, <1>4

LEMMA OneMore ==
    ASSUME NEW S, IsFiniteSet(S), NEW x
    PROVE  /\ Cardinality(S \ {x}) <= Cardinality(S)
           /\ IsFiniteSet(S \cup {x})
           /\ Cardinality(S \cup {x}) \in Nat
           /\ Cardinality(S \cup {x}) <= Cardinality(S) + 1
<1>1. Cardinality(S) \in Nat
  BY FS_CardinalityType
<1>2. Cardinality(S \ {x}) <= Cardinality(S)
  <2>1. S \ {x} \in SUBSET S
    OBVIOUS
  <2> QED
    BY <2>1, FS_Subset
<1>3. IsFiniteSet(S \cup {x})
  BY FS_AddElement
<1>4. Cardinality(S \cup {x}) <= Cardinality(S) + 1
  <2>1. CASE x \in S
    <3>1. S \cup {x} = S
      BY <2>1
    <3> QED
      BY <1>1, <3>1
  <2>2. CASE x \notin S
    <3>1. Cardinality(S \cup {x}) = Cardinality(S) + 1
      BY <2>2, FS_AddElement
    <3> QED
      BY <1>1, <3>1
  <2> QED
    BY <2>1, <2>2
<1>5. Cardinality(S \cup {x}) \in Nat
  BY <1>3, FS_CardinalityType
<1> QED
  BY <1>2, <1>3, <1>4, <1>5

LEMMA StubHitStep ==
    ASSUME TurnTypeOK, call.mode = "stub", LoadRehit \/ LoadAdmit \/ LoadSkip
    PROVE  \E i \in NextHits :
             /\ Past(i)
             /\ \/ unseen' = unseen
                \/ unseen' \subseteq unseen \cup {i} /\ call.hits[i] >= LoadThreshold
<1>1. CASE LoadRehit
  BY <1>1, StubRehit DEF LoadRehit
<1>2. CASE LoadAdmit
  <2>1. PICK i \in NextHits :
          /\ \E t \in SizesOf(FormOf(i, call.mode)) : Admit(i, call.hits[i], call.mode, t)
          /\ Past(i)
    BY <1>2 DEF LoadAdmit
  <2>2. \A f \in loaded' \ loaded : f.id = i
    BY <2>1 DEF Admit
  <2>3. call.hits[i] >= LoadThreshold
    BY <2>1 DEF Admit, Admissible
  <2>4. unseen' \subseteq unseen \cup {i}
    BY <1>2, <2>2 DEF LoadAdmit, Unseen
  <2> QED
    BY <2>1, <2>3, <2>4
<1>3. CASE LoadSkip
  BY <1>3 DEF LoadSkip
<1> QED
  BY <1>1, <1>2, <1>3

LEMMA OnHitsStep ==
    ASSUME TurnInv, GateInv, OnHits, LoadRehit \/ LoadAdmit \/ LoadSkip
    PROVE  GateInv'
<1>1. TurnTypeOK /\ call \in Calls /\ DOMAIN call.hits \subseteq Ids
  <2>1. TurnTypeOK /\ call \in Calls /\ call.hits \in HitsAmong(Ids)
    BY DEF TurnInv, TurnTypeOK, Calls
  <2> QED
    BY <2>1, HitsType
<1>2. /\ call.mode = "stub" /\ turn.gate # "listed" /\ turn.stage = "first"
      /\ call.after = "complete" /\ pc = "load"
      /\ WithinGate(Cardinality(Admitted) + Cardinality(AboveLoad(call.hits)))
  BY DEF GateInv, OnHits, Loads
<1>3. PICK i \in NextHits :
        /\ Past(i)
        /\ \/ unseen' = unseen
           \/ unseen' \subseteq unseen \cup {i} /\ call.hits[i] >= LoadThreshold
  BY <1>1, <1>2, StubHitStep
<1>4. /\ AboveLoad(call'.hits) = AboveLoad(call.hits) \ {i}
      /\ call'.mode = "stub" /\ call'.after = "complete"
      /\ UNCHANGED <<pc, turn>>
  BY <1>1, <1>2, <1>3, HitTaken DEF Past
<1>5. Cardinality(Admitted') + Cardinality(AboveLoad(call'.hits))
        <= Cardinality(Admitted) + Cardinality(AboveLoad(call.hits))
  <2>0. i \in DOMAIN call.hits
    BY DEF NextHits, Uncovered
  <2>1. /\ IsFiniteSet(Admitted) /\ Cardinality(Admitted) \in Nat
        /\ IsFiniteSet(AboveLoad(call.hits)) /\ Cardinality(AboveLoad(call.hits)) \in Nat
        /\ Cardinality(AboveLoad(call'.hits)) \in Nat /\ Cardinality(Admitted') \in Nat
    <3>1. AboveLoad(call'.hits) \in SUBSET AboveLoad(call.hits)
      BY <1>4
    <3>2. Admitted' \in SUBSET Corpus
      BY DEF Admitted
    <3> QED
      BY <1>1, <3>1, <3>2, AboveFinite, AdmittedFinite, CorpusFinite, FS_Subset, FS_CardinalityType
  <2>2. CASE unseen' = unseen
    <3>1. Admitted' = Admitted
      BY <2>2 DEF Admitted
    <3>2. Cardinality(AboveLoad(call.hits) \ {i}) <= Cardinality(AboveLoad(call.hits))
      BY <2>1, OneMore
    <3> QED
      BY <1>4, <2>1, <3>1, <3>2
  <2>3. CASE unseen' \subseteq unseen \cup {i} /\ call.hits[i] >= LoadThreshold
    <3>1. i \in AboveLoad(call.hits)
      BY <2>0, <2>3 DEF AboveLoad
    <3>2. Cardinality(AboveLoad(call'.hits)) = Cardinality(AboveLoad(call.hits)) - 1
      BY <1>4, <2>1, <3>1, FS_RemoveElement
    <3>3. /\ IsFiniteSet(Admitted \cup {i})
          /\ Cardinality(Admitted \cup {i}) \in Nat
          /\ Cardinality(Admitted \cup {i}) <= Cardinality(Admitted) + 1
      BY <2>1, OneMore
    <3>4. Admitted' \in SUBSET (Admitted \cup {i})
      BY <2>3 DEF Admitted
    <3>5. Cardinality(Admitted') <= Cardinality(Admitted \cup {i})
      BY <3>3, <3>4, FS_Subset
    <3> QED
      BY <2>1, <3>2, <3>3, <3>5
  <2> QED
    BY <1>3, <2>2, <2>3
<1>6. WithinGate(Cardinality(Admitted) + Cardinality(AboveLoad(call.hits)))'
  <2>1. /\ Cardinality(Admitted) \in Nat /\ Cardinality(AboveLoad(call.hits)) \in Nat
        /\ Cardinality(Admitted') \in Nat /\ Cardinality(AboveLoad(call'.hits)) \in Nat
    <3>1. DOMAIN call'.hits \subseteq Ids
      BY <1>1, <1>3, HitTaken
    <3>2. Admitted' \in SUBSET Corpus
      BY DEF Admitted
    <3> QED
      BY <1>1, <3>1, <3>2, AboveFinite, AdmittedFinite, CorpusFinite
  <2> QED
    BY <1>2, <1>4, <1>5, <2>1, TurnAssumption DEF WithinGate
<1> QED
  BY <1>2, <1>4, <1>6 DEF GateInv, BeforeHits, OnHits, Loads, BroadQueryLoadsNothing

(* The same while the session history is loaded: none of it is corpus.     *)
LEMMA HistoryHitStep ==
    ASSUME TurnInv, GateInv, Loads("initial"), LoadRehit \/ LoadAdmit \/ LoadSkip
    PROVE  GateInv'
<1>1. TurnTypeOK /\ call \in Calls
  BY DEF TurnInv, TurnTypeOK
<1>2. /\ pc = "load" /\ call.after = "initial" /\ call.mode = "stub"
      /\ DOMAIN call.hits \subseteq HistoryIds
      /\ Admitted = {} /\ WithinGate(Cardinality(AboveLoad(cands)))
  BY DEF GateInv, BeforeHits, Loads
<1>3. PICK i \in NextHits : Past(i) /\ unseen' \subseteq unseen \cup {i}
  BY <1>1, <1>2, StubHitStep
<1>4. i \in DOMAIN call.hits /\ i \notin Corpus
  <2>1. i \in DOMAIN call.hits
    BY DEF NextHits, Uncovered
  <2> QED
    BY <1>2, <2>1 DEF HistoryIds, Corpus
<1>5. Admitted' = {}
  BY <1>2, <1>3, <1>4 DEF Admitted
<1>6. /\ call'.mode = "stub" /\ call'.after = "initial"
      /\ DOMAIN call'.hits \subseteq HistoryIds
      /\ UNCHANGED <<pc, turn, cands>>
  BY <1>1, <1>2, <1>3, HitTaken DEF Past
<1>7. WithinGate(Cardinality(AboveLoad(cands)))'
  BY <1>2, <1>6 DEF WithinGate, AboveLoad
<1> QED
  BY <1>2, <1>5, <1>6, <1>7
     DEF GateInv, BeforeHits, OnHits, Loads, BroadQueryLoadsNothing

(* The gate itself: few enough hits, or they are listed.                   *)
LEMMA GateDecides ==
    ASSUME NEW hits \in HitsAmong(Corpus), NEW explanation \in BOOLEAN,
           Gate(hits, explanation) = "direct"
    PROVE  Cardinality(AboveLoad(hits)) <= MaxInitialFragments
<1>1. Cardinality(AboveLoad(hits)) \in Nat
  <2>1. DOMAIN hits \subseteq Ids
    BY HitsType, CorpusIds
  <2> QED
    BY <2>1, AboveFinite
<1>2. ~TooBroad(hits)
  BY DEF Gate
<1>3. ~(Cardinality(AboveLoad(hits)) > MaxInitialFragments)
  BY <1>2 DEF TooBroad
<1> QED
  BY <1>1, <1>3, TurnAssumption

LEMMA GateStep == TurnInv /\ GateInv /\ [TurnNext]_vars => GateInv'
<1> SUFFICES ASSUME TurnInv, GateInv, [TurnNext]_vars
             PROVE  GateInv'
  OBVIOUS
<1>1. /\ TurnTypeOK /\ Control /\ NothingUnseen
      /\ turn \in Turns /\ call \in Calls /\ pc \in Places
  BY DEF TurnInv, TurnTypeOK
<1>2. TurnInv'
  BY TurnStep
<1> DEFINE Elsewhere == Places \ {"history", "initial", "load", "complete"}
<1>3. ASSUME pc' \in Elsewhere
      PROVE  GateInv'
  BY <1>3 DEF GateInv, BeforeHits, OnHits, Loads, BroadQueryLoadsNothing
<1>4. ASSUME pc' = "load", call'.after \notin {"initial", "complete"}
      PROVE  GateInv'
  BY <1>4 DEF GateInv, BeforeHits, OnHits, Loads, BroadQueryLoadsNothing
<1>5. ASSUME pc' \in {"load", "complete"}, call'.after # "initial", turn'.stage # "first"
      PROVE  GateInv'
  BY <1>5 DEF GateInv, BeforeHits, OnHits, Loads, BroadQueryLoadsNothing
<1>6. ASSUME pc' = "complete", unseen' = {}
      PROVE  GateInv'
  <2>1. Cardinality((unseen \cap Corpus)') = 0
    BY <1>6, FS_EmptySet
  <2> QED
    BY <1>6, <2>1, TurnAssumption
    DEF GateInv, BeforeHits, OnHits, Loads, BroadQueryLoadsNothing
<1> HIDE DEF Elsewhere
<1>7. ASSUME pc' = "idle" PROVE GateInv'
  BY <1>3, <1>7 DEF Elsewhere, Places
<1>8. ASSUME UNCHANGED <<pc, call, cands, turn, unseen>>
      PROVE  GateInv'
  BY <1>8 DEF GateInv, BeforeHits, OnHits, Loads, Admitted, WithinGate, AboveLoad,
              BroadQueryLoadsNothing
<1>9. CASE PassThrough \/ HostReset \/ UNCHANGED vars
  BY <1>8, <1>9 DEF PassThrough, HostReset, vars, turnVars
<1>10. CASE StartTurn
  <2>1. CASE Abort
    BY <1>7, <2>1 DEF Abort, Return
  <2>2. ASSUME NEW hits \in HitsAmong(Corpus), NEW explanation \in BOOLEAN,
               cands' = hits, turn' = [NoTurn EXCEPT !.gate = Gate(hits, explanation)],
               pc' = "history", unseen' = unseen
        PROVE  GateInv'
    <3>1. turn'.gate = Gate(hits, explanation)
      BY <2>2 DEF NoTurn
    <3>2. WithinGate(Cardinality(AboveLoad(cands)))'
      BY <2>2, <3>1, GateDecides DEF WithinGate, AboveLoad
    <3>3. Admitted' = {}
      BY <1>1, <1>10, <2>2 DEF NothingUnseen, Admitted, StartTurn
    <3> QED
      BY <2>2, <3>2, <3>3 DEF GateInv, BeforeHits, OnHits, Loads, BroadQueryLoadsNothing
  <2> QED
    BY <1>10, <2>1, <2>2 DEF StartTurn, Goto
<1>11. CASE RecallHistory
  <2>1. BeforeHits /\ UNCHANGED <<turn, cands, unseen>>
    BY <1>11 DEF RecallHistory, BeforeHits
  <2>2. Admitted' = {} /\ WithinGate(Cardinality(AboveLoad(cands)))'
    BY <2>1 DEF GateInv, Admitted, WithinGate, AboveLoad
  <2>3. CASE pc' = "initial"
    BY <2>2, <2>3 DEF GateInv, OnHits, Loads, BroadQueryLoadsNothing
  <2>4. ASSUME NEW hits \in HitsAmong(session), BeginLoad(hits, "stub", Sources, "initial")
        PROVE  GateInv'
    <3>1. /\ pc' = "load" /\ call'.after = "initial" /\ call'.mode = "stub"
          /\ call'.hits = hits
      BY <2>4 DEF BeginLoad, Goto
    <3>2. DOMAIN hits \subseteq session
      BY HitsType
    <3>3. session \subseteq HistoryIds
      BY <1>1 DEF TurnTypeOK
    <3> QED
      BY <2>2, <3>1, <3>2, <3>3 DEF GateInv, OnHits, Loads, BroadQueryLoadsNothing
  <2> QED
    BY <1>11, <2>3, <2>4 DEF RecallHistory, Goto
<1>12. CASE LoadInitial
  <2>1. BeforeHits /\ UNCHANGED <<turn, unseen>>
    BY <1>12 DEF LoadInitial, BeforeHits
  <2>2. /\ Admitted = {} /\ Admitted' = {}
        /\ WithinGate(Cardinality(AboveLoad(cands)))
    BY <2>1 DEF GateInv, Admitted
  <2>3. Cardinality(Admitted') = 0
    BY <2>2, FS_EmptySet
  <2>4. CASE turn.gate = "listed"
    <3>1. pc' = "complete"
      BY <1>12, <2>4 DEF LoadInitial, Goto
    <3> QED
      BY <2>1, <2>3, <3>1, TurnAssumption
      DEF GateInv, BeforeHits, OnHits, Loads, Admitted, BroadQueryLoadsNothing
  <2>5. CASE turn.gate # "listed"
    <3>1. /\ pc' = "load" /\ call'.after = "complete" /\ call'.mode = "stub"
          /\ call'.hits = cands
      BY <1>12, <2>5 DEF LoadInitial, BeginLoad, Goto
    <3>2. Cardinality(AboveLoad(cands)) \in Nat
      <4>1. DOMAIN cands \subseteq Ids
        BY <1>1, HitsType, CorpusIds DEF TurnTypeOK
      <4> QED
        BY <4>1, AboveFinite
    <3>3. WithinGate(Cardinality(Admitted) + Cardinality(AboveLoad(call.hits)))'
      BY <2>1, <2>2, <2>3, <3>1, <3>2 DEF WithinGate
    <3> QED
      BY <2>1, <2>5, <3>1, <3>3
      DEF GateInv, BeforeHits, OnHits, Loads, BroadQueryLoadsNothing
  <2> QED
    BY <2>4, <2>5
<1>13. CASE LoadRehit \/ LoadAdmit \/ LoadSkip
  <2>1. pc = "load" /\ pc' = "load" /\ call'.after = call.after /\ turn' = turn
    BY <1>1, <1>13 DEF LoadRehit, LoadAdmit, LoadSkip, Past, Loading, Calls
  <2>2. CASE call.after = "initial"
    BY <1>13, <2>1, <2>2, HistoryHitStep DEF Loads
  <2>3. CASE call.after = "complete" /\ turn.stage = "first"
    BY <1>13, <2>1, <2>3, OnHitsStep DEF OnHits, Loads
  <2> QED
    BY <1>4, <1>5, <2>1, <2>2, <2>3
<1>14. CASE LoadStop
  <2>1. /\ call'.hits = NoHits /\ call'.mode = call.mode /\ call'.after = call.after
        /\ UNCHANGED <<pc, cands, turn, unseen>>
    BY <1>1, <1>14 DEF LoadStop, Calls
  <2>2. DOMAIN call'.hits = {} /\ AboveLoad(call'.hits) = {}
    BY <2>1 DEF NoHits, AboveLoad
  <2>3. pc = "load"
    BY <1>14 DEF LoadStop, Loading
  <2>4. CASE call.after = "initial"
    BY <2>1, <2>2, <2>3, <2>4
    DEF GateInv, BeforeHits, OnHits, Loads, Admitted, WithinGate, AboveLoad,
        BroadQueryLoadsNothing
  <2>5. CASE OnHits
    <3>1. /\ Cardinality(AboveLoad(call'.hits)) = 0 /\ Admitted' = Admitted
          /\ Cardinality(Admitted) \in Nat /\ Cardinality(AboveLoad(call.hits)) \in Nat
      <4>1. DOMAIN call.hits \subseteq Ids
        BY <1>1, HitsType DEF Calls
      <4> QED
        BY <2>1, <2>2, <4>1, AboveFinite, AdmittedFinite, FS_EmptySet DEF Admitted
    <3>2. WithinGate(Cardinality(Admitted) + Cardinality(AboveLoad(call.hits)))
      BY <2>5 DEF GateInv
    <3>3. WithinGate(Cardinality(Admitted) + Cardinality(AboveLoad(call.hits)))'
      BY <2>1, <3>1, <3>2, TurnAssumption DEF WithinGate
    <3> QED
      BY <2>1, <2>5, <3>3
      DEF GateInv, BeforeHits, OnHits, Loads, BroadQueryLoadsNothing
  <2> QED
    BY <1>4, <1>5, <2>1, <2>3, <2>4, <2>5 DEF OnHits, Loads
<1>15. CASE LoadFails
  BY <1>7, <1>15 DEF LoadFails, Abort, Return
<1>16. CASE LoadEnd
  <2>1. /\ pc = "load" /\ DOMAIN call.hits = {} /\ pc' = call.after
        /\ UNCHANGED <<cands, turn, unseen>>
    BY <1>16 DEF LoadEnd, Goto
  <2>2. call'.after = "idle"
    BY <1>16 DEF LoadEnd, NoCall
  <2>3. CASE call.after = "initial"
    BY <2>1, <2>2, <2>3
    DEF GateInv, BeforeHits, OnHits, Loads, Admitted, WithinGate, AboveLoad,
        BroadQueryLoadsNothing
  <2>4. CASE OnHits
    <3>1. /\ Admitted' = Admitted /\ AboveLoad(call.hits) = {}
          /\ Cardinality(Admitted) \in Nat
      BY <2>1, AdmittedFinite DEF Admitted, AboveLoad
    <3>2. Cardinality(AboveLoad(call.hits)) = 0
      BY <3>1, FS_EmptySet
    <3>3. turn.gate # "listed" /\ WithinGate(Cardinality(Admitted))
      BY <2>4, <3>1, <3>2 DEF GateInv, WithinGate
    <3>4. turn.gate \in {"direct", "listed", "explain"}
      BY <1>1 DEF Turns
    <3>5. pc' = "complete"
      BY <2>1, <2>4 DEF OnHits, Loads
    <3>6. BroadQueryLoadsNothing'
      BY <2>1, <3>1, <3>3, <3>4 DEF BroadQueryLoadsNothing, WithinGate, Admitted
    <3> QED
      BY <3>5, <3>6 DEF GateInv, BeforeHits, OnHits, Loads
  <2> QED
    BY <1>1, <1>3, <1>5, <2>1, <2>2, <2>3, <2>4
       DEF Control, AfterRecall, OnHits, Loads, Elsewhere, Places
<1>17. CASE Complete
  <2>1. CASE Abort
    BY <1>7, <2>1 DEF Abort, Return
  <2>2. ASSUME Sent, pc' \in {"complete", "finish", "mention", "refine"}
        PROVE  GateInv'
    BY <1>3, <1>6, <2>2 DEF Sent, Elsewhere, Places
  <2> QED
    BY <1>17, <2>1, <2>2 DEF Complete, Degenerated, Answered, Goto
<1>18. CASE EndStream \/ Judge
  <2>1. unseen = {}
    BY <1>1, <1>18 DEF NothingUnseen, EndStream, Judge
  <2>2. CASE Abort
    BY <1>7, <2>2 DEF Abort, Return
  <2>3. ASSUME unseen' = unseen, pc' \in {"complete", "finish", "mention", "refine"}
        PROVE  GateInv'
    BY <1>3, <1>6, <2>1, <2>3 DEF Elsewhere, Places
  <2>4. CASE BeginLoad(injected.hits, "stub", Sources, "judge")
    BY <1>4, <2>4 DEF BeginLoad, Goto
  <2> QED
    BY <1>18, <2>2, <2>3, <2>4 DEF EndStream, Judge, Degenerated, Answered, Goto
<1>19. CASE LoadMentioned
  <2>1. CASE pc' = "refine"
    BY <1>3, <2>1 DEF Elsewhere, Places
  <2>2. ASSUME pc' = "load", call'.after = "complete",
               turn' = [turn EXCEPT !.stage = "mentioned"]
        PROVE  GateInv'
    BY <1>1, <1>5, <2>2 DEF Turns
  <2> QED
    BY <1>19, <2>1, <2>2 DEF LoadMentioned, BeginLoad, Goto
<1>20. CASE Settle
  <2>1. CASE pc' = "finish"
    BY <1>3, <2>1 DEF Elsewhere, Places
  <2>2. ASSUME pc' = "complete", call' = call, turn' = [turn EXCEPT !.stage = "refine"]
        PROVE  GateInv'
    <3>1. turn'.stage # "first"
      BY <1>1, <2>2 DEF Turns
    <3> QED
      BY <2>2, <3>1 DEF GateInv, BeforeHits, OnHits, Loads, BroadQueryLoadsNothing
  <2> QED
    BY <1>20, <2>1, <2>2 DEF Settle, Goto
<1>21. CASE StartStream \/ Inject \/ StartIteration \/ IterationsSpent
  BY <1>3, <1>21
  DEF StartStream, Inject, StartIteration, IterationsSpent, Goto, Elsewhere, Places
<1>22. CASE RecallStep \/ Finish
  <2>1. ASSUME NEW hits, NEW mode, NEW after \in {"trace", "traceHistory", "probe"},
               BeginLoad(hits, mode, Sources, after)
        PROVE  GateInv'
    BY <1>4, <2>1 DEF BeginLoad, Goto
  <2>2. CASE Abort
    BY <1>7, <2>2 DEF Abort, Return
  <2>3. CASE TraceStep \/ TraceHistory \/ ProbeStep
    BY <1>3, <2>1, <2>2, <2>3
    DEF TraceStep, TraceHistory, ProbeStep, Goto, Elsewhere, Places
  <2>4. CASE ProbesThrottled \/ LineStep \/ LinesStop \/ NextRecall
    BY <1>3, <2>2, <2>4
    DEF ProbesThrottled, LineStep, LinesStop, NextRecall, FollowedBy, Goto, Elsewhere, Places
  <2>5. CASE Finish
    BY <1>7, <2>5 DEF Finish, Return
  <2> QED
    BY <1>22, <2>3, <2>4, <2>5 DEF RecallStep
<1> QED
  BY <1>9, <1>10, <1>11, <1>12, <1>13, <1>14, <1>15, <1>16, <1>17, <1>18, <1>19,
     <1>20, <1>21, <1>22
  DEF TurnNext, RunTurn, LoadStep

(* A query that matches too much loads nothing of the corpus before the    *)
(* model has been asked, and one that does not loads at most               *)
(* max_initial_fragments, whatever the bounds are.                         *)
THEOREM BroadQueriesWait == TurnSpec => []BroadQueryLoadsNothing
<1>1. TurnInit => GateInv
  BY DEF TurnInit, GateInv, BeforeHits, OnHits, Loads, BroadQueryLoadsNothing
<1>2. TurnInv /\ GateInv /\ [TurnNext]_vars => GateInv'
  BY GateStep
<1>3. GateInv => BroadQueryLoadsNothing
  BY DEF GateInv
<1> QED
  BY <1>1, <1>2, <1>3, TurnInvariant, PTL DEF TurnSpec

=============================================================================

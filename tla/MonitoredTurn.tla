---------------------------- MODULE MonitoredTurn ----------------------------
(***************************************************************************)
(* run_turn with a degradation monitor attached: RecallTurn and            *)
(* Degradation side by side.  The monitor decides whether a turn recalls   *)
(* at all, whether an iteration recalls automatically and where the probes *)
(* are cut short; run_turn tells it of the embedding calls of the trace    *)
(* and of the probes, and of nothing else.                                 *)
(***************************************************************************)
EXTENDS RecallTurn, Degradation

VARIABLE
    answered    \* history: ages of the probes searched for in the last window

unwatched == <<monVars, answered>>
allVars == <<vars, unwatched>>

MonitoredInit ==
    /\ TurnInit
    /\ MonInit
    /\ answered = <<>>

(* stub_generation_enabled, then auto_recall_enabled.                      *)
PassThroughTier == PassThrough /\ ~ShouldGenerateStubs /\ UNCHANGED unwatched

StartRecallingTurn == StartTurn /\ ShouldGenerateStubs /\ UNCHANGED unwatched

StartWatchedIteration ==
    /\ StartIteration
    /\ (pc' = "trace") <=> ShouldAutoRecall
    /\ UNCHANGED unwatched

(* With session history, each step of the trace makes one embedding call;  *)
(* a failed one is recorded before the error ends the turn.                *)
TraceHistoryWatched ==
    /\ TraceHistory
    /\ IF session = {} THEN UNCHANGED monVars
       ELSE \E slow \in BOOLEAN : RecordCall("embedding", slow, pc' # "idle")
    /\ UNCHANGED answered

(* Mutant of ProbeWatched: the limiter is asked before it is told.         *)
ProbeThenTold ==
    /\ ProbeStep
    /\ ShouldAutoRecall
    /\ RecordProbe
    /\ answered' = IF pc' = "load" THEN Append(answered, 0) ELSE answered

(* A probe is recorded first; if that trips the limiter, or recall is off  *)
(* by now, it is dropped with those after it.                              *)
ProbeWatched ==
    /\ ProbeStep
    /\ RecordProbe
    /\ ShouldAutoRecall'
    /\ answered' = IF pc' = "load" THEN Append(answered, 0) ELSE answered

ProbesCutShort ==
    /\ ProbesThrottled
    /\ RecordProbe
    /\ ~ShouldAutoRecall'
    /\ UNCHANGED answered

(* The host holds the monitor too and may report calls of its summary      *)
(* service between turns; run_turn never does.                             *)
HostReports ==
    /\ pc = "idle"
    /\ \E slow, ok \in BOOLEAN : RecordCall("summary", slow, ok)
    /\ UNCHANGED <<vars, answered>>

TimePasses ==
    /\ Tick
    /\ answered' = Expired(Aged(answered))
    /\ UNCHANGED vars

(* The rest of run_turn does not know of the monitor.                      *)
Unwatched ==
    /\ \/ RecallHistory \/ LoadInitial \/ LoadStep
       \/ Complete \/ StartStream \/ Inject \/ EndStream \/ Judge
       \/ LoadMentioned
       \/ IterationsSpent \/ TraceStep \/ LineStep \/ LinesStop \/ NextRecall
       \/ Settle \/ Finish
    /\ UNCHANGED unwatched

RunWatchedTurn ==
    \/ Unwatched
    \/ StartWatchedIteration \/ TraceHistoryWatched
    \/ ProbeWatched \/ ProbesCutShort

MonitoredNext ==
    \/ PassThroughTier \/ StartRecallingTurn
    \/ HostReset /\ UNCHANGED unwatched
    \/ RunWatchedTurn
    \/ HostReports
    \/ TimePasses

MonitoredSpec == MonitoredInit /\ [][MonitoredNext]_allVars

(* A started turn goes on, time passes, and the user asks again and again. *)
FairMonitoredSpec ==
    /\ MonitoredSpec
    /\ WF_allVars(RunWatchedTurn)
    /\ WF_allVars(StartRecallingTurn)
    /\ WF_allVars(TimePasses)

-----------------------------------------------------------------------------
(* The limiter does what it is for: in no window are MaxProbes probes      *)
(* searched for, however turns, iterations and seconds follow each other.  *)
ProbesWithinRate == Len(answered) < MaxProbes

(* "Degradation is per-component and can recover": with turns and time     *)
(* going on and no service failing, automatic recall comes back.  Only a   *)
(* new probe makes the limiter forget the old ones, and there are none     *)
(* while recall is off.                                                    *)
RecallComesBack == ~ShouldAutoRecall ~> ShouldAutoRecall

=============================================================================

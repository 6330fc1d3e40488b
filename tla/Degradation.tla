----------------------------- MODULE Degradation -----------------------------
(***************************************************************************)
(* DegradationMonitor (caw-orchestrator/src/degradation.rs): the health of *)
(* the embedding and the summary service, the limiter of the probe rate,   *)
(* and the operating tier they add up to.  Calls are recorded in any       *)
(* order; MonitoredTurn records the ones run_turn records.                 *)
(*                                                                         *)
(* Abstractions.  A latency is slow or not.  A probe in recent_probes is   *)
(* its age in seconds, so the clock never has to be bounded: ages stop     *)
(* just past the window, where the limiter no longer tells them apart.     *)
(* SystemTime is taken to move forward.                                    *)
(***************************************************************************)
EXTENDS Naturals, Sequences, FiniteSets

CONSTANTS
    RateNum, RateDen,   \* error_rate_threshold
    RecoveryThreshold,  \* successes in a row that improve a status
    MinCalls,           \* min_calls_for_rate
    MaxProbes,          \* ProbeRateConfig.max_probes
    Window,             \* ProbeRateConfig.window_secs
    MaxCalls,           \* bound: calls recorded for each service
    MaxRecent           \* bound: probes in recent_probes

Components == {"embedding", "summary"}

ASSUME MonitorAssumption ==
    /\ RateNum \in Nat /\ RateDen \in Nat \ {0}
    /\ RecoveryThreshold \in Nat \ {0}
    /\ MinCalls \in Nat
    /\ MaxProbes \in Nat \ {0}
    /\ Window \in Nat
    /\ MaxCalls \in [Components -> Nat]
    /\ MaxRecent \in Nat

VARIABLES
    health,   \* ComponentHealth of each service
    recent,   \* recent_probes, oldest first, as ages
    steady    \* history: successes in a row since each status last changed

monVars == <<health, recent, steady>>

Statuses == {"healthy", "degraded", "down"}
Healths == [status : Statuses, errors : Nat, calls : Nat, slow : BOOLEAN, streak : Nat]
Ages == 0..(Window + 1)

MonInit ==
    /\ health = [c \in Components |->
                    [status |-> "healthy", errors |-> 0, calls |-> 0,
                     slow |-> FALSE, streak |-> 0]]
    /\ recent = <<>>
    /\ steady = [c \in Components |-> 0]

-----------------------------------------------------------------------------
(* record_call, before reevaluate.                                         *)
Counted(h, slow, ok) ==
    [h EXCEPT !.calls = @ + 1,
              !.errors = IF ok THEN @ ELSE @ + 1,
              !.slow = slow,
              !.streak = IF ok THEN @ + 1 ELSE 0]

(* The error rate, over the whole life of the service, is above so many    *)
(* times the threshold.                                                    *)
ErrorsAbove(h, times) ==
    h.calls >= MinCalls /\ h.errors * RateDen > times * RateNum * h.calls

ShouldDegrade(h) == h.slow \/ ErrorsAbove(h, 1)
ShouldMarkDown(h) == ErrorsAbove(h, 2) /\ h.streak = 0
Recovered(h) == h.streak >= RecoveryThreshold

NextStatus(h) ==
    CASE h.status = "healthy" /\ ShouldDegrade(h) -> "degraded"
      [] h.status = "degraded" /\ ShouldMarkDown(h) -> "down"
      [] h.status = "degraded" /\ ~ShouldMarkDown(h) /\ Recovered(h) -> "healthy"
      [] h.status = "down" /\ Recovered(h) -> "degraded"
      [] OTHER -> h.status

(* Mutant of Reevaluated: the successes before a change still count.       *)
ReevaluatedKeepingStreak(h) == [h EXCEPT !.status = NextStatus(h)]

(* reevaluate: every change of status starts a new row of successes.       *)
Reevaluated(h) ==
    [h EXCEPT !.status = NextStatus(h),
              !.streak = IF NextStatus(h) = h.status THEN @ ELSE 0]

RecordCall(c, slow, ok) ==
    LET h == Reevaluated(Counted(health[c], slow, ok)) IN
    /\ health[c].calls < MaxCalls[c]
    /\ health' = [health EXCEPT ![c] = h]
    /\ steady' = [steady EXCEPT ![c] =
                    IF ok /\ h.status = health[c].status THEN @ + 1 ELSE 0]
    /\ UNCHANGED recent

(* expire_old pops from the front while it is older than the window; the   *)
(* older probes are all at the front.                                      *)
Expired(probes) ==
    LET old == {i \in DOMAIN probes : probes[i] > Window}
    IN  SubSeq(probes, Cardinality(old) + 1, Len(probes))

(* The limiter forgets old probes here and nowhere else.                   *)
RecordProbe ==
    /\ Len(recent) < MaxRecent
    /\ recent' = Expired(Append(recent, 0))
    /\ UNCHANGED <<health, steady>>

Aged(probes) == [i \in DOMAIN probes |-> IF probes[i] > Window THEN probes[i] ELSE probes[i] + 1]

(* A second goes by.                                                       *)
Tick ==
    /\ recent' = Aged(recent)
    /\ UNCHANGED <<health, steady>>

-----------------------------------------------------------------------------
Throttled == Len(recent) >= MaxProbes

(* effective_tier is FullRecall, or is not PassThrough.                    *)
ShouldGenerateStubs == health["summary"].status # "down"
ShouldAutoRecall ==
    ShouldGenerateStubs /\ health["embedding"].status = "healthy" /\ ~Throttled

MonNext ==
    \/ \E c \in Components, slow, ok \in BOOLEAN : RecordCall(c, slow, ok)
    \/ RecordProbe
    \/ Tick

MonSpec == MonInit /\ [][MonNext]_monVars

-----------------------------------------------------------------------------
(* Every failure and every success in a row has been counted as a call.    *)
MonTypeOK ==
    /\ health \in [Components -> Healths]
    /\ \A c \in Components : health[c].errors + health[c].streak <= health[c].calls
    /\ recent \in Seq(Ages)
    /\ steady \in [Components -> Nat]

(* A status improves one step at a time, and only after as many successes  *)
(* in a row since it last changed as recovery asks for: neither the call   *)
(* that made it worse nor those that made it better a first time count     *)
(* again.                                                                  *)
Rank(status) == CASE status = "healthy" -> 2 [] status = "degraded" -> 1 [] OTHER -> 0

RecoveryIsEarned ==
    [][\A c \in Components :
        Rank(health'[c].status) > Rank(health[c].status) =>
            /\ Rank(health'[c].status) = Rank(health[c].status) + 1
            /\ health'[c].errors = health[c].errors
            /\ steady[c] + 1 >= RecoveryThreshold]_monVars

=============================================================================

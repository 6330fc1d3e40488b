------------------------- MODULE MonitoredTurnProofs -------------------------
(***************************************************************************)
(* Proofs about the degradation monitor, alone and beside a turn, for      *)
(* every configuration.                                                    *)
(*                                                                         *)
(* That recovery is earned rests on StreakIsSteady: the successes the code *)
(* has counted all belong to the row since the status last changed, which  *)
(* is why each change has to start the count again.                        *)
(*                                                                         *)
(* That probes keep to their rate rests on Matches: counted from the       *)
(* youngest, every probe searched for is at least as old as the one        *)
(* recorded in its place, so what the limiter has left after it forgets    *)
(* the old ones is never less than what was searched for in the window.    *)
(***************************************************************************)
EXTENDS MonitoredTurn, RecallTurnProofs, NumberLemmas, SequenceTheorems

StreakIsSteady == \A c \in Components : health[c].streak <= steady[c]

MonInv == MonTypeOK /\ StreakIsSteady

LEMMA CountedType ==
    ASSUME NEW h \in Healths, NEW slow \in BOOLEAN, NEW ok \in BOOLEAN,
           h.errors + h.streak <= h.calls
    PROVE  /\ Counted(h, slow, ok) \in Healths
           /\ Counted(h, slow, ok).errors + Counted(h, slow, ok).streak
                <= Counted(h, slow, ok).calls
           /\ Counted(h, slow, ok).status = h.status
           /\ Counted(h, slow, ok).streak = IF ok THEN h.streak + 1 ELSE 0
           /\ Counted(h, slow, ok).errors = IF ok THEN h.errors ELSE h.errors + 1
<1> DEFINE calls == h.calls + 1
           errors == IF ok THEN h.errors ELSE h.errors + 1
           streak == IF ok THEN h.streak + 1 ELSE 0
<1>1. h.calls \in Nat /\ h.errors \in Nat /\ h.streak \in Nat
  BY DEF Healths
<1>2. calls \in Nat /\ errors \in Nat /\ streak \in Nat /\ errors + streak <= calls
  BY <1>1
<1>3. Counted(h, slow, ok) = [h EXCEPT !.calls = calls, !.errors = errors,
                                       !.slow = slow, !.streak = streak]
  BY Zenon DEF Counted
<1> HIDE DEF calls, errors, streak
<1>4. /\ Counted(h, slow, ok) \in Healths
      /\ Counted(h, slow, ok).calls = calls /\ Counted(h, slow, ok).errors = errors
      /\ Counted(h, slow, ok).streak = streak
      /\ Counted(h, slow, ok).status = h.status
  <2> DEFINE seen == Counted(h, slow, ok)
  <2>1. seen = [h EXCEPT !.calls = calls, !.errors = errors,
                         !.slow = slow, !.streak = streak]
    BY <1>3
  <2>2. calls \in Nat /\ errors \in Nat /\ streak \in Nat
    BY <1>2
  <2> HIDE DEF seen
  <2>3. /\ seen \in Healths
        /\ seen.calls = calls /\ seen.errors = errors /\ seen.streak = streak
        /\ seen.status = h.status
    BY <2>1, <2>2 DEF Healths
  <2> QED
    BY <2>3 DEF seen
<1> QED
  BY <1>2, <1>4 DEF errors, streak

LEMMA NextStatusType == ASSUME NEW h \in Healths PROVE NextStatus(h) \in Statuses
BY DEF NextStatus, Healths, Statuses

LEMMA ReevaluatedType ==
    ASSUME NEW h \in Healths, h.errors + h.streak <= h.calls
    PROVE  /\ Reevaluated(h) \in Healths
           /\ Reevaluated(h).errors + Reevaluated(h).streak <= Reevaluated(h).calls
           /\ Reevaluated(h).status = NextStatus(h)
           /\ Reevaluated(h).streak = IF NextStatus(h) = h.status THEN h.streak ELSE 0
           /\ Reevaluated(h).errors = h.errors
<1> DEFINE status == NextStatus(h)
           streak == IF status = h.status THEN h.streak ELSE 0
<1>1. h.calls \in Nat /\ h.errors \in Nat /\ h.streak \in Nat
  BY DEF Healths
<1>2. status \in Statuses /\ streak \in Nat /\ streak <= h.streak
  BY <1>1, NextStatusType
<1>3. Reevaluated(h) = [h EXCEPT !.status = status, !.streak = streak]
  BY DEF Reevaluated
<1> HIDE DEF status, streak
<1>4. /\ Reevaluated(h) \in Healths
      /\ Reevaluated(h).status = status /\ Reevaluated(h).streak = streak
      /\ Reevaluated(h).errors = h.errors /\ Reevaluated(h).calls = h.calls
  BY <1>2, <1>3 DEF Healths
<1> QED
  BY <1>1, <1>2, <1>4 DEF status, streak

(* A status moves up one step at a time and only if the row is long enough.*)
LEMMA UpOnlyRecovered ==
    ASSUME NEW h \in Healths, Rank(NextStatus(h)) > Rank(h.status)
    PROVE  Rank(NextStatus(h)) = Rank(h.status) + 1 /\ Recovered(h)
<1>1. h.status \in Statuses
  BY DEF Healths
<1>2. CASE h.status = "healthy"
  BY <1>2 DEF NextStatus, Rank
<1>3. CASE h.status = "degraded"
  BY <1>3 DEF NextStatus, Rank
<1>4. CASE h.status = "down"
  BY <1>4 DEF NextStatus, Rank
<1> QED
  BY <1>1, <1>2, <1>3, <1>4 DEF Statuses

LEMMA AgedType == ASSUME NEW s \in Seq(Ages) PROVE Aged(s) \in Seq(Ages)
<1>1. \A i \in DOMAIN s : s[i] \in Ages
  BY ElementOfSeq, LenProperties
<1>2. \A i \in DOMAIN s :
        (IF s[i] > Window THEN s[i] ELSE s[i] + 1) \in Ages
  BY <1>1, MonitorAssumption DEF Ages
<1>3. DOMAIN s = 1..Len(s) /\ Len(s) \in Nat
  BY LenProperties
<1> QED
  BY <1>2, <1>3, IsASeq DEF Aged

LEMMA ExpiredType == ASSUME NEW s \in Seq(Ages) PROVE Expired(s) \in Seq(Ages)
<1> DEFINE old == {i \in DOMAIN s : s[i] > Window}
<1>1. DOMAIN s = 1..Len(s) /\ Len(s) \in Nat
  BY LenProperties
<1>2. Cardinality(old) \in Nat
  <2>1. IsFiniteSet(1..Len(s))
    BY <1>1, FS_Interval
  <2> QED
    BY <2>1, <1>1, FS_Subset, FS_CardinalityType
<1> HIDE DEF old
<1>3. SubSeq(s, Cardinality(old) + 1, Len(s)) \in Seq(Ages)
  <2>1. \A i \in (Cardinality(old) + 1)..Len(s) : s[i] \in Ages
    BY <1>1, <1>2, ElementOfSeq
  <2> QED
    BY <1>1, <1>2, <2>1, SubSeqProperties
<1> QED
  BY <1>3 DEF Expired, old

(* What one recorded call does to the service it is about.                 *)
LEMMA RecordedCall ==
    ASSUME MonInv, NEW c \in Components, NEW slow \in BOOLEAN, NEW ok \in BOOLEAN,
           RecordCall(c, slow, ok)
    PROVE  /\ MonInv'
           /\ \A d \in Components : d # c => health'[d] = health[d]
           /\ Rank(health'[c].status) > Rank(health[c].status) =>
                /\ Rank(health'[c].status) = Rank(health[c].status) + 1
                /\ health'[c].errors = health[c].errors
                /\ steady[c] + 1 >= RecoveryThreshold
<1> DEFINE old == health[c]
           seen == Counted(old, slow, ok)
           new == Reevaluated(seen)
<1>1. old \in Healths /\ old.errors + old.streak <= old.calls
      /\ old.streak <= steady[c] /\ steady[c] \in Nat
  BY DEF MonInv, MonTypeOK, StreakIsSteady
<1>2. /\ seen \in Healths /\ seen.errors + seen.streak <= seen.calls
      /\ seen.status = old.status
      /\ seen.streak = IF ok THEN old.streak + 1 ELSE 0
      /\ seen.errors = IF ok THEN old.errors ELSE old.errors + 1
  BY <1>1, CountedType
<1>3. /\ new \in Healths /\ new.errors + new.streak <= new.calls
      /\ new.status = NextStatus(seen)
      /\ new.streak = IF NextStatus(seen) = seen.status THEN seen.streak ELSE 0
      /\ new.errors = seen.errors
  <2> HIDE DEF seen
  <2> QED
    BY <1>2, ReevaluatedType
<1>4. /\ health' = [health EXCEPT ![c] = new]
      /\ steady' = [steady EXCEPT ![c] =
                        IF ok /\ new.status = old.status THEN @ + 1 ELSE 0]
      /\ recent' = recent
  BY DEF RecordCall
<1>5. old.streak \in Nat /\ seen.streak \in Nat /\ seen.errors \in Nat /\ old.errors \in Nat
  <2> HIDE DEF seen, old
  <2> QED
    BY <1>1, <1>2 DEF Healths
<1> HIDE DEF old, seen, new
<1>6. health' \in [Components -> Healths] /\ health'[c] = new
      /\ \A d \in Components : d # c => health'[d] = health[d]
  BY <1>3, <1>4 DEF MonInv, MonTypeOK
<1>7. steady' \in [Components -> Nat]
      /\ steady'[c] = (IF ok /\ new.status = old.status THEN steady[c] + 1 ELSE 0)
      /\ \A d \in Components : d # c => steady'[d] = steady[d]
  BY <1>1, <1>4 DEF MonInv, MonTypeOK
<1>8. new.streak <= steady'[c]
  BY <1>1, <1>2, <1>3, <1>5, <1>7
<1>9. MonInv'
  BY <1>3, <1>4, <1>6, <1>7, <1>8 DEF MonInv, MonTypeOK, StreakIsSteady
<1>10. ASSUME Rank(new.status) > Rank(old.status)
       PROVE  /\ Rank(new.status) = Rank(old.status) + 1
              /\ new.errors = old.errors
              /\ steady[c] + 1 >= RecoveryThreshold
  <2>1. Rank(new.status) = Rank(old.status) + 1 /\ seen.streak >= RecoveryThreshold
    BY <1>2, <1>3, <1>10, UpOnlyRecovered DEF Recovered
  <2>2. ok
    BY <2>1, <1>2, MonitorAssumption
  <2> QED
    BY <2>1, <2>2, <1>1, <1>2, <1>3, <1>5, MonitorAssumption
<1> QED
  BY <1>6, <1>9, <1>10 DEF old

LEMMA MonInvInit == MonInit => MonInv
BY EmptySeq DEF MonInit, MonInv, MonTypeOK, StreakIsSteady, Healths, Statuses

LEMMA MonInvNext == MonInv /\ [MonNext]_monVars => MonInv'
<1> SUFFICES ASSUME MonInv, [MonNext]_monVars PROVE MonInv'
  OBVIOUS
<1>1. CASE \E c \in Components, slow, ok \in BOOLEAN : RecordCall(c, slow, ok)
  BY <1>1, RecordedCall
<1>2. CASE RecordProbe
  <2>1. Append(recent, 0) \in Seq(Ages)
    BY AppendProperties, MonitorAssumption DEF MonInv, MonTypeOK, Ages
  <2>2. recent' \in Seq(Ages)
    BY <1>2, <2>1, ExpiredType DEF RecordProbe
  <2> QED
    BY <1>2, <2>2 DEF RecordProbe, MonInv, MonTypeOK, StreakIsSteady
<1>3. CASE Tick
  BY <1>3, AgedType DEF Tick, MonInv, MonTypeOK, StreakIsSteady
<1>4. CASE UNCHANGED monVars
  BY <1>4 DEF monVars, MonInv, MonTypeOK, StreakIsSteady
<1> QED
  BY <1>1, <1>2, <1>3, <1>4 DEF MonNext

(* The monitor's counters are consistent whatever calls are recorded.      *)
THEOREM MonTypeCorrect == MonSpec => []MonTypeOK
<1>1. MonInv => MonTypeOK
  BY DEF MonInv
<1> QED
  BY <1>1, MonInvInit, MonInvNext, PTL DEF MonSpec

(* No service improves without RecoveryThreshold successes in a row since  *)
(* its status last changed.                                                *)
THEOREM RecoveryEarned == MonSpec => RecoveryIsEarned
<1> DEFINE Earned ==
      \A c \in Components :
        Rank(health'[c].status) > Rank(health[c].status) =>
            /\ Rank(health'[c].status) = Rank(health[c].status) + 1
            /\ health'[c].errors = health[c].errors
            /\ steady[c] + 1 >= RecoveryThreshold
<1>1. ASSUME MonInv, [MonNext]_monVars PROVE [Earned]_monVars
  <2>0. \A d \in Components : ~(Rank(health[d].status) > Rank(health[d].status))
    BY DEF Rank
  <2>1. CASE \E c \in Components, slow, ok \in BOOLEAN : RecordCall(c, slow, ok)
    <3> PICK c \in Components, slow \in BOOLEAN, ok \in BOOLEAN : RecordCall(c, slow, ok)
      BY <2>1
    <3> QED
      BY <1>1, <2>0, RecordedCall
  <2>2. CASE RecordProbe \/ Tick
    BY <2>0, <2>2 DEF RecordProbe, Tick
  <2>3. CASE UNCHANGED monVars
    BY <2>3
  <2> QED
    BY <1>1, <2>1, <2>2, <2>3 DEF MonNext
<1>2. MonSpec => []MonInv
  BY MonInvInit, MonInvNext, PTL DEF MonSpec
<1>3. MonSpec => [][Earned]_monVars
  BY <1>1, <1>2, PTL DEF MonSpec
<1> QED
  BY <1>3 DEF RecoveryIsEarned

-----------------------------------------------------------------------------
(* The monitor beside a turn.  First what expire_old does to ages that     *)
(* fall from the front to the back.                                        *)
Falling(s) == \A i, j \in 1..Len(s) : i <= j => s[i] >= s[j]

LEMMA ExpiredFalling ==
    ASSUME NEW s \in Seq(Ages), Falling(s)
    PROVE  \E k \in 0..Len(s) :
             /\ \A i \in 1..Len(s) : s[i] > Window <=> i <= k
             /\ Expired(s) \in Seq(Ages)
             /\ Len(Expired(s)) = Len(s) - k
             /\ \A i \in 1..(Len(s) - k) : Expired(s)[i] = s[i + k]
<1> DEFINE old == {i \in DOMAIN s : s[i] > Window}
           k == Cardinality(old)
<1>1. DOMAIN s = 1..Len(s) /\ Len(s) \in Nat /\ \A i \in 1..Len(s) : s[i] \in Ages
  BY LenProperties, ElementOfSeq
<1>2. IsFiniteSet(1..Len(s)) /\ Cardinality(1..Len(s)) = Len(s)
  BY <1>1, CountTo
<1>3. old \in SUBSET (1..Len(s))
  BY <1>1
<1> HIDE DEF old
<1>4. IsFiniteSet(old) /\ k \in Nat /\ k <= Len(s)
  BY <1>2, <1>3, FS_Subset, FS_CardinalityType
<1>5. old \subseteq 1..k
  <2> SUFFICES ASSUME NEW i \in old PROVE i \in 1..k
    OBVIOUS
  <2>1. i \in 1..Len(s) /\ i \in Nat
    BY <1>1, <1>3
  <2>2. 1..i \in SUBSET old
    <3> SUFFICES ASSUME NEW j \in 1..i PROVE j \in old
      OBVIOUS
    <3>1. j \in 1..Len(s) /\ j <= i
      BY <1>1, <2>1
    <3>2. s[j] >= s[i] /\ s[i] > Window /\ s[i] \in Ages /\ s[j] \in Ages
      BY <1>1, <2>1, <3>1 DEF Falling, old
    <3> QED
      BY <1>1, <3>1, <3>2, MonitorAssumption DEF old, Ages
  <2>3. Cardinality(1..i) = i
    BY <2>1, CountTo
  <2>4. Cardinality(1..i) <= Cardinality(old)
    BY <1>4, <2>2, FS_Subset
  <2> QED
    BY <1>4, <2>1, <2>3, <2>4
<1>6. old = 1..k
  <2>1. IsFiniteSet(1..k) /\ Cardinality(1..k) = k
    BY <1>4, CountTo
  <2> QED
    BY <1>5, <2>1, FS_Subset
<1>7. Expired(s) = SubSeq(s, k + 1, Len(s))
  BY DEF Expired, old
<1> HIDE DEF k
<1>8. \A i \in 1..Len(s) : s[i] > Window <=> i <= k
  BY <1>1, <1>4, <1>6 DEF old
<1>9. /\ Expired(s) \in Seq(Ages) /\ Len(Expired(s)) = Len(s) - k
      /\ \A i \in 1..(Len(s) - k) : Expired(s)[i] = s[i + k]
  <2>1. Expired(s) \in Seq(Ages)
    BY ExpiredType
  <2>2. k + 1 \in 1..(Len(s) + 1) /\ Len(s) \in k..Len(s)
    BY <1>1, <1>4
  <2>3. \A i \in (k + 1)..Len(s) : s[i] \in Ages
    BY <1>1, <1>4
  <2>4. /\ Len(Expired(s)) = IF k + 1 <= Len(s) THEN Len(s) - (k + 1) + 1 ELSE 0
        /\ \A i \in 1..(Len(s) - (k + 1) + 1) : Expired(s)[i] = s[(k + 1) + i - 1]
    BY <1>1, <1>4, <1>7, <2>3, SubSeqProperties
  <2>5. Len(Expired(s)) = Len(s) - k
    <3>1. Len(s) \in Nat /\ k \in Nat /\ k <= Len(s)
      BY <1>1, <1>4
    <3>2. (IF k + 1 <= Len(s) THEN Len(s) - (k + 1) + 1 ELSE 0) = Len(s) - k
      BY <3>1
    <3> QED
      BY <2>4, <3>2
  <2>6. ASSUME NEW i \in 1..(Len(s) - k) PROVE Expired(s)[i] = s[i + k]
    <3>1. i \in 1..(Len(s) - (k + 1) + 1) /\ (k + 1) + i - 1 = i + k
      BY <1>1, <1>4
    <3> QED
      BY <2>4, <3>1
  <2> QED
    BY <2>1, <2>5, <2>6
<1> QED
  BY <1>4, <1>8, <1>9

LEMMA ExpiredIsYoung ==
    ASSUME NEW s \in Seq(Ages), Falling(s)
    PROVE  /\ Falling(Expired(s))
           /\ \A i \in 1..Len(Expired(s)) : Expired(s)[i] <= Window
<1>1. Len(s) \in Nat /\ \A i \in 1..Len(s) : s[i] \in Ages
  BY LenProperties, ElementOfSeq
<1>2. PICK k \in 0..Len(s) :
        /\ \A i \in 1..Len(s) : s[i] > Window <=> i <= k
        /\ Expired(s) \in Seq(Ages)
        /\ Len(Expired(s)) = Len(s) - k
        /\ \A i \in 1..(Len(s) - k) : Expired(s)[i] = s[i + k]
  BY ExpiredFalling
<1>3. ASSUME NEW i \in 1..Len(Expired(s))
      PROVE  /\ i + k \in 1..Len(s) /\ i + k \in Nat
             /\ Expired(s)[i] = s[i + k] /\ Expired(s)[i] <= Window
  <2>1. i \in 1..(Len(s) - k) /\ i + k \in 1..Len(s) /\ ~(i + k <= k)
    BY <1>1, <1>2
  <2> QED
    BY <1>1, <1>2, <2>1, MonitorAssumption DEF Ages
<1>4. ASSUME NEW i \in 1..Len(Expired(s)), NEW j \in 1..Len(Expired(s)), i <= j
      PROVE  Expired(s)[i] >= Expired(s)[j]
  <2>1. i + k <= j + k
    BY <1>1, <1>2, <1>4
  <2> QED
    BY <1>3, <2>1 DEF Falling
<1> QED
  BY <1>3, <1>4 DEF Falling

LEMMA AgedFalling ==
    ASSUME NEW s \in Seq(Ages), Falling(s)
    PROVE  /\ Aged(s) \in Seq(Ages) /\ Len(Aged(s)) = Len(s) /\ Falling(Aged(s))
           /\ \A i \in 1..Len(s) : Aged(s)[i] = IF s[i] > Window THEN s[i] ELSE s[i] + 1
<1>1. Len(s) \in Nat /\ DOMAIN s = 1..Len(s) /\ \A i \in 1..Len(s) : s[i] \in Ages
  BY LenProperties, ElementOfSeq
<1>2. Aged(s) \in Seq(Ages)
  BY AgedType
<1>3. DOMAIN Aged(s) = 1..Len(s) /\ DOMAIN Aged(s) = 1..Len(Aged(s)) /\ Len(Aged(s)) \in Nat
  BY <1>1, <1>2, LenProperties DEF Aged
<1>4. Len(Aged(s)) = Len(s)
  BY <1>1, <1>3
<1>5. \A i \in 1..Len(s) : Aged(s)[i] = IF s[i] > Window THEN s[i] ELSE s[i] + 1
  BY <1>1 DEF Aged
<1>6. ASSUME NEW i \in 1..Len(s), NEW j \in 1..Len(s), i <= j
      PROVE  Aged(s)[i] >= Aged(s)[j]
  <2>1. s[i] >= s[j] /\ s[i] \in Ages /\ s[j] \in Ages
    BY <1>1, <1>6 DEF Falling
  <2> QED
    BY <1>5, <2>1, MonitorAssumption DEF Ages
<1> QED
  BY <1>2, <1>4, <1>5, <1>6 DEF Falling

LEMMA PushedFalling ==
    ASSUME NEW s \in Seq(Ages), Falling(s)
    PROVE  /\ Append(s, 0) \in Seq(Ages) /\ Len(Append(s, 0)) = Len(s) + 1
           /\ Falling(Append(s, 0))
           /\ \A i \in 1..Len(s) : Append(s, 0)[i] = s[i]
           /\ Append(s, 0)[Len(s) + 1] = 0
<1>1. Len(s) \in Nat /\ \A i \in 1..Len(s) : s[i] \in Ages
  BY LenProperties, ElementOfSeq
<1>2. 0 \in Ages
  BY MonitorAssumption DEF Ages
<1>3. /\ Append(s, 0) \in Seq(Ages) /\ Len(Append(s, 0)) = Len(s) + 1
      /\ \A i \in 1..Len(s) : Append(s, 0)[i] = s[i]
      /\ Append(s, 0)[Len(s) + 1] = 0
  BY <1>2, AppendProperties
<1>4. \A i \in 1..(Len(s) + 1) : Append(s, 0)[i] \in Ages
  BY <1>1, <1>2, <1>3
<1>5. ASSUME NEW i \in 1..(Len(s) + 1), NEW j \in 1..(Len(s) + 1), i <= j
      PROVE  Append(s, 0)[i] >= Append(s, 0)[j]
  <2>1. CASE j = Len(s) + 1
    BY <1>3, <1>4, <2>1, MonitorAssumption DEF Ages
  <2>2. CASE j # Len(s) + 1
    <3>1. i \in 1..Len(s) /\ j \in 1..Len(s)
      BY <1>1, <1>5, <2>2
    <3> QED
      BY <1>3, <1>5, <3>1 DEF Falling
  <2> QED
    BY <2>1, <2>2
<1> QED
  BY <1>3, <1>5 DEF Falling

-----------------------------------------------------------------------------
(* Counted from the youngest, each probe of a is at least as old as the    *)
(* one of b in its place.                                                  *)
Matches(a, b) ==
    /\ Len(a) <= Len(b)
    /\ \A j \in 0..(Len(a) - 1) : b[Len(b) - j] <= a[Len(a) - j]

(* What the limiter forgets was matched by nothing.                        *)
LEMMA MatchesExpired ==
    ASSUME NEW a \in Seq(Ages), NEW b \in Seq(Ages), Falling(b), Matches(a, b),
           \A i \in 1..Len(a) : a[i] <= Window
    PROVE  Matches(a, Expired(b))
<1>1. /\ Len(a) \in Nat /\ \A i \in 1..Len(a) : a[i] \in Ages
      /\ Len(b) \in Nat /\ \A i \in 1..Len(b) : b[i] \in Ages
  BY LenProperties, ElementOfSeq
<1>2. PICK k \in 0..Len(b) :
        /\ \A i \in 1..Len(b) : b[i] > Window <=> i <= k
        /\ Expired(b) \in Seq(Ages)
        /\ Len(Expired(b)) = Len(b) - k
        /\ \A i \in 1..(Len(b) - k) : Expired(b)[i] = b[i + k]
  BY ExpiredFalling
<1>3. ASSUME NEW j \in 0..(Len(a) - 1)
      PROVE  /\ Len(b) - j > k
             /\ Expired(b)[Len(Expired(b)) - j] <= a[Len(a) - j]
  <2>1. Len(b) - j \in 1..Len(b) /\ Len(a) - j \in 1..Len(a) /\ j \in Nat
    BY <1>1, <1>3 DEF Matches
  <2>2. b[Len(b) - j] <= a[Len(a) - j] /\ a[Len(a) - j] <= Window
    BY <1>3, <2>1 DEF Matches
  <2>3. ~(b[Len(b) - j] > Window)
    <3>1. b[Len(b) - j] \in Ages /\ a[Len(a) - j] \in Ages
      BY <1>1, <2>1
    <3> QED
      BY <2>2, <3>1, MonitorAssumption DEF Ages
  <2>4. ~(Len(b) - j <= k)
    BY <1>2, <2>1, <2>3
  <2>5. Len(Expired(b)) - j \in 1..(Len(b) - k) /\ (Len(Expired(b)) - j) + k = Len(b) - j
    BY <1>1, <1>2, <2>1, <2>4
  <2>6. Expired(b)[Len(Expired(b)) - j] = b[Len(b) - j]
    BY <1>2, <2>5
  <2> QED
    BY <1>1, <1>2, <2>1, <2>2, <2>4, <2>6
<1>4. Len(a) <= Len(Expired(b))
  <2>1. CASE Len(a) = 0
    BY <1>1, <1>2, <2>1
  <2>2. CASE Len(a) > 0
    <3>1. Len(a) - 1 \in 0..(Len(a) - 1)
      BY <1>1, <2>2
    <3>2. Len(b) - (Len(a) - 1) > k
      BY <1>3, <3>1
    <3> QED
      BY <1>1, <1>2, <3>2
  <2> QED
    BY <1>1, <2>1, <2>2
<1> QED
  BY <1>3, <1>4 DEF Matches

(* A match stays one when the older side forgets.                          *)
LEMMA ExpiredMatches ==
    ASSUME NEW a \in Seq(Ages), NEW b \in Seq(Ages), Falling(a), Matches(a, b)
    PROVE  Matches(Expired(a), b) /\ Len(Expired(a)) <= Len(a)
<1>1. Len(a) \in Nat /\ Len(b) \in Nat
  BY LenProperties
<1>2. PICK k \in 0..Len(a) :
        /\ Len(Expired(a)) = Len(a) - k
        /\ \A i \in 1..(Len(a) - k) : Expired(a)[i] = a[i + k]
  BY ExpiredFalling
<1>3. ASSUME NEW j \in 0..(Len(Expired(a)) - 1)
      PROVE  b[Len(b) - j] <= Expired(a)[Len(Expired(a)) - j]
  <2>1. /\ Len(Expired(a)) - j \in 1..(Len(a) - k)
        /\ (Len(Expired(a)) - j) + k = Len(a) - j
        /\ j \in 0..(Len(a) - 1)
    BY <1>1, <1>2
  <2>2. Expired(a)[Len(Expired(a)) - j] = a[Len(a) - j]
    BY <1>2, <2>1
  <2> QED
    BY <2>1, <2>2 DEF Matches
<1> QED
  BY <1>1, <1>2, <1>3 DEF Matches

(* A second passes for both.                                               *)
LEMMA AgedMatches ==
    ASSUME NEW a \in Seq(Ages), NEW b \in Seq(Ages), Falling(a), Falling(b), Matches(a, b)
    PROVE  Matches(Aged(a), Aged(b))
<1>1. /\ Len(a) \in Nat /\ \A i \in 1..Len(a) : a[i] \in Ages
      /\ Len(b) \in Nat /\ \A i \in 1..Len(b) : b[i] \in Ages
  BY LenProperties, ElementOfSeq
<1>2. Len(Aged(a)) = Len(a) /\ Len(Aged(b)) = Len(b)
  BY AgedFalling
<1>3. ASSUME NEW j \in 0..(Len(a) - 1)
      PROVE  Aged(b)[Len(b) - j] <= Aged(a)[Len(a) - j]
  <2>1. Len(b) - j \in 1..Len(b) /\ Len(a) - j \in 1..Len(a)
    BY <1>1, <1>3 DEF Matches
  <2>2. b[Len(b) - j] <= a[Len(a) - j] /\ b[Len(b) - j] \in Ages /\ a[Len(a) - j] \in Ages
    BY <1>1, <1>3, <2>1 DEF Matches
  <2> DEFINE x == Aged(a)[Len(a) - j]
             y == Aged(b)[Len(b) - j]
             x0 == a[Len(a) - j]
             y0 == b[Len(b) - j]
  <2>3. /\ Aged(a)[Len(a) - j] = IF a[Len(a) - j] > Window THEN a[Len(a) - j]
                                 ELSE a[Len(a) - j] + 1
        /\ Aged(b)[Len(b) - j] = IF b[Len(b) - j] > Window THEN b[Len(b) - j]
                                 ELSE b[Len(b) - j] + 1
    BY <2>1, AgedFalling
  <2>4. /\ y0 <= x0 /\ y0 \in Nat /\ x0 \in Nat
        /\ x = IF x0 > Window THEN x0 ELSE x0 + 1
        /\ y = IF y0 > Window THEN y0 ELSE y0 + 1
    BY <2>2, <2>3 DEF Ages
  <2> HIDE DEF x, y, x0, y0
  <2>5. y <= x
    BY <2>4, MonitorAssumption
  <2> QED
    BY <2>5 DEF x, y
<1> QED
  BY <1>2, <1>3 DEF Matches

(* One more probe, recorded and searched for, or only recorded.            *)
LEMMA PushedMatches ==
    ASSUME NEW a \in Seq(Ages), NEW b \in Seq(Ages), Falling(a), Falling(b), Matches(a, b)
    PROVE  Matches(Append(a, 0), Append(b, 0)) /\ Matches(a, Append(b, 0))
<1>1. /\ Len(a) \in Nat /\ \A i \in 1..Len(a) : a[i] \in Ages
      /\ Len(b) \in Nat /\ \A i \in 1..Len(b) : b[i] \in Ages
  BY LenProperties, ElementOfSeq
<1>2. /\ Len(Append(a, 0)) = Len(a) + 1 /\ Len(Append(b, 0)) = Len(b) + 1
      /\ \A i \in 1..Len(a) : Append(a, 0)[i] = a[i]
      /\ \A i \in 1..Len(b) : Append(b, 0)[i] = b[i]
      /\ Append(a, 0)[Len(a) + 1] = 0 /\ Append(b, 0)[Len(b) + 1] = 0
  BY PushedFalling
<1>3. ASSUME NEW j \in 0..Len(a)
      PROVE  Append(b, 0)[Len(b) + 1 - j] <= Append(a, 0)[Len(a) + 1 - j]
  <2>1. CASE j = 0
    BY <1>1, <1>2, <2>1
  <2>2. CASE j # 0
    <3>1. /\ j - 1 \in 0..(Len(a) - 1)
          /\ Len(a) + 1 - j = Len(a) - (j - 1) /\ Len(b) + 1 - j = Len(b) - (j - 1)
          /\ Len(a) - (j - 1) \in 1..Len(a) /\ Len(b) - (j - 1) \in 1..Len(b)
      BY <1>1, <2>2 DEF Matches
    <3>2. b[Len(b) - (j - 1)] <= a[Len(a) - (j - 1)]
      BY <3>1 DEF Matches
    <3> QED
      BY <1>2, <3>1, <3>2
  <2> QED
    BY <2>1, <2>2
<1>4. ASSUME NEW j \in 0..(Len(a) - 1)
      PROVE  Append(b, 0)[Len(b) + 1 - j] <= a[Len(a) - j]
  <2>1. Len(a) - j \in 1..Len(a) /\ a[Len(a) - j] \in Ages
    BY <1>1, <1>4
  <2>2. CASE j = 0
    BY <1>1, <1>2, <2>1, <2>2, MonitorAssumption DEF Ages
  <2>3. CASE j # 0
    <3>1. /\ j - 1 \in 0..(Len(a) - 1)
          /\ Len(b) + 1 - j = Len(b) - (j - 1)
          /\ Len(a) - (j - 1) \in 1..Len(a) /\ Len(b) - (j - 1) \in 1..Len(b)
          /\ Len(a) - j <= Len(a) - (j - 1)
      BY <1>1, <1>4, <2>3 DEF Matches
    <3>2. b[Len(b) - (j - 1)] <= a[Len(a) - (j - 1)]
      BY <3>1 DEF Matches
    <3>3. a[Len(a) - j] >= a[Len(a) - (j - 1)]
      BY <2>1, <3>1 DEF Falling
    <3>4. /\ b[Len(b) - (j - 1)] \in Ages /\ a[Len(a) - (j - 1)] \in Ages
          /\ Append(b, 0)[Len(b) + 1 - j] = b[Len(b) - (j - 1)]
      BY <1>1, <1>2, <3>1
    <3>5. \A x, y, z \in Ages : x <= y /\ z >= y => x <= z
      BY MonitorAssumption DEF Ages
    <3> QED
      BY <2>1, <3>2, <3>3, <3>4, <3>5
  <2> QED
    BY <2>2, <2>3
<1>5. Len(a) <= Len(b) /\ (Len(a) + 1) - 1 = Len(a)
  BY <1>1 DEF Matches
<1>6. Matches(Append(a, 0), Append(b, 0))
  <2>1. Len(Append(a, 0)) <= Len(Append(b, 0))
    BY <1>1, <1>2, <1>5
  <2>2. ASSUME NEW j \in 0..(Len(Append(a, 0)) - 1)
        PROVE  Append(b, 0)[Len(Append(b, 0)) - j] <= Append(a, 0)[Len(Append(a, 0)) - j]
    BY <1>2, <1>3, <1>5
  <2> QED
    BY <2>1, <2>2 DEF Matches
<1>7. Matches(a, Append(b, 0))
  <2>1. Len(a) <= Len(Append(b, 0))
    BY <1>1, <1>2, <1>5
  <2>2. ASSUME NEW j \in 0..(Len(a) - 1)
        PROVE  Append(b, 0)[Len(Append(b, 0)) - j] <= a[Len(a) - j]
    <3>1. Append(b, 0)[Len(b) + 1 - j] <= a[Len(a) - j]
      BY <1>4
    <3>2. Len(Append(b, 0)) - j = Len(b) + 1 - j
      BY <1>2
    <3> QED
      BY <3>1, <3>2
  <2> QED
    BY <2>1, <2>2 DEF Matches
<1> QED
  BY <1>6, <1>7

-----------------------------------------------------------------------------
(* The invariant of the limiter beside a turn.                             *)
RateInv ==
    /\ MonInv
    /\ Falling(recent)
    /\ answered \in Seq(Ages) /\ Falling(answered)
    /\ \A i \in 1..Len(answered) : answered[i] <= Window
    /\ Matches(answered, recent)
    /\ ProbesWithinRate

(* What the limiter and the history of answered probes see of a step.      *)
LimiterStep ==
    \/ UNCHANGED <<recent, answered>>
    \/ RecordProbe /\ UNCHANGED answered
    \/ RecordProbe /\ ~Throttled' /\ answered' = Append(answered, 0)
    \/ Tick /\ answered' = Expired(Aged(answered))

LEMMA MonitoredIsLimited == MonitoredNext => LimiterStep
<1> SUFFICES ASSUME MonitoredNext PROVE LimiterStep
  OBVIOUS
<1> USE DEF LimiterStep
<1>1. CASE Unwatched \/ StartWatchedIteration \/ PassThroughTier \/ StartRecallingTurn
           \/ (HostReset /\ UNCHANGED unwatched)
  BY <1>1 DEF Unwatched, StartWatchedIteration, PassThroughTier, StartRecallingTurn,
              unwatched, monVars
<1>2. CASE TraceHistoryWatched \/ HostReports
  BY <1>2 DEF TraceHistoryWatched, HostReports, RecordCall, monVars
<1>3. CASE ProbeWatched
  BY <1>3 DEF ProbeWatched, ShouldAutoRecall
<1>4. CASE ProbesCutShort
  BY <1>4 DEF ProbesCutShort
<1>5. CASE TimePasses
  BY <1>5 DEF TimePasses
<1> QED
  BY <1>1, <1>2, <1>3, <1>4, <1>5 DEF MonitoredNext, RunWatchedTurn

(* Every step is one of the turn and one of the monitor, or leaves one or  *)
(* both of them alone.                                                     *)
LEMMA MonitoredSteps == [MonitoredNext]_allVars => [TurnNext]_vars /\ [MonNext]_monVars
<1> SUFFICES ASSUME [MonitoredNext]_allVars PROVE [TurnNext]_vars /\ [MonNext]_monVars
  OBVIOUS
<1>1. CASE UNCHANGED allVars
  BY <1>1 DEF allVars, unwatched
<1>2. CASE PassThroughTier \/ StartRecallingTurn \/ (HostReset /\ UNCHANGED unwatched)
  BY <1>2 DEF PassThroughTier, StartRecallingTurn, unwatched, TurnNext
<1>3. CASE Unwatched
  BY <1>3 DEF Unwatched, unwatched, TurnNext, RunTurn, RecallStep
<1>4. CASE StartWatchedIteration
  BY <1>4 DEF StartWatchedIteration, unwatched, TurnNext, RunTurn
<1>5. CASE TraceHistoryWatched
  <2>1. TraceHistory
    BY <1>5 DEF TraceHistoryWatched
  <2>2. UNCHANGED monVars \/ \E slow \in BOOLEAN : RecordCall("embedding", slow, pc' # "idle")
    BY <1>5 DEF TraceHistoryWatched
  <2> QED
    BY <2>1, <2>2 DEF TurnNext, RunTurn, RecallStep, MonNext, Components
<1>6. CASE ProbeWatched \/ ProbesCutShort
  BY <1>6 DEF ProbeWatched, ProbesCutShort, TurnNext, RunTurn, RecallStep, MonNext
<1>7. CASE HostReports
  BY <1>7 DEF HostReports, MonNext, Components
<1>8. CASE TimePasses
  BY <1>8 DEF TimePasses, MonNext
<1> QED
  BY <1>1, <1>2, <1>3, <1>4, <1>5, <1>6, <1>7, <1>8 DEF MonitoredNext, RunWatchedTurn

LEMMA RecordedProbe ==
    ASSUME RateInv, RecordProbe
    PROVE  /\ recent' \in Seq(Ages) /\ Falling(recent')
           /\ Matches(answered, recent')
           /\ Matches(Append(answered, 0), recent')
<1>1. recent \in Seq(Ages) /\ answered \in Seq(Ages)
  BY DEF RateInv, MonInv, MonTypeOK
<1> DEFINE longer == Append(recent, 0)
           one == Append(answered, 0)
<1>2. longer \in Seq(Ages) /\ Falling(longer) /\ one \in Seq(Ages)
  BY <1>1, PushedFalling DEF RateInv
<1>3. \A i \in 1..Len(one) : one[i] <= Window
  <2>1. Len(answered) \in Nat
    BY <1>1, LenProperties
  <2>2. /\ Len(one) = Len(answered) + 1 /\ one[Len(answered) + 1] = 0
        /\ \A i \in 1..Len(answered) : one[i] = answered[i]
    BY <1>1, PushedFalling DEF RateInv
  <2> HIDE DEF one
  <2> QED
    BY <2>1, <2>2, MonitorAssumption DEF RateInv
<1>4. Matches(one, longer) /\ Matches(answered, longer)
  BY <1>1, PushedMatches DEF RateInv
<1>5. recent' = Expired(longer)
  BY DEF RecordProbe
<1>6. recent' \in Seq(Ages) /\ Falling(recent')
  <2> HIDE DEF longer
  <2> QED
    BY <1>2, <1>5, ExpiredType, ExpiredIsYoung
<1>7. Matches(answered, recent') /\ Matches(one, recent')
  <2> HIDE DEF longer, one
  <2>1. Matches(answered, Expired(longer))
    BY <1>1, <1>2, <1>4, MatchesExpired DEF RateInv
  <2>2. Matches(one, Expired(longer))
    BY <1>2, <1>3, <1>4, MatchesExpired
  <2> QED
    BY <1>5, <2>1, <2>2
<1> QED
  BY <1>6, <1>7

LEMMA RateInvInit == MonitoredInit => RateInv
<1> SUFFICES ASSUME MonitoredInit PROVE RateInv
  OBVIOUS
<1>1. MonInv
  BY MonInvInit DEF MonitoredInit
<1>2. recent = <<>> /\ answered = <<>> /\ <<>> \in Seq(Ages) /\ Len(<<>>) = 0
  BY EmptySeq DEF MonitoredInit, MonInit
<1> QED
  BY <1>1, <1>2, MonitorAssumption DEF RateInv, Falling, Matches, ProbesWithinRate

LEMMA RateInvStep == RateInv /\ [MonitoredNext]_allVars => RateInv'
<1> SUFFICES ASSUME RateInv, [MonitoredNext]_allVars PROVE RateInv'
  OBVIOUS
<1>1. MonInv'
  BY MonitoredSteps, MonInvNext DEF RateInv
<1>2. recent \in Seq(Ages) /\ answered \in Seq(Ages) /\ Len(answered) \in Nat
  BY LenProperties DEF RateInv, MonInv, MonTypeOK
<1>3. CASE UNCHANGED <<recent, answered>>
  BY <1>1, <1>3 DEF RateInv, Falling, Matches, ProbesWithinRate
<1>4. CASE RecordProbe /\ UNCHANGED answered
  BY <1>1, <1>4, RecordedProbe DEF RateInv, ProbesWithinRate
<1>5. CASE RecordProbe /\ ~Throttled' /\ answered' = Append(answered, 0)
  <2>1. Falling(recent') /\ recent' \in Seq(Ages) /\ Matches(answered', recent')
    BY <1>5, RecordedProbe
  <2>2. /\ answered' \in Seq(Ages) /\ Falling(answered')
        /\ Len(answered') = Len(answered) + 1 /\ answered'[Len(answered) + 1] = 0
        /\ \A i \in 1..Len(answered) : answered'[i] = answered[i]
    BY <1>2, <1>5, PushedFalling DEF RateInv
  <2>3. \A i \in 1..Len(answered') : answered'[i] <= Window
    BY <1>2, <2>2, MonitorAssumption DEF RateInv
  <2>4. Len(recent') \in Nat /\ Len(answered') \in Nat
    BY <1>2, <2>1, <2>2, LenProperties
  <2>5. ProbesWithinRate'
    BY <1>5, <2>1, <2>4, MonitorAssumption DEF Matches, Throttled, ProbesWithinRate
  <2> QED
    BY <1>1, <2>1, <2>2, <2>3, <2>5 DEF RateInv
<1>6. CASE Tick /\ answered' = Expired(Aged(answered))
  <2>1. /\ Aged(recent) \in Seq(Ages) /\ Falling(Aged(recent))
        /\ Aged(answered) \in Seq(Ages) /\ Falling(Aged(answered))
        /\ Len(Aged(answered)) = Len(answered)
    BY <1>2, AgedFalling DEF RateInv
  <2>2. Matches(Aged(answered), Aged(recent))
    BY <1>2, AgedMatches DEF RateInv
  <2>3. /\ Matches(Expired(Aged(answered)), Aged(recent))
        /\ Len(Expired(Aged(answered))) <= Len(Aged(answered))
    BY <2>1, <2>2, ExpiredMatches
  <2>4. /\ Expired(Aged(answered)) \in Seq(Ages) /\ Falling(Expired(Aged(answered)))
        /\ \A i \in 1..Len(Expired(Aged(answered))) : Expired(Aged(answered))[i] <= Window
    BY <2>1, ExpiredType, ExpiredIsYoung
  <2>5. recent' = Aged(recent)
    BY <1>6 DEF Tick
  <2>6. Len(answered') \in Nat
    BY <1>6, <2>4, LenProperties
  <2>7. ProbesWithinRate'
    BY <1>2, <1>6, <2>1, <2>3, <2>6, MonitorAssumption DEF RateInv, ProbesWithinRate
  <2> QED
    BY <1>1, <1>6, <2>1, <2>3, <2>4, <2>5, <2>7 DEF RateInv
<1>7. LimiterStep
  BY MonitoredIsLimited DEF LimiterStep, allVars, unwatched, monVars
<1> QED
  BY <1>3, <1>4, <1>5, <1>6, <1>7 DEF LimiterStep

(* The probe limiter does what it is for: in no window are MaxProbes       *)
(* probes searched for, however process_probes, turns and the seconds      *)
(* between them follow each other, although only a new probe makes the     *)
(* limiter forget old ones.                                                *)
THEOREM ProbesKeepToTheRate == MonitoredSpec => []ProbesWithinRate
<1>1. RateInv => ProbesWithinRate
  BY DEF RateInv
<1> QED
  BY <1>1, RateInvInit, RateInvStep, PTL DEF MonitoredSpec

(* Attached to a monitor, run_turn is still run_turn, and the monitor is   *)
(* told of calls only as it expects to be: the composition implements      *)
(* both of its parts.                                                      *)
THEOREM MonitoredImplementsBoth == MonitoredSpec => TurnSpec /\ MonSpec
<1>1. MonitoredInit => TurnInit /\ MonInit
  BY DEF MonitoredInit
<1> QED
  BY <1>1, MonitoredSteps, PTL DEF MonitoredSpec, TurnSpec, MonSpec

(* So what was proved of turns and of the monitor holds of a turn under a  *)
(* monitor: recalled content reaches the model, and services recover only  *)
(* as far as they have earned.                                             *)
THEOREM MonitoredKeepsPromises ==
  MonitoredSpec => []RecalledReachesModel /\ []TurnTypeOK /\ RecoveryIsEarned
BY MonitoredImplementsBoth, AdmittedReachesModel, TurnTypeCorrect, RecoveryEarned, PTL

=============================================================================

-------------------------- MODULE RateLimiterProofs --------------------------
(***************************************************************************)
(* The rate limiter for any agents, cap, window and clock bound.            *)
(***************************************************************************)
EXTENDS RateLimiter, SequenceTheorems, FiniteSetTheorems, TLAPS

\* What `while window and window[0] < cutoff: popleft()` leaves of a deque w
\* after k pops: a shorter sequence, element i of it being element k + i of w.
LEMMA LiveProperties ==
  ASSUME NEW S, NEW w \in Seq(S), NEW k \in 0..Len(w)
  PROVE  LET live == SubSeq(w, k + 1, Len(w)) IN
         /\ live \in Seq(S)
         /\ Len(live) = Len(w) - k
         /\ \A i \in 1..Len(live) : live[i] = w[k + i]
<1>1. CASE k = Len(w)
  BY <1>1, SubSeqProperties, SMTT(30)
<1>2. CASE k < Len(w)
  <2>1. /\ SubSeq(w, k + 1, Len(w)) \in Seq(S)
        /\ Len(SubSeq(w, k + 1, Len(w))) = Len(w) - k
        /\ \A i \in 1..Len(w) - k :
             SubSeq(w, k + 1, Len(w))[i] = w[k + i]
    BY <1>2, SubSeqProperties, SMTT(30)
  <2>2. QED
    BY <2>1
<1>3. QED
  BY <1>1, <1>2

\* Recording a request keeps the deque a sequence of times within the cap.
LEMMA RecordedProperties ==
  ASSUME LimiterAssumption, now \in 0..MaxTime,
         NEW live \in Seq(0..MaxTime), Len(live) <= Burst
  PROVE  /\ Recorded(live) \in Seq(0..MaxTime)
         /\ Len(Recorded(live)) <= Burst
         /\ Len(Recorded(live)) <= Len(live) + 1
<1>1. CASE IsBurst(Len(live))
  BY <1>1 DEF Recorded
<1>2. CASE ~IsBurst(Len(live))
  <2>1. Recorded(live) = Append(live, now)
    BY <1>2 DEF Recorded
  <2>2. Len(live) < Burst
    BY <1>2 DEF IsBurst, LimiterAssumption
  <2>3. QED
    BY <2>1, <2>2, AppendProperties DEF LimiterAssumption
<1>3. QED
  BY <1>1, <1>2

\* The rolling average is a natural number.
LEMMA AverageType ==
  ASSUME NEW mean \in Nat, NEW rpm \in Nat
  PROVE  NextAvg(mean, rpm) \in Nat
<1>1. (rpm * 10 + 4 * mean + 4) \div 5 \in Nat /\ rpm * 10 \in Nat
  BY SMTT(30)
<1>2. QED
  BY <1>1 DEF NextAvg, Scale

\* Once it contains the count it trails it by at most 4, provided it trailed the
\* previous count, which is at most one smaller, by at most 4.
LEMMA AverageTrails ==
  ASSUME NEW mean \in Nat, NEW rpm \in Nat, mean >= Scale * (rpm - 5)
  PROVE  NextAvg(mean, rpm) >= Scale * (rpm - 4)
<1>1. CASE mean = 0
  BY <1>1 DEF NextAvg, Scale
<1>2. CASE mean # 0
  <2>1. NextAvg(mean, rpm) = (rpm * 10 + 4 * mean + 4) \div 5
    BY <1>2 DEF NextAvg, Scale
  <2>2. rpm * 10 + 4 * mean + 4 >= 5 * (10 * (rpm - 4))
    BY DEF Scale
  <2>3. QED
    BY <2>1, <2>2, SMTT(30) DEF Scale
<1>3. QED
  BY <1>1, <1>2

\* What one call of check() does: it pops k expired heads, leaves `live`, whose
\* head (if any) still counts, and decides by the length of `live`.
CheckPopping(a, k, live) ==
  /\ Len(live) = Len(windows[a]) - k
  /\ \A i \in 1..Len(live) : live[i] = windows[a][k + i]
  /\ \A i \in 1..k : windows[a][i] < now - Window
  /\ Len(live) > 0 => live[1] >= now - Window
  /\ windows' = [windows EXCEPT ![a] = Recorded(live)]
  /\ avg' = [avg EXCEPT ![a] = NextAvg(avg[a], Len(live))]
  /\ spike' = [spike EXCEPT ![a] =
                 IsSpike(NextAvg(avg[a], Len(live)), Len(live))]
  /\ verdict' = [verdict EXCEPT ![a] =
                   IF IsBurst(Len(live)) THEN "rejected" ELSE "admitted"]
  /\ log' = [log EXCEPT ![a] =
               IF IsBurst(Len(live)) THEN log[a] ELSE Append(log[a], now)]
  /\ now' = now

\* Check(a) is CheckPopping(a, k, live) for some k and live.
LEMMA CheckEffect ==
  ASSUME TypeOK, NEW a \in Agents, Check(a)
  PROVE  \E k \in 0..Len(windows[a]), live \in Seq(0..MaxTime) :
           CheckPopping(a, k, live)
<1>1. PICK k \in PopCounts(windows[a]) :
        LET live == SubSeq(windows[a], k + 1, Len(windows[a]))
            rpm  == Len(live)
            mean == NextAvg(avg[a], rpm)
        IN  /\ windows' = [windows EXCEPT ![a] = Recorded(live)]
            /\ avg' = [avg EXCEPT ![a] = mean]
            /\ spike' = [spike EXCEPT ![a] = IsSpike(mean, rpm)]
            /\ verdict' = [verdict EXCEPT ![a] =
                              IF IsBurst(rpm) THEN "rejected" ELSE "admitted"]
            /\ log' = [log EXCEPT ![a] =
                         IF IsBurst(rpm) THEN @ ELSE Append(@, now)]
            /\ now' = now
  BY DEF Check
<1> DEFINE live == SubSeq(windows[a], k + 1, Len(windows[a]))
<1>2. /\ k \in 0..Len(windows[a])
      /\ \A i \in 1..k : windows[a][i] < now - Window
      /\ k < Len(windows[a]) => ~(windows[a][k + 1] < now - Window)
  BY DEF PopCounts, IsExpired
<1>3. windows[a] \in Seq(0..MaxTime) /\ now \in 0..MaxTime
  BY DEF TypeOK
<1>4. /\ live \in Seq(0..MaxTime)
      /\ Len(live) = Len(windows[a]) - k
      /\ \A i \in 1..Len(live) : live[i] = windows[a][k + i]
  BY <1>2, <1>3, LiveProperties, ZenonT(40)
<1>5. Len(live) > 0 => live[1] >= now - Window
  <2>1. SUFFICES ASSUME Len(live) > 0 PROVE live[1] >= now - Window
    OBVIOUS
  <2>2. k < Len(windows[a]) /\ live[1] = windows[a][k + 1]
    BY <1>2, <1>3, <1>4, <2>1
  <2>3. windows[a][k + 1] \in 0..MaxTime
    <3>1. k + 1 \in 1..Len(windows[a])
      BY <1>2, <1>3, <2>2
    <3>2. QED
      BY <1>3, <3>1, ElementOfSeq
  <2>4. QED
    BY <1>2, <1>3, <2>2, <2>3, LimiterAssumption DEF LimiterAssumption
<1> HIDE DEF live
<1>6. /\ windows' = [windows EXCEPT ![a] = Recorded(live)]
      /\ avg' = [avg EXCEPT ![a] = NextAvg(avg[a], Len(live))]
      /\ spike' = [spike EXCEPT ![a] =
                     IsSpike(NextAvg(avg[a], Len(live)), Len(live))]
      /\ verdict' = [verdict EXCEPT ![a] =
                       IF IsBurst(Len(live)) THEN "rejected" ELSE "admitted"]
      /\ log' = [log EXCEPT ![a] =
                   IF IsBurst(Len(live)) THEN log[a] ELSE Append(log[a], now)]
      /\ now' = now
  BY <1>1 DEF live
<1>7. CheckPopping(a, k, live)
  BY <1>2, <1>4, <1>5, <1>6 DEF CheckPopping
<1>8. QED
  BY <1>2, <1>4, <1>7

-----------------------------------------------------------------------------
(* Type correctness: every variable has its type and no deque outgrows the
   cap, for any number of agents and any cap. *)
LEMMA TypeStep ==
  ASSUME LimiterAssumption, TypeOK, [Next]_vars
  PROVE  TypeOK'
<1>1. ASSUME NEW a \in Agents, Check(a)
      PROVE  TypeOK'
  <2>1. PICK k \in 0..Len(windows[a]), live \in Seq(0..MaxTime) :
          CheckPopping(a, k, live)
    BY <1>1, CheckEffect
  <2>2. Len(windows[a]) \in Nat /\ Len(windows[a]) <= Burst
    BY DEF TypeOK
  <2>3. Len(live) \in Nat /\ Len(live) <= Burst
    BY <2>1, <2>2 DEF LimiterAssumption, CheckPopping
  <2>4. Recorded(live) \in Seq(0..MaxTime) /\ Len(Recorded(live)) <= Burst
    BY <2>3, RecordedProperties DEF TypeOK
  <2>5. windows' \in [Agents -> Seq(0..MaxTime)]
        /\ \A b \in Agents : Len(windows'[b]) <= Burst
    BY <2>1, <2>4 DEF TypeOK, CheckPopping
  <2>6. avg' \in [Agents -> Nat]
    BY <2>1, <2>3, AverageType DEF TypeOK, CheckPopping
  <2>7. log' \in [Agents -> Seq(0..MaxTime)]
    <3>1. log[a] \in Seq(0..MaxTime) /\ now \in 0..MaxTime
      BY DEF TypeOK
    <3>2. Append(log[a], now) \in Seq(0..MaxTime)
      BY <3>1, AppendProperties
    <3>3. QED
      BY <2>1, <3>2 DEF TypeOK, CheckPopping
  <2>8. verdict' \in [Agents -> {"none", "admitted", "rejected"}]
    BY <2>1 DEF TypeOK, CheckPopping
  <2>9. spike' \in [Agents -> BOOLEAN]
    BY <2>1 DEF TypeOK, IsSpike, CheckPopping
  <2>10. QED
    BY <2>1, <2>5, <2>6, <2>7, <2>8, <2>9 DEF TypeOK, CheckPopping
<1>2. ASSUME NEW a \in Agents, Reset(a)
      PROVE  TypeOK'
  BY <1>2 DEF TypeOK, Reset, LimiterAssumption
<1>3. CASE Tick
  BY <1>3 DEF TypeOK, Tick, LimiterAssumption
<1>4. CASE UNCHANGED vars
  BY <1>4 DEF TypeOK, vars
<1>5. QED
  BY <1>1, <1>2, <1>3, <1>4 DEF Next

\* The variables keep their types, and check() lets no deque outgrow the cap.
THEOREM TypeCorrect == Spec => []TypeOK
<1>1. Init => TypeOK
  BY LimiterAssumption DEF Init, TypeOK, LimiterAssumption
<1>2. TypeOK /\ [Next]_vars => TypeOK'
  BY LimiterAssumption, TypeStep
<1>3. QED
  BY <1>1, <1>2, PTL DEF Spec

-----------------------------------------------------------------------------
(* The spike flag is dead, which is why SpikeDetected fails.  The inductive
   invariant bounds the gap between the average and the length of the deque; the
   flag needs a gap of 10. *)
\* check() raises is_spike for no sequence of calls: the average it compares
\* with already contains the current count and trails it by at most 4.
SpikeNeverRaised == \A a \in Agents : ~spike[a]

AverageBound ==
  \A a \in Agents : avg[a] >= Scale * (Len(windows[a]) - 5)

\* The bound on the gap and the unraised flag are inductive together.
LEMMA SpikeStep ==
  ASSUME LimiterAssumption, TypeOK, AverageBound, SpikeNeverRaised, [Next]_vars
  PROVE  AverageBound' /\ SpikeNeverRaised'
<1>1. ASSUME NEW a \in Agents, Check(a)
      PROVE  AverageBound' /\ SpikeNeverRaised'
  <2>1. PICK k \in 0..Len(windows[a]), live \in Seq(0..MaxTime) :
          CheckPopping(a, k, live)
    BY <1>1, CheckEffect
  <2> DEFINE mean == NextAvg(avg[a], Len(live))
  <2>2. /\ Len(windows[a]) \in Nat /\ Len(windows[a]) <= Burst
        /\ avg[a] \in Nat /\ avg[a] >= Scale * (Len(windows[a]) - 5)
    BY DEF TypeOK, AverageBound
  <2>3. Len(live) \in Nat /\ Len(live) <= Burst
    BY <2>1, <2>2 DEF LimiterAssumption, CheckPopping
  <2>4. avg[a] >= Scale * (Len(live) - 5)
    <3>1. Len(live) <= Len(windows[a])
      BY <2>1, <2>2, <2>3 DEF CheckPopping
    <3>2. \A m, n, x \in Nat : n <= m /\ x >= 10 * (m - 5) => x >= 10 * (n - 5)
      OBVIOUS
    <3>3. QED
      BY <2>2, <2>3, <3>1, <3>2 DEF Scale
  <2>5. mean \in Nat /\ mean >= Scale * (Len(live) - 4)
    BY <2>2, <2>3, <2>4, AverageType, AverageTrails
  <2>6. Recorded(live) \in Seq(0..MaxTime) /\ Len(Recorded(live)) <= Len(live) + 1
    BY <2>3, RecordedProperties DEF TypeOK
  <2>7. mean >= Scale * (Len(Recorded(live)) - 5)
    <3>1. Len(Recorded(live)) \in Nat
      BY <2>6
    <3> HIDE DEF mean
    <3>2. QED
      BY <2>3, <2>5, <2>6, <3>1 DEF Scale
  <2>8. ~IsSpike(mean, Len(live))
    <3> HIDE DEF mean
    <3>1. QED
      BY <2>3, <2>5 DEF IsSpike, Scale, SPIKE_MULTIPLIER, SPIKE_MIN_AVG_RPM
  <2>9. AverageBound'
    BY <2>1, <2>7 DEF TypeOK, AverageBound, CheckPopping
  <2>10. SpikeNeverRaised'
    BY <2>1, <2>8 DEF TypeOK, SpikeNeverRaised, CheckPopping
  <2>11. QED
    BY <2>9, <2>10
<1>2. ASSUME NEW a \in Agents, Reset(a)
      PROVE  AverageBound' /\ SpikeNeverRaised'
  BY <1>2 DEF TypeOK, Reset, AverageBound, SpikeNeverRaised, Scale
<1>3. CASE Tick
  BY <1>3 DEF Tick, AverageBound, SpikeNeverRaised
<1>4. CASE UNCHANGED vars
  BY <1>4 DEF vars, AverageBound, SpikeNeverRaised
<1>5. QED
  BY <1>1, <1>2, <1>3, <1>4 DEF Next

(* No sequence of calls makes check() return is_spike. *)
THEOREM SpikeIsDead == Spec => []SpikeNeverRaised
<1>1. Init => AverageBound /\ SpikeNeverRaised
  BY DEF Init, AverageBound, SpikeNeverRaised, Scale
<1>2. TypeOK /\ AverageBound /\ SpikeNeverRaised /\ [Next]_vars
        => (AverageBound /\ SpikeNeverRaised)'
  BY LimiterAssumption, SpikeStep
<1>3. QED
  BY <1>1, <1>2, TypeCorrect, PTL DEF Spec

-----------------------------------------------------------------------------
(* The cap.  WindowIsTail ties the deque to the admissions it stands for: what
   is not in the deque has expired, so a deque shorter than the cap leaves the
   Burst-th admission before the next one outside the window.  OrderOf, that
   admissions are recorded in the order of time, is needed for the refinement.
   The invariant is stated agent by agent: w is the tail of the log of a that is
   left when the first `gone` admissions are dropped. *)
IsTail(a, w, gone) ==
  /\ Len(log[a]) = gone + Len(w)
  /\ \A i \in 1..Len(w) : w[i] = log[a][gone + i]
  /\ \A i \in 1..gone : log[a][i] < now - Window

TailOf(a) == \E gone \in Nat : IsTail(a, windows[a], gone)

BoundOf(a) ==
  \A i \in 1..Len(log[a]) :
    i + Burst <= Len(log[a]) => log[a][i + Burst] - log[a][i] > Window

OrderOf(a) ==
  /\ \A i \in 1..Len(log[a]) : log[a][i] <= now
  /\ \A i, j \in 1..Len(log[a]) : i <= j => log[a][i] <= log[a][j]

CapInv == \A a \in Agents : TailOf(a) /\ BoundOf(a) /\ OrderOf(a)

\* The invariant contains the two properties of the limiter's cap.
LEMMA CapParts ==
  ASSUME TypeOK, CapInv
  PROVE  WindowIsTail /\ BurstBound
<1>1. BurstBound
  BY DEF CapInv, BoundOf, BurstBound
<1>2. ASSUME NEW a \in Agents
      PROVE  LET gone == Len(log[a]) - Len(windows[a]) IN
             /\ gone >= 0
             /\ \A i \in 1..Len(windows[a]) : windows[a][i] = log[a][gone + i]
             /\ \A i \in 1..gone : log[a][i] < now - Window
  <2>1. PICK gone \in Nat : IsTail(a, windows[a], gone)
    BY DEF CapInv, TailOf
  <2>2. Len(log[a]) \in Nat /\ Len(windows[a]) \in Nat
    BY DEF TypeOK
  <2>3. Len(log[a]) - Len(windows[a]) = gone
    BY <2>1, <2>2 DEF IsTail
  <2>4. QED
    BY <2>1, <2>3 DEF IsTail
<1>3. QED
  BY <1>1, <1>2 DEF WindowIsTail

\* What remains after the pops is still the tail of the log, and every admission
\* before it has expired.
LEMMA PoppedTail ==
  ASSUME LimiterAssumption, TypeOK, NEW a \in Agents, TailOf(a),
         NEW k \in 0..Len(windows[a]), NEW live \in Seq(0..MaxTime),
         CheckPopping(a, k, live)
  PROVE  \E gone \in Nat : IsTail(a, live, gone)
<1>1. /\ log[a] \in Seq(0..MaxTime) /\ windows[a] \in Seq(0..MaxTime)
      /\ Len(log[a]) \in Nat /\ Len(windows[a]) \in Nat /\ Len(live) \in Nat
  BY DEF TypeOK
<1>2. PICK old \in Nat : IsTail(a, windows[a], old)
  BY DEF TailOf
<1>3. PICK gone \in Nat : gone = old + k
  BY <1>1
<1>4. Len(windows[a]) = k + Len(live)
  BY <1>1 DEF CheckPopping
<1>5. Len(log[a]) = gone + Len(live)
  BY <1>1, <1>2, <1>3, <1>4 DEF IsTail
<1>6. ASSUME NEW i \in 1..Len(live)
      PROVE  live[i] = log[a][gone + i]
  <2>1. k + i \in 1..Len(windows[a]) /\ old + (k + i) = gone + i
    BY <1>1, <1>3, <1>4
  <2>2. live[i] = windows[a][k + i]
    BY DEF CheckPopping
  <2>3. QED
    BY <1>2, <2>1, <2>2 DEF IsTail
<1>7. ASSUME NEW i \in 1..gone
      PROVE  log[a][i] < now - Window
  <2>1. CASE i <= old
    <3>1. i \in 1..old
      BY <1>2, <1>3, <2>1
    <3>2. QED
      BY <1>2, <3>1 DEF IsTail
  <2>2. CASE i > old
    <3>1. PICK j \in 1..k : i = old + j
      <4>1. i - old \in 1..k /\ i = old + (i - old)
        BY <1>1, <1>2, <1>3, <2>2
      <4>2. QED
        BY <4>1
    <3>2. j \in 1..Len(windows[a])
      BY <1>1, <1>4
    <3>3. windows[a][j] = log[a][i] /\ windows[a][j] < now - Window
      BY <1>2, <3>1, <3>2 DEF IsTail, CheckPopping
    <3>4. QED
      BY <3>3
  <2>3. QED
    BY <1>3, <2>1, <2>2
<1>8. QED
  BY <1>5, <1>6, <1>7 DEF IsTail

\* One call of check() keeps the three parts for the agent it is made for.
LEMMA CheckKeepsCap ==
  ASSUME LimiterAssumption, TypeOK, NEW a \in Agents,
         TailOf(a), BoundOf(a), OrderOf(a), Check(a)
  PROVE  TailOf(a)' /\ BoundOf(a)' /\ OrderOf(a)'
<1>1. PICK k \in 0..Len(windows[a]), live \in Seq(0..MaxTime) :
        CheckPopping(a, k, live)
  BY CheckEffect
<1>2. PICK gone \in Nat :
        /\ Len(log[a]) = gone + Len(live)
        /\ \A i \in 1..Len(live) : live[i] = log[a][gone + i]
        /\ \A i \in 1..gone : log[a][i] < now - Window
  <2>1. \E gone \in Nat : IsTail(a, live, gone)
    BY <1>1, PoppedTail
  <2>2. QED
    BY <2>1 DEF IsTail
<1>3. /\ log[a] \in Seq(0..MaxTime) /\ now \in 0..MaxTime
      /\ Len(log[a]) \in Nat /\ Len(live) \in Nat
      /\ \A i \in 1..Len(log[a]) : log[a][i] \in 0..MaxTime
  BY DEF TypeOK
<1>4. /\ windows'[a] = Recorded(live)
      /\ log'[a] = IF IsBurst(Len(live)) THEN log[a] ELSE Append(log[a], now)
      /\ now' = now
  BY <1>1 DEF CheckPopping, TypeOK
<1>5. CASE IsBurst(Len(live))
  <2>1. windows'[a] = live /\ log'[a] = log[a]
    BY <1>4, <1>5 DEF Recorded
  <2>2. TailOf(a)'
    <3>1. IsTail(a, windows[a], gone)'
      BY <1>2, <1>4, <2>1 DEF IsTail
    <3>2. QED
      BY <3>1 DEF TailOf
  <2>3. BoundOf(a)' /\ OrderOf(a)'
    BY <1>4, <2>1 DEF BoundOf, OrderOf
  <2>4. QED
    BY <2>2, <2>3
<1>6. CASE ~IsBurst(Len(live))
  <2>1. windows'[a] = Append(live, now) /\ log'[a] = Append(log[a], now)
    BY <1>4, <1>6 DEF Recorded
  <2>2. /\ Len(windows'[a]) = Len(live) + 1
        /\ \A i \in 1..Len(live) : windows'[a][i] = live[i]
        /\ windows'[a][Len(live) + 1] = now
    BY <1>3, <2>1, AppendProperties
  <2>3. /\ Len(log'[a]) = Len(log[a]) + 1
        /\ \A i \in 1..Len(log[a]) : log'[a][i] = log[a][i]
        /\ log'[a][Len(log[a]) + 1] = now
    BY <1>3, <2>1, AppendProperties
  <2>4. Len(live) < Burst /\ Burst \in Nat
    BY <1>3, <1>6 DEF IsBurst, LimiterAssumption
  <2>5. /\ Len(log[a]) \in Nat /\ Len(live) \in Nat
        /\ Len(log[a]) = gone + Len(live)
    BY <1>2, <1>3
  <2>6. TailOf(a)'
    <3>1. Len(log'[a]) = gone + Len(windows'[a])
      BY <2>2, <2>3, <2>5
    <3>2. ASSUME NEW i \in 1..Len(windows'[a])
          PROVE  windows'[a][i] = log'[a][gone + i]
      <4>1. CASE i \in 1..Len(live)
        <5>1. gone + i \in 1..Len(log[a])
          BY <2>5, <4>1
        <5>2. QED
          BY <1>2, <2>2, <2>3, <4>1, <5>1
      <4>2. CASE i = Len(live) + 1
        <5>1. gone + i = Len(log[a]) + 1
          BY <2>5, <4>2
        <5>2. QED
          BY <2>2, <2>3, <4>2, <5>1
      <4>3. QED
        BY <2>2, <2>5, <4>1, <4>2
    <3>3. ASSUME NEW i \in 1..gone
          PROVE  log'[a][i] < now' - Window
      <4>1. i \in 1..Len(log[a])
        BY <2>5
      <4>2. QED
        BY <1>2, <1>4, <2>3, <4>1
    <3>4. QED
      BY <3>1, <3>2, <3>3 DEF TailOf, IsTail
  <2>7. BoundOf(a)'
    <3>1. SUFFICES ASSUME NEW i \in 1..Len(log'[a]), i + Burst <= Len(log'[a])
                   PROVE  log'[a][i + Burst] - log'[a][i] > Window
      BY DEF BoundOf
    <3>5. i \in Nat \ {0} /\ i + Burst <= Len(log[a]) + 1
      BY <2>3, <2>5, <3>1
    <3>2. CASE i + Burst <= Len(log[a])
      <4>1. i \in 1..Len(log[a]) /\ i + Burst \in 1..Len(log[a])
        BY <2>4, <2>5, <3>2, <3>5
      <4>2. QED
        BY <2>3, <3>2, <4>1 DEF BoundOf
    <3>3. CASE i + Burst = Len(log[a]) + 1
      <4>1. i \in 1..gone /\ i \in 1..Len(log[a])
        BY <2>4, <2>5, <3>3, <3>5
      <4>2. log[a][i] < now - Window /\ log[a][i] \in 0..MaxTime
        BY <1>2, <1>3, <4>1
      <4>3. log'[a][i] = log[a][i] /\ log'[a][i + Burst] = now
        BY <2>3, <3>3, <4>1
      <4>4. QED
        BY <1>3, <4>2, <4>3 DEF LimiterAssumption
    <3>6. i + Burst <= Len(log[a]) \/ i + Burst = Len(log[a]) + 1
      BY <2>4, <2>5, <3>5
    <3>4. QED
      BY <3>2, <3>3, <3>6
  <2>8. OrderOf(a)'
    <3>1. \A i \in 1..Len(log[a]) : log[a][i] <= now
      BY DEF OrderOf
    <3>2. ASSUME NEW i \in 1..Len(log'[a])
          PROVE  log'[a][i] <= now'
      <4>1. CASE i \in 1..Len(log[a])
        BY <1>4, <2>3, <3>1, <4>1
      <4>2. CASE i = Len(log[a]) + 1
        <5>1. log'[a][i] = now /\ now \in Nat
          BY <1>3, <2>3, <4>2 DEF LimiterAssumption
        <5>2. QED
          BY <1>4, <5>1
      <4>3. QED
        BY <2>3, <2>5, <4>1, <4>2
    <3>3. ASSUME NEW i \in 1..Len(log'[a]), NEW j \in 1..Len(log'[a]), i <= j
          PROVE  log'[a][i] <= log'[a][j]
      <4>1. CASE j \in 1..Len(log[a])
        <5>1. i \in 1..Len(log[a])
          BY <2>3, <2>5, <3>3, <4>1
        <5>2. QED
          BY <2>3, <3>3, <4>1, <5>1 DEF OrderOf
      <4>2. CASE j = Len(log[a]) + 1
        BY <1>4, <2>3, <3>2, <4>2
      <4>3. QED
        BY <2>3, <2>5, <3>3, <4>1, <4>2
    <3>4. QED
      BY <3>2, <3>3 DEF OrderOf
  <2>9. QED
    BY <2>6, <2>7, <2>8
<1>7. QED
  BY <1>5, <1>6

\* A step that touches neither the deque nor the log of b nor the clock.
LEMMA CapFrame ==
  ASSUME NEW b \in Agents, TailOf(b), BoundOf(b), OrderOf(b),
         windows'[b] = windows[b], log'[b] = log[b], now' = now
  PROVE  TailOf(b)' /\ BoundOf(b)' /\ OrderOf(b)'
<1>1. PICK gone \in Nat : IsTail(b, windows[b], gone)
  BY DEF TailOf
<1>2. TailOf(b)'
  BY <1>1 DEF TailOf, IsTail
<1>3. BoundOf(b)'
  BY DEF BoundOf
<1>4. OrderOf(b)'
  BY DEF OrderOf
<1>5. QED
  BY <1>2, <1>3, <1>4

\* The invariant is inductive.
LEMMA CapStep ==
  ASSUME LimiterAssumption, TypeOK, CapInv, [Next]_vars
  PROVE  CapInv'
<1>1. ASSUME NEW a \in Agents, Check(a)
      PROVE  CapInv'
  <2>1. ASSUME NEW b \in Agents
        PROVE  TailOf(b)' /\ BoundOf(b)' /\ OrderOf(b)'
    <3>1. CASE b = a
      BY <1>1, <3>1, CheckKeepsCap DEF CapInv
    <3>2. CASE b # a
      <4>1. PICK k \in 0..Len(windows[a]), live \in Seq(0..MaxTime) :
              CheckPopping(a, k, live)
        BY <1>1, CheckEffect
      <4>2. windows'[b] = windows[b] /\ log'[b] = log[b] /\ now' = now
        BY <3>2, <4>1 DEF CheckPopping, TypeOK
      <4>3. QED
        BY <4>2, CapFrame DEF CapInv
    <3>3. QED
      BY <3>1, <3>2
  <2>2. QED
    BY <2>1 DEF CapInv
<1>2. ASSUME NEW a \in Agents, Reset(a)
      PROVE  CapInv'
  <2>1. ASSUME NEW b \in Agents
        PROVE  TailOf(b)' /\ BoundOf(b)' /\ OrderOf(b)'
    <3>1. CASE b = a
      <4>1. windows'[b] = << >> /\ log'[b] = << >>
        BY <1>2, <3>1 DEF Reset, TypeOK
      <4>2. QED
        BY <4>1 DEF TailOf, IsTail, BoundOf, OrderOf
    <3>2. CASE b # a
      <4>1. windows'[b] = windows[b] /\ log'[b] = log[b] /\ now' = now
        BY <1>2, <3>2 DEF Reset, TypeOK
      <4>2. QED
        BY <4>1, CapFrame DEF CapInv
    <3>3. QED
      BY <3>1, <3>2
  <2>2. QED
    BY <2>1 DEF CapInv
<1>3. CASE Tick
  <2>1. ASSUME NEW b \in Agents
        PROVE  TailOf(b)' /\ BoundOf(b)' /\ OrderOf(b)'
    <3>1. /\ windows'[b] = windows[b] /\ log'[b] = log[b]
          /\ now' = now + 1 /\ now \in Nat
          /\ log[b] \in Seq(0..MaxTime)
      BY <1>3 DEF Tick, TypeOK, LimiterAssumption
    <3>2. \A i \in 1..Len(log[b]) : log[b][i] \in Nat
      BY <3>1 DEF LimiterAssumption
    <3>3. TailOf(b) /\ BoundOf(b) /\ OrderOf(b)
      BY DEF CapInv
    <3>4. TailOf(b)'
      <4>1. PICK gone \in Nat : IsTail(b, windows[b], gone)
        BY <3>3 DEF TailOf
      <4>2. \A i \in 1..gone : log[b][i] < (now + 1) - Window
        <5>1. SUFFICES ASSUME NEW i \in 1..gone
                       PROVE  log[b][i] < (now + 1) - Window
          OBVIOUS
        <5>2. log[b][i] < now - Window
          BY <4>1 DEF IsTail
        <5>3. Len(windows[b]) \in Nat /\ Len(log[b]) \in Nat
          BY DEF TypeOK
        <5>4. i \in 1..Len(log[b])
          BY <4>1, <5>3 DEF IsTail
        <5>5. QED
          BY <3>1, <3>2, <5>2, <5>4 DEF LimiterAssumption
      <4>3. QED
        BY <3>1, <4>1, <4>2 DEF TailOf, IsTail
    <3>5. BoundOf(b)'
      BY <3>1, <3>3 DEF BoundOf
    <3>6. OrderOf(b)'
      BY <3>1, <3>2, <3>3 DEF OrderOf
    <3>7. QED
      BY <3>4, <3>5, <3>6
  <2>2. QED
    BY <2>1 DEF CapInv
<1>4. CASE UNCHANGED vars
  BY <1>4, CapFrame DEF vars, CapInv
<1>5. QED
  BY <1>1, <1>2, <1>3, <1>4 DEF Next

\* The invariant holds throughout.
LEMMA CapInvariant == Spec => []CapInv
<1>1. Init => CapInv
  <2>1. SUFFICES ASSUME Init, NEW a \in Agents
                 PROVE  TailOf(a) /\ BoundOf(a) /\ OrderOf(a)
    BY DEF CapInv
  <2>2. windows[a] = << >> /\ log[a] = << >>
    BY <2>1 DEF Init
  <2>3. QED
    BY <2>2 DEF TailOf, IsTail, BoundOf, OrderOf
<1>2. TypeOK /\ CapInv /\ [Next]_vars => CapInv'
  BY LimiterAssumption, CapStep
<1>3. QED
  BY <1>1, <1>2, TypeCorrect, PTL DEF Spec

(* Burst + 1 admissions of one agent never fit in a window, wherever the window
   is placed in time. *)
THEOREM CapHolds == Spec => []BurstBound
<1>1. TypeOK /\ CapInv => BurstBound
  BY CapParts
<1>2. QED
  BY <1>1, TypeCorrect, CapInvariant, PTL

(* The deque is the tail of the admission history, the rest has expired. *)
THEOREM TailHolds == Spec => []WindowIsTail
<1>1. TypeOK /\ CapInv => WindowIsTail
  BY CapParts
<1>2. QED
  BY <1>1, TypeCorrect, CapInvariant, PTL

-----------------------------------------------------------------------------
(* The refinement: the admissions that count, which SlidingWindow finds in the
   whole history, are as many as the pruned deque has elements. *)
\* The instance brings its own copy of Cardinality, with the same definition.
LEMMA SameCardinality ==
  ASSUME NEW S
  PROVE  Promise!Cardinality(S) = Cardinality(S)
BY DEF Promise!Cardinality, Cardinality

LEMMA LiveIsRecent ==
  ASSUME LimiterAssumption, TypeOK, NEW a \in Agents, TailOf(a), OrderOf(a),
         NEW k \in 0..Len(windows[a]), NEW live \in Seq(0..MaxTime),
         CheckPopping(a, k, live)
  PROVE  Promise!Cardinality(Promise!Recent(a)) = Len(live)
<1>1. PICK gone \in Nat : IsTail(a, live, gone)
  BY PoppedTail
<1>2. /\ Len(log[a]) \in Nat /\ Len(live) \in Nat
      /\ log[a] \in Seq(0..MaxTime) /\ now \in Nat /\ Window \in Nat
      /\ \A i \in 1..Len(log[a]) : log[a][i] \in Nat
  BY DEF TypeOK, LimiterAssumption
<1>3. Len(log[a]) = gone + Len(live)
  BY <1>1 DEF IsTail
<1>4. Promise!Recent(a) = {i \in 1..Len(log[a]) : log[a][i] >= now - Window}
  BY DEF Promise!Recent
<1>5. ASSUME NEW i \in 1..Len(log[a]), i <= gone
      PROVE  ~(log[a][i] >= now - Window)
  <2>1. log[a][i] < now - Window /\ log[a][i] \in Nat
    BY <1>1, <1>2, <1>5 DEF IsTail
  <2>2. QED
    BY <1>2, <2>1
<1>6. ASSUME NEW i \in 1..Len(log[a]), i > gone
      PROVE  log[a][i] >= now - Window
  <2>1. Len(live) > 0 /\ gone + 1 \in 1..Len(log[a]) /\ gone + 1 <= i
    BY <1>2, <1>3, <1>6
  <2>2. live[1] >= now - Window /\ live[1] = log[a][gone + 1]
    <3>1. live[1] >= now - Window
      BY <2>1 DEF CheckPopping
    <3>2. 1 \in 1..Len(live)
      BY <1>2, <2>1
    <3>3. live[1] = log[a][gone + 1]
      BY <1>1, <3>2 DEF IsTail
    <3>4. QED
      BY <3>1, <3>3
  <2>3. log[a][gone + 1] <= log[a][i]
    BY <2>1, <1>6 DEF OrderOf
  <2>4. log[a][gone + 1] \in Nat /\ log[a][i] \in Nat /\ now - Window \in Int
    BY <1>2, <2>1
  <2>5. log[a][gone + 1] >= now - Window
    BY <2>2
  <2>6. \A x, y \in Nat, z \in Int : x <= y /\ x >= z => y >= z
    OBVIOUS
  <2>7. QED
    BY <2>3, <2>4, <2>5, <2>6, Zenon
<1>7. Promise!Recent(a) = (gone + 1)..(gone + Len(live))
  <2>1. PICK n \in Nat, m \in Nat : n = Len(live) /\ m = Len(log[a])
    BY <1>2
  <2>2. m = gone + n
    BY <1>3, <2>1
  <2>3. ASSUME NEW i \in 1..m
        PROVE  log[a][i] >= now - Window <=> i \in (gone + 1)..(gone + n)
    <3>1. i <= gone \/ i > gone
      OBVIOUS
    <3>2. i \in 1..Len(log[a])
      BY <2>1
    <3>3. log[a][i] >= now - Window <=> i > gone
      BY <1>5, <1>6, <3>1, <3>2
    <3>4. QED
      BY <2>2, <3>3
  <2>4. (gone + 1)..(gone + n) \subseteq 1..m
    BY <2>2
  <2>5. Promise!Recent(a) = {i \in 1..m : log[a][i] >= now - Window}
    BY <1>4, <2>1
  <2>6. QED
    BY <2>1, <2>3, <2>4, <2>5
<1>8. Cardinality((gone + 1)..(gone + Len(live))) = Len(live)
  <2>1. PICK n \in Nat : n = Len(live)
    BY <1>2
  <2>2. Cardinality((gone + 1)..(gone + n))
          = IF gone + 1 > gone + n THEN 0 ELSE (gone + n) - (gone + 1) + 1
    BY FS_Interval
  <2>3. QED
    BY <2>1, <2>2
<1>9. QED
  BY <1>7, <1>8, SameCardinality

\* Every step of the limiter is a step of SlidingWindow or leaves its variables.
LEMMA RefinementStep ==
  ASSUME LimiterAssumption, TypeOK, CapInv, [Next]_vars
  PROVE  [Promise!Next]_(Promise!vars)
<1>1. ASSUME NEW a \in Agents, Check(a)
      PROVE  Promise!Admit(a) \/ Promise!Reject(a)
  <2>1. PICK k \in 0..Len(windows[a]), live \in Seq(0..MaxTime) :
          CheckPopping(a, k, live)
    BY <1>1, CheckEffect
  <2>2. Promise!Cardinality(Promise!Recent(a)) = Len(live) /\ Len(live) \in Nat
    BY <2>1, LiveIsRecent DEF CapInv
  <2>3. CASE IsBurst(Len(live))
    <3>1. Promise!Cardinality(Promise!Recent(a)) >= Burst
      BY <2>2, <2>3 DEF IsBurst
    <3>2. verdict' = [verdict EXCEPT ![a] = "rejected"] /\ now' = now
      BY <2>1, <2>3 DEF CheckPopping
    <3>3. log' = log
      BY <2>1, <2>3 DEF CheckPopping, TypeOK
    <3>4. QED
      BY <3>1, <3>2, <3>3 DEF Promise!Reject
  <2>4. CASE ~IsBurst(Len(live))
    <3>1. Promise!Cardinality(Promise!Recent(a)) < Burst
      BY <2>2, <2>4 DEF IsBurst, LimiterAssumption
    <3>2. /\ verdict' = [verdict EXCEPT ![a] = "admitted"]
          /\ log' = [log EXCEPT ![a] = Append(log[a], now)]
          /\ now' = now
      BY <2>1, <2>4 DEF CheckPopping
    <3>3. QED
      BY <3>1, <3>2 DEF Promise!Admit
  <2>5. QED
    BY <2>3, <2>4
<1>2. ASSUME NEW a \in Agents, Reset(a)
      PROVE  Promise!Forget(a)
  BY <1>2 DEF Reset, Promise!Forget
<1>3. CASE Tick
  BY <1>3 DEF Tick, Promise!Next, Promise!Tick
<1>4. CASE UNCHANGED vars
  BY <1>4 DEF vars, Promise!vars
<1>5. QED
  BY <1>1, <1>2, <1>3, <1>4 DEF Next, Promise!Next

(* The limiter that prunes its deque and keeps an average decides, call by call,
   as the limiter that remembers every admission. *)
THEOREM LimiterImplementsSlidingWindow == Spec => ImplementsSlidingWindow
<1>1. Init => Promise!Init
  BY DEF Init, Promise!Init
<1>2. TypeOK /\ CapInv /\ [Next]_vars => [Promise!Next]_(Promise!vars)
  BY LimiterAssumption, RefinementStep
<1>3. QED
  BY <1>1, <1>2, TypeCorrect, CapInvariant, PTL
     DEF Spec, Promise!Spec, ImplementsSlidingWindow
=============================================================================

----------------------------- MODULE RateLimiter -----------------------------
(***************************************************************************)
(* AgentRateLimiter (behavry_proxy/proxy/rate_limiter.py): one deque of     *)
(* admission times and one rolling average per agent.  check() never        *)
(* suspends, so it is one action.                                           *)
(*                                                                         *)
(* The average is a float in the code and a fixed-point number here, in     *)
(* units of 1/Scale, rounded up so that, as with the float, an average that *)
(* was positive stays positive.  `log` is a history variable: every         *)
(* admission since the agent's state was last cleared.                      *)
(***************************************************************************)
EXTENDS Integers, Sequences, FiniteSets

CONSTANTS
  Agents,     \* values of the x-agent-id header
  Burst,      \* rate_limit_burst
  Window,     \* WINDOW_SECONDS, in ticks
  MaxTime     \* bound of the model: the clock stops here

ASSUME LimiterAssumption ==
  /\ Burst \in Nat
  /\ Window \in Nat
  /\ MaxTime \in Nat

Scale == 10
SPIKE_MULTIPLIER == 3
SPIKE_MIN_AVG_RPM == 5

VARIABLES
  now,        \* time.monotonic()
  windows,    \* windows[a]: _windows, the empty deque also for an unknown agent
  avg,        \* avg[a]: _avg_rpm, 0 also for an unknown agent
  log,        \* history of admissions
  verdict,    \* verdict[a]: RateLimitResult.allowed of the last check
  spike       \* spike[a]: RateLimitResult.is_spike of the last check

vars == <<now, windows, avg, log, verdict, spike>>

Init ==
  /\ now = 0
  /\ windows = [a \in Agents |-> << >>]
  /\ avg = [a \in Agents |-> 0]
  /\ log = [a \in Agents |-> << >>]
  /\ verdict = [a \in Agents |-> "none"]
  /\ spike = [a \in Agents |-> FALSE]

-----------------------------------------------------------------------------
\* Slips the properties must catch: popping at the cutoff itself, admitting one
\* request too many.
PopAtCutoff(t) == t <= now - Window
BurstOffByOne(rpm) == rpm > Burst

\* `window[0] < cutoff` with cutoff = now - WINDOW_SECONDS
IsExpired(t) == t < now - Window

\* The number of heads that `while window and window[0] < cutoff` pops.
PopCounts(w) ==
  {k \in 0..Len(w) : /\ \A i \in 1..k : IsExpired(w[i])
                     /\ k < Len(w) => ~IsExpired(w[k + 1])}

\* The exponentially weighted average, EWA_ALPHA = 1/5.
NextAvg(mean, rpm) ==
  IF mean = 0 THEN rpm * Scale ELSE (rpm * Scale + 4 * mean + 4) \div 5

IsBurst(rpm) == rpm >= Burst

IsSpike(mean, rpm) ==
  /\ mean >= SPIKE_MIN_AVG_RPM * Scale
  /\ rpm * Scale > SPIKE_MULTIPLIER * mean

\* The deque after the call: the request is recorded only when admitted.
Recorded(live) == IF IsBurst(Len(live)) THEN live ELSE Append(live, now)

Check(a) ==
  \E k \in PopCounts(windows[a]) :
    LET live == SubSeq(windows[a], k + 1, Len(windows[a]))
        rpm  == Len(live)
        mean == NextAvg(avg[a], rpm)
    IN  /\ windows' = [windows EXCEPT ![a] = Recorded(live)]
        /\ avg' = [avg EXCEPT ![a] = mean]
        /\ spike' = [spike EXCEPT ![a] = IsSpike(mean, rpm)]
        /\ verdict' = [verdict EXCEPT ![a] = IF IsBurst(rpm) THEN "rejected"
                                                             ELSE "admitted"]
        /\ log' = [log EXCEPT ![a] = IF IsBurst(rpm) THEN @
                                                     ELSE Append(@, now)]
        /\ UNCHANGED now

\* reset(): also what a restart of the process does to every agent.
Reset(a) ==
  /\ windows' = [windows EXCEPT ![a] = << >>]
  /\ avg' = [avg EXCEPT ![a] = 0]
  /\ log' = [log EXCEPT ![a] = << >>]
  /\ verdict' = [verdict EXCEPT ![a] = "none"]
  /\ spike' = [spike EXCEPT ![a] = FALSE]
  /\ UNCHANGED now

Tick ==
  /\ now < MaxTime
  /\ now' = now + 1
  /\ UNCHANGED <<windows, avg, log, verdict, spike>>

Next ==
  \/ \E a \in Agents : Check(a) \/ Reset(a)
  \/ Tick

Spec == Init /\ [][Next]_vars

-----------------------------------------------------------------------------
\* Every variable has its type; the deque never outgrows the cap.
TypeOK ==
  /\ now \in 0..MaxTime
  /\ windows \in [Agents -> Seq(0..MaxTime)]
  /\ avg \in [Agents -> Nat]
  /\ log \in [Agents -> Seq(0..MaxTime)]
  /\ verdict \in [Agents -> {"none", "admitted", "rejected"}]
  /\ spike \in [Agents -> BOOLEAN]
  /\ \A a \in Agents : Len(windows[a]) <= Burst

\* The cap holds over every stretch of time, not only over the stretches that
\* end at a request: Burst + 1 admissions of one agent never fit in a window.
BurstBound ==
  \A a \in Agents : \A i \in 1..Len(log[a]) :
    i + Burst <= Len(log[a]) => log[a][i + Burst] - log[a][i] > Window

\* The deque is the tail of the admission history and nothing that could still
\* count was popped from it.
WindowIsTail ==
  \A a \in Agents :
    LET gone == Len(log[a]) - Len(windows[a]) IN
    /\ gone >= 0
    /\ \A i \in 1..Len(windows[a]) : windows[a][i] = log[a][gone + i]
    /\ \A i \in 1..gone : log[a][i] < now - Window

\* The limiter with its pruned deque decides as a limiter that kept the whole
\* admission history would.
Promise == INSTANCE SlidingWindow WITH now <- now, log <- log, verdict <- verdict
ImplementsSlidingWindow == Promise!Spec

-----------------------------------------------------------------------------
(* What the documents say of spikes; the code does not keep it. *)

\* The admissions in the window that ends at time t.
Held(a, t) == Cardinality({i \in 1..Len(log[a]) : log[a][i] \in (t - Window)..t})

\* The last check of a saw a count above SPIKE_MULTIPLIER times that of every
\* whole window that had ended before the current one began, and none of those
\* was below SPIKE_MIN_AVG_RPM: whatever average of them is taken for the
\* baseline, the count is a spike.
Surge(a) ==
  /\ verdict[a] = "admitted"
  /\ LET seen  == Len(windows[a]) - 1
         ended == Window..(log[a][Len(log[a])] - Window - 1)
     IN  /\ ended # {}
         /\ \A t \in ended : /\ Held(a, t) >= SPIKE_MIN_AVG_RPM
                             /\ seen > SPIKE_MULTIPLIER * Held(a, t)

\* "Spike detection: current_rpm > 3x rolling average AND baseline > MIN_RPM"
\* (the limiter's module docstring) and "3x baseline = anomaly": check() reports
\* is_spike for a surge.
SpikeDetected == \A a \in Agents : Surge(a) => spike[a]
=============================================================================

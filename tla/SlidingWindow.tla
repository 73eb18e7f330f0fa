---------------------------- MODULE SlidingWindow ----------------------------
(***************************************************************************)
(* What the per-agent rate limiter promises, with no window data structure  *)
(* and no rolling average: a request of an agent is admitted exactly when   *)
(* fewer than Burst requests of that agent were admitted during the last    *)
(* Window ticks, both ends included.  RateLimiter implements it with a      *)
(* deque per agent (behavry_proxy/proxy/rate_limiter.py).                   *)
(***************************************************************************)
EXTENDS Integers, Sequences, FiniteSets

CONSTANTS
  Agents,     \* values of the x-agent-id header
  Burst,      \* rate_limit_burst, the hard cap
  Window,     \* WINDOW_SECONDS, in ticks
  MaxTime     \* bound of the model: the clock stops here

VARIABLES
  now,        \* time.monotonic()
  log,        \* log[a]: the times at which a request of a was admitted
  verdict     \* verdict[a]: how the last request of a was answered

vars == <<now, log, verdict>>

Init ==
  /\ now = 0
  /\ log = [a \in Agents |-> << >>]
  /\ verdict = [a \in Agents |-> "none"]

\* The admissions of a that still count against its cap.
Recent(a) == {i \in 1..Len(log[a]) : log[a][i] >= now - Window}

Admit(a) ==
  /\ Cardinality(Recent(a)) < Burst
  /\ log' = [log EXCEPT ![a] = Append(@, now)]
  /\ verdict' = [verdict EXCEPT ![a] = "admitted"]
  /\ UNCHANGED now

Reject(a) ==
  /\ Cardinality(Recent(a)) >= Burst
  /\ verdict' = [verdict EXCEPT ![a] = "rejected"]
  /\ UNCHANGED <<now, log>>

Forget(a) ==
  /\ log' = [log EXCEPT ![a] = << >>]
  /\ verdict' = [verdict EXCEPT ![a] = "none"]
  /\ UNCHANGED now

Tick ==
  /\ now < MaxTime
  /\ now' = now + 1
  /\ UNCHANGED <<log, verdict>>

Next ==
  \/ \E a \in Agents : Admit(a) \/ Reject(a) \/ Forget(a)
  \/ Tick

Spec == Init /\ [][Next]_vars
=============================================================================

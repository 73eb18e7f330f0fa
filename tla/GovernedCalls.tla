---------------------------- MODULE GovernedCalls ----------------------------
(***************************************************************************)
(* What the proxy promises about a set of requests, with no OPA, retry,     *)
(* scanner, counter or order of writes.  A request is decided upon once; it *)
(* runs at most once, and a tool call never before it was decided upon; it  *)
(* is answered once.  A tool call that ran is not called refused, and what  *)
(* it brought is handed out only when its record is in the audit log.       *)
(* Pipeline implements it.                                                  *)
(***************************************************************************)
CONSTANT Requests

VARIABLES
  kind,     \* kind[r]: tool, other, or none before the request was accepted
  phase,    \* phase[r]: new, deciding, running, answered
  told,     \* told[r]: nothing, refusal, error, content
  recorded  \* requests with their final event on every output of the audit log

vars == <<kind, phase, told, recorded>>

Init ==
  /\ kind = [r \in Requests |-> "none"]
  /\ phase = [r \in Requests |-> "new"]
  /\ told = [r \in Requests |-> "nothing"]
  /\ recorded = {}

Move(r, to) == phase' = [phase EXCEPT ![r] = to]
Tell(r, what) == Move(r, "answered") /\ told' = [told EXCEPT ![r] = what]

Accept(r, k) == phase[r] = "new" /\ kind' = [kind EXCEPT ![r] = k]

\* Not accepted at all.
Reject(r) == phase[r] = "new" /\ Tell(r, "error") /\ UNCHANGED <<kind, recorded>>

\* Accepted, and refused, found unfit or passed to the place where it goes on.
Begin(r) ==
  /\ \/ Accept(r, "tool") /\ Move(r, "deciding") /\ UNCHANGED told
     \/ Accept(r, "other") /\ Move(r, "running") /\ UNCHANGED told
     \/ \E k \in {"tool", "other"}, what \in {"refusal", "error"} :
          Accept(r, k) /\ Tell(r, what)
  /\ UNCHANGED recorded

\* A tool call that was decided upon: it runs, or is over without having run.
Decide(r) ==
  /\ phase[r] = "deciding"
  /\ \/ Move(r, "running") /\ UNCHANGED told
     \/ Tell(r, "refusal") \/ Tell(r, "error")
  /\ UNCHANGED <<kind, recorded>>

Answer(r) ==
  /\ phase[r] = "running"
  /\ recorded' \in {recorded, recorded \cup {r}}
  /\ \/ Tell(r, "content") /\ (kind[r] = "tool" => r \in recorded')
     \/ Tell(r, "error")
     \/ Tell(r, "refusal") /\ kind[r] = "other"
  /\ UNCHANGED kind

Next == \E r \in Requests : Reject(r) \/ Begin(r) \/ Decide(r) \/ Answer(r)

Spec == Init /\ [][Next]_vars

\* A request that was accepted is decided upon and answered.
InTime(r) == WF_vars(Decide(r)) /\ WF_vars(Answer(r))
=============================================================================

---------------------------- MODULE ProxyWithStdio ----------------------------
(***************************************************************************)
(* The pipeline in front of one stdio server: Pipeline and StdioBackend     *)
(* composed.  Where Pipeline waits for a backend, the request is a call of  *)
(* forward(), and what it gets is what that call returned.                  *)
(*                                                                         *)
(* The segment that hands a request over is one step of both, because       *)
(* neither get_backend() nor the way to the lock suspends.  The end of      *)
(* forward() and what the pipeline does next are two steps here and one in  *)
(* the code: other tasks may run in between, which allows more orders.      *)
(***************************************************************************)
EXTENDS Pipeline

CONSTANTS
  OpaAnswers,  \* bound of the model: what asking OPA once may bring
  ChildAnswers, \* bound of the model: what the answer of a child may be
  Ids, IdOf, NoId, Server, Nobody, ServerIds,
  MaxStarts, MaxChatter, FatalLines, PipeRoom, HighWater, LowWater

VARIABLES
  task,     \* pc of the call of forward()
  lock, lockq, current, child, reader, via, buffer, paused, stdin, work, stdout,
  chatter, pending, future, result, answer, lost, closed

S == INSTANCE StdioBackend WITH Calls <- Requests, pc <- task

ASSUME ProxyAssumption == S!StdioAssumption /\ ChildAnswers \subseteq Replies

backendVars == <<task, lock, lockq, current, child, reader, via, buffer, paused, stdin,
                 work, stdout, chatter, pending, future, result, answer, lost, closed>>
allVars == <<vars, backendVars>>

ProxyInit == Init /\ S!Init

Running == {"passing", "unknown", "forward"}

-----------------------------------------------------------------------------
Tried(r) == \A i \in 1..Len(asked'[r]) : asked'[r][i] \in OpaAnswers

\* A segment of the pipeline that asks no backend.  The server takes no request
\* once the shutdown has begun.
Enforce(r) ==
  /\ pc[r] = "idle" => ~closed
  /\ Begin(r) \/ Continue(r)
  /\ Tried(r)
  /\ pc[r] \notin Running /\ pc'[r] \notin Running
  /\ UNCHANGED backendVars

\* A segment that ends in backend.forward(request).
Hand(r) ==
  /\ pc[r] \notin Running
  /\ Begin(r) \/ Decides(r)
  /\ Tried(r)
  /\ pc'[r] \in Running
  /\ S!Enter(r) \/ S!Queue(r)

\* What forward() returns has a result only if the child sent one: a notification
\* gets an empty one, a failure an error.
Results(r) == IF answer[r] = "response" THEN ChildAnswers ELSE {NoReply}

Deliver(r) ==
  /\ pc[r] \in Running /\ task[r] = "done"
  /\ EndPassthrough(r) \/ EndUnknown(r) \/ EndToolCall(r)
  /\ reply'[r] \in Results(r)
  /\ UNCHANGED backendVars

Backend(step) == step /\ UNCHANGED vars

CallStep(r) == Backend(S!CallStep(r))
TimerFires(r) == Backend(S!TimerFires(r))
ReaderStep(g) == Backend(S!ReaderStep(g))
Flush(g) == Backend(S!Flush(g))
Reap(g) == Backend(S!Reap(g))
ChildStep(g) == Backend(S!ChildStep(g))

\* close_all(): the server has finished its requests.
Close ==
  /\ \A r \in Requests : pc[r] \in {"idle", "done"}
  /\ Backend(S!Close)

ProxyNext ==
  \/ \E r \in Requests :
       Enforce(r) \/ Hand(r) \/ Deliver(r) \/ CallStep(r) \/ TimerFires(r)
  \/ \E g \in S!Children : ReaderStep(g) \/ Flush(g) \/ Reap(g) \/ ChildStep(g)
  \/ Close

ProxySpec == ProxyInit /\ [][ProxyNext]_allVars

\* What the two assume of OPA and of asyncio, and nothing of the child.
ProxyFairness ==
  /\ \A r \in Requests :
       /\ WF_allVars(pc[r] # "idle" /\ (Enforce(r) \/ Hand(r)))
       /\ WF_allVars(Deliver(r)) /\ WF_allVars(CallStep(r)) /\ WF_allVars(TimerFires(r))
  /\ \A g \in S!Children :
       WF_allVars(ReaderStep(g)) /\ WF_allVars(Flush(g)) /\ WF_allVars(Reap(g))

ProxyFairSpec == ProxySpec /\ ProxyFairness

-----------------------------------------------------------------------------
(* Properties *)
\* The tool's side of a refusal: no line of a tool call that was denied or
\* escalated was ever written to a child, over failures, restarts and timeouts.
RefusedNeverSent ==
  \A r \in Requests :
    IsToolCall(req[r].method) /\ http[r].policy \in {"deny", "escalate"} => via[r] = 0

\* The auditor's side of a call: whatever a child may have executed is in the log
\* by the time the client hears of it, also when the child died or the call timed
\* out, as long as the log can be written.
SentIsRecorded ==
  \A r \in Requests :
    IsToolCall(req[r].method) /\ via[r] # 0 /\ pc[r] = "done" => Recorded(r, "tool_call")

\* A result that an agent gets is the one its own request brought.
ResultIsOwn ==
  \A r \in Requests : reply[r].result => answer[r] = "response" /\ result[r] = r

\* After the shutdown nothing is left behind: no child, no reader, no entry in the
\* table, no request that was accepted and not answered.
ShutdownIsClean ==
  closed =>
    /\ \A g \in S!Children : child[g] # "alive" /\ reader[g] # "running"
    /\ \A i \in Ids : pending[i] = Nobody
    /\ \A r \in Requests : pc[r] \in {"idle", "done"}

\* A child that lives and stops reading keeps the calls that drain() suspended for
\* ever: forward() has no time limit before it waits for the answer.
Served(r) == []<>~S!HeldByChild(r)

\* The pipeline over a stdio server behaves like the pipeline.  What Pipeline assumes
\* of a backend, that it answers, is true of every request but one that drain()
\* suspends for ever, whatever becomes of the others, of the child and of its lines.
ImplementsPipeline ==
  Spec /\ \A r \in Requests : Served(r) => WF_vars(Continue(r))

\* So the promise of GovernedCalls is kept in time, over the retry of OPA, crashes
\* and timeouts: a request that was accepted is answered, unless drain() holds it.
KeepsPromiseInTime ==
  \A r \in Requests : Served(r) => Promise!InTime(r)
=============================================================================

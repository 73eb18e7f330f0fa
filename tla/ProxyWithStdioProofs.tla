------------------------- MODULE ProxyWithStdioProofs -------------------------
(***************************************************************************)
(* Proofs about the pipeline in front of a stdio server, for any requests,  *)
(* configuration, ids and children.  They rest on the invariants of the two *)
(* parts, as PipelineProofs and StdioBackendProofs have them, and on one    *)
(* that couples the task of a request to its call of forward().             *)
(***************************************************************************)
EXTENDS ProxyWithStdio, PipelineProofs

SP == INSTANCE StdioBackendProofs WITH Calls <- Requests, pc <- task

-----------------------------------------------------------------------------
(* Every step of the whole is a step of the part or leaves the part alone. *)

LEMMA BackendAssumption == SP!StdioAssumption
BY ProxyAssumption DEF S!StdioAssumption, SP!StdioAssumption

LEMMA BackendInit == S!Init => SP!Init
BY DEF S!Init, SP!Init, S!Children, SP!Children

LEMMA BackendEnters ==
  ASSUME NEW r
  PROVE  S!Enter(r) \/ S!Queue(r) => SP!Enter(r) \/ SP!Queue(r)
<1>1. S!Enter(r) => SP!Enter(r)
  BY DEF S!Enter, SP!Enter, S!LockFree, SP!LockFree, S!WithLock, SP!WithLock,
         S!NeedsStart, SP!NeedsStart, S!Send, SP!Send, S!Return, SP!Return, S!Write,
         SP!Write, S!Register, SP!Register, S!childVars, SP!childVars, S!procVars,
         SP!procVars, S!histVars, SP!histVars
<1>2. S!Queue(r) => SP!Queue(r)
  BY DEF S!Queue, SP!Queue, S!LockFree, SP!LockFree, S!childVars, SP!childVars,
         S!procVars, SP!procVars, S!histVars, SP!histVars
<1> QED BY <1>1, <1>2

LEMMA BackendCalls ==
  ASSUME NEW r
  PROVE  /\ S!CallStep(r) => SP!CallStep(r)
         /\ S!TimerFires(r) => SP!TimerFires(r)
<1>1. S!Wake(r) => SP!Wake(r)
  BY DEF S!Wake, SP!Wake, S!WithLock, SP!WithLock, S!NeedsStart, SP!NeedsStart,
         S!Send, SP!Send, S!Return, SP!Return, S!Write, SP!Write, S!Register,
         SP!Register, S!childVars, SP!childVars, S!procVars, SP!procVars, S!histVars,
         SP!histVars
<1>2. S!Started(r) => SP!Started(r)
  BY DEF S!Started, SP!Started, S!ReadersAfterStart, SP!ReadersAfterStart, S!Children,
         SP!Children, S!Send, SP!Send, S!Return, SP!Return, S!Write, SP!Write,
         S!Register, SP!Register, S!histVars, SP!histVars
<1>3. S!StartFails(r) => SP!StartFails(r)
  BY DEF S!StartFails, SP!StartFails, S!Return, SP!Return, S!LockAfterError,
         SP!LockAfterError, S!childVars, SP!childVars, S!procVars, SP!procVars,
         S!histVars, SP!histVars
<1>4. S!Drained(r) \/ S!DrainBroken(r) => SP!Drained(r) \/ SP!DrainBroken(r)
  BY DEF S!Drained, SP!Drained, S!DrainBroken, SP!DrainBroken, S!IsResumed,
         SP!IsResumed, S!Return, SP!Return, S!Register, SP!Register, S!lockVars,
         SP!lockVars, S!childVars, SP!childVars, S!procVars, SP!procVars, S!histVars,
         SP!histVars
<1>5. S!Collect(r) => SP!Collect(r)
  BY DEF S!Collect, SP!Collect, S!Return, SP!Return, S!Forget, SP!Forget, S!lockVars,
         SP!lockVars, S!childVars, SP!childVars, S!procVars, SP!procVars, S!histVars,
         SP!histVars
<1>6. S!TimerFires(r) => SP!TimerFires(r)
  BY DEF S!TimerFires, SP!TimerFires, S!lockVars, SP!lockVars, S!childVars,
         SP!childVars, S!histVars, SP!histVars
<1> QED BY <1>1, <1>2, <1>3, <1>4, <1>5, <1>6 DEF S!CallStep, SP!CallStep

LEMMA BackendChildren ==
  ASSUME NEW g
  PROVE  /\ S!ReaderStep(g) => SP!ReaderStep(g)
         /\ S!Flush(g) => SP!Flush(g)
         /\ S!Reap(g) => SP!Reap(g)
         /\ S!ChildStep(g) => SP!ChildStep(g)
<1> USE DEF S!callVars, SP!callVars, S!lockVars, SP!lockVars, S!childVars, SP!childVars,
            S!procVars, SP!procVars, S!histVars, SP!histVars, S!Children, SP!Children,
            S!ChildOnly, SP!ChildOnly, S!PutLine, SP!PutLine, S!Message, SP!Message,
            S!FatalLine, SP!FatalLine, S!MayRead, SP!MayRead, S!IsResumed, SP!IsResumed
<1>1. S!ReadMessage(g) => SP!ReadMessage(g)
  BY DEF S!ReadMessage, SP!ReadMessage, S!Resolve, SP!Resolve, S!Addressee,
         SP!Addressee, S!CountsOnAnswer, SP!CountsOnAnswer
<1>2. S!ReadFatal(g) => SP!ReadFatal(g)
  BY DEF S!ReadFatal, SP!ReadFatal, S!FuturesFailed, SP!FuturesFailed
<1>3. S!ReadEnd(g) => SP!ReadEnd(g)
  BY DEF S!ReadEnd, SP!ReadEnd
<1>4. S!Flush(g) => SP!Flush(g)
  BY DEF S!Flush, SP!Flush
<1>5. S!Reap(g) => SP!Reap(g)
  BY DEF S!Reap, SP!Reap
<1>6. S!TakeLine(g) => SP!TakeLine(g)
  BY DEF S!TakeLine, SP!TakeLine
<1>7. \A c : S!Respond(g, c) => SP!Respond(g, c)
  BY DEF S!Respond, SP!Respond
<1>8. S!Chatter(g) => SP!Chatter(g)
  BY DEF S!Chatter, SP!Chatter
<1>9. S!Die(g) => SP!Die(g)
  BY DEF S!Die, SP!Die
<1> QED BY <1>1, <1>2, <1>3, <1>4, <1>5, <1>6, <1>7, <1>8, <1>9
        DEF S!ReaderStep, SP!ReaderStep, S!ChildStep, SP!ChildStep

LEMMA BackendCloses == S!Close => SP!Close
BY DEF S!Close, SP!Close, S!callVars, SP!callVars, S!lockVars, SP!lockVars,
       S!childVars, SP!childVars, S!Children, SP!Children

LEMMA BackendRests == UNCHANGED backendVars => UNCHANGED SP!vars
BY DEF backendVars, SP!vars, SP!callVars, SP!lockVars, SP!childVars, SP!procVars,
       SP!histVars

-----------------------------------------------------------------------------
(* When the pipeline hands a request over, and when it takes an answer. *)

LEMMA ForwardRuns ==
  ASSUME TasksOK, NEW r \in Requests, NEW known \in BOOLEAN, NEW where \in Running,
         NEW failure, Forward(r, known, where, failure)
  PROVE  ran'[r] <=> pc'[r] \in Running
<1>1. CASE known
  BY <1>1 DEF Forward, Suspend, TasksOK, Running
<1>2. CASE ~known
  BY <1>2, FinishLocal DEF Forward, TasksOK, Running
<1> QED BY <1>1, <1>2

LEMMA RunSteps ==
  ASSUME TasksOK, NEW r \in Requests, Begin(r) \/ Continue(r)
  PROVE  /\ pc[r] # "done"
         /\ pc[r] \in Running => ran'[r] = ran[r] /\ pc'[r] = "done"
         /\ pc[r] \notin Running =>
              /\ reply'[r] = reply[r]
              /\ ~ran[r] => (ran'[r] <=> pc'[r] \in Running)
<1> USE DEF Running
<1>1. CASE StartPassthrough(r) \/ StartUnknown(r)
  <2>1. PICK q \in Arrivals, where \in {"passing", "unknown"} :
          Arrive(r, q) /\ \E failure : Forward(r, q.known, where, failure)
    BY <1>1 DEF StartPassthrough, StartUnknown
  <2>2. q.known \in BOOLEAN
    BY DEF Arrivals
  <2>3. ran'[r] <=> pc'[r] \in Running
    BY <2>1, <2>2, ForwardRuns
  <2> QED BY <2>1, <2>3 DEF Arrive
<1>2. CASE Decides(r)
  <2>1. PICK o \in OpaOutcomes \ {"bad_body"} :
          /\ Hear(r, o)
          /\ \/ /\ \E es, resp : EmitThenFinish(r, es, resp, ServerError)
                /\ UNCHANGED ran
             \/ Forward(r, req[r].known, "forward", Refusal)
    BY <1>2, ZenonT(40) DEF Decides
  <2>2. pc[r] \in {"opa1", "opa2"} /\ UNCHANGED reply
    BY <2>1 DEF Hear, AwaitsOpa
  <2>3. CASE (\E es, resp : EmitThenFinish(r, es, resp, ServerError)) /\ UNCHANGED ran
    BY <2>2, <2>3, EmitThenFinishLocal
  <2>4. CASE Forward(r, req[r].known, "forward", Refusal)
    <3>1. req[r].known \in BOOLEAN
      <4>1. req[r] \in Arrivals \cup {NoRequest}
        BY DEF TasksOK
      <4>2. NoRequest.known = FALSE
        BY DEF NoRequest
      <4> QED BY <4>1, <4>2 DEF Arrivals
    <3> QED BY <2>2, <2>4, <3>1, ForwardRuns
  <2> QED BY <2>1, <2>3, <2>4
<1>3. CASE EndPassthrough(r) \/ EndUnknown(r) \/ EndToolCall(r)
  <2>1. /\ pc[r] \in Running /\ UNCHANGED ran
        /\ \/ \E resp : Finish(r, resp)
           \/ \E es, resp, onError : EmitThenFinish(r, es, resp, onError)
    <3>1. CASE EndPassthrough(r)
      BY <3>1 DEF EndPassthrough, Receive
    <3>2. CASE EndUnknown(r)
      BY <3>2 DEF EndUnknown, Receive
    <3>3. CASE EndToolCall(r)
      BY <3>3 DEF EndToolCall, Receive
    <3> QED BY <1>3, <3>1, <3>2, <3>3
  <2>2. pc'[r] = "done"
    BY <2>1, FinishLocal, EmitThenFinishLocal
  <2> QED BY <2>1, <2>2
<1>4. CASE \/ Reject(r) \/ RateLimited(r) \/ StartMalformed(r) \/ OpaRaises(r)
  <2>1. /\ pc[r] \in {"idle", "opa1", "opa2"} /\ UNCHANGED <<ran, reply>>
        /\ \/ \E resp : Finish(r, resp)
           \/ \E es, resp, onError : EmitThenFinish(r, es, resp, onError)
    BY <1>4 DEF Reject, RateLimited, StartMalformed, OpaRaises, Arrive, Hear, AwaitsOpa
  <2>2. pc'[r] = "done"
    BY <2>1, FinishLocal, EmitThenFinishLocal
  <2> QED BY <2>1, <2>2
<1>5. CASE StartClean(r) \/ OpaTransient(r) \/ OpaRetry(r)
  BY <1>5 DEF StartClean, OpaTransient, OpaRetry, Suspend, TasksOK, Arrive, Hear
<1>6. CASE StartWithFindings(r)
  <2>1. /\ pc[r] = "idle" /\ UNCHANGED <<ran, reply>>
        /\ (\E resp : Finish(r, resp)) \/ Suspend(r, "opa1")
    BY <1>6 DEF StartWithFindings, Arrive
  <2>2. pc'[r] \in {"done", "opa1"}
    BY <2>1, FinishLocal DEF Suspend, TasksOK
  <2> QED BY <2>1, <2>2
<1> QED BY <1>1, <1>2, <1>3, <1>4, <1>5, <1>6 DEF Begin, Continue

\* When the log can be written, the end of a tool call that ran is in it.
Logged(r) ==
  pc[r] = "done" /\ ran[r] /\ IsToolCall(req[r].method) => Recorded(r, "tool_call")

LEMMA LoggedStep ==
  ASSUME ~SinkMayFail, TasksOK, LogsOK, NEW r \in Requests, Phase(r),
         pc[r] # "done" => (ran[r] <=> pc[r] \in Running), Begin(r) \/ Continue(r)
  PROVE  Logged(r)'
<1>1. CASE pc[r] \notin Running
  BY <1>1, RunSteps DEF Logged, Running
<1>2. CASE pc[r] \in {"passing", "unknown"}
  <2>1. ~IsToolCall(req[r].method)
    BY <1>2 DEF Phase
  <2>2. pc[r] \notin {"idle", "opa1", "backoff", "opa2", "forward"}
    BY <1>2
  <2>3. EndPassthrough(r) \/ EndUnknown(r)
    BY <2>2 DEF Begin, Continue, Reject, RateLimited, StartPassthrough, StartUnknown,
                StartMalformed, StartClean, StartWithFindings, Arrive, OpaTransient,
                OpaRetry, OpaRaises, Decides, Hear, AwaitsOpa, EndToolCall, Receive
  <2>4. UNCHANGED req
    BY <2>3 DEF EndPassthrough, EndUnknown, Receive
  <2> QED BY <2>1, <2>4 DEF Logged
<1>3. CASE pc[r] = "forward"
  <2>1. pc[r] \notin {"idle", "opa1", "backoff", "opa2", "passing", "unknown"}
    BY <1>3
  <2>2. EndToolCall(r)
    BY <2>1 DEF Begin, Continue, Reject, RateLimited, StartPassthrough, StartUnknown,
                StartMalformed, StartClean, StartWithFindings, Arrive, OpaTransient,
                OpaRetry, OpaRaises, Decides, Hear, AwaitsOpa, EndPassthrough,
                EndUnknown, Receive
  <2>3. PICK b \in Replies :
          EmitThenFinish(r, ReplyEvents(b), ToolAnswer(verdict[r], b), ServerError)
    BY <2>2 DEF EndToolCall
  <2>4. PICK e \in Emissions(ReplyEvents(b)) : Emit(r, ReplyEvents(b), e)
    BY <2>3 DEF EmitThenFinish
  <2>5. Complete(ReplyEvents(b), e)
    <3>1. ReplyEvents(b) \in Seq(EventTypes)
      BY EventsType
    <3>2. /\ e.n \in 0..Len(ReplyEvents(b)) /\ ~(e.n < Len(ReplyEvents(b)))
      BY <2>4 DEF Emissions
    <3> QED BY <3>1, <3>2 DEF Complete
  <2>6. Recorded(r, "tool_call")'
    BY <2>4, <2>5, EventsType, HoldsEvents, EmitRecords
  <2> QED BY <2>6 DEF Logged
<1> QED BY <1>1, <1>2, <1>3 DEF Running

-----------------------------------------------------------------------------
(* The coupling.  A request was handed over when its call of forward() began;   *)
(* the pipeline waits for exactly that call; it takes a result only from a call *)
(* that returned one; and after close() no request is under way.                *)

Coupled(r) ==
  /\ ran[r] <=> task[r] # "new"
  /\ via[r] # 0 => ran[r]
  /\ pc[r] # "done" => (ran[r] <=> pc[r] \in Running)
  /\ pc[r] = "done" => task[r] \in {"new", "done"}
  /\ reply[r].result => task[r] = "done" /\ answer[r] = "response"
  /\ closed => pc[r] \in {"idle", "done"}

PipelineInv == TasksOK /\ LogsOK /\ GovernanceInv
BackendInv == SP!TypeOK /\ SP!ChildInv /\ SP!EntryInv
CoupledInv == \A r \in Requests : Coupled(r)
ProxyInv == PipelineInv /\ BackendInv /\ CoupledInv

PipelineStep == (\E r \in Requests : Begin(r) \/ Continue(r)) \/ UNCHANGED vars

\* Every step of the whole, as a step of the pipeline and as one of the backend.
LEMMA ProxySteps ==
  ASSUME [ProxyNext]_allVars
  PROVE  PipelineStep /\ [SP!Next]_SP!vars
<1> USE DEF PipelineStep
<1>1. ASSUME NEW r \in Requests, Enforce(r) \/ Deliver(r)
      PROVE  PipelineStep /\ UNCHANGED SP!vars
  BY <1>1, BackendRests DEF Enforce, Deliver, Continue
<1>2. ASSUME NEW r \in Requests, Hand(r)
      PROVE  PipelineStep /\ SP!Next
  BY <1>2, BackendEnters DEF Hand, Continue, SP!Next
<1>3. ASSUME NEW r \in Requests, CallStep(r) \/ TimerFires(r)
      PROVE  UNCHANGED vars /\ SP!Next
  BY <1>3, BackendCalls DEF CallStep, TimerFires, Backend, SP!Next
<1>4. ASSUME NEW g \in S!Children, ReaderStep(g) \/ Flush(g) \/ Reap(g) \/ ChildStep(g)
      PROVE  UNCHANGED vars /\ SP!Next
  BY <1>4, BackendChildren DEF ReaderStep, Flush, Reap, ChildStep, Backend, SP!Next,
     S!Children, SP!Children
<1>5. ASSUME Close PROVE UNCHANGED vars /\ SP!Next
  BY <1>5, BackendCloses DEF Close, Backend, SP!Next
<1>6. ASSUME UNCHANGED allVars PROVE UNCHANGED vars /\ UNCHANGED SP!vars
  BY <1>6, BackendRests DEF allVars
<1> QED BY <1>1, <1>2, <1>3, <1>4, <1>5, <1>6 DEF ProxyNext

LEMMA PipelineInvStep ==
  ASSUME PipelineInv, PipelineStep
  PROVE  PipelineInv'
<1>1. CASE UNCHANGED vars
  <2>1. TasksOK' /\ LogsOK'
    BY <1>1 DEF PipelineInv, TasksOK, LogsOK, vars
  <2>2. GovernanceInv'
    BY <1>1 DEF PipelineInv, GovernanceInv, Phase, vars, Permitted, Sifted, LastAsked
  <2> QED BY <2>1, <2>2 DEF PipelineInv
<1>2. ASSUME NEW r \in Requests, Begin(r) \/ Continue(r) PROVE PipelineInv'
  <2>1. TasksOK' /\ LogsOK'
    BY <1>2, TypeStep DEF PipelineInv
  <2>2. ASSUME NEW s \in Requests PROVE Phase(s)'
    <3>1. Phase(s) /\ Phase(r) /\ TasksOK
      BY DEF PipelineInv, GovernanceInv
    <3> QED BY <1>2, <3>1, PhaseStep, OthersUntouched, PhaseUntouched
  <2> QED BY <2>1, <2>2 DEF PipelineInv, GovernanceInv
<1> QED BY <1>1, <1>2 DEF PipelineStep

LEMMA BackendInvStep ==
  ASSUME BackendInv, [SP!Next]_SP!vars
  PROVE  BackendInv'
BY BackendAssumption, SP!TypeStep, SP!ChildStepInv, SP!EntryStep DEF BackendInv

LEMMA CoupledStep ==
  ASSUME ProxyInv, [ProxyNext]_allVars
  PROVE  CoupledInv'
<1>0. /\ TasksOK /\ LogsOK /\ SP!StdioAssumption /\ SP!TypeOK /\ SP!ChildInv
      /\ \A r \in Requests : Coupled(r)
  BY BackendAssumption DEF ProxyInv, PipelineInv, BackendInv, CoupledInv
<1>1. ASSUME NEW r \in Requests, Enforce(r), NEW s \in Requests PROVE Coupled(s)'
  <2>1. /\ UNCHANGED backendVars /\ pc[r] \notin Running /\ pc'[r] \notin Running
        /\ Begin(r) \/ Continue(r)
        /\ pc[r] = "idle" => ~closed
    BY <1>1 DEF Enforce
  <2>2. UNCHANGED <<task, via, answer, closed>>
    BY <2>1 DEF backendVars
  <2>3. CASE s = r
    <3>1. pc[r] # "done"
      BY <1>0, <2>1, RunSteps
    <3>2. ~ran[r] /\ ~closed
      BY <1>0, <2>1, <3>1 DEF Coupled
    <3>3. ~ran'[r] /\ reply'[r] = reply[r]
      BY <1>0, <2>1, <3>2, RunSteps
    <3> QED BY <1>0, <2>1, <2>2, <2>3, <3>2, <3>3 DEF Coupled
  <2>4. CASE s # r
    BY <1>0, <2>1, <2>2, <2>4, OthersUntouched DEF Coupled, Untouched
  <2> QED BY <2>3, <2>4
<1>2. ASSUME NEW r \in Requests, Hand(r), NEW s \in Requests PROVE Coupled(s)'
  <2>1. /\ pc[r] \notin Running /\ pc'[r] \in Running
        /\ Begin(r) \/ Continue(r)
        /\ SP!Enter(r) \/ SP!Queue(r)
    BY <1>2, BackendEnters DEF Hand, Continue
  <2>2. /\ task[r] = "new" /\ ~closed /\ task'[r] # "new" /\ UNCHANGED closed
        /\ \A c \in Requests \ {r} :
             task'[c] = task[c] /\ answer'[c] = answer[c] /\ via'[c] = via[c]
    BY <1>0, <2>1, SP!CallSegments
  <2>3. CASE s = r
    <3>1. ~ran[r] /\ ~reply[r].result
      BY <1>0, <2>2 DEF Coupled
    <3>2. ran'[r] /\ reply'[r] = reply[r]
      BY <1>0, <2>1, <3>1, RunSteps
    <3>3. pc'[r] \notin {"idle", "done"} /\ ~closed'
      BY <2>1, <2>2 DEF Running
    <3> QED BY <2>1, <2>2, <2>3, <3>1, <3>2, <3>3 DEF Coupled
  <2>4. CASE s # r
    BY <1>0, <2>1, <2>2, <2>4, OthersUntouched DEF Coupled, Untouched
  <2> QED BY <2>3, <2>4
<1>3. ASSUME NEW r \in Requests, Deliver(r), NEW s \in Requests PROVE Coupled(s)'
  <2>1. /\ UNCHANGED backendVars /\ pc[r] \in Running /\ task[r] = "done"
        /\ Begin(r) \/ Continue(r)
        /\ reply'[r] \in Results(r)
    BY <1>3 DEF Deliver, Continue
  <2>2. UNCHANGED <<task, via, answer, closed>>
    BY <2>1 DEF backendVars
  <2>3. CASE s = r
    <3>1. ran'[r] = ran[r] /\ pc'[r] = "done" /\ pc[r] # "done"
      BY <1>0, <2>1, RunSteps
    <3>2. reply'[r].result => answer[r] = "response"
      BY <2>1 DEF Results, NoReply
    <3>3. ~closed
      BY <1>0, <2>1 DEF Coupled, Running
    <3> QED BY <1>0, <2>1, <2>2, <2>3, <3>1, <3>2, <3>3 DEF Coupled
  <2>4. CASE s # r
    BY <1>0, <2>1, <2>2, <2>4, OthersUntouched DEF Coupled, Untouched
  <2> QED BY <2>3, <2>4
<1>4. ASSUME NEW r \in Requests, CallStep(r) \/ TimerFires(r), NEW s \in Requests
      PROVE  Coupled(s)'
  <2>1. /\ UNCHANGED <<pc, ran, reply>>
        /\ SP!CallStep(r) \/ SP!TimerFires(r)
    BY <1>4, BackendCalls DEF CallStep, TimerFires, Backend, vars
  <2>2. /\ task[r] \notin {"new", "done"} /\ task'[r] # "new" /\ UNCHANGED closed
        /\ \A c \in Requests \ {r} :
             task'[c] = task[c] /\ answer'[c] = answer[c] /\ via'[c] = via[c]
    BY <1>0, <2>1, SP!CallSegments
  <2>3. CASE s = r
    BY <1>0, <2>1, <2>2, <2>3 DEF Coupled
  <2>4. CASE s # r
    BY <1>0, <2>1, <2>2, <2>4 DEF Coupled
  <2> QED BY <2>3, <2>4
<1>5. ASSUME NEW g \in S!Children, ReaderStep(g) \/ Flush(g) \/ Reap(g) \/ ChildStep(g),
             NEW s \in Requests
      PROVE  Coupled(s)'
  <2>1. /\ UNCHANGED <<pc, ran, reply>> /\ g \in SP!Children
        /\ SP!ChildStep(g) \/ SP!Reap(g) \/ SP!Flush(g) \/ SP!ReaderStep(g)
    BY <1>5, BackendChildren DEF ReaderStep, Flush, Reap, ChildStep, Backend, vars,
       S!Children, SP!Children
  <2>2. task' = task /\ answer' = answer /\ via' = via /\ closed' = closed
    BY <2>1, BackendAssumption, SP!OtherSegments
  <2> QED BY <1>0, <2>1, <2>2 DEF Coupled
<1>6. ASSUME Close, NEW s \in Requests PROVE Coupled(s)'
  <2>1. /\ UNCHANGED <<pc, ran, reply>> /\ SP!Close
        /\ \A r \in Requests : pc[r] \in {"idle", "done"}
    BY <1>6, BackendCloses DEF Close, Backend, vars
  <2>2. task' = task /\ answer' = answer /\ via' = via
    BY <2>1, BackendAssumption, SP!CloseSegment
  <2> QED BY <1>0, <2>1, <2>2 DEF Coupled
<1>7. ASSUME UNCHANGED allVars, NEW s \in Requests PROVE Coupled(s)'
  BY <1>0, <1>7 DEF Coupled, allVars, vars, backendVars
<1> QED BY <1>1, <1>2, <1>3, <1>4, <1>5, <1>6, <1>7 DEF CoupledInv, ProxyNext

LEMMA PipelineInit == Init => PipelineInv
<1>1. Init => TasksOK
  BY EmptySeq, PipelineAssumption
     DEF Init, TasksOK, Places, Answers, NoAnswer, NoReply, Replies
<1>2. Init => LogsOK
  BY EmptySeq DEF Init, LogsOK, Logs
<1>3. Init => GovernanceInv
  BY AnswerFields DEF Init, GovernanceInv, Phase, Sifted
<1> QED BY <1>1, <1>2, <1>3 DEF PipelineInv

LEMMA ProxyInitInv == ProxyInit => ProxyInv
<1> SUFFICES ASSUME ProxyInit PROVE ProxyInv
  OBVIOUS
<1>1. Init /\ SP!Init
  BY BackendInit DEF ProxyInit
<1>2. PipelineInv
  BY <1>1, PipelineInit DEF PipelineInv
<1>3. BackendInv
  BY <1>1, BackendAssumption, SP!TypeInit, SP!ChildInit, SP!EntryInit DEF BackendInv
<1>4. CoupledInv
  BY <1>1 DEF Init, SP!Init, CoupledInv, Coupled, Running, NoReply
<1> QED BY <1>2, <1>3, <1>4 DEF ProxyInv

LEMMA ProxyInvariant == ProxySpec => []ProxyInv
<1>1. ProxyInv /\ [ProxyNext]_allVars => ProxyInv'
  BY ProxySteps, PipelineInvStep, BackendInvStep, CoupledStep DEF ProxyInv
<1> QED BY <1>1, ProxyInitInv, PTL DEF ProxySpec

-----------------------------------------------------------------------------
(* What holds of the whole. *)

\* The pipeline in front of a stdio server is the pipeline: what PipelineProofs
\* shows of it is true of it there too.
THEOREM WholeIsPipeline == ProxySpec => Spec
<1>1. ProxyInit => Init
  BY DEF ProxyInit
<1>2. [ProxyNext]_allVars => [Next]_vars
  BY ProxySteps DEF PipelineStep, Next
<1> QED BY <1>1, <1>2, PTL DEF ProxySpec, Spec

\* And so is the backend: its calls are requests that were let through.
LEMMA WholeIsBackend == ProxySpec => SP!Spec
<1>1. ProxyInit => SP!Init
  BY BackendInit DEF ProxyInit
<1> QED BY <1>1, ProxySteps, PTL DEF ProxySpec, SP!Spec

\* No line of a tool call that was denied or escalated was ever written to a child.
THEOREM RefusalsStayUnsent == ProxySpec => []RefusedNeverSent
<1>1. ProxyInv => RefusedNeverSent
  BY DEF ProxyInv, PipelineInv, GovernanceInv, Phase, Stops, CoupledInv, Coupled,
         RefusedNeverSent
<1> QED BY <1>1, ProxyInvariant, PTL

\* When the log can be written, whatever a child may have executed is in it by the
\* time the client hears of it.
THEOREM SendsAreRecorded ==
  ASSUME ~SinkMayFail PROVE ProxySpec => []SentIsRecorded
<1> DEFINE LoggedInv == \A r \in Requests : Logged(r)
<1>1. ProxyInit => LoggedInv
  BY DEF ProxyInit, Init, Logged
<1>2. ProxyInv /\ LoggedInv /\ [ProxyNext]_allVars => LoggedInv'
  <2> SUFFICES ASSUME ProxyInv, LoggedInv, [ProxyNext]_allVars, NEW s \in Requests
               PROVE  Logged(s)'
    OBVIOUS
  <2>0. PipelineStep /\ TasksOK /\ LogsOK /\ Phase(s)
        /\ (pc[s] # "done" => (ran[s] <=> pc[s] \in Running))
    BY ProxySteps DEF ProxyInv, PipelineInv, GovernanceInv, CoupledInv, Coupled
  <2>1. CASE UNCHANGED vars
    BY <2>1 DEF vars, Logged, Recorded
  <2>2. ASSUME NEW r \in Requests, Begin(r) \/ Continue(r) PROVE Logged(s)'
    <3>1. CASE s = r
      BY <2>0, <2>2, <3>1, LoggedStep
    <3>2. CASE s # r
      <4>1. Untouched(s) /\ LogsUntouched(s)
        BY <2>0, <2>2, <3>2, OthersUntouched, OthersUnlogged
      <4>2. Recorded(s, "tool_call")' <=> Recorded(s, "tool_call")
        BY <4>1, SilentRecords
      <4> QED BY <4>1, <4>2 DEF Logged, Untouched
    <3> QED BY <3>1, <3>2
  <2> QED BY <2>0, <2>1, <2>2 DEF PipelineStep
<1>3. ProxyInv /\ LoggedInv => SentIsRecorded
  BY DEF ProxyInv, CoupledInv, Coupled, Logged, SentIsRecorded
<1> QED BY <1>1, <1>2, <1>3, ProxyInvariant, PTL DEF ProxySpec

\* A result that an agent gets is the one its own request brought, if no two
\* requests carry one id and the server uses none of these for its own.
THEOREM ResultsAreOwn ==
  ASSUME SP!OwnIds PROVE ProxySpec => []ResultIsOwn
<1>1. SP!Spec => []SP!RightAnswer
  BY BackendAssumption, SP!RightAnswerAlways
<1>2. ProxyInv /\ SP!RightAnswer => ResultIsOwn
  BY DEF ProxyInv, CoupledInv, Coupled, SP!RightAnswer, ResultIsOwn
<1> QED BY <1>1, <1>2, WholeIsBackend, ProxyInvariant, PTL

\* After the shutdown there is no child, no reader, no entry in the table and no
\* request that was accepted and not answered.
THEOREM ShutdownLeavesNothing == ProxySpec => []ShutdownIsClean
<1>1. ProxyInv => ShutdownIsClean
  <2> SUFFICES ASSUME ProxyInv, closed PROVE ShutdownIsClean
    BY DEF ShutdownIsClean
  <2>1. \A g \in S!Children : child[g] # "alive" /\ reader[g] # "running"
    BY DEF ProxyInv, BackendInv, SP!ChildInv, SP!OneChild, SP!ClosedInv, S!Children,
           SP!Children
  <2>2. ASSUME NEW i \in Ids PROVE pending[i] = Nobody
    <3>1. pending[i] \in Requests \cup {Nobody}
      BY DEF ProxyInv, BackendInv, SP!TypeOK
    <3>2. pending[i] # Nobody => task[pending[i]] = "waiting"
      BY DEF ProxyInv, BackendInv, SP!EntryInv
    <3>3. \A r \in Requests : task[r] \in {"new", "done"}
      BY DEF ProxyInv, BackendInv, SP!ChildInv, SP!ClosedInv
    <3> QED BY <3>1, <3>2, <3>3
  <2>3. \A r \in Requests : pc[r] \in {"idle", "done"}
    BY DEF ProxyInv, CoupledInv, Coupled
  <2> QED BY <2>1, <2>2, <2>3 DEF ShutdownIsClean
<1> QED BY <1>1, ProxyInvariant, PTL

=============================================================================

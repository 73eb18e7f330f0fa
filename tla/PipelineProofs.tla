---------------------------- MODULE PipelineProofs ----------------------------
(***************************************************************************)
(* Theorems about Pipeline, for every set of requests, every configuration  *)
(* and every set of severities: the variables keep their types, no tool     *)
(* call runs without a decision that lets it, a refusal means that the tool *)
(* did not run, injections in what is read of a reply are replaced,         *)
(* nothing is answered ahead of its audit trail, and the pipeline           *)
(* implements GovernedCalls.  For finitely many requests the counters of    *)
(* the emitter agree with its logs.                                         *)
(***************************************************************************)
EXTENDS Pipeline, FiniteSetTheorems, SequenceTheorems, TLAPS

-----------------------------------------------------------------------------
(* The two halves of TypeOK: what the tasks and what the emitter keep. *)
Places == {"idle", "opa1", "backoff", "opa2", "passing", "unknown", "forward",
           "done"}
Answers == [status : {0, 200, 400, 401, 500}, policy : {"none"} \cup OpaResults,
            body : {"none", "error", "empty", "backend", "canned"}]
Logs == [Requests -> Seq(EventTypes)]

TasksOK ==
  /\ pc \in [Requests -> Places]
  /\ req \in [Requests -> Arrivals \cup {NoRequest}]
  /\ verdict \in [Requests -> {"none"} \cup OpaResults]
  /\ asked \in [Requests -> Seq(OpaOutcomes)]
  /\ ran \in [Requests -> BOOLEAN]
  /\ reply \in [Requests -> Replies]
  /\ http \in [Requests -> Answers]

LogsOK ==
  /\ out \in Logs /\ file \in Logs
  /\ stats \in [total : Nat, denials : Nat, dlp : Nat, inbound : Nat]

\* The type invariant is the conjunction of its two halves.
LEMMA TypeHalves == TypeOK <=> TasksOK /\ LogsOK
  BY ZenonT(40) DEF TypeOK, TasksOK, LogsOK, Places, Answers, Logs

\* The same of the next state.
LEMMA TypeHalvesNext == TypeOK' <=> TasksOK' /\ LogsOK'
  BY ZenonT(40) DEF TypeOK, TasksOK, LogsOK, Places, Answers, Logs

\* A severity that blocks is one of the levels, whatever name is configured.
LEMMA BlockLevelType ==
  ASSUME NEW name
  PROVE  BlockLevel(name) \in 0..4
  BY DEF BlockLevel, SEVERITY_ORDER

-----------------------------------------------------------------------------
(* The emitter *)

\* Counting events gives a number.
LEMMA OccurrencesType ==
  ASSUME NEW es, NEW n \in Nat, NEW types
  PROVE  Occurrences(es, n, types) \in Nat
<1>1. IsFiniteSet(1..n)
  BY FS_Interval
<1>2. IsFiniteSet({i \in 1..n : es[i] \in types})
  BY <1>1, FS_Subset
<1> QED
  BY <1>2, FS_CardinalityType DEF Occurrences

\* The counters stay numbers.
LEMMA CountedType ==
  ASSUME LogsOK, NEW es, NEW n \in Nat
  PROVE  Counted(es, n) \in [total : Nat, denials : Nat, dlp : Nat, inbound : Nat]
<1>1. /\ Occurrences(es, n, DenialTypes) \in Nat
      /\ Occurrences(es, n, {"dlp_finding"}) \in Nat
      /\ Occurrences(es, n, {"inbound_finding"}) \in Nat
  BY OccurrencesType
<1> QED
  BY <1>1 DEF LogsOK, Counted

\* Emitting keeps the logs logs and the counters numbers.
LEMMA EmitType ==
  ASSUME LogsOK, NEW r \in Requests, NEW es \in Seq(EventTypes),
         NEW e \in Emissions(es), Emit(r, es, e)
  PROVE  LogsOK'
<1>1. /\ e.n \in 0..Len(es) /\ e.printed \in BOOLEAN
      /\ e.printed => e.n < Len(es)
  BY DEF Emissions
<1> DEFINE printed == IF e.printed THEN e.n + 1 ELSE e.n
<1>2. Len(es) \in Nat
  BY LenProperties
<1>3. printed \in 0..Len(es) /\ e.n \in Nat /\ e.n + 1 \in Nat
  BY <1>1, <1>2
<1>4. ASSUME NEW k \in 0..Len(es)
      PROVE  SubSeq(es, 1, k) \in Seq(EventTypes)
  BY <1>4, <1>2, SubSeqProperties
<1>5. /\ SubSeq(es, 1, printed) \in Seq(EventTypes)
      /\ SubSeq(es, 1, e.n) \in Seq(EventTypes)
  BY <1>1, <1>3, <1>4
<1>6. out' \in Logs
  <2>1. out[r] \o SubSeq(es, 1, printed) \in Seq(EventTypes)
    BY <1>5, ConcatProperties DEF LogsOK, Logs
  <2> QED
    BY <2>1 DEF LogsOK, Logs, Emit
<1>7. file' \in Logs
  <2>1. file[r] \o SubSeq(es, 1, e.n) \in Seq(EventTypes)
    BY <1>5, ConcatProperties DEF LogsOK, Logs
  <2> QED
    BY <2>1 DEF LogsOK, Logs, Emit
<1>8. stats' \in [total : Nat, denials : Nat, dlp : Nat, inbound : Nat]
  BY <1>3, CountedType DEF Emit
<1> QED
  BY <1>6, <1>7, <1>8 DEF LogsOK

\* A task that finishes is done and has one of the renderings of its answer.
LEMMA FinishEffect ==
  ASSUME NEW r, NEW answer, Finish(r, answer)
  PROVE  /\ pc' = [pc EXCEPT ![r] = "done"]
         /\ \E a \in {answer, ServerError} : http' = [http EXCEPT ![r] = a]
  BY DEF Finish, Rendered

\* The same after emitting: the answer, the one for errors, or a server error.
LEMMA EmitThenFinishEffect ==
  ASSUME LogsOK, NEW r \in Requests, NEW es \in Seq(EventTypes), NEW answer,
         NEW onError, EmitThenFinish(r, es, answer, onError)
  PROVE  /\ LogsOK'
         /\ pc' = [pc EXCEPT ![r] = "done"]
         /\ \E a \in {answer, onError, ServerError} :
              http' = [http EXCEPT ![r] = a]
<1>1. PICK e \in Emissions(es) :
        /\ Emit(r, es, e)
        /\ Finish(r, IF Complete(es, e) THEN answer ELSE onError)
  BY DEF EmitThenFinish
<1>2. LogsOK'
  BY <1>1, EmitType
<1> QED
  BY <1>1, <1>2, FinishEffect

\* Nothing emitted, nothing changed.
LEMMA SilentType ==
  ASSUME LogsOK, Silent
  PROVE  LogsOK'
  BY DEF LogsOK, Silent, Logs

-----------------------------------------------------------------------------
(* The tasks *)

\* The answers of enforce() and of the handler have the type of an answer.
LEMMA AnswersType ==
  /\ Refusal \in Answers /\ Fallback \in Answers /\ ServerError \in Answers
  /\ \A status \in {400, 401} : Answer(status, "none", "none") \in Answers
  /\ \A d \in OpaResults : /\ Answer(200, d, "error") \in Answers
                           /\ \A b : ToolAnswer(d, b) \in Answers
  /\ Answer(200, "allow", "backend") \in Answers
  BY DEF Refusal, Fallback, ServerError, Answer, Answers, OpaResults, ToolAnswer

\* Every outcome but a body that cannot be read is a decision.
LEMMA DecisionType ==
  ASSUME NEW o \in OpaOutcomes \ {"bad_body"}
  PROVE  DecisionOf(o) \in OpaResults
  BY DEF DecisionOf, OpaOutcomes, OpaResults, OpaFailures

\* The outcomes are heard one after the other.
LEMMA HearType ==
  ASSUME TasksOK, NEW r \in Requests, NEW o \in OpaOutcomes, Hear(r, o)
  PROVE  asked' \in [Requests -> Seq(OpaOutcomes)]
<1>1. Append(asked[r], o) \in Seq(OpaOutcomes)
  BY AppendProperties DEF TasksOK
<1> QED
  BY <1>1 DEF TasksOK, Hear

\* A task that finishes, with one of the answers above.
LEMMA FinishType ==
  ASSUME TasksOK, NEW r \in Requests, NEW answer \in Answers,
         \/ Finish(r, answer)
         \/ /\ pc' = [pc EXCEPT ![r] = "done"]
            /\ http' = [http EXCEPT ![r] = answer]
  PROVE  pc' \in [Requests -> Places] /\ http' \in [Requests -> Answers]
<1>1. ServerError \in Answers
  BY AnswersType
<1>2. PICK a \in {answer, ServerError} :
        pc' = [pc EXCEPT ![r] = "done"] /\ http' = [http EXCEPT ![r] = a]
  BY FinishEffect
<1> QED
  BY <1>1, <1>2 DEF TasksOK, Places

\* A task that emits and finishes.
LEMMA EmitThenFinishType ==
  ASSUME TasksOK, LogsOK, NEW r \in Requests, NEW es \in Seq(EventTypes),
         NEW answer \in Answers, NEW onError \in Answers,
         EmitThenFinish(r, es, answer, onError)
  PROVE  LogsOK' /\ pc' \in [Requests -> Places] /\ http' \in [Requests -> Answers]
<1>1. ServerError \in Answers
  BY AnswersType
<1>2. PICK a \in {answer, onError, ServerError} :
        pc' = [pc EXCEPT ![r] = "done"] /\ http' = [http EXCEPT ![r] = a]
  BY EmitThenFinishEffect
<1>3. LogsOK'
  BY EmitThenFinishEffect
<1> QED
  BY <1>1, <1>2, <1>3 DEF TasksOK, Places

\* A task that goes on to wait.
LEMMA SuspendType ==
  ASSUME TasksOK, NEW r \in Requests, NEW where \in Places, Suspend(r, where)
  PROVE  pc' \in [Requests -> Places] /\ http' \in [Requests -> Answers]
  BY DEF TasksOK, Suspend

\* A request that is given to a backend, or to a server that is not there.
LEMMA ForwardType ==
  ASSUME TasksOK, NEW r \in Requests, NEW known \in BOOLEAN,
         NEW where \in Places, NEW failure \in Answers,
         Forward(r, known, where, failure)
  PROVE  /\ pc' \in [Requests -> Places] /\ http' \in [Requests -> Answers]
         /\ ran' \in [Requests -> BOOLEAN]
<1>1. CASE known
  BY <1>1, SuspendType DEF Forward, TasksOK
<1>2. CASE ~known
  BY <1>2, FinishType DEF Forward, TasksOK
<1> QED
  BY <1>1, <1>2

\* A request that arrives.
LEMMA ArriveType ==
  ASSUME TasksOK, NEW r \in Requests, NEW q \in Arrivals, Arrive(r, q)
  PROVE  /\ req' \in [Requests -> Arrivals \cup {NoRequest}]
         /\ asked' \in [Requests -> Seq(OpaOutcomes)]
         /\ reply' \in [Requests -> Replies]
         /\ q.known \in BOOLEAN
  BY DEF TasksOK, Arrive, Arrivals

\* A reply that comes back.
LEMMA ReceiveType ==
  ASSUME TasksOK, NEW r \in Requests, NEW where, NEW b \in Replies,
         Receive(r, where, b)
  PROVE  /\ reply' \in [Requests -> Replies]
         /\ req' \in [Requests -> Arrivals \cup {NoRequest}]
         /\ verdict' \in [Requests -> {"none"} \cup OpaResults]
         /\ asked' \in [Requests -> Seq(OpaOutcomes)]
         /\ ran' \in [Requests -> BOOLEAN]
  BY DEF TasksOK, Receive

\* One element makes a sequence.
LEMMA SingletonSeq ==
  ASSUME NEW S, NEW s \in S
  PROVE  <<s>> \in Seq(S)
  OBVIOUS

\* The events of one segment are a sequence of names.
LEMMA EventsType ==
  /\ \A s \in EventTypes : <<s>> \in Seq(EventTypes)
  /\ \A b : ReplyEvents(b) \in Seq(EventTypes)
<1>1. ASSUME NEW s \in EventTypes
      PROVE  <<s>> \in Seq(EventTypes)
  BY SingletonSeq, Zenon
<1>2. \A s1, s2 \in Seq(EventTypes) : s1 \o s2 \in Seq(EventTypes)
  BY ConcatProperties
<1>3. /\ "dlp_finding" \in EventTypes /\ "inbound_finding" \in EventTypes
      /\ "tool_call" \in EventTypes
  BY DEF EventTypes
<1>4. << >> \in Seq(EventTypes)
  BY EmptySeq
<1>5. ASSUME NEW b
      PROVE  ReplyEvents(b) \in Seq(EventTypes)
  <2> DEFINE found == IF OutputFindings(b) THEN <<"dlp_finding">> ELSE << >>
             bad   == IF InboundFindings(b) THEN <<"inbound_finding">> ELSE << >>
  <2>1. found \in Seq(EventTypes) /\ bad \in Seq(EventTypes)
    BY <1>1, <1>3, <1>4, Zenon
  <2>2. <<"tool_call">> \in Seq(EventTypes)
    BY <1>1, <1>3, Zenon
  <2>3. ReplyEvents(b) = (found \o bad) \o <<"tool_call">>
    BY DEF ReplyEvents, ScanEvents
  <2> HIDE DEF found, bad
  <2>4. found \o bad \in Seq(EventTypes)
    BY <2>1, <1>2
  <2>5. (found \o bad) \o <<"tool_call">> \in Seq(EventTypes)
    BY <2>4, <2>2, <1>2
  <2> QED
    BY <2>3, <2>5
<1> QED
  BY <1>1, <1>5

-----------------------------------------------------------------------------
(* Type correctness *)

\* Every step keeps the types.
LEMMA TypeStep ==
  ASSUME TasksOK, LogsOK, NEW r \in Requests, Begin(r) \/ Continue(r)
  PROVE  TasksOK' /\ LogsOK'
<1> USE AnswersType, EventsType
<1>e. /\ <<"rate_limit">> \in Seq(EventTypes) /\ <<"dlp_finding">> \in Seq(EventTypes)
      /\ <<"tool_deny">> \in Seq(EventTypes) /\ <<"tool_escalate">> \in Seq(EventTypes)
      /\ <<"passthrough">> \in Seq(EventTypes)
  BY DEF EventTypes
<1>p. \A p \in {"opa1", "opa2", "backoff", "passing", "unknown", "forward"} :
        p \in Places
  BY DEF Places
<1>o. {"allow", "deny"} \subseteq OpaResults /\ \A b \in PlainReplies : b \in Replies
  BY DEF OpaResults, PlainReplies
<1>1. CASE Reject(r)
  <2>1. PICK status \in {400, 401} : Finish(r, Answer(status, "none", "none"))
    BY <1>1 DEF Reject
  <2>2. pc' \in [Requests -> Places] /\ http' \in [Requests -> Answers]
    BY <2>1, FinishType
  <2>3. LogsOK'
    BY <1>1, SilentType DEF Reject
  <2> QED
    BY <1>1, <2>2, <2>3 DEF Reject, TasksOK
<1>2. CASE RateLimited(r)
  <2>1. PICK q \in Arrivals :
          Arrive(r, q) /\ EmitThenFinish(r, <<"rate_limit">>, Refusal, ServerError)
    BY <1>2 DEF RateLimited
  <2>2. LogsOK' /\ pc' \in [Requests -> Places] /\ http' \in [Requests -> Answers]
    BY <2>1, <1>e, EmitThenFinishType
  <2> QED
    BY <1>2, <2>1, <2>2, ArriveType DEF RateLimited, TasksOK
<1>3. CASE StartPassthrough(r)
  <2>1. PICK q \in Arrivals : Arrive(r, q) /\ Forward(r, q.known, "passing", Refusal)
    BY <1>3 DEF StartPassthrough
  <2>2. LogsOK'
    BY <1>3, SilentType DEF StartPassthrough
  <2> QED
    BY <1>3, <2>1, <2>2, <1>p, ArriveType, ForwardType DEF StartPassthrough, TasksOK
<1>4. CASE StartUnknown(r)
  <2>1. PICK q \in Arrivals : Arrive(r, q) /\ Forward(r, q.known, "unknown", Fallback)
    BY <1>4 DEF StartUnknown
  <2>2. LogsOK'
    BY <1>4, SilentType DEF StartUnknown
  <2> QED
    BY <1>4, <2>1, <2>2, <1>p, ArriveType, ForwardType DEF StartUnknown, TasksOK
<1>5. CASE StartMalformed(r)
  <2>1. PICK q \in Arrivals : Arrive(r, q) /\ Finish(r, ServerError)
    BY <1>5 DEF StartMalformed
  <2>2. LogsOK'
    BY <1>5, SilentType DEF StartMalformed
  <2> QED
    BY <1>5, <2>1, <2>2, ArriveType, FinishType DEF StartMalformed, TasksOK
<1>6. CASE StartClean(r)
  <2>1. PICK q \in Arrivals : Arrive(r, q) /\ Suspend(r, "opa1")
    BY <1>6 DEF StartClean
  <2>2. LogsOK'
    BY <1>6, SilentType DEF StartClean
  <2> QED
    BY <1>6, <2>1, <2>2, <1>p, ArriveType, SuspendType DEF StartClean, TasksOK
<1>7. CASE StartWithFindings(r)
  <2>1. PICK q \in Arrivals, e \in Emissions(<<"dlp_finding">>) :
          /\ Arrive(r, q)
          /\ Emit(r, <<"dlp_finding">>, e)
          /\ \/ Finish(r, ServerError)
             \/ Finish(r, Refusal)
             \/ Suspend(r, "opa1")
    BY <1>7 DEF StartWithFindings
  <2>2. LogsOK'
    BY <2>1, <1>e, EmitType
  <2>3. pc' \in [Requests -> Places] /\ http' \in [Requests -> Answers]
    BY <2>1, <1>p, FinishType, SuspendType
  <2> QED
    BY <1>7, <2>1, <2>2, <2>3, ArriveType DEF StartWithFindings, TasksOK
<1>8. CASE OpaTransient(r)
  <2>1. "transient" \in OpaOutcomes
    BY DEF OpaOutcomes, OpaFailures
  <2> QED
    BY <1>8, <2>1, <1>p, HearType, SuspendType, SilentType
    DEF OpaTransient, TasksOK, Hear
<1>9. CASE OpaRetry(r)
  BY <1>9, <1>p, SuspendType, SilentType DEF OpaRetry, TasksOK
<1>10. CASE OpaRaises(r)
  <2>1. "bad_body" \in OpaOutcomes
    BY DEF OpaOutcomes
  <2> QED
    BY <1>10, <2>1, HearType, FinishType, SilentType DEF OpaRaises, TasksOK, Hear
<1>11. CASE Decides(r)
  <2>1. PICK o \in OpaOutcomes \ {"bad_body"} :
          /\ Hear(r, o)
          /\ verdict' = [verdict EXCEPT ![r] = DecisionOf(o)]
          /\ \/ /\ EmitThenFinish(r, IF DecisionOf(o) = "escalate"
                                     THEN <<"tool_escalate">> ELSE <<"tool_deny">>,
                                  Answer(200, DecisionOf(o), "error"), ServerError)
                /\ UNCHANGED ran
             \/ /\ Forward(r, req[r].known, "forward", Refusal)
                /\ Silent
    BY <1>11, ZenonT(40) DEF Decides
  <2>2. DecisionOf(o) \in OpaResults
    BY DecisionType
  <2>3. req[r].known \in BOOLEAN
    <3>1. \A q \in Arrivals : q.known \in BOOLEAN
      BY DEF Arrivals
    <3>2. NoRequest.known \in BOOLEAN
      BY DEF NoRequest
    <3>3. req[r] \in Arrivals \cup {NoRequest}
      BY DEF TasksOK
    <3> QED
      BY <3>1, <3>2, <3>3
  <2>4. (IF DecisionOf(o) = "escalate" THEN <<"tool_escalate">> ELSE <<"tool_deny">>)
          \in Seq(EventTypes)
    BY <1>e
  <2>5. /\ LogsOK' /\ pc' \in [Requests -> Places] /\ http' \in [Requests -> Answers]
        /\ ran' \in [Requests -> BOOLEAN]
    <3>1. CASE EmitThenFinish(r, IF DecisionOf(o) = "escalate"
                                 THEN <<"tool_escalate">> ELSE <<"tool_deny">>,
                              Answer(200, DecisionOf(o), "error"), ServerError)
               /\ UNCHANGED ran
      <4>1. LogsOK' /\ pc' \in [Requests -> Places] /\ http' \in [Requests -> Answers]
        <5>1. Answer(200, DecisionOf(o), "error") \in Answers /\ ServerError \in Answers
          BY <2>2, AnswersType
        <5>2. TasksOK /\ LogsOK
          OBVIOUS
        <5> QED
          BY <3>1, <2>4, <5>1, <5>2, EmitThenFinishType, ZenonT(40)
      <4> QED
        BY <3>1, <4>1 DEF TasksOK
    <3>2. CASE Forward(r, req[r].known, "forward", Refusal) /\ Silent
      BY <3>2, <2>3, <1>p, ForwardType, SilentType
    <3> QED
      BY <2>1, <3>1, <3>2
  <2>6. verdict' \in [Requests -> {"none"} \cup OpaResults]
    BY <2>1, <2>2 DEF TasksOK
  <2>7. asked' \in [Requests -> Seq(OpaOutcomes)]
    BY <2>1, HearType
  <2> QED
    BY <2>1, <2>5, <2>6, <2>7 DEF TasksOK, Hear
<1>12. CASE EndPassthrough(r)
  <2>1. PICK b \in PlainReplies :
          /\ Receive(r, "passing", b)
          /\ EmitThenFinish(r, <<"passthrough">>, Answer(200, "allow", "backend"),
                            Refusal)
    BY <1>12 DEF EndPassthrough
  <2>2. LogsOK' /\ pc' \in [Requests -> Places] /\ http' \in [Requests -> Answers]
    BY <2>1, <1>e, EmitThenFinishType
  <2> QED
    BY <2>1, <2>2, <1>o, ReceiveType DEF TasksOK
<1>13. CASE EndUnknown(r)
  <2>1. PICK b \in PlainReplies :
          Receive(r, "unknown", b) /\ Finish(r, Answer(200, "allow", "backend"))
    BY <1>13 DEF EndUnknown
  <2>2. LogsOK'
    BY <1>13, SilentType DEF EndUnknown
  <2> QED
    BY <2>1, <2>2, <1>o, ReceiveType, FinishType DEF TasksOK
<1>14. CASE EndToolCall(r)
  <2>1. PICK b \in Replies :
          /\ Receive(r, "forward", b)
          /\ EmitThenFinish(r, ReplyEvents(b), ToolAnswer(verdict[r], b), ServerError)
    BY <1>14 DEF EndToolCall
  <2>2. ToolAnswer(verdict[r], b) \in Answers
    BY DEF TasksOK, ToolAnswer, ServerError, Answer, Answers, OpaResults
  <2>3. LogsOK' /\ pc' \in [Requests -> Places] /\ http' \in [Requests -> Answers]
    BY <2>1, <2>2, EmitThenFinishType
  <2> QED
    BY <2>1, <2>3, ReceiveType DEF TasksOK
<1> QED
  BY <1>1, <1>2, <1>3, <1>4, <1>5, <1>6, <1>7, <1>8, <1>9, <1>10, <1>11, <1>12,
     <1>13, <1>14 DEF Begin, Continue

\* The variables have their types in every state of the pipeline: the severities,
\* answers and events of concurrent requests stay those the code knows.
THEOREM TypeCorrect == Spec => []TypeOK
<1>1. Init => TypeOK
  <2> SUFFICES ASSUME Init PROVE TypeOK
    OBVIOUS
  <2>1. TasksOK
    BY EmptySeq, PipelineAssumption
    DEF Init, TasksOK, Places, Answers, NoAnswer, NoReply, Replies
  <2>2. LogsOK
    BY EmptySeq DEF Init, LogsOK, Logs
  <2> QED
    BY <2>1, <2>2, TypeHalves
<1>2. TypeOK /\ [Next]_vars => TypeOK'
  <2> SUFFICES ASSUME TypeOK, [Next]_vars PROVE TypeOK'
    OBVIOUS
  <2>1. CASE Next
    BY <2>1, TypeStep, TypeHalves, TypeHalvesNext DEF Next
  <2>2. CASE UNCHANGED vars
    BY <2>2 DEF TypeOK, vars, Arrivals, Replies
  <2> QED
    BY <2>1, <2>2
<1> QED
  BY <1>1, <1>2, PTL DEF Spec

-----------------------------------------------------------------------------
(* Governance.  None of the three safety properties is inductive: what was    *)
(* decided about a request is known only through where its task is suspended. *)

\* The conclusion of NoUngovernedForward for one request.
Permitted(r) ==
  /\ Len(asked[r]) > 0
  /\ \/ LastAsked(r) \in {"allow", "other", "malformed"}
     \/ ~FailClosed /\ LastAsked(r) \in OpaFailures
  /\ LastAsked(r) = "transient" => Len(asked[r]) = 2
  /\ DlpEnabled /\ req[r].sev > 0 => req[r].sev < BlockLevel(DlpBlockSeverity)

\* The conclusion of ReadableInjectionReplaced for one request.
Sifted(r) ==
  http[r].body \in {"backend", "canned"} =>
    (http[r].body = "canned"
       <=> InboundEnabled /\ reply[r].readable /\ Injected(reply[r]))

\* What a tool call may be, at the place where its task is.
Phase(r) ==
  /\ pc[r] = "idle" => asked[r] = << >> /\ ~ran[r]
  /\ pc[r] = "opa1" => asked[r] = << >>
  /\ pc[r] \in {"backoff", "opa2"} => asked[r] = <<"transient">>
  /\ pc[r] \in {"opa1", "backoff", "opa2"} =>
       ~ran[r] /\ ~InputBlocked(req[r]) /\ IsToolCall(req[r].method)
  /\ pc[r] \in {"passing", "unknown"} => ~IsToolCall(req[r].method)
  /\ pc[r] # "done" => http[r] = NoAnswer
  /\ IsToolCall(req[r].method) /\ ran[r] =>
       Permitted(r) /\ ~Stops(verdict[r]) /\ ~Stops(http[r].policy)
  /\ IsToolCall(req[r].method) => Sifted(r)

GovernanceInv == \A r \in Requests : Phase(r)

\* What a task knows of its own request is unchanged from one state to the next.
Untouched(s) ==
  /\ pc'[s] = pc[s] /\ req'[s] = req[s] /\ verdict'[s] = verdict[s]
  /\ asked'[s] = asked[s] /\ ran'[s] = ran[s] /\ reply'[s] = reply[s]
  /\ http'[s] = http[s]

\* A task that emits and finishes touches one request.
LEMMA EndOthers ==
  ASSUME TasksOK, NEW r \in Requests, NEW s \in Requests \ {r},
         \/ \E answer : Finish(r, answer)
         \/ \E es, answer, onError : EmitThenFinish(r, es, answer, onError)
         \/ \E where : Suspend(r, where)
         \/ \E known, where, failure : Forward(r, known, where, failure)
  PROVE  pc'[s] = pc[s] /\ http'[s] = http[s]
<1>1. ASSUME NEW answer, Finish(r, answer)
      PROVE  pc'[s] = pc[s] /\ http'[s] = http[s]
  <2>1. PICK a : http' = [http EXCEPT ![r] = a]
    BY <1>1, FinishEffect
  <2>2. pc' = [pc EXCEPT ![r] = "done"]
    BY <1>1, FinishEffect
  <2>3. pc \in [Requests -> Places] /\ http \in [Requests -> Answers]
    BY DEF TasksOK
  <2> QED
    BY <2>1, <2>2, <2>3
<1>2. ASSUME NEW es, NEW answer, NEW onError, EmitThenFinish(r, es, answer, onError)
      PROVE  pc'[s] = pc[s] /\ http'[s] = http[s]
  BY <1>2, <1>1 DEF EmitThenFinish
<1>3. ASSUME NEW where, Suspend(r, where)
      PROVE  pc'[s] = pc[s] /\ http'[s] = http[s]
  BY <1>3 DEF Suspend, TasksOK
<1>4. ASSUME NEW known, NEW where, NEW failure, Forward(r, known, where, failure)
      PROVE  pc'[s] = pc[s] /\ http'[s] = http[s]
  BY <1>4, <1>1, <1>3 DEF Forward
<1> QED
  BY <1>1, <1>2, <1>3, <1>4

\* No step of a task touches the request of another task.
LEMMA OthersUntouched ==
  ASSUME TasksOK, NEW r \in Requests, NEW s \in Requests \ {r},
         Begin(r) \/ Continue(r)
  PROVE  Untouched(s)
<1>1. CASE Reject(r)
  BY <1>1, EndOthers DEF Reject, Untouched
<1>2. CASE RateLimited(r)
  BY <1>2, EndOthers DEF RateLimited, Untouched, Arrive, TasksOK
<1>3. CASE StartPassthrough(r)
  BY <1>3, EndOthers DEF StartPassthrough, Untouched, Arrive, Forward, TasksOK
<1>4. CASE StartUnknown(r)
  BY <1>4, EndOthers DEF StartUnknown, Untouched, Arrive, Forward, TasksOK
<1>5. CASE StartMalformed(r)
  BY <1>5, EndOthers DEF StartMalformed, Untouched, Arrive, TasksOK
<1>6. CASE StartClean(r)
  BY <1>6, EndOthers DEF StartClean, Untouched, Arrive, TasksOK
<1>7. CASE StartWithFindings(r)
  BY <1>7, EndOthers DEF StartWithFindings, Untouched, Arrive, TasksOK
<1>8. CASE OpaTransient(r)
  BY <1>8, EndOthers DEF OpaTransient, Untouched, Hear, TasksOK
<1>9. CASE OpaRetry(r)
  BY <1>9, EndOthers DEF OpaRetry, Untouched, TasksOK
<1>10. CASE OpaRaises(r)
  BY <1>10, EndOthers DEF OpaRaises, Untouched, Hear, TasksOK
<1>11. CASE Decides(r)
  <2>1. PICK o :
          /\ Hear(r, o)
          /\ verdict' = [verdict EXCEPT ![r] = DecisionOf(o)]
          /\ \/ /\ \E es, answer, onError : EmitThenFinish(r, es, answer, onError)
                /\ UNCHANGED ran
             \/ \E known, where, failure : Forward(r, known, where, failure)
    BY <1>11, ZenonT(40) DEF Decides
  <2>2. pc'[s] = pc[s] /\ http'[s] = http[s]
    BY <2>1, EndOthers
  <2>3. ran'[s] = ran[s]
    BY <2>1 DEF Forward, TasksOK
  <2> QED
    BY <2>1, <2>2, <2>3 DEF Untouched, Hear, TasksOK
<1>12. CASE EndPassthrough(r)
  BY <1>12, EndOthers DEF EndPassthrough, Untouched, Receive, TasksOK
<1>13. CASE EndUnknown(r)
  BY <1>13, EndOthers DEF EndUnknown, Untouched, Receive, TasksOK
<1>14. CASE EndToolCall(r)
  BY <1>14, EndOthers DEF EndToolCall, Untouched, Receive, TasksOK
<1> QED
  BY <1>1, <1>2, <1>3, <1>4, <1>5, <1>6, <1>7, <1>8, <1>9, <1>10, <1>11, <1>12,
     <1>13, <1>14 DEF Begin, Continue

\* A request that no step touched is in the phase it was in.
LEMMA PhaseUntouched ==
  ASSUME NEW s \in Requests, Phase(s), Untouched(s)
  PROVE  Phase(s)'
  BY DEF Phase, Untouched, Permitted, Sifted, LastAsked

\* The answers that a task gives without a reply of a backend to a tool call.
LEMMA AnswerFields ==
  /\ ~Stops(ServerError.policy) /\ ServerError.body \notin {"backend", "canned"}
  /\ Refusal.body \notin {"backend", "canned"} /\ Fallback.body \notin {"backend", "canned"}
  /\ NoAnswer.body \notin {"backend", "canned"} /\ ~Stops(NoAnswer.policy)
  /\ \A status, policy, body :
       /\ Answer(status, policy, body).policy = policy
       /\ Answer(status, policy, body).body = body
  BY DEF ServerError, Refusal, Fallback, NoAnswer, Answer, Stops

\* A request for which no tool was run and that gets no content of a backend.
LEMMA PhaseNotRun ==
  ASSUME NEW r \in Requests, pc'[r] = "done", ~ran'[r],
         http'[r].body \notin {"backend", "canned"}
  PROVE  Phase(r)'
  BY DEF Phase, Sifted

\* A request that is no tool call.
LEMMA PhaseOther ==
  ASSUME NEW r \in Requests, pc'[r] \in {"done", "passing", "unknown"},
         ~IsToolCall(req'[r].method), pc'[r] # "done" => http'[r] = NoAnswer
  PROVE  Phase(r)'
  BY DEF Phase

\* A task that finishes has one of the renderings of its answer.
LEMMA FinishLocal ==
  ASSUME TasksOK, NEW r \in Requests, NEW answer, Finish(r, answer)
  PROVE  pc'[r] = "done" /\ http'[r] \in {answer, ServerError}
  BY FinishEffect DEF TasksOK

\* The same after emitting.
LEMMA EmitThenFinishLocal ==
  ASSUME TasksOK, NEW r \in Requests, NEW es, NEW answer, NEW onError,
         EmitThenFinish(r, es, answer, onError)
  PROVE  pc'[r] = "done" /\ http'[r] \in {answer, onError, ServerError}
  BY FinishLocal DEF EmitThenFinish

\* A request of which enforce() is told that nothing blocks it goes to OPA.
LEMMA ToOpa ==
  ASSUME TasksOK, NEW r \in Requests, Phase(r), NEW q \in Arrivals, Arrive(r, q),
         IsToolCall(q.method), ~InputBlocked(q), Suspend(r, "opa1"), UNCHANGED ran
  PROVE  Phase(r)'
<1>1. /\ pc'[r] = "opa1" /\ req'[r] = q /\ asked'[r] = << >> /\ ~ran'[r]
      /\ http'[r] = NoAnswer
  BY DEF TasksOK, Arrive, Suspend, Phase
<1> QED
  BY <1>1, AnswerFields DEF Phase, Sifted

\* Every step of a task leads its request to a phase that allows what it did.
LEMMA PhaseStep ==
  ASSUME TasksOK, NEW r \in Requests, Phase(r), Begin(r) \/ Continue(r)
  PROVE  Phase(r)'
<1> USE AnswerFields
<1>1. CASE Reject(r)
  <2>1. PICK status \in {400, 401} : Finish(r, Answer(status, "none", "none"))
    BY <1>1 DEF Reject
  <2>2. pc'[r] = "done" /\ http'[r].body \notin {"backend", "canned"}
    BY <2>1, FinishLocal
  <2>3. ~ran'[r]
    BY <1>1 DEF Reject, Phase
  <2> QED
    BY <2>2, <2>3, PhaseNotRun
<1>2. CASE RateLimited(r)
  <2>1. pc'[r] = "done" /\ http'[r].body \notin {"backend", "canned"}
    BY <1>2, EmitThenFinishLocal DEF RateLimited
  <2>2. ~ran'[r]
    BY <1>2 DEF RateLimited, Arrive, Phase
  <2> QED
    BY <2>1, <2>2, PhaseNotRun
<1>3. CASE StartPassthrough(r)
  <2>1. PICK q \in Arrivals : /\ IsPassthrough(q.method) /\ Arrive(r, q)
                              /\ Forward(r, q.known, "passing", Refusal)
    BY <1>3 DEF StartPassthrough
  <2>2. ~IsToolCall(req'[r].method)
    BY <2>1 DEF Arrive, TasksOK, IsPassthrough, PASSTHROUGH_METHODS, IsToolCall
  <2>3. pc'[r] \in {"done", "passing"} /\ (pc'[r] # "done" => http'[r] = NoAnswer)
    BY <2>1, FinishLocal DEF Forward, Suspend, Arrive, TasksOK, Phase
  <2> QED
    BY <2>2, <2>3, PhaseOther
<1>4. CASE StartUnknown(r)
  <2>1. PICK q \in Arrivals : /\ IsUnknown(q.method) /\ Arrive(r, q)
                              /\ Forward(r, q.known, "unknown", Fallback)
    BY <1>4 DEF StartUnknown
  <2>2. ~IsToolCall(req'[r].method)
    BY <2>1 DEF Arrive, TasksOK, IsUnknown
  <2>3. pc'[r] \in {"done", "unknown"} /\ (pc'[r] # "done" => http'[r] = NoAnswer)
    BY <2>1, FinishLocal DEF Forward, Suspend, Arrive, TasksOK, Phase
  <2> QED
    BY <2>2, <2>3, PhaseOther
<1>5. CASE StartMalformed(r)
  <2>1. pc'[r] = "done" /\ http'[r].body \notin {"backend", "canned"}
    BY <1>5, FinishLocal DEF StartMalformed
  <2>2. ~ran'[r]
    BY <1>5 DEF StartMalformed, Arrive, Phase
  <2> QED
    BY <2>1, <2>2, PhaseNotRun
<1>6. CASE StartClean(r)
  <2>1. PICK q \in Arrivals : /\ IsToolCall(q.method) /\ ~InputFindings(q)
                              /\ Arrive(r, q) /\ Suspend(r, "opa1")
    BY <1>6 DEF StartClean
  <2> QED
    BY <1>6, <2>1, ToOpa DEF InputBlocked, StartClean
<1>7. CASE StartWithFindings(r)
  <2>1. PICK q \in Arrivals :
          /\ IsToolCall(q.method) /\ Arrive(r, q)
          /\ \/ Finish(r, ServerError)
             \/ Finish(r, Refusal)
             \/ ~InputBlocked(q) /\ Suspend(r, "opa1")
    BY <1>7 DEF StartWithFindings
  <2>2. UNCHANGED ran
    BY <1>7 DEF StartWithFindings
  <2>3. CASE ~InputBlocked(q) /\ Suspend(r, "opa1")
    BY <2>1, <2>2, <2>3, ToOpa
  <2>4. CASE Finish(r, ServerError) \/ Finish(r, Refusal)
    <3>1. pc'[r] = "done" /\ http'[r].body \notin {"backend", "canned"}
      BY <2>4, FinishLocal
    <3>2. ~ran'[r]
      BY <2>1, <2>2 DEF Arrive, Phase
    <3> QED
      BY <3>1, <3>2, PhaseNotRun
  <2> QED
    BY <2>1, <2>3, <2>4
<1>8. CASE OpaTransient(r)
  <2>1. pc[r] = "opa1" /\ asked[r] = << >>
    BY <1>8 DEF OpaTransient, Phase
  <2>2. asked'[r] = <<"transient">>
    BY <1>8, <2>1 DEF OpaTransient, Hear, TasksOK
  <2>3. pc'[r] = "backoff" /\ http'[r] = NoAnswer
    BY <1>8, <2>1 DEF OpaTransient, Suspend, TasksOK, Phase
  <2> QED
    BY <1>8, <2>1, <2>2, <2>3 DEF OpaTransient, Hear, Phase, Sifted, InputBlocked, InputFindings
<1>9. CASE OpaRetry(r)
  <2>1. pc'[r] = "opa2" /\ http'[r] = NoAnswer
    BY <1>9 DEF OpaRetry, Suspend, TasksOK, Phase
  <2> QED
    BY <1>9, <2>1 DEF OpaRetry, Phase, Sifted, InputBlocked, InputFindings
<1>10. CASE OpaRaises(r)
  <2>1. pc'[r] = "done" /\ http'[r].body \notin {"backend", "canned"}
    BY <1>10, FinishLocal DEF OpaRaises
  <2>2. ~ran'[r]
    BY <1>10 DEF OpaRaises, Hear, AwaitsOpa, Phase
  <2> QED
    BY <2>1, <2>2, PhaseNotRun
<1>11. CASE Decides(r)
  <2>1. PICK o \in OpaOutcomes \ {"bad_body"} :
          /\ o = "transient" => pc[r] = "opa2"
          /\ Hear(r, o)
          /\ verdict' = [verdict EXCEPT ![r] = DecisionOf(o)]
          /\ \/ /\ \E es : EmitThenFinish(r, es, Answer(200, DecisionOf(o), "error"),
                                          ServerError)
                /\ UNCHANGED ran
             \/ /\ ~Stops(DecisionOf(o))
                /\ Forward(r, req[r].known, "forward", Refusal)
    BY <1>11, ZenonT(40) DEF Decides
  <2>2. /\ asked[r] = IF pc[r] = "opa1" THEN << >> ELSE <<"transient">>
        /\ ~ran[r] /\ ~InputBlocked(req[r]) /\ req'[r] = req[r]
        /\ pc[r] \in {"opa1", "opa2"} /\ http[r] = NoAnswer
    BY <2>1 DEF Phase, Hear, AwaitsOpa
  <2>3. CASE /\ \E es : EmitThenFinish(r, es, Answer(200, DecisionOf(o), "error"),
                                       ServerError)
             /\ UNCHANGED ran
    <3>1. pc'[r] = "done" /\ http'[r].body \notin {"backend", "canned"}
      BY <2>3, EmitThenFinishLocal
    <3> QED
      BY <2>2, <2>3, <3>1, PhaseNotRun
  <2>4. CASE ~Stops(DecisionOf(o)) /\ Forward(r, req[r].known, "forward", Refusal)
    <3>1. CASE ~req[r].known
      <4>1. pc'[r] = "done" /\ http'[r].body \notin {"backend", "canned"}
        BY <2>4, <3>1, FinishLocal DEF Forward
      <4>2. ~ran'[r]
        BY <2>4, <3>1 DEF Forward, TasksOK
      <4> QED
        BY <4>1, <4>2, PhaseNotRun
    <3>2. CASE req[r].known
      <4>1. pc'[r] = "forward" /\ http'[r] = NoAnswer
        BY <2>2, <2>4, <3>2 DEF Forward, Suspend, TasksOK
      <4>2. asked'[r] = Append(asked[r], o)
        BY <2>1 DEF Hear, TasksOK
      <4>3. /\ Len(asked'[r]) > 0 /\ asked'[r][Len(asked'[r])] = o
            /\ pc[r] = "opa2" => Len(asked'[r]) = 2
        BY <2>2, <4>2
      <4>4. \/ o \in {"allow", "other", "malformed"}
            \/ ~FailClosed /\ o \in OpaFailures
        BY <2>4 DEF Stops, DecisionOf, OpaOutcomes, OpaResults
      <4>5. DlpEnabled /\ req'[r].sev > 0 =>
              req'[r].sev < BlockLevel(DlpBlockSeverity)
        <5>1. req[r].sev \in 0..4
          <6>1. \A q \in Arrivals : q.sev \in 0..4
            BY PipelineAssumption DEF Arrivals
          <6>2. NoRequest.sev \in 0..4
            BY DEF NoRequest
          <6> QED
            BY <6>1, <6>2 DEF TasksOK
        <5>2. BlockLevel(DlpBlockSeverity) \in 0..4
          BY BlockLevelType
        <5> QED
          BY <2>2, <5>1, <5>2 DEF InputBlocked, InputFindings
      <4>6. Permitted(r)'
        BY <2>1, <4>3, <4>4, <4>5 DEF Permitted, LastAsked
      <4>7. verdict'[r] = DecisionOf(o)
        BY <2>1 DEF TasksOK
      <4> QED
        BY <2>4, <4>1, <4>6, <4>7 DEF Phase, Sifted
    <3> QED
      BY <3>1, <3>2
  <2> QED
    BY <2>1, <2>3, <2>4
<1>12. CASE EndPassthrough(r)
  <2>1. pc'[r] = "done"
    BY <1>12, EmitThenFinishLocal DEF EndPassthrough
  <2>2. ~IsToolCall(req'[r].method)
    BY <1>12 DEF EndPassthrough, Receive, Phase
  <2> QED
    BY <2>1, <2>2, PhaseOther
<1>13. CASE EndUnknown(r)
  <2>1. pc'[r] = "done"
    BY <1>13, FinishLocal DEF EndUnknown
  <2>2. ~IsToolCall(req'[r].method)
    BY <1>13 DEF EndUnknown, Receive, Phase
  <2> QED
    BY <2>1, <2>2, PhaseOther
<1>14. CASE EndToolCall(r)
  <2>1. PICK b \in Replies :
          /\ Receive(r, "forward", b)
          /\ EmitThenFinish(r, ReplyEvents(b), ToolAnswer(verdict[r], b), ServerError)
    BY <1>14 DEF EndToolCall
  <2>2. pc'[r] = "done" /\ http'[r] \in {ToolAnswer(verdict[r], b), ServerError}
    BY <2>1, EmitThenFinishLocal
  <2>3. /\ req'[r] = req[r] /\ verdict'[r] = verdict[r] /\ asked'[r] = asked[r]
        /\ ran'[r] = ran[r] /\ reply'[r] = b
    BY <2>1 DEF Receive, TasksOK
  <2>4. ToolAnswer(verdict[r], b).policy \in {verdict[r], "none"}
    BY DEF ToolAnswer, ServerError, Answer
  <2>5. IsToolCall(req'[r].method) /\ ran'[r] =>
          Permitted(r)' /\ ~Stops(verdict'[r]) /\ ~Stops(http'[r].policy)
    <3>1. ~Stops("none")
      BY DEF Stops
    <3>2. Permitted(r) => Permitted(r)'
      BY <2>3 DEF Permitted, LastAsked
    <3> QED
      BY <2>2, <2>3, <2>4, <3>1, <3>2 DEF Phase
  <2>6. Sifted(r)'
    <3>1. InboundBlocked(b) <=> InboundEnabled /\ b.readable /\ Injected(b)
      BY DEF InboundBlocked, InboundFindings, Injected
    <3>2. ToolAnswer(verdict[r], b).body \in {"backend", "canned"} =>
            (ToolAnswer(verdict[r], b).body = "canned" <=> InboundBlocked(b))
      BY DEF ToolAnswer, ServerError, Answer
    <3>3. ServerError.body \notin {"backend", "canned"}
      BY AnswerFields
    <3> QED
      BY <2>2, <2>3, <3>1, <3>2, <3>3 DEF Sifted
  <2> QED
    BY <2>2, <2>5, <2>6 DEF Phase
<1> QED
  BY <1>1, <1>2, <1>3, <1>4, <1>5, <1>6, <1>7, <1>8, <1>9, <1>10, <1>11, <1>12,
     <1>13, <1>14 DEF Begin, Continue

\* The phases hold in every state.
LEMMA GovernanceInvariant == Spec => []GovernanceInv
<1>1. Init => GovernanceInv
  BY AnswerFields DEF Init, GovernanceInv, Phase, Sifted
<1>2. TypeOK /\ GovernanceInv /\ [Next]_vars => GovernanceInv'
  <2> SUFFICES ASSUME TypeOK, GovernanceInv, [Next]_vars, NEW s \in Requests
               PROVE  Phase(s)'
    BY DEF GovernanceInv
  <2>1. CASE Next
    <3>1. PICK r \in Requests : Begin(r) \/ Continue(r)
      BY <2>1 DEF Next
    <3>2. CASE s = r
      BY <3>1, <3>2, PhaseStep, TypeHalves DEF GovernanceInv
    <3>3. CASE s # r
      BY <3>1, <3>3, OthersUntouched, PhaseUntouched, TypeHalves DEF GovernanceInv
    <3> QED
      BY <3>2, <3>3
  <2>2. CASE UNCHANGED vars
    BY <2>2, PhaseUntouched DEF vars, Untouched, GovernanceInv
  <2> QED
    BY <2>1, <2>2
<1> QED
  BY <1>1, <1>2, TypeCorrect, PTL DEF Spec

\* No tool call reaches a backend without a decision of OPA that lets it pass, or
\* the configured fail-open after a failure, nor with input at the blocking
\* severity: whatever the number of tasks in decide() and enforce().
THEOREM ToolCallsAreGoverned == Spec => []NoUngovernedForward
<1>1. GovernanceInv => NoUngovernedForward
  BY DEF GovernanceInv, Phase, Permitted, NoUngovernedForward
<1> QED
  BY <1>1, GovernanceInvariant, PTL

\* A client told deny or escalate by enforce() knows that the tool did not run.
THEOREM DenialsAreFinal == Spec => []DenyMeansNotRun
<1>1. GovernanceInv => DenyMeansNotRun
  BY DEF GovernanceInv, Phase, Stops, DenyMeansNotRun
<1> QED
  BY <1>1, GovernanceInvariant, PTL

\* What an agent receives of a tool call is the reply of the backend, unless the text
\* that is read of it has an injection of the blocking severity: exactly then it is
\* the canned content.  A reply of which nothing is read is not replaced.
THEOREM ReadableInjectionsAreReplaced == Spec => []ReadableInjectionReplaced
<1>1. GovernanceInv => ReadableInjectionReplaced
  BY DEF GovernanceInv, Phase, Sifted, Delivered, ReadableInjectionReplaced
<1> QED
  BY <1>1, GovernanceInvariant, PTL

-----------------------------------------------------------------------------
(* The audit trail.  What a request has in the log changes only with its own   *)
(* segments, and only grows.                                                   *)

\* The same for what the log holds of a request.
LogsUntouched(s) == out'[s] = out[s] /\ file'[s] = file[s]

\* The log of a request in one output is the old one with some of the events, or,
\* when the segment got through, all of them.
LEMMA EmitAppends ==
  ASSUME LogsOK, NEW r \in Requests, NEW es \in Seq(EventTypes),
         NEW e \in Emissions(es), Emit(r, es, e)
  PROVE  /\ \E n \in 0..Len(es) : /\ out'[r] = out[r] \o SubSeq(es, 1, n)
                                  /\ Complete(es, e) => n = Len(es)
         /\ \E n \in 0..Len(es) :
              /\ file'[r] = IF FileLog THEN file[r] \o SubSeq(es, 1, n) ELSE file[r]
              /\ Complete(es, e) => n = Len(es)
         /\ \A s \in Requests \ {r} : LogsUntouched(s)
<1>1. /\ e.n \in 0..Len(es) /\ e.printed \in BOOLEAN
      /\ e.printed => e.n < Len(es)
  BY DEF Emissions
<1>2. Len(es) \in Nat
  BY LenProperties
<1> DEFINE n == IF e.printed THEN e.n + 1 ELSE e.n
<1>3. n \in 0..Len(es) /\ (Complete(es, e) => n = Len(es) /\ e.n = Len(es))
  BY <1>1, <1>2 DEF Complete
<1>4. out \in Logs /\ file \in Logs
  BY DEF LogsOK
<1>5. /\ out'[r] = out[r] \o SubSeq(es, 1, n)
      /\ file'[r] = IF FileLog THEN file[r] \o SubSeq(es, 1, e.n) ELSE file[r]
  BY <1>4 DEF Emit, Logs
<1>6. \A s \in Requests \ {r} : LogsUntouched(s)
  BY <1>4 DEF Emit, Logs, LogsUntouched
<1> HIDE DEF n
<1> QED
  BY <1>1, <1>3, <1>5, <1>6

\* A log, or the events of a segment, has an event of the type.
Holds(log, type) == \E i \in 1..Len(log) : log[i] = type

\* A type of event is in a joined log if it is in one of the parts.
LEMMA JoinedEvents ==
  ASSUME NEW s \in Seq(EventTypes), NEW t \in Seq(EventTypes), NEW type
  PROVE  Holds(s \o t, type) <=> Holds(s, type) \/ Holds(t, type)
<1>1. Len(s) \in Nat /\ Len(t) \in Nat
  BY LenProperties
<1> DEFINE st == s \o t
<1>2. /\ Len(st) = Len(s) + Len(t)
      /\ \A i \in 1..Len(s) + Len(t) : st[i] = IF i <= Len(s) THEN s[i] ELSE t[i - Len(s)]
  BY ConcatProperties
<1> HIDE DEF st
<1>3. \A i \in 1..Len(s) : i \in 1..Len(st) /\ st[i] = s[i]
  BY <1>1, <1>2
<1>4. \A i \in 1..Len(t) : Len(s) + i \in 1..Len(st) /\ st[Len(s) + i] = t[i]
  <2> TAKE i \in 1..Len(t)
  <2>1. /\ Len(s) + i \in 1..Len(s) + Len(t) /\ ~(Len(s) + i <= Len(s))
        /\ (Len(s) + i) - Len(s) = i
    BY <1>1
  <2> QED
    BY <1>2, <2>1
<1>5. \A i \in 1..Len(st) : \/ i \in 1..Len(s) /\ st[i] = s[i]
                            \/ i - Len(s) \in 1..Len(t) /\ st[i] = t[i - Len(s)]
  <2> TAKE i \in 1..Len(st)
  <2>1. i \in 1..Len(s) + Len(t)
    BY <1>2
  <2>2. st[i] = IF i <= Len(s) THEN s[i] ELSE t[i - Len(s)]
    BY <1>2, <2>1
  <2> QED
    BY <1>1, <2>1, <2>2
<1>6. Holds(st, type) <=> Holds(s, type) \/ Holds(t, type)
  BY <1>3, <1>4, <1>5 DEF Holds
<1> QED
  BY <1>6 DEF st

\* An event is in a longer log if it was in the log or is among those added.
LEMMA AppendedEvents ==
  ASSUME NEW log \in Seq(EventTypes), NEW es \in Seq(EventTypes), NEW n \in 0..Len(es),
         NEW type
  PROVE  /\ Holds(log, type) => Holds(log \o SubSeq(es, 1, n), type)
         /\ n = Len(es) /\ Holds(es, type) => Holds(log \o SubSeq(es, 1, n), type)
         /\ ~Holds(es, type) /\ Holds(log \o SubSeq(es, 1, n), type) => Holds(log, type)
<1> DEFINE part == SubSeq(es, 1, n)
<1>1. Len(es) \in Nat /\ n \in Nat /\ n <= Len(es)
  BY LenProperties
<1>2. \A i \in 1..n : es[i] \in EventTypes
  BY <1>1, ElementOfSeq
<1>3. /\ part \in Seq(EventTypes) /\ Len(part) = n
      /\ \A i \in 1..n : part[i] = es[i]
  BY <1>1, <1>2, SubSeqProperties
<1> HIDE DEF part
<1>4. Holds(log \o part, type) <=> Holds(log, type) \/ Holds(part, type)
  BY <1>3, JoinedEvents
<1>5. Holds(part, type) => Holds(es, type)
  <2>1. \A i \in 1..n : i \in 1..Len(es)
    BY <1>1
  <2> QED
    BY <1>3, <2>1 DEF Holds
<1>6. n = Len(es) /\ Holds(es, type) => Holds(part, type)
  BY <1>3 DEF Holds
<1> QED
  BY <1>4, <1>5, <1>6 DEF part

\* Being recorded is being in the log of every output.
LEMMA RecordedHolds ==
  ASSUME NEW r, NEW type
  PROVE  /\ Recorded(r, type) <=> /\ Holds(out[r], type)
                                  /\ FileLog => Holds(file[r], type)
         /\ Recorded(r, type)' <=> /\ Holds(out'[r], type)
                                   /\ FileLog => Holds(file'[r], type)
BY DEF Recorded, Holds

\* What is recorded stays recorded; a segment that got through recorded its
\* events; and no other event becomes recorded.
LEMMA EmitRecords ==
  ASSUME LogsOK, NEW r \in Requests, NEW es \in Seq(EventTypes),
         NEW e \in Emissions(es), Emit(r, es, e), NEW type
  PROVE  /\ Recorded(r, type) => Recorded(r, type)'
         /\ Complete(es, e) /\ Holds(es, type) => Recorded(r, type)'
         /\ ~Holds(es, type) => (Recorded(r, type)' => Recorded(r, type))
<1>1. out[r] \in Seq(EventTypes) /\ file[r] \in Seq(EventTypes)
  BY DEF LogsOK, Logs
<1>2. PICK n \in 0..Len(es) : /\ out'[r] = out[r] \o SubSeq(es, 1, n)
                              /\ Complete(es, e) => n = Len(es)
  BY EmitAppends
<1>3. PICK m \in 0..Len(es) :
        /\ file'[r] = IF FileLog THEN file[r] \o SubSeq(es, 1, m) ELSE file[r]
        /\ Complete(es, e) => m = Len(es)
  BY EmitAppends
<1>4. /\ Holds(out[r], type) => Holds(out'[r], type)
      /\ n = Len(es) /\ Holds(es, type) => Holds(out'[r], type)
      /\ ~Holds(es, type) /\ Holds(out'[r], type) => Holds(out[r], type)
  BY <1>1, <1>2, AppendedEvents
<1>5. FileLog =>
      /\ Holds(file[r], type) => Holds(file'[r], type)
      /\ m = Len(es) /\ Holds(es, type) => Holds(file'[r], type)
      /\ ~Holds(es, type) /\ Holds(file'[r], type) => Holds(file[r], type)
  BY <1>1, <1>3, AppendedEvents
<1> QED
  BY <1>2, <1>3, <1>4, <1>5, RecordedHolds

\* A step that writes nothing of a request records nothing of it.
LEMMA SilentRecords ==
  ASSUME NEW r, NEW type, Silent \/ LogsUntouched(r)
  PROVE  Recorded(r, type)' <=> Recorded(r, type)
BY DEF Silent, LogsUntouched, Recorded

\* A segment that emits and ends its task either got through, with its events
\* recorded, or gives no answer but the one for errors.
LEMMA EmitOutcome ==
  ASSUME TasksOK, LogsOK, NEW r \in Requests, NEW es \in Seq(EventTypes), NEW answer,
         NEW onError, EmitThenFinish(r, es, answer, onError)
  PROVE  /\ pc'[r] = "done"
         /\ \A s \in Requests \ {r} : LogsUntouched(s)
         /\ \A type : /\ Recorded(r, type) => Recorded(r, type)'
                      /\ ~Holds(es, type) => (Recorded(r, type)' => Recorded(r, type))
         /\ \/ /\ http'[r] \in {answer, ServerError}
               /\ \A type : Holds(es, type) => Recorded(r, type)'
            \/ http'[r] \in {onError, ServerError}
<1>1. PICK e \in Emissions(es) :
        /\ Emit(r, es, e)
        /\ Finish(r, IF Complete(es, e) THEN answer ELSE onError)
  BY DEF EmitThenFinish
<1>2. \A s \in Requests \ {r} : LogsUntouched(s)
  BY <1>1, EmitAppends
<1>3. \A type : /\ Recorded(r, type) => Recorded(r, type)'
                /\ Complete(es, e) /\ Holds(es, type) => Recorded(r, type)'
                /\ ~Holds(es, type) => (Recorded(r, type)' => Recorded(r, type))
  BY <1>1, EmitRecords
<1>4. /\ pc'[r] = "done"
      /\ \/ Complete(es, e) /\ http'[r] \in {answer, ServerError}
         \/ http'[r] \in {onError, ServerError}
  BY <1>1, FinishLocal
<1> QED
  BY <1>2, <1>3, <1>4

\* The types of events a segment emits.
LEMMA HoldsEvents ==
  /\ \A s, type : Holds(<<s>>, type) <=> type = s
  /\ \A b : /\ Holds(ReplyEvents(b), "tool_call")
            /\ InboundFindings(b) => Holds(ReplyEvents(b), "inbound_finding")
            /\ OutputFindings(b) => Holds(ReplyEvents(b), "dlp_finding")
            /\ ~Holds(ReplyEvents(b), "passthrough")
<1>1. ASSUME NEW s, NEW type PROVE Holds(<<s>>, type) <=> type = s
  BY DEF Holds
<1>2. ASSUME NEW type PROVE ~Holds(<< >>, type)
  BY DEF Holds
<1>3. ASSUME NEW b
      PROVE  /\ Holds(ReplyEvents(b), "tool_call")
             /\ InboundFindings(b) => Holds(ReplyEvents(b), "inbound_finding")
             /\ OutputFindings(b) => Holds(ReplyEvents(b), "dlp_finding")
             /\ ~Holds(ReplyEvents(b), "passthrough")
  <2> DEFINE found == IF OutputFindings(b) THEN <<"dlp_finding">> ELSE << >>
             bad   == IF InboundFindings(b) THEN <<"inbound_finding">> ELSE << >>
             last  == <<"tool_call">>
  <2>1. ReplyEvents(b) = (found \o bad) \o last
    BY DEF ReplyEvents, ScanEvents
  <2>2. /\ found \in Seq(EventTypes) /\ bad \in Seq(EventTypes)
        /\ last \in Seq(EventTypes)
    <3>1. /\ "dlp_finding" \in EventTypes /\ "inbound_finding" \in EventTypes
          /\ "tool_call" \in EventTypes
      BY DEF EventTypes
    <3> QED
      BY <3>1, EventsType, EmptySeq, Zenon
  <2>3. /\ ~Holds(found, "passthrough")
        /\ OutputFindings(b) => Holds(found, "dlp_finding")
        /\ InboundFindings(b) => Holds(bad, "inbound_finding")
        /\ ~Holds(bad, "passthrough")
        /\ Holds(last, "tool_call") /\ ~Holds(last, "passthrough")
    BY <1>1, <1>2
  <2> HIDE DEF found, bad, last
  <2>4. found \o bad \in Seq(EventTypes)
    BY <2>2, ConcatProperties
  <2>5. \A type : Holds((found \o bad) \o last, type)
                   <=> Holds(found, type) \/ Holds(bad, type) \/ Holds(last, type)
    <3> TAKE type
    <3>1. Holds((found \o bad) \o last, type) <=> Holds(found \o bad, type) \/ Holds(last, type)
      BY <2>2, <2>4, JoinedEvents
    <3>2. Holds(found \o bad, type) <=> Holds(found, type) \/ Holds(bad, type)
      BY <2>2, JoinedEvents
    <3> QED
      BY <3>1, <3>2
  <2> QED
    BY <2>1, <2>3, <2>5, Zenon
<1> QED
  BY <1>1, <1>3

\* A refusal that is not the policy's: the limiter's or that of the scan.
Explained(r) ==
  \/ IsPassthrough(req[r].method) \/ verdict[r] # "none"
  \/ Recorded(r, "rate_limit") \/ Recorded(r, "dlp_finding")

\* The conclusion of AuditBeforeAnswer for one request.
Accounted(r) ==
  /\ Delivered(r) /\ IsToolCall(req[r].method) => Recorded(r, "tool_call")
  /\ Delivered(r) /\ IsPassthrough(req[r].method) => Recorded(r, "passthrough")
  /\ Delivered(r) /\ IsToolCall(req[r].method) /\ InboundFindings(reply[r])
       => Recorded(r, "inbound_finding")
  /\ Delivered(r) /\ IsToolCall(req[r].method) /\ OutputFindings(reply[r])
       => Recorded(r, "dlp_finding")
  /\ http[r].policy = "deny" => Explained(r)
  /\ http[r].policy = "deny" /\ verdict[r] = "deny" => Recorded(r, "tool_deny")
  /\ http[r].policy = "escalate" => Recorded(r, "tool_escalate")

\* What is known of a request whose task is suspended: the decision falls behind
\* OPA and not before, and each wait for a backend is that of one kind of method.
Trail(r) ==
  /\ pc[r] \notin {"forward", "done"} => verdict[r] = "none"
  /\ pc[r] = "passing" => IsPassthrough(req[r].method)
  /\ pc[r] = "unknown" => IsUnknown(req[r].method)
  /\ pc[r] = "forward" => IsToolCall(req[r].method) /\ ~Stops(verdict[r])
  /\ Accounted(r)

TrailInv == \A r \in Requests : Trail(r)

\* A request that gets nothing of a backend and no decision.
LEMMA NothingToAccount ==
  ASSUME NEW r \in Requests, http'[r].body \notin {"backend", "canned"},
         http'[r].policy = "deny" => verdict'[r] # "deny" /\ Explained(r)',
         http'[r].policy # "escalate"
  PROVE  Accounted(r)'
BY DEF Accounted, Delivered

\* A request whose task ends with an answer that promises nothing.
LEMMA TrailEnds ==
  ASSUME NEW r \in Requests, pc'[r] = "done", verdict'[r] # "deny",
         http'[r] = Refusal => Explained(r)',
         \/ http'[r] \in {Refusal, Fallback, ServerError}
         \/ \E status : http'[r] = Answer(status, "none", "none")
  PROVE  Trail(r)'
<1>1. /\ \A status, policy, body : /\ Answer(status, policy, body).policy = policy
                                   /\ Answer(status, policy, body).body = body
      /\ Refusal = Answer(200, "deny", "error") /\ Fallback = Answer(200, "none", "empty")
      /\ ServerError = Answer(500, "none", "none")
  BY AnswerFields DEF Refusal, Fallback, ServerError
<1>3. /\ http'[r].body \notin {"backend", "canned"} /\ http'[r].policy # "escalate"
      /\ http'[r].policy = "deny" => Explained(r)'
  <2>1. CASE http'[r] \in {Refusal, Fallback, ServerError}
    BY <1>1, <2>1
  <2>2. CASE \E status : http'[r] = Answer(status, "none", "none")
    BY <1>1, <2>2
  <2> QED
    BY <2>1, <2>2
<1>2. Accounted(r)'
  BY <1>3, NothingToAccount
<1> QED
  BY <1>2 DEF Trail

\* A request whose task goes on.
LEMMA TrailWaits ==
  ASSUME NEW r \in Requests, pc'[r] \notin {"idle", "done"}, http'[r] = NoAnswer,
         pc'[r] # "forward" => verdict'[r] = "none",
         pc'[r] = "passing" => IsPassthrough(req'[r].method),
         pc'[r] = "unknown" => IsUnknown(req'[r].method),
         pc'[r] = "forward" => IsToolCall(req'[r].method) /\ ~Stops(verdict'[r])
  PROVE  Trail(r)'
<1>1. Accounted(r)'
  BY NothingToAccount DEF NoAnswer
<1> QED
  BY <1>1 DEF Trail

\* Every step of a task keeps the trail of its request.
LEMMA TrailStep ==
  ASSUME TasksOK, LogsOK, NEW r \in Requests, Phase(r), Trail(r), Begin(r) \/ Continue(r)
  PROVE  Trail(r)'
<1> USE HoldsEvents
<1>e. /\ <<"rate_limit">> \in Seq(EventTypes) /\ <<"dlp_finding">> \in Seq(EventTypes)
      /\ <<"tool_deny">> \in Seq(EventTypes) /\ <<"tool_escalate">> \in Seq(EventTypes)
      /\ <<"passthrough">> \in Seq(EventTypes)
  BY EventsType DEF EventTypes
<1>r. /\ ServerError # Refusal /\ Fallback # Refusal
      /\ \A status : Answer(status, "none", "none") # Refusal
  BY DEF ServerError, Fallback, Refusal, Answer
<1>1. CASE Reject(r)
  <2>1. PICK status \in {400, 401} : Finish(r, Answer(status, "none", "none"))
    BY <1>1 DEF Reject
  <2>2. pc'[r] = "done" /\ http'[r] \in {Answer(status, "none", "none"), ServerError}
    BY <2>1, FinishLocal
  <2>3. verdict'[r] # "deny"
    BY <1>1 DEF Reject, Trail
  <2> QED
    BY <1>r, <2>2, <2>3, TrailEnds
<1>2. CASE RateLimited(r)
  <2> DEFINE es == <<"rate_limit">>
  <2>1. es \in Seq(EventTypes) /\ Holds(es, "rate_limit")
    BY <1>e
  <2>2. EmitThenFinish(r, es, Refusal, ServerError)
    BY <1>2 DEF RateLimited
  <2> HIDE DEF es
  <2>3. /\ pc'[r] = "done"
        /\ \/ /\ http'[r] \in {Refusal, ServerError}
              /\ \A type : Holds(es, type) => Recorded(r, type)'
           \/ http'[r] \in {ServerError, ServerError}
    BY <2>1, <2>2, EmitOutcome
  <2>4. http'[r] = Refusal => Explained(r)'
    BY <1>r, <2>1, <2>3 DEF Explained
  <2>5. verdict'[r] # "deny"
    BY <1>2 DEF RateLimited, Arrive, Trail
  <2> QED
    BY <2>3, <2>4, <2>5, TrailEnds
<1>3. CASE StartPassthrough(r)
  <2>1. PICK q \in Arrivals : /\ IsPassthrough(q.method) /\ Arrive(r, q)
                              /\ Forward(r, q.known, "passing", Refusal)
    BY <1>3 DEF StartPassthrough
  <2>2. req'[r] = q /\ verdict'[r] = "none"
    BY <1>3, <2>1 DEF StartPassthrough, Arrive, TasksOK, Trail
  <2>3. \/ pc'[r] = "done" /\ http'[r] \in {Refusal, ServerError}
        \/ pc'[r] = "passing" /\ http'[r] = NoAnswer
    BY <2>1, FinishLocal DEF Forward, Suspend, Arrive, TasksOK, Phase
  <2>4. Explained(r)'
    BY <2>1, <2>2 DEF Explained
  <2> QED
    BY <2>1, <2>2, <2>3, <2>4, TrailEnds, TrailWaits
<1>4. CASE StartUnknown(r)
  <2>1. PICK q \in Arrivals : /\ IsUnknown(q.method) /\ Arrive(r, q)
                              /\ Forward(r, q.known, "unknown", Fallback)
    BY <1>4 DEF StartUnknown
  <2>2. req'[r] = q /\ verdict'[r] = "none"
    BY <1>4, <2>1 DEF StartUnknown, Arrive, TasksOK, Trail
  <2>3. \/ pc'[r] = "done" /\ http'[r] \in {Fallback, ServerError}
        \/ pc'[r] = "unknown" /\ http'[r] = NoAnswer
    BY <2>1, FinishLocal DEF Forward, Suspend, Arrive, TasksOK, Phase
  <2> QED
    BY <1>r, <2>1, <2>2, <2>3, TrailEnds, TrailWaits
<1>5. CASE StartMalformed(r)
  <2>1. pc'[r] = "done" /\ http'[r] = ServerError
    BY <1>5, FinishLocal DEF StartMalformed
  <2>2. verdict'[r] # "deny"
    BY <1>5 DEF StartMalformed, Arrive, Trail
  <2> QED
    BY <1>r, <2>1, <2>2, TrailEnds
<1>6. CASE StartClean(r)
  <2>1. pc'[r] = "opa1" /\ http'[r] = NoAnswer /\ verdict'[r] = "none"
    BY <1>6 DEF StartClean, Arrive, Suspend, TasksOK, Phase, Trail
  <2> QED
    BY <2>1, TrailWaits
<1>7. CASE StartWithFindings(r)
  <2> DEFINE es == <<"dlp_finding">>
  <2>0. es \in Seq(EventTypes) /\ Holds(es, "dlp_finding")
    BY <1>e
  <2>1. /\ pc[r] = "idle" /\ UNCHANGED verdict
        /\ \E e \in Emissions(es) :
             /\ Emit(r, es, e)
             /\ \/ ~Complete(es, e) /\ Finish(r, ServerError)
                \/ Complete(es, e) /\ Finish(r, Refusal)
                \/ Suspend(r, "opa1")
    BY <1>7 DEF StartWithFindings, Arrive
  <2> HIDE DEF es
  <2>2. verdict'[r] = "none"
    BY <2>1 DEF Trail
  <2>3. PICK e \in Emissions(es) :
          /\ Emit(r, es, e)
          /\ \/ ~Complete(es, e) /\ Finish(r, ServerError)
             \/ Complete(es, e) /\ Finish(r, Refusal)
             \/ Suspend(r, "opa1")
    BY <2>1
  <2>4. Complete(es, e) => Recorded(r, "dlp_finding")'
    BY <2>0, <2>3, EmitRecords
  <2>5. \/ pc'[r] = "done" /\ http'[r] = ServerError
        \/ Complete(es, e) /\ pc'[r] = "done" /\ http'[r] \in {Refusal, ServerError}
        \/ pc'[r] = "opa1" /\ http'[r] = NoAnswer
    BY <2>1, <2>3, FinishLocal DEF Suspend, TasksOK, Phase
  <2>6. pc'[r] = "done" /\ http'[r] = Refusal => Explained(r)'
    BY <1>r, <2>4, <2>5 DEF Explained
  <2> QED
    BY <2>2, <2>5, <2>6, TrailEnds, TrailWaits
<1>8. CASE OpaTransient(r)
  <2>1. pc'[r] = "backoff" /\ http'[r] = NoAnswer /\ verdict'[r] = "none"
    BY <1>8 DEF OpaTransient, Hear, Suspend, TasksOK, Phase, Trail
  <2> QED
    BY <2>1, TrailWaits
<1>9. CASE OpaRetry(r)
  <2>1. pc'[r] = "opa2" /\ http'[r] = NoAnswer /\ verdict'[r] = "none"
    BY <1>9 DEF OpaRetry, Suspend, TasksOK, Phase, Trail
  <2> QED
    BY <2>1, TrailWaits
<1>10. CASE OpaRaises(r)
  <2>1. pc'[r] = "done" /\ http'[r] = ServerError
    BY <1>10, FinishLocal DEF OpaRaises
  <2>2. verdict'[r] # "deny"
    BY <1>10 DEF OpaRaises, Hear, AwaitsOpa, Trail
  <2> QED
    BY <1>r, <2>1, <2>2, TrailEnds
<1>11. CASE Decides(r)
  <2>1. PICK o \in OpaOutcomes \ {"bad_body"} :
          /\ Hear(r, o)
          /\ verdict' = [verdict EXCEPT ![r] = DecisionOf(o)]
          /\ \/ /\ Stops(DecisionOf(o))
                /\ EmitThenFinish(r, IF DecisionOf(o) = "escalate"
                                     THEN <<"tool_escalate">> ELSE <<"tool_deny">>,
                                  Answer(200, DecisionOf(o), "error"), ServerError)
             \/ /\ ~Stops(DecisionOf(o))
                /\ Forward(r, req[r].known, "forward", Refusal)
    BY <1>11, ZenonT(40) DEF Decides
  <2> DEFINE d == DecisionOf(o)
             es == IF d = "escalate" THEN <<"tool_escalate">> ELSE <<"tool_deny">>
  <2>2. /\ req'[r] = req[r] /\ verdict'[r] = d /\ http[r] = NoAnswer
        /\ IsToolCall(req[r].method)
    BY <2>1 DEF Hear, AwaitsOpa, TasksOK, Phase
  <2>5. d # "none"
    BY DEF DecisionOf, OpaOutcomes, OpaFailures, OpaResults
  <2>6. Explained(r)'
    BY <2>2, <2>5 DEF Explained
  <2> HIDE DEF d
  <2>3. CASE Stops(d) /\ EmitThenFinish(r, es, Answer(200, d, "error"), ServerError)
    <3>1. es \in Seq(EventTypes)
      BY <1>e
    <3> HIDE DEF es
    <3>2. /\ pc'[r] = "done"
          /\ \/ /\ http'[r] \in {Answer(200, d, "error"), ServerError}
                /\ \A type : Holds(es, type) => Recorded(r, type)'
             \/ http'[r] = ServerError
      BY <2>3, <3>1, EmitOutcome
    <3>3. CASE http'[r] = ServerError
      <4>1. Accounted(r)'
        BY <3>3, NothingToAccount DEF ServerError, Answer
      <4> QED
        BY <3>2, <4>1 DEF Trail
    <3>4. CASE /\ http'[r] = Answer(200, d, "error")
               /\ \A type : Holds(es, type) => Recorded(r, type)'
      <4>1. http'[r].policy = d /\ ~Delivered(r)'
        BY <3>4 DEF Answer, Delivered
      <4>2. d = "escalate" => Recorded(r, "tool_escalate")'
        BY <3>4 DEF es
      <4>3. d = "deny" => Recorded(r, "tool_deny")'
        BY <3>4 DEF es
      <4>4. Accounted(r)'
        BY <2>2, <2>6, <4>1, <4>2, <4>3 DEF Accounted
      <4> QED
        BY <3>2, <4>4 DEF Trail
    <3> QED
      BY <3>2, <3>3, <3>4
  <2>4. CASE ~Stops(d) /\ Forward(r, req[r].known, "forward", Refusal)
    <3>1. \/ pc'[r] = "done" /\ http'[r] \in {Refusal, ServerError}
          \/ pc'[r] = "forward" /\ http'[r] = NoAnswer
      BY <2>2, <2>4, FinishLocal DEF Forward, Suspend, TasksOK
    <3>2. verdict'[r] # "deny"
      BY <2>2, <2>4 DEF Stops
    <3> QED
      BY <2>2, <2>4, <2>6, <3>1, <3>2, TrailEnds, TrailWaits
  <2> QED
    BY <2>1, <2>3, <2>4 DEF d
<1>12. CASE EndPassthrough(r)
  <2>1. PICK b \in PlainReplies :
          /\ Receive(r, "passing", b)
          /\ EmitThenFinish(r, <<"passthrough">>, Answer(200, "allow", "backend"), Refusal)
    BY <1>12 DEF EndPassthrough
  <2>2. verdict'[r] # "deny" /\ IsPassthrough(req'[r].method)
    BY <2>1 DEF Receive, Trail
  <2>3. /\ pc'[r] = "done"
        /\ \/ /\ http'[r] = Answer(200, "allow", "backend")
              /\ Recorded(r, "passthrough")'
           \/ http'[r] \in {Refusal, ServerError}
    <3> DEFINE es == <<"passthrough">>
    <3>1. es \in Seq(EventTypes) /\ Holds(es, "passthrough")
      BY <1>e
    <3> HIDE DEF es
    <3>2. EmitThenFinish(r, es, Answer(200, "allow", "backend"), Refusal)
      BY <2>1 DEF es
    <3>3. /\ pc'[r] = "done"
          /\ \/ /\ http'[r] \in {Answer(200, "allow", "backend"), ServerError}
                /\ \A type : Holds(es, type) => Recorded(r, type)'
             \/ http'[r] \in {Refusal, ServerError}
      BY <3>1, <3>2, EmitOutcome
    <3> QED
      BY <3>1, <3>3
  <2>4. CASE http'[r] \in {Refusal, ServerError}
    <3>1. Explained(r)'
      BY <2>2 DEF Explained
    <3> QED
      BY <2>2, <2>3, <2>4, <3>1, TrailEnds
  <2>5. CASE http'[r] = Answer(200, "allow", "backend") /\ Recorded(r, "passthrough")'
    <3>1. Accounted(r)'
      BY <2>2, <2>5, AnswerFields
         DEF Accounted, IsPassthrough, IsToolCall, PASSTHROUGH_METHODS
    <3> QED
      BY <2>3, <3>1 DEF Trail
  <2> QED
    BY <2>3, <2>4, <2>5
<1>13. CASE EndUnknown(r)
  <2>1. PICK b \in PlainReplies :
          Receive(r, "unknown", b) /\ Finish(r, Answer(200, "allow", "backend"))
    BY <1>13 DEF EndUnknown
  <2>2. IsUnknown(req'[r].method)
    BY <2>1 DEF Receive, Trail
  <2>3. pc'[r] = "done" /\ http'[r] \in {Answer(200, "allow", "backend"), ServerError}
    BY <2>1, FinishLocal
  <2>4. http'[r].policy \notin {"deny", "escalate"}
    BY <2>3 DEF Answer, ServerError
  <2>5. Accounted(r)'
    BY <2>2, <2>4 DEF Accounted, IsUnknown
  <2> QED
    BY <2>3, <2>5 DEF Trail
<1>14. CASE EndToolCall(r)
  <2>1. PICK b \in Replies :
          /\ Receive(r, "forward", b)
          /\ EmitThenFinish(r, ReplyEvents(b), ToolAnswer(verdict[r], b), ServerError)
    BY <1>14 DEF EndToolCall
  <2>2. /\ reply'[r] = b /\ req'[r] = req[r] /\ verdict'[r] = verdict[r]
        /\ IsToolCall(req[r].method) /\ ~Stops(verdict[r])
    BY <2>1 DEF Receive, Trail, TasksOK
  <2>3. /\ pc'[r] = "done"
        /\ \/ /\ http'[r] \in {ToolAnswer(verdict[r], b), ServerError}
              /\ Recorded(r, "tool_call")'
              /\ InboundFindings(b) => Recorded(r, "inbound_finding")'
              /\ OutputFindings(b) => Recorded(r, "dlp_finding")'
           \/ http'[r] = ServerError
    BY <2>1, EventsType, EmitOutcome
  <2>4. http'[r].policy \notin {"deny", "escalate"}
    BY <2>2, <2>3 DEF ToolAnswer, Answer, ServerError, Stops
  <2>5. Delivered(r)' => /\ Recorded(r, "tool_call")'
                         /\ InboundFindings(b) => Recorded(r, "inbound_finding")'
                         /\ OutputFindings(b) => Recorded(r, "dlp_finding")'
    BY <2>3 DEF Delivered, ServerError, Answer
  <2>6. ~IsPassthrough(req'[r].method)
    BY <2>2 DEF IsPassthrough, IsToolCall, PASSTHROUGH_METHODS
  <2>7. Accounted(r)'
    BY <2>2, <2>4, <2>5, <2>6 DEF Accounted
  <2> QED
    BY <2>3, <2>7 DEF Trail
<1> QED
  BY <1>1, <1>2, <1>3, <1>4, <1>5, <1>6, <1>7, <1>8, <1>9, <1>10, <1>11, <1>12,
     <1>13, <1>14 DEF Begin, Continue

\* A segment writes nothing, or its events, into the log of its own request.
LEMMA StepEmits ==
  ASSUME NEW r \in Requests, Begin(r) \/ Continue(r)
  PROVE  \/ Silent
         \/ \E es \in Seq(EventTypes) : \E e \in Emissions(es) : Emit(r, es, e)
<1>e. /\ <<"rate_limit">> \in Seq(EventTypes) /\ <<"dlp_finding">> \in Seq(EventTypes)
      /\ <<"tool_deny">> \in Seq(EventTypes) /\ <<"tool_escalate">> \in Seq(EventTypes)
      /\ <<"passthrough">> \in Seq(EventTypes)
  BY EventsType DEF EventTypes
<1>f. ASSUME NEW es \in Seq(EventTypes), NEW answer, NEW onError,
             EmitThenFinish(r, es, answer, onError)
      PROVE  \E fs \in Seq(EventTypes) : \E e \in Emissions(fs) : Emit(r, fs, e)
  BY <1>f DEF EmitThenFinish
<1>1. CASE RateLimited(r)
  BY <1>1, <1>e, <1>f DEF RateLimited
<1>2. CASE StartWithFindings(r)
  <2>1. \E e \in Emissions(<<"dlp_finding">>) : Emit(r, <<"dlp_finding">>, e)
    BY <1>2 DEF StartWithFindings
  <2> QED
    BY <2>1, <1>e
<1>3. CASE Decides(r)
  <2>1. \/ Silent
        \/ \E o, answer : EmitThenFinish(r, IF DecisionOf(o) = "escalate"
                                            THEN <<"tool_escalate">> ELSE <<"tool_deny">>,
                                         answer, ServerError)
    BY <1>3, ZenonT(40) DEF Decides
  <2>2. CASE ~Silent
    <3>1. PICK o, answer : EmitThenFinish(r, IF DecisionOf(o) = "escalate"
                                             THEN <<"tool_escalate">> ELSE <<"tool_deny">>,
                                          answer, ServerError)
      BY <2>1, <2>2
    <3> DEFINE es == IF DecisionOf(o) = "escalate" THEN <<"tool_escalate">> ELSE <<"tool_deny">>
    <3>2. es \in Seq(EventTypes) /\ EmitThenFinish(r, es, answer, ServerError)
      BY <1>e, <3>1
    <3> HIDE DEF es
    <3> QED
      BY <3>2, <1>f
  <2> QED
    BY <2>2
<1>4. CASE EndPassthrough(r)
  BY <1>4, <1>e, <1>f DEF EndPassthrough
<1>5. CASE EndToolCall(r)
  BY <1>5, <1>f, EventsType DEF EndToolCall
<1>6. CASE \/ Reject(r) \/ StartPassthrough(r) \/ StartUnknown(r) \/ StartMalformed(r)
           \/ StartClean(r) \/ OpaTransient(r) \/ OpaRetry(r) \/ OpaRaises(r)
           \/ EndUnknown(r)
  BY <1>6 DEF Reject, StartPassthrough, StartUnknown, StartMalformed, StartClean,
              OpaTransient, OpaRetry, OpaRaises, EndUnknown
<1> QED
  BY <1>1, <1>2, <1>3, <1>4, <1>5, <1>6 DEF Begin, Continue

\* No step of a task writes of the request of another task.
LEMMA OthersUnlogged ==
  ASSUME LogsOK, NEW r \in Requests, NEW s \in Requests \ {r}, Begin(r) \/ Continue(r)
  PROVE  LogsUntouched(s)
<1>1. CASE Silent
  BY <1>1 DEF Silent, LogsUntouched
<1>2. ASSUME NEW es \in Seq(EventTypes), NEW e \in Emissions(es), Emit(r, es, e)
      PROVE  LogsUntouched(s)
  BY <1>2, EmitAppends
<1> QED
  BY <1>1, <1>2, StepEmits

\* A request of which nothing changes keeps its trail.
LEMMA TrailUntouched ==
  ASSUME NEW s \in Requests, Trail(s), Untouched(s), LogsUntouched(s)
  PROVE  Trail(s)'
<1>1. \A type : Recorded(s, type)' <=> Recorded(s, type)
  BY SilentRecords
<1>2. Delivered(s)' <=> Delivered(s)
  BY DEF Delivered, Untouched
<1>3. Accounted(s)'
  BY <1>1, <1>2 DEF Accounted, Explained, Trail, Untouched
<1> QED
  BY <1>3 DEF Trail, Untouched

\* The trails hold in every state.
LEMMA TrailInvariant == Spec => []TrailInv
<1>1. Init => TrailInv
  BY DEF Init, TrailInv, Trail, Accounted, Delivered, NoAnswer
<1>2. TypeOK /\ GovernanceInv /\ TrailInv /\ [Next]_vars => TrailInv'
  <2> SUFFICES ASSUME TypeOK, GovernanceInv, TrailInv, [Next]_vars, NEW s \in Requests
               PROVE  Trail(s)'
    BY DEF TrailInv
  <2>1. TasksOK /\ LogsOK /\ Phase(s) /\ Trail(s)
    BY TypeHalves DEF GovernanceInv, TrailInv
  <2>2. CASE Next
    <3>1. PICK r \in Requests : Begin(r) \/ Continue(r)
      BY <2>2 DEF Next
    <3>2. CASE s = r
      BY <3>1, <3>2, <2>1, TrailStep
    <3>3. CASE s # r
      BY <3>1, <3>3, <2>1, OthersUntouched, OthersUnlogged, TrailUntouched
    <3> QED
      BY <3>2, <3>3
  <2>3. CASE UNCHANGED vars
    BY <2>1, <2>3, TrailUntouched DEF vars, Untouched, LogsUntouched
  <2> QED
    BY <2>2, <2>3
<1> QED
  BY <1>1, <1>2, TypeCorrect, GovernanceInvariant, PTL DEF Spec

\* What leaves an audit trail leaves it before it is answered: whatever writes of the
\* emitter fail, delivered content of a tool call or a pass-through, what the scans of
\* a delivered reply found, and a refusal by the limiter, the scan of the arguments or
\* the policy are on every configured output.
THEOREM AnswersAreAudited == Spec => []AuditBeforeAnswer
<1>1. TrailInv => AuditBeforeAnswer
  BY DEF TrailInv, Trail, Accounted, Explained, AuditBeforeAnswer
<1> QED
  BY <1>1, TrailInvariant, PTL

-----------------------------------------------------------------------------
(* The refinement of GovernedCalls.  What the mapping makes of one request is  *)
(* named first; one step of a task is then one of the few things that          *)
(* GovernedCalls lets happen to a request, or nothing.                         *)
KindOf(r) == IF req[r] = NoRequest THEN "none"
             ELSE IF IsToolCall(req[r].method) THEN "tool" ELSE "other"
InLog(r) == Recorded(r, "tool_call") \/ Recorded(r, "passthrough")

\* The steps of one request.
Stutters(r) ==
  /\ KindOf(r)' = KindOf(r) /\ Stage(r)' = Stage(r) /\ Told(r)' = Told(r)
  /\ InLog(r)' <=> InLog(r)
Rejected(r) ==
  /\ Stage(r) = "new" /\ Stage(r)' = "answered" /\ Told(r)' = "error"
  /\ KindOf(r)' = KindOf(r) /\ (InLog(r)' <=> InLog(r))
Begun(r) ==
  /\ Stage(r) = "new" /\ (InLog(r)' <=> InLog(r))
  /\ \/ KindOf(r)' = "tool" /\ Stage(r)' = "deciding" /\ Told(r)' = Told(r)
     \/ KindOf(r)' = "other" /\ Stage(r)' = "running" /\ Told(r)' = Told(r)
     \/ /\ KindOf(r)' \in {"tool", "other"} /\ Stage(r)' = "answered"
        /\ Told(r)' \in {"refusal", "error"}
Decided(r) ==
  /\ Stage(r) = "deciding" /\ KindOf(r)' = KindOf(r) /\ (InLog(r)' <=> InLog(r))
  /\ \/ Stage(r)' = "running" /\ Told(r)' = Told(r)
     \/ Stage(r)' = "answered" /\ Told(r)' \in {"refusal", "error"}
Answered(r) ==
  /\ Stage(r) = "running" /\ Stage(r)' = "answered"
  /\ KindOf(r)' = KindOf(r) /\ (InLog(r) => InLog(r)')
  /\ \/ Told(r)' = "content" /\ (KindOf(r) = "tool" => InLog(r)')
     \/ Told(r)' = "error"
     \/ Told(r)' = "refusal" /\ KindOf(r) = "other"

\* What the client of a task that ended was told.
LEMMA ToldOf ==
  ASSUME NEW r
  PROVE  /\ http'[r] \in {ServerError, Fallback} => Told(r)' = "error"
         /\ \A status \in {400, 401} :
              http'[r] = Answer(status, "none", "none") => Told(r)' = "error"
         /\ http'[r] = Refusal => Told(r)' = "refusal"
         /\ \A d : Stops(d) /\ http'[r] = Answer(200, d, "error") => Told(r)' = "refusal"
         /\ \A d : /\ ~Stops(d)
                   /\ http'[r] \in {Answer(200, d, "backend"), Answer(200, d, "canned")}
                   => Told(r)' = "content"
         /\ http'[r] = http[r] => Told(r)' = Told(r)
<1> USE DEF Told, Delivered, ServerError, Fallback, Refusal, Answer, NoAnswer, Stops
<1>1. /\ http'[r] \in {ServerError, Fallback} => Told(r)' = "error"
      /\ http'[r] = Refusal => Told(r)' = "refusal"
      /\ http'[r] = http[r] => Told(r)' = Told(r)
  OBVIOUS
<1>2. ASSUME NEW status \in {400, 401}, http'[r] = Answer(status, "none", "none")
      PROVE  Told(r)' = "error"
  BY <1>2
<1>3. ASSUME NEW d, Stops(d), http'[r] = Answer(200, d, "error")
      PROVE  Told(r)' = "refusal"
  BY <1>3
<1>4. ASSUME NEW d, ~Stops(d), \/ http'[r] = Answer(200, d, "backend")
                              \/ http'[r] = Answer(200, d, "canned")
      PROVE  Told(r)' = "content"
  BY <1>4
<1> QED
  BY <1>1, <1>2, <1>3, <1>4

\* A request that was accepted is one.
LEMMA ArrivedKind ==
  ASSUME NEW r \in Requests, NEW q \in Arrivals, TasksOK, Arrive(r, q)
  PROVE  /\ req'[r] = q /\ Stage(r) = "new"
         /\ KindOf(r)' = IF IsToolCall(q.method) THEN "tool" ELSE "other"
<1>1. q.method \in Methods
  BY DEF Arrivals
<1>2. q # NoRequest
  BY <1>1, PipelineAssumption DEF NoRequest
<1> QED
  BY <1>2 DEF Arrive, TasksOK, KindOf, Stage

\* Every step of a task is one that GovernedCalls knows, or a stutter.
LEMMA StepKeepsPromise ==
  ASSUME TasksOK, LogsOK, NEW r \in Requests, Phase(r), Trail(r), Begin(r) \/ Continue(r)
  PROVE  \/ Stutters(r) \/ Rejected(r) \/ Begun(r) \/ Decided(r) \/ Answered(r)
<1> USE HoldsEvents
<1>e. /\ <<"rate_limit">> \in Seq(EventTypes) /\ <<"dlp_finding">> \in Seq(EventTypes)
      /\ <<"tool_deny">> \in Seq(EventTypes) /\ <<"tool_escalate">> \in Seq(EventTypes)
      /\ <<"passthrough">> \in Seq(EventTypes)
  BY EventsType DEF EventTypes
<1>s. Silent => (InLog(r)' <=> InLog(r))
  BY SilentRecords DEF InLog
<1>n. ASSUME NEW es \in Seq(EventTypes), NEW e \in Emissions(es), Emit(r, es, e)
      PROVE  /\ InLog(r) => InLog(r)'
             /\ ~Holds(es, "tool_call") /\ ~Holds(es, "passthrough") => (InLog(r)' <=> InLog(r))
  BY <1>n, EmitRecords DEF InLog
<1>1. CASE Reject(r)
  <2>1. PICK status \in {400, 401} : Finish(r, Answer(status, "none", "none"))
    BY <1>1 DEF Reject
  <2>2. pc'[r] = "done" /\ http'[r] \in {Answer(status, "none", "none"), ServerError}
    BY <2>1, FinishLocal
  <2>3. Told(r)' = "error"
    BY <2>2, ToldOf
  <2>4. pc[r] = "idle" /\ KindOf(r)' = KindOf(r) /\ Silent
    BY <1>1 DEF Reject, KindOf
  <2> QED
    BY <2>2, <2>3, <2>4, <1>s DEF Rejected, Stage
<1>2. CASE RateLimited(r)
  <2>1. PICK q \in Arrivals :
          Arrive(r, q) /\ EmitThenFinish(r, <<"rate_limit">>, Refusal, ServerError)
    BY <1>2 DEF RateLimited
  <2>2. Told(r)' \in {"refusal", "error"} /\ pc'[r] = "done"
    BY <2>1, EmitThenFinishLocal, ToldOf
  <2>3. InLog(r)' <=> InLog(r)
    BY <2>1, <1>e, <1>n DEF EmitThenFinish
  <2> QED
    BY <2>1, <2>2, <2>3, ArrivedKind DEF Begun, Stage
<1>3. CASE StartPassthrough(r)
  <2>1. PICK q \in Arrivals : /\ IsPassthrough(q.method) /\ Arrive(r, q)
                              /\ Forward(r, q.known, "passing", Refusal)
    BY <1>3 DEF StartPassthrough
  <2>2. KindOf(r)' = "other" /\ Stage(r) = "new"
    BY <2>1, ArrivedKind DEF IsPassthrough, IsToolCall, PASSTHROUGH_METHODS
  <2>3. \/ pc'[r] = "done" /\ http'[r] \in {Refusal, ServerError}
        \/ pc'[r] = "passing" /\ http'[r] = http[r]
    BY <2>1, FinishLocal DEF Forward, Suspend, TasksOK
  <2>4. InLog(r)' <=> InLog(r)
    BY <1>3, <1>s DEF StartPassthrough
  <2> QED
    BY <2>2, <2>3, <2>4, ToldOf DEF Begun, Stage
<1>4. CASE StartUnknown(r)
  <2>1. PICK q \in Arrivals : /\ IsUnknown(q.method) /\ Arrive(r, q)
                              /\ Forward(r, q.known, "unknown", Fallback)
    BY <1>4 DEF StartUnknown
  <2>2. KindOf(r)' = "other" /\ Stage(r) = "new"
    BY <2>1, ArrivedKind DEF IsUnknown
  <2>3. \/ pc'[r] = "done" /\ http'[r] \in {Fallback, ServerError}
        \/ pc'[r] = "unknown" /\ http'[r] = http[r]
    BY <2>1, FinishLocal DEF Forward, Suspend, TasksOK
  <2>4. InLog(r)' <=> InLog(r)
    BY <1>4, <1>s DEF StartUnknown
  <2> QED
    BY <2>2, <2>3, <2>4, ToldOf DEF Begun, Stage
<1>5. CASE StartMalformed(r)
  <2>1. PICK q \in Arrivals : IsToolCall(q.method) /\ Arrive(r, q) /\ Finish(r, ServerError)
    BY <1>5 DEF StartMalformed
  <2>2. pc'[r] = "done" /\ Told(r)' = "error"
    BY <2>1, FinishLocal, ToldOf
  <2>3. InLog(r)' <=> InLog(r)
    BY <1>5, <1>s DEF StartMalformed
  <2> QED
    BY <2>1, <2>2, <2>3, ArrivedKind DEF Begun, Stage
<1>6. CASE StartClean(r)
  <2>1. PICK q \in Arrivals : IsToolCall(q.method) /\ Arrive(r, q) /\ Suspend(r, "opa1")
    BY <1>6 DEF StartClean
  <2>2. pc'[r] = "opa1" /\ Told(r)' = Told(r)
    BY <2>1, ToldOf DEF Suspend, TasksOK
  <2>3. InLog(r)' <=> InLog(r)
    BY <1>6, <1>s DEF StartClean
  <2> QED
    BY <2>1, <2>2, <2>3, ArrivedKind DEF Begun, Stage
<1>7. CASE StartWithFindings(r)
  <2>1. PICK q \in Arrivals, e \in Emissions(<<"dlp_finding">>) :
          /\ IsToolCall(q.method) /\ Arrive(r, q)
          /\ Emit(r, <<"dlp_finding">>, e)
          /\ Finish(r, ServerError) \/ Finish(r, Refusal) \/ Suspend(r, "opa1")
    BY <1>7 DEF StartWithFindings
  <2>2. \/ pc'[r] = "done" /\ http'[r] \in {Refusal, ServerError}
        \/ pc'[r] = "opa1" /\ http'[r] = http[r]
    BY <2>1, FinishLocal DEF Suspend, TasksOK
  <2>3. InLog(r)' <=> InLog(r)
    BY <2>1, <1>e, <1>n
  <2>4. KindOf(r)' = "tool" /\ Stage(r) = "new"
    BY <2>1, ArrivedKind
  <2> QED
    BY <2>2, <2>3, <2>4, ToldOf DEF Begun, Stage
<1>8. CASE OpaTransient(r)
  <2>1. /\ pc[r] = "opa1" /\ pc'[r] = "backoff" /\ http'[r] = http[r] /\ req'[r] = req[r]
        /\ Silent
    BY <1>8 DEF OpaTransient, Hear, Suspend, TasksOK
  <2> QED
    BY <2>1, <1>s, ToldOf DEF Stutters, Stage, KindOf
<1>9. CASE OpaRetry(r)
  <2>1. /\ pc[r] = "backoff" /\ pc'[r] = "opa2" /\ http'[r] = http[r] /\ req'[r] = req[r]
        /\ Silent
    BY <1>9 DEF OpaRetry, Suspend, TasksOK
  <2> QED
    BY <2>1, <1>s, ToldOf DEF Stutters, Stage, KindOf
<1>10. CASE OpaRaises(r)
  <2>1. /\ pc[r] \in {"opa1", "opa2"} /\ req'[r] = req[r] /\ Silent
        /\ Finish(r, ServerError)
    BY <1>10 DEF OpaRaises, Hear, AwaitsOpa
  <2>2. pc'[r] = "done" /\ Told(r)' = "error"
    BY <2>1, FinishLocal, ToldOf
  <2> QED
    BY <2>1, <2>2, <1>s DEF Decided, Stage, KindOf
<1>11. CASE Decides(r)
  <2>1. PICK o \in OpaOutcomes \ {"bad_body"} :
          /\ Hear(r, o)
          /\ \/ /\ Stops(DecisionOf(o))
                /\ EmitThenFinish(r, IF DecisionOf(o) = "escalate"
                                     THEN <<"tool_escalate">> ELSE <<"tool_deny">>,
                                  Answer(200, DecisionOf(o), "error"), ServerError)
             \/ /\ Forward(r, req[r].known, "forward", Refusal)
                /\ Silent
    BY <1>11, ZenonT(40) DEF Decides
  <2>2. /\ pc[r] \in {"opa1", "opa2"} /\ req'[r] = req[r]
        /\ KindOf(r)' = KindOf(r) /\ Stage(r) = "deciding"
    BY <2>1 DEF Hear, AwaitsOpa, KindOf, Stage
  <2> DEFINE d == DecisionOf(o)
             es == IF d = "escalate" THEN <<"tool_escalate">> ELSE <<"tool_deny">>
  <2>3. CASE Stops(d) /\ EmitThenFinish(r, es, Answer(200, d, "error"), ServerError)
    <3>1. /\ es \in Seq(EventTypes)
          /\ ~Holds(es, "tool_call") /\ ~Holds(es, "passthrough")
      BY <1>e
    <3> HIDE DEF es, d
    <3>2. InLog(r)' <=> InLog(r)
      BY <2>3, <3>1, <1>n DEF EmitThenFinish
    <3>3. pc'[r] = "done" /\ http'[r] \in {Answer(200, d, "error"), ServerError}
      BY <2>3, EmitThenFinishLocal
    <3> QED
      BY <2>2, <2>3, <3>2, <3>3, ToldOf DEF Decided, Stage
  <2>4. CASE Forward(r, req[r].known, "forward", Refusal) /\ Silent
    <3>1. \/ pc'[r] = "done" /\ http'[r] \in {Refusal, ServerError}
          \/ pc'[r] = "forward" /\ http'[r] = http[r]
      BY <2>4, FinishLocal DEF Forward, Suspend, TasksOK
    <3> QED
      BY <2>2, <2>4, <3>1, <1>s, ToldOf DEF Decided, Stage
  <2> QED
    BY <2>1, <2>3, <2>4
<1>12. CASE EndPassthrough(r)
  <2>1. PICK b \in PlainReplies :
          /\ Receive(r, "passing", b)
          /\ EmitThenFinish(r, <<"passthrough">>, Answer(200, "allow", "backend"), Refusal)
    BY <1>12 DEF EndPassthrough
  <2>2. /\ pc[r] = "passing" /\ req'[r] = req[r] /\ ~IsToolCall(req[r].method)
        /\ req[r] # NoRequest
    BY <2>1 DEF Receive, Trail, IsPassthrough, IsToolCall, PASSTHROUGH_METHODS, NoRequest
  <2>3. pc'[r] = "done" /\ http'[r] \in {Answer(200, "allow", "backend"), Refusal, ServerError}
    BY <2>1, EmitThenFinishLocal
  <2>4. InLog(r) => InLog(r)'
    BY <2>1, <1>e, <1>n DEF EmitThenFinish
  <2> QED
    BY <2>2, <2>3, <2>4, ToldOf DEF Answered, Stage, KindOf, Stops
<1>13. CASE EndUnknown(r)
  <2>1. PICK b \in PlainReplies :
          Receive(r, "unknown", b) /\ Finish(r, Answer(200, "allow", "backend")) /\ Silent
    BY <1>13 DEF EndUnknown
  <2>2. pc[r] = "unknown" /\ req'[r] = req[r] /\ ~IsToolCall(req[r].method)
    BY <2>1 DEF Receive, Trail, IsUnknown
  <2>3. pc'[r] = "done" /\ http'[r] \in {Answer(200, "allow", "backend"), ServerError}
    BY <2>1, FinishLocal
  <2> QED
    BY <2>1, <2>2, <2>3, <1>s, ToldOf DEF Answered, Stage, KindOf, Stops
<1>14. CASE EndToolCall(r)
  <2>1. PICK b \in Replies :
          /\ Receive(r, "forward", b)
          /\ EmitThenFinish(r, ReplyEvents(b), ToolAnswer(verdict[r], b), ServerError)
    BY <1>14 DEF EndToolCall
  <2>2. pc[r] = "forward" /\ req'[r] = req[r] /\ ~Stops(verdict[r])
    BY <2>1 DEF Receive, Trail
  <2>3. /\ pc'[r] = "done"
        /\ \/ http'[r] \in {ToolAnswer(verdict[r], b), ServerError} /\ InLog(r)'
           \/ http'[r] = ServerError
    BY <2>1, EventsType, EmitOutcome DEF InLog
  <2>4. InLog(r) => InLog(r)'
    BY <2>1, EventsType, <1>n DEF EmitThenFinish
  <2>5. ToolAnswer(verdict[r], b) \in {ServerError, Answer(200, verdict[r], "canned"),
                                       Answer(200, verdict[r], "backend")}
    BY DEF ToolAnswer
  <2>6. Told(r)' \in {"error", "content"} /\ (Told(r)' = "content" => InLog(r)')
    BY <2>2, <2>3, <2>5, ToldOf
  <2> QED
    BY <2>2, <2>3, <2>4, <2>6 DEF Answered, Stage, KindOf
<1> QED
  BY <1>1, <1>2, <1>3, <1>4, <1>5, <1>6, <1>7, <1>8, <1>9, <1>10, <1>11, <1>12,
     <1>13, <1>14 DEF Begin, Continue

\* What the mapping makes of a request that no step touches stays as it is.
LEMMA OthersStutter ==
  ASSUME NEW s \in Requests, Untouched(s), LogsUntouched(s)
  PROVE  Stutters(s)
<1>1. InLog(s)' <=> InLog(s)
  BY SilentRecords DEF InLog
<1>2. Told(s)' = Told(s)
  BY ToldOf DEF Untouched
<1> QED
  BY <1>1, <1>2 DEF Stutters, Untouched, KindOf, Stage

\* A step of one request is a step of GovernedCalls when no other request moves.
LEMMA PromiseStep ==
  ASSUME NEW r \in Requests, \A s \in Requests \ {r} : Stutters(s),
         \/ Stutters(r) \/ Rejected(r) \/ Begun(r) \/ Decided(r) \/ Answered(r)
  PROVE  Promise!Next \/ UNCHANGED Promise!vars
<1> DEFINE kind == [s \in Requests |-> KindOf(s)]
           phase == [s \in Requests |-> Stage(s)]
           told == [s \in Requests |-> Told(s)]
           recorded == {s \in Requests : InLog(s)}
<1>m. /\ Promise!vars = <<kind, phase, told, recorded>>
      /\ (UNCHANGED Promise!vars) <=> UNCHANGED <<kind, phase, told, recorded>>
  BY DEF Promise!vars, KindOf, InLog
<1>1. /\ \A k : KindOf(r)' = k => kind' = [kind EXCEPT ![r] = k]
      /\ \A p : Stage(r)' = p => phase' = [phase EXCEPT ![r] = p]
      /\ \A t : Told(r)' = t => told' = [told EXCEPT ![r] = t]
  BY DEF Stutters
<1>2. /\ KindOf(r)' = KindOf(r) => kind' = kind
      /\ Stage(r)' = Stage(r) => phase' = phase
      /\ Told(r)' = Told(r) => told' = told
  BY DEF Stutters
<1>3. /\ (InLog(r)' <=> InLog(r)) => recorded' = recorded
      /\ (InLog(r) => InLog(r)') => recorded' \in {recorded, recorded \cup {r}}
      /\ InLog(r)' => r \in recorded'
  BY DEF Stutters
<1>4. kind[r] = KindOf(r) /\ phase[r] = Stage(r)
  OBVIOUS
<1>5. CASE Stutters(r)
  <2>1. kind' = kind /\ phase' = phase /\ told' = told /\ recorded' = recorded
    BY <1>2, <1>3, <1>5 DEF Stutters
  <2> QED
    BY <1>m, <2>1
<1>6. CASE Rejected(r)
  <2>1. /\ phase[r] = "new" /\ phase' = [phase EXCEPT ![r] = "answered"]
        /\ told' = [told EXCEPT ![r] = "error"] /\ kind' = kind /\ recorded' = recorded
    BY <1>1, <1>2, <1>3, <1>4, <1>6 DEF Rejected
  <2>2. Promise!Reject(r)
    BY <2>1 DEF Promise!Reject, Promise!Tell, Promise!Move, KindOf, InLog
  <2> QED
    BY <2>2 DEF Promise!Next
<1>7. CASE Begun(r)
  <2>1. phase[r] = "new" /\ recorded' = recorded
    BY <1>3, <1>4, <1>7 DEF Begun
  <2>2. \/ /\ kind' = [kind EXCEPT ![r] = "tool"]
           /\ phase' = [phase EXCEPT ![r] = "deciding"] /\ told' = told
        \/ /\ kind' = [kind EXCEPT ![r] = "other"]
           /\ phase' = [phase EXCEPT ![r] = "running"] /\ told' = told
        \/ \E k \in {"tool", "other"}, what \in {"refusal", "error"} :
             /\ kind' = [kind EXCEPT ![r] = k]
             /\ phase' = [phase EXCEPT ![r] = "answered"]
             /\ told' = [told EXCEPT ![r] = what]
    BY <1>1, <1>2, <1>7 DEF Begun
  <2>3. Promise!Begin(r)
    BY <2>1, <2>2
    DEF Promise!Begin, Promise!Accept, Promise!Tell, Promise!Move, KindOf, InLog
  <2> QED
    BY <2>3 DEF Promise!Next
<1>8. CASE Decided(r)
  <2>1. phase[r] = "deciding" /\ kind' = kind /\ recorded' = recorded
    BY <1>2, <1>3, <1>4, <1>8 DEF Decided
  <2>2. \/ phase' = [phase EXCEPT ![r] = "running"] /\ told' = told
        \/ /\ phase' = [phase EXCEPT ![r] = "answered"]
           /\ \/ told' = [told EXCEPT ![r] = "refusal"]
              \/ told' = [told EXCEPT ![r] = "error"]
    BY <1>1, <1>2, <1>8 DEF Decided
  <2>3. Promise!Decide(r)
    BY <2>1, <2>2 DEF Promise!Decide, Promise!Tell, Promise!Move, KindOf, InLog
  <2> QED
    BY <2>3 DEF Promise!Next
<1>9. CASE Answered(r)
  <2>1. /\ phase[r] = "running" /\ phase' = [phase EXCEPT ![r] = "answered"]
        /\ kind' = kind /\ recorded' \in {recorded, recorded \cup {r}}
    BY <1>1, <1>2, <1>3, <1>4, <1>9 DEF Answered
  <2>2. \/ told' = [told EXCEPT ![r] = "content"] /\ (kind[r] = "tool" => r \in recorded')
        \/ told' = [told EXCEPT ![r] = "error"]
        \/ told' = [told EXCEPT ![r] = "refusal"] /\ kind[r] = "other"
    BY <1>1, <1>3, <1>4, <1>9 DEF Answered
  <2>3. Promise!Answer(r)
    BY <2>1, <2>2 DEF Promise!Answer, Promise!Tell, Promise!Move, KindOf, InLog
  <2> QED
    BY <2>3 DEF Promise!Next
<1> QED
  BY <1>5, <1>6, <1>7, <1>8, <1>9

\* The pipeline implements GovernedCalls: whatever is retried, found, written and
\* failing, and in whatever order the tasks run, every request is decided upon
\* before it runs, runs at most once and is answered once, with content of a tool
\* only when its record is in the log.
THEOREM PipelineKeepsPromise == Spec => KeepsPromise
<1>1. Init => Promise!Init
  <2> SUFFICES ASSUME Init PROVE Promise!Init
    OBVIOUS
  <2>1. ASSUME NEW r \in Requests
        PROVE  /\ KindOf(r) = "none" /\ Stage(r) = "new" /\ Told(r) = "nothing"
               /\ ~InLog(r)
    BY DEF Init, KindOf, Stage, Told, Delivered, NoAnswer, InLog, Recorded
  <2> QED
    BY <2>1 DEF Promise!Init, KindOf, InLog
<1>2. TypeOK /\ GovernanceInv /\ TrailInv /\ [Next]_vars => [Promise!Next]_(Promise!vars)
  <2> SUFFICES ASSUME TypeOK, GovernanceInv, TrailInv, [Next]_vars
               PROVE  [Promise!Next]_(Promise!vars)
    OBVIOUS
  <2>1. TasksOK /\ LogsOK
    BY TypeHalves
  <2>2. CASE Next
    <3>1. PICK r \in Requests : Begin(r) \/ Continue(r)
      BY <2>2 DEF Next
    <3>2. \/ Stutters(r) \/ Rejected(r) \/ Begun(r) \/ Decided(r) \/ Answered(r)
      BY <2>1, <3>1, StepKeepsPromise DEF GovernanceInv, TrailInv
    <3>3. \A s \in Requests \ {r} : Stutters(s)
      BY <2>1, <3>1, OthersUntouched, OthersUnlogged, OthersStutter
    <3> QED
      BY <3>2, <3>3, PromiseStep
  <2>3. CASE UNCHANGED vars
    <3>1. \A s \in Requests : Stutters(s)
      BY <2>3, OthersStutter DEF vars, Untouched, LogsUntouched
    <3>2. CASE Requests = {}
      BY <3>2 DEF Promise!vars
    <3>3. CASE Requests # {}
      BY <3>1, <3>3, PromiseStep
    <3> QED
      BY <3>2, <3>3
  <2> QED
    BY <2>2, <2>3
<1> QED
  BY <1>1, <1>2, TypeCorrect, GovernanceInvariant, TrailInvariant, PTL
     DEF Spec, KeepsPromise, Promise!Spec

-----------------------------------------------------------------------------
(* The counters.  A segment adds as many lines of a type to the log as it      *)
(* emitted of it, and counts at most the one event more whose write failed.    *)

\* One more event adds at most one to a count.
LEMMA OneMore ==
  ASSUME NEW es, NEW n \in Nat, NEW types
  PROVE  /\ Occurrences(es, n, types) \in Nat /\ Occurrences(es, n + 1, types) \in Nat
         /\ Occurrences(es, n, types) <= Occurrences(es, n + 1, types)
         /\ Occurrences(es, n + 1, types) <= Occurrences(es, n, types) + 1
<1> DEFINE A == {i \in 1..n : es[i] \in types}
           B == {i \in 1..(n + 1) : es[i] \in types}
<1>1. n + 1 \in Nat
  OBVIOUS
<1>2. IsFiniteSet(1..n)
  BY FS_Interval
<1>3. IsFiniteSet(A)
  BY <1>2, FS_Subset
<1>4. B = A \/ B = A \cup {n + 1}
  <2>1. 1..(n + 1) = (1..n) \cup {n + 1}
    OBVIOUS
  <2> QED
    BY <2>1
<1>5. Cardinality(A) \in Nat
  BY <1>3, FS_CardinalityType
<1>6. Cardinality(B) \in {Cardinality(A), Cardinality(A) + 1}
  <2>1. CASE B = A
    BY <2>1
  <2>2. CASE B = A \cup {n + 1}
    BY <1>3, <2>2, FS_AddElement
  <2> QED
    BY <1>4, <2>1, <2>2
<1>7. /\ Occurrences(es, n, types) = Cardinality(A)
      /\ Occurrences(es, n + 1, types) = Cardinality(B)
  BY DEF Occurrences
<1> HIDE DEF A, B
<1> QED
  BY <1>5, <1>6, <1>7

Lined(log, types) ==
  {p \in Requests \X (1..MaxEvents) : p[2] <= Len(log[p[1]]) /\ log[p[1]][p[2]] \in types}

\* The lines of the types are finitely many.
LEMMA LinesType ==
  ASSUME IsFiniteSet(Requests), NEW log, NEW types
  PROVE  /\ IsFiniteSet(Lined(log, types))
         /\ Lines(log, types) = Cardinality(Lined(log, types))
         /\ Lines(log, types) \in Nat
<1>1. IsFiniteSet(1..MaxEvents)
  <2>1. 1 \in Int /\ 4 \in Int
    OBVIOUS
  <2>2. IsFiniteSet(1..4)
    BY <2>1, FS_Interval, Zenon
  <2> QED
    BY <2>2 DEF MaxEvents
<1>2. IsFiniteSet(Requests \X (1..MaxEvents))
  BY <1>1, FS_Product
<1>3. IsFiniteSet(Lined(log, types))
  BY <1>2, FS_Subset DEF Lined
<1>4. Lines(log, types) = Cardinality(Lined(log, types))
  BY DEF Lines, Lined
<1> QED
  BY <1>3, <1>4, FS_CardinalityType

\* Appending events to the log of one request appends their lines.
LEMMA LinesGrow ==
  ASSUME IsFiniteSet(Requests), NEW log \in Logs, NEW r \in Requests,
         NEW es \in Seq(EventTypes), NEW n \in 0..Len(es),
         Len(log[r]) + n <= MaxEvents, NEW types
  PROVE  Lines([log EXCEPT ![r] = @ \o SubSeq(es, 1, n)], types)
           = Lines(log, types) + Occurrences(es, n, types)
<1> DEFINE new == [log EXCEPT ![r] = @ \o SubSeq(es, 1, n)]
           k == Len(log[r])
           A == {i \in 1..n : es[i] \in types}
           B == {<<r, k + i>> : i \in A}
           part == SubSeq(es, 1, n)
<1>0. log[r] \in Seq(EventTypes)
  BY DEF Logs
<1>1. k \in Nat /\ n \in Nat /\ Len(es) \in Nat /\ n <= Len(es) /\ k + n <= MaxEvents
      /\ MaxEvents = 4
  BY <1>0, LenProperties DEF MaxEvents
<1>2. \A i \in 1..n : es[i] \in EventTypes
  BY <1>1, ElementOfSeq
<1>3. /\ part \in Seq(EventTypes) /\ Len(part) = n
      /\ \A i \in 1..n : part[i] = es[i]
  BY <1>1, <1>2, SubSeqProperties
<1>4. new[r] = log[r] \o part /\ \A s \in Requests \ {r} : new[s] = log[s]
  BY DEF Logs
<1> HIDE DEF part, new
<1>5. /\ Len(new[r]) = k + n
      /\ \A i \in 1..k : new[r][i] = log[r][i]
      /\ \A i \in 1..n : new[r][k + i] = es[i]
  <2>1. /\ Len(new[r]) = k + n
        /\ \A i \in 1..k + n : new[r][i] = IF i <= k THEN log[r][i] ELSE part[i - k]
    <3> DEFINE joined == log[r] \o part
    <3>1. /\ Len(joined) = Len(log[r]) + Len(part)
          /\ \A i \in 1..Len(log[r]) + Len(part) :
               joined[i] = IF i <= Len(log[r]) THEN log[r][i] ELSE part[i - Len(log[r])]
      BY <1>0, <1>3, ConcatProperties, ZenonT(60)
    <3>2. new[r] = joined
      BY <1>4
    <3> HIDE DEF joined
    <3> QED
      BY <1>3, <3>1, <3>2
  <2>2. \A i \in 1..k : i \in 1..k + n /\ i <= k
    BY <1>1
  <2>3. ASSUME NEW i \in 1..n
        PROVE  new[r][k + i] = es[i]
    <3>1. k + i \in 1..k + n /\ ~(k + i <= k) /\ (k + i) - k = i
      BY <1>1
    <3> QED
      BY <1>3, <2>1, <3>1
  <2> QED
    BY <2>1, <2>2, <2>3
<1> HIDE DEF k
<1>6. Lined(new, types) = Lined(log, types) \cup B
  <2>1. ASSUME NEW s \in Requests, NEW j \in 1..MaxEvents
        PROVE  <<s, j>> \in Lined(new, types) <=>
               \/ <<s, j>> \in Lined(log, types)
               \/ s = r /\ \E i \in A : j = k + i
    <3>1. CASE s # r
      BY <1>4, <3>1 DEF Lined
    <3>2. CASE s = r
      <4>1. j \in Nat /\ j >= 1
        BY <1>1
      <4>2. <<r, j>> \in Lined(new, types) <=> j <= k + n /\ new[r][j] \in types
        BY <1>5, <3>2 DEF Lined
      <4>3. <<r, j>> \in Lined(log, types) <=> j <= k /\ log[r][j] \in types
        BY <3>2 DEF Lined, k
      <4>4. CASE j <= k
        <5>1. j \in 1..k /\ j <= k + n /\ \A i \in A : j # k + i
          BY <1>1, <4>1, <4>4
        <5> QED
          BY <1>5, <3>2, <4>2, <4>3, <5>1
      <4>5. CASE ~(j <= k)
        <5>1. PICK i \in Int : j = k + i /\ i >= 1
          <6>1. j - k \in Int /\ j = k + (j - k) /\ j - k >= 1
            BY <1>1, <4>1, <4>5
          <6> QED
            BY <6>1
        <5>2. j <= k + n <=> i \in 1..n
          BY <1>1, <5>1
        <5>3. \A m \in A : j = k + m => m = i
          BY <1>1, <5>1
        <5>4. (\E m \in A : j = k + m) <=> i \in A
          BY <5>1, <5>3
        <5> QED
          BY <1>5, <3>2, <4>2, <4>3, <4>5, <5>1, <5>2, <5>4
      <4> QED
        BY <4>4, <4>5
    <3> QED
      BY <3>1, <3>2
  <2>2. /\ Lined(new, types) \subseteq Requests \X (1..MaxEvents)
        /\ Lined(log, types) \subseteq Requests \X (1..MaxEvents)
    BY DEF Lined
  <2>3. B \subseteq Requests \X (1..MaxEvents)
    BY <1>1
  <2>4. ASSUME NEW s \in Requests, NEW j \in 1..MaxEvents
        PROVE  <<s, j>> \in B <=> s = r /\ \E i \in A : j = k + i
    OBVIOUS
  <2> HIDE DEF A, B
  <2>5. ASSUME NEW p \in Requests \X (1..MaxEvents)
        PROVE  p \in Lined(new, types) <=> p \in Lined(log, types) \/ p \in B
    <3>1. PICK s \in Requests, j \in 1..MaxEvents : p = <<s, j>>
      OBVIOUS
    <3> QED
      BY <2>1, <2>4, <3>1
  <2> QED
    BY <2>2, <2>3, <2>5
<1>7. Lined(log, types) \cap B = {}
  <2>1. ASSUME NEW i \in A
        PROVE  <<r, k + i>> \notin Lined(log, types)
    BY <1>1 DEF Lined, k
  <2> QED
    BY <2>1
<1>8. IsFiniteSet(A) /\ Cardinality(A) = Occurrences(es, n, types)
  <2>1. IsFiniteSet(1..n)
    BY <1>1, FS_Interval
  <2> QED
    BY <2>1, FS_Subset DEF Occurrences
<1>9. IsFiniteSet(B) /\ Cardinality(B) = Cardinality(A)
  <2> DEFINE f == [i \in A |-> <<r, k + i>>]
  <2>1. f \in [A -> B] /\ \A b \in B : \E i \in A : f[i] = b
    OBVIOUS
  <2>2. \A i, j \in A : f[i] = f[j] => i = j
    BY <1>1
  <2>3. f \in Bijection(A, B)
    BY <2>1, <2>2 DEF Bijection, Injection, Surjection, IsInjective
  <2>4. ExistsBijection(A, B)
    BY <2>3 DEF ExistsBijection
  <2> HIDE DEF A, B
  <2> QED
    BY <1>8, <2>4, FS_Bijection
<1>10. IsFiniteSet(Lined(log, types)) /\ Cardinality(Lined(log, types)) \in Nat
       /\ Cardinality(B) \in Nat
  BY <1>9, LinesType, FS_CardinalityType
<1> HIDE DEF A, B
<1>11. Cardinality(Lined(new, types)) = Cardinality(Lined(log, types)) + Cardinality(B)
  <2>1. Cardinality(Lined(log, types) \cap B) = 0
    BY <1>7, FS_EmptySet
  <2> QED
    <3> DEFINE L == Lined(log, types)
    <3>1. Cardinality(L \cup B) = Cardinality(L) + Cardinality(B) - Cardinality(L \cap B)
      BY <1>9, <1>10, FS_Union, Zenon
    <3>2. Cardinality(Lined(new, types)) = Cardinality(L \cup B)
      BY <1>6, Zenon
    <3> QED
      BY <1>10, <2>1, <3>1, <3>2
<1>12. Lines(new, types) = Lines(log, types) + Occurrences(es, n, types)
  BY <1>8, <1>9, <1>11, LinesType
<1> QED
  BY <1>12 DEF new

\* The failures a client can see that may be those of an output.
Fails(r) == \/ http[r].status = 500
            \/ IsPassthrough(req[r].method) /\ http[r] = Refusal

\* The final segment of a tool call emits at most three events.
LEMMA ReplyLength ==
  ASSUME NEW b
  PROVE  Len(ReplyEvents(b)) \in 1..3
<1> DEFINE found == IF OutputFindings(b) THEN <<"dlp_finding">> ELSE << >>
           bad   == IF InboundFindings(b) THEN <<"inbound_finding">> ELSE << >>
           last  == <<"tool_call">>
<1>1. /\ found \in Seq(EventTypes) /\ bad \in Seq(EventTypes)
      /\ last \in Seq(EventTypes)
  <2>1. /\ "dlp_finding" \in EventTypes /\ "inbound_finding" \in EventTypes
        /\ "tool_call" \in EventTypes
    BY DEF EventTypes
  <2> QED
    BY <2>1, EventsType, EmptySeq, Zenon
<1>2. Len(found) \in 0..1 /\ Len(bad) \in 0..1 /\ Len(last) = 1
  OBVIOUS
<1>3. ReplyEvents(b) = (found \o bad) \o last
  BY DEF ReplyEvents, ScanEvents
<1> HIDE DEF found, bad, last
<1>4. found \o bad \in Seq(EventTypes) /\ Len(found \o bad) = Len(found) + Len(bad)
  BY <1>1, ConcatProperties
<1>5. Len((found \o bad) \o last) = Len(found \o bad) + Len(last)
  BY <1>1, <1>4, ConcatProperties
<1> QED
  BY <1>2, <1>3, <1>4, <1>5

\* A segment that emits events and ends its task either emitted them all or gives
\* the answer for errors.
LEMMA EmitOrFail ==
  ASSUME TasksOK, NEW r \in Requests, NEW es \in Seq(EventTypes), NEW answer,
         NEW onError, EmitThenFinish(r, es, answer, onError)
  PROVE  /\ pc'[r] = "done"
         /\ \E e \in Emissions(es) :
              Emit(r, es, e) /\ (Complete(es, e) \/ http'[r] \in {onError, ServerError})
<1>1. PICK e \in Emissions(es) :
        /\ Emit(r, es, e)
        /\ Finish(r, IF Complete(es, e) THEN answer ELSE onError)
  BY DEF EmitThenFinish
<1>2. /\ pc'[r] = "done"
      /\ http'[r] \in {IF Complete(es, e) THEN answer ELSE onError, ServerError}
  BY <1>1, FinishLocal
<1> QED
  BY <1>1, <1>2

\* What a step writes: nothing, or up to three events, all of them unless the
\* client gets an error; one event if the task goes on.
LEMMA StepWrites ==
  ASSUME TasksOK, LogsOK, NEW r \in Requests, Phase(r), Trail(r), Begin(r) \/ Continue(r)
  PROVE  /\ pc[r] # "done"
         /\ \/ /\ Silent
               /\ pc'[r] \in {"idle", "passing", "unknown"} => pc[r] = "idle"
            \/ \E es \in Seq(EventTypes) : \E e \in Emissions(es) :
                 /\ Emit(r, es, e) /\ Len(es) \in 1..3
                 /\ Complete(es, e) \/ Fails(r)'
                 /\ \/ pc'[r] = "done"
                    \/ pc[r] = "idle" /\ pc'[r] = "opa1" /\ Len(es) = 1 /\ Complete(es, e)
<1>e. /\ <<"rate_limit">> \in Seq(EventTypes) /\ <<"dlp_finding">> \in Seq(EventTypes)
      /\ <<"tool_deny">> \in Seq(EventTypes) /\ <<"tool_escalate">> \in Seq(EventTypes)
      /\ <<"passthrough">> \in Seq(EventTypes)
  BY EventsType DEF EventTypes
<1>l. \A s : Len(<<s>>) = 1
  OBVIOUS
<1>s. http'[r] = ServerError => Fails(r)'
  BY DEF Fails, ServerError, Answer
<1>t. ASSUME NEW es \in Seq(EventTypes), NEW answer, Len(es) \in 1..3,
             EmitThenFinish(r, es, answer, ServerError)
      PROVE  \E e \in Emissions(es) :
                /\ Emit(r, es, e)
                /\ Complete(es, e) \/ Fails(r)'
                /\ pc'[r] = "done"
  <2>1. PICK e \in Emissions(es) :
          Emit(r, es, e) /\ (Complete(es, e) \/ http'[r] \in {ServerError, ServerError})
    BY <1>t, EmitOrFail
  <2>2. pc'[r] = "done"
    BY <1>t, EmitOrFail
  <2> QED
    BY <1>s, <2>1, <2>2
<1>1. CASE RateLimited(r)
  <2>1. pc[r] = "idle" /\ EmitThenFinish(r, <<"rate_limit">>, Refusal, ServerError)
    BY <1>1 DEF RateLimited, Arrive
  <2>2. Len(<<"rate_limit">>) \in 1..3
    BY <1>l
  <2> QED
    BY <1>e, <1>t, <2>1, <2>2
<1>2. CASE StartWithFindings(r)
  <2>1. PICK e \in Emissions(<<"dlp_finding">>) :
          /\ pc[r] = "idle" /\ Emit(r, <<"dlp_finding">>, e)
          /\ \/ Finish(r, ServerError)
             \/ Complete(<<"dlp_finding">>, e) /\ Finish(r, Refusal)
             \/ Complete(<<"dlp_finding">>, e) /\ Suspend(r, "opa1")
    BY <1>2 DEF StartWithFindings, Arrive
  <2> DEFINE es == <<"dlp_finding">>
  <2>2. es \in Seq(EventTypes) /\ Len(es) = 1
    BY <1>e, <1>l
  <2> HIDE DEF es
  <2>3. /\ Complete(es, e) \/ Fails(r)'
        /\ pc'[r] = "done" \/ (pc'[r] = "opa1" /\ Complete(es, e))
    BY <1>s, <2>1, FinishLocal DEF es, Suspend, TasksOK
  <2>4. pc[r] = "idle" /\ e \in Emissions(es) /\ Emit(r, es, e) /\ Len(es) \in 1..3
    BY <2>1, <2>2 DEF es
  <2> QED
    BY <2>2, <2>3, <2>4
<1>3. CASE Decides(r)
  <2>1. PICK o \in OpaOutcomes \ {"bad_body"} :
          /\ Hear(r, o)
          /\ \/ EmitThenFinish(r, IF DecisionOf(o) = "escalate"
                                  THEN <<"tool_escalate">> ELSE <<"tool_deny">>,
                               Answer(200, DecisionOf(o), "error"), ServerError)
             \/ Forward(r, req[r].known, "forward", Refusal) /\ Silent
    BY <1>3, ZenonT(40) DEF Decides
  <2> DEFINE d == DecisionOf(o)
             es == IF d = "escalate" THEN <<"tool_escalate">> ELSE <<"tool_deny">>
  <2>2. pc[r] \in {"opa1", "opa2"}
    BY <2>1 DEF Hear, AwaitsOpa
  <2>3. CASE EmitThenFinish(r, es, Answer(200, d, "error"), ServerError)
    <3>1. es \in Seq(EventTypes) /\ Len(es) \in 1..3
      BY <1>e, <1>l
    <3> HIDE DEF es, d
    <3> QED
      BY <1>t, <2>2, <2>3, <3>1
  <2>4. CASE Forward(r, req[r].known, "forward", Refusal) /\ Silent
    <3>1. pc'[r] \in {"done", "forward"}
      BY <2>4, FinishLocal DEF Forward, Suspend, TasksOK
    <3> QED
      BY <2>2, <2>4, <3>1
  <2> QED
    BY <2>1, <2>3, <2>4
<1>4. CASE EndPassthrough(r)
  <2>1. PICK b \in PlainReplies :
          /\ Receive(r, "passing", b)
          /\ EmitThenFinish(r, <<"passthrough">>, Answer(200, "allow", "backend"), Refusal)
    BY <1>4 DEF EndPassthrough
  <2>2. pc[r] = "passing" /\ IsPassthrough(req'[r].method)
    BY <2>1 DEF Receive, Trail
  <2> DEFINE es == <<"passthrough">>
  <2>3. es \in Seq(EventTypes) /\ Len(es) \in 1..3
    BY <1>e, <1>l
  <2> HIDE DEF es
  <2>4. EmitThenFinish(r, es, Answer(200, "allow", "backend"), Refusal)
    BY <2>1 DEF es
  <2>5. PICK e \in Emissions(es) :
          Emit(r, es, e) /\ (Complete(es, e) \/ http'[r] \in {Refusal, ServerError})
    BY <2>3, <2>4, EmitOrFail
  <2>6. pc'[r] = "done"
    BY <2>3, <2>4, EmitOrFail
  <2>7. Complete(es, e) \/ Fails(r)'
    BY <1>s, <2>2, <2>5 DEF Fails
  <2> QED
    BY <2>2, <2>3, <2>5, <2>6, <2>7
<1>5. CASE EndToolCall(r)
  <2>1. PICK b \in Replies :
          /\ Receive(r, "forward", b)
          /\ EmitThenFinish(r, ReplyEvents(b), ToolAnswer(verdict[r], b), ServerError)
    BY <1>5 DEF EndToolCall
  <2>2. ReplyEvents(b) \in Seq(EventTypes) /\ Len(ReplyEvents(b)) \in 1..3
    BY EventsType, ReplyLength
  <2>3. pc[r] = "forward"
    BY <2>1 DEF Receive
  <2> QED
    BY <1>t, <2>1, <2>2, <2>3
<1>6. CASE \/ Reject(r) \/ StartMalformed(r) \/ OpaRaises(r) \/ EndUnknown(r)
  <2>1. \E answer : Finish(r, answer)
    BY <1>6 DEF Reject, StartMalformed, OpaRaises, EndUnknown
  <2>2. pc'[r] = "done"
    BY <2>1, FinishLocal
  <2>3. pc[r] # "done" /\ Silent
    BY <1>6 DEF Reject, StartMalformed, OpaRaises, EndUnknown, Arrive, Hear, AwaitsOpa,
                Receive
  <2> QED
    BY <2>2, <2>3
<1>7. CASE \/ StartPassthrough(r) \/ StartUnknown(r) \/ StartClean(r)
  <2>1. pc[r] = "idle" /\ Silent
    BY <1>7 DEF StartPassthrough, StartUnknown, StartClean, Arrive
  <2> QED
    BY <2>1
<1>8. CASE \/ OpaTransient(r) \/ OpaRetry(r)
  <2>1. pc[r] # "done" /\ pc'[r] \in {"backoff", "opa2"} /\ Silent
    BY <1>8 DEF OpaTransient, OpaRetry, Suspend, TasksOK
  <2> QED
    BY <2>1
<1> QED
  BY <1>1, <1>2, <1>3, <1>4, <1>5, <1>6, <1>7, <1>8 DEF Begin, Continue

\* What a log holds while its task is suspended.  A task that goes on has written
\* both outputs alike; one that ended may lack the last line in the file.
Page(r) ==
  /\ pc[r] \in {"idle", "passing", "unknown"} => out[r] = << >>
  /\ pc[r] # "done" => Len(out[r]) <= 1
  /\ Len(out[r]) <= MaxEvents
  /\ FileLog /\ pc[r] # "done" => file[r] = out[r]
  /\ FileLog => /\ Len(out[r]) - Len(file[r]) \in 0..1
                /\ file[r] = SubSeq(out[r], 1, Len(file[r]))

\* What appending the first events of a segment to a log gives.
LEMMA Appended ==
  ASSUME NEW log \in Seq(EventTypes), NEW es \in Seq(EventTypes),
         NEW n \in 0..Len(es), NEW m \in 0..n
  PROVE  /\ Len(log \o SubSeq(es, 1, n)) = Len(log) + n
         /\ log \o SubSeq(es, 1, m) = SubSeq(log \o SubSeq(es, 1, n), 1, Len(log) + m)
<1>1. Len(es) \in Nat /\ Len(log) \in Nat /\ n \in Nat /\ m \in Nat /\ m <= n /\ n <= Len(es)
  BY LenProperties
<1>2. ASSUME NEW k \in 0..n
      PROVE  /\ SubSeq(es, 1, k) \in Seq(EventTypes)
             /\ Len(SubSeq(es, 1, k)) = k
             /\ \A i \in 1..k : SubSeq(es, 1, k)[i] = es[i]
  <2>1. k \in 0..Len(es)
    BY <1>1
  <2>2. \A i \in 1..k : es[i] \in EventTypes
    BY <1>1, ElementOfSeq
  <2> QED
    BY <1>1, <2>1, <2>2, SubSeqProperties
<1> DEFINE joined(k) == log \o SubSeq(es, 1, k)
<1>3. ASSUME NEW k \in 0..n
      PROVE  /\ joined(k) \in Seq(EventTypes) /\ Len(joined(k)) = Len(log) + k
             /\ \A i \in 1..Len(log) : joined(k)[i] = log[i]
             /\ \A i \in 1..k : joined(k)[Len(log) + i] = es[i]
  <2> DEFINE part == SubSeq(es, 1, k)
  <2>1. /\ part \in Seq(EventTypes) /\ Len(part) = k
        /\ \A i \in 1..k : part[i] = es[i]
    BY <1>2
  <2> HIDE DEF part
  <2>2. /\ log \o part \in Seq(EventTypes) /\ Len(log \o part) = Len(log) + Len(part)
        /\ \A i \in 1..Len(log) + Len(part) :
             (log \o part)[i] = IF i <= Len(log) THEN log[i] ELSE part[i - Len(log)]
    BY <2>1, ConcatProperties
  <2>3. \A i \in 1..Len(log) : (log \o part)[i] = log[i]
    BY <1>1, <2>1, <2>2
  <2>4. ASSUME NEW i \in 1..k
        PROVE  (log \o part)[Len(log) + i] = es[i]
    <3>1. /\ Len(log) + i \in 1..Len(log) + Len(part) /\ ~(Len(log) + i <= Len(log))
          /\ (Len(log) + i) - Len(log) = i
      BY <1>1, <2>1
    <3> QED
      BY <2>1, <2>2, <3>1
  <2> QED
    BY <2>1, <2>2, <2>3, <2>4 DEF part
<1> HIDE DEF joined
<1>4. /\ n \in 0..n /\ m \in 0..n
  BY <1>1
<1>5. \A i \in 1..Len(log) + m : joined(m)[i] = joined(n)[i]
  <2> TAKE i \in 1..Len(log) + m
  <2>1. CASE i <= Len(log)
    BY <1>1, <1>3, <1>4, <2>1
  <2>2. CASE ~(i <= Len(log))
    <3>1. PICK j \in 1..m : i = Len(log) + j
      <4>1. i - Len(log) \in 1..m /\ i = Len(log) + (i - Len(log))
        BY <1>1, <2>2
      <4> QED
        BY <4>1
    <3>2. j \in 1..n
      BY <1>1
    <3>3. joined(m)[Len(log) + j] = es[j]
      BY <1>3, <1>4
    <3>4. joined(n)[Len(log) + j] = es[j]
      BY <1>3, <1>4, <3>2
    <3> QED
      BY <3>1, <3>3, <3>4
  <2> QED
    BY <2>1, <2>2
<1>6. joined(m) = SubSeq(joined(n), 1, Len(log) + m)
  <2> DEFINE whole == joined(n)
             k == Len(log) + m
             prefix == SubSeq(whole, 1, k)
  <2>1. whole \in Seq(EventTypes) /\ k \in 0..Len(whole) /\ k \in Nat
    BY <1>1, <1>3, <1>4
  <2>2. \A i \in 1..k : whole[i] \in EventTypes
    BY <2>1, LenProperties, ElementOfSeq
  <2> HIDE DEF whole, k
  <2>3. /\ prefix \in Seq(EventTypes) /\ Len(prefix) = k
        /\ \A i \in 1..k : prefix[i] = whole[i]
    BY <2>1, <2>2, SubSeqProperties
  <2> HIDE DEF prefix
  <2>4. joined(m) \in Seq(EventTypes) /\ Len(joined(m)) = k
    BY <1>3, <1>4 DEF k
  <2>5. \A i \in 1..k : joined(m)[i] = prefix[i]
    BY <1>5, <2>3 DEF whole, k
  <2>6. joined(m) = prefix
    BY <2>1, <2>3, <2>4, <2>5, SeqEqual
  <2> QED
    BY <2>6 DEF prefix, whole, k
<1> QED
  BY <1>3, <1>4, <1>6 DEF joined

\* The lines of a segment on stdout, those in the file, and what was counted.
LEMMA EmitParts ==
  ASSUME LogsOK, NEW r \in Requests, NEW es \in Seq(EventTypes),
         NEW e \in Emissions(es), Emit(r, es, e)
  PROVE  \E n \in 0..Len(es), m \in 0..Len(es), c \in 0..Len(es) :
           /\ m <= n /\ n <= c /\ c <= m + 1
           /\ Complete(es, e) => m = Len(es)
           /\ ~Complete(es, e) => SinkMayFail
           /\ out' = [out EXCEPT ![r] = @ \o SubSeq(es, 1, n)]
           /\ FileLog => file'[r] = file[r] \o SubSeq(es, 1, m)
           /\ stats' = Counted(es, c)
<1>1. /\ e.n \in 0..Len(es) /\ e.printed \in BOOLEAN
      /\ e.printed => e.n < Len(es)
      /\ e.n < Len(es) => SinkMayFail
  BY DEF Emissions
<1>2. Len(es) \in Nat
  BY LenProperties
<1> DEFINE n == IF e.printed THEN e.n + 1 ELSE e.n
           c == IF Complete(es, e) THEN e.n ELSE e.n + 1
<1>3. /\ n \in 0..Len(es) /\ c \in 0..Len(es) /\ e.n <= n /\ n <= c /\ c <= e.n + 1
      /\ Complete(es, e) => e.n = Len(es)
      /\ ~Complete(es, e) => SinkMayFail
  BY <1>1, <1>2 DEF Complete
<1>4. /\ out' = [out EXCEPT ![r] = @ \o SubSeq(es, 1, n)]
      /\ FileLog => file'[r] = file[r] \o SubSeq(es, 1, e.n)
      /\ stats' = Counted(es, c)
  BY DEF Emit, LogsOK, Logs
<1> HIDE DEF n, c
<1> QED
  BY <1>1, <1>3, <1>4

\* A segment that emits leaves the log as it should be.
LEMMA PageEmits ==
  ASSUME LogsOK, NEW r \in Requests, Page(r), pc[r] # "done",
         NEW es \in Seq(EventTypes), NEW e \in Emissions(es), Emit(r, es, e),
         Len(es) \in 1..3,
         \/ pc'[r] = "done"
         \/ pc[r] = "idle" /\ pc'[r] = "opa1" /\ Len(es) = 1 /\ Complete(es, e)
  PROVE  Page(r)'
<1>1. PICK n \in 0..Len(es), m \in 0..Len(es), c \in 0..Len(es) :
           /\ m <= n /\ n <= c /\ c <= m + 1
           /\ Complete(es, e) => m = Len(es)
           /\ out' = [out EXCEPT ![r] = @ \o SubSeq(es, 1, n)]
           /\ FileLog => file'[r] = file[r] \o SubSeq(es, 1, m)
  BY EmitParts, ZenonT(60)
<1>2. /\ out[r] \in Seq(EventTypes) /\ file[r] \in Seq(EventTypes)
      /\ out'[r] = out[r] \o SubSeq(es, 1, n)
  BY <1>1 DEF LogsOK, Logs
<1>3. Len(out[r]) \in 0..1 /\ (pc[r] = "idle" => Len(out[r]) = 0)
  <2>1. Len(out[r]) \in Nat
    BY <1>2, LenProperties
  <2>2. Len(out[r]) <= 1 /\ (pc[r] = "idle" => out[r] = << >>)
    BY DEF Page
  <2>3. out[r] = << >> => Len(out[r]) = 0
    BY <1>2, EmptySeq
  <2>4. \A l \in Nat : l <= 1 => l \in 0..1
    OBVIOUS
  <2> QED
    BY <2>1, <2>2, <2>3, <2>4, Zenon
<1>4. m \in 0..n /\ n \in 0..n /\ n \in 0..3
  <2>1. \A l \in 1..3 : \A i, j \in 0..l : i <= j => i \in 0..j /\ j \in 0..j /\ j \in 0..3
    OBVIOUS
  <2> QED
    BY <1>1, <2>1, Zenon
<1>5. Len(out'[r]) = Len(out[r]) + n
  <2>1. Len(out[r] \o SubSeq(es, 1, n)) = Len(out[r]) + n
    BY <1>2, <1>4, Appended, ZenonT(60)
  <2> QED
    BY <1>2, <2>1
<1>6. Len(out'[r]) <= MaxEvents /\ (pc'[r] # "done" => Len(out'[r]) <= 1)
  <2>1. pc'[r] # "done" => n = 1 /\ Len(out[r]) = 0
    <3>1. \A i, j \in 0..1 : i = 1 /\ i <= j => j = 1
      OBVIOUS
    <3>2. pc'[r] # "done" => m = 1 /\ Len(es) = 1 /\ Len(out[r]) = 0
      BY <1>1, <1>3, Zenon
    <3> QED
      BY <1>1, <3>1, <3>2, Zenon
  <2> QED
    <3>1. \A i \in 0..1 : \A j \in 0..3 : i + j <= 4 /\ (j = 1 /\ i = 0 => i + j <= 1)
      OBVIOUS
    <3>2. MaxEvents = 4
      BY DEF MaxEvents
    <3> QED
      BY <1>3, <1>4, <1>5, <2>1, <3>1, <3>2, Zenon
<1>7. CASE FileLog
  <2>1. file'[r] = out[r] \o SubSeq(es, 1, m)
    BY <1>1, <1>7 DEF Page
  <2>2. Len(file'[r]) = Len(out[r]) + m
    <3>1. m \in 0..Len(es) /\ m \in 0..m
      BY <1>1
    <3>2. Len(out[r] \o SubSeq(es, 1, m)) = Len(out[r]) + m
      BY <1>2, <3>1, Appended, ZenonT(60)
    <3> QED
      BY <2>1, <3>2
  <2>3. file'[r] = SubSeq(out'[r], 1, Len(file'[r]))
    <3>1. out[r] \o SubSeq(es, 1, m)
            = SubSeq(out[r] \o SubSeq(es, 1, n), 1, Len(out[r]) + m)
      BY <1>2, <1>4, Appended, ZenonT(60)
    <3> QED
      BY <1>2, <2>1, <2>2, <3>1
  <2>4. Len(out'[r]) - Len(file'[r]) \in 0..1
    BY <1>1, <1>3, <1>5, <2>2
  <2>5. Complete(es, e) => file'[r] = out'[r]
    <3>1. Complete(es, e) => m = n
      BY <1>1
    <3> QED
      BY <1>2, <2>1, <3>1
  <2> QED
    BY <1>6, <2>3, <2>4, <2>5 DEF Page
<1>8. CASE ~FileLog
  BY <1>6, <1>8 DEF Page
<1> QED
  BY <1>7, <1>8

\* So does a step that writes nothing.
LEMMA PageSilent ==
  ASSUME NEW r \in Requests, Page(r), LogsUntouched(r),
         \/ pc'[r] = pc[r]
         \/ /\ pc[r] # "done"
            /\ pc'[r] \in {"idle", "passing", "unknown"} => pc[r] = "idle"
  PROVE  Page(r)'
  BY DEF Page, LogsUntouched

\* The failing answers so far stay, and those of others do not go.
LEMMA FailsKept ==
  ASSUME NEW r \in Requests, Phase(r), pc[r] # "done"
  PROVE  ~Fails(r)
  BY DEF Phase, Fails, NoAnswer, Refusal, Answer

\* A counter and the lines it counts.
Slack == IF SinkMayFail THEN Cardinality(EndedInError) ELSE 0
Covers(count, types) == /\ count \in Nat
                        /\ Lines(out, types) <= count
                        /\ count <= Lines(out, types) + Slack

\* The lines of a segment on stdout.
LEMMA OutGrows ==
  ASSUME IsFiniteSet(Requests), out \in Logs, NEW r \in Requests,
         NEW es \in Seq(EventTypes), NEW n \in 0..Len(es),
         out' = [out EXCEPT ![r] = @ \o SubSeq(es, 1, n)],
         Len(out[r]) + n <= MaxEvents, NEW types
  PROVE  Lines(out, types)' = Lines(out, types) + Occurrences(es, n, types)
<1>1. Lines([out EXCEPT ![r] = @ \o SubSeq(es, 1, n)], types)
        = Lines(out, types) + Occurrences(es, n, types)
  BY LinesGrow, ZenonT(60)
<1> QED
  BY <1>1 DEF Lines

\* One segment adds to a counter what it adds to the log, and one more only for
\* an answer that tells of it.
LEMMA CoverStep ==
  ASSUME IsFiniteSet(Requests), LogsOK, NEW r \in Requests, Page(r), ~Fails(r),
         pc[r] # "done", \A s \in Requests \ {r} : Fails(s)' <=> Fails(s),
         NEW es \in Seq(EventTypes), Len(es) \in 1..3,
         NEW n \in 0..Len(es), NEW c \in 0..Len(es), n <= c, c <= n + 1,
         out' = [out EXCEPT ![r] = @ \o SubSeq(es, 1, n)],
         c # n => SinkMayFail /\ Fails(r)',
         NEW types, NEW count, NEW next,
         Covers(count, types), next = count + Occurrences(es, c, types)
  PROVE  /\ next \in Nat
         /\ Lines(out, types)' <= next
         /\ next <= Lines(out, types)' + Slack'
<1>1. n \in Nat /\ (c = n \/ c = n + 1) /\ n <= 3
  <2>1. \A l \in 1..3 : \A i, j \in 0..l :
          i <= j /\ j <= i + 1 => i \in Nat /\ (j = i \/ j = i + 1) /\ i <= 3
    OBVIOUS
  <2> QED
    BY <2>1
<1> DEFINE a == Occurrences(es, n, types)
           b == Occurrences(es, c, types)
<1>2. a \in Nat /\ b \in Nat /\ a <= b /\ b <= a + 1 /\ (c = n => a = b)
  <2>1. /\ a \in Nat /\ Occurrences(es, n + 1, types) \in Nat
        /\ a <= Occurrences(es, n + 1, types) /\ Occurrences(es, n + 1, types) <= a + 1
    BY <1>1, OneMore
  <2>2. CASE c = n
    BY <2>1, <2>2
  <2>3. CASE c = n + 1
    BY <1>1, <2>1, <2>3
  <2> QED
    BY <1>1, <2>2, <2>3
<1>3. Lines(out, types)' = Lines(out, types) + a
  <2>1. out \in Logs /\ Len(out[r]) \in Nat /\ Len(out[r]) <= 1
    BY LenProperties DEF Page, LogsOK, Logs
  <2>2. Len(out[r]) + n <= MaxEvents
    BY <1>1, <2>1 DEF MaxEvents
  <2> QED
    BY <2>1, <2>2, OutGrows
<1>4. Lines(out, types) \in Nat /\ Lines(out, types)' \in Nat
  BY <1>2, <1>3, LinesType
<1>5. /\ EndedInError = {s \in Requests : Fails(s)}
      /\ EndedInError' = {s \in Requests : Fails(s)'}
  BY DEF EndedInError, Fails
<1>6. /\ EndedInError' = IF Fails(r)' THEN EndedInError \cup {r} ELSE EndedInError
      /\ r \notin EndedInError
  BY <1>5
<1>7. IsFiniteSet(EndedInError) /\ Cardinality(EndedInError) \in Nat
  BY <1>5, FS_Subset, FS_CardinalityType
<1>8. Cardinality(EndedInError') = IF Fails(r)' THEN Cardinality(EndedInError) + 1
                                   ELSE Cardinality(EndedInError)
  BY <1>6, <1>7, FS_AddElement
<1>9. Slack \in Nat /\ Slack' \in Nat /\ Slack <= Slack'
      /\ (SinkMayFail /\ Fails(r)' => Slack' = Slack + 1)
  BY <1>7, <1>8 DEF Slack
<1> HIDE DEF a, b
<1>10. next = count + b
  BY DEF b
<1>11. CASE c = n
  BY <1>2, <1>3, <1>4, <1>9, <1>10, <1>11 DEF Covers
<1>12. CASE c # n
  <2>1. Slack' = Slack + 1
    BY <1>9, <1>12
  <2> QED
    BY <1>2, <1>3, <1>4, <1>9, <1>10, <2>1, SMTT(30) DEF Covers
<1> QED
  BY <1>11, <1>12

\* All events are of a type that the total counts.
LEMMA AllCounted ==
  ASSUME NEW es \in Seq(EventTypes), NEW c \in 0..Len(es)
  PROVE  Occurrences(es, c, EventTypes) = c
<1>1. \A i \in 1..c : es[i] \in EventTypes
  BY LenProperties, ElementOfSeq
<1>2. {i \in 1..c : es[i] \in EventTypes} = 1..c
  BY <1>1
<1>3. 1 \in Int /\ c \in Int /\ c >= 0
  BY LenProperties
<1>4. Cardinality(1..c) = IF 1 > c THEN 0 ELSE c - 1 + 1
  BY <1>3, FS_Interval, Zenon
<1>5. Cardinality(1..c) = c
  BY <1>3, <1>4
<1> QED
  BY <1>2, <1>5 DEF Occurrences

\* The four counters of GET /stats.
AllCover ==
  /\ Covers(stats.total, EventTypes)
  /\ Covers(stats.denials, DenialTypes)
  /\ Covers(stats.dlp, {"dlp_finding"})
  /\ Covers(stats.inbound, {"inbound_finding"})

PageInv == \A r \in Requests : Page(r)

\* A segment that emits keeps the counters over the log.
LEMMA AllCoverEmits ==
  ASSUME IsFiniteSet(Requests), LogsOK, NEW r \in Requests, Page(r), ~Fails(r),
         pc[r] # "done", \A s \in Requests \ {r} : Fails(s)' <=> Fails(s),
         NEW es \in Seq(EventTypes), NEW e \in Emissions(es), Emit(r, es, e),
         Len(es) \in 1..3, Complete(es, e) \/ Fails(r)', AllCover
  PROVE  AllCover'
<1>1. PICK n \in 0..Len(es), m \in 0..Len(es), c \in 0..Len(es) :
           /\ m <= n /\ n <= c /\ c <= m + 1
           /\ Complete(es, e) => m = Len(es)
           /\ ~Complete(es, e) => SinkMayFail
           /\ out' = [out EXCEPT ![r] = @ \o SubSeq(es, 1, n)]
           /\ FileLog => file'[r] = file[r] \o SubSeq(es, 1, m)
           /\ stats' = Counted(es, c)
  BY EmitParts
<1>2. /\ n <= c /\ c <= n + 1
      /\ c # n => SinkMayFail /\ Fails(r)'
  <2>1. n \in Int /\ m \in Int /\ c \in Int /\ c <= Len(es) /\ Len(es) \in Int
    BY LenProperties
  <2>2. c <= n + 1 /\ (m = Len(es) => c = n)
    BY <1>1, <2>1
  <2> QED
    BY <1>1, <2>2
<1>3. ASSUME NEW types, NEW count, NEW next, Covers(count, types),
             next = count + Occurrences(es, c, types)
      PROVE  /\ next \in Nat
             /\ Lines(out, types)' <= next
             /\ next <= Lines(out, types)' + Slack'
  BY <1>1, <1>2, <1>3, CoverStep
<1>4. /\ stats'.total = stats.total + Occurrences(es, c, EventTypes)
      /\ stats'.denials = stats.denials + Occurrences(es, c, DenialTypes)
      /\ stats'.dlp = stats.dlp + Occurrences(es, c, {"dlp_finding"})
      /\ stats'.inbound = stats.inbound + Occurrences(es, c, {"inbound_finding"})
  BY <1>1, AllCounted DEF Counted
<1>5. Covers(stats.total, EventTypes)'
  BY <1>3, <1>4 DEF AllCover, Covers
<1>6. Covers(stats.denials, DenialTypes)'
  BY <1>3, <1>4 DEF AllCover, Covers
<1>7. Covers(stats.dlp, {"dlp_finding"})'
  BY <1>3, <1>4 DEF AllCover, Covers
<1>8. Covers(stats.inbound, {"inbound_finding"})'
  BY <1>3, <1>4 DEF AllCover, Covers
<1> QED
  BY <1>5, <1>6, <1>7, <1>8 DEF AllCover

\* So does a step that writes nothing: an answer that tells of an error only adds
\* to what a counter may be ahead.
LEMMA AllCoverSilent ==
  ASSUME IsFiniteSet(Requests), Silent, AllCover,
         \A s \in Requests : Fails(s) => Fails(s)'
  PROVE  AllCover'
<1>1. /\ EndedInError = {s \in Requests : Fails(s)}
      /\ EndedInError' = {s \in Requests : Fails(s)'}
  BY DEF EndedInError, Fails
<1>2. /\ IsFiniteSet(EndedInError') /\ EndedInError \in SUBSET EndedInError'
  BY <1>1, FS_Subset
<1>3. Cardinality(EndedInError) <= Cardinality(EndedInError')
  BY <1>2, FS_Subset
<1>4. Cardinality(EndedInError) \in Nat /\ Cardinality(EndedInError') \in Nat
  BY <1>2, FS_Subset, FS_CardinalityType
<1>5. Slack \in Nat /\ Slack' \in Nat /\ Slack <= Slack'
  BY <1>3, <1>4 DEF Slack
<1>6. \A types : Lines(out, types)' = Lines(out, types) /\ Lines(out, types) \in Nat
  BY LinesType DEF Silent, Lines
<1>7. ASSUME NEW types, NEW count, Covers(count, types)
      PROVE  /\ count \in Nat
             /\ Lines(out, types)' <= count
             /\ count <= Lines(out, types)' + Slack'
  BY <1>5, <1>6, <1>7 DEF Covers
<1>8. stats' = stats
  BY DEF Silent
<1> QED
  BY <1>7, <1>8 DEF AllCover, Covers

\* The pages and the counters hold in every state.
LEMMA CountersInvariant ==
  ASSUME IsFiniteSet(Requests)
  PROVE  Spec => [](PageInv /\ AllCover)
<1>1. Init => PageInv /\ AllCover
  <2> SUFFICES ASSUME Init PROVE PageInv /\ AllCover
    OBVIOUS
  <2>1. ASSUME NEW r \in Requests PROVE Page(r)
    <3>1. out[r] = << >> /\ file[r] = << >> /\ pc[r] = "idle"
      BY DEF Init
    <3>2. Len(out[r]) = 0 /\ Len(file[r]) = 0
      BY <3>1
    <3>3. SubSeq(out[r], 1, Len(file[r])) = << >>
      BY <3>1, <3>2
    <3> QED
      BY <3>1, <3>2, <3>3 DEF Page, MaxEvents
  <2>2. ASSUME NEW types PROVE Covers(0, types)
    <3>1. Lined(out, types) = {}
      <4>1. \A r \in Requests : \A j \in 1..MaxEvents : ~(j <= Len(out[r]))
        BY DEF Init
      <4> QED
        BY <4>1 DEF Lined
    <3>2. Lines(out, types) = 0
      BY <3>1, LinesType, FS_EmptySet
    <3>3. IsFiniteSet(EndedInError)
      BY FS_Subset DEF EndedInError
    <3>4. Slack \in Nat
      BY <3>3, FS_CardinalityType DEF Slack
    <3> QED
      BY <3>2, <3>4 DEF Covers
  <2> QED
    BY <2>1, <2>2 DEF PageInv, AllCover, Init
<1>2. TypeOK /\ GovernanceInv /\ TrailInv /\ PageInv /\ AllCover /\ [Next]_vars
        => (PageInv /\ AllCover)'
  <2> SUFFICES ASSUME TypeOK, GovernanceInv, TrailInv, PageInv, AllCover, [Next]_vars
               PROVE  (PageInv /\ AllCover)'
    OBVIOUS
  <2>1. TasksOK /\ LogsOK
    BY TypeHalves
  <2>2. CASE Next
    <3>1. PICK r \in Requests : Begin(r) \/ Continue(r)
      BY <2>2 DEF Next
    <3>2. Phase(r) /\ Trail(r) /\ Page(r)
      BY DEF GovernanceInv, TrailInv, PageInv
    <3>3. pc[r] # "done"
      BY <2>1, <3>1, <3>2, StepWrites
    <3>4. ~Fails(r)
      BY <3>2, <3>3, FailsKept
    <3>5. \A s \in Requests \ {r} : Untouched(s) /\ LogsUntouched(s)
      BY <2>1, <3>1, OthersUntouched, OthersUnlogged
    <3>6. \A s \in Requests \ {r} : Page(s)' /\ (Fails(s)' <=> Fails(s))
      BY <3>5, PageSilent DEF PageInv, Untouched, Fails
    <3>7. CASE Silent /\ (pc'[r] \in {"idle", "passing", "unknown"} => pc[r] = "idle")
      <4>1. Page(r)'
        BY <3>2, <3>3, <3>7, PageSilent DEF Silent, LogsUntouched
      <4>2. AllCover'
        BY <3>4, <3>6, <3>7, AllCoverSilent
      <4> QED
        BY <3>6, <4>1, <4>2 DEF PageInv
    <3>8. ASSUME NEW es \in Seq(EventTypes), NEW e \in Emissions(es),
                 Emit(r, es, e), Len(es) \in 1..3, Complete(es, e) \/ Fails(r)',
                 \/ pc'[r] = "done"
                 \/ pc[r] = "idle" /\ pc'[r] = "opa1" /\ Len(es) = 1 /\ Complete(es, e)
          PROVE  (PageInv /\ AllCover)'
      <4>1. Page(r)'
        BY <2>1, <3>2, <3>3, <3>8, PageEmits
      <4>2. AllCover'
        BY <2>1, <3>2, <3>3, <3>4, <3>6, <3>8, AllCoverEmits
      <4> QED
        BY <3>6, <4>1, <4>2 DEF PageInv
    <3> QED
      BY <2>1, <3>1, <3>2, <3>7, <3>8, StepWrites
  <2>3. CASE UNCHANGED vars
    <3>1. Silent /\ pc' = pc /\ \A s \in Requests : Fails(s)' <=> Fails(s)
      BY <2>3 DEF vars, Silent, Fails
    <3>2. AllCover'
      BY <3>1, AllCoverSilent
    <3>3. PageInv'
      BY <3>1, PageSilent DEF PageInv, Silent, LogsUntouched
    <3> QED
      BY <3>2, <3>3
  <2> QED
    BY <2>2, <2>3
<1> QED
  BY <1>1, <1>2, TypeCorrect, GovernanceInvariant, TrailInvariant, PTL DEF Spec

\* GET /stats agrees with the logs of all requests together, however many tasks
\* write and whatever writes fail: no counter misses a line, none runs ahead by more
\* than the requests whose client got an error, and a file is the output but for
\* the last line.
THEOREM CountersAgree ==
  ASSUME IsFiniteSet(Requests)
  PROVE  Spec => []CountersCoverLogs
<1>1. PageInv /\ AllCover => CountersCoverLogs
  BY DEF PageInv, Page, AllCover, Covers, Slack, DenialTypes, CountersCoverLogs
<1> QED
  BY <1>1, CountersInvariant, PTL
=============================================================================

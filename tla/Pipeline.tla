------------------------------- MODULE Pipeline -------------------------------
(***************************************************************************)
(* The enforcement pipeline of one proxy process: the POST /mcp handler     *)
(* (behavry_proxy/proxy/router.py), enforce() (proxy/pipeline.py), the      *)
(* policy client decide() (policy/client.py) and the audit emitter          *)
(* (audit/emitter.py).  Requests run as asyncio tasks of one thread, so an  *)
(* action is the code between two awaits: the wait for OPA, the 100 ms      *)
(* back-off, the wait for the backend.                                      *)
(*                                                                         *)
(* Left out: what a policy, a pattern or a tool says.  A request carries    *)
(* the severity that scanning its arguments finds, a reply of OPA or of a   *)
(* backend is one of the outcomes the code tells apart.  The decision of    *)
(* the rate limiter is an input here; RateLimiter says what it is.          *)
(***************************************************************************)
EXTENDS Integers, Sequences, FiniteSets

CONSTANTS
  Requests,             \* HTTP requests to /mcp/{server_id}
  Methods,              \* JSON-RPC methods they may carry
  Severities,           \* levels scanners may report, 0 for no finding
  FailClosed,           \* opa_fail_closed
  DlpEnabled,           \* dlp_enabled
  DlpBlockSeverity,     \* dlp_block_severity, a string of the environment
  InboundEnabled,       \* inbound_scan_enabled
  InboundBlockSeverity, \* inbound_block_severity
  FileLog,              \* audit_log_file is set
  SinkMayFail           \* a write of the emitter may raise (full disk, closed pipe)

ASSUME PipelineAssumption ==
  /\ "none" \notin Methods  \* it stands for no request, see NoRequest
  /\ 0 \in Severities /\ Severities \subseteq 0..4
  /\ FailClosed \in BOOLEAN /\ DlpEnabled \in BOOLEAN
  /\ InboundEnabled \in BOOLEAN /\ FileLog \in BOOLEAN /\ SinkMayFail \in BOOLEAN

VARIABLES
  pc,       \* pc[r]: where the task of r is suspended
  req,      \* req[r]: method, severity of its arguments, server known and enabled
  verdict,  \* verdict[r]: result of the PolicyDecision of r
  asked,    \* asked[r]: what each attempt to ask OPA brought, oldest first
  ran,      \* ran[r]: a backend was given the request
  reply,    \* reply[r]: what the backend answered
  out,      \* out[r]: types of the audit events of r printed to stdout
  file,     \* file[r]: the same for the JSONL file
  stats,    \* counters of the emitter
  http      \* http[r]: the HTTP response: status, X-Policy-Result, body

vars == <<pc, req, verdict, asked, ran, reply, out, file, stats, http>>

-----------------------------------------------------------------------------
SEVERITY_ORDER ==
  [none |-> 0, low |-> 1, medium |-> 2, high |-> 3, critical |-> 4]

\* SEVERITY_ORDER.get(name, 3): a name nobody knows blocks from "high" on.
BlockLevel(name) ==
  IF name \in DOMAIN SEVERITY_ORDER THEN SEVERITY_ORDER[name] ELSE 3

PASSTHROUGH_METHODS == {"initialize", "ping", "notifications/initialized"}

IsPassthrough(m) == m \in PASSTHROUGH_METHODS \cup {"tools/list"}
IsToolCall(m) == m = "tools/call"
IsUnknown(m) == ~IsPassthrough(m) /\ ~IsToolCall(m)

NoRequest == [method |-> "none", sev |-> 0, known |-> FALSE]
NoReply   == [result |-> FALSE, readable |-> FALSE, dlp |-> FALSE, inj |-> 0]
NoAnswer  == [status |-> 0, policy |-> "none", body |-> "none"]

\* What asking OPA once can bring: httpx.TimeoutException or ConnectError, an
\* HTTP error status or any other exception, a 200 whose body is not a JSON object
\* of objects, an empty result, a result string, or a result that is no string.
OpaFailures == {"transient", "failed"}
OpaResults  == {"allow", "deny", "escalate", "other", "malformed"}
OpaOutcomes == OpaFailures \cup OpaResults \cup {"bad_body", "empty"}

\* A reply of a backend: a result, an error or both; the severity of the injection in
\* what it says; whether it says it where _extract_response_text() looks (nowhere if
\* there is an error, and only in the text blocks if there is one); and whether the
\* text that is read holds data the DLP scan reports.
Replies ==
  {b \in [result : BOOLEAN, readable : BOOLEAN, dlp : BOOLEAN, inj : Severities] :
     (b.readable => b.result) /\ (b.dlp => b.readable)}

Init ==
  /\ pc = [r \in Requests |-> "idle"]
  /\ req = [r \in Requests |-> NoRequest]
  /\ verdict = [r \in Requests |-> "none"]
  /\ asked = [r \in Requests |-> << >>]
  /\ ran = [r \in Requests |-> FALSE]
  /\ reply = [r \in Requests |-> NoReply]
  /\ out = [r \in Requests |-> << >>]
  /\ file = [r \in Requests |-> << >>]
  /\ stats = [total |-> 0, denials |-> 0, dlp |-> 0, inbound |-> 0]
  /\ http = [r \in Requests |-> NoAnswer]

-----------------------------------------------------------------------------
(* The emitter.  A segment of code emits the events es one after the other;   *)
(* the first write that raises ends it.  e.n events were written everywhere;  *)
(* when e.n < Len(es) event e.n + 1 was counted, and printed if the file was  *)
(* the output that failed.                                                    *)
EventTypes ==
  {"rate_limit", "passthrough", "dlp_finding", "tool_deny", "tool_escalate",
   "inbound_finding", "tool_call"}

Emissions(es) ==
  {e \in [n : 0..Len(es), printed : BOOLEAN] :
     /\ e.n < Len(es) => SinkMayFail
     /\ e.printed => FileLog /\ e.n < Len(es)}

Complete(es, e) == e.n = Len(es)

Occurrences(es, n, types) == Cardinality({i \in 1..n : es[i] \in types})

\* Slip: the denial counter misses the escalations enforced as denials.
DenialsOnly == {"tool_deny"}
DenialTypes == {"tool_deny", "tool_escalate"}

Counted(es, n) ==
  [total   |-> stats.total + n,
   denials |-> stats.denials + Occurrences(es, n, DenialTypes),
   dlp     |-> stats.dlp + Occurrences(es, n, {"dlp_finding"}),
   inbound |-> stats.inbound + Occurrences(es, n, {"inbound_finding"})]

Emit(r, es, e) ==
  /\ out' = [out EXCEPT ![r] =
               @ \o SubSeq(es, 1, IF e.printed THEN e.n + 1 ELSE e.n)]
  /\ file' = IF FileLog THEN [file EXCEPT ![r] = @ \o SubSeq(es, 1, e.n)]
                        ELSE file
  /\ stats' = Counted(es, IF Complete(es, e) THEN e.n ELSE e.n + 1)

Silent == UNCHANGED <<out, file, stats>>

-----------------------------------------------------------------------------
(* The ends of a task. *)
Answer(status, policy, body) == [status |-> status, policy |-> policy, body |-> body]

Refusal      == Answer(200, "deny", "error")
Fallback     == Answer(200, "none", "empty")
ServerError  == Answer(500, "none", "none")

\* Building the JSONResponse raises for a result that JSON cannot carry (NaN) and
\* for an X-Policy-Result that is no header value.
Rendered(answer) ==
  IF answer.body = "backend" \/ answer.policy = "other"
  THEN {answer, ServerError} ELSE {answer}

Finish(r, answer) ==
  /\ pc' = [pc EXCEPT ![r] = "done"]
  /\ \E a \in Rendered(answer) : http' = [http EXCEPT ![r] = a]

Suspend(r, where) ==
  /\ pc' = [pc EXCEPT ![r] = where]
  /\ UNCHANGED http

\* get_backend(server_id) raises for a missing or disabled server and does not
\* suspend; otherwise the task waits in backend.forward().
Forward(r, known, where, failure) ==
  /\ ran' = [ran EXCEPT ![r] = known]
  /\ IF known THEN Suspend(r, where) ELSE Finish(r, failure)

\* Slip: an error of the emitter is swallowed and the answer sent all the same.
EmitAndAnswer(r, es, answer, onError) ==
  \E e \in Emissions(es) : Emit(r, es, e) /\ Finish(r, answer)

\* Emit es and end the task: with answer, or with onError when a write raised.
EmitThenFinish(r, es, answer, onError) ==
  \E e \in Emissions(es) :
    /\ Emit(r, es, e)
    /\ Finish(r, IF Complete(es, e) THEN answer ELSE onError)

-----------------------------------------------------------------------------
(* Arrival: authentication, parsing and the segment of enforce() before its   *)
(* first await.                                                               *)
Arrivals ==
  {q \in [method : Methods, sev : Severities, known : BOOLEAN] :
     IsToolCall(q.method) \/ q.sev = 0}

Arrive(r, q) ==
  /\ pc[r] = "idle"
  /\ req' = [req EXCEPT ![r] = q]
  /\ UNCHANGED <<asked, reply>>

\* 401 for a wrong token, 400 for a body that is no JSON-RPC request.
Reject(r) ==
  /\ pc[r] = "idle"
  /\ \E status \in {400, 401} : Finish(r, Answer(status, "none", "none"))
  /\ Silent
  /\ UNCHANGED <<req, verdict, asked, ran, reply>>

\* The limiter refuses: whatever the method, before anything else.
RateLimited(r) ==
  \E q \in Arrivals :
    /\ Arrive(r, q)
    /\ EmitThenFinish(r, <<"rate_limit">>, Refusal, ServerError)
    /\ UNCHANGED <<verdict, ran>>

StartPassthrough(r) ==
  \E q \in Arrivals :
    /\ IsPassthrough(q.method)
    /\ Arrive(r, q)
    /\ Forward(r, q.known, "passing", Refusal)
    /\ Silent
    /\ UNCHANGED verdict

StartUnknown(r) ==
  \E q \in Arrivals :
    /\ IsUnknown(q.method)
    /\ Arrive(r, q)
    /\ Forward(r, q.known, "unknown", Fallback)
    /\ Silent
    /\ UNCHANGED verdict

InputFindings(q) == DlpEnabled /\ q.sev > 0
InputBlocked(q) == InputFindings(q) /\ q.sev >= BlockLevel(DlpBlockSeverity)

\* _extract_tool_call() raises for a name that is no string, arguments that are
\* no object.
StartMalformed(r) ==
  \E q \in Arrivals :
    /\ IsToolCall(q.method)
    /\ Arrive(r, q)
    /\ Finish(r, ServerError)
    /\ Silent
    /\ UNCHANGED <<verdict, ran>>

\* tools/call with nothing found in its arguments: on to OPA.
StartClean(r) ==
  \E q \in Arrivals :
    /\ IsToolCall(q.method) /\ ~InputFindings(q)
    /\ Arrive(r, q)
    /\ Suspend(r, "opa1")
    /\ Silent
    /\ UNCHANGED <<verdict, ran>>

\* tools/call with findings: reported, then blocked or passed on to OPA.
StartWithFindings(r) ==
  \E q \in Arrivals :
    /\ IsToolCall(q.method) /\ InputFindings(q)
    /\ Arrive(r, q)
    /\ \E e \in Emissions(<<"dlp_finding">>) :
         /\ Emit(r, <<"dlp_finding">>, e)
         /\ IF ~Complete(<<"dlp_finding">>, e) THEN Finish(r, ServerError)
            ELSE IF InputBlocked(q) THEN Finish(r, Refusal)
            ELSE Suspend(r, "opa1")
    /\ UNCHANGED <<verdict, ran>>

-----------------------------------------------------------------------------
(* decide() and what enforce() does with the decision. *)
AwaitsOpa(r) == pc[r] \in {"opa1", "opa2"}

Hear(r, o) ==
  /\ AwaitsOpa(r)
  /\ asked' = [asked EXCEPT ![r] = Append(@, o)]
  /\ UNCHANGED <<req, reply>>

\* The first attempt failed in a way worth a retry.
OpaTransient(r) ==
  /\ pc[r] = "opa1"
  /\ Hear(r, "transient")
  /\ Suspend(r, "backoff")
  /\ Silent
  /\ UNCHANGED <<verdict, ran>>

\* Slip: the loop begins anew, with its count of attempts, after the back-off.
OpaRetryForever(r) ==
  /\ pc[r] = "backoff"
  /\ Suspend(r, "opa1")
  /\ Silent
  /\ asked' = [asked EXCEPT ![r] = << >>]
  /\ UNCHANGED <<req, verdict, ran, reply>>

OpaRetry(r) ==
  /\ pc[r] = "backoff"
  /\ Suspend(r, "opa2")
  /\ Silent
  /\ UNCHANGED <<req, verdict, asked, ran, reply>>

\* resp.json() and the two .get() are outside the try of decide().
OpaRaises(r) ==
  /\ Hear(r, "bad_body")
  /\ Finish(r, ServerError)
  /\ Silent
  /\ UNCHANGED <<verdict, ran>>

DecisionOf(o) ==
  CASE o \in OpaFailures -> IF FailClosed THEN "deny" ELSE "allow"
    [] o = "empty"       -> "deny"
    [] OTHER             -> o

\* Slip: only deny stops the call.
StopsOnDeny(d) == d = "deny"
Stops(d) == d \in {"deny", "escalate"}

\* decide() returns a decision; enforce() refuses or forwards at once.
Decides(r) ==
  \E o \in OpaOutcomes \ {"bad_body"} :
    LET d == DecisionOf(o) IN
    /\ o = "transient" => pc[r] = "opa2"
    /\ Hear(r, o)
    /\ verdict' = [verdict EXCEPT ![r] = d]
    /\ \/ /\ Stops(d)
          /\ EmitThenFinish(r, IF d = "escalate" THEN <<"tool_escalate">>
                                                 ELSE <<"tool_deny">>,
                            Answer(200, d, "error"), ServerError)
          /\ UNCHANGED ran
       \/ /\ ~Stops(d)
          /\ Forward(r, req[r].known, "forward", Refusal)
          /\ Silent

-----------------------------------------------------------------------------
(* The backend answered (or failed: both backends turn every failure into an  *)
(* error response), and the rest of enforce() and of the handler runs.        *)
Receive(r, where, b) ==
  /\ pc[r] = where
  /\ reply' = [reply EXCEPT ![r] = b]
  /\ UNCHANGED <<req, verdict, asked, ran>>

\* Replies to a request that is not scanned.
PlainReplies == {b \in Replies : ~b.dlp /\ b.inj = 0}

EndPassthrough(r) ==
  \E b \in PlainReplies :
    /\ Receive(r, "passing", b)
    /\ EmitThenFinish(r, <<"passthrough">>, Answer(200, "allow", "backend"), Refusal)

EndUnknown(r) ==
  \E b \in PlainReplies :
    /\ Receive(r, "unknown", b)
    /\ Finish(r, Answer(200, "allow", "backend"))
    /\ Silent

OutputFindings(b) == DlpEnabled /\ b.readable /\ b.dlp
InboundFindings(b) == InboundEnabled /\ b.readable /\ b.inj > 0
\* Slip: replace the content only above the configured severity.
InboundBlockedAbove(b) ==
  InboundFindings(b) /\ b.inj > BlockLevel(InboundBlockSeverity)

InboundBlocked(b) ==
  InboundFindings(b) /\ b.inj >= BlockLevel(InboundBlockSeverity)

ScanEvents(b) ==
  (IF OutputFindings(b) THEN <<"dlp_finding">> ELSE << >>) \o
  (IF InboundFindings(b) THEN <<"inbound_finding">> ELSE << >>)

\* Slip: a blocked answer returns before the final event.
ReplyEventsEarly(b) ==
  IF InboundBlocked(b) THEN ScanEvents(b) ELSE ScanEvents(b) \o <<"tool_call">>

\* Slip: an error of the backend returns before the final event.
ReplyEventsOfResults(b) == IF b.result THEN ScanEvents(b) \o <<"tool_call">> ELSE << >>

ReplyEvents(b) == ScanEvents(b) \o <<"tool_call">>

\* Slip: content that was replaced is reported as a denial.
ToolAnswerDenies(d, b) ==
  IF InboundBlocked(b) THEN Refusal ELSE Answer(200, d, "backend")

\* A ProxyResult refuses a policy_result that is no string.
ToolAnswer(d, b) ==
  IF d = "malformed" THEN ServerError
  ELSE Answer(200, d, IF InboundBlocked(b) THEN "canned" ELSE "backend")

EndToolCall(r) ==
  \E b \in Replies :
    /\ Receive(r, "forward", b)
    /\ EmitThenFinish(r, ReplyEvents(b), ToolAnswer(verdict[r], b), ServerError)

-----------------------------------------------------------------------------
Begin(r) ==
  \/ Reject(r) \/ RateLimited(r) \/ StartPassthrough(r) \/ StartUnknown(r)
  \/ StartMalformed(r) \/ StartClean(r) \/ StartWithFindings(r)

Continue(r) ==
  \/ OpaTransient(r) \/ OpaRetry(r) \/ OpaRaises(r) \/ Decides(r)
  \/ EndPassthrough(r) \/ EndUnknown(r) \/ EndToolCall(r)

Next == \E r \in Requests : Begin(r) \/ Continue(r)

Spec == Init /\ [][Next]_vars

\* Every await is bounded: httpx and the two backends give up after a time.
Fairness == \A r \in Requests : WF_vars(Continue(r))

FairSpec == Spec /\ Fairness

-----------------------------------------------------------------------------
(* Properties *)
TypeOK ==
  /\ pc \in [Requests -> {"idle", "opa1", "backoff", "opa2", "passing",
                          "unknown", "forward", "done"}]
  /\ req \in [Requests -> Arrivals \cup {NoRequest}]
  /\ verdict \in [Requests -> {"none"} \cup OpaResults]
  /\ asked \in [Requests -> Seq(OpaOutcomes)]
  /\ ran \in [Requests -> BOOLEAN]
  /\ reply \in [Requests -> Replies]
  /\ out \in [Requests -> Seq(EventTypes)]
  /\ file \in [Requests -> Seq(EventTypes)]
  /\ stats \in [total : Nat, denials : Nat, dlp : Nat, inbound : Nat]
  /\ http \in [Requests -> [status : {0, 200, 400, 401, 500},
                            policy : {"none"} \cup OpaResults,
                            body : {"none", "error", "empty", "backend", "canned"}]]

LastAsked(r) == asked[r][Len(asked[r])]

\* No tool call reaches a backend unless the last word of OPA on it was a
\* decision other than deny and escalate (or, failing open, a failure, a transient
\* one only the second time), and nothing in its arguments was at the blocking
\* severity: over retries, failures and every order of the tasks.
NoUngovernedForward ==
  \A r \in Requests : ran[r] /\ IsToolCall(req[r].method) =>
    /\ Len(asked[r]) > 0
    /\ \/ LastAsked(r) \in {"allow", "other", "malformed"}
       \/ ~FailClosed /\ LastAsked(r) \in OpaFailures
    /\ LastAsked(r) = "transient" => Len(asked[r]) = 2
    /\ DlpEnabled /\ req[r].sev > 0 => req[r].sev < BlockLevel(DlpBlockSeverity)

\* A client that was told deny or escalate about a tool call may rely on it: the
\* tool did not run, not even when an output of the audit log failed afterwards.
DenyMeansNotRun ==
  \A r \in Requests :
    IsToolCall(req[r].method) /\ http[r].policy \in {"deny", "escalate"} => ~ran[r]

Delivered(r) == http[r].body \in {"backend", "canned"}

Injected(b) == b.inj > 0 /\ b.inj >= BlockLevel(InboundBlockSeverity)

\* Of the replies whose text _extract_response_text() returns, those with an
\* injection of the blocking severity, and no others, are replaced before they are
\* answered.  A reply that it does not read is delivered as it is: that contradicts
\* what is documented, see InjectionNeverDelivered.
ReadableInjectionReplaced ==
  \A r \in Requests :
    IsToolCall(req[r].method) /\ Delivered(r) =>
      (http[r].body = "canned"
         <=> InboundEnabled /\ reply[r].readable /\ Injected(reply[r]))

Recorded(r, type) ==
  /\ \E i \in 1..Len(out[r]) : out[r][i] = type
  /\ FileLog => \E i \in 1..Len(file[r]) : file[r][i] = type

\* What leaves an audit trail leaves it before it is answered, whatever writes fail:
\* delivered content of a tool call and of a pass-through method, what the scans of a
\* delivered reply found, and a refusal by the limiter, the scan of the arguments or
\* the policy are on every configured output.  (No event is written for an unknown
\* method, nor for a request whose server is missing or disabled.)
AuditBeforeAnswer ==
  \A r \in Requests :
    /\ Delivered(r) /\ IsToolCall(req[r].method) => Recorded(r, "tool_call")
    /\ Delivered(r) /\ IsPassthrough(req[r].method) => Recorded(r, "passthrough")
    /\ Delivered(r) /\ IsToolCall(req[r].method) /\ InboundFindings(reply[r])
         => Recorded(r, "inbound_finding")
    /\ Delivered(r) /\ IsToolCall(req[r].method) /\ OutputFindings(reply[r])
         => Recorded(r, "dlp_finding")
    /\ ~IsPassthrough(req[r].method) /\ http[r].policy = "deny" /\ verdict[r] = "none"
         => Recorded(r, "rate_limit") \/ Recorded(r, "dlp_finding")
    /\ http[r].policy = "deny" /\ verdict[r] = "deny" => Recorded(r, "tool_deny")
    /\ http[r].policy = "escalate" => Recorded(r, "tool_escalate")

MaxEvents == 4

Lines(log, types) ==
  Cardinality({p \in Requests \X (1..MaxEvents) :
    p[2] <= Len(log[p[1]]) /\ log[p[1]][p[2]] \in types})

\* Requests that ended in a way a failing output can end them.
EndedInError ==
  {r \in Requests : \/ http[r].status = 500
                    \/ IsPassthrough(req[r].method) /\ http[r] = Refusal}

\* GET /stats agrees with the log of all requests together: a denial counter
\* includes the escalations, and a counter runs ahead of the lines by no more
\* than the requests a failing output ended.
CountersCoverLogs ==
  /\ \A counter \in {<<stats.total, EventTypes>>,
                     <<stats.denials, {"tool_deny", "tool_escalate"}>>,
                     <<stats.dlp, {"dlp_finding"}>>,
                     <<stats.inbound, {"inbound_finding"}>>} :
       /\ Lines(out, counter[2]) <= counter[1]
       /\ counter[1] <= Lines(out, counter[2])
                          + (IF SinkMayFail THEN Cardinality(EndedInError) ELSE 0)
  /\ FileLog => \A r \in Requests :
       Len(out[r]) - Len(file[r]) \in 0..1
       /\ file[r] = SubSeq(out[r], 1, Len(file[r]))

-----------------------------------------------------------------------------
(* The promise: GovernedCalls. *)
Stage(r) ==
  CASE pc[r] = "idle" -> "new"
    [] pc[r] \in {"opa1", "backoff", "opa2"} -> "deciding"
    [] pc[r] \in {"passing", "unknown", "forward"} -> "running"
    [] OTHER -> "answered"

Told(r) ==
  CASE http[r] = NoAnswer -> "nothing"
    [] Delivered(r) -> "content"
    [] http[r].policy \in {"deny", "escalate"} -> "refusal"
    [] OTHER -> "error"

Promise == INSTANCE GovernedCalls WITH
  kind <- [r \in Requests |-> IF req[r] = NoRequest THEN "none"
                              ELSE IF IsToolCall(req[r].method) THEN "tool"
                              ELSE "other"],
  phase <- [r \in Requests |-> Stage(r)],
  told <- [r \in Requests |-> Told(r)],
  recorded <- {r \in Requests : Recorded(r, "tool_call") \/ Recorded(r, "passthrough")}

\* The retries, the order of scans, decisions and writes, and every output that
\* fails: no client can tell the pipeline from one that decides, runs, records and
\* answers each request once.
KeepsPromise == Promise!Spec

-----------------------------------------------------------------------------
(* What the documentation says. *)

\* "The inbound scanner catches these before they reach the agent."  While the scan is
\* on, no agent receives a result with an injection of the blocking severity.
InjectionNeverDelivered ==
  \A r \in Requests :
    /\ IsToolCall(req[r].method) /\ InboundEnabled
    /\ http[r].body = "backend" /\ reply[r].result
    => ~Injected(reply[r])
=============================================================================

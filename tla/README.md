# A verification of the Behavry proxy

Behavry proxy stands between AI agents and MCP servers. Every JSON-RPC request to
`POST /mcp/{server_id}` goes through one function, `enforce()`, which limits the rate,
scans the arguments of a tool call, asks an OPA sidecar for a decision, forwards the call,
scans the answer and writes an audit log. This directory models that program in TLA+,
checks the models with TLC on small instances and proves the central results with TLAPS.

Paths below are relative to the package, `behavry_proxy/`.

## 1. Inventory

The proxy is one process with one asyncio thread. Tasks interleave only where the code
awaits: at OPA, at the back-off, at a backend, at `asyncio.Lock`, at `drain()`, at a
future. Everything between two awaits is atomic, and is one action in the models.

| Component | State | Operations | Talks to |
|---|---|---|---|
| HTTP front end, `proxy/router.py` | none | `mcp_proxy`, `health_check`, `get_servers`, `get_stats` | calls `enforce`, OPA's health, the registry, the emitter |
| Enforcement pipeline, `proxy/pipeline.py` | one task per request | `enforce` | limiter, scanners, policy client, registry, backend, emitter |
| Rate limiter, `proxy/rate_limiter.py` | a deque of admission times and an average per agent | `check`, `reset` | called by `enforce`, never suspends |
| Policy client, `policy/client.py` | an HTTP client | `decide`, `push_policy`, `is_healthy` | OPA |
| DLP scanner, `dlp/scanner.py` | none | `scan`, `scan_dict`, `max_severity`, Luhn and SSN checks | called by `enforce` |
| Inbound scanner, `dlp/inbound.py` | none | `scan`, `sanitize`, `get_max_severity` | called by `enforce` |
| Registry, `proxy/registry.py` | server id to configuration and backend | `register_server`, `unregister_server`, `get_backend`, `close_all` | owns the backends |
| HTTP backend, `proxy/backends/http.py` | an HTTP client | `forward`, `close` | a remote MCP server |
| Stdio backend, `proxy/backends/stdio.py` | child process, lock, table of pending futures, reader task | `forward`, `_ensure_process`, `_read_responses`, `close` | a child process over two pipes |
| Audit emitter, `audit/emitter.py` | counters, a file handle | `emit`, `get_stats` | stdout, a JSONL file |
| Startup, `main.py` | none | register servers, ask OPA's health, push policies | registry, policy client |
| Bundled policies, `bundled/policies` | the `deny` set of a request | `decision.rego` picks the lowest entry | evaluated by OPA |
| Dashboard, `tui/dashboard.py` | counters, the last events | `tail_audit_file`, `add_event` | a second process, reads the JSONL file |
| Configuration, command line, `config.py`, `cli.py` | the configuration of one start | arguments to environment, `load_config`, `_load_servers` | read once by startup |
| Scaffold, `resources.py` | files of the operator | `scaffold`, `find_servers_config` | called by `init`, by `load_config` |
| Translator, metrics | not used by requests | | |

What is hard about each of them, and what makes it correct:

- **Pipeline.** Every stage may end a request; OPA may fail in seven ways, twice; a write
  of the log may raise between a decision and its answer. Correct when no tool runs without
  a decision that lets it run, a denial means that nothing ran, an injection that a scan
  sees does not reach the agent, nothing is answered ahead of its log, the counters agree
  with the log, and every request ends.
- **Rate limiter.** It forgets: expired times are popped and refusals are not recorded.
  Correct when forgetting changes no verdict, and no window ever holds more than the cap.
- **Stdio backend.** Many calls, one child, one table of futures, one reader, a child that
  may answer in any order, late, never, or die at any point. Correct when there is one
  child and one reader, each caller gets its own answer, the table does not leak, and
  nothing but a child that does not read costs a call its answer or its return.
- **Startup and policy push.** A push that fails for one file leaves OPA with the other
  rules, and a put that was given up may still arrive. Correct when what is enforced is
  weaker than what was configured only where the log says so.
- **Registry.** Entries may repeat an id, be refused or be no entry at all; closing one
  backend may raise before the others are closed. Correct when the last usable entry of an
  id serves it, and a shutdown leaves open only what refused to close.
- **Scanners.** Findings are deduplicated by position before their severity is compared
  with the threshold, and replaced from the end of the text, because each replacement moves
  what is behind it. Correct when every string is looked at once, no finding hides a more
  severe one, and redaction touches nothing else. (Of these three the code keeps the last.)
- **Command line and scaffold.** Arguments travel through the environment; `init` may be
  killed in a copy and run again over edited files. Correct when a start does what it was
  told, a protection is off only if somebody switched it off, and edits survive `init`.
- **Dashboard.** Reads a file while it is written. Correct when every event counts once.

## 2. The modules

| Module | What it is |
|---|---|
| `SlidingWindow` | abstract: a limiter that keeps the whole admission history |
| `RateLimiter` | `AgentRateLimiter`: the pruned deques, the average, the verdicts |
| `RateLimiterProofs` | its theorems |
| `GovernedCalls` | abstract: requests that are decided, run, recorded and answered once |
| `Pipeline` | the handler, `enforce()`, `decide()` and the emitter, for a set of concurrent requests; implements `GovernedCalls` |
| `MCPipeline` | the pipeline for TLC |
| `PipelineProofs` | its theorems |
| `StdioBackend` | calls of `forward()`, the lock, children, pipes, the reader |
| `StdioBackendProofs` | its theorems |
| `MCStdioBackend` | the backend for TLC |
| `ProxyWithStdio` | `Pipeline` and `StdioBackend` composed: requests in front of one stdio server; implements `Pipeline` |
| `MCProxyWithStdio` | the composition for TLC |
| `ProxyWithStdioProofs` | its theorems, from those of its two parts |
| `Scanners` | `scan_dict()`, the Luhn validator, overlap removal and `sanitize()` |
| `MCScanners` | the scanners for TLC |
| `ScannersProofs` | their theorems, and induction over numbers, sequences and trees |
| `Launch` | `init`, arguments, environment, `servers.yaml`, the registry from startup to shutdown |
| `LaunchProofs` | its theorems |
| `PolicyLifecycle` | startup, the push of policy files, OPA's modules, `decision.rego` |
| `PolicyLifecycleProofs` | its theorems |
| `AuditTail` | the audit file between the emitter and the dashboard |
| `AuditTailProofs` | its theorems |

### RateLimiter

`windows[a]` and `avg[a]` are `_windows` and `_avg_rpm`, where an agent without an entry
has the empty deque and 0, as `check()` treats it. `Check(a)` is one call: pop, update the
average, decide, record. `Reset(a)` is `reset()`; a restart of the process is a reset of
every agent. The clock is a counter in ticks. The average, a float in the code, is a fixed
point number that is rounded up, so that it stays positive where the float does.

`SlidingWindow` has no deque: it admits a request exactly when fewer than the cap were
admitted in the last window. `ImplementsSlidingWindow` says that the limiter does that.

### Pipeline

`pc[r]` is the await at which the task of request `r` is suspended; an action is the code
from there to the next await:

| Action | Code |
|---|---|
| `Reject` | authentication and parsing in `mcp_proxy` |
| `RateLimited`, `StartPassthrough`, `StartUnknown`, `StartMalformed`, `StartClean`, `StartWithFindings` | the first segment of `enforce`, one action per way through it |
| `OpaTransient`, `OpaRetry` | a failed first attempt of `decide` and the end of its back-off |
| `OpaRaises` | a body that `decide` cannot read |
| `Decides` | the end of `decide` and what `enforce` does with it: refuse, or look the backend up and forward |
| `EndPassthrough`, `EndUnknown`, `EndToolCall` | the reply of the backend to the answer of the handler |

Data is abstract: arguments are the severities that scanning them finds, OPA's answer is
one of the outcomes that `decide` tells apart. A reply has a result or not, and says with
some severity to inject instructions or not; it is `readable` when
`_extract_response_text()` returns the text that says so. A reply with an error is not,
even if it has a result. The emitter is `Emit`: a segment writes a list of events, each
first to stdout, then to the file; the first write that raises ends the segment, with the
event already counted. `Rendered` lets the construction of the response raise where
`JSONResponse` can. `asked`, `verdict`, `ran` and `reply` record what happened to a
request so that properties can speak of it.

`GovernedCalls` is what a client may rely on. It knows four phases of a request and
neither OPA, retries, scanners, counters nor the order of writes: a request is decided
upon once, runs at most once and never before the decision, is answered once, is not
called refused when it ran, and what a tool call brought is handed out only with its
record on every output of the log. `Stage` and `Told` map the pipeline to it.
`KeepsPromise` says that every step of the pipeline is one of its steps or none. `InTime`
is its fairness, from which it follows that a request that was accepted is answered;
`KeepsPromiseInTime` of `ProxyWithStdio` shows where it holds.

`AuditBeforeAnswer` lists what leaves a record. A method that the code does not know, a
server that is missing or disabled, and an exception of `decide` leave none. A pass-through
request whose record cannot be written is refused although the backend has run it:
`DenyMeansNotRun` speaks of tool calls.

Left out: the reason and the policy id of a decision, and answers of OPA in which these two
are no strings. HTTP backends appear here as the wait for exactly one reply, because
`HTTPBackend.forward` returns an error reply for every failure.

### StdioBackend

`child[g]` is the `g`-th child process. A line on a pipe is the call it came from. Calls
get the lock in order of arrival (`Enter`, `Queue`, `Wake`); a start may fail
(`StartFails`); what follows a start, up to `drain()`, is in the same action, because no
await suspends in between. `TakeLine`, `Respond`, `Chatter` and `Die` are the child,
which is not under `src/` and may do anything a process can. `Reap` is the event loop
learning of an exit, which is when `returncode` is set, and not when the child dies.
`Flush` and `paused` are the write buffer of the transport: `drain()` suspends only above
its high-water mark. `TimerFires` and `Collect` are `wait_for()` in two steps, because a
future may be resolved or time out before its task runs again. `lost` is a history
variable: the calls whose answer was dropped although they counted on it. `Close` is the
shutdown, when no call is in flight.

`drain()` is where the code has its weak point: it has no timeout, and it suspends a call
that has written its line and not registered its future. `HeldByChild` is a call that waits
there for a child that lives. `EveryCallReturns` and `DroppedOnlyInDrain` say that this is
the only place at which a call can be stuck or an answer be dropped.

### ProxyWithStdio

`Pipeline` waits for "the reply of a backend"; here the backend is `StdioBackend`, with
the requests for its calls. `Hand` is a segment of `enforce()` that ends in
`backend.forward()`: one step of both modules, because nothing suspends between the
decision and the lock. `Deliver` is what the pipeline does with what `forward()` returned,
and its reply has a result only if the child sent one; which replies a child sends is
bounded by `ChildAnswers`. `Close` is the shutdown, when no request is left and none will
be taken. In the code the end of `forward()` and what follows it are one segment; here
they are two steps, between which other tasks may run, which allows more orders than the
code has. The answers of OPA are cut down to `OpaAnswers`, the scanners are off:
`Pipeline` is checked with them on its own. `Served(r)` says that the child does not hold
request `r` in `drain()` for ever; `ImplementsPipeline` and `KeepsPromiseInTime` promise a
request its answer under that condition and no other.

### Scanners

A loop of the code is a sequence of steps, so that an invariant can speak of its middle.
`Visit` is one value of `scan_dict()`: a string is scanned, a dict is gone into, of the
items of a list only the strings and the dicts, in any order. `ScanReply` chooses what the
regular expressions of the inbound scanner match (any spans, disjoint for one pattern) and
sorts them by start, with the order of the pattern list among equals. `Dedup` is one turn
of the removal of overlaps, which compares with the greatest end so far; `StartSanitize`
and `Redact` go through the kept spans from the last to the first and replace each by the
mark. `LuhnCheck` is the validator, which weighs the digits from the right. `Payloads` are
numbers without their last digit, `Issued` completes them by the check digit as an issuer
computes it, and `Mistype` puts one other digit anywhere.

`RedactedExactly` speaks of what each character becomes (`Piece`, joined by `Rest`), without a
loop of the code. The pipeline does not call `sanitize()`: it replaces the whole content.
What `scan_dict()` finds is stated by a theorem (`WhatIsScanned`), over the tree alone.

### Launch

`disk[f]` is the state of a file: absent, cut, a template, the operator's own. `RunInit`
to `InitReports` are `scaffold()` with `CopyBegins` and `CopyEnds` on both sides of the
moment in which a copy is there in part; the test for the file and the opening of its copy
are one step. `InitDies` is a kill or a copy that raises. `RunProxy` puts the arguments
into the environment and `Load` reads it; `TakeEntry` is one entry of the servers file,
which the code takes or warns of and passes over, until `LoadEnds`. `LoadRaises` is a
number that is none, or a file that is no YAML or that was asked for and cannot be read.
`RegisterNext` registers one entry, in their order, and `Startup` ends that. `Use` is the
first request to a server, which opens its client or process; `Shutdown`, `Close` and
`Stopped` are `close_all()`, with a `close()` that may raise. Settings that the code
treats alike are one setting, and of an argument that Python takes for false, `--port 0`
or an empty path, nothing reaches the environment (`blank`). An entry that is switched off
counts as usable: it takes the place of a good one before it, as `register_server()` has
it. One command runs at a time, because a proxy that serves reads neither files nor
environment again. `given` and `crashed` are history variables.

### PolicyLifecycle

A file is its place in the sorted list of paths, and says which requests its rules deny.
`Edit` is the operator, `OpaStarts` and `OpaStops` the sidecar, which keeps its modules in
memory. `ProxyStarts` runs `startup()` up to the health check; `Healthy` and `Unhealthy` go
on from its answer. `PushNext` is the loop of `_push_policies()` from one await to the next:
it logs the files that it cannot read and suspends in the put of the first that it can.
`Pushed`, `PushRetries`, `PushGivesUp` and `BackoffEnds` are `push_policy()`. An attempt that
fails (`PutFails`) may have sent a put that OPA takes later: it goes to `late`, and `LatePut`
takes it, before the next attempt, behind the end of the push, or in a later startup, until
OPA stops. `Allows` is what a request is told: the posture if asking OPA failed, which it may
whether OPA is up or not (`Asks`), a denial without `decision.rego`, otherwise the union of
the deny rules that OPA holds. `listed`, `read`, `failed` and `intact` are history variables;
`intact` is set when the answer of the health check arrives and no put of an earlier startup
is left.

Left out: files under `test`, and modules that OPA refuses only together with others.

### AuditTail

The file is a sequence of pieces: a whole line, or the two parts of one that was cut inside
of its object or before its newline. `EmitFirst`, `EmitRest` and `Dies` are the emitter,
which may be killed in a line and, after a restart, appends to what it left. `TailOpens`
seeks to the end, `TailReads` is one `readline()` with what follows. `added` and `cuts` are
history variables.

## 3. What is checked

Every property was seen to fail when one definition of the model is replaced by a
plausible slip; the slips are the definitions marked `Slip:` next to what they change.

| Run | Instance | Shows |
|---|---|---|
| `limiter_window` | 1 agent, cap 9, window 2, clock 5 | at most the cap in every window; the limiter implements `SlidingWindow` |
| `spike` | 1 agent, cap 18, window 1, clock 3 | *violated:* a count of more than three times that of every window before is not called a spike |
| `pipeline` | 2 requests, fail open, a misspelt severity, findings below and at the threshold, failing writes | governance, replaced content, denials are final, log before answer, counters; the pipeline implements `GovernedCalls`, without the help of a working log |
| `pipeline_unread` | 1 request, the defaults | *violated:* a result that the scan does not read reaches the agent with what it injects |
| `stdio` | 3 calls, one a notification; 2 children, one message of their own; a pipe for one line | one child with one reader, right answers and an exact table; `drain()` is the only place where an answer is dropped or a call is stuck |
| `stdio_shared` | 2 calls, one id | *violated:* a caller gets the answer to another's request |
| `proxy_stdio` | 2 requests, a pass-through and a tool call; 2 children, a pipe for one line | what was refused was never written to a child, what was sent is in the log, a result is the caller's own, shutdown leaves nothing; the composition implements the fair `Pipeline`, and a request that `drain()` does not hold is answered |
| `scanners` | replies of 4 characters with up to 3 matches of 3 patterns, cards of 13, 16 and 19 digits, arguments of 5 values | the loops compute what definitions without loops say |
| `priority` | replies of 3 characters with up to 2 matches | *violated:* a finding removes a more severe one |
| `launch` | 2 files of `init` and one more, 2 ids, files of up to 3 entries | edits survive, `--force` repairs, a start takes each setting from where it should, the last usable entry serves, shutdown closes what is open |
| `policy_push` | 2 files, fail open, 2 starts each of proxy and OPA, 2 edits | files without a logged failure are in force; what OPA denied it permits only by a late put; startup ends |
| `audit_tail` | 3 events, 2 shown, 3 starts | no event twice or out of order; only cut lines are lost; the dashboard catches up |

The violated properties state what a document, a docstring or a comment of the repository
says; `PROJECT.json` quotes it with the line of code that does otherwise.

**Bounds.** Two requests are enough for the pipeline because tasks share only the
emitter's counters and its log: a third adds orders but no new relation between two tasks.
The severities are none, one below and one at the threshold, in `pipeline_unread` one
above it too. Three calls are the fewest with one that holds the lock, one that queues and
one that waits for an answer; two children the fewest with a crash and a restart
(`MaxStarts`); one line of its own (`MaxChatter`) is enough for a child to take the place
of an answer or to end the reader; a pipe that holds one line (`PipeRoom`) and a transport
that pauses its writers above an empty buffer (`HighWater`) let `drain()` suspend the
second call and all behind it. Agents of the limiter share nothing, so one is enough; the
clock passes two windows (`MaxTime`), and the cap is small enough to be reached, in
`spike` large enough for 17 requests after a window of 5. Two policy files are one with
rules, and `decision.rego` behind it (`EntryFile`); more files, and others behind
`decision.rego`, are left to the theorems. All contents of the directory are initial
states; two edits (`MaxEdits`) put two texts behind a first one, of which one may be put
late. Three events are the fewest with one before, one at and one after a cut. Arguments
of five values (`MaxNodes`) have room for a list in a list in a dict with a string on both
sides; four characters (`TextLen`) and three matches (`MaxMatches`) for two findings that
touch, one that covers both, and text around them; `Payloads` are a short, a usual and a
long number, with every digit in every place and the filling changing there. Three entries
(`MaxEntries`) put a bad one between two good ones, two ids tell a duplicate from another
server, and two templates (`NFiles`) let a run of `init` die before, in and after one of
them. In the composition two requests are one that uses the child and one that waits, is
held in `drain()`, is refused, or comes after a crash; `OpaAnswers` are one that forwards,
one that refuses and the failure that is tried again, and `ChildAnswers` one result,
because what a reply says changes nothing between the two parts. Symmetry is used only in
`pipeline`, which has no liveness property. Deadlock is not checked where the system
really stops: every request answered, every call returned, the clock at its bound, no
start left.

**Fairness.** `Pipeline` assumes weak fairness of what follows an await: the calls to OPA
have a timeout, the sleep ends, and `forward()` of a backend returns. For the HTTP backend
the last is httpx's timeout. For the stdio backend it is not assumed but derived, and it
is not true without exception: a child that stops reading holds a call in `drain()`,
around which there is no timeout, for ever. `EveryCallReturns` of `stdio` shows that
nothing else can, and `ImplementsPipeline` of `proxy_stdio` derives the fairness of
`Pipeline`, for each request that is `Served`, from that of asyncio and OPA alone, with a
child that may stall or die at any point and a full pipe. So the liveness of the pipeline
over a stdio server, `KeepsPromiseInTime`, has that condition for each request by itself:
one that is held does not hold another. `StdioBackend` assumes that asyncio runs what can
run, that timers fire and that starting a process ends; it assumes nothing of the child.
`PolicyLifecycle` assumes that calls to OPA end, by their timeout at the latest, and that
the back-off does; nothing of OPA. `AuditTail` assumes that the tailer's thread is
scheduled, and nothing of the proxy. `Scanners` and `Launch` have no liveness properties
and no fairness.

**Disagreements without a run.** These were met while modelling and are visible in the
models or in the code, but no run is spent on them:

- `docs/CONFIGURATION.md:15` and `docs/ARCHITECTURE.md:70` describe a limit per minute.
  `proxy/rate_limiter.py:47` stores it and `check()` never reads it: only the burst cap
  limits.
- `README.md:36` promises that every decision is recorded. A method that is
  neither a tool call nor a pass-through one is allowed or denied without an event
  (`proxy/pipeline.py:197`), and so is a request whose server is missing or disabled; the
  actions of `Pipeline` that are `Silent` show the rest.
- `proxy/backends/stdio.py:128` registers the future of a call after `drain()`. An answer that
  is read while the call is suspended there finds no future and is dropped, and the caller
  times out. It needs a full write buffer; `DroppedOnlyInDrain` says that no answer is
  dropped otherwise. `drain()` itself (`stdio.py:112`) is outside the timeout of the call.
- `proxy/backends/stdio.py:95` awaits "the response on stdout". A line that is JSON but no
  object, or is longer than the limit of the stream, ends the reader (`stdio.py:86`). The child
  lives, so no call starts another reader, and all later calls time out: `ReadFatal`.
- `docs/CONFIGURATION.md:7-19` names `BEHAVRY_PROXY_OPA_FAIL_CLOSED` and others;
  `config.py` (93-108) reads `BEHAVRY_OPA_FAIL_CLOSED` and so on: of the documented names
  only those of host and port are read. The documented timeout of 2 seconds is 5 in the
  code.
- `cli.py:124` says that "everything is already in place" when `init` wrote nothing. A file
  that an interrupted `init` left cut counts as in place; `--force` repairs it.
- `cli.py:54` passes over `--port 0` and empty arguments, which the help of the options does
  not say; `StartsAsTold` calls them blank.
- `docs/POLICIES.md:65` and `policy/client.py:26` know three results of a policy. Any other
  result is forwarded like `allow`, see `Stops` in `Pipeline`.
- `docs/CONFIGURATION.md:123` says that policies are pushed on startup. They are pushed only
  if OPA answers the health check within a second; a file that fails three times is skipped
  and the proxy serves without its deny rules; an OPA that restarts gets none. `PushGivesUp`,
  `Unhealthy` and `OpaStops` in `PolicyLifecycle` show where.
- `main.py:125` skips files whose path holds a directory `test`, which includes the path of
  the policies directory itself.
- `proxy/router.py:71` calls the fallback answer one that "shouldn't happen". A method that
  is neither a tool call nor a pass-through one, to a server that is missing, gets it.
- `docs/ARCHITECTURE.md:35` says that critical injections are denied. The content is
  replaced; the response carries the result of the policy.
- `docs/ARCHITECTURE.md:43` lets pass-through methods skip enforcement. They are rate
  limited with the rest.
- `proxy/backends/stdio.py:27` promises a restart after a crash. A call between the crash
  and the moment the event loop learns of it gets a write error instead.
- `dlp/scanner.py:355` scans all string values "recursively". Those below a list that is itself
  in a list are passed over, and reach the tool unscanned: `WhatIsScanned`.
- `dlp/inbound.py:335` has a `sanitize()` that the pipeline never calls.
- `tui/dashboard.py:61-65` compares event types in capitals with the emitter's lower case.

## 4. What is proved

TLAPS proves these for every value of the constants that meets the assumptions of the
modules. These ask for natural numbers and Boolean switches, and beyond that:
`PipelineAssumption` for severities within the five levels and a value that is no method;
`PolicyAssumption` for `decision.rego` among the files; `StdioAssumption` (and
`ProxyAssumption`, which is the same of the composition, with replies for `ChildAnswers`)
for ids of the children's own requests among the ids, and for a low-water mark that is not
above the high one; `LaunchAssumption` for one template at least; `ScannersAssumption` for
card numbers of 13 to 19 digits. The bounds of the models (`MaxStarts`, `MaxEntries`,
`MaxNodes` and so on) are constants too: what is proved is proved for every bound.

| Theorem | States |
|---|---|
| `RateLimiterProofs!TypeCorrect` | types; no deque longer than the cap |
| `RateLimiterProofs!SpikeIsDead` | the spike flag is never raised, which is why `SpikeDetected` fails |
| `RateLimiterProofs!CapHolds` | `BurstBound` |
| `RateLimiterProofs!TailHolds` | the deque is the tail of the history, what was popped has expired |
| `RateLimiterProofs!LimiterImplementsSlidingWindow` | refinement of `SlidingWindow` |
| `PipelineProofs!TypeCorrect` | types, for any number of concurrent requests |
| `PipelineProofs!ToolCallsAreGoverned` | `NoUngovernedForward` |
| `PipelineProofs!DenialsAreFinal` | `DenyMeansNotRun` |
| `PipelineProofs!ReadableInjectionsAreReplaced` | `ReadableInjectionReplaced` |
| `PipelineProofs!AnswersAreAudited` | `AuditBeforeAnswer` |
| `PipelineProofs!CountersAgree` | `CountersCoverLogs`, for a finite set of requests |
| `PipelineProofs!PipelineKeepsPromise` | `KeepsPromise`: refinement of `GovernedCalls` |
| `StdioBackendProofs!TypeCorrect` | `TypeOK` |
| `StdioBackendProofs!OneChildAlways` | `OneChild` |
| `StdioBackendProofs!TableDoesNotLeak` | an entry of the table belongs to a call that waits under its id, whatever the ids |
| `StdioBackendProofs!TableStaysExact` | `TableIsExact`, if `DistinctIds` |
| `StdioBackendProofs!RightAnswerAlways` | `RightAnswer`, if `OwnIds` |
| `StdioBackendProofs!AnswersAreDroppedOnlyInDrain` | `DroppedOnlyInDrain`, an action property, if `DistinctIds` |
| `ProxyWithStdioProofs!WholeIsPipeline` | the composition is a pipeline, step by step |
| `ProxyWithStdioProofs!RefusalsStayUnsent` | `RefusedNeverSent` |
| `ProxyWithStdioProofs!SendsAreRecorded` | `SentIsRecorded`, if the log can be written |
| `ProxyWithStdioProofs!ResultsAreOwn` | `ResultIsOwn`, if `OwnIds` |
| `ProxyWithStdioProofs!ShutdownLeavesNothing` | `ShutdownIsClean` |
| `LaunchProofs!TypeCorrect` | `TypeOK` |
| `LaunchProofs!EditsAlwaysSurvive` | `EditsSurvive`, an action property |
| `LaunchProofs!ForceAlwaysRepairs` | `ForceRepairs` |
| `LaunchProofs!StartsAreAsTold` | `StartsAsTold`, an action property |
| `LaunchProofs!LastUsableAlwaysServes` | `LastUsableServes` |
| `LaunchProofs!ShutdownAlwaysCloses` | `ShutdownClosesAll` |
| `PolicyLifecycleProofs!TypeCorrect` | types; never a fourth attempt |
| `PolicyLifecycleProofs!PushIsAccounted` | `EveryFileAccounted` |
| `PolicyLifecycleProofs!ConfiguredRulesHold` | `ConfiguredDeniesHold` |
| `PolicyLifecycleProofs!NeverLoosensSilently` | `NoSilentLoosening`, an action property |
| `AuditTailProofs!TypeCorrect` | `TypeOK` |
| `AuditTailProofs!EachIsAddedOnceInOrder` | `EachOnceInOrder` |
| `AuditTailProofs!NoOtherIsMissed` | `OthersAreAdded` |
| `ScannersProofs!WhatIsScanned` | each string is scanned once, but for those below a list in a list, which are not |
| `ScannersProofs!KeptStayDisjoint` | `KeptAreDisjoint` |
| `ScannersProofs!RedactionIsExact` | `RedactedExactly` |
| `ScannersProofs!CardsAreTold` | `LuhnTellsCards` |

**Hypotheses.** Six theorems need more than the assumptions of their module. `DistinctIds`
says that no two requests carry one JSON-RPC id, `OwnIds` also that the server uses none
of these ids for requests of its own. JSON-RPC asks the first of each client, but the
proxy passes ids on as they come, so two agents may choose the same: `stdio_shared` shows
what happens then, and `TableDoesNotLeak` and `OneChildAlways` what holds all the same.
"The log can be written" is `~SinkMayFail`: an output that raises ends a request without a
record, which `AnswersAreAudited` takes into account and `SentIsRecorded` cannot. A finite
set of requests is what counting lines needs.

**Arguments.**

*The limiter.* The cap is not inductive on the deque alone. The invariant ties the deque to
the admission history: the deque is its last part, what is before it is older than the
window, times never decrease. A step that admits then has at most the cap in the window by
the length of the deque. For the spike flag the invariant bounds how far the average can
lag behind the count, which grows by at most one per check.

*The pipeline.* None of the safety properties is inductive, because a decision is
known only through where the task is suspended. `GovernanceInv` says, for each await, what
must have been asked, found and answered by then. Each action is shown to touch one request
(`OthersUntouched`) and to lead it to a phase that allows what it did (`PhaseStep`).
`TrailInv` adds what each phase has written, on which output, if no write raised. With both,
every action is a step of `GovernedCalls` under the mapping of `Stage` and `Told`
(`PipelineKeepsPromise`). The counters speak of all requests at once: `PageInv` says that a
file is the output but for its last line, `AllCover` that every counter covers its lines;
that adding a line to one request raises a sum over all by one is a lemma on sums over
finite sets.

*The stdio backend.* `ChildInv` says who holds the lock and in which order calls wait for
it, which children are alive, and that the one reader reads the current one. `EntryInv`
gives each entry of the table a call that waits under its id; `OpenInv` gives, with
distinct ids, each waiting call whose future is open its entry. `LineInv` says that a line
on an output pipe which answers a call carries its id, `AnswerInv` that a future is
resolved by such a line. What the reader may drop follows from these
(`AnswersAreDroppedOnlyInDrain`): a call that waits is found under the id of its answer,
and one that `drain()` has resumed runs before the next line is read. `ClosedInv` says
that after `close()` no call is under way and no reader runs. The proofs use a common
summary of the segments a call can run (`CallSegments`, `OtherSegments`).

*The composition.* Each of its steps is shown to be a step, or none, of either part, so
that every invariant of `PipelineProofs` and `StdioBackendProofs` is one of the whole.
`CoupledInv` ties the two (`Coupled` for each request): a request is at its await for the
backend when its call is under way, was let through when its call is not new, and has the
reply that the call returned.

*The command line.* `FilesInv` says how far a run of `init` is and which files it has left
as they were; `StartInv` what the environment and the configuration hold at each point of a
start; `RegistryInv` that each id is served by the last usable of the entries that were gone
through; `OpenInv` that what is open is registered and is on the list of a shutdown or failed.

*The push of policies.* `EveryFileAccounted` speaks of the end of the push. `PushInv` says
the same of the files behind the current one while the push goes on, and that the text in
hand is the one that was read. `PushNextSettles` is the step of the loop. For
`NeverLoosensSilently` it is enough that an OPA that is down holds nothing (`Memory`).
`LateInv` says of a put that may still come while OPA is intact: it is of a file that the
push has come to, with the text that this startup read of it. When OPA takes it, it has it
in force already or the file was logged as failed.

*The dashboard.* `FileInv` says what pieces may follow each other in the file and that
events are in order, `AddedInv` that what was added is in order and before the place of the
tailer. `CutInv` is the converse: behind every newline that the tailer passed it started
anew, and a line it started on was added unless it is cut inside its object.

*The scanners.* In `WalkInv`, behind `WhatIsScanned`, no value that the recursion has
still to look at is nested in another, nothing found is below one, and each string that
counts was found or is below one. `DedupInv` says of the findings gone through that the
kept ones are in order and disjoint and that each dropped one is overlapped by a kept one
that was sorted before it. `RedactInv` says that the text is the original up to the next
span and its final form (`Rest`) behind that; that a step keeps it rests on the lemmas
`Gap`, `Blank` and `Marked` on runs of characters. `CardsAreTold` compares the two
weighings digit by digit: the issuer's sum and the check digit make the validator's sum a
multiple of ten (`IssuedPass`), and a wrong digit moves it by less than ten, but not by
nothing, because doubling tells all digits apart (`DoubledTells`, `TypoFails`).

The induction theorems of the library take a predicate, which the provers cannot be given.
`ScannersProofs` uses induction on sets instead: `Least` finds a smallest element,
`Induct` and `TreeInduct` follow from it, and `Recursion` shows that a function defined from
one number to the next exists, which each recursive function needs before anything can be
said of it.

**Only model-checked.** Liveness, which is out of the prover's reach together with
`ENABLED`: `KeepsPromiseInTime`, `EveryCallReturns`, `StartupEnds`, `CatchesUp`, and the
fairness in `ImplementsPipeline`, whose steps are those of `WholeIsPipeline`. Every other
property that a passing run checks is stated by a theorem. A violated property is refuted
by the trace that TLC finds; `SpikeIsDead` says in addition that `SpikeDetected` has no
chance.

## 5. What is left

Not modelled, with the reason:

- the regular expressions of both scanners, the translator, the formatting of events and
  of the dashboard: functions of text without state or order. What an expression matches is
  an input of `Scanners`; the SSN validator only filters it;
- metrics and the translator: nothing on the path of a request calls them;
- `unregister_server()`: it has no caller. Registering an id again while its backend is in
  use cannot happen either, because servers are registered only before the first request
  is taken; `Launch` has the duplicates that can;
- the rules of the reference policies: data, which stands for itself as the set of requests
  a file denies;
- the release scripts: outside the program;
- what httpx, uvicorn and asyncio do inside; the models use what the code relies on.

Planned: the steps on which the liveness results rest, as far as they are safety: for each
await of the pipeline and of the backend, that what ends it can always happen (a timer is
armed, a holder of the lock is at a segment that releases it), and a measure that every
attempt of the push lowers. The fairness itself stays with TLC.

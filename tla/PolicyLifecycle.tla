---------------------------- MODULE PolicyLifecycle ----------------------------
(* How the rules on disk come into force: startup() in main.py asks OPA's     *)
(* health and pushes every policy file, push_policy() makes up to three       *)
(* attempts per file, and decision.rego turns the rules that OPA holds into a *)
(* decision. OPA keeps them in memory; it and the proxy may stop and start at *)
(* any point, and files may be edited at any point.                           *)
(*                                                                            *)
(* A file is its place in the sorted list of paths. What a file says is the   *)
(* set of requests its deny rules match. Files under "test" are not modelled. *)
EXTENDS Naturals

CONSTANTS
  NFiles,     \* number of paths where a policy file may be
  EntryFile,  \* decision.rego, which alone defines `decision`
  Requests,   \* requests that rules can tell apart
  FailClosed, \* ProxyConfig.opa_fail_closed
  MaxEdits,   \* bound: edits of policy files
  MaxStarts   \* bound: starts of the proxy, and starts of OPA

Files == 1..NFiles

ASSUME PolicyAssumption ==
  /\ NFiles \in Nat /\ EntryFile \in Files /\ FailClosed \in BOOLEAN
  /\ MaxEdits \in Nat /\ MaxStarts \in Nat

VARIABLES
  disk,      \* disk[f]: content of policy file f
  edits,     \* number of edits so far
  opaUp,     \* OPA is running
  modules,   \* modules[f]: content that OPA holds under the id of f
  late,      \* PUTs that the proxy gave up and OPA may still take
  opaStarts, \* number of starts of OPA so far
  pc,        \* where startup() is suspended
  starts,    \* number of starts of the proxy so far
  todo,      \* files of _push_policies() after the current one
  current,   \* policy_id being pushed
  text,      \* content being pushed, read before the first attempt
  attempt,   \* attempt of push_policy()
  listed,    \* history: files that this startup found in the directory
  read,      \* history: read[f]: what this startup read from f
  failed,    \* history: files that this startup logged as failed
  intact     \* history: since the push of this startup began, OPA has not stopped
             \* and has had no PUT of an earlier startup to take

diskVars == <<disk, edits>>
opaVars == <<opaUp, modules, late, opaStarts>>
proxyVars == <<pc, starts, todo, current, text, attempt, listed, read, failed>>
vars == <<diskVars, opaVars, proxyVars, intact>>

------------------------------------------------------------------------------
\* A file holds rules that OPA accepts, text that it refuses, bytes that
\* read_text() refuses, or it is not there.
Nothing == [kind |-> "absent", denies |-> {}]
RuleTexts == [kind : {"rules"}, denies : SUBSET Requests]
Contents ==
  [kind : {"absent", "unreadable", "invalid"}, denies : {{}}] \cup RuleTexts

Holds(f) == modules[f].kind = "rules"

\* Slip: `deny` is what the last file says.
DeniedLast ==
  UNION {modules[f].denies :
           f \in {g \in Files : Holds(g) /\ \A h \in Files : Holds(h) => h <= g}}

\* `deny` is the union of what the modules contribute.
Denied == UNION {modules[f].denies : f \in {g \in Files : Holds(g)}}

\* What asking OPA once may come to. It may fail while OPA is up as well: a timeout,
\* an HTTP error, any other exception.
Asks == {"failed"} \cup (IF opaUp THEN {"answered"} ELSE {})

\* Slip: an undefined decision is no reason to deny.
AllowsUndefined(q, ask) ==
  \/ ask = "failed" /\ ~FailClosed
  \/ ask = "answered" /\ q \notin Denied

\* decide(): when asking failed, the posture; without a `decision` the answer is to
\* deny; otherwise the request is allowed if no rule denies it.
Allows(q, ask) ==
  \/ ask = "failed" /\ ~FailClosed
  \/ ask = "answered" /\ Holds(EntryFile) /\ q \notin Denied

Init ==
  /\ disk \in [Files -> Contents] /\ disk[EntryFile].denies = {}
  /\ edits = 0
  /\ opaUp = FALSE /\ modules = [f \in Files |-> Nothing] /\ late = {} /\ opaStarts = 0
  /\ pc = "down" /\ starts = 0
  /\ todo = {} /\ current = EntryFile /\ text = Nothing /\ attempt = 0
  /\ listed = {} /\ read = [f \in Files |-> Nothing] /\ failed = {}
  /\ intact = FALSE

------------------------------------------------------------------------------
(* The operator and OPA.                                                      *)
Edit(f, c) ==
  /\ edits < MaxEdits /\ c # disk[f]
  /\ f = EntryFile => c.denies = {}   \* decision.rego contributes nothing
  /\ disk' = [disk EXCEPT ![f] = c]
  /\ edits' = edits + 1
  /\ UNCHANGED <<opaVars, proxyVars, intact>>

OpaStarts ==
  /\ ~opaUp /\ opaStarts < MaxStarts
  /\ opaUp' = TRUE
  /\ opaStarts' = opaStarts + 1
  /\ UNCHANGED <<diskVars, modules, late, proxyVars, intact>>

OpaStops ==
  /\ opaUp
  /\ opaUp' = FALSE
  /\ modules' = [f \in Files |-> Nothing]
  /\ late' = {}
  /\ intact' = FALSE
  /\ UNCHANGED <<diskVars, opaStarts, proxyVars>>

\* OPA takes a PUT whose sender does not wait any more; another attempt with the
\* same text may still be under way.
LatePut(p) ==
  /\ opaUp /\ p \in late
  /\ modules' = [modules EXCEPT ![p.file] = p.text]
  /\ late' \in {late, late \ {p}}
  /\ UNCHANGED <<diskVars, opaUp, opaStarts, proxyVars, intact>>

------------------------------------------------------------------------------
(* The proxy, from one await to the next.                                     *)
ProxyStarts ==
  /\ pc = "down" /\ starts < MaxStarts
  /\ pc' = "health"
  /\ starts' = starts + 1
  /\ listed' = {} /\ failed' = {} /\ read' = [f \in Files |-> Nothing]
  /\ intact' = FALSE
  /\ UNCHANGED <<diskVars, opaVars, todo, current, text, attempt>>

\* OPA compiles the text and takes it in the place of what it had.
Stored == modules' = [modules EXCEPT ![current] = text]
Accepts == opaUp /\ text.kind = "rules"

\* An attempt fails: the request is lost or refused, or OPA takes it later. (That
\* it is taken and the answer lost is to be taken at once.)
PutFails ==
  /\ late' \in {late} \cup (IF Accepts THEN {late \cup {[file |-> current, text |-> text]}}
                                       ELSE {})
  /\ UNCHANGED modules

ProxyStops ==
  /\ pc # "down"
  /\ pc' = "down"
  /\ IF pc = "push" THEN PutFails ELSE UNCHANGED <<modules, late>>
  /\ UNCHANGED <<diskVars, opaUp, opaStarts, intact, starts, todo, current, text,
                 attempt, listed, read, failed>>

Readable(f) == disk[f].kind \in {"rules", "invalid"}

\* The loop of _push_policies() over the files that are left, up to the first
\* that it can read: it awaits OPA for that one, and logs those before it.
PushNext(rest, broken) ==
  \/ \E f \in rest :
       /\ Readable(f)
       /\ \A g \in rest : g < f => ~Readable(g)
       /\ pc' = "push"
       /\ current' = f /\ text' = disk[f] /\ attempt' = 0
       /\ todo' = {g \in rest : g > f}
       /\ read' = [read EXCEPT ![f] = disk[f]]
       /\ failed' = failed \cup broken \cup {g \in rest : g < f}
  \/ /\ \A f \in rest : ~Readable(f)
     /\ pc' = "serving"
     /\ todo' = {}
     /\ failed' = failed \cup broken \cup rest
     /\ UNCHANGED <<current, text, attempt, read>>

OnDisk == {f \in Files : disk[f].kind # "absent"}

\* is_healthy() has one second; without a yes nothing is pushed.
Healthy ==
  /\ pc = "health" /\ opaUp
  /\ listed' = OnDisk
  /\ intact' = (late = {})
  /\ PushNext(OnDisk, {})
  /\ UNCHANGED <<diskVars, opaVars, starts>>

Unhealthy ==
  /\ pc = "health"
  /\ pc' = "serving"
  /\ UNCHANGED <<diskVars, opaVars, intact, starts, todo, current, text,
                 attempt, listed, read, failed>>

Pushed ==
  /\ pc = "push" /\ Accepts
  /\ Stored
  /\ PushNext(todo, {})
  /\ UNCHANGED <<diskVars, opaUp, late, opaStarts, intact, starts, listed>>

\* Slip: three attempts for the whole directory, and no log of the rest.
PushGivesUpSilently ==
  /\ pc = "push" /\ attempt = 2
  /\ PutFails
  /\ PushNext(todo, {})
  /\ UNCHANGED <<diskVars, opaUp, opaStarts, intact, starts, listed>>

PushGivesUp ==
  /\ pc = "push" /\ attempt = 2
  /\ PutFails
  /\ PushNext(todo, {current})
  /\ UNCHANGED <<diskVars, opaUp, opaStarts, intact, starts, listed>>

\* Slip: the attempts are not counted.
PushRetriesForever ==
  /\ pc = "push" /\ attempt < 2
  /\ PutFails
  /\ pc' = "backoff"
  /\ UNCHANGED <<diskVars, opaUp, opaStarts, intact, starts, todo, current, text,
                 attempt, listed, read, failed>>

PushRetries ==
  /\ pc = "push" /\ attempt < 2
  /\ PutFails
  /\ pc' = "backoff"
  /\ attempt' = attempt + 1
  /\ UNCHANGED <<diskVars, opaUp, opaStarts, intact, starts, todo, current, text,
                 listed, read, failed>>

BackoffEnds ==
  /\ pc = "backoff"
  /\ pc' = "push"
  /\ UNCHANGED <<diskVars, opaVars, intact, starts, todo, current, text, attempt,
                 listed, read, failed>>

------------------------------------------------------------------------------
Startup == \/ Healthy \/ Unhealthy \/ Pushed \/ PushRetries \/ PushGivesUp
           \/ BackoffEnds

Next ==
  \/ \E f \in Files, c \in Contents : Edit(f, c)
  \/ OpaStarts \/ OpaStops \/ \E p \in late : LatePut(p)
  \/ ProxyStarts \/ ProxyStops \/ Startup

Spec == Init /\ [][Next]_vars

\* Calls to OPA have a timeout and the back-off ends.
FairSpec == Spec /\ WF_vars(Startup)

------------------------------------------------------------------------------
(* Properties.                                                                *)
TypeOK ==
  /\ disk \in [Files -> Contents] /\ edits \in Nat
  /\ opaUp \in BOOLEAN /\ modules \in [Files -> {Nothing} \cup RuleTexts]
  /\ late \subseteq [file : Files, text : RuleTexts] /\ opaStarts \in Nat
  /\ pc \in {"down", "health", "push", "backoff", "serving"} /\ starts \in Nat
  /\ todo \in SUBSET Files /\ current \in Files /\ text \in Contents
  /\ attempt \in 0..2
  /\ listed \in SUBSET Files /\ read \in [Files -> Contents]
  /\ failed \in SUBSET Files /\ intact \in BOOLEAN

\* A proxy that serves requests over an OPA that is intact has pushed what it read
\* from every file it found, but for those that it logged as failed.
EveryFileAccounted ==
  pc = "serving" /\ intact =>
    \A f \in listed \ failed : modules[f] = read[f]

\* After a startup that logged no failure no request is allowed that one of the
\* files denies, whatever was in OPA before, was edited since, was pushed twice or
\* is taken late; unless OPA could not be asked and the proxy fails open.
ConfiguredDeniesHold ==
  pc = "serving" /\ intact /\ failed = {} =>
    \A f \in listed, q \in Requests, a \in Asks :
      q \in read[f].denies /\ Allows(q, a) => a = "failed" /\ ~FailClosed

\* OPA, asked about q now, would answer to allow it.
Permitted(q) == opaUp /\ Allows(q, "answered")

\* The step takes a PUT late: of a file that was logged as failed, if OPA is intact.
TakesLate ==
  \E p \in late : /\ modules' = [modules EXCEPT ![p.file] = p.text]
                 /\ intact => p.file \in failed

\* While the proxy serves, OPA comes to permit what it did not in one way only: it
\* takes a PUT late, of a file that was logged as failed or of an earlier startup. A
\* restart, which empties it, permits nothing.
NoSilentLoosening ==
  [][pc = "serving" /\ pc' = "serving" =>
       \A q \in Requests : ~Permitted(q) /\ Permitted(q)' => TakesLate]_vars

\* startup() ends, however OPA behaves: no more than three attempts per file.
StartupEnds == (pc = "health") ~> (pc \in {"serving", "down"})
=============================================================================

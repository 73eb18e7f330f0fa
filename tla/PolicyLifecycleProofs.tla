------------------------- MODULE PolicyLifecycleProofs -------------------------
(* Theorems of PolicyLifecycle, for every number of files, every set of       *)
(* requests and both postures.                                                *)
EXTENDS PolicyLifecycle, TLAPS

\* What the loop has done with the files before the current one.
Settled(f) == f \in failed \/ modules[f] = read[f]

\* EveryFileAccounted is not inductive: it speaks of the end of the push. During
\* the push the same holds of every file that is neither current nor to come, and
\* the text in hand is the one that was read from the current file. And a PUT that
\* OPA may still take is of this startup, of a file that the loop has passed, and
\* carries what was read from it: taking it changes nothing that was settled.
LateInv ==
  intact => \A p \in late :
              p.file \in listed /\ p.file \notin todo /\ p.text = read[p.file]

PushInv ==
  /\ intact => opaUp /\ pc # "health"
  /\ pc \in {"push", "backoff"} =>
       /\ text = read[current] /\ text.kind \in {"rules", "invalid"}
       /\ current \notin todo /\ current \in listed /\ todo \subseteq listed
  /\ pc \in {"push", "backoff"} /\ intact =>
       \A f \in listed : f \in todo \/ f = current \/ Settled(f)
  /\ pc = "serving" /\ intact => \A f \in listed : Settled(f)
  /\ LateInv

IInv == TypeOK /\ PushInv

------------------------------------------------------------------------------
\* A text that was read is a content.
LEMMA ContentTypes ==
  /\ Nothing \in Contents /\ RuleTexts \subseteq Contents
  /\ \A c \in Contents : c.kind = "rules" => c \in RuleTexts
  BY DEF Contents, Nothing, RuleTexts

\* An attempt stores the text in hand or fails, and then leaves at most one PUT more
\* on its way, which carries that text.
LEMMA PutEffect ==
  ASSUME TypeOK, Accepts /\ Stored
  PROVE  /\ modules' \in [Files -> {Nothing} \cup RuleTexts]
         /\ \A f \in Files : f # current => modules'[f] = modules[f]
<1>1. text \in RuleTexts
  BY ContentTypes DEF Accepts, TypeOK
<1> QED
  BY <1>1 DEF Stored, TypeOK

LEMMA PutFailsEffect ==
  ASSUME TypeOK, PutFails
  PROVE  /\ UNCHANGED modules /\ late' \subseteq [file : Files, text : RuleTexts]
         /\ \A p \in late' : p \in late \/ (p.file = current /\ p.text = text)
<1>0. UNCHANGED modules /\ late \subseteq [file : Files, text : RuleTexts]
  BY DEF PutFails, TypeOK
<1>1. CASE late' = late
  BY <1>0, <1>1
<1>2. CASE Accepts /\ late' = late \cup {[file |-> current, text |-> text]}
  <2>1. text \in RuleTexts
    BY <1>2, ContentTypes DEF Accepts, TypeOK
  <2>2. [file |-> current, text |-> text] \in [file : Files, text : RuleTexts]
    BY <2>1 DEF TypeOK
  <2> QED
    BY <1>0, <1>2, <2>2
<1> QED
  BY <1>1, <1>2 DEF PutFails

\* The types after the loop went on.
LEMMA PushNextType ==
  ASSUME TypeOK, NEW rest \in SUBSET Files, NEW broken \in SUBSET Files,
         PushNext(rest, broken)
  PROVE  /\ pc' \in {"push", "serving"} /\ todo' \in SUBSET Files
         /\ current' \in Files /\ text' \in Contents /\ attempt' \in 0..2
         /\ read' \in [Files -> Contents] /\ failed' \in SUBSET Files
<1>1. CASE \E f \in rest :
             /\ Readable(f)
             /\ \A g \in rest : g < f => ~Readable(g)
             /\ pc' = "push"
             /\ current' = f /\ text' = disk[f] /\ attempt' = 0
             /\ todo' = {g \in rest : g > f}
             /\ read' = [read EXCEPT ![f] = disk[f]]
             /\ failed' = failed \cup broken \cup {g \in rest : g < f}
  BY <1>1 DEF TypeOK
<1>2. CASE /\ \A f \in rest : ~Readable(f)
           /\ pc' = "serving"
           /\ todo' = {}
           /\ failed' = failed \cup broken \cup rest
           /\ UNCHANGED <<current, text, attempt, read>>
  BY <1>2 DEF TypeOK
<1> QED
  BY <1>1, <1>2 DEF PushNext

\* The loop goes on: a file that was settled stays settled, and those that it
\* passes are settled by having failed.
LEMMA PushNextSettles ==
  ASSUME TypeOK, NEW rest \in SUBSET Files, NEW broken \in SUBSET Files,
         PushNext(rest, broken)
  PROVE  /\ pc' = "push" => /\ text' = read'[current'] /\ current' \notin todo'
                            /\ text'.kind \in {"rules", "invalid"}
         /\ pc' = "push" => \A f \in rest : f \in todo' \/ f = current' \/ f \in failed'
         /\ pc' = "serving" => \A f \in rest : f \in failed'
         /\ pc' = "push" => current' \in rest /\ todo' \subseteq rest
         /\ todo' \subseteq rest
         /\ \A f \in Files \ rest : read'[f] = read[f]
         /\ failed \cup broken \subseteq failed'
<1>0. ASSUME NEW m \in Files, NEW n \in Files
      PROVE  (m < n \/ m = n \/ m > n) /\ ~(n > n)
  BY DEF Files
<1>1. CASE \E f \in rest :
             /\ Readable(f)
             /\ \A g \in rest : g < f => ~Readable(g)
             /\ pc' = "push"
             /\ current' = f /\ text' = disk[f] /\ attempt' = 0
             /\ todo' = {g \in rest : g > f}
             /\ read' = [read EXCEPT ![f] = disk[f]]
             /\ failed' = failed \cup broken \cup {g \in rest : g < f}
  BY <1>0, <1>1 DEF TypeOK, Readable
<1>2. CASE /\ \A f \in rest : ~Readable(f)
           /\ pc' = "serving"
           /\ todo' = {}
           /\ failed' = failed \cup broken \cup rest
           /\ UNCHANGED <<current, text, attempt, read>>
  BY <1>2
<1> QED
  BY <1>1, <1>2 DEF PushNext

------------------------------------------------------------------------------
LEMMA InitInv ==
  ASSUME PolicyAssumption, Init
  PROVE  IInv
<1>1. Nothing \in Contents
  BY ContentTypes
<1>2. TypeOK
  <2>1. disk \in [Files -> Contents] /\ modules \in [Files -> {Nothing} \cup RuleTexts]
        /\ read \in [Files -> Contents] /\ text \in Contents
    BY <1>1 DEF Init
  <2>2. edits \in Nat /\ opaStarts \in Nat /\ starts \in Nat /\ attempt \in 0..2
    BY DEF Init
  <2>2a. opaUp \in BOOLEAN /\ intact \in BOOLEAN /\ pc = "down"
    BY DEF Init
  <2>3. todo \in SUBSET Files /\ current \in Files /\ listed \in SUBSET Files
        /\ failed \in SUBSET Files
    BY DEF Init, PolicyAssumption
  <2>4. late \subseteq [file : Files, text : RuleTexts]
    BY DEF Init
  <2> QED
    BY <2>1, <2>2, <2>2a, <2>3, <2>4 DEF TypeOK
<1>3. PushInv
  BY DEF Init, PushInv, LateInv
<1> QED
  BY <1>2, <1>3 DEF IInv

\* A step of the types, one case per action.
LEMMA NextType ==
  ASSUME TypeOK, Next
  PROVE  TypeOK'
<1>0. PolicyAssumption /\ Nothing \in Contents
  BY PolicyAssumption, ContentTypes
<1>1. ASSUME NEW f \in Files, NEW c \in Contents, Edit(f, c)
      PROVE  TypeOK'
  <2>1. disk' \in [Files -> Contents] /\ edits' \in Nat
    BY <1>1 DEF Edit, TypeOK
  <2> QED
    BY <1>1, <2>1 DEF Edit, TypeOK, opaVars, proxyVars
<1>2. CASE OpaStarts
  BY <1>2 DEF OpaStarts, TypeOK, diskVars, proxyVars
<1>3. CASE OpaStops
  BY <1>3 DEF OpaStops, TypeOK, diskVars, proxyVars
<1>3a. ASSUME NEW p \in late, LatePut(p)
       PROVE  TypeOK'
  <2>1. p.file \in Files /\ p.text \in RuleTexts
    BY DEF TypeOK
  <2>2. modules' \in [Files -> {Nothing} \cup RuleTexts]
    BY <1>3a, <2>1 DEF LatePut, TypeOK
  <2>3. late' \subseteq [file : Files, text : RuleTexts]
    BY <1>3a DEF LatePut, TypeOK
  <2> QED
    BY <1>3a, <2>2, <2>3 DEF LatePut, TypeOK, diskVars, proxyVars
<1>4. CASE ProxyStarts
  <2>1. starts' \in Nat /\ pc' = "health"
    BY <1>4 DEF ProxyStarts, TypeOK
  <2>2. /\ listed' \in SUBSET Files /\ failed' \in SUBSET Files
        /\ read' \in [Files -> Contents]
    BY <1>4, <1>0 DEF ProxyStarts
  <2>3. intact' \in BOOLEAN
    BY <1>4 DEF ProxyStarts
  <2> QED
    BY <1>4, <2>1, <2>2, <2>3 DEF ProxyStarts, TypeOK, diskVars, opaVars
<1>5. CASE ProxyStops
  <2>1. UNCHANGED modules /\ late' \subseteq [file : Files, text : RuleTexts]
    BY <1>5, PutFailsEffect DEF ProxyStops, TypeOK
  <2> QED
    BY <1>5, <2>1 DEF ProxyStops, TypeOK, diskVars
<1>6. CASE Healthy
  <2>1. OnDisk \in SUBSET Files /\ {} \in SUBSET Files
    BY DEF OnDisk
  <2>2. PushNext(OnDisk, {})
    BY <1>6 DEF Healthy
  <2> QED
    BY <1>6, <2>1, <2>2, PushNextType DEF Healthy, TypeOK, diskVars, opaVars
<1>7. CASE Unhealthy
  BY <1>7 DEF Unhealthy, TypeOK, diskVars, opaVars
<1>8. CASE Pushed
  <2>1. modules' \in [Files -> {Nothing} \cup RuleTexts]
    BY <1>8, PutEffect DEF Pushed
  <2>2. PushNext(todo, {}) /\ todo \in SUBSET Files /\ {} \in SUBSET Files
    BY <1>8 DEF Pushed, TypeOK
  <2> QED
    BY <1>8, <2>1, <2>2, PushNextType DEF Pushed, TypeOK, diskVars
<1>9. CASE PushRetries
  <2>1. /\ modules' \in [Files -> {Nothing} \cup RuleTexts]
        /\ late' \subseteq [file : Files, text : RuleTexts]
    BY <1>9, PutFailsEffect DEF PushRetries, TypeOK
  <2>2. attempt' \in 0..2
    BY <1>9 DEF PushRetries, TypeOK
  <2> QED
    BY <1>9, <2>1, <2>2 DEF PushRetries, TypeOK, diskVars
<1>10. CASE PushGivesUp
  <2>1. /\ modules' \in [Files -> {Nothing} \cup RuleTexts]
        /\ late' \subseteq [file : Files, text : RuleTexts]
    BY <1>10, PutFailsEffect DEF PushGivesUp, TypeOK
  <2>2. PushNext(todo, {current}) /\ todo \in SUBSET Files /\ {current} \in SUBSET Files
    BY <1>10 DEF PushGivesUp, TypeOK
  <2> QED
    BY <1>10, <2>1, <2>2, PushNextType DEF PushGivesUp, TypeOK, diskVars
<1>11. CASE BackoffEnds
  BY <1>11 DEF BackoffEnds, TypeOK, diskVars, opaVars
<1> QED
  BY <1>1, <1>2, <1>3, <1>3a, <1>4, <1>5, <1>6, <1>7, <1>8, <1>9, <1>10, <1>11
  DEF Next, Startup

\* A step of the push, one case per action.
LEMMA NextPush ==
  ASSUME TypeOK, PushInv, Next
  PROVE  PushInv'
<1>1. ASSUME NEW f \in Files, NEW c \in Contents, Edit(f, c)
      PROVE  PushInv'
  BY <1>1 DEF Edit, PushInv, LateInv, Settled, opaVars, proxyVars
<1>2. CASE OpaStarts
  BY <1>2 DEF OpaStarts, PushInv, LateInv, Settled, proxyVars
<1>3. CASE OpaStops
  BY <1>3 DEF OpaStops, PushInv, LateInv, Settled, proxyVars
<1>3a. ASSUME NEW p \in late, LatePut(p)
       PROVE  PushInv'
  <2>1. /\ UNCHANGED <<opaUp, proxyVars, intact>> /\ late' \subseteq late
        /\ modules' = [modules EXCEPT ![p.file] = p.text]
    BY <1>3a DEF LatePut
  <2>2. ASSUME intact, NEW f \in listed, Settled(f) PROVE Settled(f)'
    <3>1. f \in Files /\ modules \in [Files -> {Nothing} \cup RuleTexts]
      BY DEF TypeOK
    <3>2. f = p.file => p.text = read[f]
      BY <2>2 DEF PushInv, LateInv
    <3> QED
      BY <2>1, <2>2, <3>1, <3>2 DEF Settled, proxyVars
  <2>3. LateInv'
    BY <2>1 DEF PushInv, LateInv, proxyVars
  <2> QED
    BY <2>1, <2>2, <2>3 DEF PushInv, proxyVars
<1>4. CASE ProxyStarts
  BY <1>4 DEF ProxyStarts, PushInv, LateInv
<1>5. CASE ProxyStops
  <2>1. /\ pc' = "down" /\ UNCHANGED <<opaUp, intact, todo, listed, read>>
        /\ \A p \in late' : p \in late \/ (pc = "push" /\ p.file = current /\ p.text = text)
    <3>1. (pc = "push" /\ PutFails) \/ late' = late
      BY <1>5 DEF ProxyStops
    <3> QED
      BY <1>5, <3>1, PutFailsEffect DEF ProxyStops
  <2>2. LateInv'
    BY <2>1 DEF PushInv, LateInv
  <2> QED
    BY <1>5, <2>1, <2>2 DEF ProxyStops, PushInv
<1>6. CASE Healthy
  <2>1. OnDisk \in SUBSET Files /\ {} \in SUBSET Files
    BY DEF OnDisk
  <2>2. PushNext(OnDisk, {}) /\ listed' = OnDisk /\ opaUp'
    BY <1>6 DEF Healthy, opaVars
  <2>3. pc' \in {"push", "serving"}
    BY <2>1, <2>2, PushNextType
  <2> QED
    BY <1>6, <2>1, <2>2, <2>3, PushNextSettles DEF Healthy, PushInv, LateInv, Settled,
                                                   opaVars
<1>7. CASE Unhealthy
  BY <1>7 DEF Unhealthy, PushInv, LateInv
<1>8. CASE Pushed
  <2>1. pc = "push" /\ PushNext(todo, {}) /\ listed' = listed /\ intact' = intact
        /\ opaUp' = opaUp /\ late' = late /\ Accepts /\ Stored
    BY <1>8 DEF Pushed
  <2>2. todo \in SUBSET Files /\ {} \in SUBSET Files /\ current \in Files
        /\ listed \in SUBSET Files
    BY DEF TypeOK
  <2>3. pc' \in {"push", "serving"}
    BY <2>1, <2>2, PushNextType
  <2>4. text = read[current] /\ current \notin todo
    BY <2>1 DEF PushInv
  <2>5. modules'[current] = read'[current]
    <3>1. modules'[current] = text
      BY <2>1, <2>2 DEF Stored, TypeOK
    <3>2. read'[current] = read[current]
      BY <2>1, <2>2, <2>4, PushNextSettles
    <3> QED
      BY <2>4, <3>1, <3>2
  <2>6. ASSUME intact, NEW f \in listed, f \notin todo
        PROVE  Settled(f)'
    <3>1. CASE f = current
      BY <2>5, <3>1 DEF Settled
    <3>2. CASE f # current
      <4>1. Settled(f)
        BY <2>1, <2>6, <3>2 DEF PushInv
      <4>2. modules'[f] = modules[f]
        BY <2>1, <2>2, <3>2, PutEffect
      <4>3. read'[f] = read[f] /\ failed \subseteq failed'
        BY <2>1, <2>2, <2>6, PushNextSettles
      <4> QED
        BY <4>1, <4>2, <4>3 DEF Settled
    <3> QED
      BY <3>1, <3>2
  <2>7. LateInv'
    BY <2>1, <2>2, PushNextSettles DEF PushInv, LateInv
  <2> QED
    BY <2>1, <2>2, <2>3, <2>6, <2>7, PushNextSettles DEF PushInv, Settled
<1>9. CASE PushRetries
  <2>1. pc = "push" /\ pc' = "backoff" /\ PutFails
        /\ UNCHANGED <<opaUp, intact, todo, current, text, listed, read, failed>>
    BY <1>9 DEF PushRetries
  <2>2. UNCHANGED modules /\ \A p \in late' : p \in late \/ (p.file = current /\ p.text = text)
    BY <2>1, PutFailsEffect
  <2>3. LateInv'
    BY <2>1, <2>2 DEF PushInv, LateInv
  <2> QED
    BY <2>1, <2>2, <2>3 DEF PushInv, Settled
<1>10. CASE PushGivesUp
  <2>1. pc = "push" /\ PutFails /\ PushNext(todo, {current}) /\ listed' = listed
        /\ opaUp' = opaUp /\ intact' = intact
    BY <1>10 DEF PushGivesUp
  <2>2. todo \in SUBSET Files /\ {current} \in SUBSET Files /\ listed \in SUBSET Files
    BY DEF TypeOK
  <2>3. pc' \in {"push", "serving"}
    BY <2>1, <2>2, PushNextType
  <2>4. ASSUME intact, NEW f \in listed, f \notin todo
        PROVE  Settled(f)'
    <3>1. CASE f = current
      <4>1. f \in failed'
        BY <2>1, <2>2, <3>1, PushNextSettles
      <4> QED
        BY <4>1 DEF Settled
    <3>2. CASE f # current
      <4>1. Settled(f)
        BY <2>1, <2>4, <3>2 DEF PushInv
      <4>2. modules'[f] = modules[f]
        BY <2>1, PutFailsEffect
      <4>3. read'[f] = read[f] /\ failed \subseteq failed'
        BY <2>1, <2>2, <2>4, PushNextSettles
      <4> QED
        BY <4>1, <4>2, <4>3 DEF Settled
    <3> QED
      BY <3>1, <3>2
  <2>5. LateInv'
    <3>1. \A p \in late' : p \in late \/ (p.file = current /\ p.text = text)
      BY <2>1, PutFailsEffect
    <3>2. todo' \subseteq todo /\ \A f \in Files \ todo : read'[f] = read[f]
      BY <2>1, <2>2, PushNextSettles
    <3> QED
      BY <2>1, <2>2, <3>1, <3>2 DEF PushInv, LateInv
  <2> QED
    BY <2>1, <2>2, <2>3, <2>4, <2>5, PushNextSettles DEF PushInv, Settled
<1>11. CASE BackoffEnds
  BY <1>11 DEF BackoffEnds, PushInv, LateInv, Settled, diskVars, opaVars
<1> QED
  BY <1>1, <1>2, <1>3, <1>3a, <1>4, <1>5, <1>6, <1>7, <1>8, <1>9, <1>10, <1>11
  DEF Next, Startup

LEMMA StutterInv ==
  ASSUME IInv, UNCHANGED vars
  PROVE  IInv'
  BY DEF IInv, TypeOK, PushInv, LateInv, Settled, vars, diskVars, opaVars, proxyVars

\* The invariant holds in every state.
LEMMA Invariance == Spec => []IInv
<1>1. Init => IInv
  BY PolicyAssumption, InitInv
<1>2. IInv /\ [Next]_vars => IInv'
  BY NextType, NextPush, StutterInv DEF IInv
<1> QED
  BY <1>1, <1>2, PTL DEF Spec

------------------------------------------------------------------------------
\* Every variable keeps its type; no file is attempted more than three times.
THEOREM TypeCorrect == Spec => []TypeOK
<1>1. IInv => TypeOK
  BY DEF IInv
<1> QED
  BY <1>1, Invariance, PTL

\* What a startup read is what OPA holds when the proxy begins to serve, but for
\* the files logged as failed.
THEOREM PushIsAccounted == Spec => []EveryFileAccounted
<1>1. IInv => EveryFileAccounted
  BY DEF IInv, PushInv, EveryFileAccounted, Settled
<1> QED
  BY <1>1, Invariance, PTL

\* After a startup without a failure every rule it read is in force: what OPA answers
\* never allows what one of them denies, and a failure to ask it only if the proxy is
\* configured to fail open.
THEOREM ConfiguredRulesHold == Spec => []ConfiguredDeniesHold
<1>1. ASSUME IInv
      PROVE  ConfiguredDeniesHold
  <2>1. SUFFICES ASSUME pc = "serving", intact, failed = {}, NEW f \in listed,
                        NEW q \in Requests, NEW a \in Asks,
                        q \in read[f].denies, Allows(q, a)
                 PROVE  a = "failed" /\ ~FailClosed
    BY DEF ConfiguredDeniesHold
  <2>2. f \in Files /\ modules[f] = read[f]
    BY <1>1, <2>1 DEF IInv, TypeOK, PushInv, Settled
  <2>3. Holds(f)
    <3>1. modules[f] \in {Nothing} \cup RuleTexts /\ q \in modules[f].denies
      BY <1>1, <2>1, <2>2 DEF IInv, TypeOK
    <3> QED
      BY <3>1 DEF Holds, Nothing, RuleTexts
  <2>4. q \in Denied
    BY <2>1, <2>2, <2>3 DEF Denied
  <2> QED
    BY <2>1, <2>4 DEF Allows
<1> QED
  BY <1>1, Invariance, PTL

------------------------------------------------------------------------------
\* Only a running OPA holds modules.
Memory == ~opaUp => \A f \in Files : modules[f] = Nothing

LEMMA MemoryStep ==
  ASSUME Memory, Next
  PROVE  Memory'
<1>1. ASSUME NEW f \in Files, NEW c \in Contents, Edit(f, c)
      PROVE  Memory'
  BY <1>1 DEF Edit, Memory, opaVars
<1>2. CASE OpaStarts
  BY <1>2 DEF OpaStarts, Memory
<1>3. CASE OpaStops
  BY <1>3 DEF OpaStops, Memory
<1>4. ASSUME NEW p \in late, LatePut(p)
      PROVE  Memory'
  BY <1>4 DEF LatePut, Memory
<1>5. CASE ProxyStarts \/ Healthy \/ Unhealthy \/ BackoffEnds
  <2>1. UNCHANGED opaVars
    BY <1>5 DEF ProxyStarts, Healthy, Unhealthy, BackoffEnds
  <2> QED
    BY <2>1 DEF opaVars, Memory
<1>6. CASE Pushed
  BY <1>6 DEF Pushed, Accepts, Memory
<1>7. CASE ProxyStops \/ PushRetries \/ PushGivesUp
  <2>1. UNCHANGED <<opaUp, modules>>
    BY <1>7 DEF ProxyStops, PushRetries, PushGivesUp, PutFails
  <2> QED
    BY <2>1 DEF Memory
<1> QED
  BY <1>1, <1>2, <1>3, <1>4, <1>5, <1>6, <1>7 DEF Next, Startup

\* While the proxy serves, OPA comes to permit what it did not only by taking a PUT
\* late; and if OPA was intact, this startup logged the file of that PUT as failed.
THEOREM NeverLoosensSilently == Spec => NoSilentLoosening
<1>1. Init => Memory
  BY DEF Init, Memory
<1>2. Memory /\ [Next]_vars => Memory'
  BY MemoryStep DEF Memory, vars, opaVars
<1>3. ASSUME IInv, Memory, [Next]_vars, pc = "serving", pc' = "serving",
             NEW q \in Requests, ~Permitted(q), Permitted(q)'
      PROVE  TakesLate
  <2>0. ASSUME UNCHANGED <<opaUp, modules>> PROVE FALSE
    BY <1>3, <2>0 DEF Permitted, Allows, Holds, Denied
  <2>1. CASE OpaStops
    BY <1>3, <2>1 DEF OpaStops, Permitted
  <2>2. CASE OpaStarts
    <3>1. modules'[EntryFile] = Nothing
      BY <1>3, <2>2, PolicyAssumption DEF OpaStarts, Memory
    <3>2. ~Holds(EntryFile)'
      BY <3>1 DEF Holds, Nothing
    <3> QED
      BY <1>3, <3>2 DEF Permitted, Allows
  <2>3. ASSUME NEW p \in late, LatePut(p)
        PROVE  /\ modules' = [modules EXCEPT ![p.file] = p.text]
               /\ intact => p.file \in failed
    <3>1. /\ modules' = [modules EXCEPT ![p.file] = p.text]
          /\ opaUp' = opaUp
      BY <2>3 DEF LatePut
    <3>2. SUFFICES ASSUME intact, p.file \notin failed PROVE FALSE
      BY <3>1
    <3>3. modules[p.file] = p.text
      BY <1>3, <3>2 DEF IInv, PushInv, LateInv, Settled
    <3>4. modules' = modules
      BY <1>3, <3>1, <3>3 DEF IInv, TypeOK
    <3> QED
      BY <2>0, <3>1, <3>4
  <2>4. CASE UNCHANGED vars
    BY <2>0, <2>4 DEF vars, opaVars
  <2>5. CASE \E f \in Files, c \in Contents : Edit(f, c)
    BY <2>0, <2>5 DEF Edit, opaVars
  <2>6. ~(ProxyStarts \/ ProxyStops \/ Startup)
    BY <1>3 DEF ProxyStarts, ProxyStops, Startup, Healthy, Unhealthy, Pushed,
                PushRetries, PushGivesUp, BackoffEnds
  <2> QED
    BY <1>3, <2>1, <2>2, <2>3, <2>4, <2>5, <2>6 DEF Next, TakesLate
<1>4. IInv /\ Memory /\ [Next]_vars =>
        [pc = "serving" /\ pc' = "serving" =>
           \A q \in Requests : ~Permitted(q) /\ Permitted(q)' => TakesLate]_vars
  BY <1>3
<1> QED
  BY <1>1, <1>2, <1>4, Invariance, PTL DEF Spec, NoSilentLoosening
=============================================================================

-------------------------- MODULE StdioBackendProofs --------------------------
(***************************************************************************)
(* Proofs about StdioBackend for any calls, ids, children and bounds.       *)
(***************************************************************************)
EXTENDS StdioBackend, TLAPS

USE DEF Children


\* What is left of a sequence when its head is taken, and one with an element added.
LEMMA TailElements ==
  ASSUME NEW S, NEW s \in Seq(S), s # << >>
  PROVE  /\ 1 \in 1..Len(s) /\ Head(s) = s[1]
         /\ \A k \in 1..Len(Tail(s)) :
              k \in Int /\ k + 1 \in 1..Len(s) /\ Tail(s)[k] = s[k + 1]
<1>1. /\ Len(s) \in Nat \ {0} /\ Len(Tail(s)) = Len(s) - 1
      /\ \A k \in 1..Len(s) - 1 : Tail(s)[k] = s[k + 1]
  OBVIOUS
<1> QED BY <1>1

LEMMA AppendElements ==
  ASSUME NEW S, NEW s \in Seq(S), NEW e
  PROVE  \A k \in 1..Len(Append(s, e)) :
           \/ k \in 1..Len(s) /\ Append(s, e)[k] = s[k]
           \/ k = Len(s) + 1 /\ Append(s, e)[k] = e
<1>1. Len(s) \in Nat /\ Len(Append(s, e)) = Len(s) + 1
  OBVIOUS
<1> QED BY <1>1

LEMMA Writing ==
  ASSUME StdioAssumption, TypeOK, NEW c \in Calls, NEW g \in Children, Write(c, g)
  PROVE  /\ buffer' \in [Children -> Seq(Calls)] /\ paused' \in [Children -> BOOLEAN]
         /\ stdin' \in [Children -> Seq(Calls)]
<1>0. /\ buffer \in [Children -> Seq(Calls)] /\ paused \in [Children -> BOOLEAN]
      /\ stdin \in [Children -> Seq(Calls)]
  BY DEF TypeOK
<1>1. CASE buffer[g] = << >> /\ Len(stdin[g]) < PipeRoom
  <2>1. /\ stdin' = [stdin EXCEPT ![g] = Append(@, c)]
        /\ buffer' = buffer /\ paused' = paused
    BY <1>1 DEF Write
  <2> QED BY <1>0, <2>1
<1>2. CASE ~(buffer[g] = << >> /\ Len(stdin[g]) < PipeRoom)
  <2>1. /\ buffer' = [buffer EXCEPT ![g] = Append(@, c)]
        /\ paused' = [paused EXCEPT ![g] = @ \/ Len(buffer[g]) + 1 > HighWater]
        /\ stdin' = stdin
    BY <1>2 DEF Write
  <2>2. buffer' \in [Children -> Seq(Calls)]
    BY <1>0, <2>1
  <2>3. (paused[g] \/ Len(buffer[g]) + 1 > HighWater) \in BOOLEAN
    OBVIOUS
  <2>4. paused' \in [Children -> BOOLEAN]
    BY <1>0, <2>1, <2>3, Zenon
  <2> QED BY <1>0, <2>1, <2>2, <2>4
<1> QED BY <1>1, <1>2


\* The four ways a segment can end that has a child to write to.
SendBroken(c) ==
  /\ Return(c, "write_error")
  /\ UNCHANGED <<pending, future, buffer, paused, stdin>>
SendPaused(c, g) ==
  /\ Write(c, g) /\ paused'[g]
  /\ pc' = [pc EXCEPT ![c] = "drain"]
  /\ UNCHANGED <<pending, future, answer>>
Accepted(c) ==
  /\ IdOf[c] = NoId /\ Return(c, "accepted")
  /\ UNCHANGED <<pending, future>>
Registered(c) ==
  /\ IdOf[c] # NoId
  /\ pending' = [pending EXCEPT ![IdOf[c]] = c]
  /\ future' = [future EXCEPT ![c] = "open"]
  /\ pc' = [pc EXCEPT ![c] = "waiting"]
  /\ UNCHANGED answer

LEMMA RegisterCases ==
  ASSUME NEW c \in Calls, Register(c)
  PROVE  Accepted(c) \/ Registered(c)
BY DEF Register, Accepted, Registered

LEMMA SendCases ==
  ASSUME NEW c \in Calls, NEW g, NEW alive \in BOOLEAN, Send(c, g, alive)
  PROVE  /\ via' = [via EXCEPT ![c] = g]
         /\ UNCHANGED <<result, work, stdout, chatter>>
         /\ \/ ~alive /\ SendBroken(c)
            \/ alive /\ SendPaused(c, g)
            \/ alive /\ Write(c, g) /\ ~paused'[g] /\ (Accepted(c) \/ Registered(c))
<1>1. CASE ~alive
  BY <1>1 DEF Send, SendBroken
<1>2. CASE alive /\ paused'[g]
  BY <1>2 DEF Send, SendPaused
<1>3. CASE alive /\ ~paused'[g]
  BY <1>3, RegisterCases DEF Send
<1> QED BY <1>1, <1>2, <1>3

LEMMA Sending ==
  ASSUME StdioAssumption, TypeOK, NEW c \in Calls, NEW g \in Children,
         NEW alive \in BOOLEAN, Send(c, g, alive)
  PROVE  /\ pc' \in [Calls -> {"new", "lock", "starting", "drain", "waiting", "done"}]
         /\ pc'[c] \in {"drain", "waiting", "done"}
         /\ \A d \in Calls : d # c => pc'[d] = pc[d]
         /\ via' \in [Calls -> 0..MaxStarts]
         /\ buffer' \in [Children -> Seq(Calls)] /\ paused' \in [Children -> BOOLEAN]
         /\ stdin' \in [Children -> Seq(Calls)]
         /\ pending' \in [Ids -> Calls \cup {Nobody}]
         /\ future' \in [Calls -> {"none", "open", "result", "exception", "cancelled"}]
         /\ answer' \in [Calls -> {"none", "accepted", "response", "start_error",
                                    "write_error", "timeout", "failed"}]
         /\ UNCHANGED <<result, work, stdout, chatter>>
<1>0. /\ via' = [via EXCEPT ![c] = g]
      /\ UNCHANGED <<result, work, stdout, chatter>>
      /\ \/ SendBroken(c)
         \/ SendPaused(c, g)
         \/ Write(c, g) /\ Accepted(c)
         \/ Write(c, g) /\ Registered(c)
  BY SendCases
<1>1. via' \in [Calls -> 0..MaxStarts] /\ UNCHANGED <<result, work, stdout, chatter>>
  BY <1>0 DEF StdioAssumption, TypeOK
<1> USE DEF StdioAssumption, TypeOK
<1>2. CASE SendBroken(c)
  BY <1>1, <1>2 DEF SendBroken, Return
<1>3. CASE SendPaused(c, g)
  <2>1. Write(c, g) /\ pc' = [pc EXCEPT ![c] = "drain"] /\ UNCHANGED <<pending, future, answer>>
    BY <1>3 DEF SendPaused
  <2> QED BY <1>1, <2>1, Writing
<1>4. CASE Write(c, g) /\ Accepted(c)
  <2>1. /\ pc' = [pc EXCEPT ![c] = "done"] /\ answer' = [answer EXCEPT ![c] = "accepted"]
        /\ UNCHANGED <<pending, future>>
    BY <1>4 DEF Accepted, Return
  <2> QED BY <1>1, <1>4, <2>1, Writing
<1>5. CASE Write(c, g) /\ Registered(c)
  <2>1. /\ IdOf[c] \in Ids
        /\ pending' = [pending EXCEPT ![IdOf[c]] = c]
        /\ future' = [future EXCEPT ![c] = "open"]
        /\ pc' = [pc EXCEPT ![c] = "waiting"] /\ UNCHANGED answer
    BY <1>5 DEF Registered
  <2> QED BY <1>1, <1>5, <2>1, Writing
<1> HIDE DEF StdioAssumption, TypeOK
<1> QED BY <1>0, <1>2, <1>3, <1>4, <1>5

\* Under the lock a call starts a child, or writes to the child there is.
LEMMA WithLockType ==
  ASSUME StdioAssumption, TypeOK, NEW c \in Calls, lock = Nobody, WithLock(c),
         lockq' \in Seq(Calls)
  PROVE  TypeOK'
<1>1. CASE NeedsStart
  <2>1. /\ lock' = c /\ pc' = [pc EXCEPT ![c] = "starting"]
        /\ UNCHANGED <<via, future, result, answer, pending, childVars, procVars, histVars>>
    BY <1>1 DEF WithLock
  <2> QED BY <2>1 DEF TypeOK, childVars, procVars, histVars
<1>2. CASE ~NeedsStart
  <2>1. current \in Children /\ (child[current] = "alive") \in BOOLEAN
    BY <1>2 DEF NeedsStart, TypeOK, StdioAssumption
  <2>2. /\ Send(c, current, child[current] = "alive")
        /\ lock' = Nobody /\ UNCHANGED <<procVars, histVars>>
    BY <1>2 DEF WithLock
  <2> HIDE DEF Children
  <2>3. /\ pc' \in [Calls -> {"new", "lock", "starting", "drain", "waiting", "done"}]
        /\ via' \in [Calls -> 0..MaxStarts]
        /\ buffer' \in [Children -> Seq(Calls)] /\ paused' \in [Children -> BOOLEAN]
        /\ stdin' \in [Children -> Seq(Calls)]
        /\ pending' \in [Ids -> Calls \cup {Nobody}]
        /\ future' \in [Calls -> {"none", "open", "result", "exception", "cancelled"}]
        /\ answer' \in [Calls -> {"none", "accepted", "response", "start_error",
                                   "write_error", "timeout", "failed"}]
        /\ UNCHANGED <<result, work, stdout, chatter>>
    BY <2>1, <2>2, Sending
  <2> QED BY <2>2, <2>3 DEF TypeOK, procVars, histVars
<1> QED BY <1>1, <1>2

LEMMA TypeEnter ==
  ASSUME StdioAssumption, TypeOK, NEW c \in Calls, Enter(c) \/ Queue(c) \/ Wake(c)
  PROVE  TypeOK'
<1>1. CASE Enter(c)
  BY <1>1, WithLockType DEF Enter, LockFree, TypeOK
<1>2. CASE Queue(c)
  <2>1. /\ pc[c] = "new" /\ pc' = [pc EXCEPT ![c] = "lock"]
        /\ lockq' = Append(lockq, c)
        /\ UNCHANGED <<via, future, result, answer, lock, childVars, procVars, pending,
                       histVars>>
    BY <1>2 DEF Queue
  <2>2. lockq' \in Seq(Calls)
    BY <2>1 DEF TypeOK
  <2>3. pc' \in [Calls -> {"new", "lock", "starting", "drain", "waiting", "done"}]
    BY <2>1 DEF TypeOK
  <2>4. lock' # Nobody => pc'[lock'] = "starting"
    BY <2>1 DEF TypeOK
  <2> QED BY <2>1, <2>2, <2>3, <2>4 DEF TypeOK, childVars, procVars, histVars
<1>3. CASE Wake(c)
  <2>1. lock = Nobody /\ lockq # << >> /\ lockq' = Tail(lockq) /\ WithLock(c)
    BY <1>3 DEF Wake
  <2>2. lockq' \in Seq(Calls)
    BY <2>1 DEF TypeOK
  <2> QED BY <2>1, <2>2, WithLockType
<1> QED BY <1>1, <1>2, <1>3

LEMMA TypeStarted ==
  ASSUME StdioAssumption, TypeOK, NEW c \in Calls, Started(c)
  PROVE  TypeOK'
<1> DEFINE g == current + 1
<1>1. g \in Children /\ TRUE \in BOOLEAN /\ g \in 0..MaxStarts
  BY DEF Started, TypeOK, StdioAssumption
<1>2. /\ current' = g /\ child' = [child EXCEPT ![g] = "alive"]
      /\ reader' = ReadersAfterStart(g) /\ Send(c, g, TRUE)
      /\ lock' = Nobody /\ UNCHANGED <<lockq, histVars>>
  BY DEF Started
<1> HIDE DEF g, Children
<1>3. /\ pc' \in [Calls -> {"new", "lock", "starting", "drain", "waiting", "done"}]
      /\ via' \in [Calls -> 0..MaxStarts]
      /\ buffer' \in [Children -> Seq(Calls)] /\ paused' \in [Children -> BOOLEAN]
      /\ stdin' \in [Children -> Seq(Calls)]
      /\ pending' \in [Ids -> Calls \cup {Nobody}]
      /\ future' \in [Calls -> {"none", "open", "result", "exception", "cancelled"}]
      /\ answer' \in [Calls -> {"none", "accepted", "response", "start_error",
                                 "write_error", "timeout", "failed"}]
      /\ UNCHANGED <<result, work, stdout, chatter>>
  BY <1>1, <1>2, Sending
<1>4. reader' \in [Children -> {"none", "running", "ended", "failed", "cancelled"}]
  BY <1>2 DEF ReadersAfterStart, TypeOK
<1> QED BY <1>1, <1>2, <1>3, <1>4 DEF TypeOK, histVars

LEMMA TypeCall ==
  ASSUME StdioAssumption, TypeOK, NEW c \in Calls,
         StartFails(c) \/ Drained(c) \/ DrainBroken(c) \/ Collect(c) \/ TimerFires(c)
  PROVE  TypeOK'
<1>1. CASE StartFails(c)
  BY <1>1 DEF StartFails, Return, LockAfterError, TypeOK, StdioAssumption, childVars,
              procVars, histVars
<1>2. CASE Drained(c)
  <2>1. /\ pc[c] = "drain" /\ (Accepted(c) \/ Registered(c))
        /\ UNCHANGED <<via, result, lockVars, childVars, procVars, histVars>>
    BY <1>2, RegisterCases DEF Drained, IsResumed
  <2>2. CASE Accepted(c)
    BY <2>1, <2>2 DEF Accepted, Return, TypeOK, StdioAssumption, lockVars, childVars,
                      procVars, histVars
  <2>3. CASE Registered(c)
    BY <2>1, <2>3 DEF Registered, TypeOK, StdioAssumption, lockVars, childVars,
                      procVars, histVars
  <2> QED BY <2>1, <2>2, <2>3
<1>3. CASE DrainBroken(c)
  BY <1>3 DEF DrainBroken, Return, TypeOK, StdioAssumption, lockVars, childVars,
              procVars, histVars
<1>4. CASE Collect(c)
  <2>1. /\ pc[c] = "waiting"
        /\ \E a \in {"response", "failed", "timeout"} : Return(c, a)
        /\ pending' = pending \/ pending' = [pending EXCEPT ![IdOf[c]] = Nobody]
        /\ UNCHANGED <<via, future, result, lockVars, childVars, procVars, histVars>>
    BY <1>4 DEF Collect, Forget
  <2>2. pending' \in [Ids -> Calls \cup {Nobody}]
    BY <2>1 DEF TypeOK
  <2>3. PICK a \in {"response", "failed", "timeout"} : Return(c, a)
    BY <2>1
  <2>4. /\ pc' \in [Calls -> {"new", "lock", "starting", "drain", "waiting", "done"}]
        /\ answer' \in [Calls -> {"none", "accepted", "response", "start_error",
                                   "write_error", "timeout", "failed"}]
        /\ lock # Nobody => pc'[lock] = "starting"
    BY <2>1, <2>3 DEF Return, TypeOK
  <2> QED BY <2>1, <2>2, <2>4 DEF TypeOK, lockVars, childVars, procVars, histVars
<1>5. CASE TimerFires(c)
  BY <1>5 DEF TimerFires, TypeOK, StdioAssumption, lockVars, childVars, histVars
<1> QED BY <1>1, <1>2, <1>3, <1>4, <1>5

LEMMA TypeChild ==
  ASSUME StdioAssumption, TypeOK, NEW g \in Children, ChildStep(g) \/ Reap(g) \/ Flush(g)
  PROVE  TypeOK'
<1> DEFINE Line == [id : Ids \cup {NoId}, of : Calls \cup {Server}, fatal : BOOLEAN]
<1>1. CASE TakeLine(g)
  <2>1. /\ stdin[g] # << >> /\ stdin' = [stdin EXCEPT ![g] = Tail(@)]
        /\ work' = [work EXCEPT ![g] = work'[g]]
        /\ work'[g] = work[g] \/ work'[g] = work[g] \cup {Head(stdin[g])}
        /\ UNCHANGED <<child, buffer, paused, stdout, chatter>> /\ ChildOnly
    BY <1>1 DEF TakeLine, TypeOK
  <2>2. Head(stdin[g]) \in Calls /\ Tail(stdin[g]) \in Seq(Calls)
    BY <2>1 DEF TypeOK
  <2>3. stdin' \in [Children -> Seq(Calls)]
    BY <2>1, <2>2 DEF TypeOK
  <2>a. work[g] \in SUBSET Calls
    BY DEF TypeOK
  <2>4. work'[g] \in SUBSET Calls
    BY <2>1, <2>2, <2>a
  <2>5. work' \in [Children -> SUBSET Calls]
    BY <2>1, <2>4 DEF TypeOK
  <2> QED BY <2>1, <2>3, <2>5 DEF ChildOnly, TypeOK, callVars, lockVars, histVars
<1>2. ASSUME NEW line \in Line, PutLine(g, line)
      PROVE  /\ stdout' \in [Children -> Seq(Line)]
             /\ ChildOnly /\ UNCHANGED <<child, buffer, paused, stdin>>
  <2>1. stdout' = [stdout EXCEPT ![g] = Append(@, line)]
    BY <1>2 DEF PutLine
  <2>2. stdout \in [Children -> Seq(Line)]
    BY DEF TypeOK
  <2> HIDE DEF Line, Children
  <2>3. Append(stdout[g], line) \in Seq(Line)
    BY <1>2, <2>2
  <2> QED BY <1>2, <2>1, <2>2, <2>3 DEF PutLine
<1>3. CASE \E c \in Calls : Respond(g, c)
  <2>1. PICK c \in Calls : Respond(g, c)
    BY <1>3
  <2>2. Message(IdOf[c], c) \in Line
    BY DEF Message, StdioAssumption
  <2>3. /\ stdout' \in [Children -> Seq(Line)]
        /\ ChildOnly /\ UNCHANGED <<child, buffer, paused, stdin>>
    BY <1>2, <2>1, <2>2 DEF Respond
  <2> QED BY <2>1, <2>3 DEF Respond, ChildOnly, TypeOK, callVars, lockVars, histVars
<1>4. CASE Chatter(g)
  <2>1. \E line \in Line : PutLine(g, line)
    BY <1>4 DEF Chatter, Message, FatalLine, StdioAssumption
  <2>2. /\ stdout' \in [Children -> Seq(Line)]
        /\ ChildOnly /\ UNCHANGED <<child, buffer, paused, stdin>>
    BY <1>2, <2>1
  <2>3. chatter' \in [Children -> 0..MaxChatter] /\ UNCHANGED work
    <3>1. /\ chatter \in [Children -> 0..MaxChatter] /\ MaxChatter \in Nat
          /\ chatter[g] < MaxChatter /\ chatter' = [chatter EXCEPT ![g] = @ + 1]
          /\ UNCHANGED work
      BY <1>4 DEF Chatter, TypeOK, StdioAssumption
    <3>2. chatter[g] + 1 \in 0..MaxChatter
      BY <3>1
    <3> QED BY <3>1, <3>2
  <2> QED BY <2>2, <2>3 DEF ChildOnly, TypeOK, callVars, lockVars, histVars
<1>5. CASE Die(g)
  <2>1. /\ child' = [child EXCEPT ![g] = "dead"]
        /\ buffer' = [buffer EXCEPT ![g] = << >>] /\ stdin' = [stdin EXCEPT ![g] = << >>]
        /\ work' = [work EXCEPT ![g] = {}]
        /\ ChildOnly /\ UNCHANGED <<paused, stdout, chatter>>
    BY <1>5 DEF Die
  <2>2. << >> \in Seq(Calls)
    OBVIOUS
  <2>3. buffer' \in [Children -> Seq(Calls)] /\ stdin' \in [Children -> Seq(Calls)]
    BY <2>1, <2>2, Zenon DEF TypeOK
  <2> QED BY <2>1, <2>3 DEF ChildOnly, TypeOK, callVars, lockVars, histVars
<1>6. CASE Reap(g)
  BY <1>6 DEF Reap, ChildOnly, TypeOK, callVars, lockVars, childVars, histVars
<1>7. CASE Flush(g)
  <2>1. /\ buffer[g] # << >>
        /\ stdin' = [stdin EXCEPT ![g] = Append(@, Head(buffer[g]))]
        /\ buffer' = [buffer EXCEPT ![g] = Tail(@)]
        /\ paused' = [paused EXCEPT ![g] = @ /\ Len(buffer[g]) - 1 > LowWater]
        /\ UNCHANGED <<callVars, lockVars, procVars, work, stdout, chatter, pending,
                       histVars>>
    BY <1>7 DEF Flush
  <2>2. Head(buffer[g]) \in Calls /\ Tail(buffer[g]) \in Seq(Calls)
    BY <2>1 DEF TypeOK
  <2>a. Append(stdin[g], Head(buffer[g])) \in Seq(Calls)
    BY <2>2 DEF TypeOK
  <2>3. stdin' \in [Children -> Seq(Calls)] /\ buffer' \in [Children -> Seq(Calls)]
    BY <2>1, <2>2, <2>a, Zenon DEF TypeOK
  <2>4. (paused[g] /\ Len(buffer[g]) - 1 > LowWater) \in BOOLEAN
    OBVIOUS
  <2>5. paused' \in [Children -> BOOLEAN]
    BY <2>1, <2>4, Zenon DEF TypeOK
  <2> QED BY <2>1, <2>3, <2>5 DEF TypeOK, callVars, lockVars, procVars, histVars
<1> QED BY <1>1, <1>3, <1>4, <1>5, <1>6, <1>7 DEF ChildStep

LEMMA TypeReader ==
  ASSUME StdioAssumption, TypeOK, NEW g \in Children, ReaderStep(g)
  PROVE  TypeOK'
<1> DEFINE Line == [id : Ids \cup {NoId}, of : Calls \cup {Server}, fatal : BOOLEAN]
<1>1. ASSUME stdout[g] # << >>, stdout' = [stdout EXCEPT ![g] = Tail(@)]
      PROVE  stdout' \in [Children -> Seq(Line)] /\ Head(stdout[g]) \in Line
  <2>1. stdout \in [Children -> Seq(Line)]
    BY DEF TypeOK
  <2> HIDE DEF Line
  <2>2. Tail(stdout[g]) \in Seq(Line) /\ Head(stdout[g]) \in Line
    BY <1>1, <2>1
  <2> QED BY <1>1, <2>1, <2>2
<1>2. CASE ReadMessage(g)
  <2> DEFINE m == Head(stdout[g])
  <2>1. /\ Resolve(m.id, m.of)
        /\ stdout' \in [Children -> Seq(Line)] /\ m \in Line
        /\ lost' \subseteq lost \cup Calls
        /\ UNCHANGED <<pc, via, answer, lockVars, buffer, paused, stdin, work, chatter,
                       current, child, reader, closed>>
    BY <1>1, <1>2 DEF ReadMessage
  <2>2. pending' \in [Ids -> Calls \cup {Nobody}]
    BY <2>1 DEF Resolve, TypeOK
  <2>3. m.of \in Calls \cup {Server}
    BY <2>1
  <2>4. Addressee(m.id) \in Calls \cup {Nobody}
    BY DEF Addressee, TypeOK
  <2> HIDE DEF m
  <2>5. /\ future' \in [Calls -> {"none", "open", "result", "exception", "cancelled"}]
        /\ result' \in [Calls -> Calls \cup {Server, Nobody}]
    <3> DEFINE c == Addressee(m.id)
    <3>1. CASE c # Nobody /\ future[c] = "open"
      <4>1. /\ future' = [future EXCEPT ![c] = "result"]
            /\ result' = [result EXCEPT ![c] = m.of]
        BY <2>1, <3>1 DEF Resolve
      <4> HIDE DEF c
      <4> QED BY <2>3, <2>4, <3>1, <4>1 DEF TypeOK
    <3>2. CASE ~(c # Nobody /\ future[c] = "open")
      BY <2>1, <3>2 DEF Resolve, TypeOK
    <3> QED BY <3>1, <3>2
  <2> QED BY <2>1, <2>2, <2>5 DEF TypeOK, lockVars
<1>3. CASE ReadFatal(g)
  <2>1. stdout' \in [Children -> Seq(Line)]
    BY <1>1, <1>3 DEF ReadFatal
  <2>2. /\ future' \in [Calls -> {"none", "open", "result", "exception", "cancelled"}]
        /\ pending' \in [Ids -> Calls \cup {Nobody}]
        /\ reader' \in [Children -> {"none", "running", "ended", "failed", "cancelled"}]
    BY <1>3 DEF ReadFatal, FuturesFailed, TypeOK
  <2> QED BY <1>3, <2>1, <2>2 DEF ReadFatal, TypeOK, lockVars
<1>4. CASE ReadEnd(g)
  BY <1>4 DEF ReadEnd, TypeOK, callVars, lockVars, childVars, histVars
<1> QED BY <1>2, <1>3, <1>4 DEF ReaderStep

LEMMA TypeInit == StdioAssumption /\ Init => TypeOK
<1> SUFFICES ASSUME StdioAssumption, Init PROVE TypeOK
  OBVIOUS
<1>1. << >> \in Seq(Calls)
  OBVIOUS
<1>2. << >> \in Seq([id : Ids \cup {NoId}, of : Calls \cup {Server}, fatal : BOOLEAN])
  OBVIOUS
<1> HIDE DEF Children
<1>3. /\ buffer \in [Children -> Seq(Calls)] /\ stdin \in [Children -> Seq(Calls)]
      /\ stdout \in [Children -> Seq([id : Ids \cup {NoId}, of : Calls \cup {Server},
                                      fatal : BOOLEAN])]
  BY <1>1, <1>2, Zenon DEF Init
<1>4. lockq \in Seq(Calls)
  BY <1>1 DEF Init
<1>5. /\ current \in 0..MaxStarts /\ via \in [Calls -> 0..MaxStarts]
      /\ chatter \in [Children -> 0..MaxChatter]
  BY DEF Init, StdioAssumption
<1> QED BY <1>3, <1>4, <1>5 DEF Init, TypeOK

LEMMA TypeStep == StdioAssumption /\ TypeOK /\ [Next]_vars => TypeOK'
<1> SUFFICES ASSUME StdioAssumption, TypeOK, [Next]_vars PROVE TypeOK'
  OBVIOUS
<1> HIDE DEF Children
<1>1. ASSUME NEW c \in Calls, Enter(c) \/ Queue(c) \/ CallStep(c) \/ TimerFires(c)
      PROVE  TypeOK'
  BY <1>1, TypeEnter, TypeStarted, TypeCall DEF CallStep
<1>2. ASSUME NEW g \in Children, ChildStep(g) \/ Reap(g) \/ Flush(g) \/ ReaderStep(g)
      PROVE  TypeOK'
  BY <1>2, TypeChild, TypeReader
<1>3. CASE Close
  BY <1>3 DEF Close, TypeOK, callVars, lockVars, childVars
<1>4. CASE UNCHANGED vars
  BY <1>4 DEF vars, TypeOK, callVars, lockVars, childVars, procVars, histVars
<1> QED BY <1>1, <1>2, <1>3, <1>4 DEF Next

\* The variables keep their types, and the lock is held by a call that starts a
\* child: nothing else holds it over a suspension.
THEOREM TypeCorrect == Spec => []TypeOK
<1>1. Init => TypeOK
  BY StdioAssumption, TypeInit
<1>2. TypeOK /\ [Next]_vars => TypeOK'
  BY StdioAssumption, TypeStep
<1> QED BY <1>1, <1>2, PTL DEF Spec

-----------------------------------------------------------------------------
(* One child.  Whoever holds the lock over a suspension found no child to write *)
(* to, and nothing can change that while it waits; the queue holds each waiting *)
(* call once; after close() no call is under way and no reader runs.            *)

LockInv ==
  /\ \A c \in Calls : pc[c] = "starting" => lock = c
  /\ lock # Nobody => NeedsStart

QueueInv ==
  /\ \A k \in 1..Len(lockq) : pc[lockq[k]] = "lock"
  /\ \A j, k \in 1..Len(lockq) : lockq[j] = lockq[k] => j = k

ClosedInv ==
  closed => /\ \A c \in Calls : pc[c] \in {"new", "done"}
            /\ \A g \in Children : reader[g] # "running"

ChildInv == LockInv /\ QueueInv /\ ClosedInv /\ OneChild

LEMMA WithLockCases ==
  ASSUME StdioAssumption, TypeOK, NEW c \in Calls, WithLock(c)
  PROVE  /\ UNCHANGED <<procVars, histVars>>
         /\ \A d \in Calls : d # c => pc'[d] = pc[d]
         /\ \/ NeedsStart /\ lock' = c /\ pc'[c] = "starting"
            \/ ~NeedsStart /\ lock' = Nobody /\ pc'[c] \in {"drain", "waiting", "done"}
<1>1. CASE NeedsStart
  BY <1>1 DEF WithLock, TypeOK
<1>2. CASE ~NeedsStart
  <2>1. current \in Children /\ (child[current] = "alive") \in BOOLEAN
    BY <1>2 DEF NeedsStart, TypeOK, StdioAssumption
  <2>2. /\ Send(c, current, child[current] = "alive")
        /\ lock' = Nobody /\ UNCHANGED <<procVars, histVars>>
    BY <1>2 DEF WithLock
  <2> HIDE DEF Children
  <2>3. /\ pc'[c] \in {"drain", "waiting", "done"}
        /\ \A d \in Calls : d # c => pc'[d] = pc[d]
    BY <2>1, <2>2, Sending
  <2> QED BY <1>2, <2>2, <2>3
<1> QED BY <1>1, <1>2

\* Removing the head of the queue, and adding a call that is not in it.
LEMMA QueueTail ==
  ASSUME TypeOK, QueueInv, lockq # << >>, lockq' = Tail(lockq),
         \A d \in Calls : d # Head(lockq) => pc'[d] = pc[d]
  PROVE  QueueInv'
<1>1. lockq \in Seq(Calls) /\ Len(lockq') = Len(lockq) - 1
  BY DEF TypeOK
<1>2. \A k \in 1..Len(lockq') : lockq'[k] = lockq[k + 1] /\ k + 1 \in 1..Len(lockq)
  BY <1>1
<1>3. Head(lockq) = lockq[1] /\ 1 \in 1..Len(lockq)
  BY <1>1
<1>4. \A k \in 1..Len(lockq') : lockq'[k] # Head(lockq) /\ lockq'[k] \in Calls
  BY <1>1, <1>2, <1>3 DEF QueueInv
<1> QED BY <1>1, <1>2, <1>4 DEF QueueInv

LEMMA QueueAppend ==
  ASSUME TypeOK, QueueInv, NEW c \in Calls, pc[c] = "new", lockq' = Append(lockq, c),
         pc' = [pc EXCEPT ![c] = "lock"]
  PROVE  QueueInv'
<1>1. lockq \in Seq(Calls) /\ Len(lockq') = Len(lockq) + 1 /\ lockq'[Len(lockq) + 1] = c
  BY DEF TypeOK
<1>2. \A k \in 1..Len(lockq) : lockq'[k] = lockq[k] /\ lockq[k] # c /\ lockq[k] \in Calls
  BY <1>1 DEF QueueInv
<1>3. \A k \in 1..Len(lockq') : k \in 1..Len(lockq) \/ k = Len(lockq) + 1
  BY <1>1
<1>4. \A k \in 1..Len(lockq') : pc'[lockq'[k]] = "lock"
  BY <1>1, <1>2, <1>3 DEF QueueInv, TypeOK
<1>5. \A j, k \in 1..Len(lockq') : lockq'[j] = lockq'[k] => j = k
  BY <1>1, <1>2, <1>3 DEF QueueInv
<1> QED BY <1>4, <1>5 DEF QueueInv

\* Calls in the queue stay there as long as the queue and their tasks are left alone.
LEMMA QueueKept ==
  ASSUME TypeOK, QueueInv, UNCHANGED lockq,
         \A d \in Calls : pc[d] = "lock" => pc'[d] = pc[d]
  PROVE  QueueInv'
<1>1. \A k \in 1..Len(lockq) : lockq[k] \in Calls
  BY DEF TypeOK
<1> QED BY <1>1 DEF QueueInv

LEMMA ChildEnter ==
  ASSUME StdioAssumption, TypeOK, ChildInv, NEW c \in Calls,
         Enter(c) \/ Queue(c) \/ Wake(c)
  PROVE  ChildInv'
<1> USE DEF ChildInv
<1>1. ASSUME WithLock(c), lock = Nobody, ~closed, QueueInv' PROVE ChildInv'
  <2>1. /\ UNCHANGED <<procVars, histVars>>
        /\ \A d \in Calls : d # c => pc'[d] = pc[d]
        /\ \/ NeedsStart /\ lock' = c /\ pc'[c] = "starting"
           \/ ~NeedsStart /\ lock' = Nobody /\ pc'[c] \in {"drain", "waiting", "done"}
    BY <1>1, WithLockCases
  <2>2. LockInv'
    BY <1>1, <2>1 DEF LockInv, NeedsStart, procVars, StdioAssumption
  <2>3. ClosedInv' /\ OneChild'
    BY <1>1, <2>1 DEF ClosedInv, OneChild, procVars, histVars
  <2> QED BY <1>1, <2>2, <2>3
<1>2. CASE Enter(c)
  <2>1. pc[c] = "new" /\ ~closed /\ lock = Nobody /\ WithLock(c) /\ UNCHANGED lockq
    BY <1>2 DEF Enter, LockFree
  <2>2. QueueInv'
    BY <2>1, WithLockCases, QueueKept
  <2> QED BY <1>1, <2>1, <2>2
<1>3. CASE Queue(c)
  <2>1. QueueInv'
    BY <1>3, QueueAppend DEF Queue
  <2>2. LockInv'
    BY <1>3 DEF Queue, LockInv, NeedsStart, procVars, TypeOK
  <2>3. ClosedInv' /\ OneChild'
    BY <1>3 DEF Queue, ClosedInv, OneChild, procVars, histVars, TypeOK
  <2> QED BY <2>1, <2>2, <2>3
<1>4. CASE Wake(c)
  <2>1. /\ lock = Nobody /\ lockq # << >> /\ Head(lockq) = c
        /\ lockq' = Tail(lockq) /\ WithLock(c)
    BY <1>4 DEF Wake
  <2>2. QueueInv'
    BY <2>1, WithLockCases, QueueTail
  <2>3. 1 \in 1..Len(lockq) /\ lockq[1] = c
    BY <2>1 DEF TypeOK
  <2>4. ~closed
    BY <2>3 DEF QueueInv, ClosedInv
  <2> QED BY <1>1, <2>1, <2>2, <2>4
<1> QED BY <1>2, <1>3, <1>4

LEMMA ChildStarted ==
  ASSUME StdioAssumption, TypeOK, ChildInv, NEW c \in Calls, Started(c)
  PROVE  ChildInv'
<1> USE DEF ChildInv
<1> DEFINE g == current + 1
<1>1. g \in Children /\ TRUE \in BOOLEAN /\ g # current
  BY DEF Started, TypeOK, StdioAssumption
<1>2. /\ pc[c] = "starting" /\ current' = g /\ child' = [child EXCEPT ![g] = "alive"]
      /\ reader' = ReadersAfterStart(g) /\ Send(c, g, TRUE)
      /\ lock' = Nobody /\ UNCHANGED <<lockq, histVars>>
  BY DEF Started
<1> HIDE DEF g, Children
<1>3. /\ pc'[c] \in {"drain", "waiting", "done"}
      /\ \A d \in Calls : d # c => pc'[d] = pc[d]
  BY <1>1, <1>2, Sending
<1>4. lock = c /\ NeedsStart
  BY <1>2 DEF LockInv, StdioAssumption
<1>5. LockInv'
  BY <1>2, <1>3, <1>4 DEF LockInv
<1>6. QueueInv'
  BY <1>2, <1>3, QueueKept
<1>7. \A h \in Children : child[h] \notin {"alive", "dead"}
  <2>1. current \in Children => child[current] = "reaped"
    BY <1>4 DEF NeedsStart, Children
  <2> QED BY <2>1 DEF OneChild
<1>8. ~closed
  BY <1>2 DEF ClosedInv
<1>9. \A h \in Children : child'[h] \in {"alive", "dead"} => h = current'
  BY <1>1, <1>2, <1>7 DEF TypeOK
<1>10. \A h \in Children : reader'[h] = "running" => h = current'
  BY <1>1, <1>2 DEF OneChild, ReadersAfterStart
<1> QED BY <1>2, <1>5, <1>6, <1>8, <1>9, <1>10 DEF ClosedInv, OneChild, histVars

\* The other steps of a call move it out of no queue and out of no lock but its own.
LEMMA ChildCall ==
  ASSUME StdioAssumption, TypeOK, ChildInv, NEW c \in Calls,
         StartFails(c) \/ Drained(c) \/ DrainBroken(c) \/ Collect(c) \/ TimerFires(c)
  PROVE  ChildInv'
<1> USE DEF ChildInv
<1>1. /\ UNCHANGED <<procVars, histVars, lockq>>
      /\ \A d \in Calls : d # c => pc'[d] = pc[d]
      /\ pc[c] \in {"starting", "drain", "waiting"} /\ pc'[c] \in {"waiting", "done"}
      /\ \/ pc[c] # "starting" /\ UNCHANGED lock
         \/ pc[c] = "starting" /\ lock' = Nobody
  <2>1. CASE StartFails(c)
    BY <2>1 DEF StartFails, Return, LockAfterError, TypeOK
  <2>2. CASE Drained(c)
    BY <2>2 DEF Drained, IsResumed, Register, Return, TypeOK, lockVars
  <2>3. CASE DrainBroken(c)
    BY <2>3 DEF DrainBroken, Return, TypeOK, lockVars
  <2>4. CASE Collect(c)
    BY <2>4 DEF Collect, Return, TypeOK, lockVars
  <2>5. CASE TimerFires(c)
    BY <2>5 DEF TimerFires, TypeOK, lockVars, procVars
  <2> QED BY <2>1, <2>2, <2>3, <2>4, <2>5
<1>2. LockInv'
  <2>1. NeedsStart => NeedsStart'
    BY <1>1 DEF NeedsStart, procVars
  <2>2. \A d \in Calls : pc'[d] = "starting" => d # c /\ pc[d] = "starting"
    BY <1>1
  <2>3. CASE pc[c] # "starting" /\ UNCHANGED lock
    BY <2>1, <2>2, <2>3 DEF LockInv
  <2>4. CASE pc[c] = "starting" /\ lock' = Nobody
    BY <2>2, <2>4 DEF LockInv
  <2> QED BY <1>1, <2>3, <2>4
<1>3. QueueInv'
  BY <1>1, QueueKept
<1>4. ClosedInv' /\ OneChild'
  BY <1>1 DEF ClosedInv, OneChild, procVars, histVars
<1> QED BY <1>2, <1>3, <1>4

LEMMA ChildOther ==
  ASSUME StdioAssumption, TypeOK, ChildInv, NEW g \in Children,
         ChildStep(g) \/ Reap(g) \/ Flush(g) \/ ReaderStep(g)
  PROVE  ChildInv'
<1> USE DEF ChildInv
<1>1. /\ UNCHANGED <<pc, lockVars, current, closed>>
      /\ \/ child' = child
         \/ child[g] = "alive" /\ child' = [child EXCEPT ![g] = "dead"]
         \/ child[g] = "dead" /\ child' = [child EXCEPT ![g] = "reaped"]
      /\ \A h \in Children : reader'[h] = "running" => reader[h] = "running"
  BY DEF ChildStep, TakeLine, Respond, Chatter, PutLine, Die, Reap, Flush, ReaderStep,
         ReadMessage, ReadFatal, ReadEnd, ChildOnly, callVars, lockVars, procVars,
         childVars, histVars, TypeOK
<1>2. LockInv'
  <2>1. CASE current = 0
    BY <1>1, <2>1 DEF LockInv, NeedsStart, lockVars
  <2>2. CASE current \in Children
    <3>1. child[current] = "reaped" => child'[current] = "reaped"
      BY <1>1, <2>2 DEF TypeOK
    <3> QED BY <1>1, <2>2, <3>1 DEF LockInv, NeedsStart, lockVars
  <2> QED BY <2>1, <2>2 DEF TypeOK, StdioAssumption
<1>3. QueueInv' /\ ClosedInv'
  BY <1>1 DEF QueueInv, ClosedInv, lockVars
<1>4. OneChild'
  <2>1. \A h \in Children :
          /\ child'[h] \in {"alive", "dead"} => child[h] \in {"alive", "dead"}
          /\ child'[h] = "alive" => child[h] = "alive"
    <3> SUFFICES ASSUME NEW h \in Children
                 PROVE  /\ child'[h] \in {"alive", "dead"} => child[h] \in {"alive", "dead"}
                        /\ child'[h] = "alive" => child[h] = "alive"
      OBVIOUS
    <3>1. CASE child' = child BY <3>1
    <3>2. ASSUME NEW state \in {"dead", "reaped"}, child' = [child EXCEPT ![g] = state],
                 child[g] \in {"alive", "dead"}
          PROVE  /\ child'[h] \in {"alive", "dead"} => child[h] \in {"alive", "dead"}
                 /\ child'[h] = "alive" => child[h] = "alive"
      BY <3>2 DEF TypeOK
    <3> QED BY <1>1, <3>1, <3>2
  <2> QED BY <1>1, <2>1 DEF OneChild
<1> QED BY <1>2, <1>3, <1>4

LEMMA ChildStepInv == StdioAssumption /\ TypeOK /\ ChildInv /\ [Next]_vars => ChildInv'
<1> SUFFICES ASSUME StdioAssumption, TypeOK, ChildInv, [Next]_vars PROVE ChildInv'
  OBVIOUS
<1>1. ASSUME NEW c \in Calls, Enter(c) \/ Queue(c) \/ CallStep(c) \/ TimerFires(c)
      PROVE  ChildInv'
  BY <1>1, ChildEnter, ChildStarted, ChildCall DEF CallStep
<1>2. ASSUME NEW g \in Children, ChildStep(g) \/ Reap(g) \/ Flush(g) \/ ReaderStep(g)
      PROVE  ChildInv'
  BY <1>2, ChildOther
<1>3. CASE Close
  <2>1. LockInv' /\ QueueInv'
    BY <1>3 DEF Close, ChildInv, LockInv, NeedsStart, QueueInv, callVars, lockVars, TypeOK
  <2>a. ClosedInv'
    BY <1>3 DEF Close, ChildInv, ClosedInv, OneChild, callVars
  <2>2. OneChild'
    BY <1>3 DEF Close, ChildInv, OneChild, TypeOK
  <2> QED BY <2>1, <2>a, <2>2 DEF ChildInv
<1>4. CASE UNCHANGED vars
  BY <1>4 DEF vars, ChildInv, LockInv, NeedsStart, QueueInv, ClosedInv, OneChild,
              callVars, lockVars, procVars, histVars
<1> QED BY <1>1, <1>2, <1>3, <1>4 DEF Next

LEMMA ChildInit == StdioAssumption /\ Init => ChildInv
BY DEF StdioAssumption, Init, ChildInv, LockInv, QueueInv, ClosedInv, OneChild

\* Concurrent calls never start two children, and one reader resolves futures.
THEOREM OneChildAlways == Spec => []OneChild
<1>1. Init => TypeOK /\ ChildInv
  BY StdioAssumption, TypeInit, ChildInit
<1>2. TypeOK /\ ChildInv /\ [Next]_vars => (TypeOK /\ ChildInv)'
  BY StdioAssumption, TypeStep, ChildStepInv
<1>3. ChildInv => OneChild
  BY DEF ChildInv
<1> QED BY <1>1, <1>2, <1>3, PTL DEF Spec

-----------------------------------------------------------------------------
(* The table of pending futures and the answers.  Every step of a call that is  *)
(* not waiting yet either moves it on without touching table and futures, or    *)
(* registers it.                                                                *)

\* What the clients have to do: no two requests of theirs carry one id, and none
\* carries an id the server uses for requests of its own.
DistinctIds == \A c, d \in Calls : IdOf[c] = IdOf[d] /\ IdOf[c] # NoId => c = d
ServerIdsApart == \A c \in Calls : IdOf[c] \notin ServerIds

EntryInv ==
  /\ \A i \in Ids : pending[i] # Nobody =>
       /\ pc[pending[i]] = "waiting" /\ IdOf[pending[i]] = i
       /\ future[pending[i]] \in {"open", "cancelled"}
  /\ \A c \in Calls : pc[c] = "waiting" => IdOf[c] \in Ids

OpenInv ==
  \A c \in Calls : pc[c] = "waiting" /\ future[c] = "open" => pending[IdOf[c]] = c

Moved(c) ==
  /\ \E p \in {"lock", "starting", "drain", "done"} :
       /\ pc' = [pc EXCEPT ![c] = p]
       /\ \/ UNCHANGED answer
          \/ /\ p = "done"
             /\ \E a \in {"accepted", "start_error", "write_error"} :
                  answer' = [answer EXCEPT ![c] = a]
  /\ UNCHANGED <<pending, future>>

LEMMA SendMoves ==
  ASSUME StdioAssumption, TypeOK, NEW c \in Calls, NEW g \in Children,
         NEW alive \in BOOLEAN, Send(c, g, alive)
  PROVE  /\ UNCHANGED <<result, work, stdout, chatter>>
         /\ Moved(c) \/ Registered(c)
<1>1. /\ UNCHANGED <<result, work, stdout, chatter>>
      /\ SendBroken(c) \/ SendPaused(c, g) \/ Accepted(c) \/ Registered(c)
  BY SendCases
<1>2. SendBroken(c) => Moved(c)
  BY DEF SendBroken, Moved, Return
<1>3. SendPaused(c, g) => Moved(c)
  BY DEF SendPaused, Moved
<1>4. Accepted(c) => Moved(c)
  BY DEF Accepted, Moved, Return
<1> QED BY <1>1, <1>2, <1>3, <1>4

LEMMA WithLockMoves ==
  ASSUME StdioAssumption, TypeOK, NEW c \in Calls, WithLock(c)
  PROVE  /\ UNCHANGED <<result, stdout>>
         /\ Moved(c) \/ Registered(c)
<1>1. CASE NeedsStart
  BY <1>1 DEF WithLock, Moved, childVars
<1>2. CASE ~NeedsStart
  <2>1. current \in Children /\ (child[current] = "alive") \in BOOLEAN
    BY <1>2 DEF NeedsStart, TypeOK, StdioAssumption
  <2>2. Send(c, current, child[current] = "alive")
    BY <1>2 DEF WithLock
  <2> HIDE DEF Children
  <2> QED BY <2>1, <2>2, SendMoves
<1> QED BY <1>1, <1>2

LEMMA CallMoves ==
  ASSUME StdioAssumption, TypeOK, ChildInv, NEW c \in Calls,
         \/ Enter(c) \/ Queue(c) \/ Wake(c) \/ Started(c) \/ StartFails(c)
         \/ Drained(c) \/ DrainBroken(c)
  PROVE  /\ pc[c] \in {"new", "lock", "starting", "drain"}
         /\ UNCHANGED <<result, stdout, lost>>
         /\ Moved(c) \/ Registered(c)
<1>1. CASE Enter(c)
  <2>1. pc[c] = "new" /\ WithLock(c) /\ UNCHANGED lost
    BY <1>1 DEF Enter, WithLock, histVars
  <2> QED BY <2>1, WithLockMoves
<1>2. CASE Queue(c)
  BY <1>2 DEF Queue, Moved, childVars, histVars
<1>3. CASE Wake(c)
  <2>1. lockq # << >> /\ Head(lockq) = c /\ WithLock(c) /\ UNCHANGED lost
    BY <1>3 DEF Wake, WithLock, histVars
  <2>2. 1 \in 1..Len(lockq) /\ lockq[1] = c
    BY <2>1 DEF TypeOK
  <2>3. pc[c] = "lock"
    BY <2>2 DEF ChildInv, QueueInv
  <2> QED BY <2>1, <2>3, WithLockMoves
<1>4. CASE Started(c)
  <2>1. current + 1 \in Children /\ TRUE \in BOOLEAN
    BY <1>4 DEF Started, TypeOK, StdioAssumption
  <2>2. pc[c] = "starting" /\ Send(c, current + 1, TRUE) /\ UNCHANGED lost
    BY <1>4 DEF Started, histVars
  <2> HIDE DEF Children
  <2> QED BY <2>1, <2>2, SendMoves
<1>5. CASE StartFails(c)
  BY <1>5 DEF StartFails, Moved, Return, childVars, histVars
<1>6. CASE Drained(c)
  <2>1. /\ pc[c] = "drain" /\ UNCHANGED <<result, stdout, lost>>
        /\ Accepted(c) \/ Registered(c)
    BY <1>6, RegisterCases DEF Drained, IsResumed, childVars, histVars
  <2>2. Accepted(c) => Moved(c)
    BY DEF Accepted, Moved, Return
  <2> QED BY <2>1, <2>2
<1>7. CASE DrainBroken(c)
  BY <1>7 DEF DrainBroken, Moved, Return, childVars, histVars
<1> QED BY <1>1, <1>2, <1>3, <1>4, <1>5, <1>6, <1>7

\* What the child does and what the transport does reaches no future.
Elsewhere == UNCHANGED <<pc, future, result, answer, pending, lost>>

LEMMA OtherSteps ==
  ASSUME NEW g \in Children, ChildStep(g) \/ Reap(g) \/ Flush(g) \/ ReadEnd(g)
  PROVE  Elsewhere
BY DEF ChildStep, TakeLine, Respond, Chatter, PutLine, Die, Reap, Flush, ReadEnd,
       ChildOnly, Elsewhere, callVars, histVars

-----------------------------------------------------------------------------
LEMMA EntryMoves ==
  ASSUME StdioAssumption, TypeOK, EntryInv, NEW c \in Calls,
         pc[c] \in {"new", "lock", "starting", "drain"}, Moved(c) \/ Registered(c)
  PROVE  EntryInv' /\ (DistinctIds /\ OpenInv => OpenInv')
<1>1. CASE Moved(c)
  <2>1. /\ \A d \in Calls : pc'[d] = "waiting" <=> pc[d] = "waiting"
        /\ UNCHANGED <<pending, future>>
    BY <1>1 DEF Moved, TypeOK
  <2> QED BY <2>1 DEF EntryInv, OpenInv, TypeOK
<1>2. CASE Registered(c)
  <2>1. /\ IdOf[c] \in Ids
        /\ pending' = [pending EXCEPT ![IdOf[c]] = c]
        /\ future' = [future EXCEPT ![c] = "open"]
        /\ pc' = [pc EXCEPT ![c] = "waiting"]
    BY <1>2 DEF Registered, StdioAssumption
  <2>2. \A i \in Ids : pending[i] # c
    BY DEF EntryInv, StdioAssumption
  <2>3. EntryInv'
    BY <2>1, <2>2 DEF EntryInv, TypeOK
  <2>4. ASSUME DistinctIds, OpenInv PROVE OpenInv'
    <3>1. \A d \in Calls : d # c => IdOf[d] # IdOf[c]
      BY <1>2, <2>4 DEF DistinctIds, Registered
    <3> QED BY <2>1, <2>4, <3>1 DEF OpenInv, EntryInv, TypeOK
  <2> QED BY <2>3, <2>4
<1> QED BY <1>1, <1>2

LEMMA EntryTimer ==
  ASSUME StdioAssumption, TypeOK, EntryInv, NEW c \in Calls, TimerFires(c) \/ Collect(c)
  PROVE  EntryInv' /\ (DistinctIds /\ OpenInv => OpenInv')
<1>1. CASE TimerFires(c)
  <2>1. /\ future' = [future EXCEPT ![c] = "cancelled"]
        /\ UNCHANGED <<pc, pending>>
    BY <1>1 DEF TimerFires
  <2> QED BY <2>1 DEF EntryInv, OpenInv, TypeOK
<1>2. CASE Collect(c)
  <2>1. /\ pc[c] = "waiting" /\ pc' = [pc EXCEPT ![c] = "done"] /\ UNCHANGED future
        /\ \/ future[c] \notin {"open", "cancelled"} /\ UNCHANGED pending
           \/ pending' = [pending EXCEPT ![IdOf[c]] = Nobody]
    BY <1>2 DEF Collect, Return, Forget
  <2>2. IdOf[c] \in Ids
    BY <2>1 DEF EntryInv
  <2>3. \A i \in Ids : pending'[i] # Nobody => pending'[i] = pending[i] /\ pending[i] # c
    BY <2>1, <2>2 DEF EntryInv, TypeOK
  <2>4. EntryInv'
    BY <2>1, <2>3 DEF EntryInv, TypeOK
  <2>5. ASSUME DistinctIds, OpenInv PROVE OpenInv'
    <3>1. \A d \in Calls : d # c => IdOf[d] # IdOf[c]
      BY <2>2, <2>5 DEF DistinctIds, StdioAssumption
    <3> QED BY <2>1, <2>2, <2>5, <3>1 DEF OpenInv, EntryInv, TypeOK
  <2> QED BY <2>4, <2>5
<1> QED BY <1>1, <1>2

LEMMA EntryReader ==
  ASSUME StdioAssumption, TypeOK, EntryInv, NEW g \in Children,
         ReadMessage(g) \/ ReadFatal(g)
  PROVE  EntryInv' /\ (DistinctIds /\ OpenInv => OpenInv')
<1>1. CASE ReadMessage(g)
  <2> DEFINE i == Head(stdout[g]).id
             c == Addressee(i)
  <2>1. /\ pending' = [j \in Ids |-> IF j = i THEN Nobody ELSE pending[j]]
        /\ \/ /\ c # Nobody /\ future[c] = "open"
              /\ future' = [future EXCEPT ![c] = "result"]
           \/ ~(c # Nobody /\ future[c] = "open") /\ future' = future
        /\ pc' = pc
    BY <1>1 DEF ReadMessage, Resolve
  <2>2. c # Nobody => i \in Ids /\ c = pending[i] /\ c \in Calls
    BY DEF Addressee, TypeOK
  <2>3. i \in Ids => c = pending[i]
    BY DEF Addressee
  <2> HIDE DEF i, c
  <2>4. EntryInv'
    <3>1. ASSUME NEW j \in Ids, pending'[j] # Nobody
          PROVE  /\ pc'[pending'[j]] = "waiting" /\ IdOf[pending'[j]] = j
                 /\ future'[pending'[j]] \in {"open", "cancelled"}
      <4>1. j # i /\ pending'[j] = pending[j]
        BY <2>1, <3>1
      <4>2. /\ pc[pending[j]] = "waiting" /\ IdOf[pending[j]] = j
            /\ future[pending[j]] \in {"open", "cancelled"}
        BY <3>1, <4>1 DEF EntryInv
      <4>3. pending[j] # c
        BY <2>2, <3>1, <4>1, <4>2 DEF EntryInv
      <4>4. future'[pending[j]] = future[pending[j]]
        <5>1. pending[j] \in Calls /\ DOMAIN future = Calls
          BY <3>1, <4>1 DEF TypeOK
        <5> QED BY <2>1, <4>3, <5>1
      <4> QED BY <2>1, <4>1, <4>2, <4>4
    <3>2. \A d \in Calls : pc'[d] = "waiting" => IdOf[d] \in Ids
      BY <2>1 DEF EntryInv
    <3> QED BY <3>1, <3>2 DEF EntryInv
  <2>5. ASSUME OpenInv PROVE OpenInv'
    <3> SUFFICES ASSUME NEW d \in Calls, pc'[d] = "waiting", future'[d] = "open"
                 PROVE  pending'[IdOf[d]] = d
      BY DEF OpenInv
    <3>1. pc[d] = "waiting" /\ future[d] = "open" /\ d # Nobody
      BY <2>1, <2>2 DEF TypeOK, StdioAssumption
    <3>2. pending[IdOf[d]] = d /\ IdOf[d] \in Ids
      BY <2>5, <3>1 DEF OpenInv, EntryInv
    <3>3. IdOf[d] # i
      BY <2>1, <2>3, <3>1, <3>2 DEF TypeOK
    <3> QED BY <2>1, <3>2, <3>3
  <2> QED BY <2>4, <2>5
<1>2. CASE ReadFatal(g)
  <2>1. /\ future' = FuturesFailed /\ pending' = [i \in Ids |-> Nobody] /\ pc' = pc
    BY <1>2 DEF ReadFatal
  <2>2. EntryInv'
    BY <2>1 DEF EntryInv
  <2>3. ASSUME OpenInv PROVE OpenInv'
    BY <2>1, <2>3 DEF OpenInv, EntryInv, FuturesFailed
  <2> QED BY <2>2, <2>3
<1> QED BY <1>1, <1>2

LEMMA EntryStep ==
  ASSUME StdioAssumption, TypeOK, ChildInv, EntryInv, [Next]_vars
  PROVE  EntryInv' /\ (DistinctIds /\ OpenInv => OpenInv')
<1>1. ASSUME NEW c \in Calls, Enter(c) \/ Queue(c) \/ CallStep(c) \/ TimerFires(c)
      PROVE  EntryInv' /\ (DistinctIds /\ OpenInv => OpenInv')
  BY <1>1, CallMoves, EntryMoves, EntryTimer DEF CallStep
<1>2. ASSUME NEW g \in Children, ChildStep(g) \/ Reap(g) \/ Flush(g) \/ ReaderStep(g)
      PROVE  EntryInv' /\ (DistinctIds /\ OpenInv => OpenInv')
  <2>1. CASE ReadMessage(g) \/ ReadFatal(g)
    BY <2>1, EntryReader
  <2>2. CASE Elsewhere
    BY <2>2 DEF Elsewhere, EntryInv, OpenInv
  <2> QED BY <1>2, <2>1, <2>2, OtherSteps DEF ReaderStep
<1>3. CASE Close \/ UNCHANGED vars
  BY <1>3 DEF Close, vars, EntryInv, OpenInv, callVars
<1> QED BY <1>1, <1>2, <1>3 DEF Next

LEMMA EntryInit == StdioAssumption /\ Init => EntryInv /\ OpenInv
BY DEF StdioAssumption, Init, EntryInv, OpenInv

\* Each entry of _pending belongs to a call that still waits under that very id.
EntriesAreAwaited ==
  \A i \in Ids : pending[i] # Nobody =>
    pc[pending[i]] = "waiting" /\ IdOf[pending[i]] = i

\* The table of forward() does not leak, whatever ids the clients choose.
THEOREM TableDoesNotLeak == Spec => []EntriesAreAwaited
<1>1. Init => TypeOK /\ ChildInv /\ EntryInv
  BY StdioAssumption, TypeInit, ChildInit, EntryInit
<1>2. TypeOK /\ ChildInv /\ EntryInv /\ [Next]_vars => (TypeOK /\ ChildInv /\ EntryInv)'
  BY StdioAssumption, TypeStep, ChildStepInv, EntryStep
<1>3. EntryInv => EntriesAreAwaited
  BY DEF EntryInv, EntriesAreAwaited
<1> QED BY <1>1, <1>2, <1>3, PTL DEF Spec

\* With an id of its own for each request the table is exact.
THEOREM TableStaysExact ==
  ASSUME DistinctIds PROVE Spec => []TableIsExact
<1>1. Init => TypeOK /\ ChildInv /\ EntryInv /\ OpenInv
  BY StdioAssumption, TypeInit, ChildInit, EntryInit
<1>2. TypeOK /\ ChildInv /\ EntryInv /\ OpenInv /\ [Next]_vars
      => (TypeOK /\ ChildInv /\ EntryInv /\ OpenInv)'
  BY DistinctIds, StdioAssumption, TypeStep, ChildStepInv, EntryStep
<1>3. EntryInv /\ OpenInv => TableIsExact
  BY DEF EntryInv, OpenInv, TableIsExact
<1> QED BY <1>1, <1>2, <1>3, PTL DEF Spec

-----------------------------------------------------------------------------
(* Right answers.  What the child prints carries the id of the request it       *)
(* answers, so with ids of their own a future is resolved by its own answer.    *)

OwnIds == DistinctIds /\ ServerIdsApart

LineInv ==
  \A g \in Children : \A k \in 1..Len(stdout[g]) :
    /\ stdout[g][k].of \in Calls => stdout[g][k].id = IdOf[stdout[g][k].of]
    /\ stdout[g][k].of \notin Calls => stdout[g][k].id \in ServerIds \cup {NoId}

AnswerInv ==
  /\ \A c \in Calls : answer[c] # "none" => pc[c] = "done"
  /\ \A c \in Calls : answer[c] = "response" => future[c] = "result"
  /\ \A c \in Calls : future[c] = "result" => result[c] = c

LEMMA LineAppend ==
  ASSUME StdioAssumption, TypeOK, LineInv, NEW g \in Children, NEW line,
         line.of \in Calls => line.id = IdOf[line.of],
         line.of \notin Calls => line.id \in ServerIds \cup {NoId},
         stdout' = [stdout EXCEPT ![g] = Append(@, line)]
  PROVE  LineInv'
<1> SUFFICES ASSUME NEW h \in Children, NEW k \in 1..Len(stdout'[h])
             PROVE  \/ k \in 1..Len(stdout[h]) /\ stdout'[h][k] = stdout[h][k]
                    \/ stdout'[h][k] = line
  BY DEF LineInv
<1>1. stdout[h] \in Seq([id : Ids \cup {NoId}, of : Calls \cup {Server}, fatal : BOOLEAN])
  BY DEF TypeOK
<1>2. stdout'[h] = IF h = g THEN Append(stdout[h], line) ELSE stdout[h]
  BY DEF TypeOK
<1> QED BY <1>1, <1>2

LEMMA LineTail ==
  ASSUME TypeOK, LineInv, NEW g \in Children, stdout[g] # << >>,
         stdout' = [stdout EXCEPT ![g] = Tail(@)]
  PROVE  /\ LineInv'
         /\ 1 \in 1..Len(stdout[g]) /\ Head(stdout[g]) = stdout[g][1]
<1>1. \A h \in Children :
        stdout[h] \in Seq([id : Ids \cup {NoId}, of : Calls \cup {Server}, fatal : BOOLEAN])
  BY DEF TypeOK
<1>2. 1 \in 1..Len(stdout[g]) /\ Head(stdout[g]) = stdout[g][1]
  BY <1>1
<1>3. \A h \in Children : stdout'[h] = IF h = g THEN Tail(stdout[h]) ELSE stdout[h]
  BY DEF TypeOK
<1>4. \A h \in Children : \A k \in 1..Len(stdout'[h]) :
        \/ k \in 1..Len(stdout[h]) /\ stdout'[h][k] = stdout[h][k]
        \/ k + 1 \in 1..Len(stdout[h]) /\ stdout'[h][k] = stdout[h][k + 1]
  BY <1>1, <1>3
<1> QED BY <1>2, <1>4 DEF LineInv

LEMMA LineStep ==
  ASSUME StdioAssumption, TypeOK, ChildInv, LineInv, [Next]_vars
  PROVE  LineInv'
<1>1. ASSUME UNCHANGED stdout PROVE LineInv'
  BY <1>1 DEF LineInv
<1>2. ASSUME NEW c \in Calls, Enter(c) \/ Queue(c) \/ CallStep(c) \/ TimerFires(c)
      PROVE  LineInv'
  <2>1. CASE Collect(c) \/ TimerFires(c)
    BY <1>1, <2>1 DEF Collect, TimerFires, childVars
  <2> QED BY <1>1, <1>2, <2>1, CallMoves DEF CallStep
<1>3. ASSUME NEW g \in Children, ChildStep(g) \/ Reap(g) \/ Flush(g) \/ ReaderStep(g)
      PROVE  LineInv'
  <2>1. CASE \E c \in Calls : Respond(g, c)
    <3>1. PICK c \in Calls : PutLine(g, Message(IdOf[c], c))
      BY <2>1 DEF Respond
    <3> QED BY <3>1, LineAppend DEF PutLine, Message
  <2>2. CASE Chatter(g)
    <3>1. CASE \E i \in ServerIds : PutLine(g, Message(i, Server))
      BY <3>1, LineAppend DEF PutLine, Message, StdioAssumption
    <3>2. CASE PutLine(g, FatalLine)
      BY <3>2, LineAppend DEF PutLine, FatalLine, StdioAssumption
    <3> QED BY <2>2, <3>1, <3>2 DEF Chatter
  <2>3. CASE ReadMessage(g) \/ ReadFatal(g)
    BY <2>3, LineTail DEF ReadMessage, ReadFatal
  <2>4. CASE TakeLine(g) \/ Die(g) \/ Reap(g) \/ Flush(g) \/ ReadEnd(g)
    BY <1>1, <2>4 DEF TakeLine, Die, Reap, Flush, ReadEnd, childVars
  <2> QED BY <1>3, <2>1, <2>2, <2>3, <2>4 DEF ChildStep, ReaderStep
<1>4. CASE Close \/ UNCHANGED vars
  BY <1>1, <1>4 DEF Close, vars, childVars
<1> QED BY <1>2, <1>3, <1>4 DEF Next

LEMMA AnswerMoves ==
  ASSUME StdioAssumption, TypeOK, AnswerInv, NEW c \in Calls,
         pc[c] \in {"new", "lock", "starting", "drain"}, UNCHANGED result,
         Moved(c) \/ Registered(c)
  PROVE  AnswerInv'
<1>1. CASE Moved(c)
  BY <1>1 DEF Moved, AnswerInv, TypeOK
<1>2. CASE Registered(c)
  <2>1. /\ pc'[c] = "waiting" /\ future'[c] = "open" /\ answer' = answer
        /\ \A d \in Calls : d # c => pc'[d] = pc[d] /\ future'[d] = future[d]
    BY <1>2 DEF Registered, TypeOK
  <2>2. answer[c] = "none"
    BY DEF AnswerInv
  <2> QED BY <2>1, <2>2 DEF AnswerInv
<1> QED BY <1>1, <1>2

LEMMA AnswerReader ==
  ASSUME StdioAssumption, OwnIds, TypeOK, EntryInv, LineInv, AnswerInv,
         NEW g \in Children, ReadMessage(g) \/ ReadFatal(g)
  PROVE  AnswerInv'
<1>1. CASE ReadMessage(g)
  <2> DEFINE m == Head(stdout[g])
             c == Addressee(m.id)
  <2>1. stdout[g] # << >> /\ stdout' = [stdout EXCEPT ![g] = Tail(@)]
    BY <1>1 DEF ReadMessage
  <2>2. /\ m.of \in Calls => m.id = IdOf[m.of]
        /\ m.of \notin Calls => m.id \in ServerIds \cup {NoId}
    BY <2>1, LineTail DEF LineInv
  <2>3. /\ \/ /\ c # Nobody /\ future[c] = "open"
              /\ future' = [future EXCEPT ![c] = "result"]
              /\ result' = [result EXCEPT ![c] = m.of]
           \/ UNCHANGED <<future, result>>
        /\ UNCHANGED <<pc, answer>>
    BY <1>1 DEF ReadMessage, Resolve
  <2>a. c # Nobody => m.id \in Ids /\ c = pending[m.id] /\ c \in Calls
    BY DEF Addressee, TypeOK
  <2> HIDE DEF m, c
  <2>4. c # Nobody => m.id \in Ids /\ c \in Calls /\ IdOf[c] = m.id /\ pc[c] = "waiting"
    BY <2>a DEF EntryInv
  <2>5. c # Nobody => m.of = c
    BY <2>2, <2>4 DEF OwnIds, DistinctIds, ServerIdsApart, StdioAssumption
  <2>6. CASE UNCHANGED <<future, result>>
    BY <2>3, <2>6 DEF AnswerInv
  <2>7. CASE /\ c # Nobody /\ future' = [future EXCEPT ![c] = "result"]
             /\ result' = [result EXCEPT ![c] = c]
    BY <2>3, <2>4, <2>7 DEF AnswerInv, TypeOK
  <2> QED BY <2>3, <2>5, <2>6, <2>7
<1>2. CASE ReadFatal(g)
  BY <1>2 DEF ReadFatal, FuturesFailed, AnswerInv
<1> QED BY <1>1, <1>2

LEMMA AnswerStep ==
  ASSUME StdioAssumption, OwnIds, TypeOK, ChildInv, EntryInv, LineInv, AnswerInv,
         [Next]_vars
  PROVE  AnswerInv'
<1>1. ASSUME NEW c \in Calls, Enter(c) \/ Queue(c) \/ CallStep(c) \/ TimerFires(c)
      PROVE  AnswerInv'
  <2>1. CASE TimerFires(c)
    BY <2>1 DEF TimerFires, AnswerInv, TypeOK
  <2>2. CASE Collect(c)
    <3>1. PICK a \in {"response", "failed", "timeout"} :
            /\ a = "response" => future[c] = "result"
            /\ pc' = [pc EXCEPT ![c] = "done"] /\ answer' = [answer EXCEPT ![c] = a]
            /\ UNCHANGED <<future, result>>
      BY <2>2 DEF Collect, Return
    <3> QED BY <3>1 DEF AnswerInv, TypeOK
  <2> QED BY <1>1, <2>1, <2>2, CallMoves, AnswerMoves DEF CallStep
<1>2. ASSUME NEW g \in Children, ChildStep(g) \/ Reap(g) \/ Flush(g) \/ ReaderStep(g)
      PROVE  AnswerInv'
  <2>1. CASE ReadMessage(g) \/ ReadFatal(g)
    BY <2>1, AnswerReader
  <2>2. CASE Elsewhere
    BY <2>2 DEF Elsewhere, AnswerInv
  <2> QED BY <1>2, <2>1, <2>2, OtherSteps DEF ReaderStep
<1>3. CASE Close \/ UNCHANGED vars
  BY <1>3 DEF Close, vars, AnswerInv, callVars
<1> QED BY <1>1, <1>2, <1>3 DEF Next

LEMMA AnswerInit == StdioAssumption /\ Init => LineInv /\ AnswerInv
<1>1. Len(<< >>) = 0
  OBVIOUS
<1> QED BY <1>1 DEF StdioAssumption, Init, LineInv, AnswerInv

\* No answer is ever given to the wrong call, whatever the order of answers,
\* timeouts, crashes and restarts.
THEOREM RightAnswerAlways ==
  ASSUME OwnIds PROVE Spec => []RightAnswer
<1> DEFINE Inv == TypeOK /\ ChildInv /\ EntryInv /\ LineInv /\ AnswerInv
<1>1. Init => Inv
  BY StdioAssumption, TypeInit, ChildInit, EntryInit, AnswerInit
<1>2. Inv /\ [Next]_vars => Inv'
  BY OwnIds, StdioAssumption, TypeStep, ChildStepInv, EntryStep, LineStep, AnswerStep
<1>3. Inv => RightAnswer
  BY DEF AnswerInv, RightAnswer
<1> QED BY <1>1, <1>2, <1>3, PTL DEF Spec

-----------------------------------------------------------------------------
(* Lost answers.  A call that waits is found under the id of its answer, so the *)
(* reader can only drop the answer of a call that drain() still suspends.       *)

\* What one step may drop.
DropsInDrain == \A c \in lost' \ lost : pc[c] = "drain" /\ paused[via[c]]

LEMMA DropStep ==
  ASSUME StdioAssumption, TypeOK, ChildInv, EntryInv, OpenInv, LineInv, [Next]_vars
  PROVE  DropsInDrain
<1>1. ASSUME NEW g \in Children, ReadMessage(g) PROVE DropsInDrain
  <2> DEFINE m == Head(stdout[g])
  <2>1. /\ stdout[g] # << >> /\ stdout' = [stdout EXCEPT ![g] = Tail(@)]
        /\ Resolve(m.id, m.of)
        /\ lost' = lost \cup {c \in Calls : c = m.of /\ CountsOnAnswer(c) /\ result'[c] # c}
        /\ \A c \in Calls : ~IsResumed(c)
    BY <1>1 DEF ReadMessage, MayRead
  <2>2. m.of \in Calls => m.id = IdOf[m.of]
    <3>1. 1 \in 1..Len(stdout[g]) /\ m = stdout[g][1]
      BY <2>1, LineTail
    <3> HIDE DEF m
    <3> QED BY <3>1 DEF LineInv
  <2> HIDE DEF m
  <2>3. ASSUME NEW c \in Calls, c = m.of, pc[c] = "waiting", future[c] = "open"
        PROVE  result'[c] = c
    <3>1. pending[IdOf[c]] = c /\ IdOf[c] \in Ids /\ c # Nobody
      BY <2>3 DEF OpenInv, EntryInv, StdioAssumption
    <3>2. Addressee(m.id) = c
      BY <2>2, <2>3, <3>1 DEF Addressee
    <3> QED BY <2>1, <2>3, <3>1, <3>2 DEF Resolve, TypeOK
  <2>4. ASSUME NEW c \in lost' \ lost PROVE pc[c] = "drain" /\ paused[via[c]]
    <3>1. c \in Calls /\ c = m.of /\ CountsOnAnswer(c) /\ result'[c] # c
      BY <2>1, <2>4
    <3>2. pc[c] = "drain"
      BY <2>3, <3>1 DEF CountsOnAnswer
    <3> QED BY <2>1, <3>1, <3>2 DEF IsResumed
  <2> QED BY <2>4 DEF DropsInDrain
<1>2. ASSUME NEW c \in Calls, Enter(c) \/ Queue(c) \/ CallStep(c) \/ TimerFires(c)
      PROVE  lost' = lost
  <2>1. CASE Collect(c) \/ TimerFires(c)
    BY <2>1 DEF Collect, TimerFires, histVars
  <2> QED BY <1>2, <2>1, CallMoves DEF CallStep
<1>3. ASSUME NEW g \in Children, ChildStep(g) \/ Reap(g) \/ Flush(g) \/ ReadEnd(g)
      PROVE  lost' = lost
  BY <1>3, OtherSteps DEF Elsewhere
<1>4. ASSUME NEW g \in Children, ReadFatal(g) PROVE lost' = lost
  BY <1>4 DEF ReadFatal
<1>5. CASE Close \/ UNCHANGED vars
  BY <1>5 DEF Close, vars, histVars, DropsInDrain
<1>6. CASE lost' = lost
  BY <1>6 DEF DropsInDrain
<1> HIDE DEF Children
<1> QED BY <1>1, <1>2, <1>3, <1>4, <1>5, <1>6 DEF Next, ReaderStep

\* However full the pipe is, and whatever happens to the table, to other calls and to
\* the child: an answer is dropped only while drain() suspends its call.  Ids must be
\* the callers' own.
THEOREM AnswersAreDroppedOnlyInDrain ==
  ASSUME DistinctIds PROVE Spec => DroppedOnlyInDrain
<1> DEFINE Inv == TypeOK /\ ChildInv /\ EntryInv /\ OpenInv /\ LineInv
<1>1. Init => Inv
  BY StdioAssumption, TypeInit, ChildInit, EntryInit, AnswerInit
<1>2. Inv /\ [Next]_vars => Inv'
  BY DistinctIds, StdioAssumption, TypeStep, ChildStepInv, EntryStep, LineStep
<1>3. Inv /\ [Next]_vars => [DropsInDrain]_vars
  BY StdioAssumption, DropStep
<1>4. Spec => [][DropsInDrain]_vars
  BY <1>1, <1>2, <1>3, PTL DEF Spec
<1> QED BY <1>4 DEF DroppedOnlyInDrain, DropsInDrain

-----------------------------------------------------------------------------
(* What a caller of forward() may count on.  A call enters once, only while the *)
(* backend is open, and what it returned stays what it was.                     *)

\* Which child a call wrote to is set by its own segments only.
LEMMA ViaMoves ==
  ASSUME StdioAssumption, TypeOK, NEW c \in Calls, NEW d \in Calls \ {c},
         Enter(c) \/ Queue(c) \/ CallStep(c) \/ TimerFires(c)
  PROVE  via'[d] = via[d]
<1>1. ASSUME NEW g, NEW alive, Send(c, g, alive) PROVE via'[d] = via[d]
  BY <1>1 DEF Send, TypeOK
<1>2. ASSUME WithLock(c) PROVE via'[d] = via[d]
  BY <1>1, <1>2 DEF WithLock
<1> QED BY <1>1, <1>2 DEF Enter, Queue, CallStep, Wake, Started, StartFails, Drained,
                          DrainBroken, Collect, TimerFires

LEMMA CallSegments ==
  ASSUME StdioAssumption, TypeOK, ChildInv, NEW c \in Calls,
         Enter(c) \/ Queue(c) \/ CallStep(c) \/ TimerFires(c)
  PROVE  /\ Enter(c) \/ Queue(c) => pc[c] = "new" /\ ~closed
         /\ CallStep(c) \/ TimerFires(c) => pc[c] # "new"
         /\ pc[c] # "done" /\ pc'[c] # "new" /\ UNCHANGED closed
         /\ \A d \in Calls \ {c} :
              pc'[d] = pc[d] /\ answer'[d] = answer[d] /\ via'[d] = via[d]
<1>0. \A d \in Calls \ {c} : via'[d] = via[d]
  BY ViaMoves
<1>1. Enter(c) \/ Queue(c) => pc[c] = "new" /\ ~closed
  BY DEF Enter, Queue
<1>2. UNCHANGED closed
  BY DEF Enter, Queue, CallStep, Wake, Started, StartFails, Drained, DrainBroken,
         Collect, TimerFires, WithLock, histVars
<1>3. CASE TimerFires(c) \/ Collect(c)
  <2>1. /\ pc[c] = "waiting"
        /\ \/ UNCHANGED <<pc, answer>>
           \/ \E a : Return(c, a)
    BY <1>3 DEF TimerFires, Collect
  <2>2. CASE UNCHANGED <<pc, answer>>
    BY <1>0, <1>1, <1>2, <2>1, <2>2
  <2>3. CASE \E a : Return(c, a)
    BY <1>0, <1>1, <1>2, <2>1, <2>3 DEF Return, TypeOK
  <2> QED BY <2>1, <2>2, <2>3
<1>4. CASE \/ Enter(c) \/ Queue(c) \/ Wake(c) \/ Started(c) \/ StartFails(c)
           \/ Drained(c) \/ DrainBroken(c)
  <2>1. /\ pc[c] \in {"new", "lock", "starting", "drain"}
        /\ Moved(c) \/ Registered(c)
    BY <1>4, CallMoves
  <2>2. pc'[c] # "new" /\ \A d \in Calls \ {c} : pc'[d] = pc[d] /\ answer'[d] = answer[d]
    BY <2>1 DEF Moved, Registered, TypeOK
  <2>3. ASSUME Wake(c) PROVE pc[c] # "new"
    <3>1. lockq # << >> /\ Head(lockq) = c
      BY <2>3 DEF Wake
    <3>2. 1 \in 1..Len(lockq) /\ lockq[1] = c
      BY <3>1 DEF TypeOK
    <3> QED BY <3>2 DEF ChildInv, QueueInv
  <2>4. CallStep(c) \/ TimerFires(c) => pc[c] # "new"
    BY <2>3 DEF CallStep, TimerFires, Started, StartFails, Drained, DrainBroken,
                IsResumed, Collect
  <2>5. pc[c] # "done"
    BY <2>1
  <2> QED BY <1>0, <1>1, <1>2, <2>2, <2>4, <2>5
<1> QED BY <1>3, <1>4 DEF CallStep

\* The other steps touch no call.
LEMMA OtherSegments ==
  ASSUME NEW g \in Children, ChildStep(g) \/ Reap(g) \/ Flush(g) \/ ReaderStep(g)
  PROVE  pc' = pc /\ answer' = answer /\ via' = via /\ closed' = closed
BY DEF ChildStep, TakeLine, Respond, Chatter, PutLine, Die, Reap, Flush, ReaderStep,
       ReadMessage, ReadFatal, ReadEnd, ChildOnly, callVars, histVars

LEMMA CloseSegment == Close => pc' = pc /\ answer' = answer /\ via' = via
BY DEF Close, callVars


=============================================================================

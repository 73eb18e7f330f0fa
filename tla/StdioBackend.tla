----------------------------- MODULE StdioBackend -----------------------------
(***************************************************************************)
(* StdioBackend (behavry_proxy/proxy/backends/stdio.py): many calls of      *)
(* forward() share one child process, one table of pending futures and one  *)
(* reader task.  All of it runs in one asyncio thread, so an action is the  *)
(* code between two suspensions; the child process is concurrent with it.   *)
(*                                                                         *)
(* A line on a pipe is abstracted to the call it belongs to.  What asyncio  *)
(* does is modelled from how the code uses it: Lock is a FIFO lock whose    *)
(* uncontended acquire does not suspend, drain() suspends only while the    *)
(* transport is paused, wait_for() may time out a future that was resolved  *)
(* but not yet collected (Python 3.12 and later).                           *)
(***************************************************************************)
EXTENDS Integers, Sequences, FiniteSets

CONSTANTS
  Calls,      \* calls of forward()
  Ids,        \* JSON-RPC ids
  IdOf,       \* IdOf[c]: the id the client chose, NoId for a notification
  NoId,       \* stands for id = None
  Server,     \* stands for the child as the author of a message of its own
  Nobody,     \* stands for None
  ServerIds,  \* ids the child uses in requests it sends to the client
  MaxStarts,  \* bound of the model: how often a child can be started
  MaxChatter, \* bound of the model: messages of its own one child sends
  FatalLines, \* the child may print a line that ends the reader task
  PipeRoom,   \* lines the pipe to the child's stdin holds
  HighWater,  \* buffered lines above which the transport pauses its writers
  LowWater    \* buffered lines at which it resumes them

ASSUME StdioAssumption ==
  /\ IdOf \in [Calls -> Ids \cup {NoId}]
  /\ NoId \notin Ids /\ ServerIds \subseteq Ids
  /\ Server \notin Calls /\ Nobody \notin Calls /\ Server # Nobody
  /\ MaxStarts \in Nat /\ MaxChatter \in Nat /\ FatalLines \in BOOLEAN
  /\ PipeRoom \in Nat /\ HighWater \in Nat /\ LowWater \in 0..HighWater

Children == 1..MaxStarts

VARIABLES
  pc,       \* pc[c]: where the task of call c is suspended
  lock,     \* holder of _lock, or Nobody
  lockq,    \* calls waiting for _lock, first come first served
  current,  \* _process: the number of the child, 0 for None
  child,    \* child[g]: absent, alive, dead (not yet reaped), reaped
  reader,   \* reader[g]: state of the reader task started with child g
  via,      \* via[c]: the child call c wrote to
  buffer,   \* buffer[g]: lines in the transport of the stdin of g
  paused,   \* paused[g]: writers of that transport are suspended by drain()
  stdin,    \* stdin[g]: lines in the pipe to g
  work,     \* work[g]: calls that g has read and not answered
  stdout,   \* stdout[g]: lines of g that the reader has not read
  chatter,  \* chatter[g]: messages of its own g has sent
  pending,  \* _pending: id -> call whose future is registered, or Nobody
  future,   \* future[c]: none, open, result, exception, cancelled
  result,   \* result[c]: author of the message that resolved the future of c
  answer,   \* answer[c]: what forward() returned
  lost,     \* history: calls whose answer was read and dropped while they wait
  closed    \* close() was called

callVars  == <<pc, via, future, result, answer>>
lockVars  == <<lock, lockq>>
childVars == <<buffer, paused, stdin, work, stdout, chatter>>
procVars  == <<current, child, reader>>
histVars  == <<lost, closed>>
vars == <<callVars, lockVars, childVars, procVars, histVars, pending>>

Init ==
  /\ pc = [c \in Calls |-> "new"]
  /\ lock = Nobody /\ lockq = << >>
  /\ current = 0
  /\ child = [g \in Children |-> "absent"]
  /\ reader = [g \in Children |-> "none"]
  /\ via = [c \in Calls |-> 0]
  /\ buffer = [g \in Children |-> << >>]
  /\ paused = [g \in Children |-> FALSE]
  /\ stdin = [g \in Children |-> << >>]
  /\ work = [g \in Children |-> {}]
  /\ stdout = [g \in Children |-> << >>]
  /\ chatter = [g \in Children |-> 0]
  /\ pending = [i \in Ids |-> Nobody]
  /\ future = [c \in Calls |-> "none"]
  /\ result = [c \in Calls |-> Nobody]
  /\ answer = [c \in Calls |-> "none"]
  /\ lost = {}
  /\ closed = FALSE

-----------------------------------------------------------------------------
(* The end of a call, and the part of forward() behind drain(). *)
Return(c, a) ==
  /\ pc' = [pc EXCEPT ![c] = "done"]
  /\ answer' = [answer EXCEPT ![c] = a]

\* A notification is not waited for; otherwise the future goes under the id of
\* the request, in the place of any future that is there.
Register(c) ==
  IF IdOf[c] = NoId
  THEN /\ Return(c, "accepted")
       /\ UNCHANGED <<pending, future>>
  ELSE /\ pending' = [pending EXCEPT ![IdOf[c]] = c]
       /\ future' = [future EXCEPT ![c] = "open"]
       /\ pc' = [pc EXCEPT ![c] = "waiting"]
       /\ UNCHANGED answer

\* proc.stdin.write(line): straight to the pipe when nothing is ahead of it.
Write(c, g) ==
  IF buffer[g] = << >> /\ Len(stdin[g]) < PipeRoom
  THEN /\ stdin' = [stdin EXCEPT ![g] = Append(@, c)]
       /\ UNCHANGED <<buffer, paused>>
  ELSE /\ buffer' = [buffer EXCEPT ![g] = Append(@, c)]
       /\ paused' = [paused EXCEPT ![g] = @ \/ Len(buffer[g]) + 1 > HighWater]
       /\ UNCHANGED stdin

\* The segment from the return of _ensure_process() to the next suspension.  A
\* write to a child that is gone makes drain() raise.
Send(c, g, alive) ==
  /\ via' = [via EXCEPT ![c] = g]
  /\ UNCHANGED <<result, work, stdout, chatter>>
  /\ IF ~alive
     THEN /\ Return(c, "write_error")
          /\ UNCHANGED <<pending, future, buffer, paused, stdin>>
     ELSE /\ Write(c, g)
          /\ IF paused'[g]
             THEN /\ pc' = [pc EXCEPT ![c] = "drain"]
                  /\ UNCHANGED <<pending, future, answer>>
             ELSE Register(c)

-----------------------------------------------------------------------------
(* _ensure_process() and _start_process() *)
NeedsStart == current = 0 \/ child[current] = "reaped"

\* Under the lock: start a child or go on with the one there is.
WithLock(c) ==
  /\ IF NeedsStart
     THEN /\ lock' = c
          /\ pc' = [pc EXCEPT ![c] = "starting"]
          /\ UNCHANGED <<via, future, result, answer, pending, childVars>>
     ELSE /\ lock' = Nobody
          /\ Send(c, current, child[current] = "alive")
  /\ UNCHANGED <<procVars, histVars>>

\* Slip: the process is started without asking for the lock.
LockIgnored == TRUE
LockFree == lock = Nobody /\ lockq = << >>

Enter(c) ==
  /\ pc[c] = "new" /\ ~closed /\ LockFree
  /\ WithLock(c)
  /\ UNCHANGED lockq

Queue(c) ==
  /\ pc[c] = "new" /\ ~closed /\ ~LockFree
  /\ pc' = [pc EXCEPT ![c] = "lock"]
  /\ lockq' = Append(lockq, c)
  /\ UNCHANGED <<via, future, result, answer, lock, childVars, procVars, pending,
                 histVars>>

Wake(c) ==
  /\ lock = Nobody /\ lockq # << >> /\ Head(lockq) = c
  /\ lockq' = Tail(lockq)
  /\ WithLock(c)

ReadersAfterStart(g) ==
  [h \in Children |->
     IF h = g THEN "running"
     ELSE IF h = current /\ reader[h] = "running" THEN "cancelled"
     ELSE reader[h]]

\* create_subprocess_exec returned: the reader of the child before is cancelled,
\* the lock released and the line written without a suspension.
Started(c) ==
  /\ pc[c] = "starting"
  /\ current < MaxStarts
  /\ LET g == current + 1 IN
     /\ current' = g
     /\ child' = [child EXCEPT ![g] = "alive"]
     /\ reader' = ReadersAfterStart(g)
     /\ Send(c, g, TRUE)
  /\ lock' = Nobody
  /\ UNCHANGED <<lockq, histVars>>

\* Slip: the lock is not released when the start raises.
LockKept == lock
LockAfterError == Nobody

StartFails(c) ==
  /\ pc[c] = "starting"
  /\ Return(c, "start_error")
  /\ lock' = LockAfterError
  /\ UNCHANGED <<via, future, result, lockq, childVars, procVars, pending, histVars>>

-----------------------------------------------------------------------------
(* drain() and the transport *)
Flush(g) ==
  /\ child[g] = "alive"
  /\ buffer[g] # << >> /\ Len(stdin[g]) < PipeRoom
  /\ stdin' = [stdin EXCEPT ![g] = Append(@, Head(buffer[g]))]
  /\ buffer' = [buffer EXCEPT ![g] = Tail(@)]
  /\ paused' = [paused EXCEPT ![g] = @ /\ Len(buffer[g]) - 1 > LowWater]
  /\ UNCHANGED <<callVars, lockVars, procVars, work, stdout, chatter, pending,
                 histVars>>

IsResumed(c) == pc[c] = "drain" /\ ~paused[via[c]]

Drained(c) ==
  /\ IsResumed(c)
  /\ Register(c)
  /\ UNCHANGED <<via, result, lockVars, childVars, procVars, histVars>>

DrainBroken(c) ==
  /\ pc[c] = "drain" /\ paused[via[c]] /\ child[via[c]] # "alive"
  /\ Return(c, "write_error")
  /\ UNCHANGED <<via, future, result, lockVars, childVars, procVars, pending, histVars>>

-----------------------------------------------------------------------------
(* The child process (external): it reads its lines in order and answers each *)
(* request in its own time, in any order, if it answers at all.               *)
ChildOnly == UNCHANGED <<callVars, lockVars, current, reader, pending, histVars>>

Message(i, author) == [id |-> i, of |-> author, fatal |-> FALSE]
FatalLine == [id |-> NoId, of |-> Server, fatal |-> TRUE]

TakeLine(g) ==
  /\ child[g] = "alive" /\ stdin[g] # << >>
  /\ stdin' = [stdin EXCEPT ![g] = Tail(@)]
  /\ work' = [work EXCEPT ![g] = IF IdOf[Head(stdin[g])] = NoId THEN @
                                 ELSE @ \cup {Head(stdin[g])}]
  /\ ChildOnly /\ UNCHANGED <<child, buffer, paused, stdout, chatter>>

PutLine(g, line) ==
  /\ child[g] = "alive"
  /\ stdout' = [stdout EXCEPT ![g] = Append(@, line)]
  /\ ChildOnly /\ UNCHANGED <<child, buffer, paused, stdin>>

Respond(g, c) ==
  /\ c \in work[g]
  /\ PutLine(g, Message(IdOf[c], c))
  /\ work' = [work EXCEPT ![g] = @ \ {c}]
  /\ UNCHANGED chatter

\* A request of the server to the client, or a line no JSON-RPC reader can take:
\* longer than the stream limit, or JSON that is no object.
Chatter(g) ==
  /\ chatter[g] < MaxChatter
  /\ \/ \E i \in ServerIds : PutLine(g, Message(i, Server))
     \/ FatalLines /\ PutLine(g, FatalLine)
  /\ chatter' = [chatter EXCEPT ![g] = @ + 1]
  /\ UNCHANGED work

Die(g) ==
  /\ child[g] = "alive"
  /\ child' = [child EXCEPT ![g] = "dead"]
  /\ buffer' = [buffer EXCEPT ![g] = << >>]
  /\ stdin' = [stdin EXCEPT ![g] = << >>]
  /\ work' = [work EXCEPT ![g] = {}]
  /\ ChildOnly /\ UNCHANGED <<paused, stdout, chatter>>

\* The event loop learns the exit status: returncode is no longer None.
Reap(g) ==
  /\ child[g] = "dead"
  /\ child' = [child EXCEPT ![g] = "reaped"]
  /\ ChildOnly /\ UNCHANGED childVars

-----------------------------------------------------------------------------
(* _read_responses().  Tasks that drain() has resumed were scheduled before any *)
(* line that the reader has not read yet, and run first.                        *)
MayRead(g) == reader[g] = "running" /\ \A c \in Calls : ~IsResumed(c)

\* A call that is still going to wait for its answer, or waits for it.
CountsOnAnswer(c) ==
  pc[c] = "drain" \/ (pc[c] = "waiting" /\ future[c] = "open")

\* Slip: answers are taken to come in some order of the table, not by id.
AnyPending(i) ==
  IF \E j \in Ids : pending[j] # Nobody
  THEN pending[CHOOSE j \in Ids : pending[j] # Nobody] ELSE Nobody

Addressee(i) == IF i \in Ids THEN pending[i] ELSE Nobody

Resolve(i, author) ==
  LET c == Addressee(i) IN
  /\ pending' = [j \in Ids |-> IF j = i THEN Nobody ELSE pending[j]]
  /\ IF c # Nobody /\ future[c] = "open"
     THEN /\ future' = [future EXCEPT ![c] = "result"]
          /\ result' = [result EXCEPT ![c] = author]
     ELSE UNCHANGED <<future, result>>

ReadMessage(g) ==
  /\ MayRead(g) /\ stdout[g] # << >> /\ ~Head(stdout[g]).fatal
  /\ Resolve(Head(stdout[g]).id, Head(stdout[g]).of)
  /\ stdout' = [stdout EXCEPT ![g] = Tail(@)]
  /\ lost' = lost \cup
       {c \in Calls : c = Head(stdout[g]).of /\ CountsOnAnswer(c) /\ result'[c] # c}
  /\ UNCHANGED <<pc, via, answer, lockVars, buffer, paused, stdin, work, chatter,
                 current, child, reader, closed>>

FuturesFailed ==
  [c \in Calls |-> IF future[c] = "open" /\ \E i \in Ids : pending[i] = c
                   THEN "exception" ELSE future[c]]

\* The except branch: every pending call fails and the task ends, although the
\* child goes on.
ReadFatal(g) ==
  /\ MayRead(g) /\ stdout[g] # << >> /\ Head(stdout[g]).fatal
  /\ stdout' = [stdout EXCEPT ![g] = Tail(@)]
  /\ reader' = [reader EXCEPT ![g] = "failed"]
  /\ future' = FuturesFailed
  /\ pending' = [i \in Ids |-> Nobody]
  /\ UNCHANGED <<pc, via, result, answer, lockVars, buffer, paused, stdin, work,
                 chatter, current, child, lost, closed>>

\* End of file: the loop ends and tells nobody.
ReadEnd(g) ==
  /\ MayRead(g) /\ stdout[g] = << >> /\ child[g] # "alive"
  /\ reader' = [reader EXCEPT ![g] = "ended"]
  /\ UNCHANGED <<callVars, lockVars, childVars, current, child, pending, histVars>>

-----------------------------------------------------------------------------
(* wait_for(future, timeout) *)
\* Slip: the future is awaited without a timeout.
TimerNever(c) == FALSE /\ UNCHANGED vars

TimerFires(c) ==
  /\ pc[c] = "waiting" /\ future[c] # "cancelled"
  /\ future' = [future EXCEPT ![c] = "cancelled"]
  /\ result' = [result EXCEPT ![c] = Nobody]
  /\ UNCHANGED <<pc, via, answer, lockVars, childVars, current, child, reader,
                 pending, histVars>>

\* Slip: a timeout leaves its entry in the table.
ForgetNothing(c) == pending
\* Slip: a timeout clears the table.
ForgetAll(c) == [i \in Ids |-> Nobody]
Forget(c) == [pending EXCEPT ![IdOf[c]] = Nobody]

Collect(c) ==
  /\ pc[c] = "waiting"
  /\ \/ future[c] = "result" /\ Return(c, "response") /\ UNCHANGED pending
     \/ future[c] = "exception" /\ Return(c, "failed") /\ UNCHANGED pending
     \/ future[c] = "cancelled" /\ Return(c, "timeout") /\ pending' = Forget(c)
  /\ UNCHANGED <<via, future, result, lockVars, childVars, procVars, histVars>>

\* close(), called at shutdown when the server has finished its requests: the
\* child is terminated and, should it resist for 5 seconds, killed.
Close ==
  /\ ~closed /\ \A c \in Calls : pc[c] \in {"new", "done"}
  /\ closed' = TRUE
  /\ reader' = [g \in Children |-> IF g = current /\ reader[g] = "running"
                                   THEN "cancelled" ELSE reader[g]]
  /\ child' = [g \in Children |-> IF g = current /\ child[g] = "alive"
                                  THEN "dead" ELSE child[g]]
  /\ UNCHANGED <<callVars, lockVars, childVars, current, pending, lost>>

-----------------------------------------------------------------------------
\* What the event loop does for call c once it is able to.
CallStep(c) ==
  \/ Wake(c) \/ Started(c) \/ StartFails(c) \/ Drained(c) \/ DrainBroken(c)
  \/ Collect(c)

ReaderStep(g) == ReadMessage(g) \/ ReadFatal(g) \/ ReadEnd(g)

ChildStep(g) ==
  TakeLine(g) \/ (\E c \in Calls : Respond(g, c)) \/ Chatter(g) \/ Die(g)

Next ==
  \/ \E c \in Calls : Enter(c) \/ Queue(c) \/ CallStep(c) \/ TimerFires(c)
  \/ \E g \in Children : ChildStep(g) \/ Reap(g) \/ Flush(g) \/ ReaderStep(g)
  \/ Close

Spec == Init /\ [][Next]_vars

\* The event loop runs every task that can run, timers expire, starting a child
\* ends one way or the other.  Nothing is assumed of the child.
Fairness ==
  /\ \A c \in Calls : WF_vars(CallStep(c)) /\ WF_vars(TimerFires(c))
  /\ \A g \in Children : WF_vars(ReaderStep(g)) /\ WF_vars(Flush(g))
                         /\ WF_vars(Reap(g))

FairSpec == Spec /\ Fairness

-----------------------------------------------------------------------------
(* Properties *)
\* Every variable has its type; the lock is held only while a child is started.
TypeOK ==
  /\ pc \in [Calls -> {"new", "lock", "starting", "drain", "waiting", "done"}]
  /\ lock \in Calls \cup {Nobody} /\ lockq \in Seq(Calls)
  /\ lock # Nobody => pc[lock] = "starting"
  /\ current \in 0..MaxStarts
  /\ child \in [Children -> {"absent", "alive", "dead", "reaped"}]
  /\ reader \in [Children -> {"none", "running", "ended", "failed", "cancelled"}]
  /\ via \in [Calls -> 0..MaxStarts]
  /\ buffer \in [Children -> Seq(Calls)] /\ paused \in [Children -> BOOLEAN]
  /\ stdin \in [Children -> Seq(Calls)] /\ work \in [Children -> SUBSET Calls]
  /\ stdout \in [Children -> Seq([id : Ids \cup {NoId}, of : Calls \cup {Server},
                                  fatal : BOOLEAN])]
  /\ chatter \in [Children -> 0..MaxChatter]
  /\ pending \in [Ids -> Calls \cup {Nobody}]
  /\ future \in [Calls -> {"none", "open", "result", "exception", "cancelled"}]
  /\ result \in [Calls -> Calls \cup {Server, Nobody}]
  /\ answer \in [Calls -> {"none", "accepted", "response", "start_error",
                           "write_error", "timeout", "failed"}]
  /\ lost \subseteq Calls
  /\ closed \in BOOLEAN

\* Concurrent calls never start two children: at most one child is alive or
\* unreaped, it is the current one, and none is left alive by close().  A reader
\* runs for the current child only: no two tasks resolve futures.
OneChild ==
  /\ \A g \in Children : child[g] \in {"alive", "dead"} => g = current
  /\ \A g \in Children : reader[g] = "running" => g = current
  /\ closed => \A g \in Children : child[g] # "alive"

\* A call returns the answer to its own request, never the one to another call
\* or a message of the server, whatever the order of answers, timeouts, crashes
\* and restarts.
RightAnswer ==
  \A c \in Calls : answer[c] = "response" => result[c] = c

\* The table of pending futures is exact.  It does not leak: an entry belongs to a
\* call that still waits under that very id.  And nothing removes or displaces the
\* future a call waits for: as long as it is open it is registered.
TableIsExact ==
  /\ \A i \in Ids : pending[i] # Nobody =>
       pc[pending[i]] = "waiting" /\ IdOf[pending[i]] = i
  /\ \A c \in Calls :
       pc[c] = "waiting" /\ future[c] = "open" => pending[IdOf[c]] = c

\* The reader drops an answer on one occasion only: drain() still suspends the call,
\* for the child has not read what was written before, and its future is not
\* registered.  Once drain() has ended nothing that happens to the table, to other
\* calls, to their timeouts or to the child costs a call its answer.
DroppedOnlyInDrain ==
  [][\A c \in lost' \ lost : pc[c] = "drain" /\ paused[via[c]]]_vars

\* The call is suspended in drain(), which has no timeout, and waits for a child
\* that lives to read what is on its pipe.
HeldByChild(c) == pc[c] = "drain" /\ paused[via[c]] /\ child[via[c]] = "alive"

\* A call returns, or from some moment on the child holds it in drain() for ever.
\* Nothing else keeps a call: not a child that dies or does not answer, not a start
\* that fails, not the end of the reader, and not another call that is held.  (A call
\* that was made is never new again: to be new or done again and again is to return.)
EveryCallReturns ==
  \A c \in Calls : <>[]HeldByChild(c) \/ []<>(pc[c] \in {"new", "done"})
=============================================================================

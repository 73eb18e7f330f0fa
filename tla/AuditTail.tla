------------------------------- MODULE AuditTail -------------------------------
(* The audit file between two processes: AuditEmitter appends a line per      *)
(* event, tail_audit_file() of the dashboard reads on from where it is and    *)
(* hands what parses to DashboardState.add_event(). A line longer than a page *)
(* may be seen in two parts, and a proxy that is killed leaves the first part.*)
(*                                                                            *)
(* The counters of the dashboard are left out: add_event() compares the type  *)
(* of an event with names that the emitter never writes, so they stay zero.   *)
EXTENDS Naturals, Sequences

CONSTANTS
  MaxShown,  \* max_events: events that the dashboard keeps
  MaxEvents, \* bound: events of all runs of the proxy
  MaxStarts  \* bound: starts of the proxy

ASSUME TailAssumption ==
  MaxShown \in Nat \ {0} /\ MaxEvents \in Nat /\ MaxStarts \in Nat

VARIABLES
  file,    \* the pieces in the file, oldest first
  writer,  \* the proxy: "down", "idle", or in the middle of a line
  emitted, \* number of events that were begun
  starts,  \* number of starts of the proxy: the first creates the file
  tail,    \* the tailer: before it opened the file, reading, or stopped
  pos,     \* number of pieces behind the tailer
  events,  \* DashboardState.events, by number
  added,   \* history: every event handed to add_event(), in order
  cuts     \* history: places where the tailer was when it had read on

writerVars == <<file, writer, emitted, starts>>
tailVars == <<tail, pos, events, added, cuts>>
vars == <<writerVars, tailVars>>

Event == 1..MaxEvents

\* A line is written whole, or cut inside of its object, or before its newline.
Splits == {<<"head", "rest">>, <<"object", "newline">>}
Pieces == [ev : Event, part : {"whole", "head", "rest", "object", "newline"}]
EndsLine(piece) == piece.part \in {"whole", "rest", "newline"}

Init ==
  /\ file = << >> /\ writer = "down" /\ emitted = 0 /\ starts = 0
  /\ tail = "waiting" /\ pos = 0 /\ events = << >> /\ added = << >> /\ cuts = {}

------------------------------------------------------------------------------
(* The emitter.                                                               *)
Opens ==
  /\ writer = "down" /\ starts < MaxStarts
  /\ writer' = "idle"
  /\ starts' = starts + 1
  /\ UNCHANGED <<file, emitted, tailVars>>

Writes(ev, part) == file' = Append(file, [ev |-> ev, part |-> part])

EmitWhole ==
  /\ writer = "idle" /\ emitted < MaxEvents
  /\ emitted' = emitted + 1
  /\ Writes(emitted', "whole")
  /\ UNCHANGED <<writer, starts, tailVars>>

EmitFirst ==
  /\ writer = "idle" /\ emitted < MaxEvents
  /\ emitted' = emitted + 1
  /\ \E split \in Splits : Writes(emitted', split[1])
  /\ writer' = "writing"
  /\ UNCHANGED <<starts, tailVars>>

EmitRest ==
  /\ writer = "writing"
  /\ \E split \in Splits :
       split[1] = file[Len(file)].part /\ Writes(emitted, split[2])
  /\ writer' = "idle"
  /\ UNCHANGED <<emitted, starts, tailVars>>

\* The proxy stops, or is killed in the middle of a line.
Dies ==
  /\ writer # "down"
  /\ writer' = "down"
  /\ UNCHANGED <<file, emitted, starts, tailVars>>

------------------------------------------------------------------------------
(* The dashboard.                                                             *)
\* The file exists from the first start of the proxy on. f.seek(0, 2).
TailOpens ==
  /\ tail = "waiting" /\ starts > 0
  /\ tail' = "reading"
  /\ pos' = Len(file)
  /\ cuts' = {Len(file)}
  /\ UNCHANGED <<writerVars, events, added>>

\* Slip: read() in the place of readline().
AllEnd == Len(file)

\* readline() ends after the first newline, or at the end of the file.
LineEnd ==
  CHOOSE j \in pos + 1 .. Len(file) :
    /\ EndsLine(file[j]) \/ j = Len(file)
    /\ \A i \in pos + 1 .. j - 1 : ~EndsLine(file[i])

\* json.loads(line.strip()) finds one object and nothing else.
Parses(line) ==
  \/ Len(line) = 1 /\ line[1].part \in {"whole", "object"}
  \/ /\ Len(line) = 2 /\ line[1].ev = line[2].ev
     /\ <<line[1].part, line[2].part>> \in Splits

\* Slip: the list is not trimmed.
NewestUntrimmed(evs) == evs

Newest(evs) ==
  IF Len(evs) > MaxShown THEN SubSeq(evs, Len(evs) - MaxShown + 1, Len(evs))
                         ELSE evs

AddEvent(ev) ==
  /\ events' = Newest(Append(events, ev))
  /\ added' = Append(added, ev)

\* Slip: go back to the start of a line that has no newline yet.
AfterUnfinished(j) == IF EndsLine(file[j]) THEN j ELSE pos

\* Slip: go back to the start of a line that does not parse.
AfterUnparsed(j) == IF Parses(SubSeq(file, pos + 1, j)) THEN j ELSE pos

After(j) == j

TailReads ==
  /\ tail = "reading" /\ pos < Len(file)
  /\ LET line == SubSeq(file, pos + 1, LineEnd) IN
     \/ Parses(line) /\ AddEvent(line[1].ev)
     \/ ~Parses(line) /\ UNCHANGED <<events, added>>
  /\ pos' = After(LineEnd)
  /\ cuts' = cuts \cup {After(LineEnd)}
  /\ UNCHANGED <<writerVars, tail>>

\* stop_event is set: Ctrl+C in the dashboard.
TailStops ==
  /\ tail # "stopped"
  /\ tail' = "stopped"
  /\ UNCHANGED <<writerVars, pos, events, added, cuts>>

Next == \/ Opens \/ EmitWhole \/ EmitFirst \/ EmitRest \/ Dies
        \/ TailOpens \/ TailReads \/ TailStops

Spec == Init /\ [][Next]_vars

\* The tailer is a thread that the system schedules.
FairSpec == Spec /\ WF_vars(TailReads)

------------------------------------------------------------------------------
(* Properties.                                                                *)
TypeOK ==
  /\ file \in Seq(Pieces) /\ writer \in {"down", "idle", "writing"}
  /\ emitted \in 0..MaxEvents /\ starts \in 0..MaxStarts
  /\ tail \in {"waiting", "reading", "stopped"} /\ pos \in 0..Len(file)
  /\ events \in Seq(Event) /\ Len(events) <= MaxShown
  /\ added \in Seq(Event) /\ cuts \subseteq 0..Len(file)

\* However lines are cut and reads fall, no event is shown twice, and events are
\* shown in the order in which they were emitted.
EachOnceInOrder == \A i, j \in 1..Len(added) : i < j => added[i] < added[j]

\* The line of ev is pieces i to j: nothing of another line is left before it,
\* and it is complete up to its newline.
LineOf(ev, i, j) ==
  /\ {k \in 1..Len(file) : file[k].ev = ev} = i..j /\ i <= j
  /\ EndsLine(file[j])
  /\ i > 1 => EndsLine(file[i - 1])

\* An event is lost only if the tailer came in the middle of its object, if the
\* proxy died in it, or if it follows one in which the proxy died.
OthersAreAdded ==
  \A ev \in Event, i, j \in 1..Len(file) :
    /\ LineOf(ev, i, j)
    /\ j <= pos /\ \E c \in cuts : c < i
    /\ file[i].part = "head" => i \notin cuts
    => \E k \in 1..Len(added) : added[k] = ev

\* The dashboard follows the file until it is stopped, also past lines that do
\* not parse.
CatchesUp ==
  \A n \in 1..2 * MaxEvents :
    tail = "reading" /\ Len(file) = n ~> pos >= n \/ tail = "stopped"
=============================================================================

---------------------------- MODULE AuditTailProofs ----------------------------
(***************************************************************************)
(* Proofs about AuditTail, for any number of events, starts and deaths of  *)
(* the proxy: what the file looks like, where readline() ends, what was    *)
(* handed to add_event(), and which lines cannot be missed.                *)
(***************************************************************************)
EXTENDS AuditTail, FiniteSetTheorems, SequenceTheorems, TLAPS

-----------------------------------------------------------------------------
(* Where readline() ends. *)

LEMMA Least ==
  ASSUME NEW T \in SUBSET Nat, T # {}
  PROVE  \E x \in T : \A y \in T : x <= y
<1> DEFINE R == StrictSubsetOrdering(Nat)
           Below == {0..n : n \in T}
<1>1. IsWellFoundedOn(R, FiniteSubsetsOf(Nat))
  BY FS_StrictSubsetOrderingWellFounded
<1>2. Below \subseteq FiniteSubsetsOf(Nat) /\ Below # {}
  <2>1. \A n \in T : 0..n \in SUBSET Nat /\ IsFiniteSet(0..n) BY FS_Interval
  <2> QED BY <2>1 DEF FiniteSubsetsOf
<1>3. \E X \in Below : \A Y \in Below : ~(<<Y, X>> \in R)
  <2> HIDE DEF R, Below
  <2> QED BY <1>1, <1>2, WFMin
<1>4. PICK x \in T : \A y \in T : ~(<<0..y, 0..x>> \in R)
  BY <1>3
<1>5. ASSUME NEW y \in T, y < x PROVE FALSE
  <2>1. 0..y \subseteq 0..x /\ x \in 0..x /\ x \notin 0..y BY <1>5
  <2>2. <<0..y, 0..x>> \in R BY <2>1 DEF StrictSubsetOrdering
  <2> QED BY <2>2, <1>4
<1> QED BY <1>4, <1>5

\* While something is left to read, there is a first place where readline() ends.
LEMMA LineEndExists ==
  ASSUME Len(file) \in Nat, pos \in Nat, pos < Len(file)
  PROVE  /\ LineEnd \in pos + 1 .. Len(file)
         /\ EndsLine(file[LineEnd]) \/ LineEnd = Len(file)
         /\ \A i \in pos + 1 .. LineEnd - 1 : ~EndsLine(file[i])
<1> DEFINE Ends == {j \in pos + 1 .. Len(file) : EndsLine(file[j]) \/ j = Len(file)}
<1>1. Ends \in SUBSET Nat /\ Ends # {} OBVIOUS
<1>2. PICK j \in Ends : \A i \in Ends : j <= i
  <2> HIDE DEF Ends
  <2> QED BY <1>1, Least
<1>3. /\ j \in pos + 1 .. Len(file)
      /\ EndsLine(file[j]) \/ j = Len(file)
  BY <1>2
<1>4. \A i \in pos + 1 .. j - 1 : ~EndsLine(file[i])
  <2> TAKE i \in pos + 1 .. j - 1
  <2>1. i \in pos + 1 .. Len(file) /\ ~(j <= i) BY <1>3
  <2>2. EndsLine(file[i]) => i \in Ends BY <2>1
  <2> QED BY <2>1, <2>2, <1>2
<1> HIDE DEF Ends
<1> QED BY <1>3, <1>4 DEF LineEnd

-----------------------------------------------------------------------------
(* Types. *)

Parts == {"whole", "head", "rest", "object", "newline"}

Types == TypeOK /\ (writer = "writing" => emitted \in Event)

LEMMA Lengths == Types => /\ Len(file) \in Nat /\ pos \in Nat /\ pos <= Len(file)
                          /\ file \in [1..Len(file) -> Pieces]
                          /\ Len(added) \in Nat /\ added \in [1..Len(added) -> Event]
                          /\ emitted \in Nat /\ cuts \subseteq Nat
BY TailAssumption DEF Types, TypeOK

LEMMA Extends ==
  ASSUME NEW ev \in Event, NEW part \in Parts, Types,
         file' = Append(file, [ev |-> ev, part |-> part])
  PROVE  /\ file' \in Seq(Pieces) /\ Len(file') = Len(file) + 1
         /\ file'[Len(file')] = [ev |-> ev, part |-> part]
         /\ \A i \in 1..Len(file) : file'[i] = file[i]
BY DEF Types, TypeOK, Pieces, Parts

\* What a step of the emitter does to the file: nothing, or one piece more.
LEMMA WriterSteps ==
  ASSUME Types, Opens \/ EmitWhole \/ EmitFirst \/ EmitRest \/ Dies
  PROVE  /\ UNCHANGED tailVars
         /\ \/ UNCHANGED <<file, emitted>> /\ writer' # "writing"
            \/ /\ writer = "idle" /\ emitted' = emitted + 1 /\ emitted' \in Event
               /\ \/ Writes(emitted', "whole") /\ writer' = "idle"
                  \/ /\ \E part \in {"head", "object"} : Writes(emitted', part)
                     /\ writer' = "writing"
            \/ /\ writer = "writing" /\ emitted' = emitted /\ writer' = "idle"
               /\ \E split \in Splits :
                    split[1] = file[Len(file)].part /\ Writes(emitted, split[2])
<1>1. CASE Opens BY <1>1 DEF Opens
<1>2. CASE EmitWhole
  BY <1>2, TailAssumption DEF EmitWhole, Types, TypeOK, Event
<1>3. CASE EmitFirst
  <2>1. emitted' \in Event
    BY <1>3, TailAssumption DEF EmitFirst, Types, TypeOK, Event
  <2>2. \E part \in {"head", "object"} : Writes(emitted', part)
    BY <1>3 DEF EmitFirst, Splits
  <2> QED BY <1>3, <2>1, <2>2 DEF EmitFirst
<1>4. CASE EmitRest BY <1>4 DEF EmitRest
<1>5. CASE Dies BY <1>5 DEF Dies
<1> QED BY <1>1, <1>2, <1>3, <1>4, <1>5

\* What a read hands on: the first piece of a line that parses.
LEMMA Reads ==
  ASSUME Types, TailReads
  PROVE  /\ tail = "reading" /\ pos < Len(file)
         /\ LineEnd \in pos + 1 .. Len(file)
         /\ EndsLine(file[LineEnd]) \/ LineEnd = Len(file)
         /\ \A i \in pos + 1 .. LineEnd - 1 : ~EndsLine(file[i])
         /\ pos' = LineEnd /\ cuts' = cuts \cup {LineEnd}
         /\ UNCHANGED <<writerVars, tail>>
         /\ \/ /\ Parses(SubSeq(file, pos + 1, LineEnd))
               /\ AddEvent(file[pos + 1].ev)
               /\ file[pos + 1].part \in {"whole", "object", "head"}
            \/ /\ ~Parses(SubSeq(file, pos + 1, LineEnd))
               /\ UNCHANGED <<events, added>>
<1>1. /\ tail = "reading" /\ pos < Len(file)
      /\ pos' = LineEnd /\ cuts' = cuts \cup {LineEnd}
      /\ UNCHANGED <<writerVars, tail>>
  BY DEF TailReads, After
<1>2. /\ LineEnd \in pos + 1 .. Len(file)
      /\ EndsLine(file[LineEnd]) \/ LineEnd = Len(file)
      /\ \A i \in pos + 1 .. LineEnd - 1 : ~EndsLine(file[i])
  BY <1>1, Lengths, LineEndExists
<1> DEFINE line == SubSeq(file, pos + 1, LineEnd)
<1>3. line[1] = file[pos + 1]
  BY <1>1, <1>2, Lengths DEF Types, TypeOK
<1>4. \/ Parses(line) /\ AddEvent(line[1].ev)
      \/ ~Parses(line) /\ UNCHANGED <<events, added>>
  BY DEF TailReads
<1>5. Parses(line) => line[1].part \in {"whole", "object", "head"}
  BY DEF Parses, Splits
<1> HIDE DEF line
<1>6. QED BY <1>1, <1>2, <1>3, <1>4, <1>5 DEF line

LEMMA TypesInit == Init => Types
BY TailAssumption DEF Init, Types, TypeOK

LEMMA TypesStep == Types /\ [Next]_vars => Types'
<1> SUFFICES ASSUME Types, [Next]_vars PROVE Types' OBVIOUS
<1> USE TailAssumption
<1>w. CASE Opens \/ EmitWhole \/ EmitFirst \/ EmitRest \/ Dies
  <2>1. starts' \in 0..MaxStarts
    BY <1>w DEF Types, TypeOK, Opens, EmitWhole, EmitFirst, EmitRest, Dies
  <2>2. UNCHANGED tailVars BY <1>w, WriterSteps
  <2>3. /\ file' \in Seq(Pieces) /\ Len(file') >= Len(file)
        /\ writer' \in {"down", "idle", "writing"}
        /\ emitted' \in 0..MaxEvents /\ (writer' = "writing" => emitted' \in Event)
    <3>1. CASE UNCHANGED <<file, emitted>> /\ writer' # "writing"
      <4>1. writer' \in {"down", "idle", "writing"}
        BY <1>w DEF Types, TypeOK, Opens, EmitWhole, EmitFirst, EmitRest, Dies
      <4> QED BY <3>1, <4>1, Lengths DEF Types, TypeOK
    <3>2. ASSUME NEW ev \in Event, NEW part \in Parts, Writes(ev, part)
          PROVE  file' \in Seq(Pieces) /\ Len(file') >= Len(file)
      BY <3>2, Extends, Lengths DEF Writes
    <3>3. CASE /\ writer = "idle" /\ emitted' \in Event
               /\ \/ Writes(emitted', "whole") /\ writer' = "idle"
                  \/ /\ \E part \in {"head", "object"} : Writes(emitted', part)
                     /\ writer' = "writing"
      <4>1. \E part \in Parts : Writes(emitted', part) BY <3>3 DEF Parts
      <4> QED BY <3>2, <3>3, <4>1 DEF Event
    <3>4. CASE /\ writer = "writing" /\ emitted' = emitted /\ writer' = "idle"
               /\ \E split \in Splits :
                    split[1] = file[Len(file)].part /\ Writes(emitted, split[2])
      <4>1. \E part \in Parts : Writes(emitted, part) BY <3>4 DEF Parts, Splits
      <4> QED BY <3>2, <3>4, <4>1 DEF Types, Event
    <3> QED BY <1>w, <3>1, <3>3, <3>4, WriterSteps
  <2> QED BY <2>1, <2>2, <2>3, Lengths DEF Types, TypeOK, tailVars
<1>o. CASE TailOpens
  <2>1. pos' = Len(file) /\ cuts' = {Len(file)} /\ tail' = "reading"
        /\ UNCHANGED <<writerVars, events, added>>
    BY <1>o DEF TailOpens
  <2> QED BY <2>1, Lengths DEF Types, TypeOK, writerVars
<1>r. CASE TailReads
  <2>0. /\ LineEnd \in pos + 1 .. Len(file) /\ pos' = LineEnd /\ cuts' = cuts \cup {LineEnd}
        /\ UNCHANGED <<writerVars, tail>>
    BY <1>r, Reads
  <2>1. /\ pos' \in 0..Len(file) /\ cuts' \subseteq 0..Len(file)
        /\ UNCHANGED <<writerVars, tail>>
    BY <2>0, Lengths DEF Types, TypeOK
  <2>2. events' \in Seq(Event) /\ Len(events') <= MaxShown /\ added' \in Seq(Event)
    <3>1. CASE AddEvent(file[pos + 1].ev)
      <4> DEFINE more == Append(events, file[pos + 1].ev)
      <4>1. file[pos + 1].ev \in Event BY <1>r, Reads, Lengths DEF Pieces
      <4>2. more \in Seq(Event) /\ Len(more) \in Nat BY <4>1 DEF Types, TypeOK
      <4>3. Newest(more) \in Seq(Event) /\ Len(Newest(more)) <= MaxShown
        <5> HIDE DEF more
        <5>1. CASE Len(more) > MaxShown
          <6>1. /\ Newest(more) = SubSeq(more, Len(more) - MaxShown + 1, Len(more))
                /\ Len(more) - MaxShown + 1 \in 1..Len(more)
            BY <4>2, <5>1 DEF Newest
          <6> QED BY <4>2, <6>1
        <5>2. CASE ~(Len(more) > MaxShown) BY <4>2, <5>2 DEF Newest
        <5> QED BY <5>1, <5>2
      <4>4. added' \in Seq(Event) BY <3>1, <4>1 DEF AddEvent, Types, TypeOK
      <4> QED BY <3>1, <4>3, <4>4 DEF AddEvent
    <3>2. CASE UNCHANGED <<events, added>> BY <3>2 DEF Types, TypeOK
    <3> QED BY <1>r, <3>1, <3>2, Reads
  <2> QED BY <2>1, <2>2 DEF Types, TypeOK, writerVars
<1>s. CASE TailStops
  BY <1>s DEF TailStops, Types, TypeOK, writerVars
<1>u. CASE UNCHANGED vars
  BY <1>u DEF vars, writerVars, tailVars, Types, TypeOK
<1> QED BY <1>w, <1>o, <1>r, <1>s, <1>u DEF Next

LEMMA TypesHold == Spec => []Types
BY TypesInit, TypesStep, PTL DEF Spec

\* The file holds pieces of events, the tailer is never past its end, and the
\* dashboard keeps no more than max_events events.
THEOREM TypeCorrect == Spec => []TypeOK
<1>1. Types => TypeOK BY DEF Types
<1> QED BY <1>1, TypesHold, PTL

-----------------------------------------------------------------------------
(* The file.  Events are in the order in which they were begun; what does not    *)
(* start a line is the second half of the piece before it.                       *)

Starts(piece) == piece.part \in {"whole", "head", "object"}
Pair(i) == /\ file[i + 1].ev = file[i].ev
           /\ <<file[i].part, file[i + 1].part>> \in Splits

FileInv ==
  /\ \A i \in 1..Len(file) : file[i].ev <= emitted
  /\ \A i, j \in 1..Len(file) : i < j /\ Starts(file[j]) => file[i].ev < file[j].ev
  /\ \A j \in 1..Len(file) : ~Starts(file[j]) => j - 1 \in 1..Len(file) /\ Pair(j - 1)
  /\ writer = "writing" => /\ Len(file) > 0 /\ file[Len(file)].ev = emitted
                           /\ file[Len(file)].part \in {"head", "object"}

LEMMA FileStep == Types /\ FileInv /\ [Next]_vars => FileInv'
<1> SUFFICES ASSUME Types, FileInv, [Next]_vars PROVE FileInv' OBVIOUS
<1> DEFINE n == Len(file)
<1>0. n \in Nat /\ emitted \in Nat /\ file \in [1..n -> Pieces] BY Lengths
<1>1. ASSUME NEW ev \in Event, NEW part \in Parts, Writes(ev, part), emitted' = ev,
             \/ ev = emitted + 1 /\ part \in {"whole", "head", "object"}
             \/ /\ writer = "writing" /\ ev = emitted
                /\ <<file[n].part, part>> \in Splits,
             writer' = "writing" => part \in {"head", "object"}
      PROVE  FileInv'
  <2>1. /\ Len(file') = n + 1 /\ file'[n + 1].ev = ev /\ file'[n + 1].part = part
        /\ \A i \in 1..n : file'[i] = file[i]
    BY <1>1, Extends DEF Writes
  <2> HIDE DEF n
  <2>2. \A i \in 1..n : file[i].ev <= emitted /\ file[i].ev \in Nat
    BY <1>0 DEF FileInv, n, Pieces, Event
  <2>3. \A i \in 1..n + 1 : file'[i].ev <= emitted'
    BY <1>0, <1>1, <2>1, <2>2 DEF Event
  <2>4. ASSUME NEW i \in 1..n + 1, NEW j \in 1..n + 1, i < j, Starts(file'[j])
        PROVE  file'[i].ev < file'[j].ev
    <3>1. CASE j \in 1..n BY <1>0, <2>1, <2>4, <3>1 DEF FileInv, n
    <3>2. CASE j = n + 1
      <4>1. ev = emitted + 1 BY <1>1, <2>1, <2>4, <3>2 DEF Starts, Splits
      <4> QED BY <1>0, <2>1, <2>2, <2>4, <3>2, <4>1
    <3> QED BY <1>0, <3>1, <3>2
  <2>5. ASSUME NEW j \in 1..n + 1, ~Starts(file'[j])
        PROVE  j - 1 \in 1..n + 1 /\ Pair(j - 1)'
    <3>1. CASE j \in 1..n
      <4>1. j - 1 \in 1..n /\ Pair(j - 1) BY <1>0, <2>1, <2>5, <3>1 DEF FileInv, n
      <4> QED BY <1>0, <2>1, <3>1, <4>1 DEF Pair
    <3>2. CASE j = n + 1
      <4>1. writer = "writing" /\ ev = emitted /\ <<file[n].part, part>> \in Splits
        BY <1>1, <2>1, <2>5, <3>2 DEF Starts
      <4>2. n \in 1..n /\ file[n].ev = ev BY <1>0, <4>1 DEF FileInv, n
      <4> QED BY <1>0, <2>1, <3>2, <4>1, <4>2 DEF Pair
    <3> QED BY <1>0, <3>1, <3>2
  <2> QED BY <1>0, <1>1, <2>1, <2>3, <2>4, <2>5 DEF FileInv
<1>w. CASE Opens \/ EmitWhole \/ EmitFirst \/ EmitRest \/ Dies
  <2>1. CASE UNCHANGED <<file, emitted>> /\ writer' # "writing"
    BY <2>1 DEF FileInv, Pair
  <2>2. CASE /\ writer = "idle" /\ emitted' = emitted + 1 /\ emitted' \in Event
             /\ \/ Writes(emitted', "whole") /\ writer' = "idle"
                \/ /\ \E part \in {"head", "object"} : Writes(emitted', part)
                   /\ writer' = "writing"
    <3>1. PICK part \in {"whole", "head", "object"} :
            Writes(emitted', part) /\ (writer' = "writing" => part # "whole")
      BY <2>2
    <3> QED BY <1>1, <2>2, <3>1 DEF Parts
  <2>3. CASE /\ writer = "writing" /\ emitted' = emitted /\ writer' = "idle"
             /\ \E split \in Splits :
                  split[1] = file[Len(file)].part /\ Writes(emitted, split[2])
    <3>1. PICK split \in Splits :
            split[1] = file[Len(file)].part /\ Writes(emitted, split[2])
      BY <2>3
    <3>2. split[2] \in Parts /\ <<split[1], split[2]>> \in Splits
      BY <3>1 DEF Splits, Parts
    <3>3. emitted \in Event BY <2>3 DEF Types
    <3> QED BY <1>1, <2>3, <3>1, <3>2, <3>3
  <2> QED BY <1>w, <2>1, <2>2, <2>3, WriterSteps
<1>t. CASE TailOpens \/ TailReads \/ TailStops
  <2>1. UNCHANGED writerVars
    BY <1>t DEF TailOpens, TailReads, TailStops
  <2> QED BY <2>1 DEF writerVars, FileInv, Pair
<1>u. CASE UNCHANGED vars BY <1>u DEF vars, writerVars, FileInv, Pair
<1> QED BY <1>w, <1>t, <1>u DEF Next

LEMMA FileInit == Init => FileInv
BY DEF Init, FileInv

LEMMA FileHolds == Spec => [](Types /\ FileInv)
BY TypesInit, TypesStep, FileInit, FileStep, PTL DEF Spec

-----------------------------------------------------------------------------
(* The tailer.  What was added lies behind it, and a line is added when its      *)
(* first piece is read.                                                          *)

AddedInv ==
  /\ \A k \in 1..Len(added) : \E i \in 1..pos : file[i].ev = added[k]
  /\ EachOnceInOrder

\* What a step of the emitter leaves of the file.
LEMMA WritersKeep ==
  ASSUME Types, Opens \/ EmitWhole \/ EmitFirst \/ EmitRest \/ Dies
  PROVE  /\ UNCHANGED tailVars /\ Len(file') \in Nat /\ Len(file) <= Len(file')
         /\ \A i \in 1..Len(file) : file'[i] = file[i]
<1>1. UNCHANGED tailVars BY WriterSteps
<1>2. ASSUME NEW ev \in Event, NEW part \in Parts, Writes(ev, part)
      PROVE  /\ Len(file') \in Nat /\ Len(file) <= Len(file')
             /\ \A i \in 1..Len(file) : file'[i] = file[i]
  BY <1>2, Extends, Lengths DEF Writes
<1>3. file' = file \/ \E ev \in Event, part \in Parts : Writes(ev, part)
  <2>1. CASE writer = "idle" /\ emitted' \in Event
             /\ \E part \in {"whole", "head", "object"} : Writes(emitted', part)
    BY <2>1 DEF Parts
  <2>2. CASE writer = "writing" /\ \E split \in Splits : Writes(emitted, split[2])
    <3>1. emitted \in Event BY <2>2 DEF Types
    <3>2. \A split \in Splits : split[2] \in Parts BY DEF Splits, Parts
    <3> QED BY <2>2, <3>1, <3>2
  <2> QED BY <2>1, <2>2, WriterSteps
<1> QED BY <1>1, <1>2, <1>3, Lengths

LEMMA AddedStep == Types /\ FileInv /\ AddedInv /\ [Next]_vars => AddedInv'
<1> SUFFICES ASSUME Types, FileInv, AddedInv, [Next]_vars PROVE AddedInv' OBVIOUS
<1>w. CASE Opens \/ EmitWhole \/ EmitFirst \/ EmitRest \/ Dies
  <2>1. /\ added' = added /\ pos' = pos /\ pos \in Nat /\ pos <= Len(file)
        /\ \A i \in 1..Len(file) : file'[i] = file[i]
        /\ Len(file) \in Nat
    BY <1>w, WritersKeep, Lengths DEF tailVars
  <2>2. ASSUME NEW k \in 1..Len(added) PROVE \E i \in 1..pos : file'[i].ev = added[k]
    <3>1. PICK i \in 1..pos : file[i].ev = added[k] BY DEF AddedInv
    <3>2. i \in 1..Len(file) BY <2>1
    <3> QED BY <2>1, <3>1, <3>2
  <2>3. EachOnceInOrder' BY <2>1 DEF AddedInv, EachOnceInOrder
  <2> QED BY <2>1, <2>2, <2>3 DEF AddedInv
<1>o. CASE TailOpens
  <2>1. pos' = Len(file) /\ UNCHANGED <<file, added>>
    BY <1>o DEF TailOpens, writerVars
  <2> QED BY <2>1, Lengths DEF AddedInv, EachOnceInOrder
<1>r. CASE TailReads
  <2>1. /\ pos < pos' /\ pos' \in 1..Len(file) /\ file' = file
        /\ \/ /\ added' = Append(added, file[pos + 1].ev)
              /\ file[pos + 1].part \in {"whole", "object", "head"}
           \/ added' = added
    BY <1>r, Reads, Lengths DEF AddEvent, writerVars
  <2>2. CASE added' = added
    BY <2>1, <2>2, Lengths DEF AddedInv, EachOnceInOrder
  <2>3. CASE /\ added' = Append(added, file[pos + 1].ev)
             /\ file[pos + 1].part \in {"whole", "object", "head"}
    <3> DEFINE n == Len(added)
               ev == file[pos + 1].ev
    <3>1. pos \in Nat /\ pos + 1 \in 1..Len(file) /\ n \in Nat /\ Len(file) \in Nat
      BY <2>1, Lengths
    <3>2. \A i \in 1..pos : file[i].ev < ev
      BY <2>3, <3>1 DEF FileInv, Starts
    <3>3. ev \in Event BY <3>1, Lengths DEF Pieces
    <3>4. /\ Len(added') = n + 1 /\ added'[n + 1] = ev
          /\ \A k \in 1..n : added'[k] = added[k]
      BY <2>3, <3>3, Lengths DEF Types, TypeOK
    <3> HIDE DEF n
    <3>5. ASSUME NEW k \in 1..n + 1 PROVE \E i \in 1..pos' : file'[i].ev = added'[k]
      <4>1. CASE k \in 1..n
        <5>1. PICK i \in 1..pos : file[i].ev = added[k] BY <4>1 DEF AddedInv, n
        <5> QED BY <2>1, <3>1, <3>4, <4>1, <5>1
      <4>2. CASE k = n + 1
        <5>1. pos + 1 \in 1..pos' BY <2>1, <3>1
        <5> QED BY <2>1, <3>4, <4>2, <5>1
      <4> QED BY <3>1, <4>1, <4>2
    <3>6. ASSUME NEW k \in 1..n + 1, NEW l \in 1..n + 1, k < l
          PROVE  added'[k] < added'[l]
      <4>1. k \in 1..n BY <3>1, <3>6
      <4>2. CASE l \in 1..n
        BY <3>4, <3>6, <4>1, <4>2 DEF AddedInv, EachOnceInOrder, n
      <4>3. CASE l = n + 1
        <5>1. PICK i \in 1..pos : file[i].ev = added[k] BY <4>1 DEF AddedInv, n
        <5>2. added[k] < ev BY <3>2, <5>1
        <5> QED BY <3>4, <4>1, <4>3, <5>2
      <4> QED BY <3>1, <4>2, <4>3
    <3> QED BY <3>4, <3>5, <3>6 DEF AddedInv, EachOnceInOrder
  <2> QED BY <2>1, <2>2, <2>3
<1>s. CASE TailStops
  BY <1>s DEF TailStops, writerVars, AddedInv, EachOnceInOrder
<1>u. CASE UNCHANGED vars
  BY <1>u DEF vars, writerVars, tailVars, AddedInv, EachOnceInOrder
<1> QED BY <1>w, <1>o, <1>r, <1>s, <1>u DEF Next

\* However lines are cut and reads fall between them, no event is handed to
\* add_event() twice, nor before one that was emitted earlier.
THEOREM EachIsAddedOnceInOrder == Spec => []EachOnceInOrder
<1>1. Init => AddedInv BY DEF Init, AddedInv, EachOnceInOrder
<1>2. AddedInv => EachOnceInOrder BY DEF AddedInv
<1> QED BY <1>1, <1>2, AddedStep, FileHolds, TypesStep, FileStep, PTL DEF Spec

-----------------------------------------------------------------------------
(* What the tailer cannot miss.  Behind every newline that it came past it has   *)
(* started anew, and a line on which it started was added unless it was cut in   *)
(* its object.                                                                   *)

Shown(ev) == \E k \in 1..Len(added) : added[k] = ev

CutInv ==
  /\ cuts \subseteq 0..pos
  /\ tail = "reading" => pos \in cuts
  /\ tail = "waiting" => cuts = {} /\ added = << >> /\ pos = 0
  /\ \A k \in 1..pos : EndsLine(file[k]) /\ (\E c \in cuts : c <= k) => k \in cuts
  /\ \A i \in 1..pos : i - 1 \in cuts =>
       /\ file[i].part = "whole" => Shown(file[i].ev)
       /\ file[i].part = "object" /\ i \in cuts => Shown(file[i].ev)
       /\ i + 1 <= pos /\ Pair(i) /\ (file[i].part = "head" => i \notin cuts)
            => Shown(file[i].ev)

LEMMA Slice ==
  ASSUME NEW s \in Seq(Pieces), NEW m \in 1..Len(s), NEW n \in m..Len(s)
  PROVE  /\ Len(SubSeq(s, m, n)) = n - m + 1
         /\ \A i \in 1..(n - m + 1) : SubSeq(s, m, n)[i] = s[m + i - 1]
<1>1. Len(s) \in Nat BY LenProperties
<1>2. m \in Int /\ n \in Int /\ m <= n BY <1>1
<1>3. \A i \in m..n : i \in 1..Len(s) BY <1>1
<1>4. \A i \in m..n : s[i] \in Pieces BY <1>3, ElementOfSeq
<1> QED BY ONLY <1>2, <1>4, SubSeqProperties

LEMMA ParsesWhole ==
  ASSUME Types, pos < Len(file)
  PROVE  /\ file[pos + 1].part \in {"whole", "object"}
              => Parses(SubSeq(file, pos + 1, pos + 1))
         /\ pos + 2 <= Len(file) /\ Pair(pos + 1)
              => Parses(SubSeq(file, pos + 1, pos + 2))
<1> USE Lengths DEF Parses, Types, TypeOK
<1>1. ASSUME file[pos + 1].part \in {"whole", "object"}
      PROVE  Parses(SubSeq(file, pos + 1, pos + 1))
  <2> DEFINE line == SubSeq(file, pos + 1, pos + 1)
  <2>1. Len(line) = 1 /\ line[1] = file[pos + 1]
    <3>0. Len(file) \in Nat /\ pos \in Nat OBVIOUS
    <3>1. PICK m \in 1..Len(file) : m = pos + 1 OBVIOUS
    <3>2. m \in m..Len(file) /\ 1 \in 1..(m - m + 1) /\ m - m + 1 = 1 /\ m + 1 - 1 = m
      BY ONLY <3>0, <3>1
    <3>3. file \in Seq(Pieces) OBVIOUS
    <3>4. line = SubSeq(file, m, m) BY ONLY <3>1
    <3> HIDE DEF line
    <3>5. Len(line) = m - m + 1 /\ \A i \in 1..(m - m + 1) : line[i] = file[m + i - 1]
      BY ONLY <3>2, <3>3, <3>4, Slice
    <3> QED BY ONLY <3>1, <3>2, <3>5
  <2> HIDE DEF line
  <2>2. Parses(line) BY <1>1, <2>1
  <2> QED BY <2>2 DEF line
<1>2. ASSUME pos + 2 <= Len(file), Pair(pos + 1)
      PROVE  Parses(SubSeq(file, pos + 1, pos + 2))
  <2> DEFINE line == SubSeq(file, pos + 1, pos + 2)
  <2>1. Len(line) = 2 /\ line[1] = file[pos + 1] /\ line[2] = file[pos + 2]
    <3>0. Len(file) \in Nat /\ pos \in Nat OBVIOUS
    <3>1. PICK m \in 1..Len(file), n \in 1..Len(file) : m = pos + 1 /\ n = pos + 2
      BY <1>2
    <3>2. /\ n \in m..Len(file) /\ 1 \in 1..(n - m + 1) /\ 2 \in 1..(n - m + 1)
          /\ n - m + 1 = 2 /\ m + 1 - 1 = m /\ m + 2 - 1 = n
      BY ONLY <3>0, <3>1
    <3>3. file \in Seq(Pieces) OBVIOUS
    <3>4. line = SubSeq(file, m, n) BY ONLY <3>1
    <3> HIDE DEF line
    <3>5. Len(line) = n - m + 1 /\ \A i \in 1..(n - m + 1) : line[i] = file[m + i - 1]
      BY ONLY <3>2, <3>3, <3>4, Slice
    <3> QED BY ONLY <3>1, <3>2, <3>5
  <2>2. file[pos + 2].ev = file[pos + 1].ev
        /\ <<file[pos + 1].part, file[pos + 2].part>> \in Splits
    BY <1>2 DEF Pair
  <2> HIDE DEF line
  <2>3. Parses(line) BY <2>1, <2>2
  <2> QED BY <2>3 DEF line
<1> QED BY <1>1, <1>2

LEMMA CutsOnRead ==
  ASSUME Types, CutInv, TailReads PROVE CutInv'
<1> DEFINE e == LineEnd
<1>1. /\ tail = "reading" /\ tail' = tail /\ file' = file
      /\ pos \in Nat /\ Len(file) \in Nat /\ e \in pos + 1 .. Len(file)
      /\ EndsLine(file[e]) \/ e = Len(file)
      /\ \A i \in pos + 1 .. e - 1 : ~EndsLine(file[i])
      /\ pos' = e /\ cuts' = cuts \cup {e}
  BY Reads, Lengths DEF writerVars
<1>2. /\ Parses(SubSeq(file, pos + 1, e)) => added' = Append(added, file[pos + 1].ev)
      /\ added' = added \/ added' = Append(added, file[pos + 1].ev)
  BY Reads DEF AddEvent
<1>3. PICK first \in Event : file[pos + 1].ev = first
  <2>1. pos + 1 \in 1..Len(file) BY <1>1
  <2> QED BY <2>1, Lengths DEF Pieces
<1> HIDE DEF e
<1>4. \A ev : Shown(ev) => Shown(ev)'
  <2>1. added \in Seq(Event) BY DEF Types, TypeOK
  <2> QED BY <1>2, <1>3, <2>1 DEF Shown
<1>5. Parses(SubSeq(file, pos + 1, e)) => Shown(first)'
  <2>1. ASSUME added' = Append(added, first) PROVE Shown(first)'
    <3>1. added \in Seq(Event) BY DEF Types, TypeOK
    <3>2. Len(added') \in 1..Len(added') /\ added'[Len(added')] = first
      BY <2>1, <3>1
    <3> QED BY <3>2 DEF Shown
  <2> QED BY <1>2, <1>3, <2>1
<1>6. cuts \subseteq 0..pos /\ pos \in cuts BY <1>1 DEF CutInv
<1>7. ASSUME NEW k \in 1..e, EndsLine(file[k]), NEW c \in cuts', c <= k
      PROVE  k \in cuts'
  <2>1. CASE k <= pos
    <3>1. c \in cuts /\ k \in 1..pos BY <1>1, <1>7, <2>1
    <3> QED BY <1>1, <1>7, <3>1 DEF CutInv
  <2>2. CASE k > pos BY <1>1, <1>7, <2>2
  <2> QED BY <1>1, <2>1, <2>2
<1>8. ASSUME NEW i \in 1..e, i - 1 \in cuts', i <= pos
      PROVE  /\ file[i].part = "whole" => Shown(file[i].ev)
             /\ file[i].part = "object" /\ i \in cuts' => Shown(file[i].ev)
             /\ i + 1 <= e /\ Pair(i) /\ (file[i].part = "head" => i \notin cuts')
                  => Shown(file[i].ev)
  <2>1. i \in 1..pos /\ i - 1 \in cuts /\ (i \in cuts <=> i \in cuts') BY <1>1, <1>8
  <2>2. ASSUME i + 1 <= e, Pair(i), file[i].part = "head" => i \notin cuts'
        PROVE  Shown(file[i].ev)
    <3>1. CASE i + 1 <= pos BY <2>1, <2>2, <3>1 DEF CutInv
    <3>2. CASE i = pos
      <4>1. file[i].part = "object" BY <1>6, <2>1, <2>2, <3>2 DEF Pair, Splits
      <4> QED BY <1>6, <2>1, <3>2, <4>1 DEF CutInv
    <3> QED BY <1>1, <1>8, <3>1, <3>2
  <2> QED BY <2>1, <2>2 DEF CutInv
<1>9. ASSUME NEW i \in 1..e, i - 1 \in cuts', i > pos
      PROVE  /\ file[i].part = "whole" => Shown(file[i].ev)'
             /\ file[i].part = "object" /\ i \in cuts' => Shown(file[i].ev)'
             /\ i + 1 <= e /\ Pair(i) /\ (file[i].part = "head" => i \notin cuts')
                  => Shown(file[i].ev)'
  <2>1. i = pos + 1 BY <1>1, <1>6, <1>9
  <2>5. Shown(first)' => Shown(file[i].ev)' BY <1>1, <1>3, <2>1
  <2>2. ASSUME file[i].part = "whole" PROVE Shown(file[i].ev)'
    <3>1. e = i BY <1>1, <2>1, <2>2 DEF EndsLine
    <3> QED BY <1>1, <1>5, <2>1, <2>2, <2>5, <3>1, ParsesWhole
  <2>3. ASSUME file[i].part = "object", i \in cuts' PROVE Shown(file[i].ev)'
    <3>1. e = i BY <1>1, <1>6, <2>1, <2>3
    <3> QED BY <1>1, <1>5, <2>1, <2>3, <2>5, <3>1, ParsesWhole
  <2>4. ASSUME i + 1 <= e, Pair(i) PROVE Shown(file[i].ev)'
    <3>1. EndsLine(file[pos + 2]) BY <1>1, <2>1, <2>4 DEF Pair, Splits, EndsLine
    <3>2. e = pos + 2 BY <1>1, <2>1, <2>4, <3>1
    <3> QED BY <1>1, <1>5, <2>1, <2>4, <2>5, <3>2, ParsesWhole
  <2> QED BY <2>2, <2>3, <2>4
<1>10. \A i \in 1..e : i - 1 \in cuts' =>
         /\ file[i].part = "whole" => Shown(file[i].ev)'
         /\ file[i].part = "object" /\ i \in cuts' => Shown(file[i].ev)'
         /\ i + 1 <= e /\ Pair(i) /\ (file[i].part = "head" => i \notin cuts')
              => Shown(file[i].ev)'
  BY <1>1, <1>4, <1>8, <1>9
<1>11. \A i : Pair(i)' <=> Pair(i) BY <1>1 DEF Pair
<1>12. cuts' \subseteq 0..pos' /\ (tail' = "reading" => pos' \in cuts')
       /\ tail' # "waiting"
  BY <1>1, <1>6
<1> QED BY <1>1, <1>7, <1>10, <1>11, <1>12 DEF CutInv, Shown

LEMMA CutStep == Types /\ CutInv /\ [Next]_vars => CutInv'
<1> SUFFICES ASSUME Types, CutInv, [Next]_vars PROVE CutInv' OBVIOUS
<1>w. CASE Opens \/ EmitWhole \/ EmitFirst \/ EmitRest \/ Dies
  <2>1. /\ UNCHANGED tailVars /\ pos \in Nat /\ pos <= Len(file)
        /\ \A i \in 1..Len(file) : file'[i] = file[i]
        /\ Len(file) \in Nat
    BY <1>w, WritersKeep, Lengths
  <2>2. \A i \in 1..pos : file'[i] = file[i] BY <2>1
  <2>3. \A i \in 1..pos : i + 1 <= pos => (Pair(i)' <=> Pair(i))
    BY <2>1, <2>2 DEF Pair
  <2> QED BY <2>1, <2>2, <2>3 DEF CutInv, Shown, tailVars
<1>o. CASE TailOpens
  <2>1. /\ tail = "waiting" /\ tail' = "reading" /\ pos' = Len(file) /\ cuts' = {Len(file)}
        /\ UNCHANGED <<file, added>>
    BY <1>o DEF TailOpens, writerVars
  <2> QED BY <2>1, Lengths DEF CutInv
<1>r. CASE TailReads BY <1>r, CutsOnRead
<1>s. CASE TailStops
  <2>1. tail' = "stopped" /\ UNCHANGED <<file, pos, added, cuts>>
    BY <1>s DEF TailStops, writerVars
  <2> QED BY <2>1 DEF CutInv, Shown, Pair
<1>u. CASE UNCHANGED vars
  BY <1>u DEF vars, writerVars, tailVars, CutInv, Shown, Pair
<1> QED BY <1>w, <1>o, <1>r, <1>s, <1>u DEF Next

LEMMA NothingElseMissed == Types /\ FileInv /\ CutInv => OthersAreAdded
<1> SUFFICES ASSUME Types, FileInv, CutInv,
                    NEW ev \in Event, NEW i \in 1..Len(file), NEW j \in 1..Len(file),
                    LineOf(ev, i, j), j <= pos, NEW c \in cuts, c < i,
                    file[i].part = "head" => i \notin cuts
             PROVE  Shown(ev)
  BY DEF OthersAreAdded, Shown
<1>1. Len(file) \in Nat /\ pos \in Nat /\ pos <= Len(file) /\ cuts \subseteq 0..pos
      /\ file \in [1..Len(file) -> Pieces]
  BY Lengths DEF CutInv
<1>2. /\ \A k \in 1..Len(file) : file[k].ev = ev <=> k \in i..j
      /\ i <= j /\ EndsLine(file[j]) /\ (i > 1 => EndsLine(file[i - 1]))
  BY DEF LineOf
<1>3. i - 1 \in cuts
  <2>1. CASE i = 1 BY <1>1, <2>1
  <2>2. CASE i > 1
    <3>1. i - 1 \in 1..pos /\ c <= i - 1 BY <1>1, <1>2, <2>2
    <3> QED BY <1>2, <2>2, <3>1 DEF CutInv
  <2> QED BY <1>1, <2>1, <2>2
<1>4. file[i].ev = ev /\ file[j].ev = ev /\ i \in 1..pos BY <1>1, <1>2
<1>5. Starts(file[i])
  <2>1. ASSUME ~Starts(file[i]) PROVE FALSE
    <3>1. i - 1 \in 1..Len(file) /\ Pair(i - 1) BY <2>1 DEF FileInv
    <3>2. file[i - 1].ev = ev BY <1>1, <1>4, <3>1 DEF Pair
    <3> QED BY <1>1, <1>2, <3>1, <3>2
  <2> QED BY <2>1
<1>6. CASE j = i
  <2>1. file[i].part = "whole" BY <1>2, <1>5, <1>6 DEF Starts, EndsLine
  <2> QED BY <1>3, <1>4, <2>1 DEF CutInv
<1>7. CASE j > i
  <2>1. \A k \in i + 1 .. j : ~Starts(file[k])
    <3> TAKE k \in i + 1 .. j
    <3>1. k \in 1..Len(file) /\ i < k /\ file[k].ev = ev BY <1>1, <1>2
    <3>2. ev \in Nat BY DEF Event
    <3> QED BY <1>4, <3>1, <3>2 DEF FileInv
  <2>2. j - 1 \in 1..Len(file) /\ Pair(j - 1) BY <1>1, <1>7, <2>1 DEF FileInv
  <2>3. Starts(file[j - 1])
    BY <1>1, <2>2 DEF Pair, Splits, Starts
  <2>4. j = i + 1 BY <1>1, <1>7, <2>1, <2>3
  <2>5. Pair(i) BY <1>1, <2>2, <2>4
  <2> QED BY <1>1, <1>3, <1>4, <2>4, <2>5 DEF CutInv
<1> QED BY <1>1, <1>2, <1>6, <1>7

\* A line that is complete, that follows a complete line, and in whose object the
\* tailer never stood, has been added once the tailer is past it.
THEOREM NoOtherIsMissed == Spec => []OthersAreAdded
<1>1. Init => CutInv BY DEF Init, CutInv
<1> QED BY <1>1, CutStep, FileHolds, TypesStep, FileStep, NothingElseMissed, PTL DEF Spec
=============================================================================

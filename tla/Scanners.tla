------------------------------- MODULE Scanners -------------------------------
(***************************************************************************)
(* The algorithms of the two scanners.  DLPScanner.scan_dict() and its Luhn *)
(* validator (behavry_proxy/dlp/scanner.py): the walk through the arguments *)
(* of a call.  InboundScanner.scan() and sanitize() (dlp/inbound.py): the   *)
(* removal of overlapping findings of a reply and their redaction.  A loop  *)
(* of the code is a sequence of steps, so that what holds in the middle of  *)
(* it can be said.                                                          *)
(*                                                                         *)
(* What a regular expression matches is an input: any spans of the text,    *)
(* disjoint for one pattern, as finditer() yields them.                     *)
(***************************************************************************)
EXTENDS Integers, Sequences, FiniteSets, SequencesExt

CONSTANTS
  MaxNodes,      \* bound of the model: values in the arguments of a call
  TextLen,       \* bound of the model: characters of a reply
  MaxMatches,    \* bound of the model: matches in a reply
  PatternLevel,  \* severities of the inbound patterns, in the order of their list
  MarkLen,       \* length of [REDACTED]
  Payloads       \* card numbers without their last digit

Nodes == 1..MaxNodes
Patterns == 1..Len(PatternLevel)

\* A card number has 13 to 19 digits.
ASSUME ScannersAssumption ==
  /\ MaxNodes \in Nat \ {0} /\ TextLen \in Nat /\ MaxMatches \in Nat
  /\ PatternLevel \in Seq(Nat) /\ MarkLen \in Nat
  /\ \A p \in Payloads : p \in Seq(0..9) /\ Len(p) + 1 \in 13..19

VARIABLES
  stage,   \* args: a walk; sent, reply, redact, done: a reply; issued, typo: a card
  tree,    \* kind and parent of every value in the arguments; value 1 is the root
  todo,    \* values the recursion has still to look at, the next one first
  hits,    \* findings of the walk: the strings they are in
  found,   \* matches in the reply, in the order of the sort
  at,      \* how many of them the removal of overlaps has looked at
  kept,    \* result: the findings it returns
  chars,   \* the text that sanitize() works on
  card     \* digits of a card number

vars == <<stage, tree, todo, hits, found, at, kept, chars, card>>

-----------------------------------------------------------------------------
(* Inputs *)
\* A value is held by a dict or a list with a smaller number.
Kinds == {k \in [Nodes -> {"str", "dict", "list", "other"}] : k[1] = "dict"}
Parents ==
  {p \in [Nodes -> 0..MaxNodes] : p[1] = 0 /\ \A n \in Nodes \ {1} : p[n] \in 1..(n - 1)}

Trees ==
  {t \in [kind : Kinds, parent : Parents] :
     \A n \in Nodes \ {1} : t.kind[t.parent[n]] \in {"dict", "list"}}

\* The text of a reply, its characters told apart by their position.
Text == [i \in 1..TextLen |-> i]

\* A match covers the characters start + 1 to end.
Spans ==
  {f \in [pat : Patterns, start : 0..(TextLen - 1), end : 1..TextLen] : f.start < f.end}

Covers(f) == (f.start + 1)..f.end
Overlap(f, g) == Covers(f) \cap Covers(g) # {}

\* findings.sort(key=start): stable, over findings in the order of the patterns.
Before(f, g) == f.start < g.start \/ (f.start = g.start /\ f.pat < g.pat)

\* Up to MaxMatches matches as they were sorted, those of one pattern disjoint.
MatchLists ==
  {m \in UNION {[1..n -> Spans] : n \in 0..MaxMatches} :
     \A j \in DOMAIN m : \A i \in 1..(j - 1) :
       Before(m[i], m[j]) /\ (m[i].pat = m[j].pat => ~Overlap(m[i], m[j]))}

-----------------------------------------------------------------------------
(* luhn_check() *)
\* Slip: a doubled digit is not reduced.
DoubledRaw(d) == 2 * d
Doubled(d) == IF 2 * d > 9 THEN 2 * d - 9 ELSE 2 * d

Sum(w) ==
  LET sum[k \in 0..Len(w)] == IF k = 0 THEN 0 ELSE sum[k - 1] + w[k] IN sum[Len(w)]

\* The k-th digit from the right counts as it is or doubled, in turn.
Weight(digits, k) ==
  LET digit == digits[Len(digits) + 1 - k]
  IN IF k % 2 = 0 THEN Doubled(digit) ELSE digit

Total(digits) == Sum([k \in 1..Len(digits) |-> Weight(digits, k)])

LuhnCheck(digits) == Len(digits) \in 13..19 /\ Total(digits) % 10 = 0

\* How an issuer completes a number (ISO/IEC 7812): from the right, every second
\* digit starting with the last is doubled, the digits of the products are added.
IssuerPart(payload, i) ==
  IF (Len(payload) - i) % 2 = 0
  THEN ((2 * payload[i]) \div 10) + ((2 * payload[i]) % 10)
  ELSE payload[i]

CheckDigit(payload) ==
  (10 - (Sum([i \in 1..Len(payload) |-> IssuerPart(payload, i)]) % 10)) % 10

Issued == {Append(p, CheckDigit(p)) : p \in Payloads}

-----------------------------------------------------------------------------
NoTree == [kind |-> [n \in Nodes |-> "other"], parent |-> [n \in Nodes |-> 0]]

Init ==
  /\ \/ stage = "args" /\ tree \in Trees /\ todo = <<1>> /\ card = << >>
     \/ stage = "sent" /\ tree = NoTree /\ todo = << >> /\ card = << >>
     \/ stage = "issued" /\ tree = NoTree /\ todo = << >> /\ card \in Issued
  /\ hits = << >> /\ found = << >> /\ at = 0 /\ kept = << >> /\ chars = << >>

Children(n) == {m \in Nodes : tree.parent[m] = n}

\* Of the items of a list only strings and dicts are looked at.
Items(n) == {m \in Children(n) : tree.kind[m] \in {"str", "dict"}}

Looked(n) ==
  CASE tree.kind[n] = "dict" -> Children(n)
    [] tree.kind[n] = "list" -> Items(n)
    [] OTHER -> {}

\* One value of scan_dict(): scan() a string, go into a dict or a list, which hold
\* their values in any order.
Visit ==
  /\ stage = "args" /\ todo # << >>
  /\ \E order \in SetToSeqs(Looked(Head(todo))) : todo' = order \o Tail(todo)
  /\ hits' = IF tree.kind[Head(todo)] = "str" THEN Append(hits, Head(todo)) ELSE hits
  /\ UNCHANGED <<stage, tree, found, at, kept, chars, card>>

\* The patterns were matched against the reply, the matches sorted.
ScanReply ==
  /\ stage = "sent"
  /\ stage' = "reply"
  /\ found' \in MatchLists
  /\ UNCHANGED <<tree, todo, hits, at, kept, chars, card>>

\* _dedup_overlaps(): max_end is the end of the last finding that was kept.
MaxEnd == IF kept = << >> THEN -1 ELSE Last(kept).end

\* Slip: two findings that touch are taken to overlap.
FreshStrictly(f) == f.start > MaxEnd
Fresh(f) == f.start >= MaxEnd

Dedup ==
  /\ stage = "reply" /\ at < Len(found)
  /\ at' = at + 1
  /\ kept' = IF Fresh(found[at']) THEN Append(kept, found[at']) ELSE kept
  /\ UNCHANGED <<stage, tree, todo, hits, found, chars, card>>

StartSanitize ==
  /\ stage = "reply" /\ at = Len(found)
  /\ stage' = "redact" /\ chars' = Text /\ at' = Len(kept)
  /\ UNCHANGED <<tree, todo, hits, found, kept, card>>

Mark == [i \in 1..MarkLen |-> 0]

\* Slip: from left to right, as the findings are listed.
NextSpanLeft == kept[Len(kept) + 1 - at]
NextSpan == kept[at]

\* chars[f.start:f.end] = "[REDACTED]", from right to left.
Redact ==
  /\ stage = "redact" /\ at > 0
  /\ chars' = SubSeq(chars, 1, NextSpan.start) \o Mark
                \o SubSeq(chars, NextSpan.end + 1, Len(chars))
  /\ at' = at - 1
  /\ UNCHANGED <<stage, tree, todo, hits, found, kept, card>>

Sanitized ==
  /\ stage = "redact" /\ at = 0
  /\ stage' = "done"
  /\ UNCHANGED <<tree, todo, hits, found, at, kept, chars, card>>

\* One digit of a card number is mistyped.
Mistype ==
  /\ stage = "issued"
  /\ \E i \in 1..Len(card), d \in 0..9 :
       d # card[i] /\ card' = [card EXCEPT ![i] = d]
  /\ stage' = "typo"
  /\ UNCHANGED <<tree, todo, hits, found, at, kept, chars>>

Next == Visit \/ ScanReply \/ Dedup \/ StartSanitize \/ Redact \/ Sanitized \/ Mistype

Spec == Init /\ [][Next]_vars

-----------------------------------------------------------------------------
(* Properties *)
Compared == {found[i] : i \in 1..at}

\* At every moment of the removal of overlaps: the findings that are kept are in
\* order and disjoint, and a finding was dropped only for one that is kept, that
\* overlaps it and that starts no later.
KeptAreDisjoint ==
  stage = "reply" =>
    /\ \A i \in 1..Len(kept) : \A j \in 1..(i - 1) : kept[j].end <= kept[i].start
    /\ ToSet(kept) \subseteq Compared
    /\ \A f \in Compared \ ToSet(kept) :
         \E g \in ToSet(kept) : Overlap(f, g) /\ g.start <= f.start

\* What a character of the reply becomes: the first of a span the mark, the others
\* of it nothing.
Piece(i) ==
  IF \E f \in ToSet(kept) : i = f.start + 1 THEN Mark
  ELSE IF \E f \in ToSet(kept) : i \in Covers(f) THEN << >>
  ELSE <<i>>

\* What the last k characters become.
Rest[k \in 0..TextLen] ==
  IF k = 0 THEN << >> ELSE Piece(TextLen + 1 - k) \o Rest[k - 1]

\* The text that sanitize() returns: each span it was given is one mark, everything
\* else is there, in order.
RedactedExactly == stage = "done" => chars = Rest[TextLen]

\* The validator knows every number an issuer gave out, of any length a card has,
\* and none that has one wrong digit.
LuhnTellsCards ==
  /\ stage = "issued" => LuhnCheck(card)
  /\ stage = "typo" => ~LuhnCheck(card)

-----------------------------------------------------------------------------
(* What the code says of the removal of overlaps; it does not keep it. *)

\* "Remove findings whose span overlaps with a higher-priority finding.": a finding
\* is removed only for one that is kept, overlaps it and is no milder.
HigherPriorityKept ==
  stage = "redact" =>
    \A f \in ToSet(found) \ ToSet(kept) : \E g \in ToSet(kept) :
      Overlap(f, g) /\ PatternLevel[g.pat] >= PatternLevel[f.pat]
=============================================================================

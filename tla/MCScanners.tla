------------------------------ MODULE MCScanners ------------------------------
(* Scanners for TLC: a critical, a high and a medium pattern, in the order of
   the list in dlp/inbound.py.                                               *)
EXTENDS Scanners

Levels == <<4, 3, 2>>

\* Numbers with one digit that stands out and one where the filling changes.
Numbers(lengths, digits) ==
  UNION {{[i \in 1..(n - 1) |-> IF i = k THEN d ELSE IF i < k THEN e ELSE 7] :
            k \in 1..(n - 1), d \in 0..9, e \in digits} : n \in lengths}

Cards == Numbers({13, 16, 19}, {0, 5})
=============================================================================

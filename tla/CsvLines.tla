------------------------------ MODULE CsvLines ------------------------------
(***************************************************************************)
(* What a reader of a text promises to its caller: each call gives the     *)
(* next line of the text, complete, or tells why there is none.            *)
(*                                                                         *)
(* A text is its size and the places of its line feeds.  A byte of it is   *)
(* known by its place, so that a line lost, repeated or torn shows.        *)
(***************************************************************************)
EXTENDS Naturals

CONSTANT Limit    \* the size of the longest line, its line feed included

VARIABLES
  text,      \* [size, breaks]
  at,        \* the bytes of the text given so far
  line,      \* the last line given
  outcome    \* of the last call: "none" was made yet, "line", "end", "tooLong"
             \* or "failed"; "torn" is a line cut off by a failure

vars == <<text, at, line, outcome>>

\* The bytes of the text after the first m, up to the n-th.
Bytes(m, n) == [i \in 1..(n - m) |-> m + i]

\* The line feed that ends the line which follows the first m bytes.
Ends(m, b) == b \in text.breaks /\ b > m /\ \A c \in text.breaks : c > m => b <= c

Init ==
  /\ text \in [size : Nat, breaks : SUBSET Nat]
  /\ at = 0 /\ line = <<>> /\ outcome = "none"

Give ==
  /\ outcome \in {"none", "line", "failed"}
  /\ \E b \in text.breaks :
       /\ Ends(at, b) /\ b - at <= Limit
       /\ line' = Bytes(at, b - 1)
       /\ at' = b
  /\ outcome' = IF outcome = "failed" THEN "failed" ELSE "line"
  /\ UNCHANGED text

\* The text is read to its end.
End ==
  /\ outcome \in {"none", "line"} /\ at = text.size
  /\ outcome' = "end"
  /\ UNCHANGED <<text, at, line>>

\* The next line is too long.  That is the end as well: it stays the next one.
Refuse ==
  /\ outcome \in {"none", "line", "failed"}
  /\ \E b \in text.breaks : Ends(at, b) /\ b - at > Limit
  /\ outcome' = "tooLong"
  /\ UNCHANGED <<text, at, line>>

\* The text cannot be read on.  Lines read before are still given ...
Fail ==
  /\ outcome \in {"none", "line"}
  /\ outcome' = "failed"
  /\ UNCHANGED <<text, at, line>>

\* ... the last of them perhaps not to its end ...
Tear ==
  /\ outcome = "failed"
  /\ \E n \in (at + 1)..text.size :
       /\ \A b \in text.breaks : b > at => n < b
       /\ line' = Bytes(at, n) /\ at' = n
  /\ outcome' = "torn"
  /\ UNCHANGED text

\* ... and then the end is told, whether or not it is the end of the text.
Stop ==
  /\ outcome \in {"failed", "torn"}
  /\ outcome' = "end"
  /\ UNCHANGED <<text, at, line>>

Next == Give \/ End \/ Refuse \/ Fail \/ Tear \/ Stop

Spec == Init /\ [][Next]_vars

=============================================================================

------------------------------ MODULE MCVdrCsv ------------------------------
(* Instances of VdrCsv for TLC. *)
EXTENDS VdrCsv, TLC

\* Every text of at most n characters.
Texts(n) == UNION {[1..k -> Chars] : k \in 0..n}

MCRows == Texts(5)
MCMessages == Texts(3)

\* Two of the five names: the library treats them alike.
MCWanted == {"received_at", "raw_data"}

\* Headers of either kind of file, and one that both readers accept.
MCHeaders ==
  UNION {[1..k -> Sought \union {"other"}] \union [1..k -> Wanted \union {"other"}] :
           k \in 1..3}
  \union {<<"timestamp", "received_at", "raw_data", "message">>}
=============================================================================

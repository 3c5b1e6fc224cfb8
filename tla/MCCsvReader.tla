----------------------------- MODULE MCCsvReader -----------------------------
(***************************************************************************)
(* A small instance of CsvReader.                                          *)
(***************************************************************************)
EXTENDS CsvReader

CONSTANT MaxSize   \* the size of the longest text

\* All texts of at most MaxSize bytes.
AllTexts ==
  UNION { { [size |-> n, breaks |-> b] :
              b \in {c \in SUBSET (1..n) : n > 0 => n \in c} } :
          n \in 0..MaxSize }

=============================================================================

----------------------------- MODULE MCDmReplay -----------------------------
(***************************************************************************)
(* Small instances of DmReplay.                                            *)
(***************************************************************************)
EXTENDS DmReplay

\* A log with repeated stamps and rows that cannot be read or dated, one
\* that is out of order, one with a row that is too long, and a file that is
\* no log.
MCRows ==
  [ dense |-> <<1, 3, 3, Unreadable, 5>>,
    loose |-> <<Undated, 2, 5, 4, Unreadable>>,
    jammed |-> <<1, 4, TooLong, 5>>,
    other |-> <<>> ]

MCCreated == [dense |-> 2]

AllFiles == {"dense", "loose", "jammed", "other"}
AllHeaded == {"dense", "loose", "jammed"}

=============================================================================

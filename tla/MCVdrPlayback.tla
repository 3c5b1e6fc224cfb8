--------------------------- MODULE MCVdrPlayback ---------------------------
(***************************************************************************)
(* Small instances of VdrPlayback.  A tick is a quarter of a second of a    *)
(* file that is stamped every other tick, so that both speeds are exact and *)
(* some stamps are no whole seconds.                                       *)
(***************************************************************************)
EXTENDS VdrPlayback

\* Stamps that repeat, a sentence without one, more lines due at once than
\* the buffer holds, and a last line that nothing follows.
MCLines ==
  [ timed |-> <<0, NoStamp, 2, 2, 2, 2, 8, 8, 10>>,
    plain |-> <<NoStamp, NoStamp, NoStamp, NoStamp, NoStamp>>,
    mixed |-> <<4, NoStamp, 0, 2, 6>> ]

AllFiles == {"timed", "plain", "mixed"}
TimedOnly == {"timed"}

LinesOf(S) == [f \in S |-> MCLines[f]]
AllLines == LinesOf(AllFiles)
TimedLines == LinesOf(TimedOnly)

BothModes == {"internal", "network"}
InternalMode == {"internal"}
MCSpeeds == {1, 2}

=============================================================================
